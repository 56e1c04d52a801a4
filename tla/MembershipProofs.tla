--------------------------- MODULE MembershipProofs ---------------------------
(***************************************************************************)
(* Theorems about Membership for any servers and any number of joins and   *)
(* faults.                                                                 *)
(***************************************************************************)
EXTENDS Membership, FiniteSetTheorems, TLAPS

Accepted == {"accepted", "follow", "install"}

ServerTyped ==
  /\ state \in [Server -> State] /\ \A s \in Joiner : state[s] # "LEADER"
  /\ newState \in [Server -> {"INIT", "BECOME_FOLLOWER", "FOLLOWER", None}]
  /\ peers \in [Server -> SUBSET Server]
  /\ rm \in [Server -> [port : Nat, members : SUBSET Server, open : BOOLEAN]]

JoinTyped ==
  /\ join \in [Server -> [pc : {"idle", "connect", "wait", "retry", "joined"} \cup Accepted,
                          info : News \cup {None}]]
  /\ join[Leader].pc = "idle"
  /\ \A s \in Joiner : join[s].pc \in Accepted => join[s].info \in News

\* The leader is sent nothing but requests to join, the others nothing but what
\* the leader sends.
LinkTyped ==
  /\ link \in [Server -> [Server -> Seq(News \cup {ConnectToLeader})]]
  /\ \A s \in Joiner : link[Leader][s] \in Seq(News) /\ \A t \in Joiner : link[s][t] = <<>>
  /\ link[Leader][Leader] = <<>>
  /\ \A s \in Joiner : link[s][Leader] \in Seq({ConnectToLeader})

TakenTyped ==
  /\ taken \in [Server -> Held \cup {None}]
  /\ \A s \in Joiner : taken[s] # None => taken[s].m \in News /\ taken[s].state # "LEADER"
  /\ taken[Leader] # None => taken[Leader].from \in Joiner /\ taken[Leader].m = ConnectToLeader

Handler == [from : Joiner, pc : {"send", "sent", "replace"}, list : SUBSET Server, port : Nat \ {0}]
Call == [to : Joiner, m : [type : {"MulticastSessionChange"}, peers : SUBSET Server,
                           port : Nat \ {0}]]
Death == [to : Joiner, dead : Joiner, port : Nat, read : BOOLEAN]

LeaderTyped ==
  /\ handlers \subseteq Handler /\ calls \subseteq Call /\ mail \subseteq Death
  /\ joins \in 0..MaxJoins /\ ports \in Nat
  /\ crashed \subseteq Joiner /\ panicked \in BOOLEAN /\ overlap \in BOOLEAN

Typed == ServerTyped /\ JoinTyped /\ LinkTyped /\ TakenTyped /\ LeaderTyped

-----------------------------------------------------------------------------
(* The ports drawn                                                         *)

\* The requests to join that the leader has not taken up, each at its place:
\* about to be sent, held by the leader's listener, or k-th on the way.
Place(s, k) ==
  \/ k = 0 /\ join[s].pc = "connect"
  \/ k = 1 /\ taken[Leader] # None /\ taken[Leader].from = s
  \/ k \in 2..(Len(link[s][Leader]) + 1)

Requests == {r \in Joiner \X Nat : Place(r[1], r[2])}

\* A port is drawn for a request, and a request made by a join.
Counted == IsFiniteSet(Requests) /\ Cardinality(Requests) + ports <= joins

\* The ports of which s knows or will know, where they are.
PortsOf(q) == {q[k].port : k \in DOMAIN q}
JoinPort(s) == IF join[s].pc \in Accepted THEN {join[s].info.port} ELSE {}
TakenPort(s) == IF taken[s] # None THEN {taken[s].m.port} ELSE {}
LinkPorts(s) == PortsOf(link[Leader][s])
CallPorts(s) == {c.m.port : c \in {d \in calls : d.to = s}}
Got(s) == {rm[s].port} \cup JoinPort(s) \cup TakenPort(s) \cup LinkPorts(s) \cup CallPorts(s)

\* Every port is one that was drawn.
Drawn ==
  /\ \A s \in Joiner : Got(s) \subseteq 0..ports
  /\ \A h \in handlers : h.port \in 0..ports
  /\ \A d \in mail : d.port \in 0..ports
  /\ rm[Leader].port \in 0..ports

\* No port is in two of these sets, or twice in the sequence q.
Apart(R, J, T, L, C) ==
  /\ R \cap (J \cup T \cup L \cup C) = {} /\ J \cap (T \cup L \cup C) = {}
  /\ T \cap (L \cup C) = {} /\ L \cap C = {}
Distinct(q) == \A j, k \in DOMAIN q : q[j].port = q[k].port => j = k

\* No port reaches a server twice.
Once(s) ==
  /\ Apart({rm[s].port}, JoinPort(s), TakenPort(s), LinkPorts(s), CallPorts(s))
  /\ Distinct(link[Leader][s])
  /\ \A c, d \in calls : c.to = s /\ d.to = s /\ c.m.port = d.m.port => c = d

\* The port of a call of connectToLeaderHandler is its own until it is sent.
Owned ==
  /\ \A g, h \in handlers : g.port = h.port => g = h
  /\ \A h \in handlers : \A s \in Joiner :
       h.pc = "send" \/ (h.pc = "sent" /\ s # h.from) => h.port \notin Got(s)

Fresh == Owned /\ \A s \in Joiner : Once(s) /\ rm[s].open

\* One call of connectToLeaderHandler at a time replaces what it has shut down.
Alone ==
  ~ overlap => /\ \A g, h \in handlers : g = h
               /\ rm[Leader].open \/ \E h \in handlers : h.pc = "replace"
               /\ ~ panicked

-----------------------------------------------------------------------------
(* What is on its way to a server that joins for the first time            *)

\* Its request, or the answer.
HasAnswer(q) == \E k \in DOMAIN q : q[k].type = "PeerInfo"
OneIn(q) ==
  \A j, k \in DOMAIN q : q[j].type = "PeerInfo" /\ q[k].type = "PeerInfo" => j = k
Requested(s) == link[s][Leader] # <<>>
Considered(s) == taken[Leader] # None /\ taken[Leader].from = s
Answering(s) == \E h \in handlers : h.pc = "send" /\ h.from = s
Answered(s) == HasAnswer(link[Leader][s])
Holds(s) == taken[s] # None /\ taken[s].m.type = "PeerInfo"

\* There is one at most, and only while the join waits.
OneAnswer(s) ==
  /\ join[s].pc # "retry"
  /\ join[s].pc # "wait" =>
       ~ Requested(s) /\ ~ Considered(s) /\ ~ Answering(s) /\ ~ Answered(s) /\ ~ Holds(s)
  /\ Requested(s) => /\ Len(link[s][Leader]) = 1
                     /\ ~ Considered(s) /\ ~ Answering(s) /\ ~ Answered(s) /\ ~ Holds(s)
  /\ Considered(s) => ~ Answering(s) /\ ~ Answered(s) /\ ~ Holds(s)
  /\ Answering(s) => ~ Answered(s) /\ ~ Holds(s)
  /\ Answered(s) => ~ Holds(s)
  /\ \A g, h \in handlers : g.pc = "send" /\ g.from = s /\ h.pc = "send" /\ h.from = s => g = h
  /\ OneIn(link[Leader][s])

FirstAnswers == \A s \in Joiner \ retried : OneAnswer(s)

-----------------------------------------------------------------------------
(* Types                                                                   *)

\* Who joins is not the leader.
LEMMA Joiners == Leader \in Server /\ Joiner \subseteq Server /\ Leader \notin Joiner
                 /\ \A s \in Server : s \in Joiner \/ s = Leader
BY LeaderAssumption DEF Joiner

\* A list and a port are news, and new news no request.
LEMMA NewsIs ==
  /\ \A type \in {"PeerInfo", "MulticastSessionChange"}, l \in SUBSET Server, p \in Nat \ {0} :
       /\ Change(type, l, p) \in News
       /\ Change(type, l, p).type = type /\ Change(type, l, p).peers = l
       /\ Change(type, l, p).port = p
  /\ \A m \in News : /\ m.type \in {"PeerInfo", "MulticastSessionChange"}
                     /\ m.peers \in SUBSET Server /\ m.port \in Nat \ {0}
  /\ ConnectToLeader.type = "ConnectToLeader"
  /\ ConnectToLeader \notin News
BY DEF News, Change, ConnectToLeader

\* A session is one of the values of s.rm.
LEMMA SessionIs ==
  \A l \in SUBSET Server, p \in Nat :
    /\ Session(l, p) \in [port : Nat, members : SUBSET Server, open : BOOLEAN]
    /\ Session(l, p).port = p /\ Session(l, p).members = l /\ Session(l, p).open
BY DEF Session

\* One link changes.
LEMMA LinkKept ==
  ASSUME LinkTyped, NEW s \in Server, NEW t \in Server,
         link' \in [Server -> [Server -> Seq(News \cup {ConnectToLeader})]],
         \A u, v \in Server : u # s \/ v # t => link'[u][v] = link[u][v],
         \/ s = Leader /\ t \in Joiner /\ link'[s][t] \in Seq(News)
         \/ s \in Joiner /\ t = Leader /\ link'[s][t] \in Seq({ConnectToLeader})
  PROVE  LinkTyped'
<1> DEFINE A == Seq(News)
           B == Seq({ConnectToLeader})
<1>1. ASSUME NEW u \in Joiner
      PROVE  /\ link'[Leader][u] \in A /\ link'[u][Leader] \in B
             /\ \A v \in Joiner : link'[u][v] = <<>>
  <2>1. /\ link[Leader][u] \in A /\ link[u][Leader] \in B
        /\ \A v \in Joiner : link[u][v] = <<>>
    BY DEF LinkTyped
  <2>2. \/ s = Leader /\ t \in Joiner /\ link'[s][t] \in A
        \/ s \in Joiner /\ t = Leader /\ link'[s][t] \in B
    BY Zenon
  <2> HIDE DEF A, B, LinkTyped
  <2> QED BY <2>1, <2>2, Joiners
<1>2. link'[Leader][Leader] = <<>>
  <2>1. link[Leader][Leader] = <<>>
    BY DEF LinkTyped
  <2> HIDE DEF LinkTyped
  <2> QED BY <2>1, Joiners
<1> QED BY <1>1, <1>2 DEF LinkTyped

\* A message is put at the end of one link.
LEMMA SendGoes ==
  ASSUME LinkTyped, NEW s \in Server, NEW t \in Server, NEW m, SendTo(s, t, m),
         \/ s = Leader /\ t \in Joiner /\ m \in News
         \/ s \in Joiner /\ t = Leader /\ m = ConnectToLeader
  PROVE  /\ LinkTyped'
         /\ link'[s][t] = Append(link[s][t], m)
         /\ \A u, v \in Server : u # s \/ v # t => link'[u][v] = link[u][v]
<1> DEFINE M == News \cup {ConnectToLeader}
           l == Append(link[s][t], m)
<1>1. m \in M /\ link \in [Server -> [Server -> Seq(M)]]
  BY DEF LinkTyped
<1>2. link' = [link EXCEPT ![s] = [link[s] EXCEPT ![t] = l]]
  BY DEF SendTo
<1>3. l \in Seq(M) /\ (s = Leader => l \in Seq(News)) /\ (t = Leader => l \in Seq({ConnectToLeader}))
  <2>1. link[s][t] \in Seq(M)
    BY <1>1
  <2>2. s = Leader => link[s][t] \in Seq(News) /\ m \in News
    BY Joiners DEF LinkTyped
  <2>3. t = Leader => link[s][t] \in Seq({ConnectToLeader}) /\ m \in {ConnectToLeader}
    BY Joiners DEF LinkTyped
  <2> HIDE DEF M, LinkTyped
  <2> QED BY <1>1, <2>1, <2>2, <2>3
<1> HIDE DEF l, M
<1>4. /\ link' \in [Server -> [Server -> Seq(M)]]
      /\ link'[s][t] = l
      /\ \A u, v \in Server : u # s \/ v # t => link'[u][v] = link[u][v]
  <2> HIDE DEF LinkTyped
  <2>1. link'[s] = [link[s] EXCEPT ![t] = l] /\ \A u \in Server : u # s => link'[u] = link[u]
    BY <1>1, <1>2
  <2>2. link[s] \in [Server -> Seq(M)]
    BY <1>1
  <2>3. link'[s][t] = l /\ \A v \in Server : v # t => link'[s][v] = link[s][v]
    BY <2>1, <2>2
  <2>4. [link[s] EXCEPT ![t] = l] \in [Server -> Seq(M)]
    BY <1>3, <2>2
  <2>5. link' \in [Server -> [Server -> Seq(M)]]
    BY <1>1, <1>2, <2>4
  <2> QED BY <2>1, <2>3, <2>5
<1>5. LinkTyped'
  BY <1>3, <1>4, LinkKept DEF M
<1> QED BY <1>4, <1>5 DEF l

\* The listener takes the first message of a link: the leader a request of a
\* joiner, a joiner news of the leader.
LEMMA TakeGoes ==
  ASSUME Typed, NEW s \in Server, Take(s)
  PROVE  \E t \in Server :
           LET m == Head(link[t][s]) IN
           /\ \/ s = Leader /\ t \in Joiner /\ m = ConnectToLeader
              \/ s \in Joiner /\ t = Leader /\ m \in News
           /\ taken[s] = None /\ link[t][s] # <<>>
           /\ taken'[s] # None /\ taken'[s].m = m /\ taken'[s].from = t
           /\ taken'[s].state = state[s]
           /\ \A u \in Server : u # s => taken'[u] = taken[u]
           /\ link'[t][s] = Tail(link[t][s])
           /\ \A u, v \in Server : u # t \/ v # s => link'[u][v] = link[u][v]
           /\ LinkTyped' /\ TakenTyped'
<1>0. PICK t \in Server :
        /\ taken[s] = None /\ link[t][s] # <<>>
        /\ taken' = [taken EXCEPT ![s] = [m |-> Head(link[t][s]), from |-> t, state |-> state[s]]]
        /\ link' = [link EXCEPT ![t] = [link[t] EXCEPT ![s] = Tail(link[t][s])]]
  BY DEF Take
<1> DEFINE M == News \cup {ConnectToLeader}
           m == Head(link[t][s])
           l == Tail(link[t][s])
           r == [m |-> m, from |-> t, state |-> state[s]]
<1>1. link \in [Server -> [Server -> Seq(M)]] /\ link[t][s] \in Seq(M)
  BY DEF Typed, LinkTyped
<1>2. \/ s = Leader /\ t \in Joiner /\ link[t][s] \in Seq({ConnectToLeader})
      \/ s \in Joiner /\ t = Leader /\ link[t][s] \in Seq(News)
  BY <1>0, Joiners DEF Typed, LinkTyped
<1>3. /\ m \in M /\ l \in Seq(M)
      /\ s = Leader => m = ConnectToLeader /\ l \in Seq({ConnectToLeader})
      /\ s \in Joiner => m \in News /\ l \in Seq(News)
  <2> HIDE DEF M, Typed
  <2> QED BY <1>0, <1>1, <1>2, Joiners
<1>4. state[s] \in State /\ (s \in Joiner => state[s] # "LEADER")
  BY DEF Typed, ServerTyped
<1>5. r \in Held /\ r.m = m /\ r.from = t /\ r.state = state[s]
  BY <1>3, <1>4 DEF Held
<1>6. r # None
  BY <1>5, NoneAssumption
<1>7. taken' = [taken EXCEPT ![s] = r] /\ taken \in [Server -> Held \cup {None}]
  BY <1>0 DEF Typed, TakenTyped
<1>8. link' = [link EXCEPT ![t] = [link[t] EXCEPT ![s] = l]]
  BY <1>0
<1> HIDE DEF r, m, l, M
<1>9. /\ taken' \in [Server -> Held \cup {None}]
      /\ taken'[s] = r /\ \A u \in Server : u # s => taken'[u] = taken[u]
  BY <1>5, <1>7
<1>10. TakenTyped'
  BY <1>2, <1>3, <1>4, <1>5, <1>9, Joiners DEF Typed, TakenTyped
<1>11. /\ link' \in [Server -> [Server -> Seq(M)]]
       /\ link'[t][s] = l
       /\ \A u, v \in Server : u # t \/ v # s => link'[u][v] = link[u][v]
  <2> HIDE DEF Typed
  <2>1. link'[t] = [link[t] EXCEPT ![s] = l] /\ \A u \in Server : u # t => link'[u] = link[u]
    BY <1>1, <1>8
  <2>2. link[t] \in [Server -> Seq(M)]
    BY <1>1
  <2>3. link'[t][s] = l /\ \A v \in Server : v # s => link'[t][v] = link[t][v]
    BY <2>1, <2>2
  <2>4. [link[t] EXCEPT ![s] = l] \in [Server -> Seq(M)]
    BY <1>3, <2>2
  <2>5. link' \in [Server -> [Server -> Seq(M)]]
    BY <1>1, <1>8, <2>4
  <2> QED BY <2>1, <2>3, <2>5
<1>12. LinkTyped'
  BY <1>2, <1>3, <1>11, LinkKept DEF Typed, M
<1> QED BY <1>0, <1>2, <1>3, <1>5, <1>6, <1>9, <1>10, <1>11, <1>12 DEF m, l

\* The listener lets go of what it holds.
LEMMA DoneGoes ==
  ASSUME TakenTyped, NEW s \in Server, Done(s)
  PROVE  /\ TakenTyped' /\ taken'[s] = None
         /\ \A u \in Server : u # s => taken'[u] = taken[u]
BY DEF TakenTyped, Done

\* A call of connectToLeaderHandler goes on.
LEMMA HandlerGoesOn ==
  ASSUME handlers \subseteq Handler, NEW h \in handlers, NEW pc \in {"send", "sent", "replace"},
         HandlerGoes(h, pc)
  PROVE  \E g \in Handler :
           /\ handlers' = (handlers \ {h}) \cup {g} /\ handlers' \subseteq Handler
           /\ g.from = h.from /\ g.pc = pc /\ g.list = h.list /\ g.port = h.port
<1> DEFINE g == [h EXCEPT !.pc = pc]
<1>1. g \in Handler /\ g.from = h.from /\ g.pc = pc /\ g.list = h.list /\ g.port = h.port
  BY DEF Handler
<1>2. handlers' = (handlers \ {h}) \cup {g}
  BY DEF HandlerGoes
<1> HIDE DEF g
<1> QED BY <1>1, <1>2

\* A join starts, waits or ends, without a message.
LEMMA JoinGoes ==
  ASSUME JoinTyped, NEW s \in Joiner, NEW pc \in {"idle", "connect", "wait", "retry", "joined"},
         join' = [join EXCEPT ![s] = At(pc)]
  PROVE  /\ JoinTyped' /\ join'[s].pc = pc /\ pc \notin Accepted
         /\ \A u \in Server : u # s => join'[u] = join[u]
<1>1. /\ At(pc).pc = pc
      /\ At(pc) \in [pc : {"idle", "connect", "wait", "retry", "joined"} \cup Accepted,
                     info : News \cup {None}]
  BY DEF At
<1>2. pc \notin Accepted
  BY DEF Accepted
<1> HIDE DEF At
<1>3. join'[s] = At(pc) /\ \A u \in Server : u # s => join'[u] = join[u]
  BY Joiners DEF JoinTyped
<1> QED BY <1>1, <1>2, <1>3, Joiners DEF JoinTyped

\* A join goes on with the message that it has.
LEMMA JoinGoesOn ==
  ASSUME JoinTyped, NEW s \in Joiner, join[s].pc \in Accepted, NEW pc \in Accepted,
         join' = [join EXCEPT ![s].pc = pc]
  PROVE  /\ JoinTyped' /\ join'[s].pc = pc /\ join'[s].info = join[s].info
         /\ \A u \in Server : u # s => join'[u] = join[u]
<1> DEFINE j == [join[s] EXCEPT !.pc = pc]
<1>1. join[s] \in [pc : {"idle", "connect", "wait", "retry", "joined"} \cup Accepted,
                   info : News \cup {None}]
  BY Joiners DEF JoinTyped
<1>2. /\ j.pc = pc /\ j.info = join[s].info
      /\ j \in [pc : {"idle", "connect", "wait", "retry", "joined"} \cup Accepted,
                info : News \cup {None}]
  BY <1>1
<1>3. join' = [join EXCEPT ![s] = j]
  OBVIOUS
<1> HIDE DEF j
<1>4. join'[s] = j /\ \A u \in Server : u # s => join'[u] = join[u]
  BY <1>3, Joiners DEF JoinTyped
<1> QED BY <1>2, <1>3, <1>4, Joiners DEF JoinTyped

\* A session is replaced.
LEMMA SessionGoes ==
  ASSUME rm \in [Server -> [port : Nat, members : SUBSET Server, open : BOOLEAN]],
         NEW s \in Server, NEW r \in [port : Nat, members : SUBSET Server, open : BOOLEAN],
         rm' = [rm EXCEPT ![s] = r]
  PROVE  /\ rm' \in [Server -> [port : Nat, members : SUBSET Server, open : BOOLEAN]]
         /\ rm'[s] = r /\ \A u \in Server : u # s => rm'[u] = rm[u]
OBVIOUS

\* A session is shut down, or loses a member.
LEMMA SessionLess ==
  ASSUME rm \in [Server -> [port : Nat, members : SUBSET Server, open : BOOLEAN]],
         NEW s \in Server
  PROVE  /\ LET r == [rm[s] EXCEPT !.open = FALSE] IN
              /\ r \in [port : Nat, members : SUBSET Server, open : BOOLEAN]
              /\ r.port = rm[s].port /\ r.members = rm[s].members /\ r.open = FALSE
         /\ \A d : LET r == [rm[s] EXCEPT !.members = rm[s].members \ {d}] IN
              /\ r \in [port : Nat, members : SUBSET Server, open : BOOLEAN]
              /\ r.port = rm[s].port /\ r.members = rm[s].members \ {d} /\ r.open = rm[s].open
<1>1. rm[s] \in [port : Nat, members : SUBSET Server, open : BOOLEAN]
  OBVIOUS
<1>2. LET r == [rm[s] EXCEPT !.open = FALSE] IN
        /\ r \in [port : Nat, members : SUBSET Server, open : BOOLEAN]
        /\ r.port = rm[s].port /\ r.members = rm[s].members /\ r.open = FALSE
  BY <1>1
<1>3. ASSUME NEW d
      PROVE  LET r == [rm[s] EXCEPT !.members = rm[s].members \ {d}] IN
               /\ r \in [port : Nat, members : SUBSET Server, open : BOOLEAN]
               /\ r.port = rm[s].port /\ r.members = rm[s].members \ {d} /\ r.open = rm[s].open
  BY <1>1
<1> QED BY <1>2, <1>3

\* The peers of one server change.
LEMMA PeersGo ==
  ASSUME peers \in [Server -> SUBSET Server], NEW s \in Server, NEW P \in SUBSET Server,
         peers' = [peers EXCEPT ![s] = P]
  PROVE  /\ peers' \in [Server -> SUBSET Server]
         /\ peers'[s] = P /\ \A u \in Server : u # s => peers'[u] = peers[u]
OBVIOUS

\* What a step does not touch keeps its types.
LEMMA TypedKept ==
  /\ ServerTyped /\ UNCHANGED <<state, newState, peers, rm>> => ServerTyped'
  /\ JoinTyped /\ UNCHANGED join => JoinTyped'
  /\ LinkTyped /\ UNCHANGED link => LinkTyped'
  /\ TakenTyped /\ UNCHANGED taken => TakenTyped'
  /\ LeaderTyped /\ UNCHANGED <<handlers, calls, mail, joins, ports, crashed, panicked, overlap>>
       => LeaderTyped'
BY DEF ServerTyped, JoinTyped, LinkTyped, TakenTyped, LeaderTyped

\* A server gets peers and a session.
LEMMA ServerChanges ==
  ASSUME ServerTyped, NEW s \in Server, NEW P \in SUBSET Server,
         NEW r \in [port : Nat, members : SUBSET Server, open : BOOLEAN],
         peers' = [peers EXCEPT ![s] = P], rm' = [rm EXCEPT ![s] = r],
         UNCHANGED <<state, newState>>
  PROVE  /\ ServerTyped'
         /\ peers'[s] = P /\ \A u \in Server : u # s => peers'[u] = peers[u]
         /\ rm'[s] = r /\ \A u \in Server : u # s => rm'[u] = rm[u]
<1>1. peers' \in [Server -> SUBSET Server] /\ peers'[s] = P
      /\ \A u \in Server : u # s => peers'[u] = peers[u]
  BY PeersGo DEF ServerTyped
<1>2. /\ rm' \in [Server -> [port : Nat, members : SUBSET Server, open : BOOLEAN]]
      /\ rm'[s] = r /\ \A u \in Server : u # s => rm'[u] = rm[u]
  BY SessionGoes DEF ServerTyped
<1> QED BY <1>1, <1>2 DEF ServerTyped

\* A session is shut down.
LEMMA ShutdownGoes ==
  ASSUME LeaderTyped, NEW s \in Server, Shutdown(s),
         UNCHANGED <<handlers, calls, mail, joins, ports, crashed, overlap>>
  PROVE  LeaderTyped' /\ (panicked' => panicked \/ ~ rm[s].open)
<1>1. panicked' \in BOOLEAN
  BY DEF Shutdown
<1>2. panicked' => panicked \/ ~ rm[s].open
  BY DEF Shutdown
<1> QED BY <1>1, <1>2 DEF LeaderTyped

\* BecomeFollowerToFollower gives the server what its join got; a session with the
\* same port it shuts down and keeps.
LEMMA JoinMulticastGoes ==
  ASSUME Typed, NEW s \in Server, s \in Joiner, JoinMulticast(s)
  PROVE  LET m == join[s].info IN
         /\ m \in News /\ join[s].pc \in Accepted
         /\ ServerTyped' /\ JoinTyped' /\ LeaderTyped'
         /\ join'[s].pc = "joined" /\ \A u \in Server : u # s => join'[u] = join[u]
         /\ peers'[s] = m.peers /\ \A u \in Server : u # s => peers'[u] = peers[u]
         /\ \A u \in Server : u # s => rm'[u] = rm[u]
         /\ rm'[s].port = m.port
         /\ rm[s].port # m.port => rm'[s] = Session(m.peers, m.port)
         /\ panicked' => panicked \/ ~ rm[s].open
<1>0. ServerTyped /\ JoinTyped /\ LinkTyped /\ TakenTyped /\ LeaderTyped /\ s \in Server
  BY Joiners DEF Typed
<1> DEFINE m == join[s].info
           r == Installed(s, m)
<1>1. join[s].pc \in Accepted /\ m \in News
  BY <1>0 DEF JoinMulticast, JoinTyped, Accepted
<1>2. m.peers \in SUBSET Server /\ m.port \in Nat
  BY <1>1, NewsIs
<1>3. /\ r \in [port : Nat, members : SUBSET Server, open : BOOLEAN]
      /\ r.port = m.port /\ (rm[s].port # m.port => r = Session(m.peers, m.port))
  <2>1. CASE rm[s].port # m.port
    <3>1. r = Session(m.peers, m.port)
      BY <2>1 DEF Installed
    <3> HIDE DEF r, m
    <3> QED BY <1>2, <2>1, <3>1, SessionIs
  <2>2. CASE rm[s].port = m.port
    <3>1. r = [rm[s] EXCEPT !.open = FALSE]
      BY <2>2 DEF Installed
    <3>2. rm \in [Server -> [port : Nat, members : SUBSET Server, open : BOOLEAN]]
      BY <1>0 DEF ServerTyped
    <3> HIDE DEF r, m
    <3> QED BY <1>0, <2>2, <3>1, <3>2, SessionLess
  <2> QED BY <2>1, <2>2
<1>r. r \in [port : Nat, members : SUBSET Server, open : BOOLEAN]
  BY <1>3
<1>4. /\ peers' = [peers EXCEPT ![s] = m.peers] /\ rm' = [rm EXCEPT ![s] = r]
      /\ Shutdown(s) /\ join' = [join EXCEPT ![s] = At("joined")]
      /\ UNCHANGED <<state, newState, handlers, calls, mail, joins, ports, crashed, overlap>>
  BY DEF JoinMulticast, leaderVars
<1> HIDE DEF r, m
<1>5. ServerTyped' /\ peers'[s] = m.peers /\ rm'[s] = r
      /\ \A u \in Server : u # s => rm'[u] = rm[u] /\ peers'[u] = peers[u]
  <2>1. PICK P \in SUBSET Server : P = m.peers
    BY <1>2
  <2>2. peers' = [peers EXCEPT ![s] = P] /\ rm' = [rm EXCEPT ![s] = r]
        /\ UNCHANGED <<state, newState>>
    BY <1>4, <2>1
  <2> HIDE DEF Typed, JoinMulticast, ChangeSession
  <2>3. ServerTyped' /\ peers'[s] = P /\ rm'[s] = r
        /\ \A u \in Server : u # s => rm'[u] = rm[u] /\ peers'[u] = peers[u]
    BY <1>0, <1>r, <2>2, ServerChanges
  <2> QED BY <2>1, <2>3
<1>6. JoinTyped' /\ join'[s].pc = "joined" /\ \A u \in Server : u # s => join'[u] = join[u]
  BY <1>0, <1>4, JoinGoes
<1>7. LeaderTyped' /\ (panicked' => panicked \/ ~ rm[s].open)
  BY <1>0, <1>4, ShutdownGoes
<1> QED BY <1>1, <1>3, <1>5, <1>6, <1>7 DEF m

\* A session change gives the server what it says.
LEMMA ChangeSessionGoes ==
  ASSUME Typed, NEW s \in Server, ChangeSession(s)
  PROVE  LET m == taken[s].m IN
         /\ s \in Joiner /\ taken[s] # None /\ m \in News /\ m.type = "MulticastSessionChange"
         /\ ServerTyped' /\ TakenTyped' /\ LeaderTyped'
         /\ taken'[s] = None /\ \A u \in Server : u # s => taken'[u] = taken[u]
         /\ peers'[s] = m.peers /\ \A u \in Server : u # s => peers'[u] = peers[u]
         /\ rm'[s] = Session(m.peers, m.port) /\ \A u \in Server : u # s => rm'[u] = rm[u]
         /\ panicked' => panicked \/ ~ rm[s].open
<1>0. ServerTyped /\ JoinTyped /\ LinkTyped /\ TakenTyped /\ LeaderTyped
  BY DEF Typed
<1> DEFINE m == taken[s].m
           r == Session(m.peers, m.port)
<1>1. taken[s] # None /\ m.type = "MulticastSessionChange" /\ m \in News /\ s \in Joiner
  BY <1>0, Joiners, NewsIs DEF ChangeSession, TakenTyped
<1>2. m.peers \in SUBSET Server /\ m.port \in Nat
  BY <1>1, NewsIs
<1>3. r \in [port : Nat, members : SUBSET Server, open : BOOLEAN]
  BY <1>2, SessionIs
<1>4. /\ peers' = [peers EXCEPT ![s] = m.peers] /\ rm' = [rm EXCEPT ![s] = r]
      /\ Shutdown(s) /\ Done(s)
      /\ UNCHANGED <<state, newState, handlers, calls, mail, joins, ports, crashed, overlap>>
  BY DEF ChangeSession, leaderVars
<1> HIDE DEF r, m
<1>5. ServerTyped' /\ peers'[s] = m.peers /\ rm'[s] = r
      /\ \A u \in Server : u # s => rm'[u] = rm[u] /\ peers'[u] = peers[u]
  <2>1. PICK P \in SUBSET Server : P = m.peers
    BY <1>2
  <2>2. peers' = [peers EXCEPT ![s] = P] /\ rm' = [rm EXCEPT ![s] = r]
        /\ UNCHANGED <<state, newState>>
    BY <1>4, <2>1
  <2> HIDE DEF Typed, JoinMulticast, ChangeSession
  <2>3. ServerTyped' /\ peers'[s] = P /\ rm'[s] = r
        /\ \A u \in Server : u # s => rm'[u] = rm[u] /\ peers'[u] = peers[u]
    BY <1>0, <1>3, <2>2, ServerChanges
  <2> QED BY <2>1, <2>3
<1>6. TakenTyped' /\ taken'[s] = None /\ \A u \in Server : u # s => taken'[u] = taken[u]
  BY <1>0, <1>4, DoneGoes
<1>7. LeaderTyped' /\ (panicked' => panicked \/ ~ rm[s].open)
  BY <1>0, <1>4, ShutdownGoes
<1> QED BY <1>1, <1>5, <1>6, <1>7 DEF m, r

\* A waiting join gets the peer list that the listener holds.
LEMMA GetPeerInfoGoes ==
  ASSUME Typed, NEW s \in Server, GetPeerInfo(s)
  PROVE  /\ s \in Joiner /\ taken[s] # None /\ taken[s].m \in News
         /\ taken[s].m.type = "PeerInfo" /\ join[s].pc = "wait"
         /\ JoinTyped' /\ TakenTyped'
         /\ taken'[s] = None /\ \A u \in Server : u # s => taken'[u] = taken[u]
         /\ join'[s].pc \in Accepted /\ join'[s].info = taken[s].m
         /\ \A u \in Server : u # s => join'[u] = join[u]
<1>0. ServerTyped /\ JoinTyped /\ LinkTyped /\ TakenTyped /\ LeaderTyped
  BY DEF Typed
<1>1. /\ taken[s].m \in News /\ s # Leader /\ s \in Joiner /\ taken[s] # None
      /\ taken[s].m.type = "PeerInfo" /\ join[s].pc = "wait"
  BY <1>0, NewsIs, Joiners DEF GetPeerInfo, TakenTyped
<1>2. TakenTyped' /\ taken'[s] = None /\ \A u \in Server : u # s => taken'[u] = taken[u]
  BY <1>0, DoneGoes DEF GetPeerInfo
<1> DEFINE j == [pc |-> "accepted", info |-> taken[s].m]
<1>3. /\ j \in [pc : {"idle", "connect", "wait", "retry", "joined"} \cup Accepted,
               info : News \cup {None}]
      /\ j.info = taken[s].m /\ j.pc \in Accepted
  BY <1>1 DEF Accepted
<1>4. join' = [join EXCEPT ![s] = j]
  BY DEF GetPeerInfo
<1> HIDE DEF j
<1>5. JoinTyped' /\ join'[s] = j /\ \A u \in Server : u # s => join'[u] = join[u]
  BY <1>0, <1>1, <1>3, <1>4, Joiners DEF JoinTyped
<1> QED BY <1>1, <1>2, <1>3, <1>5

\* The initial state is well typed.
LEMMA TypedInit == Init => Typed
<1> SUFFICES ASSUME Init PROVE Typed
  OBVIOUS
<1>1. ServerTyped
  BY Joiners DEF Init, ServerTyped, State, Session
<1>2. JoinTyped
  BY Joiners DEF Init, JoinTyped, At, Accepted
<1>3. LinkTyped
  BY Joiners DEF Init, LinkTyped
<1>4. TakenTyped
  BY Joiners DEF Init, TakenTyped
<1>5. LeaderTyped
  <2>1. 0 \in 0..MaxJoins
    BY BoundAssumption
  <2>2. panicked \in BOOLEAN /\ overlap \in BOOLEAN
    BY Zenon DEF Init
  <2> QED BY <2>1, <2>2 DEF Init, LeaderTyped
<1> QED BY <1>1, <1>2, <1>3, <1>4, <1>5 DEF Typed

\* The steps of a join keep the types.
LEMMA TypedJoin ==
  ASSUME Typed, NEW s \in Joiner, BeginJoin(s) \/ JoinTimesOut(s) \/ JoinStep(s)
  PROVE  Typed'
<1>0. ServerTyped /\ JoinTyped /\ LinkTyped /\ TakenTyped /\ LeaderTyped /\ s \in Server
  BY Joiners DEF Typed
<1>t. ASSUME NEW st \in {"INIT", "BECOME_FOLLOWER", "FOLLOWER"}, ToMain(s, st),
             UNCHANGED <<state, peers, rm>>
      PROVE  ServerTyped'
  BY <1>0, <1>t DEF ToMain, ServerTyped
<1> USE DEF leaderVars, faultVars
<1>1. CASE BeginJoin(s)
  <2>1. JoinTyped' /\ ServerTyped'
    BY <1>0, <1>1, <1>t, JoinGoes DEF BeginJoin
  <2>2. joins' \in 0..MaxJoins
    BY <1>0, <1>1, BoundAssumption DEF BeginJoin, LeaderTyped
  <2>3. LeaderTyped'
    BY <1>0, <1>1, <2>2 DEF BeginJoin, LeaderTyped
  <2> QED BY <1>0, <1>1, <2>1, <2>3, TypedKept DEF BeginJoin, Typed
<1>2. CASE SendConnect(s)
  <2>1. JoinTyped' /\ LinkTyped'
    BY <1>0, <1>2, JoinGoes, SendGoes, Joiners DEF SendConnect
  <2> QED BY <1>0, <1>2, <2>1, TypedKept DEF SendConnect, Typed
<1>3. CASE JoinTimesOut(s)
  <2>1. JoinTyped'
    BY <1>0, <1>3, JoinGoes DEF JoinTimesOut
  <2> QED BY <1>0, <1>3, <2>1, TypedKept DEF JoinTimesOut, Typed
<1>4. CASE Retry(s)
  <2>1. JoinTyped' /\ ServerTyped'
    BY <1>0, <1>4, <1>t, JoinGoes DEF Retry
  <2> QED BY <1>0, <1>4, <2>1, TypedKept DEF Retry, Typed
<1>5. CASE AddPeers(s)
  <2>1. join[s].pc \in Accepted /\ "follow" \in Accepted
    BY <1>5 DEF AddPeers, Accepted
  <2>2. JoinTyped'
    BY <1>0, <1>5, <2>1, JoinGoesOn DEF AddPeers
  <2>3. join[s].info.peers \in SUBSET Server
    BY <1>0, <2>1, NewsIs DEF JoinTyped
  <2>4. peers' \in [Server -> SUBSET Server]
    BY <1>0, <1>5, <2>3, PeersGo DEF AddPeers, ServerTyped
  <2>5. ServerTyped'
    BY <1>0, <1>5, <2>4 DEF AddPeers, ServerTyped
  <2> QED BY <1>0, <1>5, <2>2, <2>5, TypedKept DEF AddPeers, Typed
<1>6. CASE BecomeFollower(s)
  <2>1. join[s].pc \in Accepted /\ "install" \in Accepted
    BY <1>6 DEF BecomeFollower, Accepted
  <2>2. JoinTyped' /\ ServerTyped'
    BY <1>0, <1>6, <1>t, <2>1, JoinGoesOn DEF BecomeFollower
  <2> QED BY <1>0, <1>6, <2>2, TypedKept DEF BecomeFollower, Typed
<1>7. CASE JoinMulticast(s)
  BY <1>0, <1>7, JoinMulticastGoes, TypedKept DEF JoinMulticast, Typed
<1> QED BY <1>1, <1>2, <1>3, <1>4, <1>5, <1>6, <1>7 DEF JoinStep

\* The steps of the main loop and of the unicast listener keep the types.
LEMMA TypedListener ==
  ASSUME Typed, NEW s \in Server, MainLoop(s) \/ ListenerStep(s)
  PROVE  Typed'
<1>0. ServerTyped /\ JoinTyped /\ LinkTyped /\ TakenTyped /\ LeaderTyped
  BY DEF Typed
<1> USE DEF leaderVars, faultVars
<1>1. CASE MainLoop(s)
  <2>1. newState[s] \in {"INIT", "BECOME_FOLLOWER", "FOLLOWER"}
    BY <1>0, <1>1 DEF MainLoop, ServerTyped
  <2>2. /\ state' = [state EXCEPT ![s] = newState[s]] /\ newState' = [newState EXCEPT ![s] = None]
        /\ UNCHANGED <<peers, rm>>
    BY <1>1 DEF MainLoop
  <2>3. state' \in [Server -> State] /\ \A t \in Joiner : state'[t] # "LEADER"
    BY <1>0, <2>1, <2>2, Joiners DEF ServerTyped, State
  <2>4. ServerTyped'
    BY <1>0, <2>2, <2>3 DEF ServerTyped
  <2> QED BY <1>0, <1>1, <2>4, TypedKept DEF MainLoop, Typed
<1>2. CASE Take(s)
  <2>1. LinkTyped' /\ TakenTyped'
    BY <1>2, TakeGoes
  <2> QED BY <1>0, <1>2, <2>1, TypedKept DEF Take, Typed
<1>3. CASE ChangeSession(s)
  BY <1>0, <1>3, ChangeSessionGoes, TypedKept DEF ChangeSession, Typed
<1>4. CASE Drop(s)
  <2>1. TakenTyped'
    BY <1>0, <1>4, DoneGoes DEF Drop
  <2> QED BY <1>0, <1>4, <2>1, TypedKept DEF Drop, Typed
<1>5. CASE GetPeerInfo(s)
  BY <1>0, <1>5, GetPeerInfoGoes, TypedKept DEF GetPeerInfo, Typed
<1> QED BY <1>1, <1>2, <1>3, <1>4, <1>5 DEF ListenerStep

\* The leader takes up a request: it enters the server, draws a port and starts a
\* call of connectToLeaderHandler.
LEMMA ConnectGoes ==
  ASSUME Typed, NEW s, Connect(s)
  PROVE  /\ s \in Joiner /\ taken[Leader] # None /\ taken[Leader].from = s
         /\ Typed'
         /\ taken'[Leader] = None /\ \A u \in Server : u # Leader => taken'[u] = taken[u]
         /\ peers'[Leader] = peers[Leader] \cup {s}
         /\ \A u \in Server : u # Leader => peers'[u] = peers[u]
         /\ \E g \in Handler :
              /\ handlers' = handlers \cup {g} /\ g.from = s /\ g.pc = "send"
              /\ g.list = peers'[Leader] /\ g.port = ports + 1
         /\ ports' = ports + 1
<1>0. ServerTyped /\ JoinTyped /\ LinkTyped /\ TakenTyped /\ LeaderTyped /\ Leader \in Server
  BY Joiners DEF Typed
<1>1. s \in Joiner /\ taken[Leader] # None /\ taken[Leader].from = s
  BY <1>0 DEF Connect, TakenTyped
<1>2. TakenTyped' /\ taken'[Leader] = None /\ \A u \in Server : u # Leader => taken'[u] = taken[u]
  BY <1>0, DoneGoes DEF Connect
<1> DEFINE P == peers[Leader] \cup {s}
           g == [from |-> s, pc |-> "send", list |-> P, port |-> ports + 1]
<1>3. peers' = [peers EXCEPT ![Leader] = P] /\ handlers' = handlers \cup {g} /\ ports' = ports + 1
      /\ (overlap' \in BOOLEAN)
      /\ UNCHANGED <<state, newState, rm, join, link, calls, mail, joins, crashed, panicked>>
  BY DEF Connect, PeerList
<1>4. P \in SUBSET Server /\ ports \in Nat
  BY <1>0, <1>1, Joiners DEF ServerTyped, LeaderTyped
<1>5. g \in Handler /\ g.from = s /\ g.pc = "send" /\ g.list = P /\ g.port = ports + 1
  BY <1>1, <1>4 DEF Handler
<1> HIDE DEF g, P
<1>6. /\ peers' \in [Server -> SUBSET Server] /\ peers'[Leader] = P
      /\ \A u \in Server : u # Leader => peers'[u] = peers[u]
  BY <1>0, <1>3, <1>4, PeersGo DEF ServerTyped
<1>7. ServerTyped'
  BY <1>0, <1>3, <1>6 DEF ServerTyped
<1>8. LeaderTyped'
  <2> HIDE DEF Handler
  <2> QED BY <1>0, <1>3, <1>4, <1>5 DEF LeaderTyped
<1>9. Typed'
  BY <1>0, <1>2, <1>3, <1>7, <1>8, TypedKept DEF Typed
<1> QED BY <1>1, <1>2, <1>3, <1>5, <1>6, <1>9 DEF P

\* The peer list goes to the server that joins.
LEMMA HandlerSendGoes ==
  ASSUME Typed, NEW h \in handlers, HandlerSend(h)
  PROVE  /\ h \in Handler /\ h.pc = "send" /\ h.from \in Joiner
         /\ Typed'
         /\ \E g \in Handler : /\ handlers' = (handlers \ {h}) \cup {g} /\ g.from = h.from
                               /\ g.pc = "sent" /\ g.list = h.list /\ g.port = h.port
         /\ \E m \in News : /\ m.type = "PeerInfo" /\ m.peers = h.list /\ m.port = h.port
                           /\ link'[Leader][h.from] = Append(link[Leader][h.from], m)
         /\ \A u, v \in Server : u # Leader \/ v # h.from => link'[u][v] = link[u][v]
<1>0. ServerTyped /\ JoinTyped /\ LinkTyped /\ TakenTyped /\ LeaderTyped /\ Leader \in Server
  BY Joiners DEF Typed
<1>1. h \in Handler /\ h.pc = "send" /\ h.from \in Joiner /\ h.from \in Server
      /\ h.list \in SUBSET Server /\ h.port \in Nat \ {0}
  BY <1>0, Joiners DEF LeaderTyped, Handler, HandlerSend
<1>2. PICK m \in News : /\ m.type = "PeerInfo" /\ m.peers = h.list /\ m.port = h.port
                       /\ m = Change("PeerInfo", h.list, h.port)
  BY <1>1, NewsIs
<1>3. SendTo(Leader, h.from, m) /\ HandlerGoes(h, "sent")
      /\ UNCHANGED <<serverVars, calls, mail, ports, joins, faultVars>>
  BY <1>2 DEF HandlerSend
<1>4. /\ LinkTyped' /\ link'[Leader][h.from] = Append(link[Leader][h.from], m)
      /\ \A u, v \in Server : u # Leader \/ v # h.from => link'[u][v] = link[u][v]
  BY <1>0, <1>1, <1>3, SendGoes
<1>5. PICK g \in Handler :
        /\ handlers' = (handlers \ {h}) \cup {g} /\ handlers' \subseteq Handler
        /\ g.from = h.from /\ g.pc = "sent" /\ g.list = h.list /\ g.port = h.port
  BY <1>0, <1>3, HandlerGoesOn DEF LeaderTyped
<1>6. LeaderTyped'
  BY <1>0, <1>3, <1>5 DEF LeaderTyped, faultVars
<1>7. Typed'
  BY <1>0, <1>3, <1>4, <1>6, TypedKept DEF Typed, serverVars
<1> QED BY <1>1, <1>2, <1>4, <1>5, <1>7

\* The leader forgets a server.
LEMMA HandlerFailsGoes ==
  ASSUME Typed, NEW h \in handlers, HandlerFails(h)
  PROVE  /\ Typed' /\ handlers' = handlers \ {h}
         /\ peers'[Leader] = peers[Leader] \ {h.from}
         /\ \A u \in Server : u # Leader => peers'[u] = peers[u]
<1>0. ServerTyped /\ JoinTyped /\ LinkTyped /\ TakenTyped /\ LeaderTyped /\ Leader \in Server
  BY Joiners DEF Typed
<1> DEFINE P == peers[Leader] \ {h.from}
<1>1. P \in SUBSET Server
  BY <1>0 DEF ServerTyped
<1>2. /\ peers' = [peers EXCEPT ![Leader] = P] /\ handlers' = handlers \ {h}
      /\ UNCHANGED <<state, newState, rm, join, taken, link, calls, mail, ports, joins, crashed,
                     panicked, overlap>>
  BY DEF HandlerFails
<1> HIDE DEF P
<1>3. /\ peers' \in [Server -> SUBSET Server] /\ peers'[Leader] = P
      /\ \A u \in Server : u # Leader => peers'[u] = peers[u]
  BY <1>0, <1>1, <1>2, PeersGo DEF ServerTyped
<1>4. ServerTyped'
  BY <1>0, <1>2, <1>3 DEF ServerTyped
<1>5. LeaderTyped'
  BY <1>0, <1>2 DEF LeaderTyped
<1> QED BY <1>0, <1>2, <1>3, <1>4, <1>5, TypedKept DEF Typed, P

\* The session is shut down, and the others will be told of the new one.
LEMMA HandlerRetireGoes ==
  ASSUME Typed, NEW h \in handlers, HandlerRetire(h)
  PROVE  /\ h \in Handler /\ h.pc = "sent" /\ h.from \notin crashed
         /\ Typed'
         /\ \E g \in Handler : /\ handlers' = (handlers \ {h}) \cup {g} /\ g.from = h.from
                               /\ g.pc = "replace" /\ g.list = h.list /\ g.port = h.port
         /\ \A c : c \in calls' <=>
              \/ c \in calls
              \/ /\ c \in Call /\ c.to \in h.list \ {Leader, h.from}
                 /\ c.m.peers = h.list /\ c.m.port = h.port
         /\ rm'[Leader].port = rm[Leader].port /\ rm'[Leader].members = rm[Leader].members
         /\ \A u \in Server : u # Leader => rm'[u] = rm[u]
         /\ panicked' => panicked \/ ~ rm[Leader].open
<1>0. ServerTyped /\ JoinTyped /\ LinkTyped /\ TakenTyped /\ LeaderTyped /\ Leader \in Server
  BY Joiners DEF Typed
<1>1. h \in Handler /\ h.pc = "sent" /\ h.from \notin crashed
      /\ h.list \in SUBSET Server /\ h.port \in Nat \ {0}
  BY <1>0 DEF LeaderTyped, Handler, HandlerRetire
<1> DEFINE r == [rm[Leader] EXCEPT !.open = FALSE]
           m == SessionChange(h)
           new == {[to |-> t, m |-> m] : t \in h.list \ {Leader, h.from}}
<1>2. /\ calls' = calls \cup new /\ rm' = [rm EXCEPT ![Leader] = r]
      /\ HandlerGoes(h, "replace") /\ Shutdown(Leader)
      /\ UNCHANGED <<state, newState, peers, join, taken, link, mail, ports, joins, crashed,
                     overlap>>
  BY DEF HandlerRetire
<1>3. /\ r \in [port : Nat, members : SUBSET Server, open : BOOLEAN]
      /\ r.port = rm[Leader].port /\ r.members = rm[Leader].members
  BY <1>0, SessionLess DEF ServerTyped
<1>4. /\ m = [type |-> "MulticastSessionChange", peers |-> h.list, port |-> h.port]
  BY DEF SessionChange, Change
<1>5. \A c : c \in new <=> /\ c \in Call /\ c.to \in h.list \ {Leader, h.from}
                           /\ c.m.peers = h.list /\ c.m.port = h.port
  <2> HIDE DEF m
  <2>1. ASSUME NEW c \in new
        PROVE  /\ c \in Call /\ c.to \in h.list \ {Leader, h.from}
               /\ c.m.peers = h.list /\ c.m.port = h.port
    <3>1. PICK t \in h.list \ {Leader, h.from} : c = [to |-> t, m |-> m]
      OBVIOUS
    <3>2. t \in Joiner
      BY <1>1, Joiners
    <3> QED BY <1>1, <1>4, <3>1, <3>2 DEF Call
  <2>2. ASSUME NEW c \in Call, c.to \in h.list \ {Leader, h.from},
               c.m.peers = h.list, c.m.port = h.port
        PROVE  c \in new
    <3>1. c.m = m
      BY <1>4, <2>2 DEF Call
    <3>2. c = [to |-> c.to, m |-> m]
      BY <3>1 DEF Call
    <3> QED BY <2>2, <3>2
  <2> QED BY <2>1, <2>2
<1> HIDE DEF r, m, new
<1>6. /\ rm' \in [Server -> [port : Nat, members : SUBSET Server, open : BOOLEAN]]
      /\ rm'[Leader] = r /\ \A u \in Server : u # Leader => rm'[u] = rm[u]
  BY <1>0, <1>2, <1>3, SessionGoes DEF ServerTyped
<1>7. ServerTyped'
  BY <1>0, <1>2, <1>6 DEF ServerTyped
<1>8. PICK g \in Handler :
        /\ handlers' = (handlers \ {h}) \cup {g} /\ handlers' \subseteq Handler
        /\ g.from = h.from /\ g.pc = "replace" /\ g.list = h.list /\ g.port = h.port
  BY <1>0, <1>2, HandlerGoesOn DEF LeaderTyped
<1>9. panicked' \in BOOLEAN /\ (panicked' => panicked \/ ~ rm[Leader].open)
  BY <1>2 DEF Shutdown
<1>10. calls' \subseteq Call
  BY <1>0, <1>2, <1>5 DEF LeaderTyped
<1>11. LeaderTyped'
  BY <1>0, <1>2, <1>8, <1>9, <1>10 DEF LeaderTyped
<1>12. Typed'
  BY <1>0, <1>2, <1>7, <1>11, TypedKept DEF Typed
<1>13. \A c : c \in calls' <=>
              \/ c \in calls
              \/ /\ c \in Call /\ c.to \in h.list \ {Leader, h.from}
                 /\ c.m.peers = h.list /\ c.m.port = h.port
  BY <1>2, <1>5
<1> QED BY <1>1, <1>3, <1>6, <1>8, <1>9, <1>12, <1>13

\* The new session is the leader's.
LEMMA HandlerReplaceGoes ==
  ASSUME Typed, NEW h \in handlers, HandlerReplace(h)
  PROVE  /\ h \in Handler /\ h.pc = "replace" /\ Typed'
         /\ handlers' = handlers \ {h} /\ rm'[Leader] = Session(h.list, h.port)
         /\ \A u \in Server : u # Leader => rm'[u] = rm[u]
<1>0. ServerTyped /\ JoinTyped /\ LinkTyped /\ TakenTyped /\ LeaderTyped /\ Leader \in Server
  BY Joiners DEF Typed
<1>1. h \in Handler /\ h.pc = "replace" /\ h.list \in SUBSET Server /\ h.port \in Nat
  BY <1>0 DEF LeaderTyped, Handler, HandlerReplace
<1> DEFINE r == Session(h.list, h.port)
<1>2. r \in [port : Nat, members : SUBSET Server, open : BOOLEAN]
  BY <1>1, SessionIs
<1>3. rm' = [rm EXCEPT ![Leader] = r] /\ handlers' = handlers \ {h}
      /\ UNCHANGED <<state, newState, peers, join, taken, link, calls, mail, ports, joins, faultVars>>
  BY DEF HandlerReplace
<1> HIDE DEF r
<1>4. /\ rm' \in [Server -> [port : Nat, members : SUBSET Server, open : BOOLEAN]]
      /\ rm'[Leader] = r /\ \A u \in Server : u # Leader => rm'[u] = rm[u]
  BY <1>0, <1>2, <1>3, SessionGoes DEF ServerTyped
<1>5. ServerTyped'
  BY <1>0, <1>3, <1>4 DEF ServerTyped
<1>6. LeaderTyped'
  BY <1>0, <1>3 DEF LeaderTyped, faultVars
<1> QED BY <1>0, <1>1, <1>3, <1>4, <1>5, <1>6, TypedKept DEF Typed, r

\* A session change goes to a server.
LEMMA CallSendGoes ==
  ASSUME Typed, NEW c \in calls, CallSend(c)
  PROVE  /\ c \in Call /\ c.to \in Joiner /\ c.m \in News /\ c.m.type = "MulticastSessionChange"
         /\ Typed' /\ calls' = calls \ {c}
         /\ link'[Leader][c.to] = Append(link[Leader][c.to], c.m)
         /\ \A u, v \in Server : u # Leader \/ v # c.to => link'[u][v] = link[u][v]
<1>0. ServerTyped /\ JoinTyped /\ LinkTyped /\ TakenTyped /\ LeaderTyped /\ Leader \in Server
  BY Joiners DEF Typed
<1>1. c \in Call /\ c.to \in Joiner /\ c.to \in Server /\ c.m \in News
      /\ c.m.type = "MulticastSessionChange"
  BY <1>0, Joiners DEF LeaderTyped, Call, News
<1>2. SendTo(Leader, c.to, c.m) /\ calls' = calls \ {c}
      /\ UNCHANGED <<serverVars, handlers, mail, ports, joins, faultVars>>
  BY DEF CallSend
<1>3. /\ LinkTyped' /\ link'[Leader][c.to] = Append(link[Leader][c.to], c.m)
      /\ \A u, v \in Server : u # Leader \/ v # c.to => link'[u][v] = link[u][v]
  BY <1>0, <1>1, <1>2, SendGoes
<1>4. LeaderTyped'
  BY <1>0, <1>2 DEF LeaderTyped, faultVars
<1> QED BY <1>0, <1>1, <1>2, <1>3, <1>4, TypedKept DEF Typed, serverVars

\* The leader declares a peer dead, to who is in its session.
LEMMA DeclareDeadGoes ==
  ASSUME Typed, NEW s \in Joiner, DeclareDead(s)
  PROVE  /\ s \in peers[Leader]
         /\ Typed'
         /\ peers'[Leader] = peers[Leader] \ {s}
         /\ \A u \in Server : u # Leader => peers'[u] = peers[u]
         /\ rm'[Leader] \in [port : Nat, members : SUBSET Server, open : BOOLEAN]
         /\ rm'[Leader].port = rm[Leader].port /\ rm'[Leader].members = rm[Leader].members \ {s}
         /\ rm'[Leader].open = rm[Leader].open
         /\ \A u \in Server : u # Leader => rm'[u] = rm[u]
         /\ \A d : d \in mail' <=>
              \/ d \in mail
              \/ /\ d \in Death /\ d.dead = s /\ d.port = rm[Leader].port /\ ~ d.read
                 /\ rm[Leader].open /\ d.to \notin crashed
                 /\ rm[d.to].port = rm[Leader].port /\ rm[d.to].open
<1>0. ServerTyped /\ JoinTyped /\ LinkTyped /\ TakenTyped /\ LeaderTyped /\ Leader \in Server
  BY Joiners DEF Typed
<1> DEFINE P == peers[Leader] \ {s}
           r == [rm[Leader] EXCEPT !.members = rm[Leader].members \ {s}]
           new == IF rm[Leader].open
                  THEN {[to |-> t, dead |-> s, port |-> rm[Leader].port, read |-> FALSE] :
                         t \in {u \in Live \ {Leader} : rm[u].port = rm[Leader].port /\ rm[u].open}}
                  ELSE {}
<1>1. P \in SUBSET Server /\ s \in peers[Leader]
  BY <1>0 DEF ServerTyped, DeclareDead
<1>2. /\ peers' = [peers EXCEPT ![Leader] = P] /\ rm' = [rm EXCEPT ![Leader] = r]
      /\ mail' = mail \cup new
      /\ UNCHANGED <<state, newState, join, taken, link, handlers, calls, ports, joins, crashed,
                     panicked, overlap>>
  BY DEF DeclareDead
<1>3. /\ r \in [port : Nat, members : SUBSET Server, open : BOOLEAN]
      /\ r.port = rm[Leader].port /\ r.members = rm[Leader].members \ {s}
      /\ r.open = rm[Leader].open
  BY <1>0, SessionLess DEF ServerTyped
<1>p. rm[Leader].port \in Nat
  BY <1>0 DEF ServerTyped
<1>4. \A d : d \in new <=>
        /\ d \in Death /\ d.dead = s /\ d.port = rm[Leader].port /\ ~ d.read
        /\ rm[Leader].open /\ d.to \notin crashed
        /\ rm[d.to].port = rm[Leader].port /\ rm[d.to].open
  <2> HIDE DEF r, P
  <2>1. ASSUME NEW d \in new
        PROVE  /\ d \in Death /\ d.dead = s /\ d.port = rm[Leader].port /\ ~ d.read
               /\ rm[Leader].open /\ d.to \notin crashed
               /\ rm[d.to].port = rm[Leader].port /\ rm[d.to].open
    <3>1. rm[Leader].open
      OBVIOUS
    <3>2. PICK t \in {u \in Live \ {Leader} : rm[u].port = rm[Leader].port /\ rm[u].open} :
            d = [to |-> t, dead |-> s, port |-> rm[Leader].port, read |-> FALSE]
      BY <3>1
    <3>3. t \in Joiner /\ t \notin crashed /\ rm[t].port = rm[Leader].port /\ rm[t].open
      BY DEF Live, Joiner
    <3> HIDE DEF new
    <3> QED BY <1>p, <3>1, <3>2, <3>3 DEF Death
  <2>2. ASSUME NEW d \in Death, d.dead = s, d.port = rm[Leader].port, ~ d.read,
               rm[Leader].open, d.to \notin crashed, rm[d.to].port = rm[Leader].port, rm[d.to].open
        PROVE  d \in new
    <3>1. d = [to |-> d.to, dead |-> s, port |-> rm[Leader].port, read |-> FALSE]
      <4>1. d.read = FALSE /\ d.to \in Joiner
        BY <2>2 DEF Death
      <4> QED BY <2>2, <4>1 DEF Death
    <3>2. d.to \in {u \in Live \ {Leader} : rm[u].port = rm[Leader].port /\ rm[u].open}
      BY <2>2 DEF Death, Live, Joiner
    <3> QED BY <2>2, <3>1, <3>2
  <2> QED BY <2>1, <2>2
<1> HIDE DEF r, P, new
<1>5. /\ peers' \in [Server -> SUBSET Server] /\ peers'[Leader] = P
      /\ \A u \in Server : u # Leader => peers'[u] = peers[u]
  BY <1>0, <1>1, <1>2, PeersGo DEF ServerTyped
<1>6. /\ rm' \in [Server -> [port : Nat, members : SUBSET Server, open : BOOLEAN]]
      /\ rm'[Leader] = r /\ \A u \in Server : u # Leader => rm'[u] = rm[u]
  BY <1>0, <1>2, <1>3, SessionGoes DEF ServerTyped
<1>7. ServerTyped'
  BY <1>0, <1>2, <1>5, <1>6 DEF ServerTyped
<1>8. mail' \subseteq Death
  BY <1>0, <1>2, <1>4 DEF LeaderTyped
<1>9. LeaderTyped'
  BY <1>0, <1>2, <1>8 DEF LeaderTyped
<1>10. Typed'
  BY <1>0, <1>2, <1>7, <1>9, TypedKept DEF Typed
<1>11. \A d : d \in mail' <=>
              \/ d \in mail
              \/ /\ d \in Death /\ d.dead = s /\ d.port = rm[Leader].port /\ ~ d.read
                 /\ rm[Leader].open /\ d.to \notin crashed
                 /\ rm[d.to].port = rm[Leader].port /\ rm[d.to].open
  BY <1>2, <1>4
<1> QED BY <1>1, <1>3, <1>5, <1>6, <1>10, <1>11 DEF P

\* A member reads of a death in the session, if both sides are still in it.
LEMMA ReadDeathGoes ==
  ASSUME Typed, NEW d \in mail, ReadDeath(d)
  PROVE  /\ d \in Death /\ ~ d.read /\ Typed'
         /\ rm'[d.to].port = rm[d.to].port /\ rm'[d.to].open = rm[d.to].open
         /\ \A u \in Server : u # d.to => rm'[u] = rm[u]
         /\ \/ /\ rm[d.to].port # d.port \/ ~ rm[d.to].open
               /\ mail' = mail \ {d} /\ rm' = rm
            \/ /\ rm[d.to].port = d.port /\ rm[d.to].open
               /\ rm'[d.to].members = rm[d.to].members \ {d.dead}
               /\ \E e \in Death : /\ mail' = (mail \ {d}) \cup {e} /\ e.to = d.to
                                  /\ e.dead = d.dead /\ e.port = d.port /\ e.read
<1>0. ServerTyped /\ JoinTyped /\ LinkTyped /\ TakenTyped /\ LeaderTyped
  BY DEF Typed
<1>1. d \in Death /\ d.to \in Server /\ ~ d.read
  BY <1>0, Joiners DEF LeaderTyped, Death, ReadDeath
<1> DEFINE r == [rm[d.to] EXCEPT !.members = rm[d.to].members \ {d.dead}]
           e == [d EXCEPT !.read = TRUE]
<1>2. UNCHANGED <<state, newState, peers, join, taken, link, handlers, calls, ports, joins, crashed,
                  panicked, overlap>>
  BY DEF ReadDeath, faultVars
<1>3. CASE rm[d.to].port = d.port /\ rm[d.to].open
  <2>1. rm' = [rm EXCEPT ![d.to] = r] /\ mail' = (mail \ {d}) \cup {e}
    BY <1>3 DEF ReadDeath
  <2>2. /\ r \in [port : Nat, members : SUBSET Server, open : BOOLEAN]
        /\ r.port = rm[d.to].port /\ r.members = rm[d.to].members \ {d.dead}
        /\ r.open = rm[d.to].open
    BY <1>0, <1>1, SessionLess DEF ServerTyped
  <2>3. e \in Death /\ e.to = d.to /\ e.dead = d.dead /\ e.port = d.port /\ e.read
    BY <1>1 DEF Death
  <2> HIDE DEF r, e
  <2>4. /\ rm' \in [Server -> [port : Nat, members : SUBSET Server, open : BOOLEAN]]
        /\ rm'[d.to] = r /\ \A u \in Server : u # d.to => rm'[u] = rm[u]
    BY <1>0, <1>1, <2>1, <2>2, SessionGoes DEF ServerTyped
  <2>5. ServerTyped'
    BY <1>0, <1>2, <2>4 DEF ServerTyped
  <2>6. LeaderTyped'
    BY <1>0, <1>2, <2>1, <2>3 DEF LeaderTyped
  <2>7. Typed'
    BY <1>0, <1>2, <2>5, <2>6, TypedKept DEF Typed
  <2> QED BY <1>1, <1>3, <2>1, <2>2, <2>3, <2>4, <2>7
<1>4. CASE rm[d.to].port # d.port \/ ~ rm[d.to].open
  <2>1. mail' = mail \ {d} /\ rm' = rm
    BY <1>4 DEF ReadDeath
  <2>2. LeaderTyped'
    BY <1>0, <1>2, <2>1 DEF LeaderTyped
  <2>3. Typed'
    BY <1>0, <1>2, <2>1, <2>2, TypedKept DEF Typed
  <2> QED BY <1>1, <1>4, <2>1, <2>3
<1> QED BY <1>3, <1>4

\* A member strikes the dead from its peers.
LEMMA HandleDeathGoes ==
  ASSUME Typed, NEW d \in mail, HandleDeath(d)
  PROVE  /\ d \in Death /\ d.read /\ Typed' /\ mail' = mail \ {d}
         /\ peers'[d.to] = peers[d.to] \ {d.dead}
         /\ \A u \in Server : u # d.to => peers'[u] = peers[u]
<1>0. ServerTyped /\ JoinTyped /\ LinkTyped /\ TakenTyped /\ LeaderTyped
  BY DEF Typed
<1>1. d \in Death /\ d.to \in Server /\ d.read
  BY <1>0, Joiners DEF LeaderTyped, Death, HandleDeath
<1> DEFINE P == peers[d.to] \ {d.dead}
<1>2. P \in SUBSET Server
  BY <1>0, <1>1 DEF ServerTyped
<1>3. /\ peers' = [peers EXCEPT ![d.to] = P] /\ mail' = mail \ {d}
      /\ UNCHANGED <<state, newState, rm, join, taken, link, handlers, calls, ports, joins, crashed,
                     panicked, overlap>>
  BY DEF HandleDeath, faultVars
<1> HIDE DEF P
<1>4. /\ peers' \in [Server -> SUBSET Server] /\ peers'[d.to] = P
      /\ \A u \in Server : u # d.to => peers'[u] = peers[u]
  BY <1>0, <1>1, <1>2, <1>3, PeersGo DEF ServerTyped
<1>5. ServerTyped'
  BY <1>0, <1>3, <1>4 DEF ServerTyped
<1>6. LeaderTyped'
  BY <1>0, <1>3 DEF LeaderTyped
<1> QED BY <1>0, <1>1, <1>3, <1>4, <1>5, <1>6, TypedKept DEF Typed, P

\* Every step keeps the types.
LEMMA TypedStep ==
  ASSUME Typed, [Next]_vars
  PROVE  Typed'
<1>0. ServerTyped /\ JoinTyped /\ LinkTyped /\ TakenTyped /\ LeaderTyped
      /\ \A s \in crashed : s \in Joiner
  BY DEF Typed, LeaderTyped
<1> HIDE DEF Typed
<1>1. CASE \E s \in Joiner : \/ BeginJoin(s) \/ JoinTimesOut(s) \/ JoinStep(s) \/ Connect(s)
                            \/ DeclareDead(s)
  BY <1>1, TypedJoin, ConnectGoes, DeclareDeadGoes
<1>2. CASE \E s \in Server : MainLoop(s) \/ ListenerStep(s)
  BY <1>2, TypedListener
<1>3. CASE \E h \in handlers : HandlerSend(h) \/ HandlerRetire(h) \/ HandlerReplace(h) \/ HandlerFails(h)
  BY <1>3, HandlerSendGoes, HandlerRetireGoes, HandlerReplaceGoes, HandlerFailsGoes
<1>4. CASE \E c \in calls : CallSend(c)
  BY <1>4, CallSendGoes
<1>5. CASE \E d \in mail : ReadDeath(d) \/ HandleDeath(d)
  BY <1>5, ReadDeathGoes, HandleDeathGoes
<1>6. CASE \E d \in mail : LoseDeath(d)
  <2>1. LeaderTyped'
    BY <1>0, <1>6 DEF LoseDeath, faultVars, LeaderTyped
  <2>2. UNCHANGED <<serverVars, link>>
    BY <1>6 DEF LoseDeath
  <2> QED BY <1>0, <2>1, <2>2, TypedKept DEF serverVars, Typed
<1>7. CASE \E s \in Joiner : Crash(s)
  <2>1. LeaderTyped'
    BY <1>0, <1>7 DEF Crash, LeaderTyped
  <2>2. UNCHANGED <<serverVars, link>>
    BY <1>7 DEF Crash
  <2> QED BY <1>0, <2>1, <2>2, TypedKept DEF serverVars, Typed
<1>8. CASE UNCHANGED vars
  BY <1>0, <1>8, TypedKept DEF vars, serverVars, leaderVars, faultVars, Typed
<1> QED BY <1>0, <1>1, <1>2, <1>3, <1>4, <1>5, <1>6, <1>7, <1>8
        DEF Next, HandlerStep, MailStep, Live

-----------------------------------------------------------------------------
(* As many ports as requests                                               *)

\* The requests and ports go with the joins.
LEMMA CountedGoes ==
  ASSUME Counted, joins \in Nat, ports \in Nat, NEW a, NEW b,
         \/ Requests' \subseteq Requests /\ ports' = ports /\ joins' = joins
         \/ Requests' \subseteq Requests \cup {b} /\ ports' = ports /\ joins' = joins + 1
         \/ /\ a \in Requests /\ Requests' \subseteq (Requests \ {a}) \cup {b}
            /\ ports' = ports /\ joins' = joins
         \/ /\ a \in Requests /\ Requests' \subseteq Requests \ {a}
            /\ ports' = ports + 1 /\ joins' = joins
  PROVE  Counted'
<1> DEFINE S == Requests
           U == Requests'
<1>1. IsFiniteSet(S) /\ Cardinality(S) \in Nat /\ Cardinality(S) + ports <= joins
  BY FS_CardinalityType DEF Counted
<1>2. /\ IsFiniteSet(S \cup {b}) /\ Cardinality(S \cup {b}) \in Nat
      /\ Cardinality(S \cup {b}) <= Cardinality(S) + 1
  <2>1. /\ IsFiniteSet(S \cup {b})
        /\ Cardinality(S \cup {b}) = IF b \in S THEN Cardinality(S) ELSE Cardinality(S) + 1
    BY <1>1, FS_AddElement
  <2> QED BY <1>1, <2>1
<1>3. a \in S => /\ IsFiniteSet(S \ {a}) /\ Cardinality(S \ {a}) \in Nat
                 /\ Cardinality(S \ {a}) = Cardinality(S) - 1
  BY <1>1, FS_RemoveElement, FS_CardinalityType
<1>4. a \in S => /\ IsFiniteSet((S \ {a}) \cup {b}) /\ Cardinality((S \ {a}) \cup {b}) \in Nat
                 /\ Cardinality((S \ {a}) \cup {b}) <= Cardinality(S)
  <2> SUFFICES ASSUME a \in S
               PROVE  /\ IsFiniteSet((S \ {a}) \cup {b}) /\ Cardinality((S \ {a}) \cup {b}) \in Nat
                      /\ Cardinality((S \ {a}) \cup {b}) <= Cardinality(S)
    OBVIOUS
  <2> DEFINE V == S \ {a}
  <2>1. IsFiniteSet(V) /\ Cardinality(V) \in Nat /\ Cardinality(V) = Cardinality(S) - 1
    BY <1>3
  <2> HIDE DEF V, S
  <2>2. /\ IsFiniteSet(V \cup {b})
        /\ Cardinality(V \cup {b}) = IF b \in V THEN Cardinality(V) ELSE Cardinality(V) + 1
    BY <2>1, FS_AddElement
  <2>3. IsFiniteSet(V \cup {b}) /\ Cardinality(V \cup {b}) \in Nat /\ Cardinality(V \cup {b}) <= Cardinality(S)
    BY <1>1, <2>1, <2>2
  <2> QED BY <2>3 DEF V
<1>5. \A V : IsFiniteSet(V) /\ U \subseteq V => /\ IsFiniteSet(U) /\ Cardinality(U) \in Nat
                                              /\ Cardinality(U) <= Cardinality(V)
  BY FS_Subset, FS_CardinalityType
<1>6. \/ U \subseteq S /\ ports' = ports /\ joins' = joins
      \/ U \subseteq S \cup {b} /\ ports' = ports /\ joins' = joins + 1
      \/ a \in S /\ U \subseteq (S \ {a}) \cup {b} /\ ports' = ports /\ joins' = joins
      \/ a \in S /\ U \subseteq S \ {a} /\ ports' = ports + 1 /\ joins' = joins
  OBVIOUS
<1> HIDE DEF S, U
<1>7. IsFiniteSet(U) /\ Cardinality(U) + ports' <= joins'
  <2>1. CASE U \subseteq S /\ ports' = ports /\ joins' = joins
    BY <1>1, <1>5, <2>1
  <2>2. CASE U \subseteq S \cup {b} /\ ports' = ports /\ joins' = joins + 1
    BY <1>1, <1>2, <1>5, <2>2
  <2>3. CASE a \in S /\ U \subseteq (S \ {a}) \cup {b} /\ ports' = ports /\ joins' = joins
    BY <1>1, <1>4, <1>5, <2>3
  <2>4. CASE a \in S /\ U \subseteq S \ {a} /\ ports' = ports + 1 /\ joins' = joins
    BY <1>1, <1>3, <1>5, <2>4
  <2> QED BY <1>6, <2>1, <2>2, <2>3, <2>4
<1> QED BY <1>7 DEF U, Counted

\* A step that makes no request, and loses none that was taken up.
LEMMA CountedKept ==
  ASSUME Counted, joins \in Nat, ports \in Nat, UNCHANGED <<ports, joins>>,
         \A s \in Joiner : /\ join'[s].pc = "connect" => join[s].pc = "connect"
                           /\ link'[s][Leader] = link[s][Leader],
         taken'[Leader] \in {taken[Leader], None}
  PROVE  Counted'
<1>1. \A s \in Joiner, k \in Nat : Place(s, k)' => Place(s, k)
  BY DEF Place
<1>2. Requests' \subseteq Requests
  BY <1>1 DEF Requests
<1> QED BY <1>2, CountedGoes

\* What is at a place is a request.
LEMMA RequestAt ==
  ASSUME NEW s \in Joiner, NEW k \in Nat
  PROVE  <<s, k>> \in Requests <=> Place(s, k)
BY DEF Requests

\* Every step keeps the count.
LEMMA CountedStep ==
  ASSUME Typed, Counted, [Next]_vars
  PROVE  Counted'
<1>0. /\ joins \in Nat /\ ports \in Nat /\ Leader \in Server
      /\ \A s \in Joiner : s \in Server /\ s # Leader
      /\ \A s \in crashed : s \in Joiner
      /\ join[Leader].pc = "idle"
  BY Joiners, BoundAssumption DEF Typed, LeaderTyped, JoinTyped
<1>t. JoinTyped /\ LinkTyped /\ TakenTyped /\ ServerTyped /\ LeaderTyped
  BY DEF Typed
<1> HIDE DEF Typed
<1>1. ASSUME NEW s \in Joiner, BeginJoin(s) PROVE Counted'
  <2>1. /\ \A u \in Server : u # s => join'[u] = join[u]
        /\ UNCHANGED <<taken, link, ports>> /\ joins' = joins + 1
    BY <1>1, <1>t, JoinGoes DEF BeginJoin, leaderVars
  <2>2. \A u \in Joiner, k \in Nat : Place(u, k)' => Place(u, k) \/ (u = s /\ k = 0)
    BY <1>0, <2>1 DEF Place
  <2>3. Requests' \subseteq Requests \cup {<<s, 0>>}
    BY <2>2 DEF Requests
  <2> QED BY <1>0, <2>1, <2>3, CountedGoes
<1>2. ASSUME NEW s \in Joiner, SendConnect(s) PROVE Counted'
  <2> DEFINE k0 == Len(link[s][Leader]) + 2
  <2>1. /\ join[s].pc = "connect" /\ join'[s].pc = "wait"
        /\ \A u \in Server : u # s => join'[u] = join[u]
        /\ link'[s][Leader] = Append(link[s][Leader], ConnectToLeader)
        /\ \A u \in Server : u # s => link'[u][Leader] = link[u][Leader]
        /\ UNCHANGED <<taken, ports, joins>>
    <3>1. SendTo(s, Leader, ConnectToLeader) /\ join' = [join EXCEPT ![s] = At("wait")]
          /\ join[s].pc = "connect" /\ UNCHANGED <<taken, ports, joins>>
      BY <1>2 DEF SendConnect, leaderVars
    <3>2. /\ link'[s][Leader] = Append(link[s][Leader], ConnectToLeader)
          /\ \A u, v \in Server : u # s \/ v # Leader => link'[u][v] = link[u][v]
      BY <1>0, <1>t, <3>1, SendGoes
    <3>3. join'[s].pc = "wait" /\ \A u \in Server : u # s => join'[u] = join[u]
      BY <1>t, <3>1, JoinGoes
    <3> QED BY <1>0, <3>1, <3>2, <3>3
  <2>2. link[s][Leader] \in Seq({ConnectToLeader})
    BY <1>t DEF LinkTyped
  <2>3. Len(link'[s][Leader]) = Len(link[s][Leader]) + 1 /\ Len(link[s][Leader]) \in Nat
    BY <2>1, <2>2
  <2>4. \A u \in Joiner, k \in Nat :
          Place(u, k)' => (Place(u, k) /\ (u # s \/ k # 0)) \/ (u = s /\ k = k0)
    BY <1>0, <2>1, <2>3 DEF Place
  <2>5. Requests' \subseteq (Requests \ {<<s, 0>>}) \cup {<<s, k0>>}
    BY <2>4 DEF Requests
  <2>6. <<s, 0>> \in Requests
    BY <2>1, RequestAt DEF Place
  <2> QED BY <1>0, <2>1, <2>5, <2>6, CountedGoes
<1>3. ASSUME NEW s \in Joiner, JoinTimesOut(s) \/ Retry(s) PROVE Counted'
  <2>1. /\ join'[s].pc # "connect" /\ \A u \in Server : u # s => join'[u] = join[u]
        /\ UNCHANGED <<taken, link, ports, joins>>
    BY <1>3, <1>t, JoinGoes DEF JoinTimesOut, Retry, leaderVars
  <2> QED BY <1>0, <2>1, CountedKept
<1>4. ASSUME NEW s \in Joiner, AddPeers(s) \/ BecomeFollower(s) \/ JoinMulticast(s) PROVE Counted'
  <2>1. /\ join[s].pc \in Accepted /\ "follow" \in Accepted /\ "install" \in Accepted
    BY <1>4 DEF AddPeers, BecomeFollower, JoinMulticast, Accepted
  <2>2. /\ join'[s].pc # "connect" /\ \A u \in Server : u # s => join'[u] = join[u]
    BY <1>4, <1>t, <2>1, JoinGoes, JoinGoesOn DEF AddPeers, BecomeFollower, JoinMulticast
  <2>3. UNCHANGED <<taken, link, ports, joins>>
    BY <1>4 DEF AddPeers, BecomeFollower, JoinMulticast, leaderVars
  <2> QED BY <1>0, <2>2, <2>3, CountedKept
<1>5. ASSUME NEW s \in Server, MainLoop(s) PROVE Counted'
  <2>1. UNCHANGED <<join, taken, link, ports, joins>>
    BY <1>5 DEF MainLoop, leaderVars
  <2> QED BY <1>0, <2>1, CountedKept
<1>6. ASSUME NEW s \in Server, Take(s) PROVE Counted'
  <2>1. UNCHANGED <<join, ports, joins>>
    BY <1>6 DEF Take, leaderVars
  <2>2. CASE s # Leader
    <3>1. \A u \in Joiner : link'[u][Leader] = link[u][Leader]
      BY <1>0, <1>6, <2>2, TakeGoes
    <3>2. taken'[Leader] = taken[Leader]
      BY <1>0, <1>6, <2>2, TakeGoes
    <3> QED BY <1>0, <2>1, <3>1, <3>2, CountedKept
  <2>3. CASE s = Leader
    <3>1. PICK t \in Joiner :
            /\ taken[Leader] = None /\ link[t][Leader] # <<>>
            /\ taken'[Leader].from = t
            /\ link'[t][Leader] = Tail(link[t][Leader])
            /\ \A u \in Server : u # t => link'[u][Leader] = link[u][Leader]
      BY <1>0, <1>6, <2>3, TakeGoes
    <3> DEFINE k0 == Len(link[t][Leader]) + 1
    <3>2. link[t][Leader] \in Seq({ConnectToLeader})
      BY <1>t DEF LinkTyped
    <3>3. /\ Len(link[t][Leader]) \in Nat \ {0}
          /\ Len(link'[t][Leader]) = Len(link[t][Leader]) - 1
      <4> DEFINE q == link[t][Leader]
      <4>1. q \in Seq({ConnectToLeader}) /\ q # <<>> /\ link'[t][Leader] = Tail(q)
        BY <3>1, <3>2
      <4> HIDE DEF q
      <4>2. Len(q) \in Nat \ {0} /\ Len(Tail(q)) = Len(q) - 1
        BY <4>1
      <4> QED BY <4>1, <4>2 DEF q
    <3>4. \A u \in Joiner, k \in Nat :
            Place(u, k)' => (Place(u, k) /\ (u # t \/ k # k0)) \/ (u = t /\ k = 1)
      <4> SUFFICES ASSUME NEW u \in Joiner, NEW k \in Nat, Place(u, k)'
                   PROVE  (Place(u, k) /\ (u # t \/ k # k0)) \/ (u = t /\ k = 1)
        OBVIOUS
      <4>1. CASE k = 1 /\ taken'[Leader] # None /\ taken'[Leader].from = u
        BY <3>1, <4>1
      <4>2. CASE k = 0 /\ join'[u].pc = "connect"
        BY <2>1, <3>3, <4>2 DEF Place
      <4>3. CASE k \in 2..(Len(link'[u][Leader]) + 1) /\ u # t
        BY <1>0, <3>1, <4>3 DEF Place
      <4>4. CASE k \in 2..(Len(link'[u][Leader]) + 1) /\ u = t
        BY <3>3, <4>4 DEF Place
      <4> QED BY <4>1, <4>2, <4>3, <4>4 DEF Place
    <3>5. Requests' \subseteq (Requests \ {<<t, k0>>}) \cup {<<t, 1>>}
      BY <3>4 DEF Requests
    <3>6. <<t, k0>> \in Requests
      BY <3>3, RequestAt DEF Place
    <3> QED BY <1>0, <2>1, <3>5, <3>6, CountedGoes
  <2> QED BY <2>2, <2>3
<1>7. ASSUME NEW s \in Server, ChangeSession(s) \/ Drop(s) PROVE Counted'
  <2>1. UNCHANGED <<join, link, ports, joins>>
    BY <1>7 DEF ChangeSession, Drop, leaderVars
  <2>2. taken'[Leader] \in {taken[Leader], None}
    BY <1>0, <1>7, <1>t, DoneGoes DEF ChangeSession, Drop
  <2> QED BY <1>0, <2>1, <2>2, CountedKept
<1>8. ASSUME NEW s \in Server, GetPeerInfo(s) PROVE Counted'
  <2>1. UNCHANGED <<link, ports, joins>>
    BY <1>8 DEF GetPeerInfo, leaderVars
  <2>2. /\ s # Leader /\ join'[s].pc \in Accepted /\ \A u \in Server : u # s => join'[u] = join[u]
        /\ \A u \in Server : u # s => taken'[u] = taken[u]
    BY <1>0, <1>8, GetPeerInfoGoes
  <2>3. join'[s].pc # "connect"
    BY <2>2 DEF Accepted
  <2> QED BY <1>0, <2>1, <2>2, <2>3, CountedKept
<1>9. ASSUME NEW s, Connect(s) PROVE Counted'
  <2>1. /\ s \in Joiner /\ taken[Leader] # None /\ taken[Leader].from = s
        /\ taken'[Leader] = None /\ ports' = ports + 1
    BY <1>9, ConnectGoes
  <2>2. UNCHANGED <<join, link, joins>>
    BY <1>9 DEF Connect
  <2>3. \A u \in Joiner, k \in Nat : Place(u, k)' => Place(u, k) /\ (u # s \/ k # 1)
    BY <2>1, <2>2 DEF Place
  <2>4. Requests' \subseteq Requests \ {<<s, 1>>}
    BY <2>3 DEF Requests
  <2>5. <<s, 1>> \in Requests
    BY <2>1, RequestAt DEF Place
  <2> QED BY <1>0, <2>1, <2>2, <2>4, <2>5, CountedGoes
<1>10. ASSUME NEW h \in handlers, HandlerSend(h) PROVE Counted'
  <2>1. UNCHANGED <<join, taken, ports, joins>>
    BY <1>10 DEF HandlerSend, serverVars
  <2>2. \A u \in Joiner : link'[u][Leader] = link[u][Leader]
    BY <1>0, <1>10, HandlerSendGoes
  <2> QED BY <1>0, <2>1, <2>2, CountedKept
<1>11. ASSUME NEW c \in calls, CallSend(c) PROVE Counted'
  <2>1. UNCHANGED <<join, taken, ports, joins>>
    BY <1>11 DEF CallSend, serverVars
  <2>2. \A u \in Joiner : link'[u][Leader] = link[u][Leader]
    BY <1>0, <1>11, CallSendGoes
  <2> QED BY <1>0, <2>1, <2>2, CountedKept
<1>12. CASE \E h \in handlers : HandlerFails(h) \/ HandlerRetire(h) \/ HandlerReplace(h)
  <2>1. UNCHANGED <<join, taken, link, ports, joins>>
    BY <1>12 DEF HandlerFails, HandlerRetire, HandlerReplace
  <2> QED BY <1>0, <2>1, CountedKept
<1>13. CASE \/ \E s \in Joiner : DeclareDead(s) \/ Crash(s)
            \/ \E d \in mail : ReadDeath(d) \/ LoseDeath(d) \/ HandleDeath(d)
            \/ UNCHANGED vars
  <2>1. UNCHANGED <<join, taken, link, ports, joins>>
    BY <1>13 DEF DeclareDead, Crash, ReadDeath, LoseDeath, HandleDeath, vars, serverVars, leaderVars
  <2> QED BY <1>0, <2>1, CountedKept
<1> QED BY <1>0, <1>1, <1>2, <1>3, <1>4, <1>5, <1>6, <1>7, <1>8, <1>9, <1>10, <1>11, <1>12, <1>13
        DEF Next, JoinStep, ListenerStep, HandlerStep, MailStep, Live

-----------------------------------------------------------------------------
(* No port twice                                                           *)

\* The ports on a link, when its first message is taken or one is put at its end.
LEMMA PortsTail ==
  ASSUME NEW q \in Seq(News), q # <<>>
  PROVE  /\ PortsOf(q) = {Head(q).port} \cup PortsOf(Tail(q))
         /\ Distinct(q) => Distinct(Tail(q)) /\ Head(q).port \notin PortsOf(Tail(q))
<1>1. /\ Len(q) \in Nat \ {0} /\ DOMAIN q = 1..Len(q) /\ Head(q) = q[1]
      /\ DOMAIN Tail(q) = 1..(Len(q) - 1) /\ \A k \in DOMAIN Tail(q) : Tail(q)[k] = q[k + 1]
  OBVIOUS
<1>2. PortsOf(q) = {Head(q).port} \cup PortsOf(Tail(q))
  <2>1. ASSUME NEW k \in DOMAIN q PROVE q[k].port \in {Head(q).port} \cup PortsOf(Tail(q))
    <3>1. k = 1 \/ (k - 1 \in DOMAIN Tail(q) /\ Tail(q)[k - 1] = q[k])
      BY <1>1
    <3> QED BY <1>1, <3>1 DEF PortsOf
  <2>2. ASSUME NEW k \in DOMAIN Tail(q) PROVE Tail(q)[k].port \in PortsOf(q)
    BY <1>1 DEF PortsOf
  <2>3. Head(q).port \in PortsOf(q)
    BY <1>1 DEF PortsOf
  <2> QED BY <2>1, <2>2, <2>3 DEF PortsOf
<1>3. ASSUME Distinct(q) PROVE Distinct(Tail(q)) /\ Head(q).port \notin PortsOf(Tail(q))
  BY <1>1, <1>3 DEF Distinct, PortsOf
<1> QED BY <1>2, <1>3

LEMMA PortsAppend ==
  ASSUME NEW q \in Seq(News), NEW m \in News
  PROVE  /\ PortsOf(Append(q, m)) = PortsOf(q) \cup {m.port}
         /\ Distinct(q) /\ m.port \notin PortsOf(q) => Distinct(Append(q, m))
<1>1. /\ Len(q) \in Nat /\ DOMAIN q = 1..Len(q) /\ DOMAIN Append(q, m) = 1..(Len(q) + 1)
      /\ Append(q, m)[Len(q) + 1] = m /\ \A k \in DOMAIN q : Append(q, m)[k] = q[k]
  OBVIOUS
<1>2. \A k \in DOMAIN Append(q, m) : k \in DOMAIN q \/ k = Len(q) + 1
  BY <1>1
<1>3. PortsOf(Append(q, m)) = PortsOf(q) \cup {m.port}
  <2> DEFINE a == Append(q, m)
  <2>1. /\ \A k \in DOMAIN q : k \in DOMAIN a /\ a[k] = q[k]
        /\ Len(q) + 1 \in DOMAIN a /\ a[Len(q) + 1] = m
        /\ \A k \in DOMAIN a : (k \in DOMAIN q) \/ k = Len(q) + 1
    BY <1>1, <1>2
  <2> HIDE DEF a
  <2> QED BY <2>1 DEF PortsOf
<1>4. ASSUME Distinct(q), m.port \notin PortsOf(q) PROVE Distinct(Append(q, m))
  <2> SUFFICES ASSUME NEW j \in DOMAIN Append(q, m), NEW k \in DOMAIN Append(q, m),
                      Append(q, m)[j].port = Append(q, m)[k].port
               PROVE  j = k
    BY DEF Distinct
  <2> DEFINE a == Append(q, m)
  <2>1. /\ \A l \in DOMAIN q : a[l] = q[l] /\ q[l].port # m.port
        /\ a[Len(q) + 1] = m /\ a[j].port = a[k].port
        /\ (j \in DOMAIN q) \/ j = Len(q) + 1
        /\ (k \in DOMAIN q) \/ k = Len(q) + 1
    BY <1>1, <1>2, <1>4 DEF PortsOf
  <2> HIDE DEF a
  <2> QED BY <1>4, <2>1 DEF Distinct
<1> QED BY <1>3, <1>4

\* How a port moves from one place to another.
LEMMA ApartGoes ==
  ASSUME NEW R, NEW J, NEW T, NEW L, NEW C, NEW R2, NEW J2, NEW T2, NEW L2, NEW C2, NEW p,
         Apart(R, J, T, L, C),
         \/ R2 = R /\ J2 \subseteq J /\ T2 \subseteq T /\ L2 = L /\ C2 \subseteq C
         \/ R2 = J /\ J2 = {} /\ T2 = T /\ L2 = L /\ C2 = C
         \/ R2 = T /\ J2 = J /\ T2 = {} /\ L2 = L /\ C2 = C
         \/ R2 = R /\ J2 = T /\ T2 = {} /\ L2 = L /\ C2 = C
         \/ R2 = R /\ J2 = J /\ T2 \cap L2 = {} /\ L = T2 \cup L2 /\ C2 = C
         \/ R2 = R /\ J2 = J /\ T2 = T /\ L2 = L \cup {p} /\ p \in C /\ C2 \subseteq C \ {p}
         \/ /\ p \notin R \cup J \cup T \cup L \cup C /\ R2 = R /\ J2 = J /\ T2 = T
            /\ \/ L2 = L \cup {p} /\ C2 = C
               \/ L2 = L /\ C2 \subseteq C \cup {p}
  PROVE  Apart(R2, J2, T2, L2, C2)
BY DEF Apart

\* What s is sent by calls, when calls are added for others only, or are made.
LEMMA CallPortsKept ==
  ASSUME NEW s, \A c \in calls' : c.to = s => c \in calls
  PROVE  CallPorts(s)' \subseteq CallPorts(s)
BY DEF CallPorts

\* A step that moves no port to s.
LEMMA PortsKept ==
  ASSUME NEW s \in Joiner, Once(s), rm[s].open,
         rm'[s].port = rm[s].port, rm'[s].open,
         \/ join'[s].pc \notin Accepted
         \/ join'[s].pc \in Accepted /\ join[s].pc \in Accepted /\ join'[s].info = join[s].info,
         taken'[s] \in {taken[s], None},
         link'[Leader][s] = link[Leader][s],
         \A c \in calls' : c.to = s => c \in calls
  PROVE  Once(s)' /\ rm'[s].open /\ Got(s)' \subseteq Got(s)
<1>1. JoinPort(s)' \subseteq JoinPort(s) /\ TakenPort(s)' \subseteq TakenPort(s)
      /\ LinkPorts(s)' = LinkPorts(s)
  BY DEF JoinPort, TakenPort, LinkPorts
<1>2. CallPorts(s)' \subseteq CallPorts(s)
  BY CallPortsKept
<1>3. Apart({rm'[s].port}, JoinPort(s)', TakenPort(s)', LinkPorts(s)', CallPorts(s)')
  <2>1. Apart({rm[s].port}, JoinPort(s), TakenPort(s), LinkPorts(s), CallPorts(s))
    BY DEF Once
  <2> QED BY <1>1, <1>2, <2>1, ApartGoes
<1>4. Distinct(link'[Leader][s])
  BY DEF Once
<1>5. \A c, d \in calls' : c.to = s /\ d.to = s /\ c.m.port = d.m.port => c = d
  BY DEF Once
<1> QED BY <1>1, <1>2, <1>3, <1>4, <1>5 DEF Once, Got, Apart, Distinct

\* A step gives s no port that it did not have.
NoNewPort(s) == Once(s)' /\ rm'[s].open /\ Got(s)' \subseteq Got(s)

\* A server whose variables do not change, and that no call is added for.
LEMMA PortsUntouched ==
  ASSUME NEW s \in Joiner, Once(s), rm[s].open,
         rm'[s] = rm[s], join'[s] = join[s], taken'[s] = taken[s],
         link'[Leader][s] = link[Leader][s],
         \A c \in calls' : c.to = s => c \in calls
  PROVE  NoNewPort(s)
BY PortsKept DEF NoNewPort

\* The steps of a join before the session is installed.
LEMMA PortsJoin ==
  ASSUME Typed, Fresh, NEW s \in Joiner,
         \/ BeginJoin(s) \/ JoinTimesOut(s) \/ SendConnect(s) \/ Retry(s) \/ AddPeers(s)
         \/ BecomeFollower(s)
  PROVE  \A u \in Joiner : NoNewPort(u)
<1>0. /\ ServerTyped /\ JoinTyped /\ LinkTyped /\ Leader \in Server
      /\ \A u \in Joiner : u \in Server /\ u # Leader
      /\ \A u \in Joiner : Once(u) /\ rm[u].open
  BY Joiners DEF Typed, Fresh
<1> HIDE DEF Typed, Fresh
<1>1. UNCHANGED <<rm, taken, calls>>
  BY DEF BeginJoin, JoinTimesOut, SendConnect, Retry, AddPeers, BecomeFollower, leaderVars
<1>2. \A u \in Joiner : link'[Leader][u] = link[Leader][u]
  <2>1. CASE SendConnect(s)
    <3>1. SendTo(s, Leader, ConnectToLeader)
      BY <2>1 DEF SendConnect
    <3> QED BY <1>0, <3>1, SendGoes
  <2> QED BY <2>1 DEF BeginJoin, JoinTimesOut, Retry, AddPeers, BecomeFollower
<1>3. /\ \A u \in Server : u # s => join'[u] = join[u]
      /\ \/ join'[s].pc \notin Accepted
         \/ join'[s].pc \in Accepted /\ join[s].pc \in Accepted /\ join'[s].info = join[s].info
  <2>1. CASE AddPeers(s) \/ BecomeFollower(s)
    <3>1. \E pc \in Accepted : join' = [join EXCEPT ![s].pc = pc] /\ join[s].pc \in Accepted
      BY <2>1 DEF AddPeers, BecomeFollower, Accepted
    <3> QED BY <1>0, <3>1, JoinGoesOn
  <2>2. CASE BeginJoin(s) \/ JoinTimesOut(s) \/ SendConnect(s) \/ Retry(s)
    <3>1. \E pc \in {"idle", "connect", "wait", "retry", "joined"} : join' = [join EXCEPT ![s] = At(pc)]
      BY <2>2 DEF BeginJoin, JoinTimesOut, SendConnect, Retry
    <3> QED BY <1>0, <3>1, JoinGoes
  <2> QED BY <2>1, <2>2
<1>4. NoNewPort(s)
  BY <1>0, <1>1, <1>2, <1>3, PortsKept DEF NoNewPort
<1> QED BY <1>0, <1>1, <1>2, <1>3, <1>4, PortsUntouched

\* The session is installed.
LEMMA PortsJoinMulticast ==
  ASSUME Typed, Fresh, NEW s \in Joiner, JoinMulticast(s)
  PROVE  \A u \in Joiner : NoNewPort(u)
<1>0. /\ s \in Server /\ \A u \in Joiner : u \in Server
      /\ \A u \in Joiner : Once(u) /\ rm[u].open
  BY Joiners DEF Typed, Fresh
<1>1. UNCHANGED <<taken, link, calls>>
  BY DEF JoinMulticast, leaderVars
<1> DEFINE m == join[s].info
<1>2. /\ m \in News /\ join[s].pc \in Accepted
      /\ join'[s].pc = "joined" /\ \A u \in Server : u # s => join'[u] = join[u]
      /\ \A u \in Server : u # s => rm'[u] = rm[u]
      /\ rm'[s].port = m.port
      /\ rm[s].port # m.port => rm'[s] = Session(m.peers, m.port)
  BY <1>0, JoinMulticastGoes
<1>4. Apart({rm[s].port}, JoinPort(s), TakenPort(s), LinkPorts(s), CallPorts(s))
  BY <1>0 DEF Once
<1>5. /\ JoinPort(s) = {m.port} /\ JoinPort(s)' = {}
      /\ TakenPort(s)' = TakenPort(s) /\ LinkPorts(s)' = LinkPorts(s) /\ CallPorts(s)' = CallPorts(s)
  BY <1>1, <1>2 DEF JoinPort, TakenPort, LinkPorts, CallPorts, Accepted
<1>6. rm[s].port # m.port
  BY <1>4, <1>5 DEF Apart
<1>7. rm'[s].open
  <2>1. rm'[s] = Session(m.peers, m.port)
    BY <1>2, <1>6
  <2> QED BY <2>1 DEF Session
<1>8. Apart({rm'[s].port}, JoinPort(s)', TakenPort(s)', LinkPorts(s)', CallPorts(s)')
  <2> HIDE DEF m
  <2>1. {rm'[s].port} = JoinPort(s)
    BY <1>2, <1>5
  <2> QED BY <1>4, <1>5, <2>1, ApartGoes
<1>9. Distinct(link'[Leader][s]) /\ \A c, d \in calls' : c.to = s /\ d.to = s /\ c.m.port = d.m.port => c = d
  BY <1>0, <1>1 DEF Once
<1>10. NoNewPort(s)
  BY <1>2, <1>5, <1>7, <1>8, <1>9 DEF NoNewPort, Once, Got, Apart, Distinct
<1> QED BY <1>0, <1>1, <1>2, <1>10, PortsUntouched

\* The listener takes a message.
LEMMA PortsTake ==
  ASSUME Typed, Fresh, NEW s \in Server, Take(s)
  PROVE  \A u \in Joiner : NoNewPort(u)
<1>0. /\ \A u \in Joiner : u \in Server /\ u # Leader
      /\ \A u \in Joiner : Once(u) /\ rm[u].open
      /\ \A u \in Joiner : link[Leader][u] \in Seq(News)
  BY Joiners DEF Typed, LinkTyped, Fresh
<1>1. UNCHANGED <<rm, join, calls>>
  BY DEF Take, leaderVars
<1>2. PICK t \in Server :
           LET m == Head(link[t][s]) IN
           /\ \/ s = Leader /\ t \in Joiner /\ m = ConnectToLeader
              \/ s \in Joiner /\ t = Leader /\ m \in News
           /\ taken[s] = None /\ link[t][s] # <<>>
           /\ taken'[s] # None /\ taken'[s].m = m /\ taken'[s].from = t
           /\ taken'[s].state = state[s]
           /\ \A u \in Server : u # s => taken'[u] = taken[u]
           /\ link'[t][s] = Tail(link[t][s])
           /\ \A u, v \in Server : u # t \/ v # s => link'[u][v] = link[u][v]
           /\ LinkTyped' /\ TakenTyped'
  BY TakeGoes
<1>3. \A u \in Joiner : u # s => link'[Leader][u] = link[Leader][u] /\ taken'[u] = taken[u]
  BY <1>0, <1>2, Joiners
<1>4. ASSUME s \in Joiner PROVE NoNewPort(s)
  <2> DEFINE q == link[Leader][s]
  <2>1. /\ q \in Seq(News) /\ q # <<>> /\ taken[s] = None /\ taken'[s] # None
        /\ taken'[s].m = Head(q) /\ link'[Leader][s] = Tail(q)
    BY <1>0, <1>2, <1>4
  <2>2. Distinct(q) /\ Apart({rm[s].port}, JoinPort(s), TakenPort(s), LinkPorts(s), CallPorts(s))
        /\ \A c, d \in calls : c.to = s /\ d.to = s /\ c.m.port = d.m.port => c = d
    BY <1>0, <1>4 DEF Once
  <2>3. /\ TakenPort(s) = {} /\ TakenPort(s)' = {Head(q).port}
        /\ LinkPorts(s) = PortsOf(q) /\ LinkPorts(s)' = PortsOf(Tail(q))
        /\ JoinPort(s)' = JoinPort(s) /\ CallPorts(s)' = CallPorts(s)
    BY <1>1, <2>1 DEF TakenPort, LinkPorts, JoinPort, CallPorts, PortsOf
  <2> HIDE DEF q
  <2>4. /\ PortsOf(q) = {Head(q).port} \cup PortsOf(Tail(q))
        /\ Distinct(Tail(q)) /\ Head(q).port \notin PortsOf(Tail(q))
    BY <2>1, <2>2, PortsTail
  <2>5. Apart({rm[s].port}, JoinPort(s)', TakenPort(s)', LinkPorts(s)', CallPorts(s)')
    <3>1. TakenPort(s)' \cap LinkPorts(s)' = {} /\ LinkPorts(s) = TakenPort(s)' \cup LinkPorts(s)'
      BY <2>3, <2>4
    <3> QED BY <2>2, <2>3, <3>1, ApartGoes
  <2>6. Distinct(link'[Leader][s])
    BY <2>1, <2>4
  <2>7. Got(s)' \subseteq Got(s)
    BY <1>1, <2>3, <2>4 DEF Got
  <2> QED BY <1>0, <1>1, <1>4, <2>2, <2>5, <2>6, <2>7 DEF NoNewPort, Once, Apart, Distinct
<1> QED BY <1>0, <1>1, <1>3, <1>4, PortsUntouched

\* A session change is done.
LEMMA PortsChangeSession ==
  ASSUME Typed, Fresh, NEW s \in Server, ChangeSession(s)
  PROVE  \A u \in Joiner : NoNewPort(u)
<1>0. /\ \A u \in Joiner : u \in Server
      /\ \A u \in Joiner : Once(u) /\ rm[u].open
  BY Joiners DEF Typed, Fresh
<1>1. UNCHANGED <<join, link, calls>>
  BY DEF ChangeSession, leaderVars
<1> DEFINE m == taken[s].m
<1>2. /\ s \in Joiner /\ taken[s] # None /\ m \in News
      /\ taken'[s] = None /\ \A u \in Server : u # s => taken'[u] = taken[u]
      /\ rm'[s] = Session(m.peers, m.port) /\ \A u \in Server : u # s => rm'[u] = rm[u]
  BY ChangeSessionGoes
<1>3. rm'[s].open /\ rm'[s].port = m.port
  BY <1>2 DEF Session
<1>4. /\ TakenPort(s) = {m.port} /\ TakenPort(s)' = {}
      /\ JoinPort(s)' = JoinPort(s) /\ LinkPorts(s)' = LinkPorts(s) /\ CallPorts(s)' = CallPorts(s)
  BY <1>1, <1>2 DEF JoinPort, TakenPort, LinkPorts, CallPorts
<1>5. Apart({rm'[s].port}, JoinPort(s)', TakenPort(s)', LinkPorts(s)', CallPorts(s)')
  <2> HIDE DEF m
  <2>1. {rm'[s].port} = TakenPort(s)
    BY <1>3, <1>4
  <2>2. Apart({rm[s].port}, JoinPort(s), TakenPort(s), LinkPorts(s), CallPorts(s))
    BY <1>0, <1>2 DEF Once
  <2> QED BY <1>4, <2>1, <2>2, ApartGoes
<1>6. Distinct(link'[Leader][s]) /\ \A c, d \in calls' : c.to = s /\ d.to = s /\ c.m.port = d.m.port => c = d
  BY <1>0, <1>1, <1>2 DEF Once
<1>7. NoNewPort(s)
  BY <1>3, <1>4, <1>5, <1>6 DEF NoNewPort, Once, Got, Apart, Distinct
<1> QED BY <1>0, <1>1, <1>2, <1>7, PortsUntouched

\* A join gets the peer list.
LEMMA PortsGetPeerInfo ==
  ASSUME Typed, Fresh, NEW s \in Server, GetPeerInfo(s)
  PROVE  \A u \in Joiner : NoNewPort(u)
<1>0. /\ \A u \in Joiner : u \in Server
      /\ \A u \in Joiner : Once(u) /\ rm[u].open
  BY Joiners DEF Typed, Fresh
<1>1. UNCHANGED <<rm, link, calls>>
  BY DEF GetPeerInfo, leaderVars
<1>2. /\ s \in Joiner /\ taken[s] # None /\ join[s].pc = "wait"
      /\ taken'[s] = None /\ \A u \in Server : u # s => taken'[u] = taken[u]
      /\ join'[s].pc \in Accepted /\ join'[s].info = taken[s].m
      /\ \A u \in Server : u # s => join'[u] = join[u]
  BY GetPeerInfoGoes
<1>3. /\ JoinPort(s)' = TakenPort(s) /\ TakenPort(s)' = {}
      /\ LinkPorts(s)' = LinkPorts(s) /\ CallPorts(s)' = CallPorts(s)
  BY <1>1, <1>2 DEF JoinPort, TakenPort, LinkPorts, CallPorts
<1>4. Apart({rm'[s].port}, JoinPort(s)', TakenPort(s)', LinkPorts(s)', CallPorts(s)')
  <2>1. Apart({rm[s].port}, JoinPort(s), TakenPort(s), LinkPorts(s), CallPorts(s))
    BY <1>0, <1>2 DEF Once
  <2> QED BY <1>1, <1>3, <2>1, ApartGoes
<1>5. Distinct(link'[Leader][s]) /\ \A c, d \in calls' : c.to = s /\ d.to = s /\ c.m.port = d.m.port => c = d
  BY <1>0, <1>1, <1>2 DEF Once
<1>6. NoNewPort(s)
  BY <1>0, <1>1, <1>2, <1>3, <1>4, <1>5 DEF NoNewPort, Once, Got, Apart, Distinct
<1> QED BY <1>0, <1>1, <1>2, <1>6, PortsUntouched

\* The peer list is sent, with a port that its receiver does not know.
LEMMA PortsHandlerSend ==
  ASSUME Typed, Fresh, NEW h \in handlers, HandlerSend(h)
  PROVE  /\ \A u \in Joiner \ {h.from} : NoNewPort(u)
         /\ Once(h.from)' /\ rm'[h.from].open /\ Got(h.from)' \subseteq Got(h.from) \cup {h.port}
<1> DEFINE s == h.from
           q == link[Leader][s]
<1>1. PICK m \in News : m.port = h.port /\ link'[Leader][s] = Append(q, m)
  BY HandlerSendGoes
<1>2. /\ s \in Joiner /\ h.pc = "send"
      /\ \A u \in Joiner : u # s => link'[Leader][u] = link[Leader][u]
  BY HandlerSendGoes, Joiners
<1>3. UNCHANGED <<rm, join, taken, calls>>
  BY DEF HandlerSend, serverVars
<1>0. /\ \A u \in Joiner : Once(u) /\ rm[u].open
      /\ q \in Seq(News) /\ h.port \notin Got(s)
  BY <1>2 DEF Typed, LinkTyped, Fresh, Owned
<1>4. /\ LinkPorts(s) = PortsOf(q) /\ LinkPorts(s)' = PortsOf(Append(q, m))
      /\ JoinPort(s)' = JoinPort(s) /\ TakenPort(s)' = TakenPort(s) /\ CallPorts(s)' = CallPorts(s)
  BY <1>1, <1>3 DEF JoinPort, TakenPort, LinkPorts, CallPorts, PortsOf
<1>5. Apart({rm[s].port}, JoinPort(s), TakenPort(s), LinkPorts(s), CallPorts(s)) /\ Distinct(q)
      /\ \A c, d \in calls : c.to = s /\ d.to = s /\ c.m.port = d.m.port => c = d
  BY <1>0, <1>2 DEF Once
<1> HIDE DEF q, s
<1>6. PortsOf(Append(q, m)) = PortsOf(q) \cup {h.port} /\ Distinct(Append(q, m))
  <2>1. m.port \notin PortsOf(q)
    BY <1>0, <1>1, <1>4 DEF Got
  <2> QED BY <1>0, <1>1, <1>5, <2>1, PortsAppend
<1>7. Apart({rm'[s].port}, JoinPort(s)', TakenPort(s)', LinkPorts(s)', CallPorts(s)')
  <2>1. h.port \notin {rm[s].port} \cup JoinPort(s) \cup TakenPort(s) \cup LinkPorts(s) \cup CallPorts(s)
    BY <1>0 DEF Got
  <2> QED BY <1>3, <1>4, <1>5, <1>6, <2>1, ApartGoes
<1>8. Got(s)' \subseteq Got(s) \cup {h.port}
  BY <1>3, <1>4, <1>6 DEF Got
<1>9. Once(s)' /\ rm'[s].open
  BY <1>0, <1>1, <1>2, <1>3, <1>5, <1>6, <1>7 DEF Once, Apart, Distinct
<1>10. \A u \in Joiner : u # s => NoNewPort(u)
  BY <1>0, <1>2, <1>3, PortsUntouched
<1> QED BY <1>8, <1>9, <1>10 DEF s

\* The calls are made that will tell the others of the new port.
LEMMA PortsHandlerRetire ==
  ASSUME Typed, Fresh, NEW h \in handlers, HandlerRetire(h)
  PROVE  /\ NoNewPort(h.from) /\ h.from \in Joiner
         /\ \A u \in Joiner \ {h.from} :
              Once(u)' /\ rm'[u].open /\ Got(u)' \subseteq Got(u) \cup {h.port}
<1>1. /\ h \in Handler /\ h.pc = "sent" /\ h.from \in Joiner
      /\ \A c : c \in calls' <=>
              \/ c \in calls
              \/ /\ c \in Call /\ c.to \in h.list \ {Leader, h.from}
                 /\ c.m.peers = h.list /\ c.m.port = h.port
      /\ \A u \in Joiner : rm'[u] = rm[u]
  BY HandlerRetireGoes, Joiners DEF Handler
<1>2. UNCHANGED <<join, taken, link>>
  BY DEF HandlerRetire
<1>0. /\ \A u \in Joiner : Once(u) /\ rm[u].open
      /\ calls \subseteq Call
  BY DEF Typed, LeaderTyped, Fresh
<1>3. NoNewPort(h.from)
  <2>1. \A c \in calls' : c.to = h.from => c \in calls
    BY <1>1
  <2> QED BY <1>0, <1>1, <1>2, <2>1, PortsUntouched
<1>4. ASSUME NEW u \in Joiner, u # h.from
      PROVE  Once(u)' /\ rm'[u].open /\ Got(u)' \subseteq Got(u) \cup {h.port}
  <2>1. h.port \notin Got(u)
    BY <1>1, <1>4 DEF Fresh, Owned
  <2>2. Apart({rm[u].port}, JoinPort(u), TakenPort(u), LinkPorts(u), CallPorts(u))
        /\ Distinct(link[Leader][u])
        /\ \A c, d \in calls : c.to = u /\ d.to = u /\ c.m.port = d.m.port => c = d
    BY <1>0 DEF Once
  <2>3. /\ JoinPort(u)' = JoinPort(u) /\ TakenPort(u)' = TakenPort(u) /\ LinkPorts(u)' = LinkPorts(u)
    BY <1>2 DEF JoinPort, TakenPort, LinkPorts
  <2>4. CallPorts(u)' \subseteq CallPorts(u) \cup {h.port}
    BY <1>1 DEF CallPorts
  <2>5. Apart({rm'[u].port}, JoinPort(u)', TakenPort(u)', LinkPorts(u)', CallPorts(u)')
    <3>1. h.port \notin {rm[u].port} \cup JoinPort(u) \cup TakenPort(u) \cup LinkPorts(u) \cup CallPorts(u)
      BY <2>1 DEF Got
    <3>2. rm'[u] = rm[u]
      BY <1>1
    <3> QED BY <2>2, <2>3, <2>4, <3>1, <3>2, ApartGoes
  <2>6. ASSUME NEW c \in calls', NEW d \in calls', c.to = u, d.to = u, c.m.port = d.m.port
        PROVE  c = d
    <3>1. CASE c \in calls /\ d \in calls
      BY <2>2, <2>6, <3>1
    <3>2. \A b \in calls : b.to = u => b.m.port # h.port
      BY <2>1 DEF Got, CallPorts
    <3>3. c \notin calls => c \in Call /\ c.m.peers = h.list /\ c.m.port = h.port
      BY <1>1
    <3>4. d \notin calls => d \in Call /\ d.m.peers = h.list /\ d.m.port = h.port
      BY <1>1
    <3>5. CASE c \notin calls /\ d \notin calls
      <4>1. c.m = d.m
        BY <3>3, <3>4, <3>5 DEF Call
      <4> QED BY <2>6, <3>3, <3>4, <3>5, <4>1 DEF Call
    <3> QED BY <2>6, <3>1, <3>2, <3>3, <3>4, <3>5
  <2>7. Got(u)' \subseteq Got(u) \cup {h.port}
    BY <1>1, <2>3, <2>4 DEF Got
  <2>8. rm'[u].open /\ Distinct(link'[Leader][u])
    BY <1>0, <1>1, <1>2, <2>2
  <2> QED BY <2>5, <2>6, <2>7, <2>8 DEF Once, Apart, Distinct
<1> QED BY <1>1, <1>3, <1>4

\* A call sends its port.
LEMMA PortsCallSend ==
  ASSUME Typed, Fresh, NEW c \in calls, CallSend(c)
  PROVE  \A u \in Joiner : NoNewPort(u)
<1> DEFINE s == c.to
           q == link[Leader][s]
<1>1. /\ c \in Call /\ s \in Joiner /\ c.m \in News /\ calls' = calls \ {c}
      /\ link'[Leader][s] = Append(q, c.m)
      /\ \A u \in Joiner : u # s => link'[Leader][u] = link[Leader][u]
  BY CallSendGoes, Joiners
<1>2. UNCHANGED <<rm, join, taken>>
  BY DEF CallSend, serverVars
<1>0. /\ \A u \in Joiner : Once(u) /\ rm[u].open
      /\ q \in Seq(News)
  BY <1>1 DEF Typed, LinkTyped, Fresh
<1>3. Apart({rm[s].port}, JoinPort(s), TakenPort(s), LinkPorts(s), CallPorts(s)) /\ Distinct(q)
      /\ \A b, d \in calls : b.to = s /\ d.to = s /\ b.m.port = d.m.port => b = d
  BY <1>0, <1>1 DEF Once
<1>4. /\ LinkPorts(s) = PortsOf(q) /\ LinkPorts(s)' = PortsOf(Append(q, c.m))
      /\ JoinPort(s)' = JoinPort(s) /\ TakenPort(s)' = TakenPort(s)
  BY <1>1, <1>2 DEF JoinPort, TakenPort, LinkPorts, PortsOf
<1>5. c.m.port \in CallPorts(s) /\ CallPorts(s)' \subseteq CallPorts(s) \ {c.m.port}
  BY <1>1, <1>3 DEF CallPorts
<1> HIDE DEF q, s
<1>6. PortsOf(Append(q, c.m)) = PortsOf(q) \cup {c.m.port} /\ Distinct(Append(q, c.m))
  <2>1. c.m.port \notin PortsOf(q)
    BY <1>3, <1>4, <1>5 DEF Apart
  <2> QED BY <1>0, <1>1, <1>3, <2>1, PortsAppend
<1>7. Apart({rm'[s].port}, JoinPort(s)', TakenPort(s)', LinkPorts(s)', CallPorts(s)')
  BY <1>2, <1>3, <1>4, <1>5, <1>6, ApartGoes
<1>8. NoNewPort(s)
  <2>1. Got(s)' \subseteq Got(s)
    BY <1>2, <1>4, <1>5, <1>6 DEF Got
  <2>2. \A b, d \in calls' : b.to = s /\ d.to = s /\ b.m.port = d.m.port => b = d
    BY <1>1, <1>3
  <2>3. rm'[s].open /\ Distinct(link'[Leader][s])
    BY <1>0, <1>1, <1>2, <1>6
  <2> QED BY <1>7, <2>1, <2>2, <2>3 DEF NoNewPort, Once, Apart, Distinct
<1>9. \A u \in Joiner : u # s => NoNewPort(u)
  BY <1>0, <1>1, <1>2, PortsUntouched DEF s
<1> QED BY <1>8, <1>9

\* The steps that send nothing to anybody.
LEMMA PortsOther ==
  ASSUME Typed, Fresh,
         \/ \E s \in Server : MainLoop(s) \/ Drop(s)
         \/ \E s : Connect(s)
         \/ \E h \in handlers : HandlerFails(h) \/ HandlerReplace(h)
         \/ \E s \in Joiner : DeclareDead(s) \/ Crash(s)
         \/ \E d \in mail : ReadDeath(d) \/ LoseDeath(d) \/ HandleDeath(d)
         \/ UNCHANGED vars
  PROVE  \A u \in Joiner : NoNewPort(u)
<1>0. /\ \A u \in Joiner : u \in Server /\ u # Leader
      /\ \A u \in Joiner : Once(u) /\ rm[u].open
      /\ TakenTyped /\ mail \subseteq Death
  BY Joiners DEF Typed, LeaderTyped, Fresh
<1>1. UNCHANGED <<join, link, calls>>
  BY DEF MainLoop, Drop, Connect, HandlerFails, HandlerReplace, DeclareDead, Crash, ReadDeath,
         LoseDeath, HandleDeath, vars, serverVars, leaderVars
<1>2. \A u \in Joiner : rm'[u].port = rm[u].port /\ rm'[u].open
  <2>1. CASE \E h \in handlers : HandlerReplace(h)
    BY <1>0, <2>1, HandlerReplaceGoes
  <2>2. CASE \E s \in Joiner : DeclareDead(s)
    BY <1>0, <2>2, DeclareDeadGoes
  <2>3. CASE \E d \in mail : ReadDeath(d)
    <3>1. PICK d \in mail : ReadDeath(d)
      BY <2>3
    <3>2. /\ rm'[d.to].port = rm[d.to].port /\ rm'[d.to].open = rm[d.to].open
          /\ \A u \in Server : u # d.to => rm'[u] = rm[u]
      BY <3>1, ReadDeathGoes
    <3> QED BY <1>0, <3>2
  <2>4. CASE \/ \E s \in Server : MainLoop(s) \/ Drop(s)
             \/ \E s : Connect(s)
             \/ \E h \in handlers : HandlerFails(h)
             \/ \E s \in Joiner : Crash(s)
             \/ \E d \in mail : LoseDeath(d) \/ HandleDeath(d)
             \/ UNCHANGED vars
    <3>1. UNCHANGED rm
      BY <2>4 DEF MainLoop, Drop, Connect, HandlerFails, Crash, LoseDeath, HandleDeath, vars, serverVars
    <3> QED BY <1>0, <3>1
  <2> QED BY <2>1, <2>2, <2>3, <2>4
<1>3. \A u \in Joiner : taken'[u] \in {taken[u], None}
  <2>1. CASE \E s \in Server : Drop(s)
    BY <1>0, <2>1, DoneGoes DEF Drop
  <2>2. CASE \E s : Connect(s)
    BY <1>0, <2>2, ConnectGoes
  <2>3. CASE \/ \E s \in Server : MainLoop(s)
             \/ \E h \in handlers : HandlerFails(h) \/ HandlerReplace(h)
             \/ \E s \in Joiner : DeclareDead(s) \/ Crash(s)
             \/ \E d \in mail : ReadDeath(d) \/ LoseDeath(d) \/ HandleDeath(d)
             \/ UNCHANGED vars
    <3>1. UNCHANGED taken
      BY <2>3 DEF MainLoop, HandlerFails, HandlerReplace, DeclareDead, Crash, ReadDeath, LoseDeath,
                  HandleDeath, vars, serverVars
    <3> QED BY <3>1
  <2> QED BY <2>1, <2>2, <2>3
<1> QED BY <1>0, <1>1, <1>2, <1>3, PortsKept DEF NoNewPort

\* A port is sent by the steps of connectToLeaderHandler, and drawn when it starts.
LEMMA PortsStep ==
  ASSUME Typed, Fresh, [Next]_vars
  PROVE  \/ \E h \in handlers : HandlerSend(h) \/ HandlerRetire(h)
         \/ /\ \A u \in Joiner : NoNewPort(u)
            /\ \/ handlers' \subseteq handlers /\ ports' = ports
               \/ \E g \in Handler : /\ handlers' = handlers \cup {g} /\ g.port = ports + 1
                                     /\ ports' = ports + 1
<1>0. \A s \in crashed : s \in Joiner
  BY DEF Typed, LeaderTyped
<1>1. CASE \E s \in Joiner : BeginJoin(s) \/ JoinTimesOut(s) \/ JoinStep(s)
  <2>1. UNCHANGED <<handlers, ports>>
    BY <1>1 DEF BeginJoin, JoinTimesOut, JoinStep, SendConnect, Retry, AddPeers, BecomeFollower,
                JoinMulticast, leaderVars
  <2>2. \A u \in Joiner : NoNewPort(u)
    <3> HIDE DEF NoNewPort, Typed, Fresh
    <3> QED BY <1>1, PortsJoin, PortsJoinMulticast DEF JoinStep
  <2> QED BY <2>1, <2>2
<1>2. CASE \E s \in Server : Take(s) \/ ChangeSession(s) \/ GetPeerInfo(s)
  <2>1. UNCHANGED <<handlers, ports>>
    BY <1>2 DEF Take, ChangeSession, GetPeerInfo, leaderVars
  <2>2. \A u \in Joiner : NoNewPort(u)
    <3> HIDE DEF NoNewPort, Typed, Fresh
    <3> QED BY <1>2, PortsTake, PortsChangeSession, PortsGetPeerInfo
  <2> QED BY <2>1, <2>2
<1>3. CASE \E c \in calls : CallSend(c)
  <2>1. UNCHANGED <<handlers, ports>>
    BY <1>3 DEF CallSend
  <2> QED BY <1>3, <2>1, PortsCallSend
<1>4. CASE \E s : Connect(s)
  BY <1>4, PortsOther, ConnectGoes
<1>5. CASE \/ \E s \in Server : MainLoop(s) \/ Drop(s)
           \/ \E h \in handlers : HandlerFails(h) \/ HandlerReplace(h)
           \/ \E s \in Joiner : DeclareDead(s) \/ Crash(s)
           \/ \E d \in mail : ReadDeath(d) \/ LoseDeath(d) \/ HandleDeath(d)
           \/ UNCHANGED vars
  <2>1. handlers' \subseteq handlers /\ ports' = ports
    BY <1>5 DEF MainLoop, Drop, HandlerFails, HandlerReplace, DeclareDead, Crash, ReadDeath,
         LoseDeath, HandleDeath, vars, leaderVars
  <2>2. \A u \in Joiner : NoNewPort(u)
    <3> HIDE DEF NoNewPort, Typed, Fresh
    <3> QED BY <1>5, PortsOther
  <2> QED BY <2>1, <2>2
<1> HIDE DEF NoNewPort, Typed, Fresh
<1> QED BY <1>0, <1>1, <1>2, <1>3, <1>4, <1>5
        DEF Next, ListenerStep, HandlerStep, MailStep, Live

\* Every step keeps every port drawn.
LEMMA DrawnStep ==
  ASSUME Typed, Fresh, Drawn, [Next]_vars
  PROVE  Drawn'
<1>0. /\ ports \in Nat /\ Leader \in Server /\ Leader \notin Joiner
      /\ \A s \in crashed : s \in Joiner
      /\ \A d \in mail : d.to \in Joiner
      /\ \A h \in handlers : h.port \in 0..ports
      /\ \A u \in Joiner : Got(u) \subseteq 0..ports
      /\ \A d \in mail : d.port \in 0..ports
      /\ rm[Leader].port \in 0..ports
      /\ \A s \in Joiner : s \in Server
  BY Joiners DEF Typed, LeaderTyped, Death, Drawn
<1> HIDE DEF Typed, Fresh, Drawn
<1>1. /\ ports' \in Nat /\ ports <= ports'
      /\ \A h \in handlers' : h.port \in 0..ports'
      /\ \A u \in Joiner : Got(u)' \subseteq 0..ports'
  <2>1. CASE \E h \in handlers : HandlerSend(h)
    <3>1. PICK h \in handlers : HandlerSend(h)
      BY <2>1
    <3>2. /\ h.port \in 0..ports /\ UNCHANGED ports
          /\ \A u \in Joiner : Got(u)' \subseteq Got(u) \cup {h.port}
      BY <1>0, <3>1, PortsHandlerSend DEF HandlerSend, NoNewPort
    <3>3. \A g \in handlers' : g.port \in 0..ports
      BY <1>0, <3>1, HandlerSendGoes
    <3> QED BY <1>0, <3>2, <3>3
  <2>2. CASE \E h \in handlers : HandlerRetire(h)
    <3>1. PICK h \in handlers : HandlerRetire(h)
      BY <2>2
    <3>2. /\ h.port \in 0..ports /\ UNCHANGED ports
          /\ \A u \in Joiner : Got(u)' \subseteq Got(u) \cup {h.port}
      BY <1>0, <3>1, PortsHandlerRetire DEF HandlerRetire, NoNewPort
    <3>3. \A g \in handlers' : g.port \in 0..ports
      BY <1>0, <3>1, HandlerRetireGoes
    <3> QED BY <1>0, <3>2, <3>3
  <2>3. CASE /\ \A u \in Joiner : NoNewPort(u)
             /\ \/ handlers' \subseteq handlers /\ ports' = ports
                \/ \E g \in Handler : /\ handlers' = handlers \cup {g} /\ g.port = ports + 1
                                      /\ ports' = ports + 1
    <3>1. \A u \in Joiner : Got(u)' \subseteq Got(u)
      BY <2>3 DEF NoNewPort
    <3>2. ports' \in Nat /\ ports <= ports' /\ ports' \in 0..ports'
      BY <1>0, <2>3
    <3>3. 0..ports \subseteq 0..ports'
      BY <1>0, <3>2
    <3>4. \A h \in handlers' : h.port \in 0..ports'
      BY <1>0, <2>3, <3>2, <3>3
    <3> QED BY <1>0, <3>1, <3>2, <3>3, <3>4
  <2> QED BY <2>1, <2>2, <2>3, PortsStep
<1>2. 0..ports \subseteq 0..ports'
  BY <1>0, <1>1
<1>3. rm'[Leader].port \in 0..ports
  <2>1. CASE \E h \in handlers : HandlerReplace(h)
    <3>1. PICK h \in handlers : HandlerReplace(h)
      BY <2>1
    <3>2. rm'[Leader] = Session(h.list, h.port)
      BY <3>1, HandlerReplaceGoes
    <3>3. rm'[Leader].port = h.port
      BY <3>2 DEF Session
    <3> QED BY <1>0, <3>3
  <2>2. CASE \E h \in handlers : HandlerRetire(h)
    BY <1>0, <2>2, HandlerRetireGoes
  <2>3. CASE \E s \in Joiner : DeclareDead(s)
    BY <1>0, <2>3, DeclareDeadGoes
  <2>4. CASE \E s \in Joiner : JoinMulticast(s)
    BY <1>0, <2>4, JoinMulticastGoes
  <2>5. CASE \E s \in Server : ChangeSession(s)
    BY <1>0, <2>5, ChangeSessionGoes
  <2>6. CASE \E d \in mail : ReadDeath(d)
    <3>1. PICK d \in mail : ReadDeath(d)
      BY <2>6
    <3>2. \A u \in Server : u # d.to => rm'[u] = rm[u]
      BY <3>1, ReadDeathGoes
    <3> QED BY <1>0, <3>2
  <2>7. CASE UNCHANGED rm
    BY <1>0, <2>7
  <2> QED BY <1>0, <2>1, <2>2, <2>3, <2>4, <2>5, <2>6, <2>7
          DEF Next, JoinStep, ListenerStep, HandlerStep, MailStep, BeginJoin, JoinTimesOut, SendConnect,
              Retry, AddPeers, BecomeFollower, MainLoop, Take, Drop, GetPeerInfo, Connect, HandlerSend,
              HandlerFails, CallSend, LoseDeath, HandleDeath, Crash, vars, serverVars, Live
<1>4. \A d \in mail' : d.port \in 0..ports
  <2>1. CASE \E s \in Joiner : DeclareDead(s)
    BY <1>0, <2>1, DeclareDeadGoes
  <2>2. CASE \E d \in mail : ReadDeath(d)
    <3>1. PICK d \in mail : ReadDeath(d)
      BY <2>2
    <3>2. \/ mail' = mail \ {d}
          \/ \E e \in Death : mail' = (mail \ {d}) \cup {e} /\ e.port = d.port
      BY <3>1, ReadDeathGoes
    <3> QED BY <1>0, <3>2
  <2>3. CASE mail' \subseteq mail
    BY <1>0, <2>3
  <2> QED BY <1>0, <2>1, <2>2, <2>3
          DEF Next, JoinStep, ListenerStep, HandlerStep, MailStep, BeginJoin, JoinTimesOut, SendConnect,
              Retry, AddPeers, BecomeFollower, JoinMulticast, MainLoop, Take, ChangeSession, Drop,
              GetPeerInfo, Connect, HandlerSend, HandlerRetire, HandlerReplace,
              HandlerFails, CallSend, LoseDeath, HandleDeath, Crash, vars, leaderVars, Live
<1> QED BY <1>1, <1>2, <1>3, <1>4 DEF Drawn

\* Every step keeps the ports apart.
LEMMA FreshStep ==
  ASSUME Typed, Fresh, Drawn, [Next]_vars
  PROVE  Fresh'
<1>0. /\ ports \in Nat /\ handlers \subseteq Handler
      /\ \A h \in handlers : h.port \in 0..ports
      /\ \A u \in Joiner : Got(u) \subseteq 0..ports
      /\ \A g, h \in handlers : g.port = h.port => g = h
      /\ \A h \in handlers : \A s \in Joiner :
           h.pc = "send" \/ (h.pc = "sent" /\ s # h.from) => h.port \notin Got(s)
  BY DEF Typed, LeaderTyped, Drawn, Fresh, Owned
<1> HIDE DEF Typed, Fresh, Drawn
<1>1. CASE \E h \in handlers : HandlerSend(h)
  <2>1. PICK h \in handlers : HandlerSend(h)
    BY <1>1
  <2>2. PICK g \in Handler : /\ handlers' = (handlers \ {h}) \cup {g} /\ g.from = h.from
                            /\ g.pc = "sent" /\ g.port = h.port
    BY <2>1, HandlerSendGoes
  <2>3. /\ \A u \in Joiner \ {h.from} : NoNewPort(u)
        /\ Once(h.from)' /\ rm'[h.from].open /\ Got(h.from)' \subseteq Got(h.from) \cup {h.port}
        /\ h.pc = "send"
    BY <2>1, PortsHandlerSend, HandlerSendGoes
  <2>4. \A f, k \in handlers' : f.port = k.port => f = k
    BY <1>0, <2>2
  <2>5. ASSUME NEW k \in handlers', NEW s \in Joiner,
               k.pc = "send" \/ (k.pc = "sent" /\ s # k.from)
        PROVE  k.port \notin Got(s)'
    <3>1. CASE k = g
      BY <1>0, <2>2, <2>3, <2>5, <3>1 DEF NoNewPort
    <3>2. CASE k \in handlers \ {h}
      <4>1. k.port \notin Got(s) /\ k.port # h.port
        BY <1>0, <2>5, <3>2
      <4> QED BY <2>3, <4>1 DEF NoNewPort
    <3> QED BY <2>2, <3>1, <3>2
  <2> QED BY <2>3, <2>4, <2>5 DEF Fresh, Owned, NoNewPort
<1>2. CASE \E h \in handlers : HandlerRetire(h)
  <2>1. PICK h \in handlers : HandlerRetire(h)
    BY <1>2
  <2>2. PICK g \in Handler : /\ handlers' = (handlers \ {h}) \cup {g} /\ g.from = h.from
                            /\ g.pc = "replace" /\ g.port = h.port
    BY <2>1, HandlerRetireGoes
  <2>3. \A u \in Joiner : Once(u)' /\ rm'[u].open /\ Got(u)' \subseteq Got(u) \cup {h.port}
    BY <2>1, PortsHandlerRetire DEF NoNewPort
  <2>4. \A f, k \in handlers' : f.port = k.port => f = k
    BY <1>0, <2>2
  <2>5. ASSUME NEW k \in handlers', NEW s \in Joiner,
               k.pc = "send" \/ (k.pc = "sent" /\ s # k.from)
        PROVE  k.port \notin Got(s)'
    <3>1. k \in handlers \ {h}
      BY <2>2, <2>5
    <3>2. k.port \notin Got(s) /\ k.port # h.port
      BY <1>0, <2>5, <3>1
    <3> QED BY <2>3, <3>2
  <2> QED BY <2>3, <2>4, <2>5 DEF Fresh, Owned
<1>3. CASE /\ \A u \in Joiner : NoNewPort(u)
           /\ \/ handlers' \subseteq handlers /\ ports' = ports
              \/ \E g \in Handler : /\ handlers' = handlers \cup {g} /\ g.port = ports + 1
                                    /\ ports' = ports + 1
  <2>1. \A u \in Joiner : Once(u)' /\ rm'[u].open /\ Got(u)' \subseteq Got(u)
    BY <1>3 DEF NoNewPort
  <2>2. CASE handlers' \subseteq handlers
    BY <1>0, <2>1, <2>2 DEF Fresh, Owned
  <2>3. CASE \E g \in Handler : handlers' = handlers \cup {g} /\ g.port = ports + 1
    <3>1. PICK g \in Handler : handlers' = handlers \cup {g} /\ g.port = ports + 1
      BY <2>3
    <3>2. g.port \notin 0..ports
      BY <1>0, <3>1
    <3>3. \A f, k \in handlers' : f.port = k.port => f = k
      BY <1>0, <3>1, <3>2
    <3>4. \A k \in handlers', s \in Joiner :
            k.pc = "send" \/ (k.pc = "sent" /\ s # k.from) => k.port \notin Got(s)'
      BY <1>0, <2>1, <3>1, <3>2
    <3> QED BY <2>1, <3>3, <3>4 DEF Fresh, Owned
  <2> QED BY <1>3, <2>2, <2>3
<1> QED BY <1>1, <1>2, <1>3, PortsStep

\* While calls of connectToLeaderHandler have not overlapped, every step keeps it
\* so that only the one about to replace the session has shut it down.
LEMMA AloneStep ==
  ASSUME Typed, Fresh, Alone, [Next]_vars
  PROVE  Alone'
<1>0. /\ Leader \in Server /\ Leader \notin Joiner
      /\ \A s \in Joiner : s \in Server /\ rm[s].open
      /\ \A s \in crashed : s \in Joiner
      /\ \A d \in mail : d.to \in Joiner
  BY Joiners DEF Typed, LeaderTyped, Death, Fresh
<1> SUFFICES ASSUME ~ overlap'
             PROVE  /\ \A g, h \in handlers' : g = h
                    /\ rm'[Leader].open \/ \E h \in handlers' : h.pc = "replace"
                    /\ ~ panicked'
  BY DEF Alone
<1> HIDE DEF Typed, Fresh
<1>1. overlap => overlap'
  BY DEF Next, JoinStep, ListenerStep, HandlerStep, MailStep, BeginJoin, JoinTimesOut, SendConnect,
              Retry, AddPeers, BecomeFollower, JoinMulticast, MainLoop, Take, ChangeSession, Drop,
              GetPeerInfo, Connect, HandlerSend, HandlerRetire, HandlerReplace, DeclareDead,
              HandlerFails, CallSend, ReadDeath, LoseDeath, HandleDeath, Crash, vars, faultVars
<1>2. /\ \A g, h \in handlers : g = h
      /\ rm[Leader].open \/ \E h \in handlers : h.pc = "replace"
      /\ ~ panicked
  BY <1>1 DEF Alone
<1>3. CASE \E s : Connect(s)
  <2>1. handlers = {} /\ UNCHANGED <<rm, panicked>>
    BY <1>3 DEF Connect
  <2>2. \E g : handlers' = handlers \cup {g}
    BY <1>3, ConnectGoes
  <2> QED BY <1>2, <2>1, <2>2
<1>4. CASE \E h \in handlers : HandlerSend(h)
  <2>1. PICK h \in handlers : HandlerSend(h)
    BY <1>4
  <2>2. \E g : handlers' = (handlers \ {h}) \cup {g}
    BY <2>1, HandlerSendGoes
  <2>3. h.pc = "send" /\ UNCHANGED <<rm, panicked>>
    BY <2>1 DEF HandlerSend, serverVars, faultVars
  <2> QED BY <1>2, <2>2, <2>3
<1>5. CASE \E h \in handlers : HandlerRetire(h)
  <2>1. PICK h \in handlers : HandlerRetire(h)
    BY <1>5
  <2>2. /\ \E g : handlers' = (handlers \ {h}) \cup {g} /\ g.pc = "replace"
        /\ h.pc = "sent" /\ (panicked' => panicked \/ ~ rm[Leader].open)
    BY <2>1, HandlerRetireGoes
  <2> QED BY <1>2, <2>2
<1>6. CASE \E h \in handlers : HandlerReplace(h)
  <2>1. PICK h \in handlers : HandlerReplace(h)
    BY <1>6
  <2>2. handlers' = handlers \ {h} /\ rm'[Leader] = Session(h.list, h.port)
    BY <2>1, HandlerReplaceGoes
  <2>3. rm'[Leader].open
    BY <2>2 DEF Session
  <2>4. UNCHANGED panicked
    BY <2>1 DEF HandlerReplace, faultVars
  <2> QED BY <1>2, <2>2, <2>3, <2>4
<1>7. CASE \E h \in handlers : HandlerFails(h)
  <2>1. PICK h \in handlers : HandlerFails(h)
    BY <1>7
  <2>2. h.pc = "sent" /\ handlers' = handlers \ {h} /\ UNCHANGED <<rm, panicked>>
    BY <2>1 DEF HandlerFails
  <2> QED BY <1>2, <2>2
<1>8. CASE \E s \in Joiner : DeclareDead(s)
  <2>1. rm'[Leader].open = rm[Leader].open
    BY <1>8, DeclareDeadGoes
  <2>2. UNCHANGED <<handlers, panicked>>
    BY <1>8 DEF DeclareDead
  <2> QED BY <1>2, <2>1, <2>2
<1>9. CASE \E s \in Joiner : JoinMulticast(s)
  <2>1. PICK s \in Joiner : JoinMulticast(s)
    BY <1>9
  <2>2. UNCHANGED handlers
    BY <2>1 DEF JoinMulticast, leaderVars
  <2>3. rm'[Leader] = rm[Leader] /\ (panicked' => panicked \/ ~ rm[s].open)
    BY <1>0, <2>1, JoinMulticastGoes
  <2> QED BY <1>0, <1>2, <2>2, <2>3
<1>10. CASE \E s \in Server : ChangeSession(s)
  <2>1. PICK s \in Server : ChangeSession(s)
    BY <1>10
  <2>2. UNCHANGED handlers
    BY <2>1 DEF ChangeSession, leaderVars
  <2>3. s \in Joiner /\ (\A u \in Server : u # s => rm'[u] = rm[u])
        /\ (panicked' => panicked \/ ~ rm[s].open)
    BY <2>1, ChangeSessionGoes
  <2> QED BY <1>0, <1>2, <2>2, <2>3
<1>11. CASE \E d \in mail : ReadDeath(d)
  <2>1. PICK d \in mail : ReadDeath(d)
    BY <1>11
  <2>2. \A u \in Server : u # d.to => rm'[u] = rm[u]
    BY <2>1, ReadDeathGoes
  <2>3. UNCHANGED <<handlers, panicked>>
    BY <2>1 DEF ReadDeath, faultVars
  <2> QED BY <1>0, <1>2, <2>2, <2>3
<1>12. CASE UNCHANGED <<handlers, rm, panicked>>
  BY <1>2, <1>12
<1> QED BY <1>0, <1>3, <1>4, <1>5, <1>6, <1>7, <1>8, <1>9, <1>10, <1>11, <1>12
        DEF Next, JoinStep, ListenerStep, HandlerStep, MailStep, BeginJoin, JoinTimesOut, SendConnect,
            Retry, AddPeers, BecomeFollower, MainLoop, Take, Drop, GetPeerInfo, CallSend,
            LoseDeath, HandleDeath, Crash, vars, serverVars, leaderVars, faultVars, Live

\* The initial state has no request, no port drawn but the first session's.
LEMMA PortsInit == Init => Counted /\ Drawn /\ Fresh /\ Alone
<1> SUFFICES ASSUME Init PROVE Counted /\ Drawn /\ Fresh /\ Alone
  OBVIOUS
<1>1. \A s \in Server : /\ join[s].pc = "idle" /\ taken[s] = None /\ rm[s].port = 0 /\ rm[s].open
                        /\ \A t \in Server : link[s][t] = <<>>
  BY DEF Init, At, Session
<1>2. handlers = {} /\ calls = {} /\ mail = {} /\ joins = 0 /\ ports = 0 /\ ~ panicked
  BY DEF Init
<1>3. Counted
  <2>1. \A s \in Joiner, k \in Nat : ~ Place(s, k)
    BY <1>1, Joiners DEF Place
  <2>2. Requests = {}
    BY <2>1 DEF Requests
  <2> QED BY <1>2, <2>2, FS_EmptySet DEF Counted
<1>4. \A s \in Joiner : /\ JoinPort(s) = {} /\ TakenPort(s) = {} /\ LinkPorts(s) = {} /\ CallPorts(s) = {}
                        /\ link[Leader][s] = <<>> /\ rm[s].port = 0 /\ rm[s].open
  BY <1>1, <1>2, Joiners DEF JoinPort, TakenPort, LinkPorts, CallPorts, PortsOf, Accepted
<1>5. Drawn
  BY <1>1, <1>2, <1>4, Joiners DEF Drawn, Got
<1>6. Fresh
  BY <1>2, <1>4 DEF Fresh, Owned, Once, Apart, Distinct
<1>7. Alone
  BY <1>1, <1>2, Joiners DEF Alone
<1> QED BY <1>3, <1>5, <1>6, <1>7

\* The invariants give the type invariant.
LEMMA TypeHolds == Typed /\ Counted /\ Drawn => TypeOK
<1> SUFFICES ASSUME Typed, Counted, Drawn PROVE TypeOK
  OBVIOUS
<1>1. ServerTyped /\ TakenTyped /\ LeaderTyped
  BY DEF Typed
<1>2. ports \in Nat /\ joins \in 0..MaxJoins /\ ports <= joins
  <2>1. Cardinality(Requests) \in Nat /\ Cardinality(Requests) + ports <= joins
    BY FS_CardinalityType DEF Counted
  <2>2. ports \in Nat /\ joins \in 0..MaxJoins
    BY <1>1 DEF LeaderTyped
  <2> QED BY <2>1, <2>2, BoundAssumption
<1>3. rm \in [Server -> [port : 0..ports, members : SUBSET Server, open : BOOLEAN]]
  <2>1. ASSUME NEW s \in Server PROVE rm[s].port \in 0..ports
    BY Joiners DEF Drawn, Got
  <2>2. rm \in [Server -> [port : Nat, members : SUBSET Server, open : BOOLEAN]]
    BY <1>1 DEF ServerTyped
  <2> QED BY <2>1, <2>2
<1>4. \A h \in handlers : h.from \in Joiner /\ h.port \in 1..ports
  BY <1>1, <1>2 DEF LeaderTyped, Handler, Drawn
<1>5. calls \subseteq [to : Joiner, m : [type : {"MulticastSessionChange"},
                                        peers : SUBSET Server, port : 1..ports]]
  <2> SUFFICES ASSUME NEW c \in calls
               PROVE  c \in [to : Joiner, m : [type : {"MulticastSessionChange"},
                                        peers : SUBSET Server, port : 1..ports]]
    OBVIOUS
  <2>1. c \in Call
    BY <1>1 DEF LeaderTyped
  <2>2. c.m.port \in 0..ports /\ c.m.port \in Nat \ {0}
    BY <2>1 DEF Call, Drawn, Got, CallPorts
  <2>3. c.m.port \in 1..ports
    BY <1>2, <2>2
  <2> QED BY <2>1, <2>3 DEF Call
<1>6. mail \subseteq [to : Joiner, dead : Joiner, port : 0..ports, read : BOOLEAN]
  BY <1>1 DEF LeaderTyped, Death, Drawn
<1> QED BY <1>1, <1>2, <1>3, <1>4, <1>5, <1>6 DEF TypeOK, ServerTyped, TakenTyped, LeaderTyped

PortsInv == Typed /\ Counted /\ Drawn /\ Fresh /\ Alone

\* Ports, requests and calls of connectToLeaderHandler stay as they should.
THEOREM PortsCorrect == Spec => []PortsInv
<1>1. Init => PortsInv
  BY TypedInit, PortsInit DEF PortsInv
<1>2. PortsInv /\ [Next]_vars => PortsInv'
  BY TypedStep, CountedStep, DrawnStep, FreshStep, AloneStep DEF PortsInv
<1> QED BY <1>1, <1>2, PTL DEF Spec

\* The variables have their types; there are never more ports than joins, since
\* the leader draws one for each request that it takes up.
THEOREM TypeCorrect == Spec => []TypeOK
<1>1. PortsInv => TypeOK
  BY TypeHolds DEF PortsInv
<1> QED BY <1>1, PortsCorrect, PTL

\* No session is shut down twice unless two calls of connectToLeaderHandler ran
\* at a time, with any number of servers, joins and faults: a server that joined
\* never gets the port of the session it is in.
THEOREM ShutdownOnceCorrect == Spec => []ShutdownOnce
<1>1. PortsInv => ShutdownOnce
  BY DEF PortsInv, Alone, ShutdownOnce
<1> QED BY <1>1, PortsCorrect, PTL

-----------------------------------------------------------------------------
(* One answer                                                              *)

\* The peer lists on a link, when its first message is taken, or a peer list or
\* other news is put at its end.
LEMMA AnswersTail ==
  ASSUME NEW q \in Seq(News), q # <<>>
  PROVE  /\ HasAnswer(Tail(q)) => HasAnswer(q)
         /\ Head(q).type = "PeerInfo" => HasAnswer(q)
         /\ OneIn(q) => /\ OneIn(Tail(q))
                        /\ Head(q).type = "PeerInfo" => ~ HasAnswer(Tail(q))
<1>1. /\ Len(q) \in Nat \ {0} /\ DOMAIN q = 1..Len(q) /\ Head(q) = q[1]
      /\ DOMAIN Tail(q) = 1..(Len(q) - 1) /\ \A k \in DOMAIN Tail(q) : Tail(q)[k] = q[k + 1]
  OBVIOUS
<1>2. /\ 1 \in DOMAIN q
      /\ \A k \in DOMAIN Tail(q) : k + 1 \in DOMAIN q /\ k + 1 # 1
      /\ \A j, k \in DOMAIN Tail(q) : j + 1 = k + 1 => j = k
  BY <1>1
<1>3. (HasAnswer(Tail(q)) => HasAnswer(q)) /\ (Head(q).type = "PeerInfo" => HasAnswer(q))
  BY <1>1, <1>2 DEF HasAnswer
<1>4. ASSUME OneIn(q)
      PROVE  OneIn(Tail(q)) /\ (Head(q).type = "PeerInfo" => ~ HasAnswer(Tail(q)))
  BY <1>1, <1>2, <1>4 DEF HasAnswer, OneIn
<1> QED BY <1>3, <1>4

LEMMA AnswersAppend ==
  ASSUME NEW q \in Seq(News), NEW m \in News
  PROVE  ~ HasAnswer(q) => OneIn(Append(q, m))
<1> DEFINE a == Append(q, m)
<1>1. /\ Len(q) \in Nat /\ DOMAIN q = 1..Len(q) /\ DOMAIN a = 1..(Len(q) + 1)
      /\ a[Len(q) + 1] = m /\ \A k \in DOMAIN q : a[k] = q[k]
  OBVIOUS
<1>2. \A k \in DOMAIN a : (k \in DOMAIN q /\ a[k] = q[k]) \/ (k = Len(q) + 1 /\ a[k] = m)
  BY <1>1
<1> HIDE DEF a
<1>3. ~ HasAnswer(q) => OneIn(a)
  BY <1>2 DEF HasAnswer, OneIn
<1> QED BY <1>3 DEF a

LEMMA NewsAppend ==
  ASSUME NEW q \in Seq(News), NEW m \in News, m.type # "PeerInfo", OneIn(q)
  PROVE  OneIn(Append(q, m)) /\ (HasAnswer(Append(q, m)) => HasAnswer(q))
<1> DEFINE a == Append(q, m)
<1>1. /\ Len(q) \in Nat /\ DOMAIN q = 1..Len(q) /\ DOMAIN a = 1..(Len(q) + 1)
      /\ a[Len(q) + 1] = m /\ \A k \in DOMAIN q : a[k] = q[k]
  OBVIOUS
<1>2. \A k \in DOMAIN a : (k \in DOMAIN q /\ a[k] = q[k]) \/ (k = Len(q) + 1 /\ a[k] = m)
  BY <1>1
<1> HIDE DEF a
<1>3. OneIn(a)
  BY <1>2 DEF OneIn
<1>4. HasAnswer(a) => HasAnswer(q)
  BY <1>2 DEF HasAnswer
<1> QED BY <1>3, <1>4 DEF a

\* A step that moves no request or answer of s, or ends one.
LEMMA AnswerKept ==
  ASSUME NEW s \in Joiner, OneAnswer(s),
         join'[s].pc # "retry", join'[s].pc # "wait" => join[s].pc # "wait",
         link'[s][Leader] = link[s][Leader],
         Considered(s)' => Considered(s),
         \A h \in handlers' : h.pc = "send" /\ h.from = s => h \in handlers,
         Answered(s)' => Answered(s), OneIn(link'[Leader][s]),
         Holds(s)' => Holds(s)
  PROVE  OneAnswer(s)'
<1>1. (Requested(s)' => Requested(s)) /\ (Answering(s)' => Answering(s))
  BY DEF Requested, Answering
<1>2. \A g, h \in handlers' : g.pc = "send" /\ g.from = s /\ h.pc = "send" /\ h.from = s => g = h
  BY DEF OneAnswer
<1> HIDE DEF Considered, Answered, Holds, Requested, Answering
<1>3. OneIn(link[Leader][s])'
  BY DEF OneIn
<1> QED BY <1>1, <1>2, <1>3, Zenon DEF OneAnswer

\* A step that touches neither s nor what is sent to it, nor a request.
LEMMA AnswerUntouched ==
  ASSUME NEW s \in Joiner, OneAnswer(s), join'[s] = join[s],
         link'[s][Leader] = link[s][Leader], link'[Leader][s] = link[Leader][s],
         taken'[s] \in {taken[s], None}, taken'[Leader] \in {taken[Leader], None},
         \A h \in handlers' : h.pc = "send" /\ h.from = s => h \in handlers
  PROVE  OneAnswer(s)'
<1>1. (Considered(s)' => Considered(s)) /\ (Answered(s)' => Answered(s)) /\ (Holds(s)' => Holds(s))
  BY DEF Considered, Answered, HasAnswer, Holds
<1>2. OneIn(link'[Leader][s]) /\ join'[s].pc # "retry"
  BY DEF OneAnswer
<1> QED BY <1>1, <1>2, AnswerKept

\* The steps of a join.
LEMMA AnswerJoin ==
  ASSUME Typed, NEW s \in Joiner, OneAnswer(s), s \notin retried', NEW u \in Joiner,
         BeginJoin(u) \/ JoinTimesOut(u) \/ JoinStep(u)
  PROVE  OneAnswer(s)'
<1>0. /\ JoinTyped /\ LinkTyped /\ Leader \in Server /\ Leader \notin Joiner
      /\ \A t \in Joiner : t \in Server /\ t # Leader
  BY Joiners DEF Typed
<1> HIDE DEF Typed
<1>1. UNCHANGED <<taken, handlers>>
  BY DEF BeginJoin, JoinTimesOut, JoinStep, SendConnect, Retry, AddPeers, BecomeFollower,
         JoinMulticast, leaderVars
<1>2. CASE SendConnect(u)
  <2>1. /\ SendTo(u, Leader, ConnectToLeader) /\ join' = [join EXCEPT ![u] = At("wait")]
        /\ join[u].pc = "connect"
    BY <1>2 DEF SendConnect
  <2>2. /\ link'[u][Leader] = Append(link[u][Leader], ConnectToLeader)
        /\ \A v, w \in Server : v # u \/ w # Leader => link'[v][w] = link[v][w]
    BY <1>0, <2>1, SendGoes
  <2>3. join'[u].pc = "wait" /\ \A v \in Server : v # u => join'[v] = join[v]
    BY <1>0, <2>1, JoinGoes
  <2>4. link'[Leader][s] = link[Leader][s]
    BY <1>0, <2>2
  <2>5. CASE u # s
    <3>1. join'[s] = join[s] /\ link'[s][Leader] = link[s][Leader]
      BY <1>0, <2>2, <2>3, <2>5
    <3> QED BY <1>1, <2>4, <3>1, AnswerUntouched
  <2>6. CASE u = s
    <3>1. ~ Requested(s) /\ ~ Considered(s) /\ ~ Answering(s) /\ ~ Answered(s) /\ ~ Holds(s)
      BY <2>1, <2>6 DEF OneAnswer
    <3>2. Len(link'[s][Leader]) = 1
      <4>1. link[s][Leader] = <<>>
        BY <3>1 DEF Requested
      <4> DEFINE q == link[s][Leader]
      <4>2. q \in Seq({ConnectToLeader}) /\ Len(q) = 0 /\ link'[s][Leader] = Append(q, ConnectToLeader)
        BY <1>0, <2>2, <2>6, <4>1 DEF LinkTyped
      <4> HIDE DEF q
      <4> QED BY <4>2
    <3>3. ~ Considered(s)' /\ ~ Answering(s)' /\ ~ Answered(s)' /\ ~ Holds(s)'
      BY <1>1, <2>4, <3>1 DEF Considered, Answering, Answered, HasAnswer, Holds
    <3>4. OneIn(link'[Leader][s])
          /\ \A g, h \in handlers' : g.pc = "send" /\ g.from = s /\ h.pc = "send" /\ h.from = s => g = h
      BY <1>1, <2>4 DEF OneAnswer
    <3> QED BY <2>3, <2>6, <3>2, <3>3, <3>4 DEF OneAnswer, OneIn
  <2> QED BY <2>5, <2>6
<1>3. CASE BeginJoin(u) \/ JoinTimesOut(u) \/ Retry(u) \/ AddPeers(u) \/ BecomeFollower(u)
           \/ JoinMulticast(u)
  <2>1. UNCHANGED link
    BY <1>3 DEF BeginJoin, JoinTimesOut, Retry, AddPeers, BecomeFollower, JoinMulticast
  <2>2. \A v \in Server : v # u => join'[v] = join[v]
    <3>1. CASE AddPeers(u) \/ BecomeFollower(u)
      <4>1. \E pc \in Accepted : join' = [join EXCEPT ![u].pc = pc] /\ join[u].pc \in Accepted
        BY <3>1 DEF AddPeers, BecomeFollower, Accepted
      <4> QED BY <1>0, <4>1, JoinGoesOn
    <3>2. CASE BeginJoin(u) \/ JoinTimesOut(u) \/ Retry(u) \/ JoinMulticast(u)
      <4>1. \E pc \in {"idle", "connect", "wait", "retry", "joined"} : join' = [join EXCEPT ![u] = At(pc)]
        BY <3>2 DEF BeginJoin, JoinTimesOut, Retry, JoinMulticast
      <4> QED BY <1>0, <4>1, JoinGoes
    <3> QED BY <1>3, <3>1, <3>2
  <2>3. CASE u # s
    BY <1>0, <1>1, <2>1, <2>2, <2>3, AnswerUntouched
  <2>4. CASE u = s
    <3>1. join[s].pc # "wait" /\ join'[s].pc # "retry"
      <4>1. ~ JoinTimesOut(s) /\ ~ Retry(s)
        BY <2>4 DEF JoinTimesOut, Retry, OneAnswer
      <4>2. CASE BeginJoin(s)
        BY <1>0, <4>2, JoinGoes DEF BeginJoin
      <4>3. CASE AddPeers(s)
        <5>1. join[s].pc \in Accepted /\ join[s].pc # "wait" /\ "follow" \in Accepted
          BY <4>3 DEF AddPeers, Accepted
        <5> QED BY <1>0, <4>3, <5>1, JoinGoesOn DEF AddPeers
      <4>4. CASE BecomeFollower(s)
        <5>1. join[s].pc \in Accepted /\ join[s].pc # "wait" /\ "install" \in Accepted
          BY <4>4 DEF BecomeFollower, Accepted
        <5> QED BY <1>0, <4>4, <5>1, JoinGoesOn DEF BecomeFollower
      <4>5. CASE JoinMulticast(s)
        BY <1>0, <4>5, JoinGoes DEF JoinMulticast
      <4> QED BY <1>3, <2>4, <4>1, <4>2, <4>3, <4>4, <4>5
    <3>2. (Considered(s)' => Considered(s)) /\ (Answered(s)' => Answered(s)) /\ (Holds(s)' => Holds(s))
      BY <1>1, <2>1 DEF Considered, Answered, HasAnswer, Holds
    <3>3. OneIn(link'[Leader][s])
      BY <2>1 DEF OneAnswer
    <3> QED BY <1>1, <2>1, <3>1, <3>2, <3>3, AnswerKept
  <2> QED BY <2>3, <2>4
<1> QED BY <1>2, <1>3 DEF JoinStep

\* The steps of the unicast listener.
LEMMA AnswerListener ==
  ASSUME Typed, NEW s \in Joiner, OneAnswer(s), NEW u \in Server, ListenerStep(u)
  PROVE  OneAnswer(s)'
<1>0. /\ TakenTyped /\ Leader \in Server /\ Leader \notin Joiner /\ link[Leader][s] \in Seq(News)
      /\ \A t \in Joiner : t \in Server /\ t # Leader
  BY Joiners DEF Typed, LinkTyped
<1> HIDE DEF Typed
<1>1. UNCHANGED <<handlers>>
  BY DEF ListenerStep, Take, ChangeSession, Drop, GetPeerInfo, leaderVars
<1>2. CASE Take(u)
  <2>1. PICK t \in Server :
           LET m == Head(link[t][u]) IN
           /\ \/ u = Leader /\ t \in Joiner /\ m = ConnectToLeader
              \/ u \in Joiner /\ t = Leader /\ m \in News
           /\ taken[u] = None /\ link[t][u] # <<>>
           /\ taken'[u] # None /\ taken'[u].m = m /\ taken'[u].from = t
           /\ taken'[u].state = state[u]
           /\ \A v \in Server : v # u => taken'[v] = taken[v]
           /\ link'[t][u] = Tail(link[t][u])
           /\ \A v, w \in Server : v # t \/ w # u => link'[v][w] = link[v][w]
           /\ LinkTyped' /\ TakenTyped'
    BY <1>2, TakeGoes
  <2>2. UNCHANGED join
    BY <1>2 DEF Take
  <2>3. CASE u = Leader /\ t # s
    <3>1. link'[s][Leader] = link[s][Leader] /\ link'[Leader][s] = link[Leader][s] /\ taken'[s] = taken[s]
      BY <1>0, <2>1, <2>3
    <3>2. (Considered(s)' => Considered(s)) /\ (Answered(s)' => Answered(s)) /\ (Holds(s)' => Holds(s))
      BY <2>1, <2>3, <3>1 DEF Considered, Answered, HasAnswer, Holds
    <3>3. OneIn(link'[Leader][s]) /\ join'[s].pc # "retry"
      BY <2>2, <3>1 DEF OneAnswer
    <3> QED BY <1>1, <2>2, <3>1, <3>2, <3>3, AnswerKept
  <2>4. CASE u = Leader /\ t = s
    <3>1. link'[Leader][s] = link[Leader][s] /\ taken'[s] = taken[s]
      BY <1>0, <2>1, <2>4
    <3>2. Requested(s) /\ join[s].pc = "wait"
      BY <2>1, <2>4 DEF Requested, OneAnswer
    <3>3. link[s][Leader] \in Seq({ConnectToLeader}) /\ Len(link[s][Leader]) = 1
      BY <3>2 DEF OneAnswer, Typed, LinkTyped
    <3>4. link'[s][Leader] = <<>>
      <4> DEFINE q == link[s][Leader]
      <4>1. q \in Seq({ConnectToLeader}) /\ Len(q) = 1 /\ link'[s][Leader] = Tail(q)
        BY <2>1, <2>4, <3>3
      <4> HIDE DEF q
      <4>2. Tail(q) = <<>>
        BY <4>1
      <4> QED BY <4>1, <4>2
    <3>5. ~ Requested(s)' /\ ~ Answering(s)' /\ ~ Answered(s)' /\ ~ Holds(s)'
      <4>1. ~ Answering(s) /\ ~ Answered(s) /\ ~ Holds(s)
        BY <3>2 DEF OneAnswer
      <4> QED BY <1>1, <3>1, <3>4, <4>1 DEF Requested, Answering, Answered, HasAnswer, Holds
    <3>6. OneIn(link'[Leader][s])
          /\ \A g, h \in handlers' : g.pc = "send" /\ g.from = s /\ h.pc = "send" /\ h.from = s => g = h
      BY <1>1, <3>1 DEF OneAnswer
    <3> QED BY <2>2, <3>2, <3>5, <3>6 DEF OneAnswer, OneIn
  <2>5. CASE u = s
    <3> DEFINE q == link[Leader][s]
    <3>1. /\ t = Leader /\ q \in Seq(News) /\ q # <<>> /\ link'[Leader][s] = Tail(q) /\ taken[s] = None
          /\ taken'[s].m = Head(q) /\ link'[s][Leader] = link[s][Leader] /\ taken'[Leader] = taken[Leader]
      BY <1>0, <2>1, <2>5
    <3>2. OneIn(q) /\ (Answered(s) <=> HasAnswer(q)) /\ (Answered(s)' <=> HasAnswer(Tail(q)))
      BY <3>1 DEF OneAnswer, Answered, HasAnswer
    <3>3. Holds(s)' => Head(q).type = "PeerInfo"
      BY <3>1 DEF Holds
    <3> HIDE DEF q
    <3>4. /\ Answered(s)' => Answered(s)
          /\ Holds(s)' => Answered(s) /\ ~ Answered(s)'
          /\ OneIn(Tail(q))
      BY <3>1, <3>2, <3>3, AnswersTail
    <3>5. CASE Holds(s)'
      <4>1. Answered(s) /\ ~ Answered(s)' /\ join[s].pc = "wait"
        BY <3>4, <3>5 DEF OneAnswer
      <4>2. ~ Requested(s)' /\ ~ Considered(s)' /\ ~ Answering(s)'
        <5>1. ~ Requested(s) /\ ~ Considered(s) /\ ~ Answering(s)
          BY <4>1 DEF OneAnswer
        <5> QED BY <1>1, <3>1, <5>1 DEF Requested, Considered, Answering
      <4>3. OneIn(link'[Leader][s])
            /\ \A g, h \in handlers' : g.pc = "send" /\ g.from = s /\ h.pc = "send" /\ h.from = s => g = h
        BY <1>1, <3>1, <3>4 DEF OneAnswer
      <4> QED BY <2>2, <4>1, <4>2, <4>3 DEF OneAnswer, OneIn
    <3>6. CASE ~ Holds(s)'
      <4>1. OneIn(link'[Leader][s]) /\ join'[s].pc # "retry"
        BY <2>2, <3>1, <3>4 DEF OneAnswer
      <4>2. Considered(s)' => Considered(s)
        BY <3>1 DEF Considered
      <4>3. /\ link'[s][Leader] = link[s][Leader] /\ (join'[s].pc # "wait" => join[s].pc # "wait")
            /\ \A h \in handlers' : h.pc = "send" /\ h.from = s => h \in handlers
        BY <1>1, <2>2, <3>1
      <4>4. Answered(s)' => Answered(s)
        BY <3>4
      <4>5. Holds(s)' => Holds(s)
        BY <3>6
      <4> QED BY <4>1, <4>2, <4>3, <4>4, <4>5, AnswerKept
    <3> QED BY <3>5, <3>6
  <2>6. CASE u # Leader /\ u # s
    <3>1. /\ taken'[s] = taken[s] /\ taken'[Leader] = taken[Leader]
          /\ link'[s][Leader] = link[s][Leader] /\ link'[Leader][s] = link[Leader][s]
      BY <1>0, <2>1, <2>6
    <3> QED BY <1>1, <2>2, <3>1, AnswerUntouched
  <2> QED BY <2>3, <2>4, <2>5, <2>6
<1>3. CASE ChangeSession(u) \/ Drop(u)
  <2>1. UNCHANGED <<join, link>> /\ Done(u)
    BY <1>3 DEF ChangeSession, Drop
  <2>2. taken'[s] \in {taken[s], None} /\ taken'[Leader] \in {taken[Leader], None}
    BY <1>0, <2>1, DoneGoes
  <2> QED BY <1>1, <2>1, <2>2, AnswerUntouched
<1>4. CASE GetPeerInfo(u)
  <2>1. /\ u \in Joiner /\ taken[u] # None /\ taken[u].m.type = "PeerInfo" /\ join[u].pc = "wait"
        /\ taken'[u] = None /\ \A v \in Server : v # u => taken'[v] = taken[v]
        /\ join'[u].pc \in Accepted /\ \A v \in Server : v # u => join'[v] = join[v]
    BY <1>4, GetPeerInfoGoes
  <2>2. UNCHANGED link
    BY <1>4 DEF GetPeerInfo
  <2>3. CASE u # s
    BY <1>0, <1>1, <2>1, <2>2, <2>3, AnswerUntouched
  <2>4. CASE u = s
    <3>1. Holds(s)
      BY <2>1, <2>4 DEF Holds
    <3>2. ~ Requested(s) /\ ~ Considered(s) /\ ~ Answering(s) /\ ~ Answered(s)
      BY <3>1 DEF OneAnswer
    <3>3. taken'[Leader] = taken[Leader] /\ taken'[s] = None
      BY <1>0, <2>1, <2>4
    <3>4. ~ Requested(s)' /\ ~ Considered(s)' /\ ~ Answering(s)' /\ ~ Answered(s)' /\ ~ Holds(s)'
      BY <1>1, <2>2, <3>2, <3>3 DEF Requested, Considered, Answering, Answered, HasAnswer, Holds
    <3>5. join'[s].pc # "retry"
      BY <2>1, <2>4 DEF Accepted
    <3>6. OneIn(link'[Leader][s])
          /\ \A g, h \in handlers' : g.pc = "send" /\ g.from = s /\ h.pc = "send" /\ h.from = s => g = h
      BY <1>1, <2>2 DEF OneAnswer
    <3> QED BY <3>4, <3>5, <3>6 DEF OneAnswer, OneIn
  <2> QED BY <2>3, <2>4
<1> QED BY <1>2, <1>3, <1>4 DEF ListenerStep

\* The leader takes up a request.
LEMMA AnswerConnect ==
  ASSUME Typed, NEW s \in Joiner, OneAnswer(s), NEW u, Connect(u)
  PROVE  OneAnswer(s)'
<1>1. /\ u \in Joiner /\ taken[Leader] # None /\ taken[Leader].from = u
      /\ taken'[Leader] = None /\ taken'[s] = taken[s]
  BY ConnectGoes, Joiners
<1>2. PICK f \in Handler : handlers' = handlers \cup {f} /\ f.from = u /\ f.pc = "send"
  BY ConnectGoes
<1>3. UNCHANGED <<join, link>>
  BY DEF Connect
<1> HIDE DEF Typed
<1>4. CASE u # s
  BY <1>1, <1>2, <1>3, <1>4, AnswerUntouched
<1>5. CASE u = s
  <2>1. Considered(s)
    BY <1>1, <1>5 DEF Considered
  <2>2. join[s].pc = "wait" /\ ~ Requested(s) /\ ~ Answering(s) /\ ~ Answered(s) /\ ~ Holds(s)
    BY <2>1 DEF OneAnswer
  <2>3. ~ Requested(s)' /\ ~ Considered(s)' /\ ~ Answered(s)' /\ ~ Holds(s)'
    BY <1>1, <1>3, <2>2 DEF Requested, Considered, Answered, HasAnswer, Holds
  <2>4. \A g, h \in handlers' : g.pc = "send" /\ g.from = s /\ h.pc = "send" /\ h.from = s => g = h
    BY <1>2, <2>2 DEF Answering
  <2>5. OneIn(link'[Leader][s]) /\ join'[s].pc = "wait"
    BY <1>3, <2>2 DEF OneAnswer
  <2> QED BY <2>3, <2>4, <2>5 DEF OneAnswer, OneIn
<1> QED BY <1>4, <1>5

\* The answer is sent.
LEMMA AnswerHandlerSend ==
  ASSUME Typed, NEW s \in Joiner, OneAnswer(s), NEW f \in handlers, HandlerSend(f)
  PROVE  OneAnswer(s)'
<1>0. Leader \in Server /\ s \in Server /\ s # Leader /\ link[Leader][s] \in Seq(News)
  BY Joiners DEF Typed, LinkTyped
<1>1. PICK e \in Handler : handlers' = (handlers \ {f}) \cup {e} /\ e.pc = "sent"
  BY HandlerSendGoes
<1>2. PICK m \in News : link'[Leader][f.from] = Append(link[Leader][f.from], m)
  BY HandlerSendGoes
<1>3. /\ f.pc = "send" /\ f.from \in Joiner
      /\ \A u, v \in Server : u # Leader \/ v # f.from => link'[u][v] = link[u][v]
  BY HandlerSendGoes
<1>4. UNCHANGED <<join, taken>>
  BY DEF HandlerSend, serverVars
<1> HIDE DEF Typed
<1>5. link'[s][Leader] = link[s][Leader]
  BY <1>0, <1>3
<1>6. CASE f.from # s
  <2>1. link'[Leader][s] = link[Leader][s]
    BY <1>0, <1>3, <1>6
  <2> QED BY <1>1, <1>4, <1>5, <2>1, AnswerUntouched
<1>7. CASE f.from = s
  <2>1. Answering(s)
    BY <1>3, <1>7 DEF Answering
  <2>2. join[s].pc = "wait" /\ ~ Requested(s) /\ ~ Considered(s) /\ ~ Answered(s) /\ ~ Holds(s)
    BY <2>1 DEF OneAnswer
  <2>3. \A h \in handlers' : h.pc = "send" => h.from # s
    BY <1>1, <1>3, <1>7 DEF OneAnswer
  <2>4. ~ Requested(s)' /\ ~ Considered(s)' /\ ~ Answering(s)' /\ ~ Holds(s)'
    BY <1>4, <1>5, <2>2, <2>3 DEF Requested, Considered, Answering, Holds
  <2>5. OneIn(link'[Leader][s])
    <3>1. ~ HasAnswer(link[Leader][s])
      BY <2>2 DEF Answered
    <3> QED BY <1>0, <1>2, <1>7, <3>1, AnswersAppend
  <2> QED BY <1>4, <2>2, <2>3, <2>4, <2>5 DEF OneAnswer, OneIn
<1> QED BY <1>6, <1>7

\* A session change is sent, which is no answer.
LEMMA AnswerCallSend ==
  ASSUME Typed, NEW s \in Joiner, OneAnswer(s), NEW c \in calls, CallSend(c)
  PROVE  OneAnswer(s)'
<1>0. Leader \in Server /\ s \in Server /\ s # Leader /\ link[Leader][s] \in Seq(News)
  BY Joiners DEF Typed, LinkTyped
<1>1. /\ c.m \in News /\ c.m.type = "MulticastSessionChange"
      /\ link'[Leader][c.to] = Append(link[Leader][c.to], c.m)
      /\ \A u, v \in Server : u # Leader \/ v # c.to => link'[u][v] = link[u][v]
  BY CallSendGoes
<1>2. UNCHANGED <<join, taken, handlers>>
  BY DEF CallSend, serverVars
<1> HIDE DEF Typed
<1>3. link'[s][Leader] = link[s][Leader] /\ OneIn(link[Leader][s])
  BY <1>0, <1>1 DEF OneAnswer
<1>4. /\ HasAnswer(link'[Leader][s]) => HasAnswer(link[Leader][s])
      /\ OneIn(link'[Leader][s])
  <2>1. CASE c.to # s
    <3>1. link'[Leader][s] = link[Leader][s]
      BY <1>0, <1>1, <2>1
    <3> QED BY <1>3, <3>1 DEF OneIn, HasAnswer
  <2>2. CASE c.to = s
    <3> DEFINE q == link[Leader][s]
               a == Append(q, c.m)
    <3>1. q \in Seq(News) /\ c.m \in News /\ c.m.type # "PeerInfo" /\ OneIn(q) /\ link'[Leader][s] = a
      BY <1>0, <1>1, <1>3, <2>2
    <3> HIDE DEF q
    <3>2. OneIn(a) /\ (HasAnswer(a) => HasAnswer(q))
      BY <3>1, NewsAppend
    <3> HIDE DEF a
    <3> QED BY <3>1, <3>2 DEF OneIn, HasAnswer, q
  <2> QED BY <2>1, <2>2
<1>5. (Considered(s)' => Considered(s)) /\ (Answered(s)' => Answered(s)) /\ (Holds(s)' => Holds(s))
  <2>1. Answered(s)' <=> HasAnswer(link'[Leader][s])
    BY DEF Answered, HasAnswer
  <2> QED BY <1>2, <1>4, <2>1 DEF Considered, Answered, Holds
<1>6. join'[s].pc # "retry"
  BY <1>2 DEF OneAnswer
<1> QED BY <1>2, <1>3, <1>4, <1>5, <1>6, AnswerKept

\* Every step keeps it to one answer, for a server that never timed out.
LEMMA AnswerStep ==
  ASSUME Typed, NEW s \in Joiner, OneAnswer(s), s \notin retried', [Next]_vars
  PROVE  OneAnswer(s)'
<1>0. /\ Leader \in Server /\ Leader \notin Joiner /\ s \in Server
      /\ \A u \in crashed : u \in Joiner
  BY Joiners DEF Typed, LeaderTyped
<1> HIDE DEF Typed
<1>1. CASE \E u \in Joiner : BeginJoin(u) \/ JoinTimesOut(u) \/ JoinStep(u)
  BY <1>1, AnswerJoin
<1>2. CASE \E u \in Server : ListenerStep(u)
  BY <1>2, AnswerListener
<1>3. CASE \E u : Connect(u)
  BY <1>3, AnswerConnect
<1>4. CASE \E h \in handlers : HandlerSend(h)
  BY <1>4, AnswerHandlerSend
<1>5. CASE \E c \in calls : CallSend(c)
  BY <1>5, AnswerCallSend
<1>6. CASE \E h \in handlers : HandlerRetire(h)
  <2>1. PICK h \in handlers : HandlerRetire(h)
    BY <1>6
  <2>2. \E g : handlers' = (handlers \ {h}) \cup {g} /\ g.pc = "replace"
    BY <2>1, HandlerRetireGoes
  <2>3. UNCHANGED <<join, taken, link>>
    BY <2>1 DEF HandlerRetire
  <2> QED BY <2>2, <2>3, AnswerUntouched
<1>7. CASE handlers' \subseteq handlers /\ UNCHANGED <<join, taken, link>>
  BY <1>7, AnswerUntouched
<1> QED BY <1>0, <1>1, <1>2, <1>3, <1>4, <1>5, <1>6, <1>7
        DEF Next, HandlerStep, MailStep, MainLoop, HandlerReplace, DeclareDead, HandlerFails,
            ReadDeath, LoseDeath, HandleDeath, Crash, vars, serverVars, leaderVars, Live

\* Every step keeps it so for all of them.
LEMMA FirstAnswersStep ==
  ASSUME Typed, FirstAnswers, [Next]_vars
  PROVE  FirstAnswers'
<1>1. retried \subseteq retried'
  BY DEF Next, JoinStep, ListenerStep, HandlerStep, MailStep, BeginJoin, JoinTimesOut, SendConnect,
              Retry, AddPeers, BecomeFollower, JoinMulticast, MainLoop, Take, ChangeSession, Drop,
              GetPeerInfo, Connect, HandlerSend, HandlerRetire, HandlerReplace, DeclareDead,
              HandlerFails, CallSend, ReadDeath, LoseDeath, HandleDeath, Crash, vars, faultVars
<1> SUFFICES ASSUME NEW s \in Joiner, s \notin retried' PROVE OneAnswer(s)'
  BY DEF FirstAnswers
<1>2. OneAnswer(s)
  BY <1>1 DEF FirstAnswers
<1> QED BY <1>2, AnswerStep

\* The initial state has no request and no answer.
LEMMA FirstAnswersInit == Init => FirstAnswers
<1> SUFFICES ASSUME Init, NEW s \in Joiner PROVE OneAnswer(s)
  BY DEF FirstAnswers
<1>1. /\ join[s].pc = "idle" /\ taken[s] = None /\ taken[Leader] = None
      /\ link[s][Leader] = <<>> /\ link[Leader][s] = <<>> /\ handlers = {}
  BY Joiners DEF Init, At
<1>2. ~ Requested(s) /\ ~ Considered(s) /\ ~ Answering(s) /\ ~ Answered(s) /\ ~ Holds(s)
  BY <1>1 DEF Requested, Considered, Answering, Answered, HasAnswer, Holds
<1> QED BY <1>1, <1>2 DEF OneAnswer, OneIn

\* The unicast listener of a server that never timed out does not hold a peer
\* list that nobody waits for, with any number of servers, joins and faults.
THEOREM ListenerFreeCorrect == Spec => []ListenerFree
<1> DEFINE I == Typed /\ FirstAnswers
<1>1. Init => I
  BY TypedInit, FirstAnswersInit
<1>2. I /\ [Next]_vars => I'
  BY TypedStep, FirstAnswersStep
<1>3. I => ListenerFree
  <2> SUFFICES ASSUME Typed, FirstAnswers, NEW s \in Joiner \ retried, taken[s] # None,
                      Heeded(taken[s].m.type, taken[s].state)
               PROVE  join[s].pc = "wait"
    BY DEF ListenerFree
  <2>1. taken[s].m.type = "PeerInfo"
    BY DEF Typed, TakenTyped, Heeded
  <2>2. OneAnswer(s) /\ Holds(s)
    BY <2>1 DEF FirstAnswers, Holds
  <2> QED BY <2>2 DEF OneAnswer
<1> HIDE DEF I
<1> QED BY <1>1, <1>2, <1>3, PTL DEF Spec

-----------------------------------------------------------------------------
(* Agreement: once the leader has taken up a join when nothing else was     *)
(* under way, everything that is still sent, held or installed is of the    *)
(* session of that join.                                                    *)

\* The session that the leader makes, and its members.
Last(x) == x.peers = peers[Leader] /\ x.port = ports
UpToDate(t) == rm[t] = Session(peers[Leader], ports) /\ peers[t] = peers[Leader]

\* The leader makes one session, and multicasts deaths only when it is made and
\* everybody was told.
Leads ==
  /\ \A g, h \in handlers : g = h
  /\ \A h \in handlers : h.list = peers[Leader] /\ h.port = ports
  /\ handlers = {} => rm[Leader] = Session(peers[Leader], ports)
  /\ \A c \in calls : Last(c.m)
  /\ mail # {} => handlers = {} /\ calls = {}
  /\ \A d, e \in mail : d.to = e.to => d = e
  /\ \A d \in mail : d.port = ports

\* All that t has got and not installed is of that session, and it has nothing
\* when a death is on its way to somebody.
Fine(t) ==
  /\ \A k \in DOMAIN link[Leader][t] : Last(link[Leader][t][k])
  /\ taken[t] # None => Last(taken[t].m)
  /\ join[t].pc \in Accepted => Last(join[t].info)
  /\ join[t].pc # "retry"
  /\ mail # {} => link[Leader][t] = <<>> /\ taken[t] = None /\ join[t].pc \notin Accepted

\* The leader will send t a session change, or has.
HasChange(q) == \E k \in DOMAIN q : q[k].type = "MulticastSessionChange"
Told(t) == \E h \in handlers : h.pc \in {"send", "sent"} /\ t # h.from
Called(t) == \E c \in calls : c.to = t
Due(t) ==
  \/ Told(t) \/ Called(t) \/ HasChange(link[Leader][t])
  \/ taken[t] # None /\ taken[t].m.type = "MulticastSessionChange"

\* t joins, and waits for the peer list or has it.
Joining(t) == join[t].pc \in {"wait"} \cup Accepted

\* A multicast death is on its way to t, which agrees but for the dead.
Mailed(t) == \E d \in mail : d.to = t
ButForDeath(t, d) ==
  /\ rm[t].port = ports /\ rm[t].open
  /\ rm[t].members \ {d.dead} = peers[Leader]
  /\ d.read => rm[t].members = peers[Leader]
  /\ peers[t] \ {d.dead} = peers[Leader]

\* t has the session, or will.
Will(t) ==
  /\ UpToDate(t) \/ Due(t) \/ Mailed(t) \/ Joining(t)
  /\ \A d \in mail : d.to = t => ButForDeath(t, d)

\* What holds of a live server, and of all while the last join is clean.
Good(t) == Fine(t) /\ (t \in peers[Leader] => Will(t))

Sound == Leads /\ \A t \in Joiner \ crashed : Good(t)

Clean == clean => Sound

-----------------------------------------------------------------------------
\* A session with this list and port that is open is the session made of them.
LEMMA SessionEquals ==
  ASSUME NEW r \in [port : Nat, members : SUBSET Server, open : BOOLEAN],
         NEW l \in SUBSET Server, NEW p \in Nat, r.port = p, r.members = l, r.open
  PROVE  r = Session(l, p)
<1>1. r.open = TRUE
  BY Zenon
<1>2. r = [port |-> r.port, members |-> r.members, open |-> r.open]
  OBVIOUS
<1> QED BY <1>1, <1>2 DEF Session

\* What is left of a link when its first message is taken: a session change that
\* is not left was that message.
LEMMA LinkTail ==
  ASSUME NEW q \in Seq(News), q # <<>>
  PROVE  /\ 1 \in DOMAIN q /\ Head(q) = q[1]
         /\ \A k \in DOMAIN Tail(q) : \E j \in DOMAIN q : Tail(q)[k] = q[j]
         /\ HasChange(q) => HasChange(Tail(q)) \/ Head(q).type = "MulticastSessionChange"
<1>1. /\ Len(q) \in Nat \ {0} /\ DOMAIN q = 1..Len(q) /\ Head(q) = q[1]
      /\ DOMAIN Tail(q) = 1..(Len(q) - 1) /\ \A k \in DOMAIN Tail(q) : Tail(q)[k] = q[k + 1]
  OBVIOUS
<1>2. 1 \in DOMAIN q /\ \A k \in DOMAIN Tail(q) : k + 1 \in DOMAIN q
  BY <1>1
<1>3. \A j \in DOMAIN q : j # 1 => j - 1 \in DOMAIN Tail(q) /\ Tail(q)[j - 1] = q[j]
  BY <1>1
<1>4. HasChange(q) => HasChange(Tail(q)) \/ Head(q).type = "MulticastSessionChange"
  BY <1>1, <1>3 DEF HasChange
<1> QED BY <1>1, <1>2, <1>4

\* What is on a link when news are put at its end.
LEMMA LinkAppend ==
  ASSUME NEW q \in Seq(News), NEW m \in News
  PROVE  /\ \A k \in DOMAIN Append(q, m) :
              Append(q, m)[k] = m \/ \E j \in DOMAIN q : Append(q, m)[k] = q[j]
         /\ HasChange(q) \/ m.type = "MulticastSessionChange" => HasChange(Append(q, m))
<1> DEFINE a == Append(q, m)
<1>1. /\ Len(q) \in Nat /\ DOMAIN q = 1..Len(q) /\ DOMAIN a = 1..(Len(q) + 1)
      /\ a[Len(q) + 1] = m /\ \A k \in DOMAIN q : a[k] = q[k]
  OBVIOUS
<1>2. /\ \A k \in DOMAIN a : (k \in DOMAIN q /\ a[k] = q[k]) \/ a[k] = m
      /\ \A k \in DOMAIN q : k \in DOMAIN a /\ a[k] = q[k]
      /\ \E k \in DOMAIN a : a[k] = m
  BY <1>1
<1> HIDE DEF a
<1>3. HasChange(q) \/ m.type = "MulticastSessionChange" => HasChange(a)
  BY <1>2 DEF HasChange
<1> QED BY <1>2, <1>3 DEF a

\* A link stays one of the last session, when news of that session are put at
\* its end, or nothing.
LEMMA LastAppend ==
  ASSUME NEW q \in Seq(News), NEW m \in News, NEW a, a = q \/ a = Append(q, m),
         Last(m), \A k \in DOMAIN q : Last(q[k])
  PROVE  (\A k \in DOMAIN a : Last(a[k])) /\ (HasChange(q) => HasChange(a))
<1> HIDE DEF Last, HasChange
<1>1. CASE a = q
  BY <1>1
<1>2. CASE a = Append(q, m)
  <2>1. /\ \A k \in DOMAIN a : a[k] = m \/ \E j \in DOMAIN q : a[k] = q[j]
        /\ HasChange(q) => HasChange(a)
    BY <1>2, LinkAppend
  <2> QED BY <2>1
<1> QED BY <1>1, <1>2

\* What is fine stays so when nothing new is sent to t, held by it or accepted.
LEMMA FineKept ==
  ASSUME NEW t \in Joiner, Fine(t), peers'[Leader] = peers[Leader], ports' = ports,
         link'[Leader][t] = link[Leader][t], taken'[t] \in {taken[t], None},
         join'[t].pc # "retry",
         join'[t].pc \in Accepted => join[t].pc \in Accepted /\ join'[t].info = join[t].info,
         mail' # {} => mail # {}
  PROVE  Fine(t)'
BY DEF Fine, Last

\* What t has, or is due to it, stays so.
LEMMA WillKept ==
  ASSUME NEW t \in Joiner, Will(t), peers'[Leader] = peers[Leader], ports' = ports,
         rm'[t] = rm[t], peers'[t] = peers[t],
         Due(t) => Due(t)', Joining(t) => Joining(t)', Mailed(t) => Mailed(t)',
         \A d \in mail' : d.to = t => d \in mail
  PROVE  Will(t)'
<1> HIDE DEF Due, Joining, Mailed
<1>1. UpToDate(t) => UpToDate(t)'
  BY DEF UpToDate, Session
<1>2. \A d \in mail' : d.to = t => ButForDeath(t, d)'
  BY DEF Will, ButForDeath
<1> QED BY <1>1, <1>2 DEF Will

\* What the leader knows of the session stays so.
LEMMA LeadsKept ==
  ASSUME Leads, peers'[Leader] = peers[Leader], rm'[Leader] = rm[Leader],
         UNCHANGED <<handlers, ports>>, calls' \subseteq calls, mail' \subseteq mail
  PROVE  Leads'
BY DEF Leads, Last, Session

\* A step of another server.
LEMMA GoodUntouched ==
  ASSUME NEW t \in Joiner, Good(t), peers'[Leader] = peers[Leader],
         rm'[t] = rm[t], peers'[t] = peers[t], join'[t] = join[t], taken'[t] = taken[t],
         link'[Leader][t] = link[Leader][t], UNCHANGED <<handlers, calls, ports>>,
         \A d \in mail' : d.to = t => d \in mail, \A d \in mail : d.to = t => d \in mail',
         mail' # {} => mail # {}
  PROVE  Good(t)'
<1>1. Fine(t)'
  <2>1. Fine(t) /\ (join[t].pc # "retry")
    BY DEF Good, Fine
  <2> QED BY <2>1, FineKept
<1>2. ASSUME Will(t) PROVE Will(t)'
  <2>1. Due(t) => Due(t)'
    BY DEF Due, Told, Called, HasChange
  <2>2. Joining(t) => Joining(t)'
    BY DEF Joining
  <2>3. Mailed(t) => Mailed(t)'
    BY DEF Mailed
  <2> QED BY <1>2, <2>1, <2>2, <2>3, WillKept
<1> QED BY <1>1, <1>2 DEF Good

-----------------------------------------------------------------------------
(* Every step                                                              *)

\* A step of one server that touches nothing of the leader's or of the others'.
LEMMA SoundLocal ==
  ASSUME Sound, NEW s \in Joiner, Good(s)',
         \A u \in Server : u # s => /\ rm'[u] = rm[u] /\ peers'[u] = peers[u] /\ join'[u] = join[u]
                                    /\ taken'[u] = taken[u] /\ link'[Leader][u] = link[Leader][u],
         UNCHANGED <<handlers, calls, mail, ports, crashed>>
  PROVE  Sound'
<1>1. peers'[Leader] = peers[Leader] /\ rm'[Leader] = rm[Leader]
  BY Joiners
<1>2. Leads'
  BY <1>1, LeadsKept DEF Sound
<1>3. ASSUME NEW t \in Joiner \ crashed PROVE Good(t)'
  <2>1. CASE t = s
    BY <2>1
  <2>2. CASE t # s
    <3>1. Good(t) /\ t \in Joiner /\ t \in Server
      BY Joiners DEF Sound
    <3> QED BY <1>1, <2>2, <3>1, GoodUntouched
  <2> QED BY <2>1, <2>2
<1> QED BY <1>2, <1>3 DEF Sound

\* A server that installs the last session has it.
LEMMA GoodUpToDate ==
  ASSUME NEW t \in Joiner, Fine(t)', UpToDate(t)', mail' = {}
  PROVE  Good(t)'
<1> HIDE DEF UpToDate, Fine
<1>1. Will(t)'
  BY DEF Will
<1> QED BY <1>1 DEF Good

\* One that still waits for its peer list will have it.
LEMMA GoodJoining ==
  ASSUME NEW t \in Joiner, Fine(t)', Joining(t)', mail' = {}
  PROVE  Good(t)'
<1> HIDE DEF Joining, Fine
<1>1. Will(t)'
  BY DEF Will
<1> QED BY <1>1 DEF Good

\* The steps of a join.
LEMMA SoundJoin ==
  ASSUME Typed, Fresh, Sound, NEW s \in Joiner \ crashed, BeginJoin(s) \/ JoinStep(s)
  PROVE  Sound'
<1>0. /\ s \in Joiner /\ s \in Server /\ s # Leader /\ Leader \in Server /\ Good(s) /\ Fine(s)
      /\ JoinTyped /\ Once(s)
  BY Joiners DEF Sound, Good, Typed, Fresh
<1> HIDE DEF Typed, Fresh, Sound, Good, Fine, Once, JoinTyped
<1> USE DEF leaderVars, faultVars
<1>1. CASE BeginJoin(s) \/ SendConnect(s)
  <2>1. /\ UNCHANGED <<handlers, calls, mail, ports, crashed, peers, rm, taken>>
        /\ \A u \in Server : u # s => join'[u] = join[u]
        /\ ~ Joining(s)
        /\ join'[s].pc \in {"connect", "wait"}
    <3>1. CASE BeginJoin(s)
      <4>1. join'[s].pc = "connect" /\ \A u \in Server : u # s => join'[u] = join[u]
        BY <1>0, <3>1, JoinGoes DEF BeginJoin
      <4> QED BY <3>1, <4>1 DEF BeginJoin, Joining, Accepted
    <3>2. CASE SendConnect(s)
      <4>1. join'[s].pc = "wait" /\ \A u \in Server : u # s => join'[u] = join[u]
        BY <1>0, <3>2, JoinGoes DEF SendConnect
      <4> QED BY <3>2, <4>1 DEF SendConnect, Joining, Accepted
    <3> QED BY <1>1, <3>1, <3>2
  <2>2. \A u \in Server : link'[Leader][u] = link[Leader][u]
    <3>1. CASE BeginJoin(s)
      BY <3>1 DEF BeginJoin
    <3>2. CASE SendConnect(s)
      <4>1. LinkTyped /\ SendTo(s, Leader, ConnectToLeader)
        BY <3>2 DEF SendConnect, Typed
      <4>2. \A u, v \in Server : u # s \/ v # Leader => link'[u][v] = link[u][v]
        BY <1>0, <4>1, SendGoes
      <4> QED BY <1>0, <4>2, Joiners
    <3> QED BY <1>1, <3>1, <3>2
  <2>3. Fine(s)'
    <3>1. join'[s].pc # "retry" /\ join'[s].pc \notin Accepted /\ link'[Leader][s] = link[Leader][s]
      BY <1>0, <2>1, <2>2 DEF Accepted
    <3> QED BY <1>0, <2>1, <3>1, FineKept
  <2>4. ASSUME Will(s) PROVE Will(s)'
    <3>1. Due(s) => Due(s)'
      BY <1>0, <2>1, <2>2 DEF Due, Told, Called, HasChange
    <3>2. Mailed(s) => Mailed(s)'
      BY <2>1 DEF Mailed
    <3> QED BY <1>0, <2>1, <2>4, <3>1, <3>2, WillKept
  <2>5. Good(s)'
    BY <1>0, <2>1, <2>3, <2>4 DEF Good
  <2> QED BY <1>0, <2>1, <2>2, <2>5, SoundLocal
<1>2. CASE Retry(s)
  BY <1>0, <1>2 DEF Retry, Fine
<1>3. CASE AddPeers(s) \/ BecomeFollower(s)
  <2>1. /\ join[s].pc \in Accepted /\ join'[s].pc \in Accepted /\ join'[s].info = join[s].info
        /\ \A u \in Server : u # s => join'[u] = join[u]
    BY <1>0, <1>3, JoinGoesOn DEF AddPeers, BecomeFollower, Accepted
  <2>2. UNCHANGED <<handlers, calls, mail, ports, crashed, rm, taken, link>>
    BY <1>3 DEF AddPeers, BecomeFollower
  <2>3. \A u \in Server : u # s => peers'[u] = peers[u]
    BY <1>0, <1>3 DEF AddPeers, BecomeFollower, Typed, ServerTyped
  <2>4. peers'[Leader] = peers[Leader] /\ mail = {}
    BY <1>0, <2>1, <2>3 DEF Fine
  <2>5. Fine(s)'
    <3>1. join'[s].pc # "retry"
      BY <2>1 DEF Accepted
    <3> QED BY <1>0, <2>1, <2>2, <2>4, <3>1, FineKept
  <2>6. Good(s)'
    BY <1>0, <2>1, <2>2, <2>4, <2>5, GoodJoining DEF Joining
  <2> QED BY <1>0, <2>1, <2>2, <2>3, <2>6, SoundLocal
<1>4. CASE JoinMulticast(s)
  <2> DEFINE m == join[s].info
  <2>1. /\ m \in News /\ join[s].pc \in Accepted /\ Last(m)
        /\ join'[s].pc = "joined" /\ \A u \in Server : u # s => join'[u] = join[u]
        /\ peers'[s] = m.peers /\ \A u \in Server : u # s => peers'[u] = peers[u]
        /\ \A u \in Server : u # s => rm'[u] = rm[u]
        /\ rm[s].port # m.port => rm'[s] = Session(m.peers, m.port)
        /\ mail = {}
    <3>1. join[s].pc \in Accepted
      BY <1>0, <1>4, JoinMulticastGoes
    <3> QED BY <1>0, <1>4, <3>1, JoinMulticastGoes DEF Fine
  <2>2. rm[s].port # m.port
    <3>1. m.port \in JoinPort(s)
      BY <2>1 DEF JoinPort
    <3> QED BY <1>0, <3>1 DEF Once, Apart
  <2>3. UNCHANGED <<handlers, calls, mail, ports, crashed, taken, link>>
    BY <1>4 DEF JoinMulticast
  <2>4. peers'[Leader] = peers[Leader]
    BY <1>0, <2>1
  <2>5. UpToDate(s)'
    BY <2>1, <2>2, <2>3, <2>4 DEF UpToDate, Last, Session
  <2>6. Fine(s)'
    <3>1. join'[s].pc # "retry" /\ join'[s].pc \notin Accepted
      BY <2>1 DEF Accepted
    <3> QED BY <1>0, <2>1, <2>3, <2>4, <3>1, FineKept
  <2>7. Good(s)'
    BY <1>0, <2>1, <2>3, <2>5, <2>6, GoodUpToDate
  <2> QED BY <1>0, <2>1, <2>3, <2>7, SoundLocal
<1> QED BY <1>1, <1>2, <1>3, <1>4 DEF JoinStep

\* The steps of the unicast listener.
LEMMA SoundListener ==
  ASSUME Typed, Sound, NEW s \in Server \ crashed, ListenerStep(s)
  PROVE  Sound'
<1>0. /\ s \in Server /\ Leader \in Server /\ Leader \notin Joiner /\ Leads
      /\ \A t \in Joiner : t \in Server /\ t # Leader /\ link[Leader][t] \in Seq(News)
      /\ \A t \in Joiner \ crashed : t \in Joiner /\ Good(t) /\ Fine(t)
      /\ s # Leader => s \in Joiner \ crashed /\ s \in Joiner /\ Good(s) /\ Fine(s)
      /\ TakenTyped /\ JoinTyped
  BY Joiners DEF Sound, Good, Typed, LinkTyped
<1>1. UNCHANGED <<handlers, calls, mail, ports, crashed>>
  BY DEF ListenerStep, Take, ChangeSession, Drop, GetPeerInfo, leaderVars, faultVars
<1> HIDE DEF Typed, Sound, Good, Fine, Leads, TakenTyped, JoinTyped
<1>2. CASE Take(s)
  <2>1. PICK f \in Server :
           LET m == Head(link[f][s]) IN
           /\ \/ s = Leader /\ f \in Joiner /\ m = ConnectToLeader
              \/ s \in Joiner /\ f = Leader /\ m \in News
           /\ taken[s] = None /\ link[f][s] # <<>>
           /\ taken'[s] # None /\ taken'[s].m = m /\ taken'[s].from = f
           /\ taken'[s].state = state[s]
           /\ \A u \in Server : u # s => taken'[u] = taken[u]
           /\ link'[f][s] = Tail(link[f][s])
           /\ \A u, v \in Server : u # f \/ v # s => link'[u][v] = link[u][v]
           /\ LinkTyped' /\ TakenTyped'
    BY <1>2, TakeGoes
  <2>2. UNCHANGED <<rm, peers, join>>
    BY <1>2 DEF Take
  <2>3. CASE s = Leader
    <3>1. \A t \in Joiner : taken'[t] = taken[t] /\ link'[Leader][t] = link[Leader][t]
      BY <1>0, <2>1, <2>3
    <3>2. Leads'
      BY <1>0, <1>1, <2>2, LeadsKept
    <3>3. \A t \in Joiner \ crashed : Good(t)'
      BY <1>0, <1>1, <2>2, <3>1, GoodUntouched
    <3> QED BY <1>1, <3>2, <3>3 DEF Sound
  <2>4. CASE s \in Joiner
    <3> DEFINE q == link[Leader][s]
    <3>1. /\ q \in Seq(News) /\ q # <<>> /\ link'[Leader][s] = Tail(q)
          /\ taken'[s].m = Head(q) /\ taken[s] = None
      BY <1>0, <2>1, <2>4
    <3>2. \A k \in DOMAIN q : Last(q[k])
      BY <1>0, <2>1, <2>4 DEF Fine
    <3>3. mail = {}
      BY <1>0, <2>1, <2>4, <3>1 DEF Fine
    <3>4. UpToDate(s) \/ Due(s) \/ Joining(s) \/ s \notin peers[Leader]
      BY <1>0, <2>1, <2>4, <3>3 DEF Good, Will, Mailed
    <3>5. Due(s) => Told(s) \/ Called(s) \/ HasChange(q)
      BY <3>1 DEF Due
    <3> HIDE DEF q
    <3>6. /\ \A k \in DOMAIN Tail(q) : Last(Tail(q)[k])
          /\ Last(Head(q))
          /\ HasChange(q) => HasChange(Tail(q)) \/ Head(q).type = "MulticastSessionChange"
      BY <3>1, <3>2, LinkTail
    <3>7. Fine(s)'
      <4>1. \A m : Last(m) => Last(m)'
        BY <1>1, <2>2 DEF Last
      <4>2. join[s].pc \in Accepted => Last(join[s].info)
        BY <1>0, <2>1, <2>4 DEF Fine
      <4>3. join[s].pc # "retry"
        BY <1>0, <2>1, <2>4 DEF Fine
      <4> QED BY <1>1, <2>1, <2>2, <3>1, <3>3, <3>6, <4>2, <4>3 DEF Fine, Last
    <3>8. Due(s) => Due(s)'
      <4>1. HasChange(q) => HasChange(link'[Leader][s]) \/ taken'[s].m.type = "MulticastSessionChange"
        BY <3>1, <3>6
      <4>2. Told(s) \/ Called(s) => Told(s)' \/ Called(s)'
        BY <1>1 DEF Told, Called
      <4> QED BY <2>1, <3>5, <4>1, <4>2 DEF Due, HasChange
    <3>9. (UpToDate(s) => UpToDate(s)') /\ (Joining(s) => Joining(s)')
      BY <1>1, <2>2 DEF UpToDate, Joining, Session
    <3>10. Good(s)'
      <4>1. s \in peers[Leader] => UpToDate(s)' \/ Due(s)' \/ Joining(s)'
        BY <3>4, <3>8, <3>9
      <4>2. s \in peers'[Leader] <=> s \in peers[Leader]
        BY <2>2
      <4> HIDE DEF UpToDate, Due, Joining, Fine
      <4> QED BY <1>1, <3>3, <3>7, <4>1, <4>2 DEF Good, Will
    <3>11. \A u \in Server : u # s => taken'[u] = taken[u] /\ link'[Leader][u] = link[Leader][u]
      BY <1>0, <2>1
    <3> QED BY <1>0, <1>1, <2>2, <2>4, <3>10, <3>11, SoundLocal
  <2> QED BY <2>1, <2>3, <2>4
<1>3. CASE ChangeSession(s)
  <2> DEFINE m == taken[s].m
  <2>1. /\ s \in Joiner /\ taken[s] # None
        /\ taken'[s] = None /\ \A u \in Server : u # s => taken'[u] = taken[u]
        /\ peers'[s] = m.peers /\ \A u \in Server : u # s => peers'[u] = peers[u]
        /\ rm'[s] = Session(m.peers, m.port) /\ \A u \in Server : u # s => rm'[u] = rm[u]
    BY <1>3, ChangeSessionGoes
  <2>2. UNCHANGED <<join, link>>
    BY <1>3 DEF ChangeSession
  <2>3. Last(m) /\ mail = {} /\ join[s].pc # "retry"
    BY <1>0, <2>1 DEF Fine
  <2>4. peers'[Leader] = peers[Leader] /\ s # Leader
    BY <1>0, <2>1
  <2>5. UpToDate(s)'
    BY <1>1, <2>1, <2>3, <2>4 DEF UpToDate, Last, Session
  <2>6. Fine(s)'
    BY <1>0, <1>1, <2>1, <2>2, <2>3, <2>4, FineKept
  <2>7. Good(s)'
    BY <1>1, <2>1, <2>3, <2>5, <2>6, GoodUpToDate
  <2> QED BY <1>0, <1>1, <2>1, <2>2, <2>4, <2>7, SoundLocal
<1>4. CASE Drop(s)
  <2>1. /\ UNCHANGED <<rm, peers, join, link>> /\ taken[s] # None
        /\ taken[s].m.type # "MulticastSessionChange" /\ Done(s)
    BY <1>4 DEF Drop
  <2>2. taken'[s] = None /\ \A u \in Server : u # s => taken'[u] = taken[u]
    BY <1>0, <2>1, DoneGoes
  <2>3. CASE s = Leader
    <3>1. \A t \in Joiner : taken'[t] = taken[t]
      BY <1>0, <2>2, <2>3
    <3>2. Leads'
      BY <1>0, <1>1, <2>1, LeadsKept
    <3>3. \A t \in Joiner \ crashed : Good(t)'
      BY <1>0, <1>1, <2>1, <3>1, GoodUntouched
    <3> QED BY <1>1, <3>2, <3>3 DEF Sound
  <2>4. CASE s # Leader
    <3>1. Fine(s)'
      <4>1. join[s].pc # "retry"
        BY <1>0, <2>4 DEF Fine
      <4> QED BY <1>0, <1>1, <2>1, <2>2, <2>4, <4>1, FineKept
    <3>2. ASSUME Will(s) PROVE Will(s)'
      <4>1. Due(s) => Due(s)'
        BY <1>1, <2>1 DEF Due, Told, Called, HasChange
      <4>2. (Joining(s) => Joining(s)') /\ (Mailed(s) => Mailed(s)')
        BY <1>1, <2>1 DEF Joining, Mailed
      <4> QED BY <1>0, <1>1, <2>1, <2>4, <3>2, <4>1, <4>2, WillKept
    <3>3. Good(s)'
      BY <1>0, <2>1, <2>4, <3>1, <3>2 DEF Good
    <3> QED BY <1>0, <1>1, <2>1, <2>2, <2>4, <3>3, SoundLocal
  <2> QED BY <2>3, <2>4
<1>5. CASE GetPeerInfo(s)
  <2>1. /\ s \in Joiner /\ taken[s] # None
        /\ taken'[s] = None /\ \A u \in Server : u # s => taken'[u] = taken[u]
        /\ join'[s].pc \in Accepted /\ join'[s].info = taken[s].m
        /\ \A u \in Server : u # s => join'[u] = join[u]
    BY <1>5, GetPeerInfoGoes
  <2>2. UNCHANGED <<rm, peers, link>>
    BY <1>5 DEF GetPeerInfo
  <2>3. Last(taken[s].m) /\ mail = {} /\ \A k \in DOMAIN link[Leader][s] : Last(link[Leader][s][k])
    BY <1>0, <2>1 DEF Fine
  <2>4. join'[s].pc # "retry"
    BY <2>1 DEF Accepted
  <2>5. Fine(s)'
    BY <1>1, <2>1, <2>2, <2>3, <2>4 DEF Fine, Last
  <2>6. Good(s)'
    BY <1>1, <2>1, <2>3, <2>5, GoodJoining DEF Joining
  <2> QED BY <1>0, <1>1, <2>1, <2>2, <2>6, SoundLocal
<1> QED BY <1>2, <1>3, <1>4, <1>5 DEF ListenerStep

-----------------------------------------------------------------------------
(* What the leader does                                                    *)

\* The leader takes up a join when nothing else is under way.
LEMMA SoundConnect ==
  ASSUME Typed, NEW s, Connect(s), clean'
  PROVE  Sound'
<1>1. /\ s \in Joiner
      /\ \A u \in Server : u # Leader => taken'[u] = taken[u]
      /\ ports' = ports + 1
  BY ConnectGoes
<1>2. PICK g \in Handler : /\ handlers' = handlers \cup {g} /\ g.from = s /\ g.pc = "send"
                           /\ g.list = peers'[Leader] /\ g.port = ports'
  BY ConnectGoes
<1>3. /\ handlers = {} /\ calls = {} /\ mail = {} /\ \A u, v \in Live : link[u][v] = <<>>
      /\ \A t \in Live \ {s, Leader} : taken[t] = None /\ join[t].pc \in {"idle", "joined"}
      /\ taken[s] = None /\ join[s].pc = "wait"
  BY DEF Connect, NothingOnTheWay, Resting
<1>4. UNCHANGED <<join, link, calls, mail, crashed>>
  BY DEF Connect
<1>5. Leader \in Live /\ \A t \in Joiner \ crashed : t \in Live /\ t # Leader /\ t \in Server
  BY Joiners DEF Live, Typed, LeaderTyped
<1> HIDE DEF Typed
<1>6. Leads'
  BY <1>2, <1>3, <1>4 DEF Leads
<1>7. ASSUME NEW t \in Joiner \ crashed PROVE Good(t)'
  <2>1. taken'[t] = None /\ link'[Leader][t] = <<>>
    BY <1>1, <1>3, <1>4, <1>5
  <2>2. join'[t].pc \in {"idle", "joined", "wait"} /\ (t = s => join'[t].pc = "wait")
    BY <1>3, <1>4, <1>5
  <2>3. Fine(t)'
    BY <1>3, <1>4, <2>1, <2>2 DEF Fine, Accepted
  <2>4. Told(t)' \/ Joining(t)'
    BY <1>2, <2>2 DEF Told, Joining
  <2>5. mail' = {}
    BY <1>3, <1>4
  <2> HIDE DEF Told, Joining, Fine
  <2>6. Will(t)'
    BY <2>4, <2>5 DEF Will, Due
  <2> QED BY <2>3, <2>6 DEF Good
<1> QED BY <1>4, <1>6, <1>7 DEF Sound

\* The new server is sent its peer list.
LEMMA SoundHandlerSend ==
  ASSUME Typed, Sound, NEW h \in handlers, HandlerSend(h)
  PROVE  Sound'
<1>0. /\ Leads /\ Leader \in Server
      /\ \A t \in Joiner : t \in Server /\ t # Leader /\ link[Leader][t] \in Seq(News)
      /\ \A t \in Joiner \ crashed : t \in Joiner /\ Good(t) /\ Fine(t)
  BY Joiners DEF Sound, Good, Typed, LinkTyped
<1>1. /\ h.pc = "send" /\ h.from \in Joiner
      /\ \A u, v \in Server : u # Leader \/ v # h.from => link'[u][v] = link[u][v]
  BY HandlerSendGoes
<1>2. PICK g \in Handler : /\ handlers' = (handlers \ {h}) \cup {g} /\ g.from = h.from
                           /\ g.pc = "sent" /\ g.list = h.list /\ g.port = h.port
  BY HandlerSendGoes
<1>3. PICK m \in News : /\ m.type = "PeerInfo" /\ m.peers = h.list /\ m.port = h.port
                        /\ link'[Leader][h.from] = Append(link[Leader][h.from], m)
  BY HandlerSendGoes
<1>4. UNCHANGED <<peers, rm, join, taken, calls, mail, ports, crashed>>
  BY DEF HandlerSend, serverVars, faultVars
<1> HIDE DEF Typed, Sound, Good, Fine
<1>5. mail = {} /\ Last(m)
  BY <1>0, <1>3 DEF Leads, Last
<1>6. Leads'
  BY <1>0, <1>2, <1>4, <1>5 DEF Leads, Last
<1> HIDE DEF Leads
<1>7. ASSUME NEW t \in Joiner \ crashed PROVE Good(t)'
  <2>1. Good(t) /\ Fine(t) /\ t \in Joiner /\ t \in Server
    BY <1>0
  <2>2. /\ \A k \in DOMAIN link'[Leader][t] : Last(link'[Leader][t][k])
        /\ HasChange(link[Leader][t]) => HasChange(link'[Leader][t])
    <3> DEFINE q == link[Leader][t]
               a == link'[Leader][t]
    <3>1. q \in Seq(News) /\ (\A k \in DOMAIN q : Last(q[k])) /\ (a = q \/ a = Append(q, m))
      BY <1>0, <1>1, <1>3, <2>1 DEF Fine
    <3> HIDE DEF q, a
    <3>2. (\A k \in DOMAIN a : Last(a[k])) /\ (HasChange(q) => HasChange(a))
      BY <1>5, <3>1, LastAppend
    <3> QED BY <3>2 DEF q, a
  <2>3. Fine(t)'
    BY <1>4, <1>5, <2>1, <2>2 DEF Fine, Last
  <2>4. ASSUME Will(t) PROVE Will(t)'
    <3>1. Told(t) => Told(t)'
      BY <1>2 DEF Told
    <3>2. Due(t) => Due(t)'
      BY <1>4, <2>2, <3>1 DEF Due, Called, HasChange
    <3>3. (Joining(t) => Joining(t)') /\ (Mailed(t) => Mailed(t)')
      BY <1>4 DEF Joining, Mailed
    <3> QED BY <1>4, <2>1, <2>4, <3>2, <3>3, WillKept
  <2> QED BY <1>4, <2>1, <2>3, <2>4 DEF Good
<1> QED BY <1>4, <1>6, <1>7 DEF Sound

\* The others are about to be told, and the old session is shut down.
LEMMA SoundHandlerRetire ==
  ASSUME Typed, Sound, NEW h \in handlers, HandlerRetire(h)
  PROVE  Sound'
<1>0. /\ Leads /\ Leader \in Server
      /\ \A t \in Joiner : t \in Server /\ t # Leader
      /\ \A t \in Joiner \ crashed : t \in Joiner /\ Good(t) /\ Fine(t)
  BY Joiners DEF Sound, Good
<1>1. /\ h \in Handler /\ h.pc = "sent"
      /\ \A u \in Server : u # Leader => rm'[u] = rm[u]
      /\ \A c : c \in calls' <=>
           \/ c \in calls
           \/ /\ c \in Call /\ c.to \in h.list \ {Leader, h.from}
              /\ c.m.peers = h.list /\ c.m.port = h.port
  BY HandlerRetireGoes
<1>2. PICK g \in Handler : /\ handlers' = (handlers \ {h}) \cup {g} /\ g.from = h.from
                           /\ g.pc = "replace" /\ g.list = h.list /\ g.port = h.port
  BY HandlerRetireGoes
<1>3. UNCHANGED <<peers, join, taken, link, mail, ports, crashed>>
  BY DEF HandlerRetire
<1> HIDE DEF Typed, Sound, Good, Fine
<1>4. mail = {} /\ h.list = peers[Leader] /\ h.port = ports /\ \A f \in handlers : f = h
  BY <1>0 DEF Leads
<1>5. Leads'
  BY <1>0, <1>1, <1>2, <1>3, <1>4 DEF Leads, Last
<1> HIDE DEF Leads
<1>6. ASSUME NEW t \in Joiner \ crashed PROVE Good(t)'
  <2>1. Good(t) /\ Fine(t) /\ t \in Joiner /\ t \in Server /\ t # Leader
    BY <1>0
  <2>2. Fine(t)'
    BY <1>3, <2>1 DEF Fine, Last
  <2>3. ASSUME Will(t), t \in peers[Leader] PROVE Will(t)'
    <3>1. ASSUME Told(t) PROVE Called(t)'
      <4> DEFINE c == [to |-> t, m |-> [type |-> "MulticastSessionChange", peers |-> h.list,
                                        port |-> h.port]]
      <4>1. t # h.from
        BY <1>4, <3>1 DEF Told
      <4>2. c \in Call /\ c.to = t /\ c.m.peers = h.list /\ c.m.port = h.port
        BY <1>1, <2>1 DEF Call, Handler
      <4> HIDE DEF c
      <4>3. c \in calls'
        BY <1>1, <1>4, <2>1, <2>3, <4>1, <4>2
      <4> QED BY <4>2, <4>3 DEF Called
    <3>2. Called(t) => Called(t)'
      BY <1>1 DEF Called
    <3>3. Due(t) => Due(t)'
      BY <1>3, <3>1, <3>2 DEF Due, HasChange
    <3>4. (Joining(t) => Joining(t)') /\ (Mailed(t) => Mailed(t)')
      BY <1>3 DEF Joining, Mailed
    <3>5. rm'[t] = rm[t]
      BY <1>1, <2>1
    <3> QED BY <1>3, <2>1, <2>3, <3>3, <3>4, <3>5, WillKept
  <2> QED BY <1>3, <2>1, <2>2, <2>3 DEF Good
<1> QED BY <1>3, <1>5, <1>6 DEF Sound

\* The leader's new session is in place.
LEMMA SoundHandlerReplace ==
  ASSUME Typed, Sound, NEW h \in handlers, HandlerReplace(h)
  PROVE  Sound'
<1>0. /\ Leads /\ Leader \in Server
      /\ \A t \in Joiner : t \in Server /\ t # Leader
      /\ \A t \in Joiner \ crashed : t \in Joiner /\ Good(t) /\ Fine(t)
  BY Joiners DEF Sound, Good
<1>1. /\ h.pc = "replace" /\ handlers' = handlers \ {h} /\ rm'[Leader] = Session(h.list, h.port)
      /\ \A u \in Server : u # Leader => rm'[u] = rm[u]
  BY HandlerReplaceGoes
<1>2. UNCHANGED <<peers, join, taken, link, calls, mail, ports, crashed>>
  BY DEF HandlerReplace, faultVars
<1> HIDE DEF Typed, Sound, Good, Fine
<1>3. mail = {} /\ h.list = peers[Leader] /\ h.port = ports /\ \A f \in handlers : f = h
  BY <1>0 DEF Leads
<1>4. Leads'
  BY <1>0, <1>1, <1>2, <1>3 DEF Leads, Last, Session
<1> HIDE DEF Leads
<1>5. ASSUME NEW t \in Joiner \ crashed PROVE Good(t)'
  <2>1. Good(t) /\ Fine(t) /\ t \in Joiner /\ t \in Server /\ t # Leader
    BY <1>0
  <2>2. Fine(t)'
    BY <1>2, <2>1 DEF Fine, Last
  <2>3. ASSUME Will(t) PROVE Will(t)'
    <3>1. ~ Told(t)
      BY <1>1, <1>3 DEF Told
    <3>2. Due(t) => Due(t)'
      BY <1>2, <3>1 DEF Due, Called, HasChange
    <3>3. (Joining(t) => Joining(t)') /\ (Mailed(t) => Mailed(t)')
      BY <1>2 DEF Joining, Mailed
    <3>4. rm'[t] = rm[t]
      BY <1>1, <2>1
    <3> QED BY <1>2, <2>1, <2>3, <3>2, <3>3, <3>4, WillKept
  <2> QED BY <1>2, <2>1, <2>2, <2>3 DEF Good
<1> QED BY <1>2, <1>4, <1>5 DEF Sound

\* A session change is sent.
LEMMA SoundCallSend ==
  ASSUME Typed, Sound, NEW c \in calls, CallSend(c)
  PROVE  Sound'
<1>0. /\ Leads /\ Leader \in Server
      /\ \A t \in Joiner : t \in Server /\ t # Leader /\ link[Leader][t] \in Seq(News)
      /\ \A t \in Joiner \ crashed : t \in Joiner /\ Good(t) /\ Fine(t)
  BY Joiners DEF Sound, Good, Typed, LinkTyped
<1>1. /\ c.m \in News /\ c.m.type = "MulticastSessionChange" /\ calls' = calls \ {c}
      /\ link'[Leader][c.to] = Append(link[Leader][c.to], c.m)
      /\ \A u, v \in Server : u # Leader \/ v # c.to => link'[u][v] = link[u][v]
  BY CallSendGoes
<1>2. UNCHANGED <<peers, rm, join, taken, handlers, mail, ports, crashed>>
  BY DEF CallSend, serverVars, faultVars
<1> HIDE DEF Typed, Sound, Good, Fine
<1>3. mail = {} /\ Last(c.m)
  BY <1>0 DEF Leads
<1>4. Leads'
  BY <1>0, <1>1, <1>2, LeadsKept
<1> HIDE DEF Leads
<1>5. ASSUME NEW t \in Joiner \ crashed PROVE Good(t)'
  <2> DEFINE q == link[Leader][t]
             a == link'[Leader][t]
  <2>1. Good(t) /\ Fine(t) /\ t \in Joiner /\ t \in Server
    BY <1>0
  <2>2. /\ q \in Seq(News) /\ (\A k \in DOMAIN q : Last(q[k]))
        /\ \/ a = q /\ c.to # t
           \/ a = Append(q, c.m) /\ c.to = t
    BY <1>0, <1>1, <2>1 DEF Fine
  <2> HIDE DEF q, a
  <2>3. (\A k \in DOMAIN a : Last(a[k])) /\ (HasChange(q) => HasChange(a))
    BY <1>1, <1>3, <2>2, LastAppend
  <2>4. c.to = t => HasChange(a)
    BY <1>1, <2>2, LinkAppend
  <2> USE DEF q, a
  <2>5. Fine(t)'
    BY <1>2, <1>3, <2>1, <2>3 DEF Fine, Last
  <2>6. ASSUME Will(t) PROVE Will(t)'
    <3>1. (Told(t) => Told(t)') /\ (Called(t) => Called(t)' \/ c.to = t)
      BY <1>1, <1>2 DEF Told, Called
    <3>2. Due(t) => Due(t)'
      BY <1>2, <2>3, <2>4, <3>1 DEF Due, HasChange
    <3>3. (Joining(t) => Joining(t)') /\ (Mailed(t) => Mailed(t)')
      BY <1>2 DEF Joining, Mailed
    <3> QED BY <1>2, <2>1, <2>6, <3>2, <3>3, WillKept
  <2> QED BY <1>2, <2>1, <2>5, <2>6 DEF Good
<1> QED BY <1>2, <1>4, <1>5 DEF Sound

\* The leader drops a server when everybody is at rest: all others are in the
\* session, and are sent the death.
LEMMA SoundDeclareDead ==
  ASSUME Typed, Sound, NEW s \in Joiner, DeclareDead(s), Quiet
  PROVE  Sound'
<1>0. /\ Leads /\ Leader \in Server /\ Leader \in Live
      /\ \A t \in Joiner : t \in Server /\ t # Leader
      /\ \A t \in Joiner \ crashed : t \in Live /\ t \in Joiner /\ Good(t) /\ Fine(t)
      /\ peers[Leader] \in SUBSET Server /\ ports \in Nat
  BY Joiners DEF Sound, Good, Live, Typed, LeaderTyped, ServerTyped
<1>1. /\ Typed' /\ peers'[Leader] = peers[Leader] \ {s}
      /\ \A u \in Server : u # Leader => peers'[u] = peers[u] /\ rm'[u] = rm[u]
      /\ rm'[Leader] \in [port : Nat, members : SUBSET Server, open : BOOLEAN]
      /\ rm'[Leader].port = rm[Leader].port /\ rm'[Leader].members = rm[Leader].members \ {s}
      /\ rm'[Leader].open = rm[Leader].open
  BY DeclareDeadGoes
<1>2. \A d : d \in mail' <=>
        \/ d \in mail
        \/ /\ d \in Death /\ d.dead = s /\ d.port = rm[Leader].port /\ ~ d.read
           /\ rm[Leader].open /\ d.to \notin crashed
           /\ rm[d.to].port = rm[Leader].port /\ rm[d.to].open
  BY DeclareDeadGoes
<1>3. /\ handlers = {} /\ calls = {} /\ mail = {} /\ \A u, v \in Live : link[u][v] = <<>>
      /\ \A t \in Live : taken[t] = None /\ join[t].pc \in {"idle", "joined"}
  BY DEF Quiet, NothingOnTheWay, Resting
<1>4. UNCHANGED <<join, taken, link, handlers, calls, ports, crashed>>
  BY DEF DeclareDead
<1> HIDE DEF Typed, Sound, Good, Fine, Live, Death
<1>5. /\ rm[Leader] = Session(peers[Leader], ports)
      /\ rm[Leader].port = ports /\ rm[Leader].members = peers[Leader] /\ rm[Leader].open
  <2>1. rm[Leader] = Session(peers[Leader], ports)
    BY <1>0, <1>3 DEF Leads
  <2>2. /\ Session(peers[Leader], ports).port = ports /\ Session(peers[Leader], ports).open
        /\ Session(peers[Leader], ports).members = peers[Leader]
    BY <1>0, SessionIs
  <2> QED BY <2>1, <2>2
<1>6. rm'[Leader] = Session(peers'[Leader], ports')
  <2> DEFINE r == rm'[Leader]
             l == peers'[Leader]
  <2>1. /\ r \in [port : Nat, members : SUBSET Server, open : BOOLEAN] /\ l \in SUBSET Server
        /\ r.port = ports /\ r.members = l
    BY <1>0, <1>1, <1>5
  <2>2. r.open
    BY <1>1, <1>5, Zenon
  <2> HIDE DEF r, l
  <2>3. r = Session(l, ports)
    BY <1>0, <2>1, <2>2, SessionEquals
  <2> QED BY <1>4, <2>3 DEF r, l
<1>7. Leads'
  <2>1. \A d \in mail' : d \in Death /\ d.dead = s /\ d.port = ports /\ ~ d.read
    BY <1>2, <1>3, <1>5
  <2>2. \A d, e \in mail' : d.to = e.to => d = e
    <3>1. ASSUME NEW d \in mail', NEW e \in mail', d.to = e.to PROVE d = e
      <4>1. d.read = FALSE /\ e.read = FALSE
        BY <2>1, Zenon DEF Death
      <4> QED BY <2>1, <3>1, <4>1 DEF Death
    <3> QED BY <3>1
  <2> QED BY <1>3, <1>4, <1>6, <2>1, <2>2 DEF Leads
<1> HIDE DEF Leads
<1>8. ASSUME NEW t \in Joiner \ crashed PROVE Good(t)'
  <2>1. /\ Good(t) /\ Fine(t) /\ t \in Joiner /\ t \in Server /\ t # Leader
        /\ taken[t] = None /\ link[Leader][t] = <<>> /\ join[t].pc \in {"idle", "joined"}
    BY <1>0, <1>3
  <2>2. Fine(t)'
    BY <1>4, <2>1 DEF Fine, Accepted
  <2>3. ASSUME t \in peers'[Leader] PROVE Will(t)'
    <3>1. t \in peers[Leader] /\ Will(t)
      BY <1>1, <2>1, <2>3 DEF Good
    <3>2. ~ Due(t) /\ ~ Joining(t) /\ ~ Mailed(t)
      BY <1>3, <2>1 DEF Due, Told, Called, HasChange, Joining, Accepted, Mailed
    <3>3. UpToDate(t)
      BY <3>1, <3>2 DEF Will
    <3>4. /\ rm[t].port = ports /\ rm[t].open /\ rm[t].members = peers[Leader]
          /\ peers[t] = peers[Leader]
      BY <1>0, <3>3, SessionIs DEF UpToDate
    <3>5. Mailed(t)'
      <4> DEFINE d == [to |-> t, dead |-> s, port |-> ports, read |-> FALSE]
      <4>1. d \in Death /\ d.dead = s /\ d.port = ports /\ ~ d.read /\ d.to = t
        BY <1>0, <2>1 DEF Death
      <4> HIDE DEF d
      <4>2. d \in mail'
        BY <1>2, <1>5, <3>4, <4>1
      <4> QED BY <4>1, <4>2 DEF Mailed
    <3>6. \A d \in mail' : d.to = t => ButForDeath(t, d)'
      <4>1. \A d \in mail' : d.dead = s /\ ~ d.read
        BY <1>2, <1>3
      <4>2. rm'[t] = rm[t] /\ peers'[t] = peers[t]
        BY <1>1, <2>1
      <4> QED BY <1>1, <1>4, <3>4, <4>1, <4>2 DEF ButForDeath
    <3> QED BY <3>5, <3>6 DEF Will
  <2> QED BY <2>2, <2>3 DEF Good
<1> QED BY <1>4, <1>7, <1>8 DEF Sound

-----------------------------------------------------------------------------
(* Deaths on their way                                                     *)

\* A server reads a death in its session.
LEMMA SoundReadDeath ==
  ASSUME Typed, Sound, NEW d \in mail, ReadDeath(d)
  PROVE  Sound'
<1>0. /\ Leads /\ Leader \in Server
      /\ \A t \in Joiner : t \in Server /\ t # Leader
      /\ \A t \in Joiner \ crashed : t \in Joiner /\ Good(t) /\ Fine(t)
  BY Joiners DEF Sound, Good
<1>1. /\ d \in Death /\ d.to \in Joiner /\ ~ d.read
      /\ rm'[d.to].port = rm[d.to].port /\ rm'[d.to].open = rm[d.to].open
      /\ \A u \in Server : u # d.to => rm'[u] = rm[u]
      /\ \/ /\ rm[d.to].port # d.port \/ ~ rm[d.to].open
            /\ mail' = mail \ {d} /\ rm' = rm
         \/ /\ rm[d.to].port = d.port /\ rm[d.to].open
            /\ rm'[d.to].members = rm[d.to].members \ {d.dead}
            /\ \E e \in Death : /\ mail' = (mail \ {d}) \cup {e} /\ e.to = d.to
                                /\ e.dead = d.dead /\ e.port = d.port /\ e.read
  BY ReadDeathGoes DEF Death
<1>2. UNCHANGED <<peers, join, taken, link, handlers, calls, ports, crashed>>
  BY DEF ReadDeath, faultVars
<1> HIDE DEF Typed, Sound, Good, Fine, Death
<1>3. rm'[Leader] = rm[Leader] /\ d.port = ports /\ \A e \in mail : e.to = d.to => e = d
  BY <1>0, <1>1 DEF Leads
<1>4. CASE (rm[d.to].port # d.port \/ ~ rm[d.to].open) /\ mail' = mail \ {d} /\ rm' = rm
  <2>1. Leads'
    BY <1>0, <1>2, <1>4, LeadsKept
  <2>2. ASSUME NEW t \in Joiner \ crashed PROVE Good(t)'
    <3>1. t \in Joiner /\ t \in Server /\ Good(t) /\ Fine(t)
      BY <1>0
    <3>2. CASE t # d.to
      BY <1>2, <1>4, <3>1, <3>2, GoodUntouched
    <3>3. CASE t = d.to
      <4>1. t \notin peers[Leader]
        BY <1>3, <1>4, <3>1, <3>3 DEF Good, Will, ButForDeath
      <4>2. Fine(t)'
        BY <1>2, <1>4, <3>1 DEF Fine, Last
      <4> QED BY <1>2, <4>1, <4>2 DEF Good
    <3> QED BY <3>2, <3>3
  <2> QED BY <1>2, <2>1, <2>2 DEF Sound
<1>5. CASE /\ rm[d.to].port = d.port /\ rm[d.to].open
           /\ rm'[d.to].members = rm[d.to].members \ {d.dead}
           /\ \E e \in Death : /\ mail' = (mail \ {d}) \cup {e} /\ e.to = d.to
                               /\ e.dead = d.dead /\ e.port = d.port /\ e.read
  <2>0. PICK e \in Death : /\ mail' = (mail \ {d}) \cup {e} /\ e.to = d.to
                           /\ e.dead = d.dead /\ e.port = d.port /\ e.read
    BY <1>5
  <2>1. Leads'
    <3>1. handlers = {} /\ calls = {} /\ rm[Leader] = Session(peers[Leader], ports)
      BY <1>0 DEF Leads
    <3>2. \A f, g \in mail' : f.to = g.to => f = g
      BY <1>0, <1>3, <2>0 DEF Leads
    <3>3. \A f \in mail' : f.port = ports
      BY <1>0, <1>3, <2>0 DEF Leads
    <3> QED BY <1>2, <1>3, <3>1, <3>2, <3>3 DEF Leads, Session
  <2>2. ASSUME NEW t \in Joiner \ crashed PROVE Good(t)'
    <3>1. t \in Joiner /\ t \in Server /\ Good(t) /\ Fine(t)
      BY <1>0
    <3>2. CASE t # d.to
      <4>1. rm'[t] = rm[t] /\ mail # {}
        BY <1>1, <3>1, <3>2
      <4>2. /\ \A f \in mail' : f.to = t => f \in mail
            /\ \A f \in mail : f.to = t => f \in mail'
        BY <2>0, <3>2
      <4> QED BY <1>2, <1>3, <3>1, <4>1, <4>2, GoodUntouched
    <3>3. CASE t = d.to
      <4>1. Fine(t)'
        BY <1>2, <2>0, <3>1 DEF Fine, Last
      <4>2. ASSUME t \in peers[Leader] PROVE Will(t)'
        <5>1. ButForDeath(t, d)
          BY <3>1, <3>3, <4>2 DEF Good, Will
        <5>2. /\ rm'[t].port = ports /\ rm'[t].open /\ rm'[t].members = peers[Leader]
              /\ peers[t] \ {d.dead} = peers[Leader]
              /\ peers[Leader] \ {d.dead} = peers[Leader]
          <6>1. rm'[t].open
            BY <1>1, <1>5, <3>3
          <6> QED BY <1>1, <1>5, <3>3, <5>1, <6>1 DEF ButForDeath
        <5>3. \A f \in mail' : f.to = t => f = e
          BY <1>3, <2>0, <3>3
        <5>4. ButForDeath(t, e)'
          BY <1>2, <2>0, <5>2 DEF ButForDeath
        <5>5. Mailed(t)'
          BY <2>0, <3>3 DEF Mailed
        <5>6. \A f \in mail' : f.to = t => ButForDeath(t, f)'
          BY <5>3, <5>4
        <5> QED BY <5>5, <5>6 DEF Will
      <4> QED BY <1>2, <4>1, <4>2 DEF Good
    <3> QED BY <3>2, <3>3
  <2> QED BY <1>2, <2>1, <2>2 DEF Sound
<1> QED BY <1>1, <1>4, <1>5

\* No death is lost while the leader's session stays.
LEMMA SoundLoseDeath ==
  ASSUME Typed, Sound, NEW d \in mail, LoseDeath(d)
  PROVE  FALSE
<1>1. rm[Leader] = Session(peers[Leader], ports) /\ d.port = ports
  BY DEF Sound, Leads
<1>2. /\ Session(peers[Leader], ports).port = ports /\ Session(peers[Leader], ports).open
  BY DEF Session
<1> QED BY <1>1, <1>2 DEF LoseDeath

\* A server drops the dead from its peers, and has what the leader has.
LEMMA SoundHandleDeath ==
  ASSUME Typed, Sound, NEW d \in mail, HandleDeath(d)
  PROVE  Sound'
<1>0. /\ Leads /\ Leader \in Server
      /\ \A t \in Joiner : t \in Server /\ t # Leader
      /\ \A t \in Joiner \ crashed : t \in Joiner /\ Good(t) /\ Fine(t)
      /\ peers[Leader] \in SUBSET Server /\ ports \in Nat
      /\ \A t \in Server : rm[t] \in [port : Nat, members : SUBSET Server, open : BOOLEAN]
  BY Joiners DEF Sound, Good, Typed, LeaderTyped, ServerTyped
<1>1. /\ d.to \in Joiner /\ d.read /\ mail' = mail \ {d}
      /\ peers'[d.to] = peers[d.to] \ {d.dead}
      /\ \A u \in Server : u # d.to => peers'[u] = peers[u]
  BY HandleDeathGoes DEF Death
<1>2. UNCHANGED <<rm, join, taken, link, handlers, calls, ports, crashed>>
  BY DEF HandleDeath, faultVars
<1> HIDE DEF Typed, Sound, Good, Fine
<1>3. peers'[Leader] = peers[Leader] /\ \A e \in mail : e.to = d.to => e = d
  BY <1>0, <1>1 DEF Leads
<1>4. Leads'
  BY <1>0, <1>1, <1>2, <1>3, LeadsKept
<1>5. ASSUME NEW t \in Joiner \ crashed PROVE Good(t)'
  <2>1. t \in Joiner /\ t \in Server /\ Good(t) /\ Fine(t)
    BY <1>0
  <2>2. CASE t # d.to
    <3>1. peers'[t] = peers[t]
      BY <1>1, <2>1, <2>2
    <3> QED BY <1>1, <1>2, <1>3, <2>1, <2>2, <3>1, GoodUntouched
  <2>3. CASE t = d.to
    <3>1. Fine(t)'
      BY <1>1, <1>2, <1>3, <2>1 DEF Fine, Last
    <3>2. ASSUME t \in peers[Leader] PROVE Will(t)'
      <4>1. ButForDeath(t, d)
        BY <2>1, <2>3, <3>2 DEF Good, Will
      <4>2. rm[t] = Session(peers[Leader], ports)
        BY <1>0, <1>1, <2>1, <4>1, SessionEquals DEF ButForDeath
      <4>3. peers'[t] = peers[Leader]
        BY <1>1, <2>3, <4>1 DEF ButForDeath
      <4>4. UpToDate(t)'
        BY <1>2, <1>3, <4>2, <4>3 DEF UpToDate, Session
      <4>5. \A e \in mail' : e.to # t
        BY <1>1, <1>3, <2>3
      <4> HIDE DEF UpToDate
      <4> QED BY <4>4, <4>5 DEF Will
    <3> QED BY <1>3, <3>1, <3>2 DEF Good
  <2> QED BY <2>2, <2>3
<1> QED BY <1>2, <1>4, <1>5 DEF Sound

\* A server crashes.
LEMMA SoundCrash ==
  ASSUME Typed, Sound, NEW s \in Joiner, Crash(s)
  PROVE  Sound'
<1>0. /\ Leads /\ \A t \in Joiner : t \in Server
      /\ \A t \in Joiner \ crashed : t \in Joiner /\ Good(t)
  BY Joiners DEF Sound
<1>1. /\ UNCHANGED <<rm, peers, join, taken, link, handlers, calls, ports>>
      /\ crashed' = crashed \cup {s} /\ mail' = {d \in mail : d.to # s}
  BY DEF Crash, serverVars
<1> HIDE DEF Good
<1>2. Leads'
  BY <1>0, <1>1, LeadsKept
<1>3. ASSUME NEW t \in Joiner \ crashed' PROVE Good(t)'
  <2>1. t \in Joiner /\ t # s /\ Good(t)
    BY <1>0, <1>1
  <2> QED BY <1>1, <2>1, GoodUntouched
<1> QED BY <1>2, <1>3 DEF Sound

-----------------------------------------------------------------------------
\* A step that touches nothing of this.
LEMMA SoundUntouched ==
  ASSUME Sound, UNCHANGED <<rm, peers, join, taken, link, handlers, calls, mail, ports, crashed>>
  PROVE  Sound'
<1>1. Leads'
  BY LeadsKept DEF Sound
<1>2. ASSUME NEW t \in Joiner \ crashed PROVE Good(t)'
  <2>1. t \in Joiner /\ Good(t)
    BY DEF Sound
  <2> QED BY <2>1, GoodUntouched
<1> QED BY <1>1, <1>2 DEF Sound

\* The last join stays clean, or is not.
LEMMA CleanStep ==
  ASSUME Typed, Fresh, Clean, [Next]_vars
  PROVE  Clean'
<1> SUFFICES ASSUME clean' PROVE Sound'
  BY DEF Clean
<1>0. /\ crashed \subseteq Joiner /\ Live \subseteq Server
      /\ \A s \in Live : s \in Server \ crashed
  BY DEF Typed, LeaderTyped, Live
<1>1. clean => Sound
  BY DEF Clean
<1> HIDE DEF Typed, Fresh, Sound, Clean, Live
<1>2. CASE \E s \in Joiner \ crashed : BeginJoin(s) \/ JoinStep(s)
  <2>1. clean
    BY <1>2 DEF BeginJoin, JoinStep, SendConnect, Retry, AddPeers, BecomeFollower, JoinMulticast,
                faultVars
  <2> QED BY <1>1, <1>2, <2>1, SoundJoin
<1>3. CASE \E s \in Joiner : JoinTimesOut(s)
  BY <1>3 DEF JoinTimesOut, Fault
<1>4. CASE \E s : Connect(s)
  BY <1>4, SoundConnect
<1>5. CASE \E s \in Joiner : DeclareDead(s)
  <2>1. clean /\ Quiet
    BY <1>5 DEF DeclareDead
  <2> QED BY <1>1, <1>5, <2>1, SoundDeclareDead
<1>6. CASE \E s \in Joiner : Crash(s)
  <2>1. clean
    BY <1>6 DEF Crash
  <2> QED BY <1>1, <1>6, <2>1, SoundCrash
<1>7. CASE \E s \in Live : MainLoop(s)
  <2>1. clean /\ UNCHANGED <<rm, peers, join, taken, link, handlers, calls, mail, ports, crashed>>
    BY <1>7 DEF MainLoop, faultVars, leaderVars
  <2> QED BY <1>1, <2>1, SoundUntouched
<1>8. CASE \E s \in Live : ListenerStep(s)
  <2>1. clean
    BY <1>8 DEF ListenerStep, Take, ChangeSession, Drop, GetPeerInfo, faultVars
  <2> QED BY <1>0, <1>1, <1>8, <2>1, SoundListener
<1>9. CASE HandlerStep
  <2>1. clean
    BY <1>9 DEF HandlerStep, HandlerSend, HandlerRetire, HandlerReplace, faultVars
  <2> QED BY <1>1, <1>9, <2>1, SoundHandlerSend, SoundHandlerRetire, SoundHandlerReplace
          DEF HandlerStep
<1>10. CASE \E h \in handlers : HandlerFails(h)
  BY <1>10 DEF HandlerFails
<1>11. CASE \E c \in calls : CallSend(c)
  <2>1. clean
    BY <1>11 DEF CallSend, faultVars
  <2> QED BY <1>1, <1>11, <2>1, SoundCallSend
<1>12. CASE MailStep
  <2>1. clean
    BY <1>12 DEF MailStep, ReadDeath, LoseDeath, HandleDeath, faultVars
  <2> QED BY <1>1, <1>12, <2>1, SoundReadDeath, SoundLoseDeath, SoundHandleDeath DEF MailStep
<1>13. CASE UNCHANGED vars
  <2>1. clean /\ UNCHANGED <<rm, peers, join, taken, link, handlers, calls, mail, ports, crashed>>
    BY <1>13 DEF vars, serverVars, leaderVars, faultVars
  <2> QED BY <1>1, <2>1, SoundUntouched
<1>14. CASE Next
  BY <1>0, <1>14, <1>2, <1>3, <1>4, <1>5, <1>6, <1>7, <1>8, <1>9, <1>10, <1>11, <1>12 DEF Next
<1> QED BY <1>13, <1>14

\* When all is quiet, nobody waits for anything: who is on the leader's list has
\* the session and the peers.
LEMMA AgreementHolds == Typed /\ Clean => Agreement
<1> SUFFICES ASSUME Typed, Clean, Quiet, clean, NEW s \in peers[Leader], s \in Live
             PROVE  rm[s] = rm[Leader] /\ rm[s].open /\ peers[s] = peers[Leader]
  BY DEF Agreement
<1>0. /\ s \in Server /\ s \notin crashed /\ Leader \in Live /\ (s = Leader \/ s \in Joiner)
      /\ peers[Leader] \in SUBSET Server /\ ports \in Nat
  BY Joiners DEF Live, Typed, LeaderTyped, ServerTyped
<1>1. /\ handlers = {} /\ calls = {} /\ mail = {} /\ \A u, v \in Live : link[u][v] = <<>>
      /\ taken[s] = None /\ join[s].pc \in {"idle", "joined"}
  BY DEF Quiet, NothingOnTheWay, Resting
<1>2. Leads /\ (s # Leader => Will(s))
  BY <1>0 DEF Clean, Sound, Good
<1> HIDE DEF Typed, Clean, Quiet, Live
<1>3. rm[Leader] = Session(peers[Leader], ports)
  BY <1>1, <1>2 DEF Leads
<1>4. Session(peers[Leader], ports).open
  BY <1>0, SessionIs
<1>5. CASE s = Leader
  BY <1>3, <1>4, <1>5
<1>6. CASE s # Leader
  <2>1. ~ Due(s) /\ ~ Joining(s) /\ ~ Mailed(s)
    <3>1. link[Leader][s] = <<>>
      BY <1>0, <1>1
    <3> QED BY <1>1, <3>1 DEF Due, Told, Called, HasChange, Joining, Accepted, Mailed
  <2>2. UpToDate(s)
    BY <1>2, <1>6, <2>1 DEF Will
  <2> QED BY <1>3, <1>4, <2>2 DEF UpToDate
<1> QED BY <1>5, <1>6

\* After a join that the leader took up when nothing else was under way, all
\* servers on its list come to rest in its session and with its peers, with any
\* number of servers, joins and faults before it, and deaths after it.
THEOREM AgreementCorrect == Spec => []Agreement
<1>1. Init => Clean
  BY DEF Init, Clean
<1>2. Typed /\ Fresh /\ Clean /\ [Next]_vars => Clean'
  BY CleanStep
<1>3. PortsInv => Typed /\ Fresh
  BY DEF PortsInv
<1>4. Typed /\ Clean => Agreement
  BY AgreementHolds
<1> QED BY <1>1, <1>2, <1>3, <1>4, PortsCorrect, PTL DEF Spec
=============================================================================
