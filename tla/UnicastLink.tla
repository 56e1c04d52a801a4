----------------------------- MODULE UnicastLink -----------------------------
(***************************************************************************)
(* What server/unicast/unicast.go promises the server: on each link the    *)
(* messages are handed up in the order in which they were sent, without a  *)
(* gap, and a send that returns true was read by the peer.  A link on      *)
(* which sends overlap may hand a message up twice; one whose sender gave  *)
(* the peer up promises nothing any more.  Frame numbers, datagrams,       *)
(* acknowledgements and retransmissions do not appear.                     *)
(***************************************************************************)
EXTENDS Naturals, Sequences

CONSTANTS Node, Call, From, To

VARIABLES
  verdict,    \* of each call: "idle", "running", or what it returned
  sent,       \* sent[n][p]: the calls of n to p, in the order of their sending
  read,       \* the calls whose message the peer's listener has read
  delivered,  \* what each node handed up, in order
  broken,     \* links whose sender took the peer for dead
  shared      \* links that carried two sends at once

vars == <<verdict, sent, read, delivered, broken, shared>>

Link(c) == <<From[c], To[c]>>

HandedUp(p, c) == \E i \in DOMAIN delivered[p] : delivered[p][i] = c

Init ==
  /\ verdict = [c \in Call |-> "idle"]
  /\ sent = [n \in Node |-> [p \in Node |-> <<>>]]
  /\ read = {}
  /\ delivered = [n \in Node |-> <<>>]
  /\ broken = {}
  /\ shared = {}

Send(c) ==
  /\ verdict[c] = "idle"
  /\ verdict' = [verdict EXCEPT ![c] = "running"]
  /\ sent' = IF Link(c) \in broken THEN sent
             ELSE [sent EXCEPT ![From[c]][To[c]] = Append(@, c)]
  /\ shared' = IF \E d \in Call : Link(d) = Link(c) /\ verdict[d] = "running"
               THEN shared \cup {Link(c)}
               ELSE shared
  /\ UNCHANGED <<read, delivered, broken>>

Read(c) ==
  /\ verdict[c] # "idle"
  /\ Link(c) \notin broken
  /\ read' = read \cup {c}
  /\ UNCHANGED <<verdict, sent, delivered, broken, shared>>

\* The first message of the link that p has not handed up yet; twice, if
\* sends overlapped.
HandUp(n, p) ==
  \E k \in DOMAIN sent[n][p] :
    LET c == sent[n][p][k]
    IN  /\ c \in read
        /\ ~ HandedUp(p, c)
        /\ \A i \in 1 .. k - 1 : HandedUp(p, sent[n][p][i])
        /\ \/ delivered' = [delivered EXCEPT ![p] = Append(@, c)]
           \/ /\ <<n, p>> \in shared
              /\ delivered' = [delivered EXCEPT ![p] = Append(Append(@, c), c)]
        /\ UNCHANGED <<verdict, sent, read, broken, shared>>

\* On a broken link: whatever was ever sent on it.
HandUpBroken(n, p) ==
  /\ <<n, p>> \in broken
  /\ \E c, d \in {x \in Call : Link(x) = <<n, p>> /\ verdict[x] # "idle"} :
       \/ delivered' = [delivered EXCEPT ![p] = Append(@, c)]
       \/ delivered' = [delivered EXCEPT ![p] = Append(Append(@, c), d)]
  /\ UNCHANGED <<verdict, sent, read, broken, shared>>

ReturnTrue(c) ==
  /\ verdict[c] = "running"
  /\ c \in read \/ Link(c) \in broken
  /\ verdict' = [verdict EXCEPT ![c] = "true"]
  /\ UNCHANGED <<sent, read, delivered, broken, shared>>

ReturnFalse(c) ==
  /\ verdict[c] = "running"
  /\ verdict' = [verdict EXCEPT ![c] = "false"]
  /\ sent' = [sent EXCEPT ![From[c]][To[c]] = <<>>]
  /\ read' = {d \in read : Link(d) # Link(c)}
  /\ broken' = broken \cup {Link(c)}
  /\ UNCHANGED <<delivered, shared>>

Next ==
  \/ \E c \in Call : Send(c) \/ Read(c) \/ ReturnTrue(c) \/ ReturnFalse(c)
  \/ \E n, p \in Node : HandUp(n, p) \/ HandUpBroken(n, p)

Spec == Init /\ [][Next]_vars
=============================================================================
