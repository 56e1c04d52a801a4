------------------------------ MODULE Election ------------------------------
(***************************************************************************)
(* How several servers come to one leader: they look for a broadcast when  *)
(* they start (server.go), follow what they find, hold an election when    *)
(* the leader falls silent, announce a victory and give way to a higher    *)
(* leader (state_listener.go, multicast.go).                               *)
(*                                                                         *)
(* A transition of one server is a step here; what its goroutines may do   *)
(* to each other in between is the subject of ServerStateMachine, and a    *)
(* join that of Membership.  A server that crashed starts again with a new *)
(* id, hence as one of the servers that are off.                           *)
(***************************************************************************)
EXTENDS Naturals, FiniteSets

CONSTANTS
  Server,     \* ids, compared as strings by the code
  None,
  MaxGlitches, \* bound: wrong judgements about a leader
  MaxCrashes   \* bound: crashes

ASSUME ServerAssumption == Server \subseteq Nat /\ None \notin Server
ASSUME BoundAssumption == MaxGlitches \in Nat

VARIABLES
  role,      \* the state of each server
  leader,    \* s.leaderID of a follower, or the server that s wants to join
  victories, \* multicast victories that somebody may still hand up
  glitches,
  crashes    \* the servers that crashed

vars == <<role, leader, victories, glitches, crashes>>

Init ==
  /\ role = [s \in Server |-> "OFF"]
  /\ leader = [s \in Server |-> None]
  /\ victories = {} /\ glitches = 0 /\ crashes = {}

Live == {s \in Server : role[s] # "OFF"}
Leaders == {s \in Server : role[s] = "LEADER"}

Become(s, r, l) == /\ role' = [role EXCEPT ![s] = r]
                   /\ leader' = [leader EXCEPT ![s] = l]

\* What is so, or what a server wrongly takes to be so.
Seems(fact) == \/ fact /\ UNCHANGED glitches
               \/ ~ fact /\ glitches < MaxGlitches /\ glitches' = glitches + 1

Start(s) ==
  /\ role[s] = "OFF" /\ s \notin crashes
  /\ Become(s, "INIT", None)
  /\ UNCHANGED <<victories, glitches, crashes>>

Crash(s) ==
  /\ role[s] # "OFF" /\ Cardinality(crashes) < MaxCrashes
  /\ Become(s, "OFF", None)
  /\ crashes' = crashes \cup {s}
  /\ UNCHANGED <<victories, glitches>>

-----------------------------------------------------------------------------
(* Starting, and joining a leader                                          *)

\* IsAnyOneBroadcasting returns a message; it may have waited in the socket.
Hear(s) ==
  /\ role[s] = "INIT"
  /\ \E t \in Server \ {s} : /\ Seems(t \in Leaders)
                             /\ Become(s, "BECOME_FOLLOWER", t)
  /\ UNCHANGED <<victories, crashes>>

\* Its timer runs out: "no one is broadcasting, assuming leader role".
HearNobody(s) ==
  /\ role[s] = "INIT"
  /\ Seems(Leaders = {})
  /\ Become(s, "LEADER", None)
  /\ UNCHANGED <<victories, crashes>>

\* Variant: a join that failed is not tried again.
JoinFailsForGood(s) ==
  /\ role[s] = "BECOME_FOLLOWER"
  /\ Seems(leader[s] \notin Leaders)
  /\ UNCHANGED <<role, leader, victories, crashes>>

\* The leader answers with its peers, or does not.
JoinFails(s) ==
  /\ role[s] = "BECOME_FOLLOWER"
  /\ Seems(leader[s] \notin Leaders)
  /\ Become(s, "INIT", None)
  /\ UNCHANGED <<victories, crashes>>

Join(s) ==
  /\ role[s] = "BECOME_FOLLOWER" /\ leader[s] \in Leaders
  /\ Become(s, "JOINED", leader[s])
  /\ UNCHANGED <<victories, glitches, crashes>>

\* The main loop starts the follower's monitor.
Follow(s) ==
  /\ role[s] = "JOINED"
  /\ Become(s, "FOLLOWER", leader[s])
  /\ UNCHANGED <<victories, glitches, crashes>>

-----------------------------------------------------------------------------
(* Elections                                                               *)

\* The follower's monitor has not heard the leader for 500 ms.
LeaderSilent(s) ==
  /\ role[s] = "FOLLOWER"
  /\ Seems(leader[s] \notin Leaders)
  /\ Become(s, "ELECTION", leader[s])
  /\ UNCHANGED <<victories, crashes>>

\* ELectionStateStart: time.Sleep(1) waits a nanosecond for the answers of the
\* higher servers.  If one did answer, the election is only repeated: no step.
ElectionWon(s) ==
  /\ role[s] = "ELECTION"
  /\ Become(s, "BECOME_LEADER", None)
  /\ UNCHANGED <<victories, glitches, crashes>>

\* Variant: a server hears its own victory.
ReachesAll(s) == Live

Reaches(s) == Live \ {s}

\* ElectionToBecomeLeader: the victory goes to whoever shares the session.
Victory(s) ==
  /\ role[s] = "BECOME_LEADER"
  /\ \E S \in SUBSET Reaches(s) :
       victories' = victories \cup {[from |-> s, to |-> t] : t \in S}
  /\ Become(s, "LEADER", None)
  /\ UNCHANGED <<glitches, crashes>>

\* startMulticastMessageListener: in another state only leaderID is assigned,
\* which counts in the moment before a joined server starts its monitor.
HandUp(v) ==
  /\ victories' = victories \ {v}
  /\ CASE role[v.to] \in {"FOLLOWER", "ELECTION"} -> Become(v.to, "FOLLOWER", v.from)
       [] role[v.to] = "JOINED" -> Become(v.to, "JOINED", v.from)
       [] OTHER -> UNCHANGED <<role, leader>>
  /\ UNCHANGED <<glitches, crashes>>

\* Variant: the broadcasts of others are not read.
GivesWayToNone(s, t) == FALSE

\* A broadcast with a lower id is passed over.
GivesWay(s, t) == t > s

\* LeaderStateStart: another leader is heard, LeaderToInit joins it.
Yield(s) ==
  /\ role[s] = "LEADER"
  /\ \E t \in Server \ {s} : /\ GivesWay(s, t) /\ Seems(t \in Leaders)
                             /\ Become(s, "BECOME_FOLLOWER", t)
  /\ UNCHANGED <<victories, crashes>>

-----------------------------------------------------------------------------
Step(s) ==
  \/ Hear(s) \/ HearNobody(s) \/ JoinFails(s) \/ Join(s) \/ Follow(s)
  \/ LeaderSilent(s) \/ ElectionWon(s) \/ Victory(s) \/ Yield(s)

HandUpSome == \E v \in victories : HandUp(v)

Next == HandUpSome \/ \E s \in Server : Start(s) \/ Crash(s) \/ Step(s)

\* A server goes on with what is so; what only seems so need not happen.
Spec == /\ Init /\ [][Next]_vars
        /\ WF_vars(HandUpSome)
        /\ \A s \in Server : WF_vars(Step(s) /\ glitches' = glitches)

-----------------------------------------------------------------------------
TypeOK ==
  /\ role \in [Server -> {"OFF", "INIT", "BECOME_FOLLOWER", "JOINED", "FOLLOWER",
                          "ELECTION", "BECOME_LEADER", "LEADER"}]
  /\ leader \in [Server -> Server \cup {None}]
  /\ \A s \in Server : role[s] \in {"BECOME_FOLLOWER", "JOINED", "FOLLOWER"} =>
                         leader[s] \in Server \ {s}
  /\ victories \subseteq {v \in [from : Server, to : Server] : v.from # v.to}
  /\ glitches \in 0..MaxGlitches /\ crashes \subseteq Server

(* Some server leads for good, unless all are down: the highest of those    *)
(* that keep becoming leader gives way to nobody, whatever victories of     *)
(* others are still on their way (state_listener.go:126).                   *)
LeaderStays == \/ \E s \in Server : <>[](role[s] = "LEADER")
               \/ []<>(Live = {})

Led == \E l \in Leaders : \A s \in Live \ {l} : role[s] = "FOLLOWER" /\ leader[s] = l

(* If nobody misjudges a leader, everybody comes to follow one, although    *)
(* a crash may start several elections and victories cross.                 *)
Converges == [](glitches = 0) => <>[](Live = {} \/ Led)

(* From some time on, a server that has found "no other potential leader,   *)
(* becomeing leader" is right: no higher server leads (state_listener.go:   *)
(* 250).  The code breaks it: a victory is followed whoever leads, and two  *)
(* followers of one leader may take turns for ever.                         *)
NoOtherPotentialLeader ==
  <>[][\A s \in Server : role[s] = "ELECTION" /\ role'[s] = "BECOME_LEADER" =>
         \A l \in Leaders : l < s]_vars
=============================================================================
