------------------------- MODULE ServerStateMachine -------------------------
(***************************************************************************)
(* One server's life cycle: StateMachine.ChangeTo (state_machine.go), the  *)
(* transition functions and the main loop of Run (server.go), and the      *)
(* goroutines the state listeners start (state_listener.go).               *)
(*                                                                         *)
(* The server keeps its state twice.  sm.state is written by ChangeTo in   *)
(* whichever goroutine calls it, without a lock; s.state by the main loop, *)
(* when the transition function, started as a goroutine by ChangeTo, gets  *)
(* to put the new state on the unbuffered stateChan.  Other servers are    *)
(* the environment: broadcasts, election victories and the outcome of      *)
(* joins and of elections are arbitrary.                                   *)
(***************************************************************************)
EXTENDS Naturals, FiniteSets

CONSTANTS
  Peer,     \* the other servers
  Self,     \* this server's id
  NoLeader, \* leaderID = ""
  Slot      \* bound: the goroutines alive at once

ASSUME NameAssumption == Self \notin Peer /\ NoLeader \notin Peer \cup {Self}
ASSUME SlotAssumption == IsFiniteSet(Slot) /\ Slot # {}

VARIABLES
  smState,      \* sm.state
  sState,       \* s.state, which is also the state of s.stateListener
  leaderID,     \* s.leaderID
  broadcasting, \* the broadcaster announces this server as leader
  main,         \* the main loop of Run
  ml,           \* startMulticastMessageListener
  go            \* transition functions and listener goroutines

vars == <<smState, sState, leaderID, broadcasting, main, ml, go>>

State == {"START", "INIT", "LEADER", "FOLLOWER", "BECOME_LEADER", "BECOME_FOLLOWER", "ELECTION"}

\* sm.transitions
Transition ==
  { <<"START", "INIT">>,
    <<"INIT", "BECOME_FOLLOWER">>, <<"INIT", "LEADER">>,
    <<"BECOME_FOLLOWER", "INIT">>, <<"BECOME_FOLLOWER", "FOLLOWER">>,
    <<"LEADER", "INIT">>,
    <<"FOLLOWER", "ELECTION">>, <<"FOLLOWER", "FOLLOWER">>,
    <<"BECOME_LEADER", "LEADER">>,
    <<"ELECTION", "FOLLOWER">>, <<"ELECTION", "BECOME_LEADER">>, <<"ELECTION", "ELECTION">> }

\* A goroutine: what it runs ("transition", or the listener of a state) and
\* where it is; the transition it performs, or is about to assign; for a
\* listener whether its quit channel is closed, and the leader it follows.
Free == [role |-> "free", at |-> "free", from |-> "START", to |-> "START",
         quit |-> FALSE, leader |-> NoLeader]

Running(at, from, to) ==
  [role |-> "transition", at |-> at, from |-> from, to |-> to, quit |-> FALSE, leader |-> NoLeader]

\* The transition functions that go on after they have sent their state.
\* (BecomeFollowerToFollower goes on to join the multicast session, which
\* touches nothing of this module.)
GoesOn(t) == t[2] \in {"INIT", "BECOME_FOLLOWER", "BECOME_LEADER"}

Receiving == [at |-> "receive", from |-> "START", to |-> "START"]

Init ==
  /\ smState = "INIT"
  /\ sState = "INIT"
  /\ leaderID = NoLeader
  /\ broadcasting = FALSE
  /\ main = Receiving
  /\ ml = [at |-> "off", from |-> "START"]
  /\ \E i \in Slot :
       go = [j \in Slot |-> IF j = i THEN Running("send", "START", "INIT") ELSE Free]

-----------------------------------------------------------------------------
(* ChangeTo                                                                *)

\* The lengths of the strings of state_machine.go.
Length ==
  [s \in State |->
     CASE s = "INIT" -> 4 [] s = "START" -> 5 [] s = "LEADER" -> 6
       [] s \in {"FOLLOWER", "ELECTION"} -> 8
       [] s = "BECOME_LEADER" -> 13 [] s = "BECOME_FOLLOWER" -> 15]

\* The states other calls of ChangeTo are about to assign.
Assigning ==
  {go[i].to : i \in {j \in Slot : go[j].at = "commit"}}
    \cup {s \in {main.to} : main.at = "commit"} \cup {s \in {"FOLLOWER"} : ml.at = "commit"}

\* Variant: ChangeTo does not look at the current state.
LookupFindsAny(s) == smState \in State

\* What the lookup sm.transitions[sm.state][s] may find.  A string read while
\* another goroutine assigns it may be torn, the pointer of one value with the
\* length of the other: if the lengths differ that is no state at all.
LookupFinds(s) == <<smState, s>> \in Transition
LookupFails(s) ==
  \/ <<smState, s>> \notin Transition
  \/ \E t \in Assigning : Length[t] # Length[smState]

\* ChangeTo(s) as the last thing goroutine i does.  The lookup is one step and
\* the assignment, with the start of the transition function, another; the
\* function takes the caller's slot.
ChangeTo(i, s) ==
  \/ LookupFinds(s) /\ go' = [go EXCEPT ![i] = Running("commit", smState, s)]
  \/ LookupFails(s) /\ go' = [go EXCEPT ![i] = Free]

Commit(i) ==
  /\ go[i].at = "commit"
  /\ smState' = go[i].to
  /\ go' = [go EXCEPT ![i].at = "send"]
  /\ UNCHANGED <<sState, leaderID, broadcasting, main, ml>>

\* The same for a caller that goes on: the function takes a free slot.
Go(from, to) ==
  \E i \in Slot : go[i] = Free /\ go' = [go EXCEPT ![i] = Running("send", from, to)]

-----------------------------------------------------------------------------
(* The transition functions                                                *)

\* s.stateChan <- newState: a rendezvous with the main loop.  StartToInit
\* goes on to start the message listeners.
SendState(i) ==
  /\ go[i].at = "send"
  /\ main.at = "receive"
  /\ main' = [main EXCEPT !.at = "stop", !.to = go[i].to]
  /\ go' = [go EXCEPT ![i] = IF GoesOn(<<@.from, @.to>>) THEN [@ EXCEPT !.at = "body"] ELSE Free]
  /\ ml' = [ml EXCEPT !.at = IF go[i].from = "START" THEN "idle" ELSE @]
  /\ UNCHANGED <<smState, sState, leaderID, broadcasting>>

In(i, from, to) == go[i].at = "body" /\ go[i].from \in from /\ go[i].to = to

\* StartToInit, BecomeFollowerToInit: somebody is broadcasting, or not.
Discover(i) ==
  /\ In(i, {"START", "BECOME_FOLLOWER"}, "INIT")
  /\ ChangeTo(i, "LEADER") \/ ChangeTo(i, "BECOME_FOLLOWER")
  /\ UNCHANGED <<smState, sState, leaderID, broadcasting, main, ml>>

LeaderToInit(i) ==
  /\ In(i, {"LEADER"}, "INIT")
  /\ ChangeTo(i, "BECOME_FOLLOWER")
  /\ UNCHANGED <<smState, sState, leaderID, broadcasting, main, ml>>

\* Variant: the failed join just returns.
JoinFailsSilently(i) ==
  /\ In(i, {"INIT"}, "BECOME_FOLLOWER")
  /\ go' = [go EXCEPT ![i] = Free]
  /\ UNCHANGED <<smState, sState, leaderID, broadcasting, main, ml>>

\* InitToBecomeFollower: the leader does not answer.
JoinFails(i) ==
  /\ In(i, {"INIT"}, "BECOME_FOLLOWER")
  /\ ChangeTo(i, "INIT")
  /\ UNCHANGED <<smState, sState, leaderID, broadcasting, main, ml>>

\* InitToBecomeFollower: the leader has sent its peers.
JoinSucceeds(i) ==
  /\ In(i, {"INIT"}, "BECOME_FOLLOWER")
  /\ leaderID' \in Peer
  /\ go' = [go EXCEPT ![i].at = "joined"]
  /\ UNCHANGED <<smState, sState, broadcasting, main, ml>>

Joined(i) ==
  /\ go[i].at = "joined"
  /\ ChangeTo(i, "FOLLOWER")
  /\ UNCHANGED <<smState, sState, leaderID, broadcasting, main, ml>>

\* ElectionToBecomeLeader: the victory is multicast.
Victorious(i) ==
  /\ In(i, {"ELECTION"}, "BECOME_LEADER")
  /\ ChangeTo(i, "LEADER")
  /\ UNCHANGED <<smState, sState, leaderID, broadcasting, main, ml>>

-----------------------------------------------------------------------------
(* The main loop                                                           *)

\* Variants: the listener is not told to quit; the broadcaster is not stopped.
MainStopLeavesListener ==
  /\ main.at = "stop"
  /\ main' = [main EXCEPT !.at = "set"]
  /\ broadcasting' = (broadcasting /\ sState # "LEADER")
  /\ UNCHANGED <<smState, sState, leaderID, ml, go>>

MainStopLeavesBroadcast ==
  /\ main.at = "stop"
  /\ main' = [main EXCEPT !.at = "set"]
  /\ go' = [i \in Slot |-> IF go[i].role = sState THEN [go[i] EXCEPT !.quit = TRUE] ELSE go[i]]
  /\ UNCHANGED <<smState, sState, leaderID, broadcasting, ml>>

\* s.stateListener.Stop(): the quit channel is closed, and a leader stops to
\* broadcast.
MainStop ==
  /\ main.at = "stop"
  /\ main' = [main EXCEPT !.at = "set"]
  /\ go' = [i \in Slot |-> IF go[i].role = sState THEN [go[i] EXCEPT !.quit = TRUE] ELSE go[i]]
  /\ broadcasting' = (broadcasting /\ sState # "LEADER")
  /\ UNCHANGED <<smState, sState, leaderID, ml>>

\* Under s.mu: the new state and its listener.
MainSet ==
  /\ main.at = "set"
  /\ sState' = main.to
  /\ main' = [Receiving EXCEPT !.at = "start"]
  /\ UNCHANGED <<smState, leaderID, broadcasting, ml, go>>

\* A listener's goroutine, which waits for its quit channel among others.
Listen(role, l) ==
  \E i \in Slot :
    /\ go[i] = Free
    /\ go' = [go EXCEPT ![i] = [role |-> role, at |-> "select", from |-> "START", to |-> "START",
                                quit |-> FALSE, leader |-> l]]

\* s.stateListener.Start(); an election runs in the main loop itself.
MainStart ==
  /\ main.at = "start"
  /\ \/ /\ sState = "INIT"
        /\ leaderID' = NoLeader
        /\ UNCHANGED <<broadcasting, go>>
     \/ /\ sState = "LEADER"
        /\ leaderID' = Self
        /\ broadcasting' = TRUE
        /\ Listen("LEADER", Self)
     \/ /\ sState = "FOLLOWER"
        /\ Listen("FOLLOWER", leaderID)
        /\ UNCHANGED <<leaderID, broadcasting>>
     \/ /\ sState \in {"BECOME_LEADER", "BECOME_FOLLOWER", "ELECTION"}
        /\ UNCHANGED <<leaderID, broadcasting, go>>
  /\ main' = [Receiving EXCEPT !.at = IF sState = "ELECTION" THEN "elect" ELSE "receive"]
  /\ UNCHANGED <<smState, sState, ml>>

\* ELectionStateStart: a higher server has acknowledged by now, or none has.
MainElect ==
  /\ main.at = "elect"
  /\ \E s \in {"ELECTION", "BECOME_LEADER"} :
       \/ LookupFinds(s) /\ main' = [at |-> "commit", from |-> smState, to |-> s]
       \/ LookupFails(s) /\ main' = Receiving
  /\ UNCHANGED <<smState, sState, leaderID, broadcasting, ml, go>>

MainCommit ==
  /\ main.at = "commit"
  /\ smState' = main.to
  /\ Go(main.from, main.to)
  /\ main' = Receiving
  /\ UNCHANGED <<sState, leaderID, broadcasting, ml>>

-----------------------------------------------------------------------------
(* The listener goroutines                                                 *)

ListenerQuits(i) ==
  /\ go[i].at = "select" /\ go[i].quit
  /\ go' = [go EXCEPT ![i] = Free]
  /\ UNCHANGED <<smState, sState, leaderID, broadcasting, main, ml>>

\* LeaderStateStart: a server with a higher id broadcasts too.
HigherLeader(i) ==
  /\ go[i].role = "LEADER" /\ go[i].at = "select"
  /\ ChangeTo(i, "INIT")
  /\ UNCHANGED <<smState, sState, leaderID, broadcasting, main, ml>>

\* FollowerStateStart: no broadcast of the leader for too long, and the leader
\* is still the one the goroutine started with, or not.
LeaderSilent(i) ==
  /\ go[i].role = "FOLLOWER" /\ go[i].at = "select"
  /\ go' = [go EXCEPT ![i] = IF go[i].leader = leaderID THEN [@ EXCEPT !.at = "silent"] ELSE Free]
  /\ UNCHANGED <<smState, sState, leaderID, broadcasting, main, ml>>

GoToElection(i) ==
  /\ go[i].at = "silent"
  /\ ChangeTo(i, "ELECTION")
  /\ UNCHANGED <<smState, sState, leaderID, broadcasting, main, ml>>

-----------------------------------------------------------------------------
(* The ElectionVictory case of startMulticastMessageListener               *)

\* The bound: a victory arrives only when a slot is left for the transition it
\* causes and one for the main loop, which then never wait for a slot.
Room == \E i, j \in Slot : i # j /\ go[i] = Free /\ go[j] = Free

\* Under s.mu: the new leader, whatever the state.
VictoryOf(p) ==
  /\ ml.at = "idle" /\ Room
  /\ leaderID' = p
  /\ ml' = [ml EXCEPT !.at = IF sState \in {"FOLLOWER", "ELECTION"} THEN "victory" ELSE "idle"]
  /\ UNCHANGED <<smState, sState, broadcasting, main, go>>

FollowWinner ==
  /\ ml.at = "victory"
  /\ \/ LookupFinds("FOLLOWER") /\ ml' = [at |-> "commit", from |-> smState]
     \/ LookupFails("FOLLOWER") /\ ml' = [ml EXCEPT !.at = "idle"]
  /\ UNCHANGED <<smState, sState, leaderID, broadcasting, main, go>>

VictoryCommit ==
  /\ ml.at = "commit"
  /\ smState' = "FOLLOWER"
  /\ Go(ml.from, "FOLLOWER")
  /\ ml' = [at |-> "idle", from |-> "START"]
  /\ UNCHANGED <<sState, leaderID, broadcasting, main>>

-----------------------------------------------------------------------------
TransitionStep(i) ==
  \/ SendState(i) \/ Discover(i) \/ LeaderToInit(i) \/ JoinFails(i) \/ JoinSucceeds(i)
  \/ Joined(i) \/ Victorious(i) \/ Commit(i)

ListenerStep(i) ==
  ListenerQuits(i) \/ HigherLeader(i) \/ LeaderSilent(i) \/ GoToElection(i)

MainStep == MainStop \/ MainSet \/ MainStart \/ MainElect \/ MainCommit

Next ==
  \/ MainStep \/ FollowWinner \/ VictoryCommit
  \/ \E i \in Slot : TransitionStep(i) \/ ListenerStep(i)
  \/ \E p \in Peer : VictoryOf(p)

Spec == Init /\ [][Next]_vars

-----------------------------------------------------------------------------
Goroutine ==
  [role : {"free", "transition", "LEADER", "FOLLOWER"},
   at : {"free", "send", "body", "joined", "commit", "select", "silent"},
   from : State, to : State, quit : BOOLEAN, leader : Peer \cup {Self, NoLeader}]

\* The variables have their types, and a transition function runs only for an
\* entry of sm.transitions.
TypeOK ==
  /\ smState \in State
  /\ sState \in State
  /\ leaderID \in Peer \cup {Self, NoLeader}
  /\ broadcasting \in BOOLEAN
  /\ main \in [at : {"receive", "stop", "set", "start", "elect", "commit"},
               from : State, to : State]
  /\ ml \in [at : {"off", "idle", "victory", "commit"}, from : State]
  /\ go \in [Slot -> Goroutine]
  /\ \A i \in Slot : go[i].role = "transition" => <<go[i].from, go[i].to>> \in Transition

\* The listener goroutines that have not been told to quit.
InCharge == {i \in Slot : go[i].at = "select" /\ ~ go[i].quit}

\* At most one listener goroutine has not been told to quit: the monitors of
\* two states (state_listener.go:116-149, 165-195) never both decide over the
\* next state, however the transition goroutines overtake each other.
OneListener == \A i, j \in InCharge : i = j

\* Only while s.state is LEADER does the server announce itself as the leader
\* (state_listener.go:64, 154): a deposed leader is silent before it is
\* anything else.
BroadcastOnlyAsLeader == broadcasting => sState = "LEADER"

\* Nothing of the server itself is under way: what happens next is a message
\* or a timeout of the monitor in charge.
AtRest ==
  /\ main.at = "receive"
  /\ ml.at = "idle"
  /\ \A i \in Slot \ InCharge : go[i] = Free

\* The state machine comes to rest nowhere but in LEADER or FOLLOWER: whatever
\* ChangeTo refuses (state_machine.go:86-87), somebody else moves it on from
\* INIT, BECOME_FOLLOWER, BECOME_LEADER and ELECTION.
Settled == AtRest => smState \in {"LEADER", "FOLLOWER"}
=============================================================================
