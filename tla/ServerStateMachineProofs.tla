----------------------- MODULE ServerStateMachineProofs -----------------------
(***************************************************************************)
(* Theorems about ServerStateMachine for any other servers and any number  *)
(* of goroutines at once.                                                  *)
(***************************************************************************)
EXTENDS ServerStateMachine, TLAPS

\* What the point a goroutine is at says of it.
Fits(g) ==
  /\ g.at \in {"send", "body", "joined", "commit"} <=> g.role = "transition"
  /\ g.role = "transition" => <<g.from, g.to>> \in Transition
  /\ g.at = "body" => GoesOn(<<g.from, g.to>>)
  /\ g.at = "joined" => g.to = "BECOME_FOLLOWER"
  /\ g.at = "commit" => g.from # "START"

GoTyped == go \in [Slot -> Goroutine] /\ \A i \in Slot : Fits(go[i])

\* Whoever is about to assign sm.state has found an entry, and not from START,
\* which is over before anything runs.
PlainTyped ==
  /\ smState \in State \ {"START"} /\ sState \in State
  /\ leaderID \in Peer \cup {Self, NoLeader}
  /\ broadcasting \in BOOLEAN
  /\ main \in [at : {"receive", "stop", "set", "start", "elect", "commit"},
               from : State, to : State]
  /\ main.at = "commit" => <<main.from, main.to>> \in Transition /\ main.from # "START"
  /\ ml \in [at : {"off", "idle", "victory", "commit"}, from : State]
  /\ ml.at = "commit" => <<ml.from, "FOLLOWER">> \in Transition /\ ml.from # "START"

Typed == PlainTyped /\ GoTyped

\* From the moment the old listener is told to quit until the new one starts,
\* none is in charge; at any other time only that of s.state may be.
Charge ==
  /\ OneListener
  /\ \A i \in InCharge : go[i].role = sState /\ main.at \notin {"set", "start"}

\* The broadcaster is stopped before s.state changes.
Announce == broadcasting => sState = "LEADER" /\ main.at # "set"

\* The transition function that starts the server, until it has sent its state
\* and goes on to start the listener of multicasts.
Starters == {i \in Slot : go[i].at = "send" /\ go[i].from = "START"}

Started ==
  /\ \A i, j \in Starters : i = j
  /\ Starters # {} => ml.at = "off"

\* Goroutine i is the transition function of state s, and has not yet done
\* what it calls ChangeTo for.
Carries(i, s) == go[i].at \in {"send", "body", "joined"} /\ go[i].to = s

\* The main loop has received ELECTION and has not yet held the election.
ElectionInMain ==
  \/ main.at \in {"stop", "set"} /\ main.to = "ELECTION"
  \/ main.at = "start" /\ sState = "ELECTION"
  \/ main.at = "elect"

\* Somebody will still call ChangeTo in sm.state, and find an entry.
Onward ==
  \/ Assigning # {}
  \/ \E i \in Slot : Carries(i, smState)
  \/ smState = "ELECTION" /\ ElectionInMain

Moving == smState \in {"LEADER", "FOLLOWER"} \/ Onward

-----------------------------------------------------------------------------
\* Only states are in sm.transitions, and START is never entered.
LEMMA TransitionStates ==
  \A x \in Transition : x[1] \in State /\ x[2] \in State \ {"START"}
BY DEF Transition, State

\* What a transition function has at each point.
LEMMA RunningFits ==
  ASSUME NEW from, NEW to, <<from, to>> \in Transition, NEW at \in {"commit", "send"},
         at = "commit" => from # "START"
  PROVE  Running(at, from, to) \in Goroutine /\ Fits(Running(at, from, to))
<1>1. from \in State /\ to \in State
  BY TransitionStates
<1>2. Running(at, from, to) \in Goroutine
  BY <1>1 DEF Goroutine, Running
<1>3. Fits(Running(at, from, to))
  BY DEF Fits, Running
<1> QED BY <1>2, <1>3

\* A slot without a goroutine.
LEMMA FreeFits == Free \in Goroutine /\ Fits(Free)
BY DEF Free, Goroutine, State, Fits

\* One goroutine goes on, starts or ends; none becomes the listener of a state,
\* and none that which starts the server.
OneOf(i, g) ==
  /\ g \in Goroutine /\ Fits(g)
  /\ go' = [go EXCEPT ![i] = g]
  /\ g.at # "select" /\ (g.at = "send" => g.from # "START")

\* The others stay as they are.
LEMMA OneGoes ==
  ASSUME GoTyped, NEW i \in Slot, NEW g \in Goroutine, Fits(g), go' = [go EXCEPT ![i] = g]
  PROVE  /\ \A j \in Slot : go'[j] = IF j = i THEN g ELSE go[j]
         /\ GoTyped'
<1>1. go \in [Slot -> Goroutine] /\ \A j \in Slot : Fits(go[j])
  BY DEF GoTyped
<1>2. /\ go' \in [Slot -> Goroutine]
      /\ \A j \in Slot : go'[j] = IF j = i THEN g ELSE go[j]
  BY <1>1
<1>3. \A j \in Slot : Fits(go'[j])
  BY <1>1, <1>2
<1> QED BY <1>2, <1>3 DEF GoTyped, Fits

\* ChangeTo as the last thing a goroutine does: it goes on to the assignment,
\* or ends.
LEMMA ChangeToGoes ==
  ASSUME Typed, NEW i \in Slot, NEW s \in State, ChangeTo(i, s)
  PROVE  \/ LookupFinds(s) /\ \E g : OneOf(i, g) /\ g.at = "commit"
         \/ LookupFails(s) /\ \E g : OneOf(i, g)
<1>1. smState # "START"
  BY DEF Typed, PlainTyped
<1>2. CASE LookupFinds(s) /\ go' = [go EXCEPT ![i] = Running("commit", smState, s)]
  <2>1. Running("commit", smState, s) \in Goroutine /\ Fits(Running("commit", smState, s))
    BY <1>1, <1>2, RunningFits DEF LookupFinds
  <2>2. Running("commit", smState, s).at = "commit"
    BY DEF Running
  <2> QED BY <1>2, <2>1, <2>2 DEF OneOf
<1>3. CASE LookupFails(s) /\ go' = [go EXCEPT ![i] = Free]
  <2>1. Free.at = "free"
    BY DEF Free
  <2> QED BY <1>3, <2>1, FreeFits DEF OneOf
<1> QED BY <1>2, <1>3 DEF ChangeTo

\* A transition function starts in a free slot.
LEMMA GoOne ==
  ASSUME NEW from, NEW to, <<from, to>> \in Transition, from # "START", Go(from, to)
  PROVE  \E i \in Slot : \E g : OneOf(i, g) /\ g.at = "send" /\ g.to = to
<1>1. PICK i \in Slot : go' = [go EXCEPT ![i] = Running("send", from, to)]
  BY DEF Go
<1>2. /\ Running("send", from, to).at = "send" /\ Running("send", from, to).from = from
      /\ Running("send", from, to).to = to
  BY DEF Running
<1> QED BY <1>1, <1>2, RunningFits DEF OneOf

\* A step of a transition function touches no other goroutine.
LEMMA TransitionOne ==
  ASSUME Typed, NEW i \in Slot, TransitionStep(i)
  PROVE  \E g : OneOf(i, g)
<1>0. /\ go \in [Slot -> Goroutine] /\ go[i] \in Goroutine /\ Fits(go[i])
  BY DEF Typed, GoTyped
<1>c. ASSUME NEW s \in {"INIT", "LEADER", "FOLLOWER", "BECOME_FOLLOWER"}, ChangeTo(i, s)
      PROVE  \E g : OneOf(i, g)
  <2>1. s \in State
    BY DEF State
  <2> QED BY <1>c, <2>1, ChangeToGoes
<1>1. CASE SendState(i)
  <2> DEFINE g == IF GoesOn(<<go[i].from, go[i].to>>) THEN [go[i] EXCEPT !.at = "body"] ELSE Free
  <2>1. go' = [go EXCEPT ![i] = g] /\ go[i].at = "send"
    BY <1>0, <1>1 DEF SendState
  <2>2. g \in Goroutine /\ Fits(g) /\ g.at \in {"body", "free"}
    BY <1>0, <2>1, FreeFits DEF Goroutine, Fits, Free
  <2> HIDE DEF g
  <2> QED BY <2>1, <2>2 DEF OneOf
<1>2. CASE Discover(i)
  BY <1>2, <1>c DEF Discover
<1>3. CASE LeaderToInit(i)
  BY <1>3, <1>c DEF LeaderToInit
<1>4. CASE JoinFails(i)
  BY <1>4, <1>c DEF JoinFails
<1>5. CASE JoinSucceeds(i)
  <2>1. /\ [go[i] EXCEPT !.at = "joined"] \in Goroutine /\ Fits([go[i] EXCEPT !.at = "joined"])
        /\ [go[i] EXCEPT !.at = "joined"].at = "joined"
    BY <1>0, <1>5 DEF JoinSucceeds, In, Goroutine, Fits
  <2> QED BY <1>5, <2>1 DEF JoinSucceeds, OneOf
<1>6. CASE Joined(i)
  BY <1>6, <1>c DEF Joined
<1>7. CASE Victorious(i)
  BY <1>7, <1>c DEF Victorious
<1>8. CASE Commit(i)
  <2>1. /\ [go[i] EXCEPT !.at = "send"] \in Goroutine /\ Fits([go[i] EXCEPT !.at = "send"])
        /\ [go[i] EXCEPT !.at = "send"].at = "send" /\ [go[i] EXCEPT !.at = "send"].from # "START"
    BY <1>0, <1>8 DEF Commit, Goroutine, Fits
  <2> QED BY <1>8, <2>1 DEF Commit, OneOf
<1> QED BY <1>1, <1>2, <1>3, <1>4, <1>5, <1>6, <1>7, <1>8 DEF TransitionStep

\* Neither does a step of a listener goroutine, which ends or goes on to ChangeTo.
LEMMA ListenerOne ==
  ASSUME Typed, NEW i \in Slot, ListenerStep(i)
  PROVE  /\ UNCHANGED <<smState, sState, leaderID, broadcasting, main, ml>>
         /\ \E g : OneOf(i, g)
         /\ go[i].at \in {"select", "silent"}
<1>0. /\ go \in [Slot -> Goroutine] /\ go[i] \in Goroutine /\ Fits(go[i])
  BY DEF Typed, GoTyped
<1>1. /\ UNCHANGED <<smState, sState, leaderID, broadcasting, main, ml>>
      /\ go[i].at \in {"select", "silent"}
  BY DEF ListenerStep, ListenerQuits, HigherLeader, LeaderSilent, GoToElection
<1> SUFFICES \E g : OneOf(i, g)
  BY <1>1
<1>2. CASE ListenerQuits(i)
  <2>1. Free.at = "free"
    BY DEF Free
  <2> QED BY <1>2, <2>1, FreeFits DEF ListenerQuits, OneOf
<1>3. CASE HigherLeader(i)
  <2>1. "INIT" \in State
    BY DEF State
  <2> QED BY <1>3, <2>1, ChangeToGoes DEF HigherLeader
<1>4. CASE LeaderSilent(i)
  <2> DEFINE g == IF go[i].leader = leaderID THEN [go[i] EXCEPT !.at = "silent"] ELSE Free
  <2>1. go' = [go EXCEPT ![i] = g]
    BY <1>0, <1>4 DEF LeaderSilent
  <2>2. g \in Goroutine /\ Fits(g) /\ g.at \in {"silent", "free"}
    BY <1>0, <1>4, FreeFits DEF LeaderSilent, Goroutine, Fits, Free
  <2> HIDE DEF g
  <2> QED BY <2>1, <2>2 DEF OneOf
<1>5. CASE GoToElection(i)
  <2>1. "ELECTION" \in State
    BY DEF State
  <2> QED BY <1>5, <2>1, ChangeToGoes DEF GoToElection
<1> QED BY <1>2, <1>3, <1>4, <1>5 DEF ListenerStep

\* A listener's goroutine starts in a free slot.
LEMMA ListenGoes ==
  ASSUME GoTyped, NEW role \in {"LEADER", "FOLLOWER"}, NEW l \in Peer \cup {Self, NoLeader},
         Listen(role, l)
  PROVE  \E i \in Slot, g \in Goroutine :
           /\ Fits(g) /\ go' = [go EXCEPT ![i] = g]
           /\ g.role = role /\ g.at = "select"
           /\ go[i] = Free
<1> DEFINE g == [role |-> role, at |-> "select", from |-> "START", to |-> "START",
                 quit |-> FALSE, leader |-> l]
<1>1. PICK i \in Slot : go[i] = Free /\ go' = [go EXCEPT ![i] = g]
  BY DEF Listen
<1>2. g \in Goroutine /\ Fits(g) /\ g.role = role /\ g.at = "select"
  BY DEF Goroutine, State, Fits
<1> HIDE DEF g
<1> QED BY <1>1, <1>2

-----------------------------------------------------------------------------
\* The server starts with one transition function, that of INIT.
LEMMA TypedInit == Init => Typed
<1> SUFFICES ASSUME Init PROVE Typed
  OBVIOUS
<1>1. PlainTyped
  BY DEF Init, PlainTyped, Receiving, State
<1>2. PICK i \in Slot :
        go = [j \in Slot |-> IF j = i THEN Running("send", "START", "INIT") ELSE Free]
  BY DEF Init
<1>3. <<"START", "INIT">> \in Transition
  BY DEF Transition
<1>4. GoTyped
  BY <1>2, <1>3, RunningFits, FreeFits DEF GoTyped
<1> QED BY <1>1, <1>4 DEF Typed

\* The steps of the transition functions keep the types.
LEMMA TypedTransition ==
  ASSUME Typed, NEW i \in Slot, TransitionStep(i)
  PROVE  Typed'
<1>0. /\ go[i] \in Goroutine /\ Fits(go[i])
  BY DEF Typed, GoTyped
<1>1. GoTyped'
  BY TransitionOne, OneGoes DEF OneOf, Typed
<1> USE DEF Typed
<1>2. CASE SendState(i)
  <2>1. go[i].to \in State
    BY <1>0 DEF Goroutine
  <2>2. /\ main' \in [at : {"receive", "stop", "set", "start", "elect", "commit"},
                      from : State, to : State]
        /\ main'.at = "stop"
    BY <1>2, <2>1 DEF SendState, PlainTyped
  <2>3. /\ ml' \in [at : {"off", "idle", "victory", "commit"}, from : State]
        /\ ml'.at = "commit" => <<ml'.from, "FOLLOWER">> \in Transition /\ ml'.from # "START"
    BY <1>2 DEF SendState, PlainTyped
  <2>4. PlainTyped'
    BY <1>2, <2>2, <2>3 DEF SendState, PlainTyped
  <2> QED BY <1>1, <2>4
<1>3. CASE JoinSucceeds(i)
  <2>1. PlainTyped'
    BY <1>3 DEF JoinSucceeds, PlainTyped
  <2> QED BY <1>1, <2>1
<1>4. CASE Commit(i)
  <2>1. go[i].to \in State \ {"START"}
    BY <1>0, <1>4, TransitionStates DEF Fits, Commit
  <2>2. PlainTyped'
    BY <1>4, <2>1 DEF Commit, PlainTyped
  <2> QED BY <1>1, <2>2
<1>5. CASE UNCHANGED <<smState, sState, leaderID, broadcasting, main, ml>>
  <2>1. PlainTyped'
    BY <1>5 DEF PlainTyped
  <2> QED BY <1>1, <2>1
<1> QED BY <1>2, <1>3, <1>4, <1>5
        DEF TransitionStep, Discover, LeaderToInit, JoinFails, Joined, Victorious

\* The steps of the listener goroutines keep the types.
LEMMA TypedListener ==
  ASSUME Typed, NEW i \in Slot, ListenerStep(i)
  PROVE  Typed'
<1>1. GoTyped'
  BY ListenerOne, OneGoes DEF OneOf, Typed
<1>2. PlainTyped'
  BY ListenerOne DEF Typed, PlainTyped
<1> QED BY <1>1, <1>2 DEF Typed

\* The steps of the main loop keep the types.
LEMMA TypedMain ==
  ASSUME Typed, MainStep
  PROVE  Typed'
<1> USE DEF Typed
<1>1. CASE MainStop
  <2>1. GoTyped'
    <3> SUFFICES ASSUME NEW i \in Slot
                 PROVE  go'[i] \in Goroutine /\ Fits(go'[i])
      BY <1>1 DEF MainStop, GoTyped
    <3>1. go[i] \in Goroutine /\ Fits(go[i])
      BY DEF GoTyped
    <3>2. go'[i] = IF go[i].role = sState THEN [go[i] EXCEPT !.quit = TRUE] ELSE go[i]
      BY <1>1 DEF MainStop
    <3>3. [go[i] EXCEPT !.quit = TRUE] \in Goroutine /\ Fits([go[i] EXCEPT !.quit = TRUE])
      BY <3>1 DEF Goroutine, Fits
    <3> QED BY <3>1, <3>2, <3>3
  <2>2. PlainTyped'
    BY <1>1 DEF MainStop, PlainTyped
  <2> QED BY <2>1, <2>2
<1>2. CASE MainSet
  <2>1. main' = [at |-> "start", from |-> "START", to |-> "START"]
    BY <1>2 DEF MainSet, Receiving
  <2>a. sState' \in State
    BY <1>2 DEF MainSet, PlainTyped
  <2>b. /\ main' \in [at : {"receive", "stop", "set", "start", "elect", "commit"},
                      from : State, to : State]
        /\ main'.at # "commit"
    BY <2>1 DEF State
  <2>2. PlainTyped'
    BY <1>2, <2>a, <2>b DEF MainSet, PlainTyped
  <2>3. GoTyped'
    BY <1>2 DEF MainSet, GoTyped
  <2> QED BY <2>2, <2>3
<1>3. CASE MainStart
  <2>1. main' = [at |-> IF sState = "ELECTION" THEN "elect" ELSE "receive",
                 from |-> "START", to |-> "START"]
    BY <1>3 DEF MainStart, Receiving
  <2>2. leaderID' \in Peer \cup {Self, NoLeader} /\ broadcasting' \in BOOLEAN
    BY <1>3 DEF MainStart, PlainTyped
  <2>a. /\ main' \in [at : {"receive", "stop", "set", "start", "elect", "commit"},
                      from : State, to : State]
        /\ main'.at # "commit"
    BY <2>1 DEF State
  <2>3. PlainTyped'
    BY <1>3, <2>a, <2>2 DEF MainStart, PlainTyped
  <2>4. leaderID \in Peer \cup {Self, NoLeader}
    BY DEF PlainTyped
  <2>5. CASE go' = go
    BY <2>3, <2>5 DEF GoTyped
  <2>6. CASE Listen("LEADER", Self)
    BY <2>3, <2>6, ListenGoes, OneGoes
  <2>7. CASE Listen("FOLLOWER", leaderID)
    BY <2>3, <2>4, <2>7, ListenGoes, OneGoes
  <2> QED BY <1>3, <2>5, <2>6, <2>7 DEF MainStart
<1>4. CASE MainElect
  <2>1. main' = Receiving \/ \E s \in {"ELECTION", "BECOME_LEADER"} :
          LookupFinds(s) /\ main' = [at |-> "commit", from |-> smState, to |-> s]
    BY <1>4 DEF MainElect
  <2>2. PlainTyped'
    BY <1>4, <2>1 DEF MainElect, PlainTyped, State, Receiving, LookupFinds
  <2>3. GoTyped'
    BY <1>4 DEF MainElect, GoTyped
  <2> QED BY <2>2, <2>3
<1>5. CASE MainCommit
  <2>1. <<main.from, main.to>> \in Transition /\ main.from # "START"
    BY <1>5 DEF MainCommit, PlainTyped
  <2>2. GoTyped'
    BY <1>5, <2>1, GoOne, OneGoes DEF MainCommit, OneOf
  <2>3. main' = [at |-> "receive", from |-> "START", to |-> "START"]
    BY <1>5 DEF MainCommit, Receiving
  <2>4. /\ main' \in [at : {"receive", "stop", "set", "start", "elect", "commit"},
                      from : State, to : State]
        /\ main'.at # "commit"
    BY <2>3 DEF State
  <2>5. main.to \in State \ {"START"}
    BY <2>1, TransitionStates
  <2>6. PlainTyped'
    BY <1>5, <2>4, <2>5 DEF MainCommit, PlainTyped
  <2> QED BY <2>2, <2>6
<1> QED BY <1>1, <1>2, <1>3, <1>4, <1>5 DEF MainStep

\* Every step keeps the types.
LEMMA TypedStep == Typed /\ [Next]_vars => Typed'
<1> SUFFICES ASSUME Typed, [Next]_vars PROVE Typed'
  OBVIOUS
<1> USE DEF Typed
<1>1. CASE FollowWinner
  BY <1>1 DEF FollowWinner, LookupFinds, PlainTyped, GoTyped
<1>2. CASE VictoryCommit
  <2>1. GoTyped'
    BY <1>2, GoOne, OneGoes DEF VictoryCommit, PlainTyped, OneOf
  <2>2. PlainTyped'
    BY <1>2 DEF VictoryCommit, PlainTyped, State
  <2> QED BY <2>1, <2>2
<1>3. ASSUME NEW p \in Peer, VictoryOf(p) PROVE Typed'
  BY <1>3 DEF VictoryOf, PlainTyped, GoTyped
<1>4. CASE UNCHANGED vars
  BY <1>4 DEF vars, PlainTyped, GoTyped
<1> HIDE DEF Typed
<1> QED BY <1>1, <1>2, <1>3, <1>4, TypedMain, TypedTransition, TypedListener DEF Next

\* The variables have their types, and a transition function runs only for an
\* entry of sm.transitions (state_machine.go:86), with any number of goroutines
\* in ChangeTo at once.
THEOREM TypeCorrect == Spec => []TypeOK
<1>1. Typed => TypeOK
  BY DEF Typed, PlainTyped, GoTyped, Fits, TypeOK
<1> QED BY <1>1, TypedInit, TypedStep, PTL DEF Spec

-----------------------------------------------------------------------------
\* The broadcaster starts and stops with the listener of LEADER.
LEMMA AnnounceStep == Announce /\ [Next]_vars => Announce'
<1> SUFFICES ASSUME Announce, [Next]_vars PROVE Announce'
  OBVIOUS
<1> USE DEF Announce
<1>1. CASE MainStep
  <2>1. CASE MainStop
    BY <2>1 DEF MainStop
  <2>2. CASE MainSet
    BY <2>2 DEF MainSet
  <2>3. CASE MainStart
    <3>1. main' = [at |-> IF sState = "ELECTION" THEN "elect" ELSE "receive",
                   from |-> "START", to |-> "START"]
      BY <2>3 DEF MainStart, Receiving
    <3> QED BY <2>3, <3>1 DEF MainStart
  <2>4. CASE MainElect
    BY <2>4 DEF MainElect, Receiving
  <2>5. CASE MainCommit
    BY <2>5 DEF MainCommit, Receiving
  <2> QED BY <1>1, <2>1, <2>2, <2>3, <2>4, <2>5 DEF MainStep
<1>2. ASSUME NEW i \in Slot, TransitionStep(i) PROVE Announce'
  <2>1. UNCHANGED <<sState, broadcasting>> /\ (main' = main \/ main'.at = "stop")
    <3>1. CASE SendState(i)
      <4>1. main' = [[main EXCEPT !.at = "stop"] EXCEPT !.to = go[i].to]
        BY <3>1 DEF SendState
      <4> QED BY <3>1 DEF SendState
    <3> QED BY <1>2, <3>1 DEF TransitionStep, Discover, LeaderToInit, JoinFails, JoinSucceeds,
                             Joined, Victorious, Commit
  <2> QED BY <2>1
<1>3. ASSUME NEW i \in Slot, ListenerStep(i) PROVE Announce'
  BY <1>3 DEF ListenerStep, ListenerQuits, HigherLeader, LeaderSilent, GoToElection
<1>4. CASE FollowWinner \/ VictoryCommit \/ \E p \in Peer : VictoryOf(p)
  BY <1>4 DEF FollowWinner, VictoryCommit, VictoryOf
<1>5. CASE UNCHANGED vars
  BY <1>5 DEF vars
<1> QED BY <1>1, <1>2, <1>3, <1>4, <1>5 DEF Next

\* Only while s.state is LEADER does the server announce itself as the leader.
THEOREM BroadcastOnlyAsLeaderCorrect == Spec => []BroadcastOnlyAsLeader
<1>1. Init => Announce
  BY DEF Init, Announce
<1>2. Announce => BroadcastOnlyAsLeader
  BY DEF Announce, BroadcastOnlyAsLeader
<1> QED BY <1>1, <1>2, AnnounceStep, PTL DEF Spec

-----------------------------------------------------------------------------
\* No listener is in charge that was not before.
NoneNew ==
  /\ InCharge' \subseteq InCharge
  /\ \A j \in InCharge' : go'[j].role = go[j].role

\* A goroutine that goes on to anything but a listener's wait is not in charge.
LEMMA OneNotInCharge ==
  ASSUME GoTyped, NEW i \in Slot, NEW g, OneOf(i, g)
  PROVE  NoneNew
<1>1. /\ \A j \in Slot : go'[j] = IF j = i THEN g ELSE go[j]
      /\ g.at # "select"
  BY OneGoes DEF OneOf
<1> HIDE DEF GoTyped
<1> QED BY <1>1 DEF NoneNew, InCharge

\* While s.state stays and the main loop starts nothing, the listener in charge
\* stays or goes.
LEMMA ChargeKept ==
  ASSUME Charge, NoneNew, sState' = sState,
         main'.at \in {"set", "start"} => main.at \in {"set", "start"}
  PROVE  Charge'
BY DEF Charge, OneListener, NoneNew

\* A step of a transition function.
LEMMA ChargeTransition ==
  ASSUME Typed, Charge, NEW i \in Slot, TransitionStep(i)
  PROVE  Charge'
<1>1. NoneNew
  BY TransitionOne, OneNotInCharge DEF Typed
<1>2. sState' = sState /\ (main' = main \/ main'.at = "stop")
  <2>1. CASE SendState(i)
    <3>1. main' = [[main EXCEPT !.at = "stop"] EXCEPT !.to = go[i].to]
      BY <2>1 DEF SendState
    <3>2. main \in [at : {"receive", "stop", "set", "start", "elect", "commit"},
                    from : State, to : State]
      BY DEF Typed, PlainTyped
    <3> QED BY <2>1, <3>1, <3>2 DEF SendState
  <2> QED BY <2>1 DEF TransitionStep, Discover, LeaderToInit, JoinFails, JoinSucceeds, Joined,
                      Victorious, Commit
<1> QED BY <1>1, <1>2, ChargeKept

\* A step of a listener goroutine.
LEMMA ChargeListener ==
  ASSUME Typed, Charge, NEW i \in Slot, ListenerStep(i)
  PROVE  Charge'
BY ListenerOne, OneNotInCharge, ChargeKept DEF Typed

\* A step of the main loop: Stop leaves nobody in charge, Start puts one there.
LEMMA ChargeMain ==
  ASSUME Typed, Charge, MainStep
  PROVE  Charge'
<1>0. GoTyped
  BY DEF Typed
<1>1. CASE MainStop
  <2>1. \A i \in Slot : /\ go'[i].role = go[i].role /\ go'[i].at = go[i].at
                        /\ ~ go'[i].quit => ~ go[i].quit /\ go[i].role # sState
    <3> SUFFICES ASSUME NEW i \in Slot
                 PROVE  /\ go'[i].role = go[i].role /\ go'[i].at = go[i].at
                        /\ ~ go'[i].quit => ~ go[i].quit /\ go[i].role # sState
      OBVIOUS
    <3>1. go[i] \in Goroutine
      BY <1>0 DEF GoTyped
    <3>2. go'[i] = IF go[i].role = sState THEN [go[i] EXCEPT !.quit = TRUE] ELSE go[i]
      BY <1>1 DEF MainStop
    <3>3. CASE go[i].role = sState
      <4>1. go'[i] = [role |-> go[i].role, at |-> go[i].at, from |-> go[i].from, to |-> go[i].to,
                      quit |-> TRUE, leader |-> go[i].leader]
        BY <3>1, <3>2, <3>3 DEF Goroutine
      <4> QED BY <3>3, <4>1
    <3>4. CASE go[i].role # sState
      BY <3>2, <3>4
    <3> QED BY <3>3, <3>4
  <2>2. InCharge' = {}
    BY <2>1 DEF InCharge, Charge
  <2> QED BY <2>2 DEF Charge, OneListener
<1>2. CASE MainSet
  <2>1. InCharge = {}
    BY <1>2 DEF MainSet, Charge
  <2>2. InCharge' = {}
    BY <1>2, <2>1 DEF MainSet, InCharge
  <2> QED BY <2>2 DEF Charge, OneListener
<1>3. CASE MainStart
  <2>1. InCharge = {}
    BY <1>3 DEF MainStart, Charge
  <2>2. main'.at \notin {"set", "start"} /\ sState' = sState
    <3>1. main' = [at |-> IF sState = "ELECTION" THEN "elect" ELSE "receive",
                   from |-> "START", to |-> "START"]
      BY <1>3 DEF MainStart, Receiving
    <3> QED BY <1>3, <3>1 DEF MainStart
  <2>3. CASE go' = go
    <3>1. InCharge' = {}
      BY <2>1, <2>3 DEF InCharge
    <3> QED BY <3>1 DEF Charge, OneListener
  <2>4. ASSUME NEW l \in Peer \cup {Self, NoLeader}, sState \in {"LEADER", "FOLLOWER"},
               Listen(sState, l)
        PROVE  Charge'
    <3>1. PICK i \in Slot, g \in Goroutine :
            Fits(g) /\ go' = [go EXCEPT ![i] = g] /\ g.role = sState
      BY <1>0, <2>4, ListenGoes
    <3>2. g.role = sState
      BY <3>1
    <3>3. \A j \in Slot : go'[j] = IF j = i THEN g ELSE go[j]
      BY <1>0, <3>1, OneGoes
    <3>4. InCharge' \subseteq {i}
      BY <2>1, <3>3 DEF InCharge
    <3> QED BY <2>2, <3>2, <3>3, <3>4 DEF Charge, OneListener
  <2>5. leaderID \in Peer \cup {Self, NoLeader}
    BY DEF Typed, PlainTyped
  <2> QED BY <1>3, <2>3, <2>4, <2>5 DEF MainStart
<1>4. CASE MainElect
  <2>1. main'.at \in {"commit", "receive"}
    BY <1>4 DEF MainElect, Receiving
  <2>2. NoneNew /\ sState' = sState
    BY <1>4 DEF MainElect, NoneNew, InCharge
  <2> QED BY <2>1, <2>2, ChargeKept
<1>5. CASE MainCommit
  <2>1. <<main.from, main.to>> \in Transition /\ main.from # "START"
    BY <1>5 DEF MainCommit, Typed, PlainTyped
  <2>2. NoneNew
    BY <1>0, <1>5, <2>1, GoOne, OneNotInCharge DEF MainCommit
  <2>3. main'.at = "receive" /\ sState' = sState
    BY <1>5 DEF MainCommit, Receiving
  <2> QED BY <2>2, <2>3, ChargeKept
<1> QED BY <1>1, <1>2, <1>3, <1>4, <1>5 DEF MainStep

\* Every step keeps at most the listener of s.state in charge.
LEMMA ChargeStep == Typed /\ Charge /\ [Next]_vars => Charge'
<1> SUFFICES ASSUME Typed, Charge, [Next]_vars PROVE Charge'
  OBVIOUS
<1>1. CASE FollowWinner \/ (\E p \in Peer : VictoryOf(p)) \/ UNCHANGED vars
  <2>1. NoneNew /\ UNCHANGED <<sState, main>>
    BY <1>1 DEF FollowWinner, VictoryOf, vars, NoneNew, InCharge
  <2> QED BY <2>1, ChargeKept
<1>2. CASE VictoryCommit
  <2>1. /\ GoTyped /\ <<ml.from, "FOLLOWER">> \in Transition /\ ml.from # "START"
        /\ Go(ml.from, "FOLLOWER")
    BY <1>2 DEF VictoryCommit, Typed, PlainTyped
  <2>2. NoneNew /\ UNCHANGED <<sState, main>>
    BY <1>2, <2>1, GoOne, OneNotInCharge DEF VictoryCommit
  <2> QED BY <2>2, ChargeKept
<1> QED BY <1>1, <1>2, ChargeMain, ChargeTransition, ChargeListener DEF Next

\* At most one listener goroutine has not been told to quit, however many
\* transition functions overtake each other.
THEOREM OneListenerCorrect == Spec => []OneListener
<1>1. Init => Charge
  <2> SUFFICES ASSUME Init PROVE Charge
    OBVIOUS
  <2>1. PICK k \in Slot :
          go = [j \in Slot |-> IF j = k THEN Running("send", "START", "INIT") ELSE Free]
    BY DEF Init
  <2>2. Running("send", "START", "INIT").at # "select" /\ Free.at # "select"
    BY DEF Running, Free
  <2>3. \A i \in Slot : go[i].at # "select"
    BY <2>1, <2>2
  <2> QED BY <2>3 DEF Charge, OneListener, InCharge
<1>2. Charge => OneListener
  BY DEF Charge
<1> QED BY <1>1, <1>2, TypedInit, TypedStep, ChargeStep, PTL DEF Spec

-----------------------------------------------------------------------------

-----------------------------------------------------------------------------
\* No step but Init has a transition function from START.
LEMMA NoStarter ==
  ASSUME GoTyped, NEW i \in Slot, NEW g, OneOf(i, g)
  PROVE  Starters' = Starters \ {i}
<1>1. /\ \A j \in Slot : go'[j] = IF j = i THEN g ELSE go[j]
      /\ g.at = "send" => g.from # "START"
  BY OneGoes DEF OneOf
<1> HIDE DEF GoTyped
<1> QED BY <1>1 DEF Starters

\* As long as the starter is there, the listener of multicasts is off.
LEMMA StartedKept ==
  ASSUME Started, Starters' \subseteq Starters, ml.at = "off" => ml'.at = "off"
  PROVE  Started'
BY DEF Started

\* Every step keeps that there is one starter at most.
LEMMA StartedStep == Typed /\ Started /\ [Next]_vars => Started'
<1> SUFFICES ASSUME Typed, Started, [Next]_vars PROVE Started'
  OBVIOUS
<1>0. GoTyped /\ \A i \in Slot : go[i] \in Goroutine
  BY DEF Typed, GoTyped
<1>1. ASSUME NEW i \in Slot, TransitionStep(i) PROVE Started'
  <2>1. Starters' = Starters \ {i}
    BY <1>0, <1>1, TransitionOne, NoStarter
  <2>2. CASE SendState(i)
    <3>1. CASE i \in Starters
      <4>1. Starters' = {}
        BY <2>1, <3>1 DEF Started
      <4> QED BY <4>1 DEF Started
    <3>2. CASE i \notin Starters
      <4>1. go[i].from # "START"
        BY <2>2, <3>2 DEF SendState, Starters
      <4>2. ml' = [ml EXCEPT !.at = ml.at]
        BY <2>2, <4>1 DEF SendState
      <4>3. ml'.at = ml.at
        BY <4>2 DEF Typed, PlainTyped
      <4> QED BY <2>1, <4>3, StartedKept
    <3> QED BY <3>1, <3>2
  <2>3. CASE UNCHANGED ml
    BY <2>1, <2>3, StartedKept
  <2> QED BY <1>1, <2>2, <2>3 DEF TransitionStep, Discover, LeaderToInit, JoinFails,
                                  JoinSucceeds, Joined, Victorious, Commit
<1>2. ASSUME NEW i \in Slot, ListenerStep(i) PROVE Started'
  <2>1. Starters' = Starters \ {i}
    BY <1>0, <1>2, ListenerOne, NoStarter
  <2> QED BY <1>2, <2>1, ListenerOne, StartedKept
<1>3. CASE MainStop
  <2>1. \A i \in Slot : go'[i].at = go[i].at /\ go'[i].from = go[i].from
    <3> SUFFICES ASSUME NEW i \in Slot
                 PROVE  go'[i].at = go[i].at /\ go'[i].from = go[i].from
      OBVIOUS
    <3>1. go'[i] = go[i] \/ go'[i] = [go[i] EXCEPT !.quit = TRUE]
      BY <1>3 DEF MainStop
    <3>2. CASE go'[i] = [go[i] EXCEPT !.quit = TRUE]
      <4>1. go'[i] = [role |-> go[i].role, at |-> go[i].at, from |-> go[i].from, to |-> go[i].to,
                      quit |-> TRUE, leader |-> go[i].leader]
        BY <1>0, <3>2 DEF Goroutine
      <4> QED BY <4>1
    <3> QED BY <3>1, <3>2
  <2>2. Starters' = Starters /\ ml' = ml
    BY <1>3, <2>1 DEF Starters, MainStop
  <2> QED BY <2>2, StartedKept
<1>4. CASE MainStart
  <2>1. CASE go' = go
    <3>1. Starters' = Starters /\ ml' = ml
      BY <1>4, <2>1 DEF Starters, MainStart
    <3> QED BY <3>1, StartedKept
  <2>2. ASSUME NEW role \in {"LEADER", "FOLLOWER"}, NEW l \in Peer \cup {Self, NoLeader},
               Listen(role, l)
        PROVE  Started'
    <3>1. PICK i \in Slot, g \in Goroutine :
            Fits(g) /\ go' = [go EXCEPT ![i] = g] /\ g.at = "select"
      BY <1>0, <2>2, ListenGoes
    <3>2. \A j \in Slot : go'[j] = IF j = i THEN g ELSE go[j]
      BY <1>0, <3>1, OneGoes
    <3>3. Starters' \subseteq Starters /\ ml' = ml
      BY <1>4, <3>1, <3>2 DEF Starters, MainStart
    <3> QED BY <3>3, StartedKept
  <2>3. leaderID \in Peer \cup {Self, NoLeader}
    BY DEF Typed, PlainTyped
  <2> QED BY <1>4, <2>1, <2>2, <2>3 DEF MainStart
<1>5. CASE MainCommit
  <2>1. <<main.from, main.to>> \in Transition /\ main.from # "START"
    BY <1>5 DEF MainCommit, Typed, PlainTyped
  <2>2. Starters' \subseteq Starters
    BY <1>0, <1>5, <2>1, GoOne, NoStarter DEF MainCommit
  <2> QED BY <1>5, <2>2, StartedKept DEF MainCommit
<1>6. CASE VictoryCommit
  <2>1. /\ GoTyped /\ <<ml.from, "FOLLOWER">> \in Transition /\ ml.from # "START"
        /\ Go(ml.from, "FOLLOWER") /\ ml.at # "off"
    BY <1>6 DEF VictoryCommit, Typed, PlainTyped
  <2>2. Starters' \subseteq Starters
    BY <2>1, GoOne, NoStarter
  <2> QED BY <2>1, <2>2, StartedKept
<1>7. CASE go' = go /\ (ml.at = "off" => ml' = ml)
  <2>1. Starters' = Starters
    BY <1>7 DEF Starters
  <2> QED BY <1>7, <2>1, StartedKept
<1> QED BY <1>1, <1>2, <1>3, <1>4, <1>5, <1>6, <1>7
        DEF Next, MainStep, MainSet, MainElect, FollowWinner, VictoryOf, vars

-----------------------------------------------------------------------------
\* Another goroutine than i, the main loop or the listener of multicasts
\* assigns next.
OtherAssigns(i) ==
  (\E j \in Slot \ {i} : go[j].at = "commit") \/ main.at = "commit" \/ ml.at = "commit"

\* Who assigns, moves.
LEMMA AssigningMoves ==
  (\E j \in Slot : go[j].at = "commit") \/ main.at = "commit" \/ ml.at = "commit"
    <=> Assigning # {}
BY DEF Assigning

\* When the lookup of an entry fails, another goroutine assigns.
LEMMA Torn ==
  ASSUME NEW s, LookupFails(s), <<smState, s>> \in Transition
  PROVE  (\E j \in Slot : go[j].at = "commit") \/ main.at = "commit" \/ ml.at = "commit"
BY AssigningMoves DEF LookupFails

\* While goroutine i does a step in which it does not carry sm.state on, or
\* does, somebody goes on to.
LEMMA OthersMove ==
  ASSUME GoTyped, Moving, NEW i \in Slot, NEW g, OneOf(i, g), UNCHANGED smState,
         main.at = "commit" => main'.at = "commit",
         ml.at = "commit" => ml'.at = "commit",
         ElectionInMain => ElectionInMain',
         go[i].at = "commit" => g.at = "commit",
         Carries(i, smState) => \/ g.at \in {"send", "body", "joined"} /\ g.to = smState
                                \/ g.at = "commit"
                                \/ OtherAssigns(i)
                                \/ smState = "ELECTION" /\ ElectionInMain'
                                \/ smState \in {"LEADER", "FOLLOWER"}
  PROVE  Moving'
<1>1. \A j \in Slot : go'[j] = IF j = i THEN g ELSE go[j]
  BY OneGoes DEF OneOf
<1> HIDE DEF GoTyped, ElectionInMain
<1>2. CASE smState \in {"LEADER", "FOLLOWER"}
  BY <1>2 DEF Moving
<1>3. CASE OtherAssigns(i) \/ g.at = "commit"
  <2>1. (\E j \in Slot : go'[j].at = "commit") \/ main'.at = "commit" \/ ml'.at = "commit"
    BY <1>1, <1>3 DEF OtherAssigns
  <2>2. Onward'
    BY <2>1 DEF Onward, Assigning
  <2> QED BY <2>2 DEF Moving
<1>4. CASE Assigning # {}
  <2>1. OtherAssigns(i) \/ g.at = "commit"
    BY <1>4, AssigningMoves DEF OtherAssigns
  <2> QED BY <1>3, <2>1
<1>5. CASE smState = "ELECTION" /\ ElectionInMain
  BY <1>5 DEF Moving, Onward
<1>6. ASSUME NEW j \in Slot, Carries(j, smState), j # i PROVE Moving'
  BY <1>1, <1>6 DEF Moving, Onward, Carries
<1>7. CASE Carries(i, smState)
  <2>1. CASE g.at \in {"send", "body", "joined"} /\ g.to = smState
    BY <1>1, <2>1 DEF Moving, Onward, Carries
  <2>2. CASE smState = "ELECTION" /\ ElectionInMain'
    BY <2>2 DEF Moving, Onward
  <2> QED BY <1>2, <1>3, <1>7, <2>1, <2>2
<1> QED BY <1>2, <1>4, <1>5, <1>6, <1>7 DEF Moving, Onward

\* A goroutine that calls ChangeTo for an entry of the state whose function it
\* is, or that is the function of another state.
LEMMA ChangeToMoves ==
  ASSUME Typed, Moving, NEW i \in Slot, NEW s \in State, ChangeTo(i, s),
         UNCHANGED <<smState, sState, main, ml>>, go[i].at # "commit",
         Carries(i, smState) => <<smState, s>> \in Transition
  PROVE  Moving'
<1>1. GoTyped
  BY DEF Typed
<1>2. ElectionInMain => ElectionInMain'
  BY DEF ElectionInMain
<1>3. CASE LookupFinds(s) /\ \E g : OneOf(i, g) /\ g.at = "commit"
  BY <1>1, <1>2, <1>3, OthersMove
<1>4. CASE LookupFails(s) /\ \E g : OneOf(i, g)
  <2>1. Carries(i, smState) => OtherAssigns(i)
    BY <1>4, Torn DEF OtherAssigns
  <2> HIDE DEF ElectionInMain
  <2> QED BY <1>1, <1>2, <1>4, <2>1, OthersMove
<1> QED BY <1>3, <1>4, ChangeToGoes

\* A goroutine has just assigned sm.state, or the main loop or the listener of
\* multicasts has, and starts the function of the new state.
LEMMA AssignedMoves ==
  ASSUME GoTyped, NEW i \in Slot, NEW g, OneOf(i, g), g.at = "send", smState' = g.to
  PROVE  Moving'
<1>1. go'[i] = g
  BY OneGoes DEF OneOf
<1> QED BY <1>1 DEF Moving, Onward, Carries

\* A step of a transition function.
LEMMA MovingTransition ==
  ASSUME Typed, Started, Moving, NEW i \in Slot, TransitionStep(i)
  PROVE  Moving'
<1>0. /\ GoTyped /\ go \in [Slot -> Goroutine]
      /\ go[i] \in Goroutine /\ Fits(go[i])
  BY DEF Typed, GoTyped
<1> DEFINE Still == UNCHANGED <<smState, sState, main, ml>>
<1>c. ASSUME NEW s \in {"INIT", "LEADER", "FOLLOWER", "BECOME_FOLLOWER"}, ChangeTo(i, s), Still,
             go[i].at # "commit", Carries(i, smState) => <<smState, s>> \in Transition
      PROVE  Moving'
  <2>1. s \in State
    BY DEF State
  <2> QED BY <1>c, <2>1, ChangeToMoves
<1>1. CASE SendState(i)
  <2> DEFINE g == IF GoesOn(<<go[i].from, go[i].to>>) THEN [go[i] EXCEPT !.at = "body"] ELSE Free
  <2>1. go' = [go EXCEPT ![i] = g] /\ go[i].at = "send" /\ main.at = "receive"
    BY <1>0, <1>1 DEF SendState
  <2>2. /\ g \in Goroutine /\ Fits(g) /\ g.at \in {"body", "free"}
        /\ GoesOn(<<go[i].from, go[i].to>>) => g.at = "body" /\ g.to = go[i].to
    BY <1>0, <2>1, FreeFits DEF Goroutine, Fits, Free
  <2> HIDE DEF g
  <2>3. OneOf(i, g)
    BY <2>1, <2>2 DEF OneOf
  <2>4. main'.at = "stop" /\ main'.to = go[i].to
    <3>1. main' = [[main EXCEPT !.at = "stop"] EXCEPT !.to = go[i].to]
      BY <1>1 DEF SendState
    <3>2. main \in [at : {"receive", "stop", "set", "start", "elect", "commit"},
                    from : State, to : State]
      BY DEF Typed, PlainTyped
    <3> QED BY <3>1, <3>2
  <2>5. ml.at = "commit" => ml'.at = "commit"
    <3>1. CASE go[i].from = "START"
      BY <2>1, <3>1 DEF Started, Starters
    <3>2. CASE go[i].from # "START"
      <4>1. ml' = [ml EXCEPT !.at = ml.at]
        BY <1>1, <3>2 DEF SendState
      <4> QED BY <4>1 DEF Typed, PlainTyped
    <3> QED BY <3>1, <3>2
  <2>6. ~ ElectionInMain
    BY <2>1 DEF ElectionInMain
  <2>7. ASSUME Carries(i, smState)
        PROVE  \/ g.at = "body" /\ g.to = smState
               \/ smState = "ELECTION" /\ ElectionInMain'
               \/ smState \in {"LEADER", "FOLLOWER"}
    <3>1. smState = go[i].to
      BY <2>7 DEF Carries
    <3>2. smState \in State \ {"START"}
      BY DEF Typed, PlainTyped
    <3>3. CASE smState \in {"INIT", "BECOME_FOLLOWER", "BECOME_LEADER"}
      BY <2>2, <3>1, <3>3 DEF GoesOn
    <3>4. CASE smState = "ELECTION"
      BY <2>4, <3>1, <3>4 DEF ElectionInMain
    <3> QED BY <3>2, <3>3, <3>4 DEF State
  <2>8. UNCHANGED smState
    BY <1>1 DEF SendState
  <2> HIDE DEF ElectionInMain
  <2> QED BY <1>0, <2>1, <2>3, <2>5, <2>6, <2>7, <2>8, OthersMove
<1>2. CASE Discover(i)
  <2>1. Carries(i, smState) => smState = "INIT"
    BY <1>2 DEF Discover, In, Carries
  <2>2. <<"INIT", "LEADER">> \in Transition /\ <<"INIT", "BECOME_FOLLOWER">> \in Transition
    BY DEF Transition
  <2>3. Still /\ go[i].at = "body" /\ (ChangeTo(i, "LEADER") \/ ChangeTo(i, "BECOME_FOLLOWER"))
    BY <1>2 DEF Discover, In
  <2> HIDE DEF Still
  <2> QED BY <1>c, <2>1, <2>2, <2>3
<1>3. CASE LeaderToInit(i)
  <2>1. Carries(i, smState) => smState = "INIT"
    BY <1>3 DEF LeaderToInit, In, Carries
  <2>2. <<"INIT", "BECOME_FOLLOWER">> \in Transition
    BY DEF Transition
  <2>3. Still /\ go[i].at = "body" /\ ChangeTo(i, "BECOME_FOLLOWER")
    BY <1>3 DEF LeaderToInit, In
  <2> HIDE DEF Still
  <2> QED BY <1>c, <2>1, <2>2, <2>3
<1>4. CASE JoinFails(i)
  <2>1. Carries(i, smState) => smState = "BECOME_FOLLOWER"
    BY <1>4 DEF JoinFails, In, Carries
  <2>2. <<"BECOME_FOLLOWER", "INIT">> \in Transition
    BY DEF Transition
  <2>3. Still /\ go[i].at = "body" /\ ChangeTo(i, "INIT")
    BY <1>4 DEF JoinFails, In
  <2> HIDE DEF Still
  <2> QED BY <1>c, <2>1, <2>2, <2>3
<1>5. CASE JoinSucceeds(i)
  <2>1. go[i].at = "body" /\ go[i].to = "BECOME_FOLLOWER" /\ UNCHANGED <<smState, sState, main, ml>>
    BY <1>5 DEF JoinSucceeds, In
  <2> DEFINE g == [go[i] EXCEPT !.at = "joined"]
  <2>2. g \in Goroutine /\ Fits(g) /\ g.at = "joined" /\ g.to = go[i].to
    BY <1>0, <2>1 DEF Goroutine, Fits
  <2>3. go' = [go EXCEPT ![i] = g]
    BY <1>5 DEF JoinSucceeds
  <2> HIDE DEF g
  <2>4. OneOf(i, g)
    BY <2>2, <2>3 DEF OneOf
  <2>5. Carries(i, smState) => g.to = smState
    BY <2>2 DEF Carries
  <2>6. ElectionInMain => ElectionInMain'
    BY <2>1 DEF ElectionInMain
  <2> HIDE DEF ElectionInMain
  <2> QED BY <1>0, <2>1, <2>2, <2>4, <2>5, <2>6, OthersMove
<1>6. CASE Joined(i)
  <2>1. Carries(i, smState) => smState = "BECOME_FOLLOWER"
    BY <1>0, <1>6 DEF Joined, Fits, Carries
  <2>2. <<"BECOME_FOLLOWER", "FOLLOWER">> \in Transition
    BY DEF Transition
  <2>3. Still /\ go[i].at = "joined" /\ ChangeTo(i, "FOLLOWER")
    BY <1>6 DEF Joined
  <2> HIDE DEF Still
  <2> QED BY <1>c, <2>1, <2>2, <2>3
<1>7. CASE Victorious(i)
  <2>1. Carries(i, smState) => smState = "BECOME_LEADER"
    BY <1>7 DEF Victorious, In, Carries
  <2>2. <<"BECOME_LEADER", "LEADER">> \in Transition
    BY DEF Transition
  <2>3. Still /\ go[i].at = "body" /\ ChangeTo(i, "LEADER")
    BY <1>7 DEF Victorious, In
  <2> HIDE DEF Still
  <2> QED BY <1>c, <2>1, <2>2, <2>3
<1>8. CASE Commit(i)
  <2> DEFINE g == [go[i] EXCEPT !.at = "send"]
  <2>1. g \in Goroutine /\ Fits(g) /\ g.at = "send" /\ g.from # "START" /\ g.to = go[i].to
    BY <1>0, <1>8 DEF Commit, Goroutine, Fits
  <2>2. go' = [go EXCEPT ![i] = g] /\ smState' = go[i].to
    BY <1>8 DEF Commit
  <2> HIDE DEF g
  <2> QED BY <1>0, <2>1, <2>2, AssignedMoves DEF OneOf
<1> QED BY <1>1, <1>2, <1>3, <1>4, <1>5, <1>6, <1>7, <1>8 DEF TransitionStep

\* While no goroutine and nobody else who assigns does a step, who carried
\* sm.state on still does.
LEMMA StillMoves ==
  ASSUME Moving, UNCHANGED smState, \A j \in Slot : go'[j].at = go[j].at /\ go'[j].to = go[j].to,
         main.at = "commit" => main'.at = "commit",
         ml.at = "commit" => ml'.at = "commit",
         smState = "ELECTION" /\ ElectionInMain => ElectionInMain' \/ Onward'
  PROVE  Moving'
<1> HIDE DEF ElectionInMain
<1>1. CASE smState \in {"LEADER", "FOLLOWER"}
  BY <1>1 DEF Moving
<1>2. CASE Assigning # {}
  <2>1. (\E j \in Slot : go'[j].at = "commit") \/ main'.at = "commit" \/ ml'.at = "commit"
    BY <1>2, AssigningMoves
  <2> QED BY <2>1 DEF Moving, Onward, Assigning
<1>3. ASSUME NEW j \in Slot, Carries(j, smState) PROVE Moving'
  BY <1>3 DEF Moving, Onward, Carries
<1>4. CASE smState = "ELECTION" /\ ElectionInMain
  <2>1. Onward'
    BY <1>4 DEF Onward
  <2> QED BY <2>1 DEF Moving
<1> QED BY <1>1, <1>2, <1>3, <1>4 DEF Moving, Onward

\* A step of the main loop.
LEMMA MovingMain ==
  ASSUME Typed, Moving, MainStep
  PROVE  Moving'
<1>0. GoTyped /\ \A j \in Slot : go[j] \in Goroutine
  BY DEF Typed, GoTyped
<1>1. CASE MainStop
  <2>1. \A i \in Slot : go'[i].at = go[i].at /\ go'[i].to = go[i].to
    <3> SUFFICES ASSUME NEW i \in Slot
                 PROVE  go'[i].at = go[i].at /\ go'[i].to = go[i].to
      OBVIOUS
    <3>1. go'[i] = go[i] \/ go'[i] = [go[i] EXCEPT !.quit = TRUE]
      BY <1>1 DEF MainStop
    <3>2. CASE go'[i] = [go[i] EXCEPT !.quit = TRUE]
      <4>1. go'[i] = [role |-> go[i].role, at |-> go[i].at, from |-> go[i].from, to |-> go[i].to,
                      quit |-> TRUE, leader |-> go[i].leader]
        BY <1>0, <3>2 DEF Goroutine
      <4> QED BY <4>1
    <3> QED BY <3>1, <3>2
  <2>2. main'.at = "set" /\ main'.to = main.to
    BY <1>1 DEF MainStop, Typed, PlainTyped
  <2>3. ElectionInMain => ElectionInMain'
    BY <1>1, <2>2 DEF ElectionInMain, MainStop
  <2>4. main.at # "commit" /\ UNCHANGED <<smState, ml>>
    BY <1>1 DEF MainStop
  <2> QED BY <2>1, <2>3, <2>4, StillMoves
<1>2. CASE MainSet
  <2>1. main'.at = "start" /\ sState' = main.to /\ main.at = "set"
    BY <1>2 DEF MainSet, Receiving
  <2>2. ElectionInMain => ElectionInMain'
    BY <2>1 DEF ElectionInMain
  <2>3. UNCHANGED <<smState, ml, go>>
    BY <1>2 DEF MainSet
  <2> QED BY <2>1, <2>2, <2>3, StillMoves
<1>3. CASE MainStart
  <2>1. /\ main'.at = IF sState = "ELECTION" THEN "elect" ELSE "receive"
        /\ main.at = "start" /\ UNCHANGED <<smState, sState, ml>>
    BY <1>3 DEF MainStart, Receiving
  <2>2. ElectionInMain => ElectionInMain'
    BY <2>1 DEF ElectionInMain
  <2>3. CASE go' = go
    BY <2>1, <2>2, <2>3, StillMoves
  <2>4. ASSUME NEW role \in {"LEADER", "FOLLOWER"}, NEW l \in Peer \cup {Self, NoLeader},
               Listen(role, l)
        PROVE  Moving'
    <3>1. PICK i \in Slot, g \in Goroutine :
            Fits(g) /\ go' = [go EXCEPT ![i] = g] /\ g.at = "select" /\ go[i] = Free
      BY <1>0, <2>4, ListenGoes
    <3>2. \A j \in Slot : go'[j] = IF j = i THEN g ELSE go[j]
      BY <1>0, <3>1, OneGoes
    <3>3. go[i].at = "free"
      BY <3>1 DEF Free
    <3> HIDE DEF ElectionInMain
    <3>4. CASE smState \in {"LEADER", "FOLLOWER"}
      BY <2>1, <3>4 DEF Moving
    <3>5. CASE Assigning # {}
      <4>1. (\E j \in Slot : go'[j].at = "commit") \/ ml'.at = "commit"
        BY <2>1, <3>2, <3>3, <3>5, AssigningMoves
      <4> QED BY <4>1 DEF Moving, Onward, Assigning
    <3>6. ASSUME NEW j \in Slot, Carries(j, smState) PROVE Moving'
      <4>1. j # i
        BY <3>3, <3>6 DEF Carries
      <4> QED BY <2>1, <3>2, <3>6, <4>1 DEF Moving, Onward, Carries
    <3>7. CASE smState = "ELECTION" /\ ElectionInMain
      BY <2>1, <2>2, <3>7 DEF Moving, Onward
    <3> QED BY <3>4, <3>5, <3>6, <3>7 DEF Moving, Onward
  <2>5. leaderID \in Peer \cup {Self, NoLeader}
    BY DEF Typed, PlainTyped
  <2> QED BY <1>3, <2>3, <2>4, <2>5 DEF MainStart
<1>4. CASE MainElect
  <2>1. main.at = "elect" /\ UNCHANGED <<smState, ml, go>>
    BY <1>4 DEF MainElect
  <2>2. ASSUME smState = "ELECTION" PROVE Onward'
    <3>1. CASE main'.at = "commit"
      BY <3>1 DEF Onward, Assigning
    <3>2. ASSUME NEW s \in {"ELECTION", "BECOME_LEADER"}, LookupFails(s) PROVE Onward'
      <4>1. <<smState, s>> \in Transition
        BY <2>2, <3>2 DEF Transition
      <4>2. (\E j \in Slot : go[j].at = "commit") \/ ml.at = "commit"
        BY <2>1, <3>2, <4>1, Torn
      <4> QED BY <2>1, <4>2 DEF Onward, Assigning
    <3> QED BY <1>4, <3>1, <3>2 DEF MainElect
  <2> QED BY <2>1, <2>2, StillMoves
<1>5. CASE MainCommit
  <2>1. <<main.from, main.to>> \in Transition /\ main.from # "START" /\ Go(main.from, main.to)
    BY <1>5 DEF MainCommit, Typed, PlainTyped
  <2>2. smState' = main.to
    BY <1>5 DEF MainCommit
  <2> QED BY <1>0, <2>1, <2>2, GoOne, AssignedMoves
<1> QED BY <1>1, <1>2, <1>3, <1>4, <1>5 DEF MainStep

\* Every step keeps somebody who moves the server on to LEADER or FOLLOWER.
LEMMA MovingStep == Typed /\ Started /\ Moving /\ [Next]_vars => Moving'
<1> SUFFICES ASSUME Typed, Started, Moving, [Next]_vars PROVE Moving'
  OBVIOUS
<1>0. GoTyped
  BY DEF Typed
<1>1. ASSUME NEW i \in Slot, ListenerStep(i) PROVE Moving'
  <2>1. ElectionInMain => ElectionInMain'
    BY <1>1, ListenerOne DEF ElectionInMain
  <2>2. ~ Carries(i, smState)
    BY <1>1, ListenerOne DEF Carries
  <2> HIDE DEF ElectionInMain
  <2> QED BY <1>0, <1>1, <2>1, <2>2, ListenerOne, OthersMove
<1>2. CASE FollowWinner \/ (\E p \in Peer : VictoryOf(p)) \/ UNCHANGED vars
  <2>1. UNCHANGED <<smState, sState, main, go>> /\ (ml.at = "commit" => ml'.at = "commit")
    BY <1>2 DEF FollowWinner, VictoryOf, vars
  <2>2. ElectionInMain => ElectionInMain'
    BY <2>1 DEF ElectionInMain
  <2> QED BY <2>1, <2>2, StillMoves
<1>3. CASE VictoryCommit
  <2>1. smState' = "FOLLOWER"
    BY <1>3 DEF VictoryCommit
  <2> QED BY <2>1 DEF Moving
<1> QED BY <1>1, <1>2, <1>3, MovingMain, MovingTransition DEF Next

\* The state machine comes to rest nowhere but in LEADER or FOLLOWER, whatever
\* ChangeTo refuses and however torn the states are that it reads.
THEOREM SettledCorrect == Spec => []Settled
<1>1. Init => Started /\ Moving
  <2> SUFFICES ASSUME Init PROVE Started /\ Moving
    OBVIOUS
  <2>1. PICK k \in Slot :
          go = [j \in Slot |-> IF j = k THEN Running("send", "START", "INIT") ELSE Free]
    BY DEF Init
  <2>2. /\ Running("send", "START", "INIT").at = "send"
        /\ Running("send", "START", "INIT").to = "INIT"
        /\ Free.at # "send"
    BY DEF Running, Free
  <2>3. Starters \subseteq {k} /\ ml.at = "off"
    BY <2>1, <2>2 DEF Starters, Init
  <2>4. Carries(k, "INIT") /\ smState = "INIT"
    BY <2>1, <2>2 DEF Carries, Init
  <2> QED BY <2>3, <2>4 DEF Started, Moving, Onward
<1>2. Moving => Settled
  <2> SUFFICES ASSUME Moving, AtRest PROVE smState \in {"LEADER", "FOLLOWER"}
    BY DEF Settled
  <2>1. \A i \in Slot : go[i].at \in {"free", "select"}
    BY DEF AtRest, InCharge, Free
  <2>2. main.at = "receive" /\ ml.at = "idle"
    BY DEF AtRest
  <2>3. Assigning = {}
    BY <2>1, <2>2 DEF Assigning
  <2>4. ~ \E i \in Slot : Carries(i, smState)
    BY <2>1 DEF Carries
  <2>5. ~ ElectionInMain
    BY <2>2 DEF ElectionInMain
  <2> QED BY <2>3, <2>4, <2>5 DEF Moving, Onward
<1> QED BY <1>1, <1>2, TypedInit, TypedStep, StartedStep, MovingStep, PTL DEF Spec
=============================================================================
