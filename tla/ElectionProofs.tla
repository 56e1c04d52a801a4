--------------------------- MODULE ElectionProofs ---------------------------
(***************************************************************************)
(* A theorem about Election for any servers, misjudgements and crashes.    *)
(***************************************************************************)
EXTENDS Election, TLAPS

\* A server that becomes a role with nobody in mind is typed.
LEMMA BecomeAlone ==
  ASSUME TypeOK, NEW s \in Server, NEW r \in {"OFF", "INIT", "BECOME_LEADER", "LEADER"},
         Become(s, r, None), UNCHANGED victories,
         glitches' \in 0..MaxGlitches, crashes' \subseteq Server
  PROVE  TypeOK'
BY DEF TypeOK, Become

\* So is one that has another server in mind.
LEMMA BecomeOf ==
  ASSUME TypeOK, NEW s \in Server, NEW t \in Server \ {s},
         NEW r \in {"BECOME_FOLLOWER", "JOINED", "FOLLOWER", "ELECTION"},
         Become(s, r, t), victories' \subseteq victories,
         glitches' \in 0..MaxGlitches, crashes' \subseteq Server
  PROVE  TypeOK'
BY DEF TypeOK, Become

\* Misjudgements stay within their bound.
LEMMA SeemsBounded ==
  ASSUME TypeOK, NEW fact, Seems(fact)
  PROVE  glitches' \in 0..MaxGlitches
BY BoundAssumption DEF TypeOK, Seems

\* Every step of a server keeps the types.
LEMMA TypeStep == ASSUME TypeOK, NEW s \in Server, Step(s) PROVE TypeOK'
<1>1. /\ crashes \subseteq Server /\ glitches \in 0..MaxGlitches
      /\ role[s] \in {"BECOME_FOLLOWER", "JOINED", "FOLLOWER"} => leader[s] \in Server \ {s}
  BY DEF TypeOK
<1>2. CASE Hear(s)
  <2>1. PICK t \in Server \ {s} : Seems(t \in Leaders) /\ Become(s, "BECOME_FOLLOWER", t)
    BY <1>2 DEF Hear
  <2>2. victories' = victories /\ crashes' = crashes
    BY <1>2 DEF Hear
  <2>3. glitches' \in 0..MaxGlitches
    BY <2>1, SeemsBounded
  <2> QED BY <1>1, <2>1, <2>2, <2>3, BecomeOf
<1>3. CASE HearNobody(s)
  <2>1. glitches' \in 0..MaxGlitches
    BY <1>3, SeemsBounded DEF HearNobody
  <2> QED BY <1>1, <1>3, <2>1, BecomeAlone DEF HearNobody
<1>4. CASE JoinFails(s)
  <2>1. glitches' \in 0..MaxGlitches
    BY <1>4, SeemsBounded DEF JoinFails
  <2> QED BY <1>1, <1>4, <2>1, BecomeAlone DEF JoinFails
<1>5. CASE Join(s)
  BY <1>1, <1>5, BecomeOf DEF Join
<1>6. CASE Follow(s)
  BY <1>1, <1>6, BecomeOf DEF Follow
<1>7. CASE LeaderSilent(s)
  <2>1. glitches' \in 0..MaxGlitches
    BY <1>7, SeemsBounded DEF LeaderSilent
  <2> QED BY <1>1, <1>7, <2>1, BecomeOf DEF LeaderSilent
<1>8. CASE ElectionWon(s)
  BY <1>1, <1>8, BecomeAlone DEF ElectionWon
<1>9. CASE Victory(s)
  <2>1. PICK S \in SUBSET Reaches(s) :
          victories' = victories \cup {[from |-> s, to |-> t] : t \in S}
    BY <1>9 DEF Victory
  <2>2. S \subseteq Server \ {s}
    BY DEF Reaches, Live
  <2>3. \A t \in S : [from |-> s, to |-> t] \in {v \in [from : Server, to : Server] : v.from # v.to}
    BY <2>2
  <2>4. victories' \subseteq {v \in [from : Server, to : Server] : v.from # v.to}
    BY <2>1, <2>3 DEF TypeOK
  <2> QED BY <1>9, <2>4 DEF Victory, Become, TypeOK
<1>10. CASE Yield(s)
  <2>1. PICK t \in Server \ {s} : Seems(t \in Leaders) /\ Become(s, "BECOME_FOLLOWER", t)
    BY <1>10 DEF Yield
  <2>2. victories' = victories /\ crashes' = crashes
    BY <1>10 DEF Yield
  <2>3. glitches' \in 0..MaxGlitches
    BY <2>1, SeemsBounded
  <2> QED BY <1>1, <2>1, <2>2, <2>3, BecomeOf
<1> QED
  BY <1>2, <1>3, <1>4, <1>5, <1>6, <1>7, <1>8, <1>9, <1>10 DEF Step

\* A victory that is handed up makes its receiver follow another server.
LEMMA TypeHandUp == ASSUME TypeOK, NEW v \in victories, HandUp(v) PROVE TypeOK'
<1>1. /\ v.to \in Server /\ v.from \in Server \ {v.to}
      /\ crashes' \subseteq Server /\ glitches' \in 0..MaxGlitches
      /\ victories' \subseteq victories
  BY DEF TypeOK, HandUp
<1>2. CASE role[v.to] \in {"FOLLOWER", "ELECTION"}
  <2>1. Become(v.to, "FOLLOWER", v.from)
    BY <1>2 DEF HandUp
  <2> QED BY <1>1, <2>1, BecomeOf
<1>3. CASE role[v.to] = "JOINED"
  <2>1. Become(v.to, "JOINED", v.from)
    BY <1>3 DEF HandUp
  <2> QED BY <1>1, <2>1, BecomeOf
<1>4. CASE role[v.to] \notin {"FOLLOWER", "ELECTION", "JOINED"}
  <2>1. UNCHANGED <<role, leader>>
    BY <1>4 DEF HandUp
  <2> QED BY <1>1, <2>1 DEF TypeOK
<1> QED BY <1>2, <1>3, <1>4

(* Every variable keeps its type, and no server comes to follow, or to     *)
(* join, itself or nobody: not by a broadcast, a victory that arrives late *)
(* or a wrong judgement about the leader (state_listener.go, multicast.go).*)
THEOREM TypeCorrect == Spec => []TypeOK
<1>1. Init => TypeOK
  BY BoundAssumption DEF Init, TypeOK
<1>2. TypeOK /\ [Next]_vars => TypeOK'
  <2> SUFFICES ASSUME TypeOK, [Next]_vars PROVE TypeOK'
    OBVIOUS
  <2>1. ASSUME NEW s \in Server, Start(s) PROVE TypeOK'
    BY <2>1, BecomeAlone DEF Start, TypeOK
  <2>2. ASSUME NEW s \in Server, Crash(s) PROVE TypeOK'
    BY <2>2, BecomeAlone DEF Crash, TypeOK
  <2>3. CASE UNCHANGED vars
    BY <2>3 DEF TypeOK, vars
  <2> QED BY <2>1, <2>2, <2>3, TypeStep, TypeHandUp DEF Next, HandUpSome
<1> QED BY <1>1, <1>2, PTL DEF Spec
=============================================================================
