--------------------------- MODULE HeartbeatsProofs ---------------------------
(***************************************************************************)
(* Theorems about Heartbeats for any servers and any number of joins and   *)
(* faults.                                                                 *)
(***************************************************************************)
EXTENDS Heartbeats, FiniteSetTheorems, TLAPS

Typed == TypeOK /\ silent \in [Server -> 0..Never]

\* A server that never entered is nowhere.
Entered ==
  \A s \in Follower :
    entries[s] = 0 => s \notin peers \cup joining \cup following \cup heard /\ age[s] = None

\* The note of a peer that entered once is old only after a silence.
Fresh ==
  \A s \in peers \ {Leader} : entries[s] <= 1 /\ age[s] \in 2..Old => silent[s] >= 1

\* The servers without a note: each of them may end one look.
Unnoted == {s \in Follower : age[s] = None}

\* A running call of handleDeadServer is about s.
Found(s) == \E d \in deaths : d.s = s

\* A look that notes nobody ages the note of a silent peer; one that notes
\* somebody leaves fewer without a note.
Waited ==
  \A s \in peers \ {Leader} : ~ Found(s) =>
    /\ warmUp > 0 => silent[s] <= 3 - warmUp
    /\ warmUp = 0 => silent[s] + Cardinality(Unnoted) <=
                       Cardinality(Server) + 2 + (IF age[s] \in 2..Old THEN 1 ELSE 0)

-----------------------------------------------------------------------------
\* The number of servers is a number.
LEMMA ServersCount == Cardinality(Server) \in Nat /\ Never \in Nat /\ Never >= 4
BY LeaderAssumption, FS_CardinalityType DEF Never

\* What a note is when the interval ends.
LEMMA AgedIs ==
  ASSUME Typed, NEW s \in Server
  PROVE  /\ Aged[s] \in 0..Old \cup {None}
         /\ Aged[s] = None <=> s \notin heard /\ age[s] = None
         /\ s \in heard => Aged[s] = 1
         /\ s \notin heard /\ age[s] # None => /\ Aged[s] \in 2..Old
                                               /\ Late(Aged[s]) <=> age[s] \in 2..Old
<1>1. age[s] \in 0..4 \cup {None}
  BY DEF Typed, TypeOK, Old
<1>2. Aged[s] = IF s \in heard THEN 1
                ELSE IF age[s] = None THEN None ELSE Capped(age[s] + 2, 4)
  BY DEF Aged, Old
<1> HIDE DEF Aged, Typed
<1>3. CASE s \in heard
  BY <1>2, <1>3, NoneAssumption DEF Old
<1>4. CASE s \notin heard /\ age[s] = None
  BY <1>2, <1>4
<1>5. CASE s \notin heard /\ age[s] # None
  <2>1. age[s] \in 0..4
    BY <1>1, <1>5
  <2>2. Aged[s] = IF age[s] + 2 < 4 THEN age[s] + 2 ELSE 4
    BY <1>2, <1>5 DEF Capped
  <2>3. Aged[s] \in 2..4 /\ (Aged[s] >= 4 <=> age[s] \in 2..4)
    BY <2>1, <2>2
  <2> QED BY <1>5, <2>3, NoneAssumption DEF Old, Late
<1> QED BY <1>3, <1>4, <1>5

\* What a silence is when the interval ends.
LEMMA SilenceIs ==
  ASSUME Typed, NEW s \in Server
  PROVE  /\ Silence[s] \in 0..Never
         /\ Silence[s] <= silent[s] + 1
         /\ s \in heard => Silence[s] = 0
         /\ s \in peers \ {Leader} /\ s \notin heard =>
              Silence[s] >= 1 /\ (silent[s] >= 1 => Silence[s] >= 2)
<1>1. silent[s] \in 0..Never
  BY DEF Typed
<1>2. Silence[s] = IF s \in heard \/ s \notin peers \ {Leader} THEN 0
                   ELSE Capped(silent[s] + 1, Never)
  BY DEF Silence
<1> HIDE DEF Silence, Typed, Never
<1> QED BY <1>1, <1>2, ServersCount DEF Capped

\* The types of what an interval changes, and what it leaves alone.
LEMMA IntervalTyped ==
  ASSUME Typed, IntervalEnds
  PROVE  /\ silent' \in [Server -> 0..Never]
         /\ \A s \in Server : silent'[s] = Silence[s]
         /\ heard' \subseteq following /\ faults' \in 0..MaxFaults
         /\ UNCHANGED <<peers, joining, following, crashed, entries>>
<1>1. \A s \in Server : Silence[s] \in 0..Never
  BY SilenceIs
<1>2. DOMAIN Silence = Server /\ Silence = [s \in Server |-> Silence[s]]
  BY DEF Silence
<1>3. silent' = Silence
  BY DEF IntervalEnds
<1>4. silent' \in [Server -> 0..Never] /\ \A s \in Server : silent'[s] = Silence[s]
  <2> HIDE DEF Silence, Never
  <2> QED BY <1>1, <1>2, <1>3
<1>5. faults' \in 0..MaxFaults
  <2>1. faults \in 0..MaxFaults /\ MaxFaults \in Nat
    BY BoundAssumption DEF Typed, TypeOK
  <2> QED BY <2>1 DEF IntervalEnds
<1>6. heard' \subseteq following
  BY DEF IntervalEnds
<1> QED BY <1>4, <1>5, <1>6 DEF IntervalEnds

\* The notes after an interval: those that have aged, but for one that is new.
LEMMA NotesTyped ==
  ASSUME Typed, NEW note \in {Aged} \cup {Note(s) : s \in Follower}
  PROVE  note \in [Server -> 0..Old \cup {None}] /\ note[Leader] = None
<1>1. \A s \in Server : Aged[s] \in 0..Old \cup {None}
  BY AgedIs
<1>2. Leader \in Server /\ Leader \notin heard /\ age[Leader] = None
  BY LeaderAssumption DEF Typed, TypeOK, Follower
<1>3. Aged[Leader] = None
  BY <1>2, AgedIs
<1>4. Aged = [s \in Server |-> Aged[s]]
  BY DEF Aged
<1> HIDE DEF Aged, Typed
<1>5. Aged \in [Server -> 0..Old \cup {None}]
  BY <1>1, <1>4
<1>6. ASSUME NEW s \in Follower, note = Note(s)
      PROVE  note \in [Server -> 0..Old \cup {None}] /\ note[Leader] = None
  BY <1>2, <1>3, <1>5, <1>6 DEF Note, Follower, Old
<1> QED BY <1>3, <1>5, <1>6

\* A look either finds that every peer has a note, and declares those dead
\* whose note is too old, or notes one peer that has none.
LEMMA LookIs ==
  ASSUME Typed, Look
  PROVE  \/ /\ age' = Aged
            /\ \A s \in peers \ {Leader} : Aged[s] # None
            /\ DeclareDead(peers \ {Leader})
         \/ \E s \in peers \ {Leader}, before \in SUBSET (peers \ {Leader}) :
              /\ Aged[s] = None /\ age' = Note(s)
              /\ \A t \in before : Aged[t] # None
              /\ DeclareDead(before)
<1> HIDE DEF Aged, DeclareDead
<1> QED BY DEF Look, LookedAt

\* The initial state is well typed.
LEMMA TypedInit == Init => Typed
<1> SUFFICES ASSUME Init PROVE Typed
  OBVIOUS
<1>1. /\ Leader \in peers /\ peers \subseteq Server /\ Leader \in Server
      /\ following = peers \ {Leader} /\ joining = {} /\ heard = following
  BY LeaderAssumption DEF Init
<1>2. age \in [Server -> 0..Old \cup {None}] /\ age[Leader] = None
  BY <1>1 DEF Init, Old
<1>3. entries \in [Server -> 0..MaxEntries]
  BY BoundAssumption DEF Init
<1>4. silent \in [Server -> 0..Never]
  BY ServersCount DEF Init
<1>5. warmUp \in 0..3 /\ faults \in 0..MaxFaults /\ deaths = {} /\ crashed = {}
  BY BoundAssumption DEF Init
<1> QED BY <1>1, <1>2, <1>3, <1>4, <1>5 DEF Typed, TypeOK, Follower

\* The steps of the other servers keep the types.
LEMMA TypedServer ==
  ASSUME Typed, NEW s \in Follower, Enter(s) \/ Follow(s) \/ Leave(s) \/ Crash(s)
  PROVE  Typed'
<1>1. CASE Enter(s)
  <2>1. entries' \in [Server -> 0..MaxEntries]
    <3>1. entries \in [Server -> 0..MaxEntries] /\ MaxEntries \in Nat /\ s \in Server
      BY BoundAssumption DEF Typed, TypeOK, Follower
    <3>2. entries' = [entries EXCEPT ![s] = entries[s] + 1] /\ entries[s] < MaxEntries
      BY <1>1 DEF Enter
    <3> HIDE DEF Typed
    <3>3. entries[s] + 1 \in 0..MaxEntries
      BY <3>1, <3>2
    <3> QED BY <3>1, <3>2, <3>3
  <2>2. silent' \in [Server -> 0..Never]
    <3>1. silent \in [Server -> 0..Never] /\ 0 \in 0..Never
      BY ServersCount DEF Typed
    <3> HIDE DEF Typed, Never
    <3> QED BY <1>1, <3>1 DEF Enter
  <2>3. peers' \subseteq Server /\ Leader \in peers' /\ joining' \cup following' \subseteq Follower
    BY <1>1 DEF Enter, Typed, TypeOK, Follower
  <2>4. UNCHANGED <<age, following, heard, warmUp, deaths, crashed, faults>>
    BY <1>1 DEF Enter
  <2> QED BY <2>1, <2>2, <2>3, <2>4 DEF Typed, TypeOK
<1>2. CASE Follow(s) \/ Leave(s) \/ Crash(s)
  <2>1. /\ joining' \cup following' \subseteq Follower /\ heard' \subseteq Follower
        /\ crashed' \subseteq Follower
    BY <1>2 DEF Follow, Leave, Crash, Stop, Typed, TypeOK
  <2>2. UNCHANGED <<peers, age, warmUp, deaths, faults, silent, entries>>
    BY <1>2 DEF Follow, Leave, Crash
  <2> QED BY <2>1, <2>2 DEF Typed, TypeOK
<1> QED BY <1>1, <1>2

\* Who is declared dead is a follower.
LEMMA DeclareTyped ==
  ASSUME Typed, NEW S \in SUBSET (peers \ {Leader}), DeclareDead(S)
  PROVE  deaths' \subseteq [s : Follower, silent : 0..2]
<1>1. ASSUME NEW s \in S
      PROVE  [s |-> s, silent |-> Capped(Silence[s], 2)] \in [s : Follower, silent : 0..2]
  <2>1. s \in Server /\ s \in Follower
    BY DEF Typed, TypeOK, Follower
  <2>2. Silence[s] \in 0..Never
    BY <2>1, SilenceIs
  <2> HIDE DEF Silence, Typed
  <2>3. Capped(Silence[s], 2) \in 0..2
    BY <2>2, ServersCount DEF Capped
  <2> QED BY <2>1, <2>3
<1>2. deaths \subseteq [s : Follower, silent : 0..2]
  BY DEF Typed, TypeOK
<1> HIDE DEF Typed
<1>3. \A d \in deaths' : d \in deaths \/ \E s \in S : d = [s |-> s, silent |-> Capped(Silence[s], 2)]
  BY DEF DeclareDead
<1> QED BY <1>1, <1>2, <1>3

\* Every step keeps the types.
LEMMA TypedStep == Typed /\ [Next]_vars => Typed'
<1> SUFFICES ASSUME Typed, [Next]_vars PROVE Typed'
  OBVIOUS
<1>1. ASSUME IntervalEnds, warmUp' \in 0..3, age' \in {Aged} \cup {Note(s) : s \in Follower},
             deaths' \subseteq [s : Follower, silent : 0..2]
      PROVE  Typed'
  <2>1. age' \in [Server -> 0..Old \cup {None}] /\ age'[Leader] = None
    BY <1>1, NotesTyped
  <2>2. /\ silent' \in [Server -> 0..Never]
        /\ heard' \subseteq following /\ faults' \in 0..MaxFaults
        /\ UNCHANGED <<peers, joining, following, crashed, entries>>
    BY <1>1, IntervalTyped
  <2> HIDE DEF Aged, Note
  <2> QED BY <1>1, <2>1, <2>2 DEF Typed, TypeOK
<1>2. CASE WarmUp
  <2>1. warmUp \in 0..3 /\ deaths \subseteq [s : Follower, silent : 0..2]
    BY DEF Typed, TypeOK
  <2>2. warmUp' \in 0..3
    BY <1>2, <2>1 DEF WarmUp
  <2> QED BY <1>1, <1>2, <2>1, <2>2 DEF WarmUp
<1>3. CASE Look
  <2>1. IntervalEnds /\ warmUp' \in 0..3
    BY <1>3 DEF Look
  <2>2. peers \ {Leader} \subseteq Follower
    BY DEF Typed, TypeOK, Follower
  <2> HIDE DEF Typed
  <2>3. CASE age' = Aged /\ DeclareDead(peers \ {Leader})
    BY <1>1, <2>1, <2>3, DeclareTyped
  <2>4. ASSUME NEW s \in peers \ {Leader}, NEW before \in SUBSET (peers \ {Leader}),
               age' = Note(s), DeclareDead(before)
        PROVE  Typed'
    BY <1>1, <2>1, <2>2, <2>4, DeclareTyped
  <2> QED BY <1>3, <2>3, <2>4, LookIs
<1>4. ASSUME NEW d \in deaths, HandleDeadServer(d) PROVE Typed'
  <2>1. d.s # Leader
    BY DEF Typed, TypeOK, Follower
  <2> QED BY <1>4, <2>1 DEF HandleDeadServer, Typed, TypeOK
<1>5. CASE UNCHANGED vars
  BY <1>5 DEF vars, Typed, TypeOK
<1> QED BY <1>1, <1>2, <1>3, <1>4, <1>5, TypedServer DEF Next

\* The variables have their types; the leader stays its own peer, is never
\* noted, and is never declared dead.
THEOREM TypeCorrect == Spec => []TypeOK
<1>1. Typed => TypeOK
  BY DEF Typed
<1> QED BY <1>1, TypedInit, TypedStep, PTL DEF Spec

-----------------------------------------------------------------------------
\* A server that never entered stays nowhere until it enters.
LEMMA EnteredStep == Typed /\ Entered /\ [Next]_vars => Entered'
<1> SUFFICES ASSUME Typed, Entered, [Next]_vars, NEW s \in Follower, entries'[s] = 0
             PROVE  /\ s \notin peers' \cup joining' \cup following' \cup heard'
                    /\ age'[s] = None
  BY DEF Entered
<1>0. /\ entries \in [Server -> 0..MaxEntries] /\ s \in Server /\ s # Leader
      /\ joining \cup following \subseteq Follower
  BY DEF Typed, TypeOK, Follower
<1>i. ASSUME entries[s] = 0
      PROVE  s \notin peers \cup joining \cup following \cup heard /\ age[s] = None
  BY <1>i DEF Entered
<1>1. ASSUME IntervalEnds, age'[s] = Aged[s] \/ s \in peers
      PROVE  /\ s \notin peers' \cup joining' \cup following' \cup heard'
             /\ age'[s] = None
  <2>1. heard' \subseteq following /\ UNCHANGED <<peers, joining, following, entries>>
    BY <1>1, IntervalTyped
  <2>2. Aged[s] = None <=> s \notin heard /\ age[s] = None
    BY <1>0, AgedIs
  <2> HIDE DEF Aged, Typed
  <2> QED BY <1>1, <1>i, <2>1, <2>2
<1>2. CASE WarmUp
  BY <1>1, <1>2 DEF WarmUp
<1>3. CASE Look
  <2>1. IntervalEnds
    BY <1>3 DEF Look
  <2>2. CASE age' = Aged
    BY <1>1, <2>1, <2>2
  <2>3. ASSUME NEW t \in peers, age' = Note(t), s # t
        PROVE  age'[s] = Aged[s]
    BY <1>0, <2>3 DEF Note, Aged
  <2> HIDE DEF Aged
  <2> QED BY <1>1, <1>3, <2>1, <2>2, <2>3, LookIs
<1>4. ASSUME NEW t \in Follower, Enter(t)
      PROVE  /\ s \notin peers' \cup joining' \cup following' \cup heard'
             /\ age'[s] = None
  <2>1. entries' = [entries EXCEPT ![t] = entries[t] + 1] /\ t \in Server
    BY <1>4 DEF Enter, Follower
  <2>2. t # s
    <3>1. entries'[t] = entries[t] + 1 /\ entries[t] \in Nat
      BY <1>0, <2>1, BoundAssumption
    <3> QED BY <3>1
  <2>3. entries[s] = 0
    BY <1>0, <2>1, <2>2
  <2> HIDE DEF Typed
  <2> QED BY <1>4, <1>i, <2>2, <2>3 DEF Enter
<1>5. ASSUME NEW t \in Follower, Follow(t) \/ Leave(t) \/ Crash(t)
      PROVE  /\ s \notin peers' \cup joining' \cup following' \cup heard'
             /\ age'[s] = None
  <2>1. UNCHANGED <<peers, age, entries>>
    BY <1>5 DEF Follow, Leave, Crash
  <2>2. joining' \subseteq joining /\ heard' \subseteq heard \cup joining
        /\ following' \subseteq following \cup joining
    BY <1>5 DEF Follow, Leave, Crash, Stop
  <2> HIDE DEF Typed
  <2> QED BY <1>i, <2>1, <2>2
<1>6. ASSUME NEW d \in deaths, HandleDeadServer(d)
      PROVE  /\ s \notin peers' \cup joining' \cup following' \cup heard'
             /\ age'[s] = None
  BY <1>i, <1>6 DEF HandleDeadServer
<1>7. CASE UNCHANGED vars
  BY <1>i, <1>7 DEF vars
<1> QED BY <1>2, <1>3, <1>4, <1>5, <1>6, <1>7 DEF Next

\* After an interval the note of a peer is old only if it was not heard in it.
LEMMA FreshInterval ==
  ASSUME Typed, Fresh, IntervalEnds, NEW s \in peers' \ {Leader}, entries'[s] <= 1,
         age'[s] \in {0, Aged[s]}, age'[s] \in 2..Old
  PROVE  silent'[s] >= 1
<1>1. /\ silent'[s] = Silence[s] /\ s \in Server /\ s \in peers \ {Leader}
  BY IntervalTyped DEF Typed, TypeOK
<1>2. age'[s] = Aged[s]
  BY DEF Old
<1>3. s \notin heard
  <2>1. s \in heard => Aged[s] = 1
    BY <1>1, AgedIs
  <2> HIDE DEF Aged, Typed
  <2> QED BY <1>2, <2>1 DEF Old
<1> QED BY <1>1, <1>3, SilenceIs

\* A server that enters for the first time has no note; the others are not
\* touched.
LEMMA FreshStep == Typed /\ Entered /\ Fresh /\ [Next]_vars => Fresh'
<1> SUFFICES ASSUME Typed, Entered, Fresh, [Next]_vars,
                    NEW s \in peers' \ {Leader}, entries'[s] <= 1, age'[s] \in 2..Old
             PROVE  silent'[s] >= 1
  BY DEF Fresh
<1>0. /\ entries \in [Server -> 0..MaxEntries] /\ silent \in [Server -> 0..Never]
      /\ Follower \subseteq Server
  BY DEF Typed, TypeOK, Follower
<1>1. CASE WarmUp
  <2>1. IntervalEnds /\ age' = Aged
    BY <1>1 DEF WarmUp
  <2> HIDE DEF Aged, Typed, Fresh
  <2> QED BY <2>1, FreshInterval
<1>2. CASE Look
  <2>1. IntervalEnds
    BY <1>2 DEF Look
  <2>2. s \in Server
    BY <2>1, IntervalTyped DEF Typed, TypeOK
  <2>3. ASSUME NEW t, age' = Note(t) PROVE age'[s] \in {0, Aged[s]}
    BY <2>2, <2>3 DEF Note, Aged
  <2> HIDE DEF Aged, Typed, Fresh
  <2> QED BY <1>2, <2>1, <2>3, LookIs, FreshInterval
<1>3. ASSUME NEW t \in Follower, Enter(t) PROVE silent'[s] >= 1
  <2>1. /\ entries' = [entries EXCEPT ![t] = entries[t] + 1] /\ t \in Server
        /\ silent' = [silent EXCEPT ![t] = 0]
        /\ peers' = peers \cup {t} /\ age' = age
    BY <1>0, <1>3 DEF Enter
  <2>2. s # t
    <3>1. SUFFICES ASSUME s = t PROVE FALSE
      OBVIOUS
    <3>2. entries'[t] = entries[t] + 1 /\ entries[t] \in Nat
      BY <1>0, <2>1, BoundAssumption
    <3>3. entries[t] = 0
      BY <3>1, <3>2
    <3>4. age[t] = None
      BY <3>3 DEF Entered
    <3> QED BY <2>1, <3>1, <3>4, NoneAssumption DEF Old
  <2>3. s \in peers \ {Leader} /\ s \in Server
    BY <2>1, <2>2 DEF Typed, TypeOK
  <2>4. entries'[s] = entries[s] /\ silent'[s] = silent[s]
    BY <1>0, <2>1, <2>2, <2>3
  <2> QED BY <2>1, <2>3, <2>4 DEF Fresh
<1>4. CASE UNCHANGED <<age, silent, entries>> /\ peers' \subseteq peers
  BY <1>4 DEF Fresh
<1> QED BY <1>1, <1>2, <1>3, <1>4
        DEF Next, Follow, Leave, Crash, HandleDeadServer, vars

\* Whom a look declares dead was not heard for two intervals, if it entered
\* once.
LEMMA DeclaredLate ==
  ASSUME Typed, Fresh, NoEarlyDeath, NEW S \in SUBSET (peers \ {Leader}),
         \A t \in S : Aged[t] # None, DeclareDead(S), UNCHANGED entries
  PROVE  NoEarlyDeath'
<1> SUFFICES ASSUME NEW d \in deaths', d \notin deaths
             PROVE  d.silent >= 2 \/ entries[d.s] > 1
  BY DEF NoEarlyDeath
<1>1. PICK s \in S : Late(Aged[s]) /\ d = [s |-> s, silent |-> Capped(Silence[s], 2)]
  <2> HIDE DEF Aged, Silence, Capped, Typed, Late
  <2> QED BY DEF DeclareDead
<1>2. d.s = s /\ d.silent = Capped(Silence[s], 2)
  <2> HIDE DEF Silence, Capped
  <2> QED BY <1>1
<1>3. s \in Server /\ s \in peers \ {Leader} /\ entries[s] \in Nat
  BY BoundAssumption DEF Typed, TypeOK
<1>4. Aged[s] # None /\ silent[s] \in Nat
  BY <1>3, ServersCount DEF Typed
<1>5. s \notin heard /\ age[s] # None
  <2>1. Aged[s] = None <=> s \notin heard /\ age[s] = None
    BY <1>3, AgedIs
  <2>2. s \in heard => Aged[s] = 1
    BY <1>3, AgedIs
  <2> HIDE DEF Aged, Typed
  <2>3. s \notin heard
    BY <1>1, <2>2 DEF Late, Old
  <2> QED BY <1>4, <2>1, <2>3
<1>6. age[s] \in 2..Old
  <2>1. Late(Aged[s]) <=> age[s] \in 2..Old
    BY <1>3, <1>5, AgedIs
  <2> QED BY <1>1, <2>1
<1>7. ASSUME entries[s] <= 1 PROVE d.silent >= 2
  <2>1. silent[s] >= 1
    BY <1>3, <1>6, <1>7 DEF Fresh
  <2>2. Silence[s] >= 2 /\ Silence[s] \in 0..Never
    BY <1>3, <1>5, <2>1, SilenceIs
  <2> HIDE DEF Silence, Typed
  <2> QED BY <1>2, <2>2, ServersCount DEF Capped
<1> QED BY <1>2, <1>3, <1>7

\* Every step keeps that nobody new is declared dead too early.
LEMMA NoEarlyDeathStep ==
  Typed /\ Fresh /\ NoEarlyDeath /\ [Next]_vars => NoEarlyDeath'
<1> SUFFICES ASSUME Typed, Fresh, NoEarlyDeath, [Next]_vars PROVE NoEarlyDeath'
  OBVIOUS
<1>1. CASE Look
  <2>1. UNCHANGED entries
    BY <1>1 DEF Look, IntervalEnds
  <2> HIDE DEF Aged, DeclareDead, Typed, Fresh, NoEarlyDeath
  <2> QED BY <1>1, <2>1, LookIs, DeclaredLate
<1>2. ASSUME NEW t \in Follower, Enter(t) PROVE NoEarlyDeath'
  <2> SUFFICES ASSUME NEW d \in deaths' PROVE d.silent >= 2 \/ entries'[d.s] > 1
    BY DEF NoEarlyDeath
  <2>1. d \in deaths /\ entries' = [entries EXCEPT ![t] = entries[t] + 1]
    BY <1>2 DEF Enter
  <2>2. d.s \in Server /\ entries \in [Server -> 0..MaxEntries]
    BY <2>1 DEF Typed, TypeOK, Follower
  <2>3. entries[d.s] \in Nat /\ entries'[d.s] \in {entries[d.s], entries[d.s] + 1}
    BY <2>1, <2>2, BoundAssumption
  <2> QED BY <2>1, <2>3 DEF NoEarlyDeath
<1>3. CASE UNCHANGED entries /\ deaths' \subseteq deaths
  BY <1>3 DEF NoEarlyDeath
<1> QED BY <1>1, <1>2, <1>3
        DEF Next, WarmUp, IntervalEnds, Follow, Leave, Crash, HandleDeadServer, vars

\* Nobody is declared dead who was heard, or entered as a new server, in the
\* last two intervals, with any number of servers, joins and lost heartbeats.
THEOREM NoEarlyDeathCorrect == Spec => []NoEarlyDeath
<1>1. Init => Entered /\ Fresh /\ NoEarlyDeath
  <2> SUFFICES ASSUME Init PROVE Entered /\ Fresh /\ NoEarlyDeath
    OBVIOUS
  <2>1. /\ peers \subseteq Server /\ following = peers \ {Leader} /\ joining = {}
        /\ heard = following /\ deaths = {}
        /\ age = [s \in Server |-> IF s \in following THEN 0 ELSE None]
        /\ entries = [s \in Server |-> IF s \in peers THEN 1 ELSE 0]
    BY DEF Init
  <2>2. Entered
    BY <2>1 DEF Entered, Follower
  <2>3. \A s \in peers \ {Leader} : age[s] = 0
    BY <2>1
  <2>4. Fresh
    BY <2>3 DEF Fresh, Old
  <2> QED BY <2>1, <2>2, <2>4 DEF NoEarlyDeath
<1> QED BY <1>1, TypedInit, TypedStep, EnteredStep, FreshStep, NoEarlyDeathStep, PTL DEF Spec

-----------------------------------------------------------------------------
\* There are fewer followers than servers, so there are of any of them.
LEMMA FollowersCount ==
  ASSUME NEW U \in SUBSET Follower
  PROVE  IsFiniteSet(U) /\ Cardinality(U) \in Nat /\ Cardinality(U) <= Cardinality(Server) - 1
<1>1. IsFiniteSet(Server \ {Leader}) /\ Cardinality(Server \ {Leader}) = Cardinality(Server) - 1
  BY LeaderAssumption, FS_RemoveElement
<1>2. U \in SUBSET (Server \ {Leader})
  BY DEF Follower
<1>3. IsFiniteSet(U) /\ Cardinality(U) <= Cardinality(Server \ {Leader})
  BY <1>1, <1>2, FS_Subset
<1> QED BY <1>1, <1>3, FS_CardinalityType

\* There are fewer servers without a note than servers, before a step and after.
LEMMA UnnotedCount ==
  /\ IsFiniteSet(Unnoted) /\ Cardinality(Unnoted) \in Nat
  /\ Cardinality(Unnoted) <= Cardinality(Server) - 1
  /\ Cardinality(Unnoted') \in Nat /\ Cardinality(Unnoted') <= Cardinality(Server) - 1
<1>1. Unnoted \in SUBSET Follower /\ Unnoted' \in SUBSET Follower
  BY DEF Unnoted
<1> QED BY <1>1, FollowersCount

\* An interval in which nobody is noted leaves no more without a note, and one
\* in which a server is noted leaves one fewer.
LEMMA UnnotedLess ==
  ASSUME Typed
  PROVE  /\ age' = Aged => Cardinality(Unnoted') <= Cardinality(Unnoted)
         /\ \A t \in Follower :
              Aged[t] = None /\ age' = Note(t) => Cardinality(Unnoted') <= Cardinality(Unnoted) - 1
<1>0. IsFiniteSet(Unnoted) /\ Cardinality(Unnoted) \in Nat
  BY UnnotedCount
<1>1. \A s \in Follower : Aged[s] = None => age[s] = None
  BY AgedIs DEF Follower
<1>2. ASSUME age' = Aged
      PROVE  Cardinality(Unnoted') <= Cardinality(Unnoted)
  <2> HIDE DEF Aged, Typed
  <2>1. Unnoted' \subseteq Unnoted
    BY <1>1, <1>2 DEF Unnoted
  <2> QED BY <1>0, <2>1, FS_Subset
<1>3. ASSUME NEW t \in Follower, Aged[t] = None, age' = Note(t)
      PROVE  Cardinality(Unnoted') <= Cardinality(Unnoted) - 1
  <2>1. \A s \in Follower : age'[s] = IF s = t THEN 0 ELSE Aged[s]
    BY <1>3 DEF Note, Aged, Follower
  <2> HIDE DEF Aged, Typed
  <2>2. Unnoted' \subseteq Unnoted \ {t} /\ t \in Unnoted
    BY <1>1, <1>3, <2>1, NoneAssumption DEF Unnoted
  <2>3. IsFiniteSet(Unnoted \ {t}) /\ Cardinality(Unnoted \ {t}) = Cardinality(Unnoted) - 1
    BY <1>0, <2>2, FS_RemoveElement
  <2>4. Cardinality(Unnoted') <= Cardinality(Unnoted \ {t})
    BY <2>2, <2>3, FS_Subset
  <2> QED BY <2>3, <2>4
<1> QED BY <1>2, <1>3

\* The goal of every step, for one peer.
WaitedFor(s) ==
  /\ warmUp > 0 => silent[s] <= 3 - warmUp
  /\ warmUp = 0 => silent[s] + Cardinality(Unnoted) <=
                     Cardinality(Server) + 2 + (IF age[s] \in 2..Old THEN 1 ELSE 0)

\* Before the first look the silence is that since the start.
LEMMA WaitedWarmUp ==
  ASSUME Typed, Waited, WarmUp
  PROVE  Waited'
<1> SUFFICES ASSUME NEW s \in peers' \ {Leader}, ~ Found(s)' PROVE WaitedFor(s)'
  BY DEF Waited, WaitedFor
<1>1. IntervalEnds /\ warmUp' = warmUp - 1 /\ warmUp > 0 /\ deaths' = deaths
  BY DEF WarmUp
<1>2. /\ s \in peers \ {Leader} /\ s \in Server /\ silent'[s] = Silence[s]
      /\ warmUp \in 0..3
  BY <1>1, IntervalTyped DEF Typed, TypeOK
<1>3. silent[s] <= 3 - warmUp /\ silent[s] \in 0..Never
  BY <1>1, <1>2 DEF Waited, Found, Typed
<1>4. Silence[s] <= silent[s] + 1 /\ Silence[s] \in 0..Never
  BY <1>2, SilenceIs
<1>5. silent'[s] <= 4 - warmUp /\ silent'[s] \in Nat
  <2> HIDE DEF Silence, Typed
  <2> QED BY <1>2, <1>3, <1>4, ServersCount
<1>6. Cardinality(Unnoted)' \in Nat /\ Cardinality(Unnoted)' <= Cardinality(Server) - 1
  BY UnnotedCount
<1> DEFINE late == IF age'[s] \in 2..Old THEN 1 ELSE 0
           u == Cardinality(Unnoted)'
<1>7. late \in 0..1
  OBVIOUS
<1>8. u \in Nat /\ u <= Cardinality(Server) - 1
  BY <1>6
<1> HIDE DEF late, u
<1>9. /\ warmUp' > 0 => silent'[s] <= 3 - warmUp'
      /\ warmUp' = 0 => silent'[s] + u <= Cardinality(Server) + 2 + late
  <2> HIDE DEF Typed, Waited, Silence
  <2> QED BY <1>1, <1>2, <1>5, <1>7, <1>8, ServersCount
<1> QED BY <1>9 DEF WaitedFor, late, u

\* A look that notes nobody ages the note of a silent peer, or finds it dead;
\* one that notes somebody leaves fewer without a note.
LEMMA WaitedLook ==
  ASSUME Typed, Waited, Look
  PROVE  Waited'
<1> SUFFICES ASSUME NEW s \in peers' \ {Leader}, ~ Found(s)' PROVE WaitedFor(s)'
  BY DEF Waited, WaitedFor
<1>1. IntervalEnds /\ warmUp' = 0 /\ warmUp = 0
  BY DEF Look
<1>2. /\ s \in peers \ {Leader} /\ s \in Server /\ silent'[s] = Silence[s] /\ s \in Follower
      /\ age[s] \in 0..Old \cup {None} /\ silent[s] \in Nat
  <2>1. silent[s] \in 0..Never
    BY <1>1, IntervalTyped DEF Typed, TypeOK
  <2> HIDE DEF Never
  <2> QED BY <1>1, <2>1, IntervalTyped, ServersCount DEF Typed, TypeOK, Follower
<1>3. deaths \subseteq deaths'
  <2>1. \E S : DeclareDead(S)
    <3> HIDE DEF DeclareDead, Aged, Typed
    <3> QED BY LookIs
  <2> QED BY <2>1 DEF DeclareDead
<1>4. ~ Found(s)
  BY <1>3 DEF Found
<1> DEFINE late == IF age[s] \in 2..Old THEN 1 ELSE 0
           lateN == IF age'[s] \in 2..Old THEN 1 ELSE 0
           u == Cardinality(Unnoted)
           uN == Cardinality(Unnoted')
           c == Cardinality(Server)
<1>5. silent[s] + u <= c + 2 + late
  BY <1>1, <1>2, <1>4 DEF Waited
<1>6. /\ u \in Nat /\ uN \in Nat /\ uN <= c - 1
  BY UnnotedCount
<1>7. late \in 0..1 /\ lateN \in 0..1 /\ c \in Nat
  BY ServersCount
<1>8. SUFFICES silent'[s] + uN <= c + 2 + lateN
  BY <1>1 DEF WaitedFor
<1>9. CASE s \in heard
  <2>1. silent'[s] = 0
    BY <1>2, <1>9, SilenceIs
  <2> HIDE DEF late, lateN, u, uN, c
  <2> QED BY <1>6, <1>7, <2>1
<1>10. CASE s \notin heard
  <2>1. silent'[s] <= silent[s] + 1 /\ silent'[s] \in Nat
    <3>1. Silence[s] <= silent[s] + 1 /\ Silence[s] \in 0..Never
      BY <1>2, SilenceIs
    <3> HIDE DEF Silence
    <3> QED BY <1>2, <3>1, ServersCount
  <2>2. /\ Aged[s] = None <=> age[s] = None
        /\ age[s] # None => Aged[s] \in 2..Old /\ (Late(Aged[s]) <=> age[s] \in 2..Old)
    BY <1>2, <1>10, AgedIs
  <2>3. ASSUME age' = Aged, \A t \in peers \ {Leader} : Aged[t] # None,
               DeclareDead(peers \ {Leader})
        PROVE  silent'[s] + uN <= c + 2 + lateN
    <3>1. ~ Late(Aged[s])
      <4> SUFFICES ASSUME Late(Aged[s]) PROVE FALSE
        OBVIOUS
      <4>1. [s |-> s, silent |-> Capped(Silence[s], 2)] \in deaths'
        <5> HIDE DEF Aged, Silence, Capped, Late, Typed
        <5> QED BY <1>2, <2>3 DEF DeclareDead
      <4> QED BY <4>1 DEF Found
    <3>2. age[s] # None /\ age[s] \notin 2..Old /\ age'[s] \in 2..Old
      <4> HIDE DEF Aged, Late, Typed
      <4> QED BY <1>2, <2>2, <2>3, <3>1
    <3>3. late = 0 /\ lateN = 1
      BY <3>2
    <3>4. uN <= u
      BY <2>3, UnnotedLess
    <3> HIDE DEF late, lateN, u, uN, c
    <3> QED BY <1>2, <1>5, <1>6, <1>7, <2>1, <3>3, <3>4
  <2>4. ASSUME NEW t \in peers \ {Leader}, Aged[t] = None, age' = Note(t)
        PROVE  silent'[s] + uN <= c + 2 + lateN
    <3>1. t \in Follower
      BY DEF Typed, TypeOK, Follower
    <3>2. uN <= u - 1
      BY <2>4, <3>1, UnnotedLess
    <3>3. late <= lateN
      <4> SUFFICES ASSUME age[s] \in 2..Old PROVE age'[s] \in 2..Old
        OBVIOUS
      <4>1. age[s] # None
        BY NoneAssumption DEF Old
      <4>2. s # t
        <5> HIDE DEF Aged, Typed
        <5> QED BY <2>2, <2>4, <4>1
      <4>3. age'[s] = Aged[s]
        BY <1>2, <2>4, <4>2 DEF Note, Aged
      <4> HIDE DEF Aged, Typed
      <4> QED BY <2>2, <4>1, <4>3
    <3> HIDE DEF late, lateN, u, uN, c
    <3> QED BY <1>2, <1>5, <1>6, <1>7, <2>1, <3>2, <3>3
  <2> HIDE DEF Aged, DeclareDead, Typed, late, lateN, u, uN, c
  <2> QED BY <2>3, <2>4, LookIs
<1> QED BY <1>9, <1>10

\* Every step keeps that a silent peer is waited for.
LEMMA WaitedStep == Typed /\ Waited /\ [Next]_vars => Waited'
<1> SUFFICES ASSUME Typed, Waited, [Next]_vars PROVE Waited'
  OBVIOUS
<1>1. ASSUME NEW t \in Follower, Enter(t) PROVE Waited'
  <2> SUFFICES ASSUME NEW s \in peers' \ {Leader}, ~ Found(s)' PROVE WaitedFor(s)'
    BY DEF Waited, WaitedFor
  <2>1. /\ peers' = peers \cup {t} /\ silent' = [silent EXCEPT ![t] = 0]
        /\ UNCHANGED <<age, warmUp, deaths>>
    BY <1>1 DEF Enter
  <2>2. t \in Server /\ silent \in [Server -> 0..Never] /\ warmUp \in 0..3
        /\ peers \subseteq Server
    BY DEF Typed, TypeOK, Follower
  <2>3. Unnoted' = Unnoted
    BY <2>1 DEF Unnoted
  <2>4. CASE s = t
    <3>1. silent'[s] = 0
      BY <2>1, <2>2, <2>4
    <3> DEFINE late == IF age'[s] \in 2..Old THEN 1 ELSE 0
               u == Cardinality(Unnoted)
    <3>2. late \in 0..1 /\ u \in Nat /\ u <= Cardinality(Server) - 1
      BY UnnotedCount
    <3> HIDE DEF late, u
    <3>3. /\ warmUp' > 0 => silent'[s] <= 3 - warmUp'
          /\ silent'[s] + u <= Cardinality(Server) + 2 + late
      <4> HIDE DEF Typed, Waited
      <4> QED BY <2>1, <2>2, <3>1, <3>2, ServersCount
    <3> QED BY <2>3, <3>3 DEF WaitedFor, late, u
  <2>5. CASE s # t
    <3>1. s \in peers \ {Leader} /\ silent'[s] = silent[s] /\ ~ Found(s)
      BY <2>1, <2>2, <2>5 DEF Found
    <3>2. WaitedFor(s)
      BY <3>1 DEF Waited, WaitedFor
    <3> QED BY <2>1, <2>3, <3>1, <3>2 DEF WaitedFor
  <2> QED BY <2>4, <2>5
<1>2. ASSUME UNCHANGED <<age, silent, warmUp>>,
             \A s \in peers' : s \in peers /\ (Found(s) => Found(s)')
      PROVE  Waited'
  <2>1. Unnoted' = Unnoted
    BY <1>2 DEF Unnoted
  <2> QED BY <1>2, <2>1 DEF Waited
<1>3. ASSUME NEW d \in deaths, HandleDeadServer(d) PROVE Waited'
  <2>1. /\ deaths' = deaths \ {d} /\ peers' = peers \ {d.s}
        /\ UNCHANGED <<age, silent, warmUp>>
    BY <1>3 DEF HandleDeadServer
  <2>2. \A s \in peers' : s \in peers /\ (Found(s) => Found(s)')
    BY <2>1 DEF Found
  <2> QED BY <1>2, <2>1, <2>2
<1>4. CASE UNCHANGED <<peers, age, deaths, warmUp, silent>>
  BY <1>2, <1>4 DEF Found
<1> QED BY <1>1, <1>3, <1>4, WaitedWarmUp, WaitedLook DEF Next, Follow, Leave, Crash, vars

\* A silent peer is found within the looks that the other servers may end
\* early, with any number of servers, joins and lost heartbeats.
THEOREM FoundSoonCorrect == Spec => []FoundSoon
<1>1. Init => Waited
  <2> SUFFICES ASSUME Init, NEW s \in peers \ {Leader} PROVE silent[s] <= 3 - warmUp /\ warmUp > 0
    BY DEF Waited
  <2> QED BY DEF Init
<1>2. Typed /\ Waited => FoundSoon
  <2> SUFFICES ASSUME Typed, Waited, warmUp = 0, NEW s \in peers \ {Leader}, ~ Found(s)
               PROVE  silent[s] <= Cardinality(Server) + 3
    BY DEF FoundSoon, Found
  <2> DEFINE late == IF age[s] \in 2..Old THEN 1 ELSE 0
  <2>1. silent[s] + Cardinality(Unnoted) <= Cardinality(Server) + 2 + late
    BY DEF Waited
  <2>2. late \in 0..1 /\ silent[s] \in 0..Never
    BY DEF Typed, TypeOK
  <2>3. Cardinality(Unnoted) \in Nat
    BY UnnotedCount
  <2> HIDE DEF late, Typed, Waited
  <2> QED BY <2>1, <2>2, <2>3, ServersCount
<1> QED BY <1>1, <1>2, TypedInit, TypedStep, WaitedStep, PTL DEF Spec
=============================================================================
