----------------------------- MODULE Heartbeats -----------------------------
(***************************************************************************)
(* How a leader finds out who has died: StartHearbeat and                  *)
(* StartHearbeatListener of heartbeat.go, and the goroutine of             *)
(* LeaderStateStart (state_listener.go) that looks at its notes twice a    *)
(* second.                                                                 *)
(*                                                                         *)
(* Time is counted in halves of the 500 ms between two looks: what is      *)
(* noted at a look is of age 0, what came in since the last one of age 1.  *)
(* A follower sends every 180 ms, so one of its heartbeats is read between *)
(* two looks, unless a fault keeps all of them away.                       *)
(***************************************************************************)
EXTENDS Naturals, FiniteSets

CONSTANTS
  Server,
  Leader,
  None,
  MaxEntries, \* bound: how often a server joins
  MaxFaults   \* bound: intervals in which a follower's heartbeats are lost

ASSUME LeaderAssumption == Leader \in Server /\ IsFiniteSet(Server)
ASSUME NoneAssumption == None \notin Nat
ASSUME BoundAssumption == MaxEntries \in Nat \ {0} /\ MaxFaults \in Nat

VARIABLES
  peers,    \* s.peers
  age,      \* age of the note about a server, or None: the map peers of the
            \* goroutine
  joining,   \* the servers that will be followers
  following, \* the servers that send heartbeats
  heard,    \* the servers whose heartbeat was read since the last look
  warmUp,   \* intervals until the first look, which is after 2 s
  deaths,   \* the running calls of handleDeadServer
  crashed,
  faults,
  silent,   \* history: intervals since a server entered or was last heard
  entries   \* history: how often a server entered

vars == <<peers, age, joining, following, heard, warmUp, deaths, crashed, faults, silent,
          entries>>

Follower == Server \ {Leader}

\* What is older makes no difference.
Old == 4                            \* 1000 ms
Never == Cardinality(Server) + 4
Capped(n, m) == IF n < m THEN n ELSE m

\* LeaderStateStart notes the peers of the moment.
Init ==
  /\ peers \in {P \in SUBSET Server : Leader \in P}
  /\ following = peers \ {Leader} /\ joining = {}
  /\ age = [s \in Server |-> IF s \in following THEN 0 ELSE None]
  /\ heard = following /\ warmUp = 3 /\ deaths = {} /\ crashed = {} /\ faults = 0
  /\ silent = [s \in Server |-> 0]
  /\ entries = [s \in Server |-> IF s \in peers THEN 1 ELSE 0]

-----------------------------------------------------------------------------
(* The other servers                                                       *)

\* connectToLeaderHandler enters a server; it may be one that tries again,
\* or came back.
Enter(s) ==
  /\ s \notin following \cup crashed /\ entries[s] < MaxEntries
  /\ peers' = peers \cup {s} /\ joining' = joining \cup {s}
  /\ entries' = [entries EXCEPT ![s] = @ + 1]
  /\ silent' = [silent EXCEPT ![s] = 0]
  /\ UNCHANGED <<age, following, heard, warmUp, deaths, crashed, faults>>

\* FollowerStateStart: StartHearbeat sends the first heartbeat at once.
Follow(s) ==
  /\ s \in joining
  /\ joining' = joining \ {s} /\ following' = following \cup {s}
  /\ heard' = heard \cup {s}
  /\ UNCHANGED <<peers, age, warmUp, deaths, crashed, faults, silent, entries>>

\* In the interval in which it stops, a server may have been heard or not.
Stop(s) == /\ following' = following \ {s} /\ joining' = joining \ {s}
           /\ heard' \in {heard, heard \ {s}}

\* A follower leaves its state and may join again later; or a write failed,
\* which ends its heartbeats.
Leave(s) ==
  /\ s \in following
  /\ Stop(s)
  /\ UNCHANGED <<peers, age, warmUp, deaths, crashed, faults, silent, entries>>

Crash(s) ==
  /\ s \notin crashed
  /\ crashed' = crashed \cup {s}
  /\ Stop(s)
  /\ UNCHANGED <<peers, age, warmUp, deaths, faults, silent, entries>>

-----------------------------------------------------------------------------
(* The goroutine of the leader                                             *)

\* What the notes are when the interval ends.
Aged == [s \in Server |-> IF s \in heard THEN 1
                          ELSE IF age[s] = None THEN None ELSE Capped(age[s] + 2, Old)]

Silence == [s \in Server |-> IF s \in heard \/ s \notin peers \ {Leader} THEN 0
                             ELSE Capped(silent[s] + 1, Never)]

\* In the next interval StartHearbeatListener passes on a heartbeat of every
\* follower, peer or not, but for a fault.
IntervalEnds ==
  /\ silent' = Silence
  /\ \/ heard' = following /\ UNCHANGED faults
     \/ /\ faults < MaxFaults /\ faults' = faults + 1
        /\ \E s \in following : heard' = following \ {s}
  /\ UNCHANGED <<peers, joining, following, crashed, entries>>

WarmUp ==
  /\ warmUp > 0
  /\ warmUp' = warmUp - 1
  /\ IntervalEnds
  /\ age' = Aged
  /\ UNCHANGED deaths

\* Variant: after 500 ms.
LateSoon(a) == a >= 2

\* time.Now().Sub(lastHB) > 1000 ms: of two looks at least 1000 ms apart the
\* later one finds it so.
Late(a) == a >= Old

\* Variant: the leader does not pass over itself.
LookedAtAll(P) == P

LookedAt(P) == P \ {Leader}

\* Variant: a new server is not noted.
NoteNothing(s) == Aged

Note(s) == [Aged EXCEPT ![s] = 0]

DeclareDead(S) == deaths' = deaths \cup {[s |-> s, silent |-> Capped(Silence[s], 2)] :
                                           s \in {t \in S : Late(Aged[t])}}

\* The peers are looked at in any order; the first without a note is noted,
\* and ends the look.
Look ==
  /\ warmUp = 0 /\ warmUp' = 0
  /\ IntervalEnds
  /\ LET P == LookedAt(peers)
         new == {s \in P : Aged[s] = None}
     IN  \/ new = {} /\ age' = Aged /\ DeclareDead(P)
         \/ \E s \in new, before \in SUBSET (P \ new) : age' = Note(s) /\ DeclareDead(before)

\* handleDeadServer; the note stays.
HandleDeadServer(d) ==
  /\ deaths' = deaths \ {d}
  /\ peers' = peers \ {d.s}
  /\ UNCHANGED <<age, joining, following, heard, warmUp, crashed, faults, silent, entries>>

-----------------------------------------------------------------------------
Next ==
  \/ \E s \in Follower : Enter(s) \/ Follow(s) \/ Leave(s) \/ Crash(s)
  \/ WarmUp \/ Look
  \/ \E d \in deaths : HandleDeadServer(d)

\* Time goes on whatever the servers do, and goroutines run.
Spec ==
  /\ Init /\ [][Next]_vars
  /\ SF_vars(WarmUp \/ Look)
  /\ WF_vars(\E d \in deaths : HandleDeadServer(d))

-----------------------------------------------------------------------------
TypeOK ==
  /\ Leader \in peers /\ peers \subseteq Server
  /\ age \in [Server -> 0..Old \cup {None}] /\ age[Leader] = None
  /\ joining \cup following \subseteq Follower /\ heard \subseteq Follower
  /\ warmUp \in 0..3 /\ faults \in 0..MaxFaults
  /\ deaths \subseteq [s : Follower, silent : 0..2]
  /\ crashed \subseteq Follower /\ entries \in [Server -> 0..MaxEntries]

(* Nobody is declared dead who was heard, or entered as a new server, in    *)
(* the last two intervals ("new node maybe, check again",                   *)
(* state_listener.go:98).  For a server that came back the note of its      *)
(* first stay counts, and it may be declared dead at the next look.         *)
NoEarlyDeath == \A d \in deaths : d.silent >= 2 \/ entries[d.s] > 1

(* A silent peer is found: the four intervals before the first look, two    *)
(* for its note to grow old, and one more for every other server, each of   *)
(* which may end one look early as a new one, in whatever order the map is  *)
(* gone through (state_listener.go:100).                                    *)
FoundSoon ==
  warmUp = 0 =>
    \A s \in peers \ {Leader} : \/ \E d \in deaths : d.s = s
                                \/ silent[s] <= Cardinality(Server) + 3

(* A peer that crashed does not stay a peer. *)
CrashedRemoved == \A s \in Follower : s \in crashed ~> s \notin peers
=============================================================================
