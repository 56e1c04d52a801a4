--------------------------- MODULE CausalBroadcast ---------------------------
(***************************************************************************)
(* What the vector clocks of server/multicast/multicast.go promise the     *)
(* application: a member hands up a message at most once, and only after   *)
(* every message its sender had sent or handed up before it.  Clocks,      *)
(* network, buffering and acknowledgements do not appear.                  *)
(***************************************************************************)
EXTENDS Naturals, Sequences

CONSTANT Member

VARIABLES
  past,      \* past[s][k]: what s had sent and handed up before its k-th message
  delivered  \* what each member handed up, in order

vars == <<past, delivered>>

\* The k-th message of s is <<s, k>>.
Ids(q) == {q[i] : i \in DOMAIN q}
SentBy(s) == {<<s, k>> : k \in DOMAIN past[s]}
Known(n) == SentBy(n) \cup Ids(delivered[n])

Init ==
  /\ past = [s \in Member |-> <<>>]
  /\ delivered = [n \in Member |-> <<>>]

Broadcast(s) ==
  /\ past' = [past EXCEPT ![s] = Append(@, Known(s))]
  /\ UNCHANGED delivered

Deliver(n, s, k) ==
  /\ s # n
  /\ k \in DOMAIN past[s]
  /\ <<s, k>> \notin Ids(delivered[n])
  /\ past[s][k] \subseteq Known(n)
  /\ delivered' = [delivered EXCEPT ![n] = Append(@, <<s, k>>)]
  /\ UNCHANGED past

Next ==
  \E n \in Member :
    \/ Broadcast(n)
    \/ \E s \in Member : \E k \in DOMAIN past[s] : Deliver(n, s, k)

Spec == Init /\ [][Next]_vars
=============================================================================
