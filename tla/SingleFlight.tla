------------------------------ MODULE SingleFlight ------------------------------
(***************************************************************************)
(* What coalescing promises the requests for one original: at most one of  *)
(* them leads its flight, whoever comes meanwhile waits for that flight    *)
(* and no other, and when it lands nobody is left waiting.  No events, no  *)
(* upstream connection, no cache.  MediaCache implements this              *)
(* specification (MediaCache!RefinesSingleFlight).                         *)
(***************************************************************************)
CONSTANTS
  Callers,       \* the requests
  Flights,       \* what may be in flight
  Nobody

VARIABLES
  leader,        \* [Flights -> who leads it, Nobody when it is not in flight]
  waiting        \* [Flights -> the callers that wait for it to land]

vars == <<leader, waiting>>

Init ==
  /\ leader = [k \in Flights |-> Nobody]
  /\ waiting = [k \in Flights |-> {}]

\* A flight starts only if there is none, and nobody waits yet.
Lead(c, k) ==
  /\ leader[k] = Nobody
  /\ leader' = [leader EXCEPT ![k] = c]
  /\ UNCHANGED waiting

Join(c, k) ==
  /\ leader[k] # Nobody
  /\ waiting' = [waiting EXCEPT ![k] = @ \cup {c}]
  /\ UNCHANGED leader

\* Well or badly, the flight ends for everybody in the same step.
Land(k) ==
  /\ leader[k] # Nobody
  /\ leader' = [leader EXCEPT ![k] = Nobody]
  /\ waiting' = [waiting EXCEPT ![k] = {}]

\* A caller that waits may give up; the flight goes on.
Leave(c, k) ==
  /\ c \in waiting[k]
  /\ waiting' = [waiting EXCEPT ![k] = @ \ {c}]
  /\ UNCHANGED leader

Restart ==
  /\ leader' = [k \in Flights |-> Nobody]
  /\ waiting' = [k \in Flights |-> {}]

Next ==
  \/ \E c \in Callers, k \in Flights : Lead(c, k) \/ Join(c, k) \/ Leave(c, k)
  \/ \E k \in Flights : Land(k)
  \/ Restart

Spec == Init /\ [][Next]_vars
=============================================================================
