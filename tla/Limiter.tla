-------------------------------- MODULE Limiter --------------------------------
(***************************************************************************)
(* What a caller of redeem_allowed is promised, and nothing of how it is   *)
(* kept: an exact sliding window over everything that was ever granted.    *)
(* No lists, no table of IPs, no pruning: nothing is forgotten here.       *)
(* RateLimit implements this specification (RateLimit!RefinesLimiter).     *)
(***************************************************************************)
EXTENDS Naturals, FiniteSets

CONSTANTS IPs, Window, MaxPerIP, MaxGlobal, MaxTime

VARIABLES
  now,           \* the time of the last call
  granted,       \* <<ip, time>> of every call that was ever allowed
  answer         \* the last call: its IP and what it was told

vars == <<now, granted, answer>>

Init ==
  /\ now = 0
  /\ granted = {}
  /\ answer = [ip |-> {}, ok |-> TRUE]

\* What counts for a call made at this time, by everyone and by one IP.
Counted(time) == {g \in granted : time - g[2] < Window}
CountedFor(ip, time) == {g \in Counted(time) : g[1] = ip}

Full(ip, time) ==
  \/ Cardinality(Counted(time)) >= MaxGlobal
  \/ Cardinality(CountedFor(ip, time)) >= MaxPerIP

Grant(ip, time) ==
  /\ ~Full(ip, time)
  /\ granted' = granted \cup {<<ip, time>>}
  /\ answer' = [ip |-> ip, ok |-> TRUE]

Refuse(ip, time) ==
  /\ Full(ip, time)
  /\ answer' = [ip |-> ip, ok |-> FALSE]
  /\ UNCHANGED granted

Call(ip, time) ==
  /\ time > now /\ time <= MaxTime
  /\ now' = time
  /\ Grant(ip, time) \/ Refuse(ip, time)

Next == \E ip \in IPs, time \in 1..MaxTime : Call(ip, time)

Spec == Init /\ [][Next]_vars
=============================================================================
