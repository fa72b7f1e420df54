------------------------------- MODULE RateLimit -------------------------------
(***************************************************************************)
(* The two limits on redeeming access codes (backend/app/ratelimit.py):    *)
(* per IP and for all IPs together, over a sliding window, and the pruning *)
(* that bounds how many IPs are remembered.                                *)
(*                                                                         *)
(* redeem_allowed has no await, so a call is one action.  The clock is      *)
(* assumed to advance from call to call (a clock set back is not           *)
(* modelled), so a list of attempts is the set of their times, in order.   *)
(***************************************************************************)
EXTENDS Naturals, FiniteSets

CONSTANTS
  IPs,           \* what client_ip may return
  Window,        \* _REDEEM_WINDOW
  MaxPerIP,      \* _REDEEM_MAX_PER_IP
  MaxGlobal,     \* _REDEEM_MAX_GLOBAL
  MaxTracked,    \* _MAX_TRACKED_IPS
  MaxTime        \* bound of the clock

ASSUME LimitsAssumption ==
  /\ Window \in Nat \ {0} /\ MaxPerIP \in Nat \ {0} /\ MaxGlobal \in Nat
  /\ MaxTracked \in Nat /\ MaxTime \in Nat

(* A definition named X_Y is X with the bug Y, for the mutation runs only. *)

VARIABLES
  now,           \* time.time() of the last call
  tracked,       \* the keys of _redeem_attempts
  attempts,      \* [IPs -> the times in its list, {} when not tracked]
  global,        \* _global_attempts
  answer,        \* the last call: its IP and what it returned
  granted        \* history: <<ip, time>> of every call that was allowed

vars == <<now, tracked, attempts, global, answer, granted>>

Init ==
  /\ now = 0
  /\ tracked = {}
  /\ attempts = [ip \in IPs |-> {}]
  /\ global = {}
  /\ answer = [ip |-> {}, ok |-> TRUE]
  /\ granted = {}

\* [t for t in times if time - t < _REDEEM_WINDOW]
Fresh(times, time) == {t \in times : time - t < Window}

Stale_First(ip, all, time) ==
  all[ip] = {} \/ \E t \in all[ip] : (\A u \in all[ip] : t <= u) /\ time - t >= Window

\* _prune_stale_ips drops an IP whose last attempt has left the window.
Stale(ip, all, time) == \A t \in all[ip] : time - t >= Window

RefusedGlobally_Unfiltered(ip, time) ==
  /\ Cardinality(global) >= MaxGlobal
  /\ answer' = [ip |-> ip, ok |-> FALSE]
  /\ UNCHANGED <<tracked, attempts, global, granted>>

RefusedGlobally(ip, time) ==
  /\ Cardinality(Fresh(global, time)) >= MaxGlobal
  /\ global' = Fresh(global, time)
  /\ answer' = [ip |-> ip, ok |-> FALSE]
  /\ UNCHANGED <<tracked, attempts, granted>>

\* The backstop counts every call, refused or not.
RefusedForIP_Counted(ip, time) ==
  /\ Cardinality(Fresh(global, time)) < MaxGlobal
  /\ Cardinality(Fresh(attempts[ip], time)) >= MaxPerIP
  /\ global' = Fresh(global, time) \cup {time}
  /\ tracked' = tracked \cup {ip}
  /\ attempts' = [attempts EXCEPT ![ip] = Fresh(@, time)]
  /\ answer' = [ip |-> ip, ok |-> FALSE]
  /\ UNCHANGED granted

RefusedForIP(ip, time) ==
  /\ Cardinality(Fresh(global, time)) < MaxGlobal
  /\ Cardinality(Fresh(attempts[ip], time)) >= MaxPerIP
  /\ global' = Fresh(global, time)
  /\ tracked' = tracked \cup {ip}
  /\ attempts' = [attempts EXCEPT ![ip] = Fresh(@, time)]
  /\ answer' = [ip |-> ip, ok |-> FALSE]
  /\ UNCHANGED granted

\* What is left after pruning; it runs when too many IPs are tracked.
Kept(ips, all, time) ==
  IF Cardinality(ips) > MaxTracked THEN {i \in ips : ~Stale(i, all, time)} ELSE ips

Recorded_NotGlobally(ip, time) ==
  LET all == [attempts EXCEPT ![ip] = Fresh(@, time) \cup {time}]
      kept == Kept(tracked \cup {ip}, all, time)
  IN  /\ global' = Fresh(global, time)
      /\ tracked' = kept
      /\ attempts' = [i \in IPs |-> IF i \in kept THEN all[i] ELSE {}]

\* The attempt is recorded against both budgets.
Recorded(ip, time) ==
  LET all == [attempts EXCEPT ![ip] = Fresh(@, time) \cup {time}]
      kept == Kept(tracked \cup {ip}, all, time)
  IN  /\ global' = Fresh(global, time) \cup {time}
      /\ tracked' = kept
      /\ attempts' = [i \in IPs |-> IF i \in kept THEN all[i] ELSE {}]

Allowed_OneMore(ip, time) ==
  /\ Cardinality(Fresh(global, time)) <= MaxGlobal
  /\ Cardinality(Fresh(attempts[ip], time)) < MaxPerIP
  /\ Recorded(ip, time)
  /\ answer' = [ip |-> ip, ok |-> TRUE]
  /\ granted' = granted \cup {<<ip, time>>}

Allowed(ip, time) ==
  /\ Cardinality(Fresh(global, time)) < MaxGlobal
  /\ Cardinality(Fresh(attempts[ip], time)) < MaxPerIP
  /\ Recorded(ip, time)
  /\ answer' = [ip |-> ip, ok |-> TRUE]
  /\ granted' = granted \cup {<<ip, time>>}

\* redeem_allowed(ip), called at some later time
RedeemAllowed(ip, time) ==
  /\ time > now /\ time <= MaxTime
  /\ now' = time
  /\ RefusedGlobally(ip, time) \/ RefusedForIP(ip, time) \/ Allowed(ip, time)

Next == \E ip \in IPs, time \in 1..MaxTime : RedeemAllowed(ip, time)

Spec == Init /\ [][Next]_vars

-----------------------------------------------------------------------------
\* The type invariant: an untracked IP has no list.
TypeOK ==
  /\ now \in 0..MaxTime
  /\ tracked \subseteq IPs
  /\ attempts \in [IPs -> SUBSET (1..now)]
  /\ \A ip \in IPs \ tracked : attempts[ip] = {}
  /\ global \subseteq 1..now
  /\ granted \subseteq IPs \X (1..now)

InWindow(ip) == {g \in granted : g[1] = ip /\ now - g[2] < Window}

\* The sliding windows: whatever has been pruned and forgotten, no IP was
\* granted more than MaxPerIP attempts in any window ...
PerIPLimit == \A ip \in IPs : Cardinality(InWindow(ip)) <= MaxPerIP

\* ... and all together no more than MaxGlobal, "a backstop that caps total
\* guesses across all callers regardless of IP".
GlobalLimit == Cardinality({g \in granted : now - g[2] < Window}) <= MaxGlobal

\* "an attacker cycling through many source addresses can't grow this dict
\* without bound": the global limit bounds what pruning cannot drop.
TrackedBounded == Cardinality(tracked) <= MaxTracked \/ Cardinality(tracked) <= MaxGlobal

\* Refusals do not count: a call is refused only when the calls granted within
\* the window fill one of the two budgets.
RefusedOnlyIfFull ==
  ~answer.ok => \/ Cardinality(InWindow(answer.ip)) >= MaxPerIP
                \/ Cardinality({g \in granted : now - g[2] < Window}) >= MaxGlobal

\* The refinement: filtered on each call, recorded in two places and pruned, the
\* lists decide every call as the full history of what was granted would.
L == INSTANCE Limiter

RefinesLimiter == L!Spec

-----------------------------------------------------------------------------
(* The inductive invariant of RateLimitProofs: what the code remembers of  *)
(* the window is what was granted in it.                                   *)

Remembered ==
  /\ \A ip \in IPs, t \in 1..now : now - t < Window =>
       (t \in attempts[ip] <=> <<ip, t>> \in granted)
  /\ \A t \in 1..now : now - t < Window =>
       (t \in global <=> \E ip \in IPs : <<ip, t>> \in granted)
  /\ \A g, h \in granted : g[2] = h[2] => g = h
=============================================================================
