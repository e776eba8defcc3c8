----------------------------- MODULE Reconnect -----------------------------
(***************************************************************************)
(* The reconnect state machine of lib/reconnect.c: each operator takes a   *)
(* struct reconnect and returns the one the call of that name leaves.      *)
(*                                                                         *)
(* A time stamp is kept as its age, now minus the stamp, in seconds, and   *)
(* Elapse is the passing of one second.  Ages stop growing at Horizon, the *)
(* longest interval anything is compared with.  Statistics are left out.   *)
(***************************************************************************)
EXTENDS Integers

CONSTANTS
  DefaultMinBackoff,    \* RECONNECT_DEFAULT_MIN_BACKOFF
  DefaultMaxBackoff,    \* RECONNECT_DEFAULT_MAX_BACKOFF
  DefaultProbeInterval, \* RECONNECT_DEFAULT_PROBE_INTERVAL
  Horizon,              \* ages are counted up to here
  Forever,              \* INT_MAX: a backoff that nobody waits for
  Unlimited             \* UINT_MAX tries

ConnectedStates == {"ACTIVE", "IDLE"}

States == {"VOID", "BACKOFF", "CONNECTING", "RECONNECT", "LISTENING"}
            \cup ConnectedStates

Least(a, b)    == IF a < b THEN a ELSE b
Greatest(a, b) == IF a > b THEN a ELSE b

Ages     == 0..Horizon
Backoffs == 0..Horizon \cup {Forever}

\* 'lived' is last_activity - last_connected; all negative values are one.
Fsm == [passive : BOOLEAN, min_backoff : Backoffs, max_backoff : Backoffs,
        probe_interval : Ages, state : States, entered : Ages,
        backoff : Backoffs, activity : Ages, connected : Ages,
        lived : -1..Horizon, max_tries : {0, 1, Unlimited}]

reconnect_create ==
  [passive |-> FALSE, min_backoff |-> DefaultMinBackoff,
   max_backoff |-> DefaultMaxBackoff, probe_interval |-> DefaultProbeInterval,
   state |-> "VOID", entered |-> 0, backoff |-> 0, activity |-> Horizon,
   connected |-> Horizon, lived |-> -1, max_tries |-> Unlimited]

Elapse(f) ==
  [f EXCEPT !.entered = Least(@ + 1, Horizon), !.activity = Least(@ + 1, Horizon),
            !.connected = Least(@ + 1, Horizon)]

reconnect_transition(f, s) == [f EXCEPT !.state = s, !.entered = 0]

\* reconnect_may_retry: its result, and the try it takes away.
MayRetry(f) == f.max_tries > 0
TakeTry(f)  == [f EXCEPT !.max_tries = IF @ \in {0, Unlimited} THEN @ ELSE @ - 1]

BackOffNow(f) == [reconnect_transition(f, "BACKOFF") EXCEPT !.backoff = 0]

reconnect_set_max_tries(f, n) == [f EXCEPT !.max_tries = n]

\* A bug: a backoff already begun keeps its length.
SetBackoff_NextTime(f, min, max) ==
  LET lo == Greatest(min, 1)
      hi == IF max = 0 THEN DefaultMaxBackoff ELSE Greatest(max, 1)
  IN [f EXCEPT !.min_backoff = lo, !.max_backoff = Greatest(lo, hi)]

\* The last test compares with the argument, not with the limit made from it.
reconnect_set_backoff(f, min, max) ==
  LET lo == Greatest(min, 1)
      hi == IF max = 0 THEN DefaultMaxBackoff ELSE Greatest(max, 1)
  IN [f EXCEPT !.min_backoff = lo, !.max_backoff = Greatest(lo, hi),
               !.backoff = IF f.state = "BACKOFF" /\ @ > max THEN max ELSE @]

reconnect_set_probe_interval(f, p) ==
  [f EXCEPT !.probe_interval = IF p = 0 THEN 0 ELSE Greatest(1, p)]

reconnect_set_passive(f, p) ==
  LET g == [f EXCEPT !.passive = p]
  IN CASE f.passive = p -> f
       [] p /\ f.state \in {"CONNECTING", "RECONNECT"} -> BackOffNow(g)
       [] ~p /\ f.state = "LISTENING" /\ MayRetry(g) -> BackOffNow(TakeTry(g))
       [] OTHER -> g

reconnect_enable(f) ==
  IF f.state = "VOID" /\ MayRetry(f) THEN BackOffNow(TakeTry(f)) ELSE f

reconnect_force_reconnect(f) ==
  IF f.state \in {"CONNECTING", "ACTIVE", "IDLE"}
  THEN reconnect_transition(f, "RECONNECT") ELSE f

\* A connection that saw activity for as long as the backoff counts as good.
NextBackoff(f) ==
  CASE f.state \in ConnectedStates /\ f.passive -> 0
    [] f.state \in ConnectedStates /\ f.lived >= f.backoff -> f.min_backoff
    [] f.backoff < f.min_backoff -> f.min_backoff
    [] f.backoff >= f.max_backoff \div 2 -> f.max_backoff
    [] OTHER -> 2 * f.backoff

\* Until the next connection nothing reads these stamps.
Forget(f) == [f EXCEPT !.activity = Horizon, !.connected = Horizon, !.lived = -1]

reconnect_disconnected(f) ==
  IF f.state \in {"BACKOFF", "VOID"} THEN f
  ELSE reconnect_transition(
         Forget(TakeTry([f EXCEPT !.backoff = NextBackoff(f)])),
         IF MayRetry(f) THEN "BACKOFF" ELSE "VOID")

reconnect_connecting(f) ==
  IF f.state = "CONNECTING" THEN f ELSE reconnect_transition(f, "CONNECTING")

reconnect_listening(f) ==
  IF f.state = "LISTENING" THEN f ELSE reconnect_transition(f, "LISTENING")

reconnect_listen_error(f) ==
  IF f.state = "LISTENING" THEN reconnect_disconnected(f) ELSE f

reconnect_connected(f) ==
  IF f.state \in ConnectedStates THEN f
  ELSE [reconnect_transition(f, "ACTIVE") EXCEPT !.connected = 0, !.lived = -1]

reconnect_connect_failed(f) == reconnect_disconnected(reconnect_connecting(f))

reconnect_activity(f) ==
  [(IF f.state = "ACTIVE" THEN f ELSE reconnect_transition(f, "ACTIVE")) EXCEPT
     !.activity = 0, !.lived = f.connected]

\* now >= reconnect_deadline__().
Due(f) ==
  CASE f.state \in {"VOID", "LISTENING"} -> FALSE
    [] f.state = "BACKOFF" -> f.entered >= f.backoff
    [] f.state = "CONNECTING" -> f.entered >= Greatest(1, f.backoff)
    [] f.state = "ACTIVE" -> /\ f.probe_interval # 0
                             /\ Least(f.activity, f.entered) >= f.probe_interval
    [] f.state = "IDLE" -> f.probe_interval # 0 /\ f.entered >= f.probe_interval
    [] f.state = "RECONNECT" -> TRUE

\* A bug: a probe that leaves the state machine in ACTIVE is sent again and
\* again, and its loss is never noticed.
Run_StaysActive(f) ==
  CASE ~Due(f) -> [fsm |-> f, action |-> "none"]
    [] f.state = "BACKOFF" -> [fsm |-> f, action |-> "CONNECT"]
    [] f.state = "ACTIVE" -> [fsm |-> [f EXCEPT !.entered = 0], action |-> "PROBE"]
    [] OTHER -> [fsm |-> f, action |-> "DISCONNECT"]

reconnect_run(f) ==
  CASE ~Due(f) -> [fsm |-> f, action |-> "none"]
    [] f.state = "BACKOFF" -> [fsm |-> f, action |-> "CONNECT"]
    [] f.state = "ACTIVE" -> [fsm |-> reconnect_transition(f, "IDLE"), action |-> "PROBE"]
    [] OTHER -> [fsm |-> f, action |-> "DISCONNECT"]
=============================================================================
