-------------------------------- MODULE Stp --------------------------------
(***************************************************************************)
(* Bridges that run the spanning tree protocol of lib/stp.c over           *)
(* point-to-point links.  They have the same timer settings, and change    *)
(* detection is enabled on every port, as nothing disables it.             *)
(*                                                                         *)
(* Every function of stp.c runs under one mutex and is one step.  Time     *)
(* passes in ticks, at every bridge alike, when the BPDUs on the links     *)
(* have arrived.                                                           *)
(***************************************************************************)
EXTENDS Integers, Sequences

CONSTANTS
  Bridges,     \* the bridges, which are their first identifiers
  Links,       \* the links: sets of two ends, <<bridge, port>>
  HelloTime, MaxAge, ForwardDelay, HoldTime,  \* the timeouts, in ticks
  Increment,   \* MESSAGE_AGE_INCREMENT
  Costs,       \* the path costs that ports are given
  Ids,         \* the identifiers that bridges are given later
  MaxUpsets    \* bound on the changes of the configuration and lost BPDUs

VARIABLES
  stp,         \* stp[b]: struct stp
  wire,        \* wire[e]: the BPDUs on their way to end e
  upsets       \* how many there were

vars == <<stp, wire, upsets>>

LinkEnds == UNION Links

Peer(e) == CHOOSE f \in LinkEnds : f # e /\ {e, f} \in Links

\* The value of a timer that is not active.
Off == -1

\* Is u lexicographically before v?
Before(u, v) ==
  \E i \in DOMAIN u : u[i] < v[i] /\ \A j \in 1 .. i - 1 : u[j] = v[j]

-----------------------------------------------------------------------------
(* A bridge is the record S: its ports in order, and what they have sent.  *)
(* The four designated_* members of a port are its info.                   *)

Enabled(S) == {p \in DOMAIN S.port : S.port[p].state # "DISABLED"}

\* FOR_EACH_ENABLED_PORT, from port p on.  The set makes TLC evaluate the
\* body once.
RECURSIVE ForEachFrom(_, _, _)
ForEachFrom(S, Body(_, _), p) ==
  IF p \notin DOMAIN S.port THEN S
  ELSE CHOOSE R \in {ForEachFrom(T, Body, p + 1) :
                       T \in {IF p \in Enabled(S) THEN Body(S, p) ELSE S}} : TRUE

ForEachPort(S, Body(_, _)) == ForEachFrom(S, Body, 1)

Send(S, p, m) == [S EXCEPT !.out[p] = Append(@, m)]

stp_is_root_bridge(S) == S.id = S.root

stp_is_designated_port(S, p) ==
  S.port[p].info[3] = S.id /\ S.port[p].info[4] = S.port[p].id

stp_transmit_config(S, p) ==
  LET age == IF stp_is_root_bridge(S) THEN 0 ELSE S.port[S.root_port].age + Increment
      m == [type |-> "config", info |-> <<S.root, S.cost, S.id, S.port[p].id>>,
            age |-> age, ack |-> S.port[p].ack, change |-> S.change]
  IN  CASE ~stp_is_root_bridge(S) /\ S.root_port = 0 -> S
        [] S.port[p].hold # Off -> [S EXCEPT !.port[p].pending = TRUE]
        [] age >= MaxAge -> S
        [] OTHER -> [Send(S, p, m) EXCEPT !.port[p].ack = FALSE, !.port[p].pending = FALSE,
                                          !.port[p].hold = 0]

stp_config_bpdu_generation(S) ==
  ForEachPort(S, LAMBDA T, p :
    IF stp_is_designated_port(T, p) THEN stp_transmit_config(T, p) ELSE T)

stp_transmit_tcn(S) == IF S.root_port = 0 THEN S ELSE Send(S, S.root_port, [type |-> "tcn"])

stp_topology_change_detection(S) ==
  LET T == CASE stp_is_root_bridge(S) -> [S EXCEPT !.change = TRUE, !.change_timer = 0]
             [] ~stp_is_root_bridge(S) /\ ~S.detected ->
                  [stp_transmit_tcn(S) EXCEPT !.tcn_timer = 0]
             [] OTHER -> S
  IN  [T EXCEPT !.detected = TRUE]

-----------------------------------------------------------------------------
(* stp_configuration_update *)

stp_become_designated_port(S, p) ==
  [S EXCEPT !.port[p].info = <<S.root, S.cost, S.id, S.port[p].id>>]

\* What a port offers as the root port; stp_supersedes_root compares it.
Offer(S, p) ==
  LET q == S.port[p] IN <<q.info[1], q.info[2] + q.path_cost, q.info[3], q.info[4], q.id>>

stp_root_selection(S) ==
  LET able == {p \in Enabled(S) : ~stp_is_designated_port(S, p) /\ S.port[p].info[1] < S.id}
      best == CHOOSE p \in able : \A q \in able \ {p} : Before(Offer(S, p), Offer(S, q))
  IN  IF able = {} THEN [S EXCEPT !.root_port = 0, !.root = S.id, !.cost = 0]
      ELSE [S EXCEPT !.root_port = best, !.root = Offer(S, best)[1], !.cost = Offer(S, best)[2]]

\* A plausible bug: a port keeps what it heard of a root that is given up.
stp_designated_port_selection_SameRoot(S) ==
  ForEachPort(S, LAMBDA T, p :
    LET q == T.port[p]
    IN  IF \/ stp_is_designated_port(T, p)
           \/ ~Before(Tail(q.info), <<T.cost, T.id, q.id>>)
        THEN stp_become_designated_port(T, p) ELSE T)

stp_designated_port_selection(S) ==
  ForEachPort(S, LAMBDA T, p :
    LET q == T.port[p]
    IN  IF \/ stp_is_designated_port(T, p)
           \/ q.info[1] # T.root
           \/ ~Before(Tail(q.info), <<T.cost, T.id, q.id>>)
        THEN stp_become_designated_port(T, p) ELSE T)

stp_configuration_update(S) == stp_designated_port_selection(stp_root_selection(S))

-----------------------------------------------------------------------------
(* stp_port_state_selection *)

stp_make_forwarding(S, p) ==
  IF S.port[p].state = "BLOCKING"
  THEN [S EXCEPT !.port[p].state = "LISTENING", !.port[p].delay = 0] ELSE S

stp_make_blocking(S, p) ==
  LET T == IF S.port[p].state \in {"FORWARDING", "LEARNING"}
           THEN stp_topology_change_detection(S) ELSE S
  IN  IF S.port[p].state = "BLOCKING" THEN S
      ELSE [T EXCEPT !.port[p].state = "BLOCKING", !.port[p].delay = Off]

Quiet(S, p) == [S EXCEPT !.port[p].pending = FALSE, !.port[p].ack = FALSE]

stp_port_state_selection(S) ==
  ForEachPort(S, LAMBDA T, p :
    CASE p = T.root_port -> stp_make_forwarding(Quiet(T, p), p)
      [] p # T.root_port /\ stp_is_designated_port(T, p) ->
           stp_make_forwarding([T EXCEPT !.port[p].age = Off], p)
      [] OTHER -> stp_make_blocking(Quiet(T, p), p))

Reselect(S) == stp_port_state_selection(stp_configuration_update(S))

stp_become_root_bridge(S) ==
  [stp_config_bpdu_generation([stp_topology_change_detection(S) EXCEPT !.tcn_timer = Off])
     EXCEPT !.hello_timer = 0]

\* Reselect, and become the root bridge if S was not.
ReselectRoot(S, wasRoot) ==
  LET T == Reselect(S)
  IN  IF stp_is_root_bridge(T) /\ ~wasRoot THEN stp_become_root_bridge(T) ELSE T

-----------------------------------------------------------------------------
(* stp_received_bpdu *)

stp_supersedes_port_info(S, p, m) ==
  LET q == S.port[p]
      best == SubSeq(m.info, 1, 3)
  IN  \/ Before(best, SubSeq(q.info, 1, 3))
      \/ best = SubSeq(q.info, 1, 3) /\ (m.info[3] # S.id \/ m.info[4] <= q.info[4])

\* The bridge is not the root any more.
Yield(S) ==
  LET T == [S EXCEPT !.hello_timer = Off]
  IN  IF T.detected
      THEN [stp_transmit_tcn([T EXCEPT !.change_timer = Off]) EXCEPT !.tcn_timer = 0] ELSE T

\* The BPDU came in on the root port.
FollowRoot(S, m) ==
  LET T == stp_config_bpdu_generation([S EXCEPT !.change = m.change])
  IN  IF m.ack THEN [T EXCEPT !.detected = FALSE, !.tcn_timer = Off] ELSE T

stp_received_config_bpdu(S, p, m) ==
  LET R == Reselect([S EXCEPT !.port[p].info = m.info, !.port[p].age = m.age])
      Y == IF stp_is_root_bridge(S) /\ ~stp_is_root_bridge(R) THEN Yield(R) ELSE R
  IN  CASE m.age >= MaxAge -> S
        [] m.age < MaxAge /\ stp_supersedes_port_info(S, p, m) ->
             IF p = Y.root_port THEN FollowRoot(Y, m) ELSE Y
        [] OTHER -> IF stp_is_designated_port(S, p) THEN stp_transmit_config(S, p) ELSE S

stp_received_tcn_bpdu(S, p) ==
  IF stp_is_designated_port(S, p)
  THEN stp_transmit_config([stp_topology_change_detection(S) EXCEPT !.port[p].ack = TRUE], p)
  ELSE S

stp_received_bpdu(S, p, m) ==
  CASE p \notin Enabled(S) -> S
    [] p \in Enabled(S) /\ m.type = "config" -> stp_received_config_bpdu(S, p, m)
    [] p \in Enabled(S) /\ m.type = "tcn" -> stp_received_tcn_bpdu(S, p)

-----------------------------------------------------------------------------
(* stp_tick *)

Advance(v, timeout) == IF v # Off /\ v + 1 < timeout THEN v + 1 ELSE Off

Expires(v, timeout) == v # Off /\ v + 1 >= timeout

BridgeTimer(S, f, timeout, Expiry(_)) ==
  LET T == [S EXCEPT ![f] = Advance(@, timeout)]
  IN  IF Expires(S[f], timeout) THEN Expiry(T) ELSE T

PortTimer(S, p, f, timeout, Expiry(_, _)) ==
  LET T == [S EXCEPT !.port[p][f] = Advance(@, timeout)]
  IN  IF Expires(S.port[p][f], timeout) THEN Expiry(T, p) ELSE T

stp_hello_timer_expiry(S) == [stp_config_bpdu_generation(S) EXCEPT !.hello_timer = 0]

stp_tcn_timer_expiry(S) == [stp_transmit_tcn(S) EXCEPT !.tcn_timer = 0]

stp_topology_change_timer_expiry(S) == [S EXCEPT !.detected = FALSE, !.change = FALSE]

stp_message_age_timer_expiry(S, p) ==
  ReselectRoot(stp_become_designated_port(S, p), stp_is_root_bridge(S))

\* A plausible bug: a port forwards as soon as it has listened.
stp_forward_delay_timer_expiry_Early(S, p) ==
  IF S.port[p].state = "LISTENING" THEN [S EXCEPT !.port[p].state = "FORWARDING"] ELSE S

stp_forward_delay_timer_expiry(S, p) ==
  LET F == [S EXCEPT !.port[p].state = "FORWARDING"]
  IN  CASE S.port[p].state = "LISTENING" ->
             [S EXCEPT !.port[p].state = "LEARNING", !.port[p].delay = 0]
        [] S.port[p].state = "LEARNING" ->
             IF \E q \in Enabled(F) : F.port[q].info[3] = F.id
             THEN stp_topology_change_detection(F) ELSE F
        [] OTHER -> S

stp_hold_timer_expiry(S, p) == IF S.port[p].pending THEN stp_transmit_config(S, p) ELSE S

stp_tick(S) ==
  LET hello == BridgeTimer(S, "hello_timer", HelloTime, stp_hello_timer_expiry)
      tcn == BridgeTimer(hello, "tcn_timer", HelloTime, stp_tcn_timer_expiry)
      change == BridgeTimer(tcn, "change_timer", MaxAge + ForwardDelay,
                            stp_topology_change_timer_expiry)
      age == ForEachPort(change, LAMBDA T, p :
               PortTimer(T, p, "age", MaxAge, stp_message_age_timer_expiry))
  IN  ForEachPort(age, LAMBDA T, p :
        PortTimer(PortTimer(T, p, "delay", ForwardDelay, stp_forward_delay_timer_expiry),
                  p, "hold", HoldTime, stp_hold_timer_expiry))

-----------------------------------------------------------------------------
(* Creation and configuration *)

\* The low byte of a port's identifier is its number, the high byte its priority.
PortId(p, priority) == 10 * priority + p

stp_initialize_port(S, p, state) ==
  [stp_become_designated_port(S, p) EXCEPT
     !.port[p] = [@ EXCEPT !.state = state, !.ack = FALSE, !.pending = FALSE,
                           !.age = Off, !.delay = Off, !.hold = Off]]

stp_port_enable(S, p) ==
  IF S.port[p].state = "DISABLED"
  THEN stp_port_state_selection(stp_initialize_port(S, p, "BLOCKING")) ELSE S

Numbers(b) == {e[2] : e \in {f \in LinkEnds : f[1] = b}}

stp_create(id) ==
  LET port(p) == [id |-> PortId(p, 1), state |-> "DISABLED", path_cost |-> 1,
                  info |-> <<id, 0, id, PortId(p, 1)>>, ack |-> FALSE, pending |-> FALSE,
                  age |-> Off, delay |-> Off, hold |-> Off]
  IN  [id |-> id, root |-> id, cost |-> 0, root_port |-> 0, detected |-> FALSE,
       change |-> FALSE, tcn_timer |-> Off, change_timer |-> Off, hello_timer |-> 0,
       port |-> [p \in Numbers(id) |-> port(p)], out |-> [p \in Numbers(id) |-> <<>>]]

stp_port_disable(S, p) ==
  ReselectRoot([stp_become_designated_port(S, p) EXCEPT
                  !.port[p] = [@ EXCEPT !.state = "DISABLED", !.ack = FALSE,
                                        !.pending = FALSE, !.age = Off, !.delay = Off]],
               stp_is_root_bridge(S))

stp_port_set_path_cost(S, p, cost) == Reselect([S EXCEPT !.port[p].path_cost = cost])

stp_port_set_priority(S, p, priority) ==
  LET id == PortId(p, priority)
      T == [S EXCEPT !.port[p].id = id,
                     !.port[p].info[4] = IF stp_is_designated_port(S, p) THEN id ELSE @]
  IN  IF S.id = T.port[p].info[3] /\ id < T.port[p].info[4]
      THEN stp_port_state_selection(stp_become_designated_port(T, p)) ELSE T

set_bridge_id(S, id) ==
  ReselectRoot([S EXCEPT !.id = id,
                  !.port = [p \in DOMAIN @ |->
                              IF p \in Enabled(S) /\ stp_is_designated_port(S, p)
                              THEN [@[p] EXCEPT !.info[3] = id] ELSE @[p]]],
               stp_is_root_bridge(S))

-----------------------------------------------------------------------------

\* A new bridge, all of whose ports are enabled.
Started(S) ==
  stp_port_state_selection([S EXCEPT !.port = [p \in DOMAIN @ |-> [@[p] EXCEPT !.state = "BLOCKING"]]])

Init ==
  /\ stp = [b \in Bridges |-> Started(stp_create(b))]
  /\ wire = [e \in LinkEnds |-> <<>>]
  /\ upsets = 0

\* The bridges become T; what they sent is put on the links.
Becomes(T, w) ==
  /\ stp' = [b \in Bridges |-> [T[b] EXCEPT !.out = [p \in DOMAIN @ |-> <<>>]]]
  /\ wire' = [e \in LinkEnds |-> w[e] \o T[Peer(e)[1]].out[Peer(e)[2]]]

Receive(e) ==
  /\ wire[e] # <<>>
  /\ \E S \in {stp_received_bpdu(stp[e[1]], e[2], Head(wire[e]))} :
       Becomes([stp EXCEPT ![e[1]] = S], [wire EXCEPT ![e] = Tail(@)])
  /\ UNCHANGED upsets

Tick ==
  /\ \A e \in LinkEnds : wire[e] = <<>>
  /\ \E T \in {[b \in Bridges |-> stp_tick(stp[b])]} : Becomes(T, wire)
  /\ UNCHANGED upsets

Upset == upsets < MaxUpsets /\ upsets' = upsets + 1

Lose(e) ==
  /\ Upset
  /\ wire[e] # <<>>
  /\ wire' = [wire EXCEPT ![e] = Tail(@)]
  /\ UNCHANGED stp

\* What is done to the bridge: ports and their settings, its identifier, and
\* stp/tcn of ovs-appctl.
Changed(S) ==
  {stp_port_enable(S, p) : p \in DOMAIN S.port}
  \cup {stp_port_disable(S, p) : p \in Enabled(S)}
  \cup {stp_port_set_path_cost(S, p, cost) : p \in DOMAIN S.port, cost \in Costs}
  \cup {stp_port_set_priority(S, p, 0) : p \in DOMAIN S.port}
  \cup {set_bridge_id(S, id) : id \in Ids \ {stp[b].id : b \in Bridges}}
  \cup {stp_topology_change_detection(S)}

Change(b) ==
  /\ Upset
  /\ \E S \in Changed(stp[b]) \ {stp[b]} : Becomes([stp EXCEPT ![b] = S], wire)

Next == (\E e \in LinkEnds : Receive(e) \/ Lose(e)) \/ Tick \/ (\E b \in Bridges : Change(b))

\* BPDUs arrive and time goes on: a step that is no change and no loss, which
\* is always possible, is taken again and again.
Spec == Init /\ [][Next]_vars /\ []<><<UNCHANGED upsets>>_vars

-----------------------------------------------------------------------------

Port(e) == stp[e[1]].port[e[2]]

\* The links over which packets flow, and those over which they could.
Flowing == {l \in Links : \A e \in l : Port(e).state = "FORWARDING"}

Live == {l \in Links : \A e \in l : Port(e).state # "DISABLED"}

Crosses(l, B) == \E e, f \in l : e[1] \in B /\ f[1] \notin B

\* Packets never circulate: no links that forward form a cycle, while the
\* bridges find the tree and when it is changed or a BPDU is lost.  The
\* shortest timers that stp.c accepts absorb one such event: two of them, when
\* the root gives up its identifier, can keep the information of a root that
\* is gone alive for as long as a port takes to forward.
NoLoop ==
  \A L \in SUBSET Flowing \ {{}} :
    \E b \in Bridges : \E l \in L : /\ \E e \in l : e[1] = b
                                    /\ \A k \in L \ {l} : \A e \in k : e[1] # b

\* When the upsets are over, the forwarding ports come to connect whatever
\* the links can connect, and the bridges agree that the topology is stable.
Converges ==
  <>[](/\ \A B \in SUBSET Bridges :
            (\E l \in Live : Crosses(l, B)) => (\E l \in Flowing : Crosses(l, B))
       /\ \A b \in Bridges : ~stp[b].detected /\ ~stp[b].change)

=============================================================================
