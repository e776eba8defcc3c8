-------------------------------- MODULE Bfd --------------------------------
(***************************************************************************)
(* Two BFD sessions of lib/bfd.c at the ends of a link.  The options       *)
(* decay_min_rx, forwarding_if_rx, cpath_down and the forwarding override  *)
(* have their defaults: off.                                               *)
(*                                                                         *)
(* Time passes in ticks.  The monitor thread runs a session and sends its  *)
(* packet when they are due, so a tick waits for that, and for the packets *)
(* on the link.  The deadlines of the code are kept relative to now.       *)
(***************************************************************************)
EXTENDS Integers, Sequences

CONSTANTS
  Ends,         \* the two ends of the link
  Slow,         \* the ticks of the 1000 ms of a session that is not up
  Mult,         \* bfd->mult
  Settings,     \* the pairs of cfg_min_tx and cfg_min_rx, in ticks
  Tunable,      \* the ends that are reconfigured
  MaxFaults     \* bound on the restarts, reconfigurations and losses

VARIABLES
  bfd,          \* bfd[x]: the struct bfd at end x
  wire,         \* wire[x]: the packets on their way to x
  heard,        \* heard[x]: the discriminators of x that its peer has seen
  faults,       \* how many disturbances there were
  upset         \* one was a loss, a restart, or a reconfiguration in
                \* INIT or during a poll sequence

vars == <<bfd, wire, heard, faults, upset>>

Peer(x) == CHOOSE y \in Ends : y # x

Greatest(a, b) == IF a > b THEN a ELSE b

Least(a, b) == IF a < b THEN a ELSE b

Session ==
  [disc : Nat, state : {"DOWN", "INIT", "UP"}, diag : {"NONE", "EXPIRED", "RMT_DOWN"},
   flags : SUBSET {"POLL", "FINAL"}, rmt_disc : Nat, rmt_min_rx : Nat, rmt_min_tx : Nat,
   cfg_min_tx : Nat, cfg_min_rx : Nat, min_tx : Nat, min_rx : Nat,
   poll_min_tx : Nat, poll_min_rx : Nat,
   since : Nat,      \* ticks since last_tx
   wait : Nat,       \* next_tx - last_tx; 0 for a next_tx of 0
   detect : Nat]     \* ticks to detect_time

-----------------------------------------------------------------------------

in_poll(b) == "POLL" \in b.flags

bfd_min_tx(b) == IF b.state = "UP" THEN b.min_tx ELSE Greatest(b.min_tx, Slow)

bfd_tx_interval(b) == Greatest(bfd_min_tx(b), b.rmt_min_rx)

bfd_rx_interval(b) == Greatest(b.min_rx, b.rmt_min_tx)

\* bfd_set_next_tx: up to a quarter of the interval is taken off at random.
Waits(b) == LET i == bfd_tx_interval(b) IN {i - (i * r) \div 100 : r \in {0, 25}}

bfd_set_state(b, state, diag) ==
  LET c == [b EXCEPT !.state = state, !.diag = diag]
  IN  IF state = "DOWN" /\ (b.state # state \/ b.diag # diag)
      THEN [c EXCEPT !.rmt_min_rx = 1, !.rmt_min_tx = 0, !.rmt_disc = 0]
      ELSE c

bfd_poll(b) ==
  IF b.state # "DOWN" /\ b.flags = {}
  THEN [b EXCEPT !.poll_min_tx = b.cfg_min_tx, !.poll_min_rx = b.cfg_min_rx,
                 !.flags = {"POLL"}, !.wait = 0]
  ELSE b

\* bfd_configure of a new session.
bfd_create(disc, tx, rx) ==
  [disc |-> disc, state |-> "DOWN", diag |-> "NONE", flags |-> {}, rmt_disc |-> 0,
   rmt_min_rx |-> 1, rmt_min_tx |-> 0, cfg_min_tx |-> tx, cfg_min_rx |-> rx,
   min_tx |-> tx, min_rx |-> rx, poll_min_tx |-> 0, poll_min_rx |-> 0,
   since |-> 0, wait |-> 0, detect |-> 0]

\* bfd_configure of a session there is: while it is up, the packets may become
\* more frequent and those of the peer rarer at once, but not the opposite.
bfd_configure(b, tx, rx) ==
  LET now(ok) == b.state # "UP" \/ (~in_poll(b) /\ ok)
      c == [b EXCEPT !.cfg_min_tx = tx, !.cfg_min_rx = rx,
                     !.min_tx = IF tx # b.cfg_min_tx /\ now(tx < @) THEN tx ELSE @,
                     !.min_rx = IF rx # b.cfg_min_rx /\ now(rx > @) THEN rx ELSE @]
  IN  IF tx # b.cfg_min_tx \/ rx # b.cfg_min_rx THEN bfd_poll(c) ELSE b

bfd_run(b) ==
  LET c == IF b.state # "DOWN" /\ b.detect = 0 THEN bfd_set_state(b, "DOWN", "EXPIRED") ELSE b
  IN  IF c.min_tx # c.cfg_min_tx \/ c.min_rx # c.cfg_min_rx THEN bfd_poll(c) ELSE c

bfd_should_send_packet(b) == "FINAL" \in b.flags \/ b.since >= b.wait

\* A plausible bug: the packet announces the configured interval.
bfd_put_packet_Configured(b) ==
  [state |-> b.state, flags |-> b.flags, my_disc |-> b.disc, your_disc |-> b.rmt_disc,
   min_tx |-> IF in_poll(b) THEN b.poll_min_tx ELSE b.min_tx,
   min_rx |-> IF in_poll(b) THEN b.poll_min_rx ELSE b.min_rx]

bfd_put_packet(b) ==
  [state |-> b.state, flags |-> b.flags, my_disc |-> b.disc, your_disc |-> b.rmt_disc,
   min_tx |-> IF in_poll(b) THEN b.poll_min_tx ELSE bfd_min_tx(b),
   min_rx |-> IF in_poll(b) THEN b.poll_min_rx ELSE b.min_rx]

\* A plausible bug: a packet for an earlier session is believed.
Accepts_AnyDisc(b, m) == m.your_disc # 0 \/ m.state = "DOWN"

\* The tests of bfd_process_packet that this peer's packets can fail.
Accepts(b, m) == m.your_disc = b.disc \/ (m.your_disc = 0 /\ m.state = "DOWN")

\* The transitions at the end of bfd_process_packet.
Transition(b, rmt) ==
  CASE b.state = "DOWN" /\ rmt = "DOWN" -> bfd_set_state(b, "INIT", b.diag)
    [] b.state = "DOWN" /\ rmt = "INIT" -> bfd_set_state(b, "UP", b.diag)
    [] b.state = "INIT" /\ rmt # "DOWN" -> bfd_set_state(b, "UP", b.diag)
    [] b.state = "UP" /\ rmt = "DOWN" -> bfd_set_state(b, "DOWN", "RMT_DOWN")
    [] OTHER -> b

\* A plausible bug: the end of the poll sequence does not clear the flag.
Final_KeepsPoll(b) == [b EXCEPT !.min_tx = b.poll_min_tx, !.min_rx = b.poll_min_rx]

\* The end of the poll sequence.
Final(b) == [b EXCEPT !.min_tx = b.poll_min_tx, !.min_rx = b.poll_min_rx, !.flags = @ \ {"POLL"}]

\* bfd_process_packet: the results, one for each random deadline.
bfd_process_packet(b, m) ==
  LET f == IF "FINAL" \in m.flags /\ in_poll(b) THEN Final(b) ELSE b
      p == IF "POLL" \in m.flags THEN [f EXCEPT !.flags = {"FINAL"}] ELSE f
      r == [p EXCEPT !.rmt_disc = m.my_disc, !.rmt_min_rx = Greatest(m.min_rx, 1)]
      w == IF r.rmt_min_rx # b.rmt_min_rx /\ b.wait # 0
           THEN {[r EXCEPT !.wait = i] : i \in Waits(r)} ELSE {r}
      Timed(c) == [c EXCEPT !.rmt_min_tx = Greatest(m.min_tx, 1),
                            !.detect = Mult * Greatest(c.min_rx, Greatest(m.min_tx, 1))]
  IN  IF Accepts(b, m) THEN {Transition(Timed(c), m.state) : c \in w} ELSE {b}

-----------------------------------------------------------------------------

Init ==
  /\ \E set \in [Ends -> Settings] :
       bfd = [x \in Ends |-> bfd_create(1, set[x][1], set[x][2])]
  /\ wire = [x \in Ends |-> <<>>]
  /\ heard = [x \in Ends |-> {}]
  /\ faults = 0
  /\ upset = FALSE

Disturb(bad) ==
  /\ faults < MaxFaults
  /\ faults' = faults + 1
  /\ upset' = (upset \/ bad)

\* monitor_mport_run: a packet, if one is due, then bfd_run.  The link carries
\* one packet at a time each way.
Run(x) ==
  /\ \/ /\ bfd_should_send_packet(bfd[x])
        /\ wire[Peer(x)] = <<>>
        /\ wire' = [wire EXCEPT ![Peer(x)] = <<bfd_put_packet(bfd[x])>>]
        /\ \E c \in {[bfd[x] EXCEPT !.flags = @ \ {"FINAL"}, !.since = 0]} : \E i \in Waits(c) :
             bfd' = [bfd EXCEPT ![x] = bfd_run([c EXCEPT !.wait = i])]
     \/ /\ ~bfd_should_send_packet(bfd[x])
        /\ bfd' = [bfd EXCEPT ![x] = bfd_run(@)]
        /\ UNCHANGED wire
  /\ UNCHANGED <<heard, faults, upset>>

Receive(x) ==
  /\ wire[x] # <<>>
  /\ LET m == Head(wire[x])
     IN  /\ \E b \in bfd_process_packet(bfd[x], m) : bfd' = [bfd EXCEPT ![x] = b]
         /\ heard' = IF Accepts(bfd[x], m)
                     THEN [heard EXCEPT ![Peer(x)] = @ \cup {m.my_disc}] ELSE heard
  /\ wire' = [wire EXCEPT ![x] = Tail(@)]
  /\ UNCHANGED <<faults, upset>>

\* Nothing is due: the deadlines come one tick nearer.
Idle(b) == bfd_run(b) = b /\ ~bfd_should_send_packet(b)

Tick ==
  /\ \A x \in Ends : Idle(bfd[x]) /\ wire[x] = <<>>
  /\ bfd' = [x \in Ends |-> [bfd[x] EXCEPT !.since = @ + 1, !.detect = Greatest(@ - 1, 0)]]
  /\ UNCHANGED <<wire, heard, faults, upset>>

Reconfigure(x) ==
  /\ Disturb(bfd[x].state = "INIT" \/ in_poll(bfd[x]))
  /\ \E set \in Settings \ {<<bfd[x].cfg_min_tx, bfd[x].cfg_min_rx>>} :
       bfd' = [bfd EXCEPT ![x] = bfd_configure(@, set[1], set[2])]
  /\ UNCHANGED <<wire, heard>>

\* The session is removed and made again, or its switch is restarted.
Restart(x) ==
  /\ Disturb(TRUE)
  /\ bfd' = [bfd EXCEPT ![x] = bfd_create(@.disc + 1, @.cfg_min_tx, @.cfg_min_rx)]
  /\ UNCHANGED <<wire, heard>>

Lose(x) ==
  /\ Disturb(TRUE)
  /\ wire[x] # <<>>
  /\ wire' = [wire EXCEPT ![x] = Tail(@)]
  /\ UNCHANGED <<bfd, heard>>

Next ==
  \/ Tick
  \/ \E x \in Ends : Run(x) \/ Receive(x) \/ Restart(x) \/ Lose(x)
  \/ \E x \in Tunable : Reconfigure(x)

Fairness == WF_vars(Tick) /\ \A x \in Ends : WF_vars(Run(x)) /\ WF_vars(Receive(x))

Spec == Init /\ [][Next]_vars /\ Fairness

-----------------------------------------------------------------------------

TypeOK == bfd \in [Ends -> Session]

\* A session is up only if its peer has heard it, this incarnation of it: the
\* link has carried packets in both directions.
UpMeansHeard == \A x \in Ends : bfd[x].state = "UP" => bfd[x].disc \in heard[x]

\* Between two sessions that keep running over a link that loses nothing,
\* the detection time never expires, however the intervals are changed while
\* a session is down, or up and not polling.  A change in INIT or during a
\* poll sequence starts a poll that announces a shorter interval than the one
\* the next packet is scheduled for, and the peer can expire.
NoFalseExpiry ==
  ~upset => \A x \in Ends : bfd[x].diag # "EXPIRED"

\* When the disturbances are over both sessions come up, stay up, and use the
\* intervals that are configured: every poll sequence ends.
Settles ==
  <>[](\A x \in Ends : /\ bfd[x].state = "UP"
                       /\ bfd[x].min_tx = bfd[x].cfg_min_tx
                       /\ bfd[x].min_rx = bfd[x].cfg_min_rx
                       /\ ~in_poll(bfd[x]))

=============================================================================
