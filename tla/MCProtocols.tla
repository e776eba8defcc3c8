---------------------------- MODULE MCProtocols ----------------------------
(***************************************************************************)
(* The protocols that a switch speaks with its neighbours, for TLC: a      *)
(* JSON-RPC session, two BFD sessions, and bridges that run the spanning   *)
(* tree protocol.  They do not interact, so a behaviour is one of any of   *)
(* them: part says which.                                                  *)
(***************************************************************************)
EXTENDS Integers, Sequences

CONSTANTS
  DefaultMinBackoff, DefaultMaxBackoff, DefaultProbeInterval, Horizon, Forever,
  Unlimited, Kinds, MaxBackoffs,
  Ends, Slow, Mult, Settings, Tunable, MaxFaults,
  Bridges, Links, HelloTime, MaxAge, ForwardDelay, HoldTime, Increment, Costs, Ids,
  MaxUpsets

VARIABLES
  part,
  s, kind, host, pending, greeted, silence,
  bfd, packets, heard, faults, upset,
  stp, bpdus, upsets

Session == INSTANCE JsonrpcSession

Bfd == INSTANCE Bfd WITH wire <- packets

Stp == INSTANCE Stp WITH wire <- bpdus

sessionVars == <<s, kind, host, pending, greeted, silence>>
bfdVars == <<bfd, packets, heard, faults, upset>>
stpVars == <<stp, bpdus, upsets>>

vars == <<part, sessionVars, bfdVars, stpVars>>

\* Each end sends quickly and wants to receive slowly, or the reverse.
MCSettings == {<<1, 3>>, <<3, 1>>}

Link(b, p, c, q) == {<<b, p>>, <<c, q>>}

\* Three bridges, each linked to the two others.
MCLinks == {Link(1, 1, 2, 1), Link(2, 2, 3, 1), Link(3, 2, 1, 2)}

-----------------------------------------------------------------------------

Init ==
  /\ part \in {"session", "bfd", "stp"}
  /\ Session!Init /\ Bfd!Init /\ Stp!Init
  /\ part # "session" => kind = CHOOSE k \in Kinds : TRUE
  /\ part # "bfd" => \A x \in Ends : <<bfd[x].cfg_min_tx, bfd[x].cfg_min_rx>> =
                                       CHOOSE set \in Settings : TRUE

InSession == part = "session" /\ UNCHANGED <<part, bfdVars, stpVars>>

InBfd == part = "bfd" /\ UNCHANGED <<part, sessionVars, stpVars>>

InStp == part = "stp" /\ UNCHANGED <<part, sessionVars, bfdVars>>

Next ==
  \/ InSession /\ Session!Next
  \/ InBfd /\ Bfd!Next
  \/ InStp /\ Stp!Next

Spec == Init /\ [][Next]_vars

\* The fairness of each protocol.  Only its own liveness property assumes it.
SessionFairness ==
  /\ WF_vars(part = "session" /\ Session!Run /\ InSession)
  /\ WF_vars(part = "session" /\ Session!jsonrpc_session_recv /\ InSession)
  /\ WF_vars(part = "session" /\ Session!Tick /\ InSession)
  /\ WF_vars(part = "session" /\ Session!PeerAnswers /\ InSession)
  /\ WF_vars(part = "session" /\ Session!PeerConnects /\ InSession)

BfdFairness ==
  /\ WF_vars(InBfd /\ Bfd!Tick)
  /\ \A x \in Ends : WF_vars(InBfd /\ Bfd!Run(x)) /\ WF_vars(InBfd /\ Bfd!Receive(x))

StpFairness == []<><<UNCHANGED upsets>>_vars

-----------------------------------------------------------------------------
(* The properties of the protocols, under the names they have there.  In   *)
(* the behaviours of another, a protocol stays as it began.                *)

\* The state machine of reconnect.c and the pointers of the session agree.
StateTellsStream == Session!StateTellsStream

\* No probed connection outlives two probe intervals of silence.
DeadPeerDropped == Session!DeadPeerDropped

\* The user of a session introduces itself on every new connection.
NewConnectionIsSeen == Session!NewConnectionIsSeen

\* A session that may retry gets a working connection again.
Reconnects == part = "session" /\ SessionFairness => Session!Reconnects

\* A BFD session is up only if its peer has heard this incarnation of it.
UpMeansHeard == Bfd!UpMeansHeard

\* Between sessions that nothing upsets the detection time never expires.
NoFalseExpiry == Bfd!NoFalseExpiry

\* The BFD sessions come up, stay up and use the intervals configured.
Settles == part = "bfd" /\ BfdFairness => Bfd!Settles

\* The links that forward never form a cycle.
NoLoop == part = "stp" => Stp!NoLoop

\* The bridges come to forward over a spanning tree, and stay.
Converges == part = "stp" /\ StpFairness => Stp!Converges
=============================================================================
