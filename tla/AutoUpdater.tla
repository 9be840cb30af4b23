----------------------------- MODULE AutoUpdater -----------------------------
(***************************************************************************)
(* The class AutoUpdater of dqm-brpc.js: a polling loop that is started    *)
(* and stopped, by a tile's Show and Hide buttons for one.                 *)
(***************************************************************************)
EXTENDS PollLoop

Init ==
  /\ running = FALSE /\ hidden \in BOOLEAN
  /\ timers = 0 /\ handle = FALSE /\ inflight = 0

Start ==
  /\ ~ running /\ Chains < MaxChains
  /\ running' = TRUE
  /\ UNCHANGED hidden
  /\ Tick(timers)

\* Slip: the reference outlives the timeout it stood for.
StopKeepsHandle ==
  /\ running
  /\ running' = FALSE
  /\ timers' = IF handle THEN timers - 1 ELSE timers
  /\ UNCHANGED <<hidden, handle, inflight>>

\* stop() clears the timeout it has a reference to.
Stop ==
  /\ running
  /\ running' = FALSE
  /\ timers' = IF handle THEN timers - 1 ELSE timers
  /\ handle' = FALSE
  /\ UNCHANGED <<hidden, inflight>>

Next == Loop \/ Start \/ Stop

Spec == Init /\ [][Next]_vars /\ LoopFairness
=============================================================================
