------------------------------ MODULE ScopePoll ------------------------------
(***************************************************************************)
(* poll(), rearm() and the Pause button of dqm-scope.js: a polling loop    *)
(* that runs from the moment the tab is built, and whose button flips a    *)
(* flag and leaves any pending timeout alone.                              *)
(***************************************************************************)
EXTENDS PollLoop

\* The loop does not run until the tab is built.
Init ==
  /\ running = FALSE /\ hidden \in BOOLEAN
  /\ timers = 0 /\ handle = FALSE /\ inflight = 0

Pause ==
  /\ running
  /\ running' = FALSE
  /\ UNCHANGED <<hidden, timers, handle, inflight>>

\* Slip: resuming leaves the request to a pending timeout or to nothing.
ResumeWaits ==
  /\ ~ running /\ Chains < MaxChains
  /\ running' = TRUE
  /\ UNCHANGED <<hidden, timers, handle, inflight>>

\* Resume polls at once, and so does the tab when it is built.
Resume ==
  /\ ~ running /\ Chains < MaxChains
  /\ running' = TRUE
  /\ UNCHANGED hidden
  /\ Tick(timers)

\* The page is loaded again: its timeouts and requests are gone.
Unload ==
  /\ running' = FALSE /\ timers' = 0 /\ handle' = FALSE /\ inflight' = 0
  /\ UNCHANGED hidden

Next == Loop \/ Pause \/ Resume \/ Unload

Spec == Init /\ [][Next]_vars /\ LoopFairness
=============================================================================
