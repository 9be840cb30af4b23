--------------------------- MODULE PollLoopProofs ---------------------------
(***************************************************************************)
(* The polling loop for any number of chains, in both its forms: no order  *)
(* of starting or resuming, stopping or pausing, hiding, showing and slow  *)
(* answers stalls a tile or the Scope tab, and one that is to be silent    *)
(* runs down.                                                              *)
(***************************************************************************)
EXTENDS PollLoop, TLAPS

Updater == INSTANCE AutoUpdater

Scope == INSTANCE ScopePoll

IInv == TypeOK /\ NeverStalls

\* A tick leaves a request under way exactly when the loop is to be heard.
LEMMA TickKeeps ==
  ASSUME TypeOK, NEW pending \in Nat, Tick(pending),
         running' \in BOOLEAN, hidden' \in BOOLEAN
  PROVE  IInv'
<1>1. /\ timers' \in Nat /\ inflight' \in Nat /\ handle' = FALSE
      /\ running' /\ ~ hidden' => timers' + inflight' > 0
  BY DEF Tick, TypeOK
<1>2. TypeOK'
  BY <1>1 DEF TypeOK
<1>3. QED
  BY <1>1, <1>2 DEF IInv, NeverStalls, Chains

LEMMA LoopIInv == IInv /\ [Loop]_vars => IInv'
<1> SUFFICES ASSUME IInv, [Loop]_vars
             PROVE  IInv'
  OBVIOUS
<1> timers \in Nat /\ inflight \in Nat
  BY DEF IInv, TypeOK
<1>1. CASE Fire
  <2>1. timers - 1 \in Nat
    BY <1>1 DEF Fire
  <2>2. running' \in BOOLEAN /\ hidden' \in BOOLEAN
    BY <1>1 DEF Fire, IInv, TypeOK
  <2>3. QED
    BY <1>1, <2>1, <2>2, TickKeeps DEF Fire, IInv
<1>2. CASE Answer
  <2>1. running' = running /\ hidden' = hidden /\ inflight' = inflight - 1 /\ inflight > 0
    BY <1>2 DEF Answer
  <2>2. CASE running
    <3>1. timers' = timers + 1 /\ handle' = TRUE
      BY <1>2, <2>2 DEF Answer
    <3>2. timers' \in Nat /\ timers' > 0 /\ inflight' \in Nat /\ timers' + inflight' > 0
      BY <2>1, <3>1
    <3>3. QED
      BY <2>1, <3>1, <3>2 DEF IInv, TypeOK, NeverStalls, Chains
  <2>3. CASE ~ running
    <3>1. timers' = timers /\ handle' = handle
      BY <1>2, <2>3 DEF Answer
    <3>2. inflight' \in Nat
      BY <2>1
    <3>3. QED
      BY <2>1, <2>3, <3>1, <3>2 DEF IInv, TypeOK, NeverStalls
  <2>4. QED
    BY <2>2, <2>3
<1>3. CASE Hide
  BY <1>3 DEF Hide, IInv, TypeOK, NeverStalls
<1>4. CASE Show
  <2>1. running' = running /\ hidden' = FALSE /\ running \in BOOLEAN
    BY <1>4 DEF Show, IInv, TypeOK
  <2>2. CASE running /\ ~ handle
    BY <1>4, <2>1, <2>2, TickKeeps DEF Show, IInv
  <2>3. CASE ~ (running /\ ~ handle)
    <3>1. timers' = timers /\ handle' = handle /\ inflight' = inflight
      BY <1>4, <2>3 DEF Show
    <3>2. TypeOK'
      BY <2>1, <3>1 DEF IInv, TypeOK
    <3>3. handle => timers + inflight > 0
      BY DEF IInv, TypeOK
    <3>4. NeverStalls'
      BY <2>1, <2>3, <3>1, <3>3 DEF NeverStalls, Chains
    <3>5. QED
      BY <3>2, <3>4 DEF IInv
  <2>4. QED
    BY <2>2, <2>3
<1>5. CASE UNCHANGED vars
  BY <1>5 DEF vars, IInv, TypeOK, NeverStalls, Chains
<1> QED
  BY <1>1, <1>2, <1>3, <1>4, <1>5 DEF Loop

\* The loop is started or resumed: a request goes out unless the tab is hidden.
Heard == running' = TRUE /\ hidden' = hidden /\ Tick(timers)

LEMMA HeardIInv == IInv /\ Heard => IInv'
BY TickKeeps DEF Heard, IInv, TypeOK

\* The loop is stopped, paused or unloaded: what matters is that the reference is
\* not left to a timeout that was cleared.
Silenced ==
  /\ running' = FALSE /\ hidden' = hidden
  /\ timers' \in Nat /\ inflight' \in Nat /\ handle' \in BOOLEAN
  /\ handle' => timers' > 0

LEMMA SilencedIInv == IInv /\ Silenced => IInv'
BY DEF Silenced, IInv, TypeOK, NeverStalls

Begun ==
  /\ running = FALSE /\ hidden \in BOOLEAN
  /\ timers = 0 /\ handle = FALSE /\ inflight = 0

LEMMA InitIInv == Begun => IInv
<1> SUFFICES ASSUME Begun PROVE IInv
  OBVIOUS
<1>1. /\ running \in BOOLEAN /\ hidden \in BOOLEAN /\ handle \in BOOLEAN
      /\ timers \in Nat /\ inflight \in Nat
  BY DEF Begun
<1> QED
  BY <1>1 DEF IInv, TypeOK, NeverStalls, Begun

-----------------------------------------------------------------------------
LEMMA NextUpdater == IInv /\ [Updater!Next]_(Updater!vars) => IInv'
<1> SUFFICES ASSUME IInv, [Updater!Next]_(Updater!vars) PROVE IInv'
  OBVIOUS
<1>1. CASE Updater!Loop \/ UNCHANGED Updater!vars
  BY <1>1, LoopIInv DEF Updater!Loop, Updater!vars, vars, Updater!Fire, Updater!Answer, Updater!Hide,
     Updater!Show, Updater!Tick, Updater!Chains, Loop, Fire, Answer, Hide, Show, Tick, Chains
<1>2. CASE Updater!Start
  BY <1>2, HeardIInv DEF Updater!Start, Updater!Tick, Heard, Tick
<1>3. CASE Updater!Stop
  <2>1. timers' \in Nat /\ handle' = FALSE /\ inflight' \in Nat
    <3>1. timers \in Nat /\ inflight \in Nat /\ (handle => timers > 0)
      BY DEF IInv, TypeOK
    <3>2. timers' = IF handle THEN timers - 1 ELSE timers
      BY <1>3 DEF Updater!Stop
    <3> QED
      BY <1>3, <3>1, <3>2 DEF Updater!Stop
  <2> QED
    BY <1>3, <2>1, SilencedIInv DEF Updater!Stop, Silenced
<1> QED
  BY <1>1, <1>2, <1>3 DEF Updater!Next

LEMMA UpdaterHolds == Updater!Spec => []IInv
<1>1. Updater!Init => IInv
  BY InitIInv DEF Updater!Init, Begun
<1> QED
  BY <1>1, NextUpdater, PTL DEF Updater!Spec

LEMMA NextScope == IInv /\ [Scope!Next]_(Scope!vars) => IInv'
<1> SUFFICES ASSUME IInv, [Scope!Next]_(Scope!vars) PROVE IInv'
  OBVIOUS
<1>1. CASE Scope!Loop \/ UNCHANGED Scope!vars
  BY <1>1, LoopIInv DEF Scope!Loop, Scope!vars, vars, Scope!Fire, Scope!Answer, Scope!Hide,
     Scope!Show, Scope!Tick, Scope!Chains, Loop, Fire, Answer, Hide, Show, Tick, Chains
<1>2. CASE Scope!Resume
  BY <1>2, HeardIInv DEF Scope!Resume, Scope!Tick, Heard, Tick
<1>3. CASE Scope!Pause
  BY <1>3, SilencedIInv DEF Scope!Pause, Silenced, IInv, TypeOK
<1>4. CASE Scope!Unload
  BY <1>4, SilencedIInv DEF Scope!Unload, Silenced, IInv, TypeOK
<1> QED
  BY <1>1, <1>2, <1>3, <1>4 DEF Scope!Next

LEMMA ScopeHolds == Scope!Spec => []IInv
<1>1. Scope!Init => IInv
  BY InitIInv DEF Scope!Init, Begun
<1> QED
  BY <1>1, NextScope, PTL DEF Scope!Spec

-----------------------------------------------------------------------------
\* Type correctness of a tile's loop: its reference is never to a timeout that
\* expired.
THEOREM UpdaterTypeCorrect == Updater!Spec => []TypeOK
<1>1. IInv => TypeOK
  BY DEF IInv
<1> QED
  BY <1>1, UpdaterHolds, PTL

\* A tile's loop that runs in a visible tab has a request under way or a timeout
\* that will send one, for any number of chains.
THEOREM UpdaterNeverStalls == Updater!Spec => []NeverStalls
<1>1. IInv => NeverStalls
  BY DEF IInv
<1> QED
  BY <1>1, UpdaterHolds, PTL

\* Type correctness of the Scope tab's loop.
THEOREM ScopeTypeCorrect == Scope!Spec => []TypeOK
<1>1. IInv => TypeOK
  BY DEF IInv
<1> QED
  BY <1>1, ScopeHolds, PTL

\* The Scope tab's loop, unless it is paused or hidden, has a request under way or
\* a timeout that will send one, for any number of chains.
THEOREM ScopeNeverStalls == Scope!Spec => []NeverStalls
<1>1. IInv => NeverStalls
  BY DEF IInv
<1> QED
  BY <1>1, ScopeHolds, PTL

-----------------------------------------------------------------------------
(* The safety half of FallsSilent.  A loop that is to be silent sends      *)
(* nothing, and each timeout that expires and each answer brings it closer *)
(* to owing nothing.                                                       *)

Silent == hidden \/ ~ running

\* A request under way may still become a timeout, a timeout nothing.
Owed == 2 * inflight + timers

RunsDown ==
  Silent /\ Silent' =>
    /\ inflight' <= inflight /\ Owed' <= Owed
    /\ Fire \/ Answer => Owed' < Owed

LEMMA LoopRunsDown == IInv /\ [Loop]_vars => RunsDown
<1> SUFFICES ASSUME IInv, [Loop]_vars, Silent, Silent'
             PROVE  /\ inflight' <= inflight /\ Owed' <= Owed
                    /\ Fire \/ Answer => Owed' < Owed
  BY DEF RunsDown
<1>0. timers \in Nat /\ inflight \in Nat
  BY DEF IInv, TypeOK
<1>1. ASSUME Fire
      PROVE  inflight' = inflight /\ timers' = timers - 1 /\ Owed' < Owed
  <2>1. inflight' = inflight /\ timers' = timers - 1
    BY <1>1 DEF Fire, Tick, Silent
  <2> QED
    BY <1>0, <2>1 DEF Owed
<1>2. ASSUME Answer
      PROVE  /\ inflight' = inflight - 1 /\ (timers' = timers \/ timers' = timers + 1)
             /\ inflight > 0 /\ Owed' < Owed
  <2>1. inflight' = inflight - 1 /\ inflight > 0 /\ (timers' = timers \/ timers' = timers + 1)
    BY <1>2 DEF Answer
  <2> QED
    BY <1>0, <2>1 DEF Owed
<1>3. CASE Fire
  BY <1>0, <1>1, <1>2, <1>3 DEF Owed
<1>4. CASE Answer
  BY <1>0, <1>1, <1>2, <1>4 DEF Owed
<1>5. CASE Hide \/ Show \/ UNCHANGED vars
  <2>1. UNCHANGED <<timers, inflight>>
    BY <1>5 DEF Hide, Show, Tick, Silent, vars
  <2> QED
    BY <1>0, <1>1, <1>2, <2>1 DEF Owed
<1> QED
  BY <1>3, <1>4, <1>5 DEF Loop

\* What sends nothing and adds no timeout is neither an expiry nor an answer that
\* leaves things as they were.
LEMMA QuietRunsDown ==
  ASSUME IInv, inflight' \in Nat, timers' \in Nat, inflight' = inflight,
         timers' <= timers
  PROVE  RunsDown
<1>1. Fire => timers' = timers - 1
  BY DEF Fire, Tick
<1>2. ~ Answer
  BY DEF Answer, IInv, TypeOK
<1>3. timers \in Nat /\ inflight \in Nat
  BY DEF IInv, TypeOK
<1>4. Owed' <= Owed /\ (timers' = timers - 1 => Owed' < Owed)
  <2>1. \A n, s, t \in Nat : t <= s =>
          /\ 2 * n + t <= 2 * n + s
          /\ t = s - 1 => 2 * n + t < 2 * n + s
    OBVIOUS
  <2> QED
    BY <1>3, <2>1 DEF Owed
<1>5. inflight' <= inflight
  BY <1>3
<1> QED
  BY <1>1, <1>2, <1>4, <1>5 DEF RunsDown

LEMMA UpdaterStepRunsDown == IInv /\ [Updater!Next]_(Updater!vars) => RunsDown
<1> SUFFICES ASSUME IInv, [Updater!Next]_(Updater!vars) PROVE RunsDown
  OBVIOUS
<1>0. timers \in Nat /\ inflight \in Nat /\ (handle => timers > 0)
  BY DEF IInv, TypeOK
<1>1. CASE Updater!Loop \/ UNCHANGED Updater!vars
  BY <1>1, LoopRunsDown DEF Updater!Loop, Updater!vars, vars, Updater!Fire, Updater!Answer,
     Updater!Hide, Updater!Show, Updater!Tick, Updater!Chains, Loop, Fire, Answer, Hide, Show,
     Tick, Chains
<1>2. CASE Updater!Start
  <2>1. CASE Silent'
    <3>1. inflight' = inflight /\ timers' = timers
      BY <1>2, <2>1 DEF Updater!Start, Updater!Tick, Silent
    <3> QED
      BY <1>0, <3>1, QuietRunsDown
  <2> QED
    BY <2>1 DEF RunsDown
<1>3. CASE Updater!Stop
  <2>1. inflight' = inflight /\ timers' \in Nat /\ timers' <= timers
    BY <1>0, <1>3 DEF Updater!Stop
  <2> QED
    BY <1>0, <2>1, QuietRunsDown
<1> QED
  BY <1>1, <1>2, <1>3 DEF Updater!Next

LEMMA ScopeStepRunsDown == IInv /\ [Scope!Next]_(Scope!vars) => RunsDown
<1> SUFFICES ASSUME IInv, [Scope!Next]_(Scope!vars) PROVE RunsDown
  OBVIOUS
<1>0. timers \in Nat /\ inflight \in Nat
  BY DEF IInv, TypeOK
<1>1. CASE Scope!Loop \/ UNCHANGED Scope!vars
  BY <1>1, LoopRunsDown DEF Scope!Loop, Scope!vars, vars, Scope!Fire, Scope!Answer, Scope!Hide,
     Scope!Show, Scope!Tick, Scope!Chains, Loop, Fire, Answer, Hide, Show, Tick, Chains
<1>2. CASE Scope!Resume
  <2>1. CASE Silent'
    <3>1. inflight' = inflight /\ timers' = timers
      BY <1>2, <2>1 DEF Scope!Resume, Scope!Tick, Silent
    <3> QED
      BY <1>0, <3>1, QuietRunsDown
  <2> QED
    BY <2>1 DEF RunsDown
<1>3. CASE Scope!Pause
  BY <1>0, <1>3, QuietRunsDown DEF Scope!Pause
<1>4. CASE Scope!Unload
  <2>1. inflight' = 0 /\ timers' = 0
    BY <1>4 DEF Scope!Unload
  <2>2. Fire \/ Answer => Owed > 0
    BY <1>0 DEF Fire, Answer, Owed
  <2> QED
    BY <1>0, <2>1, <2>2 DEF RunsDown, Owed
<1> QED
  BY <1>1, <1>2, <1>3, <1>4 DEF Scope!Next

\* While a tile is stopped or its page hidden, nothing is asked for, and what is
\* still owed runs down: with timeouts that expire and requests that are answered,
\* there comes an end.
THEOREM UpdaterRunsDown == Updater!Spec => [][RunsDown]_vars
<1>1. IInv /\ [Updater!Next]_(Updater!vars) => [RunsDown]_vars
  BY UpdaterStepRunsDown
<1> QED
  BY <1>1, UpdaterHolds, PTL DEF Updater!Spec

\* The same of the Scope tab's loop, which is paused without clearing its timeout.
THEOREM ScopeRunsDown == Scope!Spec => [][RunsDown]_vars
<1>1. IInv /\ [Scope!Next]_(Scope!vars) => [RunsDown]_vars
  BY ScopeStepRunsDown
<1> QED
  BY <1>1, ScopeHolds, PTL DEF Scope!Spec
=============================================================================
