--------------------------- MODULE HistTileProofs ---------------------------
(***************************************************************************)
(* HistTile for any number of chains, changes and outages: one request and *)
(* one graph, and nothing older drawn over something newer, as long as no  *)
(* tick was sent beside one that was awaited.                              *)
(***************************************************************************)
EXTENDS HistTile, FiniteSetTheorems, TLAPS

LoopProofs == INSTANCE PollLoopProofs WITH inflight <- Cardinality(UnderWay)

UpdaterStep ==
  \/ Updater!Start \/ Updater!Stop
  \/ Updater!Fire \/ Updater!Answer \/ Updater!Hide \/ Updater!Show

-----------------------------------------------------------------------------
\* A call and a reply are not None.
LEMMA AskIsACall == \A what \in {"title", "counts", "window"} :
                      Ask(what) \in Call /\ Ask(what) # None
<1> SUFFICES ASSUME NEW what \in {"title", "counts", "window"}
             PROVE  Ask(what) \in Call /\ Ask(what) # None
  OBVIOUS
<1>1. FirstMax \in Nat
  BY SizesAssumption
<1>2. Ask(what) \in Call
  BY <1>1 DEF Ask, Call
<1>3. QED
  BY <1>2, NoneAssumption

LEMMA FirstAskIsACall == FirstAsk \in Call /\ FirstAsk # None
BY AskIsACall DEF FirstAsk

\* What the number of ticks under way says of them.
LEMMA Counting ==
  /\ IsFiniteSet(UnderWay) /\ Cardinality(UnderWay) \in Nat
  /\ Cardinality(UnderWay) = 0 <=> UnderWay = {}
  /\ Cardinality(UnderWay) <= 1 => \A i, j \in UnderWay : i = j
<1>1. IsFiniteSet(Slots)
  BY FS_Interval, ChainsAssumption DEF Slots
<1>2. IsFiniteSet(UnderWay)
  BY <1>1, FS_Subset DEF UnderWay
<1>3. Cardinality(UnderWay) \in Nat
  BY <1>2, FS_CardinalityType
<1>4. Cardinality(UnderWay) = 0 <=> UnderWay = {}
  BY <1>2, FS_EmptySet
<1>5. ASSUME Cardinality(UnderWay) <= 1
      PROVE  \A i, j \in UnderWay : i = j
  <2>1. CASE Cardinality(UnderWay) = 0
    BY <2>1, <1>4
  <2>2. CASE Cardinality(UnderWay) = 1
    <3>1. PICK x : UnderWay = {x}
      BY <2>2, <1>2, FS_Singleton
    <3>2. QED
      BY <3>1
  <2>3. QED
    BY <1>3, <1>5, <2>1, <2>2
<1>6. QED
  BY <1>2, <1>3, <1>4, <1>5

\* The updater sends one more tick, or none.
LEMMA Sending ==
  ASSUME ticks \in [Slots -> Call \union {None}], MayTick
  PROVE  /\ ticks' \in [Slots -> Call \union {None}]
         /\ \/ ticks' = ticks /\ UnderWay' = UnderWay
               /\ Cardinality(UnderWay)' = Cardinality(UnderWay)
            \/ /\ Cardinality(UnderWay)' = Cardinality(UnderWay) + 1
               /\ \E i \in Slots \ UnderWay :
                    /\ UnderWay' = UnderWay \union {i}
                    /\ ticks' = [ticks EXCEPT ![i] = FirstAsk]
<1>1. CASE UNCHANGED ticks
  <2>1. UnderWay' = UnderWay
    BY <1>1 DEF UnderWay
  <2>2. QED
    BY <1>1, <2>1
<1>2. CASE ~ UNCHANGED ticks
  <2>1. PICK i \in Slots \ UnderWay : ticks' = [ticks EXCEPT ![i] = FirstAsk]
    BY <1>2 DEF MayTick
  <2>2. ticks' \in [Slots -> Call \union {None}]
    BY <2>1, FirstAskIsACall
  <2>3. UnderWay' = UnderWay \union {i}
    BY <2>1, FirstAskIsACall DEF UnderWay
  <2>4. Cardinality(UnderWay \union {i}) = Cardinality(UnderWay) + 1
    BY Counting, FS_AddElement
  <2>5. Cardinality(UnderWay)' = Cardinality(UnderWay) + 1
    BY <2>3, <2>4
  <2>6. QED
    BY <2>1, <2>2, <2>3, <2>5
<1>3. QED
  BY <1>1, <1>2

\* A tick that goes on to another call stays one of those under way.
LEMMA GoingOn ==
  ASSUME ticks \in [Slots -> Call \union {None}],
         NEW i \in UnderWay, NEW call \in Call, GoesOn(i, call)
  PROVE  /\ ticks' \in [Slots -> Call \union {None}]
         /\ ticks' = [ticks EXCEPT ![i] = call]
         /\ UnderWay' = UnderWay
         /\ Cardinality(UnderWay)' = Cardinality(UnderWay)
<1>1. ticks' = [ticks EXCEPT ![i] = call] /\ call # None /\ i \in Slots
  BY NoneAssumption DEF GoesOn, UnderWay
<1>2. ticks' \in [Slots -> Call \union {None}]
  BY <1>1
<1>3. UnderWay' = UnderWay
  BY <1>1 DEF UnderWay
<1>4. QED
  BY <1>1, <1>2, <1>3

\* A tick that ends is one less, and the updater takes note of it.
LEMMA Ending ==
  ASSUME ticks \in [Slots -> Call \union {None}],
         NEW i \in UnderWay, Ends(i)
  PROVE  /\ ticks' \in [Slots -> Call \union {None}]
         /\ ticks' = [ticks EXCEPT ![i] = None]
         /\ UnderWay' = UnderWay \ {i}
         /\ Cardinality(UnderWay)' = Cardinality(UnderWay) - 1
         /\ Updater!Answer
<1>1. ticks' = [ticks EXCEPT ![i] = None] /\ i \in Slots /\ Updater!Answer
  BY DEF Ends, UnderWay
<1>2. ticks' \in [Slots -> Call \union {None}]
  BY <1>1
<1>3. UnderWay' = UnderWay \ {i}
  BY <1>1 DEF UnderWay
<1>4. Cardinality(UnderWay \ {i}) = Cardinality(UnderWay) - 1
  BY Counting, FS_RemoveElement
<1>5. Cardinality(UnderWay)' = Cardinality(UnderWay) - 1
  BY <1>3, <1>4
<1>6. QED
  BY <1>1, <1>2, <1>3, <1>5

\* What a step of the updater leaves of its own state.
LEMMA LoopType ==
  ASSUME LoopProofs!IInv, UpdaterStep \/ UNCHANGED <<loop, Cardinality(UnderWay)>>
  PROVE  LoopProofs!IInv'
<1>1. UpdaterStep => LoopProofs!Updater!Next
  BY DEF UpdaterStep, LoopProofs!Updater!Next, LoopProofs!Updater!Loop,
         Updater!Start, Updater!Stop, Updater!Fire, Updater!Answer, Updater!Hide, Updater!Show,
         Updater!Tick, Updater!Chains,
         LoopProofs!Updater!Start, LoopProofs!Updater!Stop, LoopProofs!Updater!Fire,
         LoopProofs!Updater!Answer, LoopProofs!Updater!Hide, LoopProofs!Updater!Show,
         LoopProofs!Updater!Tick, LoopProofs!Updater!Chains
<1>2. UNCHANGED <<loop, Cardinality(UnderWay)>> => UNCHANGED LoopProofs!Updater!vars
  BY DEF loop, LoopProofs!Updater!vars
<1>3. QED
  <2>1. LoopProofs!Updater!Next \/ UNCHANGED LoopProofs!Updater!vars
    BY <1>1, <1>2
  <2>2. QED
    BY <2>1, LoopProofs!NextUpdater

-----------------------------------------------------------------------------
\* TypeOK, in parts.
TicksType == ticks \in [Slots -> Call \union {None}]

Values ==
  /\ graphs \in Nat
  /\ plot \in Nat \union {None} /\ chip \in Nat \union {None}
  /\ note \in {"asking", "none", "nothing answered", "stopped answering"}
  /\ rolling \in BOOLEAN /\ exists \in BOOLEAN /\ up \in BOOLEAN
  /\ overlapped \in BOOLEAN
  /\ state \in Nat /\ size \in Sizes /\ outages \in Nat

Graphed == (\E i \in UnderWay : ticks[i].wants # "title") \/ plot # None => graphs > 0

Typed == LoopProofs!IInv /\ TicksType /\ Values /\ Graphed

LEMMA TypedIsTypeOK == Typed => TypeOK
BY DEF Typed, TypeOK, TicksType, Values, Graphed,
       LoopProofs!IInv, LoopProofs!TypeOK, Updater!TypeOK

\* A tick under way makes a call.
LEMMA CallsUnderWay ==
  ASSUME TicksType
  PROVE  \A i \in UnderWay :
           /\ i \in Slots /\ ticks[i] \in Call /\ ticks[i].wants \in {"title", "counts", "window"}
           /\ ticks[i].reply # None => ticks[i].reply \in Reply /\ ticks[i].reply.state \in Nat
                                       /\ ticks[i].reply.size \in Nat
<1> SUFFICES ASSUME NEW i \in UnderWay
             PROVE  /\ i \in Slots /\ ticks[i] \in Call /\ ticks[i].wants \in {"title", "counts", "window"}
                    /\ ticks[i].reply # None => ticks[i].reply \in Reply /\ ticks[i].reply.state \in Nat
                                                /\ ticks[i].reply.size \in Nat
  OBVIOUS
<1>1. i \in Slots /\ ticks[i] \in Call
  BY DEF TicksType, UnderWay
<1>2. ticks[i].wants \in {"title", "counts", "window"} /\ ticks[i].reply \in Reply \union {None}
  BY <1>1 DEF Call
<1>3. ticks[i].reply # None => ticks[i].reply.state \in Nat /\ ticks[i].reply.size \in Nat
  BY <1>2, SizesAssumption DEF Reply
<1>4. QED
  BY <1>1, <1>2, <1>3

\* The four ways a step changes the ticks and the updater.
Quiet == UNCHANGED <<loop, ticks>>

LEMMA QuietKeeps == TicksType /\ Quiet => TicksType' /\ UnderWay' = UnderWay
                                          /\ Cardinality(UnderWay)' = Cardinality(UnderWay)
BY DEF TicksType, Quiet, UnderWay, Slots

\* What an answered call goes on to is a call.
LEMMA NextCalls ==
  ASSUME TicksType, Values, NEW i \in UnderWay
  PROVE  /\ [ticks[i] EXCEPT !.reply = Current] \in Call
         /\ ticks[i].reply # None =>
              [ticks[i] EXCEPT !.max = ticks[i].reply.size,
                               !.again = TRUE, !.reply = None] \in Call
<1>1. ticks[i] \in Call
  BY CallsUnderWay
<1>2. Current \in Reply
  BY DEF Current, Values, Reply
<1>3. [ticks[i] EXCEPT !.reply = Current] \in Call
  BY <1>1, <1>2 DEF Call
<1>4. ASSUME ticks[i].reply # None
      PROVE  [ticks[i] EXCEPT !.max = ticks[i].reply.size,
                              !.again = TRUE, !.reply = None] \in Call
  <2>1. ticks[i].reply.size \in Nat
    BY <1>4, CallsUnderWay
  <2>2. QED
    BY <1>1, <2>1 DEF Call
<1>5. QED
  BY <1>3, <1>4

\* Every step moves the ticks in one of the ways of the lemmas above, and the
\* updater by one of its own steps or not at all.
LEMMA Moves ==
  ASSUME Typed, [Next]_vars
  PROVE  /\ TicksType'
         /\ UpdaterStep \/ UNCHANGED <<loop, Cardinality(UnderWay)>>
<1> USE DEF Typed
<1>1. CASE Resumes
  BY <1>1, Sending DEF Resumes, TicksType, UpdaterStep
<1>2. CASE Pauses
  BY <1>2 DEF Pauses, TicksType, UpdaterStep, Slots
<1>3. CASE Expires
  BY <1>3, Sending DEF Expires, TicksType, UpdaterStep
<1>4. ASSUME NEW i \in Slots, Serve(i)
      PROVE  TicksType' /\ UNCHANGED <<loop, Cardinality(UnderWay)>>
  BY <1>4, NextCalls, GoingOn DEF Serve, TicksType, GoesOn
<1>5. ASSUME NEW i \in Slots, Build(i)
      PROVE  TicksType' /\ UNCHANGED <<loop, Cardinality(UnderWay)>>
  BY <1>5, AskIsACall, GoingOn DEF Build, Answered, Awaits, TicksType, GoesOn
<1>6. ASSUME NEW i \in Slots, Retry(i)
      PROVE  TicksType' /\ UNCHANGED <<loop, Cardinality(UnderWay)>>
  BY <1>6, NextCalls, GoingOn DEF Retry, Answered, Awaits, TicksType, GoesOn
<1>7. ASSUME NEW i \in Slots, Draw(i)
      PROVE  TicksType' /\ (UpdaterStep \/ UNCHANGED <<loop, Cardinality(UnderWay)>>)
  <2>1. i \in UnderWay /\ (GoesOn(i, Ask("window")) \/ Ends(i))
    BY <1>7 DEF Draw, Answered, Awaits
  <2>2. CASE GoesOn(i, Ask("window"))
    BY <2>1, <2>2, AskIsACall, GoingOn DEF TicksType, GoesOn
  <2>3. CASE Ends(i)
    BY <2>1, <2>3, Ending DEF TicksType, UpdaterStep
  <2>4. QED
    BY <2>1, <2>2, <2>3
<1>8. ASSUME NEW i \in Slots, Say(i) \/ Fail(i)
      PROVE  TicksType' /\ UpdaterStep
  <2>1. i \in UnderWay /\ Ends(i)
    BY <1>8 DEF Say, Fail, Answered, Awaits
  <2>2. QED
    BY <2>1, Ending DEF TicksType, UpdaterStep
<1>9. CASE Change \/ Vanish \/ ComeAndGo \/ UNCHANGED vars
  <2>1. Quiet
    BY <1>9 DEF Change, Vanish, ComeAndGo, vars, Quiet
  <2>2. QED
    BY <2>1, QuietKeeps DEF Quiet
<1>10. QED
  BY <1>1, <1>2, <1>3, <1>4, <1>5, <1>6, <1>7, <1>8, <1>9 DEF Next, Settle

LEMMA NextValues == Typed /\ [Next]_vars => Values'
<1> SUFFICES ASSUME Typed, [Next]_vars
             PROVE  Values'
  OBVIOUS
<1>0. Values /\ state \in Nat /\ outages \in Nat
  BY DEF Typed, Values
<1>1. CASE Resumes
  BY <1>0, <1>1 DEF Resumes, tile, analyzer, Values
<1>2. CASE Pauses \/ Expires
  BY <1>0, <1>2 DEF Pauses, Expires, tile, analyzer, Values
<1>3. ASSUME NEW i \in Slots, Serve(i) \/ Build(i) \/ Retry(i)
      PROVE  Values'
  <2>1. graphs' = graphs \/ graphs' = graphs + 1
    BY <1>3 DEF Serve, Build, Retry, tile
  <2>2. graphs \in Nat
    BY <1>0 DEF Values
  <2>3. graphs' \in Nat
    BY <2>1, <2>2
  <2>4. UNCHANGED <<plot, chip, note, analyzer, overlapped>>
    BY <1>3 DEF Serve, Build, Retry, tile
  <2>5. QED
    BY <1>0, <2>3, <2>4 DEF Values, analyzer
<1>4. ASSUME NEW i \in Slots, Draw(i) \/ Say(i)
      PROVE  Values'
  <2>1. ticks[i].reply.state \in Nat
    BY <1>4, CallsUnderWay DEF Draw, Say, Answered, Awaits, Typed
  <2>2. /\ plot' = plot \/ plot' = ticks[i].reply.state
        /\ chip' = chip \/ chip' = ticks[i].reply.state
        /\ note' = note \/ note' = "none"
        /\ UNCHANGED <<graphs, analyzer, overlapped>>
    BY <1>4 DEF Draw, Say
  <2>3. QED
    BY <1>0, <2>1, <2>2 DEF analyzer, Values
<1>5. ASSUME NEW i \in Slots, Fail(i)
      PROVE  Values'
  BY <1>0, <1>5 DEF Fail, Complains, analyzer, Values
<1>6. CASE Change
  <2>1. state' = state + 1 /\ size' \in Sizes
    BY <1>6 DEF Change
  <2>2. state' \in Nat
    BY <1>0, <2>1
  <2>3. exists' \in BOOLEAN /\ UNCHANGED <<tile, rolling, up, outages, overlapped>>
    BY <1>6 DEF Change
  <2>4. QED
    BY <1>0, <2>1, <2>2, <2>3 DEF tile, Values
<1>7. CASE Vanish \/ ComeAndGo
  <2>1. outages' = outages \/ outages' = outages + 1
    BY <1>7 DEF Vanish, ComeAndGo
  <2>2. outages' \in Nat
    BY <1>0, <2>1
  <2>3. /\ exists' \in BOOLEAN /\ up' \in BOOLEAN
        /\ UNCHANGED <<tile, rolling, state, size, overlapped>>
    BY <1>0, <1>7 DEF Vanish, ComeAndGo, Values
  <2>4. QED
    BY <1>0, <2>2, <2>3 DEF tile, Values
<1>8. CASE UNCHANGED vars
  BY <1>0, <1>8 DEF vars, tile, analyzer, Values
<1>9. QED
  BY <1>1, <1>2, <1>3, <1>4, <1>5, <1>6, <1>7, <1>8 DEF Next, Settle

LEMMA NextGraphed == Typed /\ [Next]_vars => Graphed'
<1> SUFFICES ASSUME Typed, [Next]_vars
             PROVE  Graphed'
  OBVIOUS
<1> USE DEF Typed
<1>0. graphs \in Nat
  BY DEF Values
<1>1. CASE Resumes \/ Expires
  <2>1. MayTick /\ UNCHANGED <<graphs, plot>>
    BY <1>1 DEF Resumes, Expires, tile
  <2>2. CASE ticks' = ticks /\ UnderWay' = UnderWay
    BY <2>1, <2>2 DEF Graphed
  <2>3. CASE \E i \in Slots \ UnderWay : /\ UnderWay' = UnderWay \union {i}
                                          /\ ticks' = [ticks EXCEPT ![i] = FirstAsk]
    <3>1. PICK i \in Slots \ UnderWay : /\ UnderWay' = UnderWay \union {i}
                                        /\ ticks' = [ticks EXCEPT ![i] = FirstAsk]
      BY <2>3
    <3>2. \A j \in UnderWay : ticks'[j] = ticks[j]
      BY <3>1 DEF TicksType, UnderWay
    <3>3. ticks'[i] = FirstAsk
      BY <3>1 DEF TicksType
    <3>4. ticks'[i].wants # "title" => graphs > 0
      BY <3>3, <1>0 DEF FirstAsk, Ask
    <3>5. QED
      BY <2>1, <3>1, <3>2, <3>4 DEF Graphed
  <2>4. QED
    BY <2>1, <2>2, <2>3, Sending DEF TicksType
<1>2. CASE Pauses
  BY <1>2 DEF Pauses, tile, Graphed, UnderWay, Slots
<1>3. ASSUME NEW i \in Slots, Serve(i) \/ Retry(i)
      PROVE  Graphed'
  <2>1. PICK call \in Call : /\ i \in UnderWay /\ call.wants = ticks[i].wants
                             /\ GoesOn(i, call) /\ UNCHANGED <<graphs, plot>>
    <3>1. i \in UnderWay
      BY <1>3 DEF Serve, Retry, Answered, Awaits
    <3>2. ticks[i] \in Call
      BY <3>1, CallsUnderWay
    <3>3. CASE Serve(i)
      <4>1. [ticks[i] EXCEPT !.reply = Current].wants = ticks[i].wants
        BY <3>2 DEF Call
      <4>2. QED
        BY <3>1, <3>3, <4>1, NextCalls DEF Serve, tile
    <3>4. CASE Retry(i)
      <4>1. [ticks[i] EXCEPT !.max = ticks[i].reply.size,
                             !.again = TRUE, !.reply = None].wants = ticks[i].wants
        BY <3>2 DEF Call
      <4>2. QED
        BY <3>1, <3>4, <4>1, NextCalls DEF Retry, Answered, tile
    <3>5. QED
      BY <1>3, <3>3, <3>4
  <2>2. UnderWay' = UnderWay /\ \A j \in UnderWay : ticks'[j].wants = ticks[j].wants
    BY <2>1, GoingOn DEF TicksType, UnderWay
  <2>3. QED
    BY <2>1, <2>2 DEF Graphed
<1>4. ASSUME NEW i \in Slots, Build(i)
      PROVE  Graphed'
  <2>1. graphs' = graphs + 1
    BY <1>4 DEF Build
  <2>2. QED
    BY <1>0, <2>1 DEF Graphed
<1>5. ASSUME NEW i \in Slots, Draw(i) \/ Say(i)
      PROVE  Graphed'
  <2>1. i \in UnderWay /\ ticks[i].wants # "title" /\ graphs' = graphs
    BY <1>5 DEF Draw, Say, Answered, Awaits
  <2>2. QED
    BY <2>1 DEF Graphed
<1>6. ASSUME NEW i \in Slots, Fail(i)
      PROVE  Graphed'
  <2>1. i \in UnderWay /\ Ends(i) /\ UNCHANGED <<graphs, plot>>
    BY <1>6 DEF Fail
  <2>2. UnderWay' = UnderWay \ {i} /\ \A j \in UnderWay \ {i} : ticks'[j] = ticks[j]
    BY <2>1, Ending DEF TicksType, UnderWay
  <2>3. QED
    BY <2>1, <2>2 DEF Graphed
<1>7. CASE Change \/ Vanish \/ ComeAndGo \/ UNCHANGED vars
  BY <1>7 DEF Change, Vanish, ComeAndGo, vars, tile, Graphed, UnderWay, Slots
<1>8. QED
  BY <1>1, <1>2, <1>3, <1>4, <1>5, <1>6, <1>7 DEF Next, Settle

LEMMA NextTyped == Typed /\ [Next]_vars => Typed'
<1>1. Typed /\ [Next]_vars => LoopProofs!IInv'
  BY Moves, LoopType DEF Typed
<1>2. QED
  BY <1>1, Moves, NextValues, NextGraphed DEF Typed

LEMMA InitTyped == Init => Typed
<1> SUFFICES ASSUME Init
             PROVE  Typed
  OBVIOUS
<1>1. UnderWay = {} /\ TicksType
  BY DEF Init, UnderWay, TicksType
<1>2. LoopProofs!IInv
  <2>1. LoopProofs!Begun
    BY DEF Init, Updater!Init, LoopProofs!Begun
  <2>2. QED
    BY <2>1, LoopProofs!InitIInv
<1>3. Values /\ Graphed
  BY <1>1 DEF Init, Values, Graphed
<1>4. QED
  BY <1>1, <1>2, <1>3 DEF Typed

\* A tile implements its AutoUpdater: a tick, though it makes up to four calls and awaits
\* each, is one request to the loop, which is answered once.
THEOREM TileImplementsUpdater == Spec => Updater!Init /\ [][Updater!Next]_(Updater!vars)
<1>1. Init => Updater!Init
  BY DEF Init
<1>2. Typed /\ [Next]_vars => [Updater!Next]_(Updater!vars)
  <2>1. UpdaterStep => Updater!Next
    BY DEF UpdaterStep, Updater!Next, Updater!Loop
  <2>2. UNCHANGED <<loop, Cardinality(UnderWay)>> => UNCHANGED Updater!vars
    BY DEF loop, Updater!vars
  <2>3. QED
    BY <2>1, <2>2, Moves
<1>3. QED
  BY <1>1, <1>2, InitTyped, NextTyped, PTL DEF Spec

\* Type correctness of a tile, whatever its updater, the analyzer and the
\* operator do; a plot and its chip are drawn only where there is a graph.
THEOREM TypeCorrect == Spec => []TypeOK
<1>1. QED
  BY InitTyped, NextTyped, TypedIsTypeOK, PTL DEF Spec

-----------------------------------------------------------------------------
\* Unless ticks were overlapped: one chain, whose pending timeout is the one the
\* updater refers to and is pending only while it runs; a tick that still waits
\* for its graph is the one that will build the first.
OneChain == ~ overlapped =>
  /\ Cardinality(UnderWay) + timers <= 1
  /\ timers > 0 => handle /\ running
  /\ graphs <= 1
  /\ \A i \in UnderWay : ticks[i].wants = "title" => graphs = 0

LEMMA NextOneChain == Typed /\ OneChain /\ [Next]_vars => OneChain'
<1> SUFFICES ASSUME Typed, OneChain, [Next]_vars, ~ overlapped'
             PROVE  OneChain'
  BY DEF OneChain
<1>0. /\ timers \in Nat /\ graphs \in Nat /\ Cardinality(UnderWay) \in Nat
      /\ TicksType
  BY Counting DEF Typed, LoopProofs!IInv, LoopProofs!TypeOK, Values
<1>1. ~ overlapped
  BY DEF Next, vars, Resumes, Pauses, Expires, Serve, Settle, Build, Retry, Draw, Say, Fail,
         Change, Vanish, ComeAndGo
<1>2. /\ Cardinality(UnderWay) + timers <= 1
      /\ timers > 0 => handle /\ running
      /\ graphs <= 1
      /\ \A i \in UnderWay : ticks[i].wants = "title" => graphs = 0
  BY <1>1 DEF OneChain
<1>3. ASSUME NEW i \in UnderWay
      PROVE  Cardinality(UnderWay) = 1 /\ timers = 0 /\ \A j \in UnderWay : j = i
  <2>1. Cardinality(UnderWay) # 0
    BY <1>3, Counting
  <2>2. Cardinality(UnderWay) = 1 /\ timers = 0
    BY <1>0, <1>2, <2>1
  <2>3. QED
    BY <2>2, Counting
<1>4. ASSUME MayTick, graphs' = graphs
      PROVE  /\ \/ Cardinality(UnderWay)' = Cardinality(UnderWay)
                \/ Cardinality(UnderWay)' = Cardinality(UnderWay) + 1
             /\ \A i \in UnderWay' : ticks'[i].wants = "title" => graphs' = 0
  <2>1. CASE ticks' = ticks /\ UnderWay' = UnderWay
    BY <2>1, <1>2, <1>4
  <2>2. CASE \E i \in Slots \ UnderWay : /\ UnderWay' = UnderWay \union {i}
                                          /\ ticks' = [ticks EXCEPT ![i] = FirstAsk]
    <3>1. PICK i \in Slots \ UnderWay : /\ UnderWay' = UnderWay \union {i}
                                        /\ ticks' = [ticks EXCEPT ![i] = FirstAsk]
      BY <2>2
    <3>2. ticks'[i] = FirstAsk /\ \A j \in UnderWay : ticks'[j] = ticks[j]
      BY <1>0, <3>1 DEF TicksType, UnderWay
    <3>3. FirstAsk.wants = "title" => graphs = 0
      BY DEF FirstAsk, Ask
    <3>4. \A j \in UnderWay' : ticks'[j].wants = "title" => graphs' = 0
      BY <1>2, <1>4, <3>1, <3>2, <3>3
    <3>5. QED
      BY <1>0, <1>4, <3>4, Sending DEF TicksType
  <2>3. QED
    BY <1>0, <1>4, <2>1, <2>2, Sending DEF TicksType
<1>5. CASE Resumes
  <2>1. MayTick /\ graphs' = graphs
    BY <1>5 DEF Resumes, tile
  <2>2. ticks' = ticks \/ UnderWay = {}
    BY <1>5 DEF Resumes
  <2>3. Cardinality(UnderWay)' = Cardinality(UnderWay) \/ Cardinality(UnderWay) = 0
    <3>1. CASE ticks' = ticks
      BY <3>1 DEF UnderWay
    <3>2. CASE UnderWay = {}
      BY <3>2, Counting
    <3>3. QED
      BY <2>2, <3>1, <3>2
  <2>4. CASE Updater!Start
    <3>1. ~ running /\ timers' = timers /\ Cardinality(UnderWay)' \in {Cardinality(UnderWay), Cardinality(UnderWay) + 1}
      BY <2>4 DEF Updater!Start, Updater!Tick
    <3>2. timers = 0
      BY <1>0, <1>2, <3>1
    <3>3. Cardinality(UnderWay)' + timers' <= 1 /\ ~ timers' > 0
      BY <1>0, <1>2, <2>3, <3>1, <3>2
    <3>4. QED
      BY <1>2, <1>4, <2>1, <3>3 DEF OneChain
  <2>5. CASE Updater!Show
    <3>1. CASE running /\ ~ handle
      <4>1. timers' = timers /\ Cardinality(UnderWay)' \in {Cardinality(UnderWay), Cardinality(UnderWay) + 1}
        BY <2>5, <3>1 DEF Updater!Show, Updater!Tick
      <4>2. timers = 0
        BY <1>0, <1>2, <3>1
      <4>3. Cardinality(UnderWay)' + timers' <= 1 /\ ~ timers' > 0
        BY <1>0, <1>2, <2>3, <4>1, <4>2
      <4>4. QED
        BY <1>2, <1>4, <2>1, <4>3 DEF OneChain
    <3>2. CASE ~ (running /\ ~ handle)
      <4>1. timers' = timers /\ Cardinality(UnderWay)' = Cardinality(UnderWay)
            /\ handle' = handle /\ running' = running
        BY <2>5, <3>2 DEF Updater!Show
      <4>2. QED
        BY <1>2, <1>4, <2>1, <4>1 DEF OneChain
    <3>3. QED
      BY <3>1, <3>2
  <2>6. QED
    BY <1>5, <2>4, <2>5 DEF Resumes
<1>6. CASE Pauses
  <2>1. UnderWay' = UnderWay /\ ticks' = ticks /\ graphs' = graphs
        /\ Cardinality(UnderWay)' = Cardinality(UnderWay)
    BY <1>6 DEF Pauses, tile, UnderWay, Slots
  <2>2. CASE Updater!Stop
    <3>1. timers' = IF handle THEN timers - 1 ELSE timers
      BY <2>2 DEF Updater!Stop
    <3>2. timers \in {0, 1}
      BY <1>0, <1>2
    <3>3. timers > 0 => handle
      BY <1>2
    <3>4. handle => timers > 0
      BY DEF Typed, LoopProofs!IInv, LoopProofs!TypeOK
    <3>5. timers' = 0
      BY <3>1, <3>2, <3>3, <3>4
    <3>6. Cardinality(UnderWay)' + timers' <= 1 /\ ~ timers' > 0
      BY <1>0, <1>2, <2>1, <3>5
    <3>7. QED
      BY <1>2, <2>1, <3>6 DEF OneChain
  <2>3. CASE Updater!Hide
    BY <1>2, <2>1, <2>3 DEF Updater!Hide, OneChain
  <2>4. QED
    BY <1>6, <2>2, <2>3 DEF Pauses
<1>7. CASE Expires
  <2>1. MayTick /\ graphs' = graphs /\ timers > 0 /\ timers' = timers - 1
    BY <1>7 DEF Expires, tile, Updater!Fire, Updater!Tick
  <2>2. timers = 1 /\ Cardinality(UnderWay) = 0
    BY <1>0, <1>2, <2>1
  <2>3. Cardinality(UnderWay)' + timers' <= 1 /\ ~ timers' > 0
    BY <1>4, <2>1, <2>2
  <2>4. QED
    BY <1>2, <1>4, <2>1, <2>3 DEF OneChain
<1>8. ASSUME NEW i \in UnderWay, NEW call \in Call, GoesOn(i, call),
             graphs' <= 1, call.wants = "title" => graphs' = 0
      PROVE  OneChain'
  <2>1. /\ UnderWay' = UnderWay /\ Cardinality(UnderWay)' = Cardinality(UnderWay)
        /\ ticks' = [ticks EXCEPT ![i] = call]
    BY <1>0, <1>8, GoingOn DEF TicksType
  <2>2. ticks'[i] = call
    BY <1>0, <2>1 DEF TicksType, UnderWay
  <2>3. \A j \in UnderWay' : ticks'[j].wants = "title" => graphs' = 0
    BY <1>3, <1>8, <2>1, <2>2
  <2>4. QED
    BY <1>2, <1>8, <2>1, <2>3 DEF OneChain, GoesOn, loop
<1>9. ASSUME NEW i \in UnderWay, Ends(i), graphs' = graphs
      PROVE  OneChain'
  <2>1. /\ UnderWay' = UnderWay \ {i}
        /\ Cardinality(UnderWay)' = Cardinality(UnderWay) - 1
        /\ Updater!Answer
    BY <1>0, <1>9, Ending DEF TicksType
  <2>2. UnderWay' = {} /\ Cardinality(UnderWay)' = 0 /\ timers = 0
    <3>1. Cardinality(UnderWay) = 1 /\ timers = 0 /\ \A j \in UnderWay : j = i
      BY <1>3, <1>9
    <3>2. QED
      BY <2>1, <3>1
  <2>3. /\ running' = running
        /\ \/ running /\ timers' = timers + 1 /\ handle' = TRUE
           \/ timers' = timers
    BY <2>1 DEF Updater!Answer
  <2>4. /\ Cardinality(UnderWay)' + timers' <= 1
        /\ timers' > 0 => handle' /\ running'
    <3>1. CASE running /\ timers' = timers + 1 /\ handle' = TRUE
      BY <2>2, <2>3, <3>1
    <3>2. CASE timers' = timers
      BY <2>2, <3>2
    <3>3. QED
      BY <2>3, <3>1, <3>2
  <2>5. QED
    BY <1>2, <1>9, <2>2, <2>4 DEF OneChain
<1>10. ASSUME NEW i \in Slots, Serve(i) \/ Retry(i)
       PROVE  OneChain'
  <2>1. i \in UnderWay /\ graphs' = graphs /\ ticks[i] \in Call
    BY <1>0, <1>10, CallsUnderWay DEF Serve, Retry, Answered, Awaits, tile
  <2>2. CASE Serve(i)
    <3>1. [ticks[i] EXCEPT !.reply = Current].wants = ticks[i].wants
      BY <2>1 DEF Call
    <3>2. QED
      BY <1>2, <1>8, <2>1, <2>2, <3>1, NextCalls DEF Serve, Typed
  <2>3. CASE Retry(i)
    <3>1. [ticks[i] EXCEPT !.max = ticks[i].reply.size,
                           !.again = TRUE, !.reply = None].wants = ticks[i].wants
      BY <2>1 DEF Call
    <3>2. QED
      BY <1>2, <1>8, <2>1, <2>3, <3>1, NextCalls DEF Retry, Answered, Typed
  <2>4. QED
    BY <1>10, <2>2, <2>3
<1>11. ASSUME NEW i \in Slots, Build(i)
       PROVE  OneChain'
  <2>1. i \in UnderWay /\ ticks[i].wants = "title" /\ graphs' = graphs + 1
        /\ GoesOn(i, Ask("counts"))
    BY <1>11 DEF Build, Answered, Awaits
  <2>2. graphs' <= 1
    <3>1. graphs = 0
      BY <1>2, <2>1
    <3>2. QED
      BY <2>1, <3>1
  <2>3. Ask("counts") \in Call /\ Ask("counts").wants = "counts"
    BY AskIsACall DEF Ask
  <2>4. QED
    BY <1>8, <2>1, <2>2, <2>3
<1>12. ASSUME NEW i \in Slots, Draw(i)
       PROVE  OneChain'
  <2>1. i \in UnderWay /\ graphs' = graphs /\ (GoesOn(i, Ask("window")) \/ Ends(i))
    BY <1>12 DEF Draw, Answered, Awaits
  <2>2. Ask("window") \in Call /\ Ask("window").wants = "window"
    BY AskIsACall DEF Ask
  <2>3. QED
    BY <1>2, <1>8, <1>9, <2>1, <2>2
<1>13. ASSUME NEW i \in Slots, Say(i) \/ Fail(i)
       PROVE  OneChain'
  <2>1. i \in UnderWay /\ graphs' = graphs /\ Ends(i)
    BY <1>13 DEF Say, Fail, Answered, Awaits
  <2>2. QED
    BY <1>9, <2>1
<1>14. CASE Change \/ Vanish \/ ComeAndGo \/ UNCHANGED vars
  BY <1>2, <1>14 DEF Change, Vanish, ComeAndGo, vars, tile, loop, OneChain, UnderWay, Slots
<1>15. QED
  BY <1>5, <1>6, <1>7, <1>10, <1>11, <1>12, <1>13, <1>14 DEF Next, Settle

\* One request, and one graph, unless a tick was sent beside an awaited one.
THEOREM OneRequestUnlessOverlapped == Spec => []OneAtATime
<1>1. Init => OneChain
  <2> SUFFICES ASSUME Init
               PROVE  OneChain
    OBVIOUS
  <2>1. UnderWay = {} /\ timers = 0 /\ graphs = 0
    BY DEF Init, Updater!Init, UnderWay
  <2>2. Cardinality(UnderWay) = 0
    BY <2>1, Counting
  <2>3. Cardinality(UnderWay) + timers <= 1
    BY <2>1, <2>2
  <2>4. QED
    BY <2>1, <2>3 DEF OneChain
<1>2. Typed /\ OneChain => OneAtATime
  <2> SUFFICES ASSUME Typed, OneChain, ~ overlapped
               PROVE  Updater!OneInFlight /\ graphs <= 1
    BY DEF OneAtATime
  <2>1. Cardinality(UnderWay) + timers <= 1 /\ graphs <= 1
    BY DEF OneChain
  <2>2. timers \in Nat /\ Cardinality(UnderWay) \in Nat
    BY Counting DEF Typed, LoopProofs!IInv, LoopProofs!TypeOK
  <2>3. Cardinality(UnderWay) <= 1
    BY <2>1, <2>2
  <2>4. QED
    BY <2>1, <2>3 DEF Updater!OneInFlight
<1>3. QED
  BY <1>1, <1>2, InitTyped, NextTyped, NextOneChain, PTL DEF Spec

-----------------------------------------------------------------------------
\* Nothing on the page, and no reply under way, is ahead of the analyzer; and,
\* unless ticks were overlapped, no reply under way is behind the page.
OnTime ==
  /\ plot # None => plot <= state
  /\ chip # None => chip <= state
  /\ \A i \in UnderWay : ticks[i].reply # None =>
       /\ ticks[i].reply.state <= state
       /\ ~ overlapped => /\ plot # None => plot <= ticks[i].reply.state
                          /\ chip # None => chip <= ticks[i].reply.state

LEMMA AskHasNoReply == (\A what : Ask(what).reply = None) /\ FirstAsk.reply = None
BY DEF Ask, FirstAsk

LEMMA NextOnTime == Typed /\ OneChain /\ OnTime /\ [Next]_vars => OnTime'
<1> SUFFICES ASSUME Typed, OneChain, OnTime, [Next]_vars
             PROVE  OnTime'
  OBVIOUS
<1>0. /\ state \in Nat /\ (plot # None => plot \in Nat) /\ (chip # None => chip \in Nat)
      /\ TicksType
  BY DEF Typed, Values
<1>1. CASE Resumes \/ Expires
  <2>0. overlapped => overlapped'
    BY <1>1, Zenon DEF Resumes, Expires
  <2>1. MayTick /\ UNCHANGED <<plot, chip, state>>
    BY <1>1 DEF Resumes, Expires, tile, analyzer
  <2>2. \A i \in UnderWay' : \/ ticks'[i].reply = None
                             \/ i \in UnderWay /\ ticks'[i].reply = ticks[i].reply
    <3>1. CASE ticks' = ticks /\ UnderWay' = UnderWay
      BY <3>1
    <3>2. CASE \E i \in Slots \ UnderWay : /\ UnderWay' = UnderWay \union {i}
                                            /\ ticks' = [ticks EXCEPT ![i] = FirstAsk]
      BY <1>0, <3>2, AskHasNoReply DEF TicksType, UnderWay
    <3>3. QED
      BY <1>0, <2>1, <3>1, <3>2, Sending DEF TicksType
  <2>3. QED
    BY <2>0, <2>1, <2>2 DEF OnTime
<1>2. CASE Pauses
  BY <1>2 DEF Pauses, tile, analyzer, OnTime, UnderWay, Slots
<1>3. ASSUME NEW i \in Slots, Serve(i)
      PROVE  OnTime'
  <2>1. /\ i \in UnderWay /\ UNCHANGED <<plot, chip, state, overlapped>>
        /\ GoesOn(i, [ticks[i] EXCEPT !.reply = Current])
    BY <1>3 DEF Serve, tile, analyzer
  <2>2. /\ UnderWay' = UnderWay
        /\ ticks' = [ticks EXCEPT ![i] = [ticks[i] EXCEPT !.reply = Current]]
    BY <1>0, <2>1, GoingOn, NextCalls DEF TicksType, Typed
  <2>3. ticks'[i] = [ticks[i] EXCEPT !.reply = Current]
        /\ ticks[i] \in Call /\ \A j \in UnderWay \ {i} : ticks'[j] = ticks[j]
    BY <1>0, <2>1, <2>2, CallsUnderWay DEF TicksType, UnderWay
  <2>4. ticks'[i].reply.state = state
    BY <2>3 DEF Call, Current
  <2>5. /\ plot # None => plot <= state
        /\ chip # None => chip <= state
        /\ state <= state
    BY <1>0 DEF OnTime
  <2>6. QED
    BY <2>1, <2>2, <2>3, <2>4, <2>5 DEF OnTime
<1>4. ASSUME NEW i \in UnderWay, NEW call \in Call, GoesOn(i, call), call.reply = None
      PROVE  \A j \in UnderWay' : \/ ticks'[j].reply = None
                                  \/ j \in UnderWay \ {i} /\ ticks'[j].reply = ticks[j].reply
  <2>1. UnderWay' = UnderWay /\ ticks' = [ticks EXCEPT ![i] = call]
    BY <1>0, <1>4, GoingOn DEF TicksType
  <2>2. QED
    BY <1>0, <1>4, <2>1 DEF TicksType, UnderWay
<1>5. ASSUME NEW i \in UnderWay, Ends(i)
      PROVE  \A j \in UnderWay' : j \in UnderWay \ {i} /\ ticks'[j].reply = ticks[j].reply
  <2>1. UnderWay' = UnderWay \ {i} /\ ticks' = [ticks EXCEPT ![i] = None]
    BY <1>0, <1>5, Ending DEF TicksType
  <2>2. QED
    BY <1>0, <2>1 DEF TicksType, UnderWay
<1>6. ASSUME NEW i \in Slots, Build(i) \/ Retry(i)
      PROVE  OnTime'
  <2>1. i \in UnderWay /\ UNCHANGED <<plot, chip, state, overlapped>>
    BY <1>6 DEF Build, Retry, Answered, Awaits, tile, analyzer
  <2>2. PICK call \in Call : GoesOn(i, call) /\ call.reply = None
    <3>1. CASE Build(i)
      BY <3>1, AskIsACall, AskHasNoReply DEF Build
    <3>2. CASE Retry(i)
      <4>1. ticks[i] \in Call
        BY <1>0, <2>1, CallsUnderWay
      <4>2. [ticks[i] EXCEPT !.max = ticks[i].reply.size,
                             !.again = TRUE, !.reply = None].reply = None
        BY <4>1 DEF Call
      <4>3. QED
        BY <2>1, <3>2, <4>2, NextCalls DEF Retry, Answered, Typed
    <3>3. QED
      BY <1>6, <3>1, <3>2
  <2>3. QED
    BY <1>4, <2>1, <2>2 DEF OnTime
<1>7. ASSUME NEW i \in Slots, Draw(i) \/ Say(i)
      PROVE  OnTime'
  <2>1. /\ i \in UnderWay /\ ticks[i].reply # None /\ UNCHANGED <<state, overlapped>>
        /\ plot' = plot \/ plot' = ticks[i].reply.state
        /\ chip' = chip \/ chip' = ticks[i].reply.state
        /\ GoesOn(i, Ask("window")) \/ Ends(i)
    BY <1>7 DEF Draw, Say, Answered, Awaits, analyzer
  <2>2. \A j \in UnderWay' : \/ ticks'[j].reply = None
                             \/ j \in UnderWay \ {i} /\ ticks'[j].reply = ticks[j].reply
    BY <1>4, <1>5, <2>1, AskIsACall, AskHasNoReply
  <2>3. ticks[i].reply.state <= state
    BY <2>1 DEF OnTime
  <2>4. ~ overlapped => UnderWay \ {i} = {}
    <3>1. ASSUME ~ overlapped
          PROVE  Cardinality(UnderWay) <= 1
      <4>1. Cardinality(UnderWay) + timers <= 1
        BY <3>1 DEF OneChain
      <4>2. timers \in Nat /\ Cardinality(UnderWay) \in Nat
        BY Counting DEF Typed, LoopProofs!IInv, LoopProofs!TypeOK
      <4>3. QED
        BY <4>1, <4>2
    <3>2. QED
      BY <2>1, <3>1, Counting
  <2>5. \A j \in UnderWay' : ticks'[j].reply # None =>
          /\ ticks'[j].reply.state <= state'
          /\ overlapped'
    BY <2>1, <2>2, <2>4 DEF OnTime
  <2>6. /\ plot' # None => plot' <= state'
        /\ chip' # None => chip' <= state'
    BY <2>1, <2>3 DEF OnTime
  <2>7. QED
    BY <2>5, <2>6 DEF OnTime
<1>8. ASSUME NEW i \in Slots, Fail(i)
      PROVE  OnTime'
  <2>1. i \in UnderWay /\ Ends(i) /\ UNCHANGED <<plot, chip, state, overlapped>>
    BY <1>8 DEF Fail, analyzer
  <2>2. QED
    BY <1>5, <2>1 DEF OnTime
<1>9. CASE Change
  <2>1. /\ UNCHANGED <<ticks, plot, chip, overlapped>> /\ UnderWay' = UnderWay
        /\ state' = state + 1
    BY <1>9 DEF Change, tile, UnderWay, Slots
  <2>2. \A s \in Nat : s <= state => s <= state'
    BY <1>0, <2>1
  <2>3. \A i \in UnderWay : ticks[i].reply # None => ticks[i].reply.state \in Nat
    BY <1>0, CallsUnderWay
  <2>4. QED
    BY <1>0, <2>1, <2>2, <2>3 DEF OnTime
<1>10. CASE Vanish \/ ComeAndGo \/ UNCHANGED vars
  BY <1>10 DEF Vanish, ComeAndGo, vars, tile, analyzer, OnTime, UnderWay, Slots
<1>11. QED
  BY <1>1, <1>2, <1>3, <1>6, <1>7, <1>8, <1>9, <1>10 DEF Next, Settle

\* Unless ticks were overlapped, no plot and no chip is replaced by an older one.
THEOREM NothingGoesBack == Spec => NeverGoesBack
<1>1. Init => OneChain /\ OnTime
  <2> SUFFICES ASSUME Init
               PROVE  OneChain /\ OnTime
    OBVIOUS
  <2>1. /\ UnderWay = {} /\ timers = 0 /\ graphs = 0
        /\ plot = None /\ chip = None
    BY DEF Init, Updater!Init, UnderWay
  <2>2. Cardinality(UnderWay) = 0
    BY <2>1, Counting
  <2>3. Cardinality(UnderWay) + timers <= 1
    BY <2>1, <2>2
  <2>4. QED
    BY <2>1, <2>3 DEF OneChain, OnTime
<1>2. Typed /\ OneChain /\ OnTime /\ [Next]_vars =>
        [~ overlapped' => /\ plot # None => plot' >= plot
                          /\ chip # None => chip' >= chip]_vars
  <2> SUFFICES ASSUME Typed, OnTime, [Next]_vars, ~ overlapped'
               PROVE  /\ plot # None => plot' >= plot
                      /\ chip # None => chip' >= chip
    OBVIOUS
  <2>0. (plot # None => plot \in Nat) /\ (chip # None => chip \in Nat)
    BY DEF Typed, Values
  <2>1. ASSUME NEW i \in Slots, Draw(i) \/ Say(i)
        PROVE  /\ plot # None => plot' >= plot
               /\ chip # None => chip' >= chip
    <3>1. /\ i \in UnderWay /\ ticks[i].reply # None /\ overlapped' = overlapped
          /\ plot' = plot \/ plot' = ticks[i].reply.state
          /\ chip' = chip \/ chip' = ticks[i].reply.state
      BY <2>1 DEF Draw, Say, Answered, Awaits
    <3>2. /\ plot # None => plot <= ticks[i].reply.state
          /\ chip # None => chip <= ticks[i].reply.state
      BY <3>1 DEF OnTime
    <3>3. ticks[i].reply.state \in Nat
      BY <3>1, CallsUnderWay DEF Typed
    <3>4. QED
      BY <2>0, <3>1, <3>2, <3>3
  <2>2. ASSUME ~ \E i \in Slots : Draw(i) \/ Say(i)
        PROVE  plot' = plot /\ chip' = chip
    BY <2>2 DEF Next, Settle, vars, Resumes, Pauses, Expires, Serve, Build, Retry, Fail,
                Change, Vanish, ComeAndGo, tile
  <2>3. QED
    BY <2>0, <2>1, <2>2
<1>3. QED
  BY <1>1, <1>2, InitTyped, NextTyped, NextOneChain, NextOnTime, PTL DEF Spec, NeverGoesBack

-----------------------------------------------------------------------------
\* A tick that awaits the window goes on awaiting it until it is answered or fails.
LEMMA NextNoteFits == Typed /\ NoteFitsPlot /\ [Next]_vars => NoteFitsPlot'
<1> SUFFICES ASSUME Typed, NoteFitsPlot, [Next]_vars
             PROVE  NoteFitsPlot'
  OBVIOUS
<1>0. TicksType /\ (plot # None => plot \in Nat)
  BY DEF Typed, Values
<1>1. ASSUME UNCHANGED <<plot, note>>,
             \A j \in UnderWay : ticks[j].wants = "window" =>
               j \in UnderWay' /\ ticks'[j].wants = "window"
      PROVE  NoteFitsPlot'
  BY <1>1 DEF NoteFitsPlot, Awaits
<1>2. CASE Resumes \/ Expires
  <2>1. MayTick /\ UNCHANGED <<plot, note>>
    BY <1>2 DEF Resumes, Expires, tile
  <2>2. \A j \in UnderWay : j \in UnderWay' /\ ticks'[j] = ticks[j]
    BY <1>0, <2>1 DEF MayTick, TicksType, UnderWay
  <2>3. QED
    BY <1>1, <2>1, <2>2
<1>3. ASSUME NEW i \in Slots, Serve(i) \/ Build(i) \/ Retry(i)
      PROVE  NoteFitsPlot'
  <2>1. i \in UnderWay /\ UNCHANGED <<plot, note>> /\ ticks[i] \in Call
    BY <1>0, <1>3, CallsUnderWay DEF Serve, Build, Retry, Answered, Awaits, tile
  <2>2. PICK call \in Call : /\ GoesOn(i, call)
                             /\ ticks[i].wants = "window" => call.wants = "window"
    <3>1. CASE Serve(i)
      <4>1. [ticks[i] EXCEPT !.reply = Current].wants = ticks[i].wants
        BY <2>1 DEF Call
      <4>2. QED
        BY <2>1, <3>1, <4>1, NextCalls DEF Serve, Typed
    <3>2. CASE Build(i)
      BY <3>2, AskIsACall DEF Build, Answered, Awaits
    <3>3. CASE Retry(i)
      BY <2>1, <3>3, NextCalls DEF Retry, Answered, Awaits, Typed
    <3>4. QED
      BY <1>3, <3>1, <3>2, <3>3
  <2>3. ticks' = [ticks EXCEPT ![i] = call] /\ UnderWay' = UnderWay
    BY <1>0, <2>1, <2>2, GoingOn DEF TicksType
  <2>4. \A j \in UnderWay : ticks[j].wants = "window" => ticks'[j].wants = "window"
    BY <1>0, <2>1, <2>2, <2>3 DEF TicksType, UnderWay
  <2>5. QED
    BY <1>1, <2>1, <2>3, <2>4
<1>4. ASSUME NEW i \in Slots, Draw(i)
      PROVE  NoteFitsPlot'
  <2>1. i \in UnderWay /\ plot' = ticks[i].reply.state /\ ticks[i].reply.state \in Nat
    BY <1>0, <1>4, CallsUnderWay DEF Draw, Answered, Awaits
  <2>2. plot' # None
    BY <2>1, NoneAssumption
  <2>3. CASE rolling
    <3>1. GoesOn(i, Ask("window")) /\ note' = note
      BY <1>4, <2>3 DEF Draw
    <3>2. Ask("window") \in Call /\ i \in Slots
      BY AskIsACall
    <3>3. ticks' = [ticks EXCEPT ![i] = Ask("window")] /\ UnderWay' = UnderWay
      BY <1>0, <2>1, <3>1, <3>2, GoingOn DEF TicksType
    <3>4. i \in UnderWay' /\ ticks'[i] = Ask("window")
      BY <1>0, <2>1, <3>2, <3>3 DEF TicksType
    <3>5. \E j \in UnderWay' : Awaits(j, "window")'
      BY <3>4 DEF Awaits, Ask
    <3>6. QED
      BY <2>2, <3>1, <3>5 DEF NoteFitsPlot
  <2>4. CASE ~ rolling
    BY <1>4, <2>2, <2>4 DEF Draw, NoteFitsPlot
  <2>5. QED
    BY <2>3, <2>4
<1>5. ASSUME NEW i \in Slots, Say(i) \/ Fail(i)
      PROVE  NoteFitsPlot'
  BY <1>5 DEF Say, Fail, Complains, NoteFitsPlot
<1>6. CASE Pauses \/ Change \/ Vanish \/ ComeAndGo \/ UNCHANGED vars
  <2>1. UNCHANGED <<plot, note, ticks>> /\ UnderWay' = UnderWay
    BY <1>6 DEF Pauses, Change, Vanish, ComeAndGo, vars, tile, UnderWay, Slots
  <2>2. QED
    BY <1>1, <2>1
<1>7. QED
  BY <1>2, <1>3, <1>4, <1>5, <1>6 DEF Next, Settle

\* What the note says of the plot is so.
THEOREM NoteIsTrue == Spec => []NoteFitsPlot
<1>1. Init => NoteFitsPlot
  BY DEF Init, NoteFitsPlot
<1>2. QED
  BY <1>1, InitTyped, NextTyped, NextNoteFits, PTL DEF Spec
=============================================================================
