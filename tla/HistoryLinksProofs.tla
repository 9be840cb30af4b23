------------------------- MODULE HistoryLinksProofs -------------------------
(***************************************************************************)
(* Safety of HistoryLinks, for any payloads, losses and restarts.  Each    *)
(* invariant is strengthened by what a pass that is half done has already  *)
(* achieved: see PassInv and EventsInv.                                    *)
(***************************************************************************)
EXTENDS HistoryLinks, TLAPS

\* The part of TypeOK without truth values.
RangesOK ==
  /\ links \subseteq Others \union LinksOf(Names)
  /\ values \subseteq Names /\ names \subseteq Names /\ linked \subseteq Names
  /\ payload \in Payloads
  /\ events = EventsOf(linked)
  /\ refused \subseteq Refusable
  /\ pc \in {"idle", "write", "delete", "link", "away"}
  /\ todo \subseteq Names \union EventsOf(Names)

FlagsOK == enabled \in BOOLEAN /\ connected \in BOOLEAN

\* The loops go through what they should: names, then events, then names.
LoopsOK ==
  /\ pc \in {"write", "link"} => todo \subseteq names
  /\ pc = "delete" => todo \subseteq events \ EventsOf(names)

\* What a pass has written so far.
PassInv ==
  /\ pc = "write" => names \ todo \subseteq values
  /\ pc \in {"delete", "link"} => names \subseteq values
  /\ LinksLeadToValues

\* The events that remain and come, as a pass goes on.
EventsSoFar ==
  CASE pc = "delete" -> Ours = (events \intersect EventsOf(names)) \union todo
    [] pc = "link"   -> Ours = (events \intersect EventsOf(names))
                                 \union EventsOf(names \ todo)
    [] OTHER         -> Ours = events

EventsInv ==
  (losses = 0 /\ restarts = 0) => (pc = "away" \/ connected) /\ EventsSoFar

CountsOK == losses \in Nat /\ restarts \in Nat
-----------------------------------------------------------------------------
\* Events are the analyzer's own or other users', never both.
LEMMA EventsApart ==
  \A n \in Names : EventOf(n) \in Arrays \union {Shared}
BY DEF EventOf, Names

LEMMA LinksApart ==
  LinksOf(Names) \intersect Others = {}
<1> SUFFICES ASSUME NEW n \in Names, <<EventOf(n), n>> \in Others
             PROVE  FALSE
  BY DEF LinksOf
<1>1. <<EventOf(n), n>>[1] \notin Arrays \union {Shared}
  BY OthersAssumption
<1> QED BY <1>1, EventsApart

\* Payloads are sets of names.
LEMMA PayloadIsNames == \A p \in Payloads : p \subseteq Names
BY PayloadsAssumption
-----------------------------------------------------------------------------
LEMMA RangesInit == Init => RangesOK /\ LoopsOK
BY DEF Init, RangesOK, LoopsOK, EventsOf

LEMMA RangesStep ==
  RangesOK /\ LoopsOK /\ [Next]_vars => (RangesOK /\ LoopsOK)'
<1> SUFFICES ASSUME RangesOK, LoopsOK, [Next]_vars
             PROVE  (RangesOK /\ LoopsOK)'
  OBVIOUS
<1> USE DEF RangesOK, LoopsOK, odb, known, bounds
<1>1. CASE Publish
  BY <1>1, PayloadIsNames DEF Publish
<1>2. CASE Write
  BY <1>2 DEF Write
<1>3. CASE WriteFails
  BY <1>3 DEF WriteFails
<1>4. CASE UpToDate
  BY <1>4 DEF UpToDate
<1>5. CASE Relink
  <2>1. todo' \subseteq EventsOf(Names)
    BY <1>5 DEF Relink, Unwanted, EventsOf
  <2> QED BY <1>5, <2>1 DEF Relink, Unwanted
<1>6. CASE Delete
  BY <1>6 DEF Delete
<1>7. CASE StartLinks
  BY <1>7 DEF StartLinks
<1>8. CASE Link
  <2> PICK n \in todo : /\ links' = IF connected THEN links \union {<<EventOf(n), n>>}
                                                 ELSE links
                        /\ todo' = todo \ {n}
    BY <1>8 DEF Link
  <2>1. n \in Names
    BY <1>8 DEF Link
  <2>2. links' \subseteq Others \union LinksOf(Names)
    BY <2>1 DEF LinksOf
  <2> QED BY <1>8, <2>2 DEF Link
<1>9. CASE Remember
  BY <1>9 DEF Remember
<1>10. CASE Reconnect
  BY <1>10 DEF Reconnect
<1>11. CASE Lose
  BY <1>11 DEF Lose
<1>12. CASE Adopt
  BY <1>12 DEF Adopt
<1>13. CASE Restart
  BY <1>13 DEF Restart, EventsOf
<1>14. CASE Retype
  BY <1>14 DEF Retype
<1>15. CASE UNCHANGED vars
  BY <1>15 DEF vars
<1> QED
  BY <1>1, <1>2, <1>3, <1>4, <1>5, <1>6, <1>7, <1>8, <1>9, <1>10, <1>11,
     <1>12, <1>13, <1>14, <1>15 DEF Next, Process

LEMMA FlagsStep == FlagsOK /\ [Next]_vars => FlagsOK'
BY DEF FlagsOK, Next, Process, Publish, Write, WriteFails, UpToDate, Relink,
       Delete, StartLinks, Link, Remember, Reconnect, Lose, Retype, Adopt, Restart,
       vars

\* The type invariant, with the agreement of _history_linked and
\* _history_events, for all constants.
THEOREM TypeCorrect == Spec => []TypeOK
<1>1. Init => FlagsOK
  BY DEF Init, FlagsOK
<1>2. RangesOK /\ FlagsOK => TypeOK
  BY DEF RangesOK, FlagsOK, TypeOK
<1> QED
  BY <1>1, <1>2, RangesInit, RangesStep, FlagsStep, PTL DEF Spec
-----------------------------------------------------------------------------
LEMMA PassStep ==
  RangesOK /\ LoopsOK /\ PassInv /\ [Next]_vars => PassInv'
<1> SUFFICES ASSUME RangesOK, LoopsOK, PassInv, [Next]_vars
             PROVE  PassInv'
  OBVIOUS
<1> USE DEF PassInv, LinksLeadToValues, odb, known, bounds
<1>1. CASE Publish
  BY <1>1 DEF Publish
<1>2. CASE Write
  BY <1>2 DEF Write
<1>3. CASE Delete
  BY <1>3 DEF Delete
<1>4. CASE Link
  <2> PICK n \in todo : /\ links' = IF connected THEN links \union {<<EventOf(n), n>>}
                                                 ELSE links
                        /\ todo' = todo \ {n}
    BY <1>4 DEF Link
  <2>1. n \in values
    BY <1>4 DEF Link, LoopsOK
  <2>2. <<EventOf(n), n>>[2] = n
    OBVIOUS
  <2> QED BY <1>4, <2>1, <2>2 DEF Link
<1>5. CASE \/ WriteFails \/ UpToDate \/ Relink \/ StartLinks \/ Remember
           \/ Reconnect \/ Lose \/ Retype \/ Adopt \/ Restart \/ UNCHANGED vars
  BY <1>5 DEF WriteFails, UpToDate, Relink, StartLinks, Remember, Reconnect,
              Lose, Retype, Adopt, Restart, vars
<1> QED
  BY <1>1, <1>2, <1>3, <1>4, <1>5 DEF Next, Process

\* A link of the analyzer's always leads to a value it has written, wherever a
\* pass is cut short.
THEOREM LinksAreWritten == Spec => []LinksLeadToValues
<1>1. Init => PassInv
  BY DEF Init, PassInv, LinksLeadToValues
<1>2. PassInv => LinksLeadToValues
  BY DEF PassInv
<1> QED
  BY <1>1, <1>2, RangesInit, RangesStep, PassStep, PTL DEF Spec
-----------------------------------------------------------------------------
LEMMA OthersStep ==
  RangesOK /\ LoopsOK /\ OthersKeepTheirLinks /\ [Next]_vars
    => OthersKeepTheirLinks'
<1> SUFFICES ASSUME RangesOK, LoopsOK, OthersKeepTheirLinks, [Next]_vars
             PROVE  OthersKeepTheirLinks'
  OBVIOUS
<1> USE DEF OthersKeepTheirLinks, odb, known, bounds
<1>1. CASE Delete
  <2> PICK e \in todo : links' = IF connected THEN {l \in links : l[1] # e}
                                              ELSE links
    BY <1>1 DEF Delete
  <2>1. e \in events
    BY <1>1 DEF Delete, LoopsOK
  <2>2. e \in Arrays \union {Shared}
    BY <2>1, EventsApart DEF RangesOK, EventsOf
  <2>3. \A l \in Others : l[1] # e
    BY <2>2, OthersAssumption
  <2> QED BY <2>3
<1>2. CASE Link
  BY <1>2 DEF Link
<1>3. CASE UNCHANGED links
  BY <1>3
<1> QED
  BY <1>1, <1>2, <1>3 DEF Next, Process, Publish, Write, WriteFails, UpToDate,
     Relink, StartLinks, Remember, Reconnect, Lose, Retype, Adopt, Restart, vars

\* No pass takes away a link that another user of /History/Links made.
THEOREM OthersAreSafe == Spec => []OthersKeepTheirLinks
<1>1. Init => OthersKeepTheirLinks
  BY DEF Init, OthersKeepTheirLinks
<1> QED
  BY <1>1, RangesInit, RangesStep, OthersStep, PTL DEF Spec
-----------------------------------------------------------------------------
\* What a step that leaves the links alone leaves of Ours.
LEMMA OursKept == links' = links => Ours' = Ours
BY DEF Ours

\* Deleting an event takes it, and nothing else, from Ours.
LEMMA OursLosesEvent ==
  ASSUME NEW e, links' = {l \in links : l[1] # e}
  PROVE  Ours' = Ours \ {e}
BY DEF Ours

\* A new link of the analyzer's adds its event.
LEMMA OursGainsEvent ==
  ASSUME NEW n \in Names, links' = links \union {<<EventOf(n), n>>}
  PROVE  Ours' = Ours \union {EventOf(n)}
<1>1. <<EventOf(n), n>> \notin Others
  BY LinksApart DEF LinksOf
<1>2. <<EventOf(n), n>>[1] = EventOf(n)
  OBVIOUS
<1>3. ASSUME NEW l \in links' \ Others
      PROVE  l[1] \in Ours \union {EventOf(n)}
  BY <1>2, <1>3 DEF Ours
<1>4. \A l \in links \ Others : l \in links' \ Others
  OBVIOUS
<1> QED BY <1>1, <1>2, <1>3, <1>4 DEF Ours

\* The counters of what went wrong only grow.
LEMMA CountsStep ==
  CountsOK /\ [Next]_vars =>
    /\ CountsOK'
    /\ (losses' = 0 /\ restarts' = 0) => losses = 0 /\ restarts = 0
BY DEF CountsOK, Next, Process, Publish, Write, WriteFails, UpToDate, Relink,
       Delete, StartLinks, Link, Remember, Reconnect, Lose, Retype, Adopt, Restart,
       vars, bounds

\* As long as nothing went wrong nothing does in this step, and it is neither a
\* loss nor a restart.
LEMMA QuietStep ==
  ASSUME CountsOK, [Next]_vars, losses' = 0, restarts' = 0
  PROVE  ~ Lose /\ ~ Restart
BY DEF CountsOK, Lose, Restart

LEMMA EventsStep ==
  RangesOK /\ LoopsOK /\ CountsOK /\ EventsInv /\ [Next]_vars => EventsInv'
<1> SUFFICES ASSUME RangesOK, LoopsOK, CountsOK, EventsInv, [Next]_vars,
                    losses' = 0, restarts' = 0
             PROVE  (pc' = "away" \/ connected') /\ EventsSoFar'
  BY DEF EventsInv
<1>0. (pc = "away" \/ connected) /\ EventsSoFar
  BY CountsStep DEF EventsInv
<1>1. ~ Lose /\ ~ Restart
  BY QuietStep
<1>2. CASE Publish
  BY <1>0, <1>2, OursKept DEF Publish, EventsSoFar, odb, known
<1>3. CASE Write
  BY <1>0, <1>3, OursKept DEF Write, EventsSoFar, odb, known
<1>4. CASE WriteFails
  <2>1. pc = "write" /\ pc' = "away" /\ UNCHANGED <<links, events>>
    BY <1>4 DEF WriteFails, odb, known
  <2> QED BY <1>0, <2>1, OursKept DEF EventsSoFar
<1>5. CASE UpToDate
  BY <1>0, <1>5, OursKept DEF UpToDate, EventsSoFar, odb, known
<1>6. CASE Relink
  <2>1. Ours' = Ours /\ Ours = events /\ events' = events /\ names' = names
    BY <1>0, <1>6, OursKept DEF Relink, EventsSoFar, odb, known
  <2>2. todo' = events \ EventsOf(names) /\ pc' = "delete" /\ connected'
    BY <1>0, <1>6 DEF Relink, Unwanted
  <2>3. events = (events \intersect EventsOf(names))
                   \union (events \ EventsOf(names))
    OBVIOUS
  <2>4. EventsOf(names)' = EventsOf(names)
    BY <2>1 DEF EventsOf
  <2> QED BY <2>1, <2>2, <2>3, <2>4 DEF EventsSoFar
<1>7. CASE Delete
  <2>1. PICK e \in todo : /\ links' = IF connected THEN {l \in links : l[1] # e}
                                                   ELSE links
                          /\ todo' = todo \ {e}
    BY <1>7 DEF Delete
  <2>2. Ours' = Ours \ {e}
    BY <1>0, <1>7, <2>1, OursLosesEvent DEF Delete
  <2>3. Ours = (events \intersect EventsOf(names)) \union todo
    BY <1>0, <1>7 DEF Delete, EventsSoFar
  <2>4. e \notin EventsOf(names)
    BY <1>7 DEF Delete, LoopsOK
  <2>5. Ours' = (events \intersect EventsOf(names)) \union todo'
    BY <2>1, <2>2, <2>3, <2>4
  <2>6. events' = events /\ names' = names /\ pc' = "delete" /\ connected'
    BY <1>0, <1>7 DEF Delete, known
  <2>7. EventsOf(names)' = EventsOf(names)
    BY <2>6 DEF EventsOf
  <2> QED BY <2>5, <2>6, <2>7 DEF EventsSoFar
<1>8. CASE StartLinks
  <2>1. Ours' = Ours /\ events' = events /\ names' = names /\ connected'
    BY <1>0, <1>8, OursKept DEF StartLinks, odb, known
  <2>2. Ours = events \intersect EventsOf(names)
    BY <1>0, <1>8 DEF StartLinks, EventsSoFar
  <2>3. pc' = "link" /\ (names \ todo)' = {}
    BY <1>8 DEF StartLinks
  <2>4. EventsOf(names)' = EventsOf(names) /\ EventsOf(names \ todo)' = {}
    BY <2>1, <2>3 DEF EventsOf
  <2> QED BY <2>1, <2>2, <2>3, <2>4 DEF EventsSoFar
<1>9. CASE Link
  <2>1. PICK n \in todo : /\ links' = IF connected THEN links \union {<<EventOf(n), n>>}
                                                   ELSE links
                          /\ todo' = todo \ {n}
    BY <1>9 DEF Link
  <2>2. n \in names /\ n \in Names
    BY <1>9 DEF Link, LoopsOK, RangesOK
  <2>3. Ours' = Ours \union {EventOf(n)}
    BY <1>0, <1>9, <2>1, <2>2, OursGainsEvent DEF Link
  <2>4. Ours = (events \intersect EventsOf(names)) \union EventsOf(names \ todo)
    BY <1>0, <1>9 DEF Link, EventsSoFar
  <2>5. events' = events /\ names' = names /\ pc' = "link" /\ connected'
    BY <1>0, <1>9 DEF Link, known
  <2>6. EventsOf(names \ (todo \ {n})) = EventsOf(names \ todo) \union {EventOf(n)}
    BY <2>2 DEF EventsOf
  <2>7. /\ EventsOf(names)' = EventsOf(names)
        /\ EventsOf(names \ todo)' = EventsOf(names \ (todo \ {n}))
    BY <2>1, <2>5 DEF EventsOf
  <2> QED BY <2>3, <2>4, <2>5, <2>6, <2>7 DEF EventsSoFar
<1>10. CASE Remember
  <2>1. Ours' = Ours /\ connected' /\ pc' = "idle" /\ events' = EventsOf(names)
    BY <1>0, <1>10, OursKept DEF Remember, odb
  <2>2. Ours = (events \intersect EventsOf(names)) \union EventsOf(names)
    <3>1. names \ todo = names
      BY <1>10 DEF Remember
    <3> QED BY <1>0, <1>10, <3>1 DEF Remember, EventsSoFar
  <2> QED BY <2>1, <2>2 DEF EventsSoFar
<1>11. CASE Reconnect
  <2>1. /\ pc \in {"idle", "away"} /\ pc' = "idle" /\ connected'
        /\ UNCHANGED <<links, events>>
    BY <1>11 DEF Reconnect, odb, known
  <2> QED BY <1>0, <2>1, OursKept DEF EventsSoFar
<1>12. CASE Adopt
  BY <1>0, <1>12, OursKept DEF Adopt, EventsSoFar, odb, known
<1>13. CASE Retype \/ UNCHANGED vars
  <2>1. /\ UNCHANGED <<links, events, pc, names, todo, connected>>
        /\ Ours' = Ours
    BY <1>13, OursKept DEF Retype, vars, odb, known
  <2>2. /\ EventsOf(names)' = EventsOf(names)
        /\ EventsOf(names \ todo)' = EventsOf(names \ todo)
    BY <2>1 DEF EventsOf
  <2> QED BY <1>0, <2>1, <2>2 DEF EventsSoFar
<1> QED
  BY <1>1, <1>2, <1>3, <1>4, <1>5, <1>6, <1>7, <1>8, <1>9, <1>10, <1>11,
     <1>12, <1>13 DEF Next, Process

\* A process from which MIDAS has not gone away leaves in /History/Links, between two
\* passes, the events of the names it published last and no others.
THEOREM NoEventIsStale == Spec => []NoStaleEvents
<1>1. Init => CountsOK /\ EventsInv
  <2> SUFFICES ASSUME Init PROVE CountsOK /\ EventsInv
    OBVIOUS
  <2>1. Ours = {}
    BY DEF Init, Ours
  <2> QED BY <2>1 DEF Init, CountsOK, EventsInv, EventsSoFar
<1>2. EventsInv => NoStaleEvents
  BY DEF EventsInv, EventsSoFar, NoStaleEvents
<1>3. CountsOK /\ [Next]_vars => CountsOK'
  BY CountsStep
<1> QED
  BY <1>1, <1>2, <1>3, RangesInit, RangesStep, EventsStep, PTL DEF Spec
-----------------------------------------------------------------------------
(* What is remembered as linked is linked: the safety half of              *)
(* EverythingGetsLinked, as a pass whose names are those linked last ends  *)
(* without looking at the links.                                           *)

\* The links of last time that are in no event still to be deleted.
KeptLinks == {<<EventOf(n), n>> : n \in {m \in linked : EventOf(m) \in EventsOf(names)}}

\* The links that are there for certain, as a pass goes on.
LinkedSoFar ==
  CASE pc = "delete" -> KeptLinks \subseteq links
    [] pc = "link"   -> KeptLinks \union LinksOf(names \ todo) \subseteq links
    [] OTHER         -> LinksOf(linked) \subseteq links

LinkedInv == losses = 0 => (pc = "away" \/ connected) /\ LinkedSoFar

\* While MIDAS has not gone away, what this process takes for linked is linked
\* whenever it may look, whatever earlier processes left behind.
RememberedIsLinked ==
  losses = 0 /\ pc \in {"idle", "write", "away"} =>
    LinksOf(linked) \subseteq links

LEMMA KeptAreLinked == KeptLinks \subseteq LinksOf(linked)
BY DEF KeptLinks, LinksOf

LEMMA LinkedStep ==
  RangesOK /\ LoopsOK /\ CountsOK /\ LinkedInv /\ [Next]_vars => LinkedInv'
<1> SUFFICES ASSUME RangesOK, LoopsOK, CountsOK, LinkedInv, [Next]_vars, losses' = 0
             PROVE  (pc' = "away" \/ connected') /\ LinkedSoFar'
  BY DEF LinkedInv
<1>0. losses = 0 /\ ~ Lose
  BY DEF CountsOK, Next, Process, Publish, Write, WriteFails, UpToDate, Relink,
         Delete, StartLinks, Link, Remember, Reconnect, Lose, Retype, Adopt, Restart,
         vars, bounds
<1>1. (pc = "away" \/ connected) /\ LinkedSoFar
  BY <1>0 DEF LinkedInv
<1>2. linked' = linked => LinksOf(linked)' = LinksOf(linked)
  BY DEF LinksOf
<1>3. linked' = linked /\ names' = names => KeptLinks' = KeptLinks
  BY DEF KeptLinks, EventsOf
<1>4. CASE Publish \/ Write \/ UpToDate \/ Reconnect \/ Adopt
  <2>1. /\ connected' /\ UNCHANGED <<links, linked>>
        /\ pc \in {"idle", "write", "away"} /\ pc' \in {"idle", "write"}
    BY <1>1, <1>4 DEF Publish, Write, UpToDate, Reconnect, Adopt, odb, known
  <2> QED
    BY <1>1, <1>2, <2>1 DEF LinkedSoFar
<1>5. CASE WriteFails
  <2>1. pc = "write" /\ pc' = "away" /\ UNCHANGED <<links, linked>>
    BY <1>5 DEF WriteFails, odb, known
  <2> QED
    BY <1>1, <1>2, <2>1 DEF LinkedSoFar
<1>6. CASE Relink
  <2>1. connected' /\ UNCHANGED <<links, linked, names>> /\ pc = "write" /\ pc' = "delete"
    BY <1>1, <1>6 DEF Relink, odb, known
  <2> QED
    BY <1>1, <1>3, <2>1, KeptAreLinked DEF LinkedSoFar
<1>7. CASE Delete
  <2>1. PICK e \in todo : links' = {l \in links : l[1] # e}
    BY <1>1, <1>7 DEF Delete
  <2>2. e \notin EventsOf(names)
    BY <1>7 DEF Delete, LoopsOK
  <2>3. connected' /\ UNCHANGED <<linked, names>> /\ pc = "delete" /\ pc' = "delete"
    BY <1>1, <1>7 DEF Delete, known
  <2>4. \A l \in KeptLinks : l[1] # e
    BY <2>2 DEF KeptLinks
  <2>5. KeptLinks \subseteq links'
    BY <1>1, <2>1, <2>3, <2>4 DEF LinkedSoFar
  <2> QED
    BY <1>3, <2>3, <2>5 DEF LinkedSoFar
<1>8. CASE StartLinks
  <2>1. /\ connected' /\ UNCHANGED <<links, linked, names>> /\ pc = "delete" /\ pc' = "link"
        /\ todo' = names
    BY <1>1, <1>8 DEF StartLinks, odb, known
  <2>2. LinksOf(names \ todo)' = {}
    BY <2>1 DEF LinksOf
  <2> QED
    BY <1>1, <1>3, <2>1, <2>2 DEF LinkedSoFar
<1>9. CASE Link
  <2>1. PICK n \in todo : /\ links' = links \union {<<EventOf(n), n>>}
                          /\ todo' = todo \ {n}
    BY <1>1, <1>9 DEF Link
  <2>2. connected' /\ UNCHANGED <<linked, names>> /\ pc = "link" /\ pc' = "link"
    BY <1>1, <1>9 DEF Link, known
  <2>3. LinksOf(names \ todo)' \subseteq LinksOf(names \ todo) \union {<<EventOf(n), n>>}
    BY <2>1, <2>2 DEF LinksOf
  <2>4. KeptLinks \union LinksOf(names \ todo) \subseteq links
    BY <1>1, <2>2 DEF LinkedSoFar
  <2>5. KeptLinks' \union LinksOf(names \ todo)' \subseteq links'
    BY <1>3, <2>1, <2>2, <2>3, <2>4
  <2> QED
    BY <2>2, <2>5 DEF LinkedSoFar
<1>10. CASE Remember
  <2>1. /\ connected' /\ UNCHANGED links /\ pc = "link" /\ pc' = "idle"
        /\ linked' = names /\ todo = {}
    BY <1>1, <1>10 DEF Remember, odb
  <2>2. LinksOf(linked)' = LinksOf(names \ todo)
    BY <2>1 DEF LinksOf
  <2> QED
    BY <1>1, <2>1, <2>2 DEF LinkedSoFar
<1>11. CASE Restart
  <2>1. connected' /\ pc' = "idle" /\ linked' = {}
    BY <1>11 DEF Restart
  <2> QED
    BY <2>1 DEF LinkedSoFar, LinksOf
<1>12. CASE Retype \/ UNCHANGED vars
  <2>1. UNCHANGED <<links, linked, names, todo, pc, connected>>
    BY <1>12 DEF Retype, vars, odb, known
  <2>2. LinksOf(names \ todo)' = LinksOf(names \ todo)
    BY <2>1 DEF LinksOf
  <2> QED
    BY <1>1, <1>2, <1>3, <2>1, <2>2 DEF LinkedSoFar
<1> QED
  BY <1>0, <1>4, <1>5, <1>6, <1>7, <1>8, <1>9, <1>10, <1>11, <1>12 DEF Next, Process

\* A pass that finds its names to be those linked last, and so does nothing, is
\* right: their links are there, as long as no connection was lost.
THEOREM NothingIsLeftToLink == Spec => []RememberedIsLinked
<1>1. Init => CountsOK /\ LinkedInv
  BY DEF Init, CountsOK, LinkedInv, LinkedSoFar, LinksOf
<1>2. LinkedInv => RememberedIsLinked
  BY DEF LinkedInv, LinkedSoFar, RememberedIsLinked
<1>3. CountsOK /\ [Next]_vars => CountsOK'
  BY CountsStep
<1> QED
  BY <1>1, <1>2, <1>3, RangesInit, RangesStep, LinkedStep, PTL DEF Spec
=============================================================================
