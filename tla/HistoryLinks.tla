---------------------------- MODULE HistoryLinks ----------------------------
(***************************************************************************)
(* publish_history() of mdqm/dqm/analyzer.py: the plugin's history values  *)
(* are written under /DQM/Analyzer/History and linked under /History/Links *)
(* for mlogger, a tree shared with every other user of the experiment.     *)
(* The ODB survives MIDAS restarts and processes; what the analyzer has    *)
(* linked is known only to the process that linked it.                     *)
(*                                                                         *)
(* Each ODB call is an action, since the connection may go between any     *)
(* two, and then writing a value raises while deleting and linking fail in *)
(* silence.  A write also raises, for as long as it takes to put it right, *)
(* into a key that is of another type.  Values are abstracted to whether   *)
(* they are there, the period between two writes is left out, and a name   *)
(* and its event are written in any order.                                 *)
(***************************************************************************)
EXTENDS Naturals

CONSTANTS
  Arrays,       \* names whose value is a list; each has an event of its own
  Scalars,      \* names that share one event
  Shared,       \* that event: HISTORY_EVENT
  Others,       \* <<event, name>> links of other users of /History/Links
  Payloads,     \* the sets of names history() can return
  Refusable,    \* names whose key under HISTORY_PATH may be of another type
  MaxReshapes,  \* Bound: changes of what history() returns
  MaxLosses,    \* Bound: connections lost
  MaxRestarts   \* Bound: analyzer processes that follow the first

Names == Arrays \union Scalars

ASSUME NamesAssumption == Shared \notin Arrays
ASSUME OthersAssumption == \A l \in Others : l[1] \notin Arrays \union {Shared}
ASSUME PayloadsAssumption == Payloads \subseteq SUBSET Names
ASSUME RefusableAssumption == Refusable \subseteq Names

VARIABLES
  links,      \* /History/Links, as <<event, name>>
  values,     \* names written under HISTORY_PATH
  refused,    \* names whose key there takes no value of theirs
  payload,    \* the names history() would return now
  enabled,    \* "publish history" of the adopted settings
  connected,  \* the connection is alive
  linked,     \* the names of _history_linked
  events,     \* _history_events
  pc,         \* where publish_history() is, or "away": in main()'s retry
  names,      \* the names being published
  todo,       \* what is left of the loop it is in
  reshapes, losses, restarts

odb == <<links, values>>
known == <<linked, events>>
bounds == <<reshapes, losses, restarts>>
vars == <<odb, refused, known, payload, enabled, connected, pc, names, todo, bounds>>

\* _history_event().
EventOf(n) == IF n \in Arrays THEN n ELSE Shared

EventsOf(ns) == {EventOf(n) : n \in ns}

LinksOf(ns) == {<<EventOf(n), n>> : n \in ns}
-----------------------------------------------------------------------------
\* Slip: the links are made before there is anything to link to.
LinkFirst ==
  /\ pc = "idle" /\ enabled
  /\ names' = payload
  /\ pc' = "delete" /\ todo' = events \ EventsOf(payload)
  /\ UNCHANGED <<odb, refused, known, payload, enabled, connected, bounds>>

\* The period has passed and history() has answered; when it raises instead,
\* nothing is done.
Publish ==
  /\ pc = "idle" /\ enabled
  /\ names' = payload
  /\ pc' = "write" /\ todo' = payload
  /\ UNCHANGED <<odb, refused, known, payload, enabled, connected, bounds>>

\* odb_set() of one value.
Write ==
  /\ pc = "write" /\ connected
  /\ \E n \in todo \ refused : /\ values' = values \union {n}
                               /\ todo' = todo \ {n}
  /\ UNCHANGED <<links, refused, known, payload, enabled, connected, pc, names,
                 bounds>>

\* On a dead connection, or into a key of another type, it raises: the pass is
\* given up, and main() leaves the connection behind, alive or not.
WriteFails ==
  /\ pc = "write"
  /\ \E n \in todo : ~ connected \/ n \in refused
  /\ pc' = "away" /\ todo' = {}
  /\ connected' = FALSE
  /\ UNCHANGED <<odb, refused, known, payload, enabled, names, bounds>>

\* The names are those linked last: nothing more to do.
UpToDate ==
  /\ pc = "write" /\ todo = {}
  /\ names = linked
  /\ pc' = "idle"
  /\ UNCHANGED <<odb, refused, known, payload, enabled, connected, names, todo,
                 bounds>>

\* Slip: every event that is not wanted is to go.
AllUnwanted == {l[1] : l \in links} \ EventsOf(names)

\* Slip: new links are added and nothing is taken away.
NoneUnwanted == {}

\* Events this process has made and does not want any more.
Unwanted == events \ EventsOf(names)

Relink ==
  /\ pc = "write" /\ todo = {}
  /\ names # linked
  /\ pc' = "delete" /\ todo' = Unwanted
  /\ UNCHANGED <<odb, refused, known, payload, enabled, connected, names, bounds>>

\* odb_delete() of one event, which takes its links; a failure is suppressed.
Delete ==
  /\ pc = "delete"
  /\ \E e \in todo :
       /\ links' = IF connected THEN {l \in links : l[1] # e} ELSE links
       /\ todo' = todo \ {e}
  /\ UNCHANGED <<values, refused, known, payload, enabled, connected, pc, names,
                 bounds>>

StartLinks ==
  /\ pc = "delete" /\ todo = {}
  /\ pc' = "link" /\ todo' = names
  /\ UNCHANGED <<odb, refused, known, payload, enabled, connected, names, bounds>>

\* odb_link() of one name; a failure is taken for "already there".
Link ==
  /\ pc = "link"
  /\ \E n \in todo :
       /\ links' = IF connected THEN links \union {<<EventOf(n), n>>} ELSE links
       /\ todo' = todo \ {n}
  /\ UNCHANGED <<values, refused, known, payload, enabled, connected, pc, names,
                 bounds>>

\* Slip: what was linked once counts as linked for good.
RememberAll ==
  /\ pc = "link" /\ todo = {}
  /\ linked' = linked \union names
  /\ events' = events \union EventsOf(names)
  /\ pc' = "idle"
  /\ UNCHANGED <<odb, refused, payload, enabled, connected, names, todo, bounds>>

\* Slip: only the names are recorded.
RememberNames ==
  /\ pc = "link" /\ todo = {}
  /\ linked' = names
  /\ pc' = "idle"
  /\ UNCHANGED <<odb, refused, events, payload, enabled, connected, names, todo,
                 bounds>>

\* The names and events are recorded as linked, whatever failed on the way.
Remember ==
  /\ pc = "link" /\ todo = {}
  /\ linked' = names
  /\ events' = EventsOf(names)
  /\ pc' = "idle"
  /\ UNCHANGED <<odb, refused, payload, enabled, connected, names, todo, bounds>>

\* main()'s retry, after a pass that raised, or when another call of the loop
\* has raised between two passes.  What was linked is not forgotten.
Reconnect ==
  /\ pc \in {"idle", "away"} /\ ~ connected
  /\ connected' = TRUE
  /\ pc' = "idle"
  /\ UNCHANGED <<odb, refused, known, payload, enabled, names, todo, bounds>>

-----------------------------------------------------------------------------
\* MIDAS goes away, at any point.
Lose ==
  /\ connected /\ losses < MaxLosses
  /\ losses' = losses + 1
  /\ connected' = FALSE
  /\ UNCHANGED <<odb, refused, known, payload, enabled, pc, names, todo, reshapes,
                 restarts>>

\* The operator, or another program, makes a key of another type, or puts it
\* right.
Retype ==
  /\ \E n \in Refusable :
       \/ refused' = refused \union {n}
       \/ refused' = refused \ {n}
  /\ UNCHANGED <<odb, known, payload, enabled, connected, pc, names, todo, bounds>>

\* apply_settings(): the flag was edited, or a rebuild made or dropped series,
\* and with them their names.
Adopt ==
  /\ pc = "idle"
  /\ \/ enabled' = ~ enabled /\ UNCHANGED <<payload, reshapes>>
     \/ /\ reshapes < MaxReshapes
        /\ reshapes' = reshapes + 1
        /\ payload' \in Payloads \ {payload}
        /\ UNCHANGED enabled
  /\ UNCHANGED <<odb, refused, known, connected, pc, names, todo, losses, restarts>>

\* The process ends, at any point, and another takes its place, perhaps with
\* another plugin.  It knows nothing of the links it finds.
Restart ==
  /\ restarts < MaxRestarts
  /\ restarts' = restarts + 1
  /\ payload' \in Payloads
  /\ connected' = TRUE
  /\ linked' = {} /\ events' = {}
  /\ pc' = "idle" /\ names' = {} /\ todo' = {}
  /\ UNCHANGED <<odb, refused, enabled, reshapes, losses>>

Init ==
  /\ links = Others /\ values = {} /\ refused = {}
  /\ payload \in Payloads
  /\ enabled = FALSE /\ connected = TRUE
  /\ linked = {} /\ events = {}
  /\ pc = "idle" /\ names = {} /\ todo = {}
  /\ reshapes = 0 /\ losses = 0 /\ restarts = 0

Process ==
  \/ Publish \/ Write \/ WriteFails \/ UpToDate
  \/ Relink \/ Delete \/ StartLinks \/ Link \/ Remember \/ Reconnect

Next == Process \/ Lose \/ Retype \/ Adopt \/ Restart

\* The loop comes by again and again, and a period passes.
Fairness == WF_vars(Process)

Spec == Init /\ [][Next]_vars /\ Fairness
-----------------------------------------------------------------------------
\* The events the analyzer's own links make up.
Ours == {l[1] : l \in links \ Others}

\* Every variable keeps its range, and _history_events is the events of the
\* names in _history_linked: the two are set together and read apart.
TypeOK ==
  /\ links \subseteq Others \union LinksOf(Names)
  /\ values \subseteq Names /\ names \subseteq Names /\ linked \subseteq Names
  /\ refused \subseteq Refusable
  /\ payload \in Payloads
  /\ events = EventsOf(linked)
  /\ enabled \in BOOLEAN /\ connected \in BOOLEAN
  /\ pc \in {"idle", "write", "delete", "link", "away"}
  /\ todo \subseteq Names \union EventsOf(Names)

\* mlogger never follows a link to nothing: whatever pass was cut short, by
\* MIDAS or by the end of the process, what is linked has been written.
LinksLeadToValues == \A l \in links : l \in Others \/ l[2] \in values

\* /History/Links is "another experiment's" as much as ours: no pass, complete
\* or not, takes away a link it did not make.
OthersKeepTheirLinks == Others \subseteq links

\* The events of this process, as long as MIDAS has not gone away, are those
\* of the names it published last: an array that stopped being published costs
\* mlogger nothing more, however many passes a value that could not be written
\* has broken off.
NoStaleEvents ==
  (pc \in {"idle", "away"} /\ losses = 0 /\ restarts = 0) =>
    Ours = events

\* The links are remade "whenever the set of names changes": left enabled, and
\* with every key of theirs of its type again, every name published comes to be
\* linked and stays so, whatever the payload was before, whatever an earlier
\* process left and wherever a pass broke off, as long as MIDAS did not go away
\* while links were made.  A link that fails then is recorded as made
\* (analyzer.py:381) and not tried again until the names change.
EverythingGetsLinked ==
  (/\ <>[]enabled
   /\ <>[](refused \intersect payload = {})
   /\ [](pc = "link" => connected))
    => <>[](LinksOf(payload) \subseteq links)

\* analyzer.py:366: "Adding is not enough; the set has to be made to match".
\* If so, after a pass the links are those of the names it published.
LinksMatch ==
  (pc = "idle" /\ linked # {}) => links \ Others = LinksOf(linked)
=============================================================================
