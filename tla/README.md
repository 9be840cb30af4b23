# A TLA+ model of the shifter DQM screens

The repository is a data-quality monitor for the ATAR8 demonstrator. A Python
analyzer, attached to MIDAS as a client, takes a sample of the SAMPIC events and
accumulates histograms. A JavaScript custom page, served by mhttpd, asks the
analyzer for them over binary RPC and draws them. This directory holds the TLA+
modules that model the program, the TLC configurations that check them and the
TLAPS proofs about them.

Paths below are relative to the repository, and a module's definitions carry the
names of the code where TLA+ allows it.

## 1. The system

| part | files | state it keeps | operations |
|---|---|---|---|
| analyzer loop | `src/mdqm/dqm/analyzer.py` | connection, back-off, run number, `_stop` | connect, seed, register, poll, drain, check health, communicate, reconnect |
| settings | `settings.py` | `/DQM/Analyzer` in the ODB, the adopted copy, two fingerprints | seed, read (with defaults), apply |
| rate control | `analyzer.py` | token bucket, configured rate, dropped-packet baseline | take, halve on drops, restore on an edit |
| SAMPIC plugin | `sampic_plugin.py` | the histograms, their axes, two per-channel series | build, reconfigure, process, set window |
| rolling plots | `hist.py` | two halves of counts, two event counts, the cap | fill, note event, set cap, clear |
| history publishing | `analyzer.py` | the names and events linked last | publish, link, unlink |
| RPC server | `server.py`, `framing.py` | last error, call count | status, list, get, clear, scope |
| bank decoding | `sampic.py`, `pages/js/dqm-adbanks.js` | none | decode a bank, twice written |
| page client | `pages/js/dqm-brpc.js` | one timer and one flag per updater | call (one retry), start, stop, tick |
| Scope tab | `pages/js/dqm-scope.js` | the last event, its channels and which are hidden, one timer, a pause flag | build, poll, pause, resume, decode, draw, hide a channel |
| histogram tiles | `pages/js/dqm-hists.js` | last reply, window chip, cached maps | show, hide, refresh, reduce, clear |
| page and tabs | `pages/js/dqm-page.js`, `dqm-common.js` | configuration, which tabs are built, blocked boxes, `#tab=` of the URL | boot, load, probe, select |
| geometry | `pages/js/dqm-atar-geom.js` | decoded channel map | decode, fold into grids |
| registration | `src/mdqm/install/*.py`, `scripts/stamp-assets.py` | the `/Custom` tree of the ODB | register, prune, seed, stamp |
| replay | `scripts/replay-run.py` | the buffer of a live experiment | check the run state, send events |

How they meet. The analyzer reads settings from the ODB once every two seconds,
run state and the dropped-packet counter less often, and serves the page only
when it hands control to MIDAS (`communicate`), which is once a cycle and once
every 25 decoded events. The plugin shares its histogram store with the RPC
server, so a `dqm::clear` from a page and a rebuild by the loop act on the same
objects. The page keeps a request loop per tile and one for the Scope tab; each
loop is driven by its own replies, by the browser's timers, by the buttons and by
the visibility of the browser tab.

What is hard. MIDAS goes away and comes back at any point of the loop, including
between a liveness test and the read it protects. The operator edits settings in
an ODB that may be half-edited. A rebuild can fail after the settings were
recorded as adopted. The throttle, a reconnect and an edit all act on the rate in
force. A rolling plot's event count is a statement about a set of events kept in
two halves while its cap changes. On the page, a timer, an answer and a click may
come in any order. The lines where each of these bites are the `hazards` of
`PROJECT.json`.

What makes each part correct:

- *loop*: whatever comes and goes, requests are answered, edits take effect, a
  signal ends the process, and a restart costs no counts;
- *settings and plugin*: a plot never mixes two binnings or two runs, and the
  binning reported is the binning of the plots;
- *rate control*: the rate in force is lowered once for each loss and for nothing else,
  and raised only with another configured rate (which a poll on a dead connection adopts
  too, though no operator asked);
- *rolling plots*: the number printed beside a plot is the number of events in it,
  at most the cap, at least half of it once it has been reached (in a store that was
  left half built it falls behind);
- *page loops*: never stalled while visible, silent while hidden or paused, one
  request at a time;
- *Scope tab*: every hit of the event that is told of is on its plot, or its channel's box
  is clear and the closed line accounts for it, the three ways of showing it agree, the
  status line says what is so, and in the end the newest event is there;
- *page and tabs*: one footnote under each box that waits on the analyzer, nothing drawn
  in a tab that is not shown;
- *registration*: only this project's own entries of a shared tree are touched;
- *history*: the links are exactly those of the values being published.

## 2. Modules

| module | models | extends / instances |
|---|---|---|
| `EventWindow` | what a rolling plot promises whoever looks at it | |
| `RollingHist` | `RollingHist2D`, its two halves and its cap | `EventWindow` through a refinement mapping |
| `RollingHistProofs` | theorems | `RollingHist`, TLAPS |
| `Analyzer` | `main()`, `Analyzer`, the parts the plugin keeps, the ODB and MIDAS | |
| `AnalyzerProofs` | theorems | `Analyzer`, TLAPS |
| `HistoryLinks` | `publish_history()` and the `/History/Links` tree it shares | |
| `HistoryLinksProofs` | theorems | `HistoryLinks`, TLAPS |
| `PollLoop` | what the page's two request loops have in common | |
| `AutoUpdater` | the class of `dqm-brpc.js`, with `start()` and `stop()` | `PollLoop` |
| `ScopePoll` | `rearm()`, the Pause button of `dqm-scope.js` and the loop they make with `poll()` | `PollLoop` |
| `PollLoopProofs` | theorems | `PollLoop`, the two loops, TLAPS |
| `HistTile` | `histPanel()` of `dqm-hists.js`, `call()` of `dqm-brpc.js`, and what the analyzer does to one histogram meanwhile | `AutoUpdater`, as the loop that drives it |
| `HistTileProofs` | theorems | `HistTile`, `PollLoopProofs`, TLAPS |
| `AtarGeom` | `read()` and `heatGrid()` of `dqm-atar-geom.js`, as operators | |
| `OccupancyMap` | `load()`, which the tiles that draw cells share, and the occupancy tile, from a deposit in the target to its rankings | `AtarGeom` |
| `OccupancyProofs` | theorems | `OccupancyMap`, TLAPS |
| `AdBanks` | `dqm-adbanks.js`: an event's banks and their decoding, as operators | |
| `PageTabs` | `dqm-page.js` and `loadConfig()` of `dqm-common.js`: reading the configuration, the tabs, the footnotes | |
| `ScopeTab` | `dqm-scope.js`: the tab's state, its document and its requests | `AdBanks`, `AtarGeom`, `PageTabs`; `ScopePoll` as the loop that drives it |
| `DqmPage` | the page with its Scope tab, loaded again and again | `ScopeTab` |
| `DqmPageProofs` | theorems | `DqmPage`, `PollLoopProofs`, TLAPS |
| `RecentSeries` | `RecentByChannel` of `sampic_plugin.py` | |
| `MapScale` | `quantile()` and `fenceTop()` of `dqm-hists.js`, as operators | |
| `ChannelMaps` | the noise and baseline tiles: windows, averages, the shared scale, the distribution | `RecentSeries`, `AtarGeom`, `MapScale` |
| `ChannelMapsProofs` | theorems | `ChannelMaps`, TLAPS |
| `MCRollingHist`, `MCAnalyzer`, `MCHistoryLinks`, `MCOccupancyMap`, `MCChannelMaps`, `MCDqmPage` | constants for TLC | |

A definition whose comment begins with "Slip:" is no part of a specification.
It is a plausible mistake in the definition that follows it, kept so that each
property can be shown to notice one (`mutants` in `PROJECT.json`).

### RollingHist

`active`, `retired`, `events`, `retired_events` and `cap` are the attributes of
the object. The counts of a half are abstracted to the set of events whose data
is in them, so what is served, `Shown`, is a set of events and can be compared
with `window_events`. `offered`, `filled` and `cut` are history variables.
`ProcessEvent` is a `process()` that comes to its end: `fill()` (when the event has data
for that plot) and, some lines later, `note_event()`. It gives control to nobody between
them, but it may raise: `_build()` makes `plugin.recent` last, and after a rebuild that
stopped half way the line that reads it (`sampic_plugin.py:559`) comes after
`amplitude_by_channel` was filled (`:557`). `whole` is whether the build came to its end,
and `EventBreaksOff` is the event that is filled and not counted where it did not.
`Rebuild` is `reconfigure()`, which makes a new object. `SetCap` is `set_cap()`, with the
swap a lower cap may make on the spot, and `Clear` is `clear()`.

`EventWindow` says the same thing with nothing about halves: the plot shows a suffix of
the event stream, the count is that suffix's length in a plot that is whole and never more
in any, and events leave only down to half the cap, or all at once in a clear or a rebuild.

### Analyzer

`pc` follows `main()`: connect, adopt settings, register, then the inner loop of
applying settings (`apply`), polling the run (`poll`), draining (`drain`, with
`yield` where `run_once` calls `communicate(0)`), `health` and `communicate`; the
`except` clause is `Lost`, which goes to `retry`. The actions named after a place
of `pc` are what runs there, with every call it makes; those of `Environment` are
MIDAS, operators, frontends and signals.

The plots are two functions over `Parts`: `axes[p]`, the binning part `p` was
built with or `None`, and `content[p]`, the runs whose data is in it. What decides over
a rebuild is `ShapeOf` the settings: the binning and, with it, the list of waveform
channels, as in `binning_fingerprint()`. `Rebuild`
makes the parts in the order of `_build()` up to the first axis the binning
cannot give (`Built[b]`), which is what an exception in the middle leaves.
`Decode` fills the parts in the order of `process()` and stops, raising, at the
first one that is missing. `ReadResults` is what `settings.read()` can return:
the ODB while connected, and, as every key falls back on its own, defaults for
all keys from some point on when the connection goes before or during the read. The
point may lie inside a section: `Mixed[b]` are the binnings that are `b` up to some key
and the default after it, one of which may not be buildable though both are.

A request is to read, to clear everything or to clear one histogram (`Selected`). `Serve`
is `dispatch()`, wherever it runs: `serve()` says on an RPC thread, `run_once` says only
where the loop gives up control, and so it was measured. The model has both. `Yield` and
`Communicate` serve a request that waits, and `ServeOnThread` may serve it between any two
steps of the loop, with no fairness: what is shown to be answered is answered by the loop.

Abstracted: elapsed time (whether a poll is due, whether the bucket has a token,
whether the budget is spent are choices; a rate below one event per second never
gives a token, `MayTake`), the decoded numbers, the channel roles other than the waveform
channels, pure counters, the length of a back-off. Rates are in units of half an event per
second, below which `check_daq_health` rounds to nothing.

Assumed of the world: the keys of the settings keep the type `seed()` gave them; a
thread runs `dispatch()` between steps of the loop and not inside one; the events of a run
have left the buffer before the next run starts (`StartRun`). Without the last,
an old event decoded after `poll_run_state()` has seen the new number would be
filled into the new run's plots: the loop attributes events by when they are
decoded, not by what they carry.

### HistoryLinks

`links` and `values` are the two ODB trees `publish_history()` writes; `linked`
and `events` are `_history_linked` and `_history_events`, which a new process
starts without. A pass is `Publish`, one `Write` per value, then `UpToDate`, or
`Relink` with one `Delete` per unwanted event and one `Link` per name, then
`Remember`. Every ODB call is an action because the connection may be lost, and
the process may end, between any two: then a write raises and the pass is given
up (`WriteFails`), while `Delete` and `Link` fail in silence and the pass goes on to record
what it did not do. A write raises on a live connection too, into a key that an operator
or another program has made of another type (`refused`, `Retype`). In either case
`main()` leaves the connection and comes back with another (`away`, `Reconnect`), and what
was recorded as linked is not forgotten. `payload` is what `history()` would return; it changes when a
rebuild makes or loses the per-channel series.

### PollLoop, AutoUpdater, ScopePoll

One loop's pending timeouts and awaited requests are counted, because nothing in
the code keeps them to one. `handle` is whether the loop's reference (`_timer`,
`timer`) is set. Every callback is one action, as JavaScript runs them: `Tick` is
`_tick()` and the head of `poll()`, `Answer` the code after the `await`, `Hide`
and `Show` the two sides of `visibilitychange`. `Start`/`Stop` and `Pause`/`Resume`
differ in what they do to a pending timeout, which is why there are two modules.
`ScopePoll` has `Unload` besides: the page is loaded again, and timeouts and requests go
with it. Neither is run by itself, but for finding 3: their theorems are used by
`HistTile` and `DqmPage`, which add what the requests carry.

### HistTile

The composition of a tile with its `AutoUpdater`: `Updater` is an instance of that
module whose awaited requests are the ticks under way. A tick is a call in a slot of
`ticks`; an `await` is where it may be overtaken. `Build` is the rest of `build()`
after the first metadata, `Draw` what follows the counts, `Say` what follows the second
metadata; `Retry` and `Fail` are the two ends of `call()` when the reply was longer than
was asked for; `Fail` also stands for nobody answering, and for the error frame of an
analyzer that has no such histogram (`Refused`). `exists` is whether it has: a rebuild that
stops half way loses it (`Vanish`), and a later one brings it back (`Change`). `Serve` makes the reply when
the analyzer gets to it, so a reply may be of a state that has passed when it is read.
The histogram is the number of its `state` and the `size` it encodes to. Whether a
histogram rolls is fixed, as it is when the analyzer makes it. `overlapped` is a
history variable: whether a click, or the page being shown, ever sent a tick beside
one that was awaited, which is finding 3.

Abstracted: what the counts are, titles, the cadence (time has no length here), and the
brpc commands the tile does not use.

### AdBanks, PageTabs, ScopeTab, DqmPage

`AdBanks` decodes. A bank is its length and the fields that are read from it, so that a
bank of another layout, a record that says it has more samples than there is room for or
none, a bank that is missing and another frontend's event each come out as the code has
them: `NotOurs` (`fromEvent()` gives null) or `Broken` (it throws).

`PageTabs` is a load of the page. `page` holds the `let` variables of `dqm-page.js`, and
its operators (`ShowTab`, `NoteBlocked`, `ApplyProbe`, `Boot`) are the functions, which
take a page to a page; the actions are the callbacks: two reads of the configuration, each
of which may find nothing or fail, the probe's answer, a click on a tab. `kind` says what
each panel comes to: drawn at once, `blocked`, held back by its renderer, or failing after
it asked for a footnote. `hash` is the URL's, which outlives the page.

`ScopeTab` is the tab. `state` is the object of that name, `doc` what stands in the
document: the picker, the hits on each plot, the marks and the profile, the status line.
The places where another callback may come between are `stage`: a tab that is `opened` has
its loop going and no plot, then the one plot (`graph`, from the `setTimeout(0)`), then
the layers' (`mapped`) or none (`unmapped`) once the channel map was read. An event may
come in any of them, which is why every one of `GraphTimer`, `MapRead`, `Arrive` and
`Toggle` draws. `requests` are slots, as in `HistTile`: `since` is the event asked to be
newer than, and `Serve` fixes the reply when mhttpd gets to it, so replies may be late and
overtake each other. Its loop is an instance of `ScopePoll`.

What is drawn is kept apart from what can be seen of it. A hit without samples has a
trace without points, and a plot with no others is left without bounds, which mplot paints
as a white panel: those are `White`. The closed line of the picker (`Hiding`) names the
first `PICKER_NAMED` of the clear boxes and counts the rest.

`DqmPage` composes them: the tab that is shown decides whether plots are made in a tab
with a size, `Shows` builds the Scope tab the first time only, leaving it stops nothing
(the loop is driven by the visibility of the browser's tab, not of this one), and
`Reload` starts all over but for `hash` and `stored`, which is `localStorage`. Three
history variables: `overlapped`, a request was sent beside another; `blank`, plots were
made in a tab that was not shown; `left`, the tab was left before its plots were made.

Abstracted: colours, legends, axes, texts other than those a property is about, the sample
period (a factor of every charge), the decimation of traces, the count of replies without
an event, and `busy` in the status line. Assumed: the channel map does not change while
the page is open (that it may is in `OccupancyMap`).

### AtarGeom, OccupancyMap

`Decode` is `read()`: what the ODB says of the channels becomes a function from channels
to places, or `NoMap`. `Strips` are the cells `heatGrid()` makes, each the set of its
channels, and `Column` the cells it makes when it is given a member.

`OccupancyMap` follows three things that meet in one tile. `Deposit` is the detector:
a strip's hit goes to the channel of its pair that was not used last, in an event which
the analyzer takes or, when its bucket is empty, discards. `Open`, `Read` and `Place` are
`load()` and the two ends of its promise, which any number of tiles share. `Draw` is a
tick of a tile, drawn as its reply was made; what becomes of calls is in `HistTile`.
`complete` is a history variable: no event was discarded since the counts were cleared.

Assumed: a strip has two channels at most, and two channels that the channel map gives
one pixel id are wired to one strip. Abstracted: hits have no number but their channel,
the colours, and the sorting of uneven pairs (which are listed, not in which order).

### RecentSeries, MapScale, ChannelMaps

`points` are the deques. Times and values are whole numbers of units smaller than those of
the wire: `Reply` is `points()`, which rounds ages to `AgeUnit`, a tenth of a second, and
values to `ValueUnit`, the fourth decimal; `Means` is `means()`, which rounds nothing. The
two units are odd, so that nothing lies half way between two. `Evict` is `_evict()`, applied where the code applies it: to
the channel a value comes in on, and to all of them when the series is read. The clock
is a number that passes, and may be set back, as `time.time()` may. `log` keeps what was
recorded, to compare with what is drawn.

What a tile draws is a function of one reply, so `ChannelMaps` has it as operators on the
state: `Reduced` is `reduceByChannel()`, `Scale` the scale of both maps, `Bin` the bin of
`distHistogram()`. Only the cells, which are made on the first reply and stay, are a
variable. Averages are whole numbers of `1/Unit`, and `Unit` is divisible by every number
of values there is, so no average is rounded. The difference map and the tables are left
out.

## 3. What TLC checks

| run | question | result |
|---|---|---|
| `rolling_hist` | Is the count beside a rolling plot true, under any order of events, events broken off, cap changes, clears and rebuilds, and what is it in a half-built store? Do the halves implement `EventWindow`? | holds |
| `analyzer` | Do plots ever mix binnings or runs? What raises and lowers the rate in force, and is a loss counted once? What takes counts away? | holds |
| `analyzer_live` | Do edits take effect after a binning that cannot be built? Are drops noticed, requests answered, signals obeyed? | holds |
| `analyzer_incomplete` | Does the loop always have its plots? | violated |
| `analyzer_restart` | Do counts survive a MIDAS restart? | violated |
| `history_links` | Do links lead to values, are other users' links safe, do stale events go, is everything published linked at last, wherever passes break off (but for a link that fails as it is made)? | holds |
| `history_match` | Are the links made to match? | violated |
| `auto_updater_one` | Is there one request in flight? | violated |
| `hist_tile` | Does a tile come to show what the analyzer has, and fall silent when it should, whatever was truncated, refused, failed, overlapped or late? Is anything older ever drawn over something newer? Does the note say what is so? | holds |
| `occupancy_map` | Do the tiles of a page place the channels alike, and every channel once, whatever happens to the ODB? Do the rankings and the list of uneven pairs mean what they say? | holds |
| `page` | Is every hit of the event told of on its plot, or its box clear and accounted for, do the sections agree, is the status line true, does the newest event come to be shown, whatever the order of tabs, plots, maps, events, clicks, failures and reloads? Is each waiting box footnoted once? | holds |
| `channel_maps` | Do the windows hold the values of their age, does MIDAS history get the mean of the horizon, and when is it the page's, given the rounding of the wire? Does one scale serve both maps and the distribution? | holds |

Bounds. `rolling_hist` takes caps of -1 (below the floor of `set_cap`), 3 (odd),
4 and 8: two swaps of the largest cap fit in the nine events, so a retired half
of four events can meet a cap of 2; rebuilds, complete and not, and events broken off are
bounded by the events alone. `analyzer` has a MIDAS restart, an edit, a
run start and a dropped packet, one of each, a buffer of one event and a yield after every
event. The ODB starts as and is edited to one of four settings (`Configs`): the defaults,
another list of channels with another rate, another binning with another rate, and a
binning that stops half way, which the other one also is when only half of it was read.
Somebody clears all the plots, or the amplitudes (`Selectors`):
each hazard needs one or two of those, in an order, and the run has every order.
`analyzer_live` has two edits, so that a good binning can come back after a bad
one. `history_links` has two arrays with a
scalar of one of them, so that names come and go inside an event that stays and
with an event of their own, two changes of the names (away and back), one
loss and one restart at any call of a pass, and one key that becomes of another type and
is put right time and again. The loop of
`auto_updater_one` has at most six chains, twice what the shortest double needs.
`hist_tile` has three sizes over a first allowance of one, so that a reply can fit, be
truncated, and outgrow its second attempt; one change, which may fall between any two
steps of a tick and may bring the histogram back, and one outage of the analyzer or loss
of the histogram; two ticks at a time are the least that overtake each other.
`occupancy_map` has two pairs, which four hits can make even, one apart and equal to
each other, two tiles, and three ODBs: as wired, with another stride and one channel of
another detector, and without the base, which leaves no geometry; one edit may fall
between any two steps of opening the tiles. `MapRank` is one for five, so that two cells
are enough for two ends. `channel_maps` has three events over four mapped channels, one
mapped elsewhere and one out of range, whose values spread, and put one out of family in
one window alone. A tenth of a second is three units of time, a unit of the last decimal
three of value; horizons are a second (the floor, 30) and 32, which is no whole number of
tenths, over a clock of 32 that goes by 15 or 17, so that values come to be as old as the
horizon, a little younger, older, and rounded to either side of it; windows within and beyond it,
equal and not; four cells are the least of which a quarter is one.
`page` has nine worlds to start in, each a catalogue of tabs, an ODB, a `localStorage` and
the events to come. The pages with panels that wait on the analyzer have no events; one
page has two tabs to go between while an event comes; the pages of the Scope tab alone
have two events, or one that is decoded with care, or one and a request that fails. The
events are a track through two layers with a record that says more samples than there are;
one from both boards with two empty records, one beside a record with samples and one with
a plot to itself; one with a channel of no layer and counts that
differ; one of another frontend, one without hits and one of an unknown layout.
`PICKER_NAMED` is one, so that two clear boxes are more than the closed line names.
`localStorage` is empty, has a hidden channel, or is blocked. `MaxChains` is two, the least that
overlap: two requests, or one and a timeout.
Each bound is a CONSTANT marked "Bound" where it is declared, but for the number of events
and of failures of `page`, which its worlds give.

Deadlock is not checked in the `Analyzer` runs, where the process stops on a
signal, nor in `channel_maps`, where the clock and the events have an end; in the
others it is.

Fairness. `WF(Process)` of `Analyzer` and `HistoryLinks`: the operating system schedules the process. Strong
fairness of `ApplyDue` and `CheckHealth`: a poll that waits for two or ten seconds
finds them passed if the loop comes by for ever. Strong fairness of `DrainEnds`:
draining without decoding is far faster than the frontends, so the buffer is
found empty again and again (were it not, `run_once` would never return while
events are only discarded, as it yields only after decoded ones). `WF(MidasUp)`: MIDAS is brought
back. Nothing obliges an operator, a frontend or a page to act. On the page,
`LoopFairness`: a timeout expires, and a request is answered or fails.

### Where the code and its text differ

1. **A half-edited binning leaves the loop without plots** (`analyzer.py:242`).
   `settings.py:154` promises the analyzer keeps running with a half-edited ODB.
   `apply_settings()` records the settings and then rebuilds; if the rebuild
   raises, the reconnect finds nothing changed, and the loop goes on without the
   parts that were not built, raising on every event that needs them, until an
   edit. Run `analyzer_incomplete`.
2. **A restart can reset the plots** (`settings.py:163`). `analyzer.py:23` says a
   restart costs a reconnect and nothing else. A `read()` that meets a dead
   connection does not fail but answers defaults; they differ from a customised
   binning, so the plots are rebuilt, and rebuilt again after the reconnect. Run
   `analyzer_restart`.
3. **A tile may have several requests in flight** (`dqm-brpc.js:224`, against
   `:211`): while an answer is awaited the timer is null, and hiding and showing the
   page, or the tile, starts a second chain, which re-arms itself for good.
4. **Links are not made to match** (`analyzer.py:371`, against `:366`): only whole
   events are deleted, so when the series of a failed rebuild stop being published
   their medians and counts stay linked in the event `DQM`. Run `history_match`.
   The run has no lost connection. With one (`MaxLosses = 1`) there is another way: a link that
   fails is taken for one that is there (`:381`), recorded as linked and not tried again.
   `EverythingGetsLinked` excludes that case by a premise, as the code does not handle it.

Met while modelling, with no run. *The count beside a rolling plot falls behind*
(`sampic_plugin.py:559`, against `hist.py:213`, "`window_events` stays the real count
throughout"): in a store that a rebuild left half built, `process()` fills
`amplitude_by_channel`, raises at the next line and does not count the event. The plot
takes data in, never swaps, and its count stands still, until the next rebuild;
`WindowIsWhatIsShown` and `CeilingUnlessCut` say what holds in such a store and what in one
that is `whole`. *The throttle is undone with no operator* (`settings.py:163`, against
`analyzer.py:300`, "recovering it is an operator action, never automatic"): the failed read
of finding 2 adopts the default rate too, and the next one the ODB's again, each a rate
other than the one before, which replaces the one in force; `ThrottleHolds` counts
this among the ways the rate goes up. *A list of waveform channels empties the plots*
(`settings.py:187`): its comment says the list decides which persistence and amplitude
histograms exist, but `_build()` does not look at it, so an edit of the list rebuilds the
plots as they were and empties them (`sampic_plugin.py:56` says as much), where
`settings.py:180` says that moving a channel role should not.
*The page and history may count different values* (`sampic_plugin.py:231`, "The same number
the tile's long-window map draws"): the page gets ages rounded to tenths of a second and
cuts by them again, so that with a horizon that is no whole number of tenths a value may be
in `means()` and not in the map, and it sums values of four decimals; `HistoryIsThePage`
says when the two are of the same values and how far apart they may be. *A tile says that
nobody answers when the analyzer did* (`dqm-hists.js:345`, "Never having drawn means the
analyzer is not there"): an error frame for a histogram that is not there comes to the
same sentence, with the analyzer's text in brackets. *A chip may count another plot*
(`dqm-hists.js:324`, against `:326`, "The count that is actually in the plot"): counts
and window are two requests, and the analyzer fills, clears and rebuilds in between;
what holds is `SettlesOnTheTruth`: once the histogram rests, plot and chip agree.
*Uneven pairs are listed on a working run*: `README.md:470` says the table is absent
then, but an analyzer that discards events sees a sample of the alternation, and a
sample may be uneven; `EvenPairsUnlisted` holds only with its premise `complete`.
*A missing pixel id base reads as zero*: `Number(null)` is a number, so the guard of
`dqm-atar-geom.js:63` lets it pass, where `:43` says there is no default; unless the
number of layers is given, the strips are misplaced instead of left out. *The chip of a
map counts quiet channels among those with a cell*, but `dqm-hists.js:1743` says "every
channel with a standing average". *The highest channel of a map whose top is not clipped
is in the overflow bin* of the distribution, past the end of an axis it lies on: hence
"or at its end" in `OneScaleServesAll`.

Of the Scope tab. *A hit may leave no sign but a white panel* (`dqm-scope.js:614`): a record
without samples has a trace without points, which gets no bounds, and a plot with no
others is the white panel `:605` calls this page's stated failure mode. *The closed line
names six* (`:515`): `:456` says that it names the excluded channels; past `PICKER_NAMED` it
counts them. `EveryHitIsTold` says what of the two holds. *Plots may be made in a hidden tab*: `dqm-page.js:289` says that
building a tab when it is first shown means every renderer runs against a host that has a
size, but this tab makes its plots in a `setTimeout(0)` and when the channel map was read,
and a click on another tab may come before either; hence `PlotsHaveASize` has the premise
`left`. *The columns and the maps may disagree*: `dqm-atar-geom.js:141` wants the two to put
one coordinate on one side; the columns put even layers left always, the maps the layers
that measure x, which are the odd ones when the first layer is horizontal; hence the premise
of `SectionsAgree`. *Without a map, the one plot is hidden when no hit is to be drawn*
(`dqm-scope.js:584` asks whether there are plots by a list that is never empty), so that
the text "every channel unticked" of `:593` is never shown. *The profile leaves out a layer
whose charge is zero or less*, not only one without hits. *The loop doubles as a tile's
does* (`:345`, against `:31`): Resume asks at once, whatever is pending; hence
`overlapped` in `NeverGoesBack`. *The text that counts the overlaid traces is not
brought up to date by a click while the tab is paused*: the picker's click draws the plots
and leaves the status line; what the model has of that line does not depend on it.

Also: a tile sizes
its cadence once, by its first reply, and keeps it after a rebinning; the window shown may be below half the cap after
the cap is *raised*, where `hist.py:169` says it never is (`ShrinksToHalfAtMost`
is the form that holds, and is proved: `NeverBelowHalf`); `analyzer.py` mentions a `--dropped-path` option that its
parser does not have; a rate between 0 and 1 never decodes anything; when the DAQ
resets its dropped-packet counter the throttle is blind until the counter passes
the old baseline; while a failing rebuild keeps the loop from getting through a
cycle, DAQ health is not checked (the premise of `DropsAreNoticed`).
`DropsAreNoticed` says that the baseline follows every drop; that the rate is lowered for
each loss once is for `ThrottleHolds`.

## 4. What TLAPS proves

For every value of the constants allowed by the assumptions of the modules.

- **RollingHistProofs.** `TypeCorrect`, `WindowIsTruthful`, `CeilingHolds`,
  `NeverBelowHalf` and `ImplementsWindow`: all the safety `rolling_hist` checks, the
  refinement included, for all caps and any number of events, whether each comes to its end
  or is broken off, and of rebuilds, whether each does. The properties are not
  inductive: a swap hands over the active half's events as the retired half's, so the
  invariant `IInv` says that the halves hold two neighbouring stretches of the stream, the
  active one that of the newest events (`Halves`), that the active half is below its share,
  and that without a cut the retired half is at most its share. The counts are never more
  than the lengths of the stretches, and the same numbers in a plot that is `whole`.
- **AnalyzerProofs.** `TypeCorrect`, `OneBinningAtATime` (`AxesAreTheReportedBinning`),
  `ThrottleOnlyTakes`, `ThrottleIsAccountedFor` (`ThrottleHolds`), `NoOlderRunInAPlot`
  (`PlotsAreOfTheReportedRun`) and `CountsAreKept` (`CountsLostOnlyByRebuilding`), for
  any binnings, lists of channels, rates, runs, restarts, edits and requests. `NoOlderRunInAPlot` needs `RunsInv`:
  the run number adopted is at most the current one, events waiting belong to the
  current run, and, before any run number is known, content is of runs up to the current
  one. The assumption built into `StartRun` is essential to it: without it the step that
  decodes an event after the poll has no proof.
- **HistoryLinksProofs.** `TypeCorrect`, `LinksAreWritten`, `OthersAreSafe`,
  `NoEventIsStale` and `NothingIsLeftToLink`, for any names, payloads, keys of another
  type, losses and restarts. A pass that is half done satisfies none of them by itself, so
  the invariants say how far it has come: `PassInv`, that the names it has gone through are written,
  and all of them once links are made; `EventsInv`, that the events present are those
  kept plus those still to delete, then those kept plus those already linked.
  `NothingIsLeftToLink` is the safety half of `EverythingGetsLinked`: a pass whose names
  are those linked last ends without a look at the links, which is right because they
  are there (`RememberedIsLinked`); while a pass deletes and links, only those in events
  that stay are sure (`LinkedSoFar`).
- **PollLoopProofs.** `UpdaterTypeCorrect`, `UpdaterNeverStalls`, `ScopeTypeCorrect` and
  `ScopeNeverStalls`, of the two loops alone, for any number of chains. The reason a
  visible loop cannot stall is that its reference is never to a timeout that has expired
  (`handle => timers > 0`), so a tick that is skipped because of it is not the last;
  type correctness carries that part. The lemmas speak of the steps the loops share, and
  `HistTileProofs` and `DqmPageProofs` instance them with the requests they count.
  `UpdaterRunsDown` and `ScopeRunsDown` are the safety half of `FallsSilent`: a loop
  that is to be silent sends nothing, and twice its requests plus its timeouts (`Owed`)
  never grows and falls with every expiry and every answer. So if timeouts expire and
  requests are answered, there is an end; that last step is the one that needs fairness.
- **HistTileProofs.** `TypeCorrect`, `OneRequestUnlessOverlapped` (`OneAtATime`),
  `NothingGoesBack` (`NeverGoesBack`), `NoteIsTrue` (`NoteFitsPlot`) and
  `TileImplementsUpdater`, for any sizes, changes, outages and number of ticks. The last
  is a refinement: with the ticks under way for requests, every step of a tile is one of
  `AutoUpdater` or none. Two strengthenings carry `OneAtATime` and `NeverGoesBack`:
  without an overlap there is one chain, a timeout or a tick, never both (`OneChain`),
  and what is drawn and what a reply carries are at most the present state, a reply
  being at least what is drawn (`OnTime`).
- **OccupancyProofs.** `TilesAgree` (`OneGeometry`), for any tiles, maps and edits: a
  tile's map is what the page's one read gave (`ReadInv`). `NoEvenPairListed`
  (`EvenPairsUnlisted`), for any wiring in pairs, any number of hits and any geometry
  that keeps one id to one strip. While every event is taken, a pair is even or one
  ahead on the channel used last (`Alternates`; without the second half it is not
  inductive); a cell holds channels of one strip, because layer and strip together
  determine the id (`CellsInv`); hence no cell is two apart. `OneCellEach`
  (`EveryChannelHasOneCell`): a grid is that of the tile's map (`GridInv`), and the
  groups by which `heatGrid()` makes cells, by layer and place or by place alone, are
  classes, so a channel is in one (`StripCells`, `ColumnCells`). `EndsAreApart`
  (`SharedOnlyIfFewCounts`): for a cell in both rankings, the cells ahead of it in the
  one and in the other are each fewer than `MapRank`, and every value drawn is its own
  or that of one of them (`BothEnds`).
- **DqmPageProofs.** `TypeCorrect`, `LoopNeverStalls` (`NeverStalls`),
  `EveryBoxIsFootnoted` (`OneFootnote`), `PlotsAreMadeShown` (`PlotsHaveASize`),
  `ShownInOrder` (`NeverGoesBack`), `StatusIsTrue` (`StatusFits`), `EveryHitIsShown`
  (`EveryHitIsTold`) and `SectionsTellTheSame` (`SectionsAgree`), for any catalogue,
  ODB, events, failures, reloads and length of the closed line. `TabImplementsPoller` is the refinement of
  `ScopePoll`, reloads included, and `SilenceRunsDown` carries the result about silence
  over to the page. `PageInv` says how the page record came about: boxes are known
  exactly of the tabs that are built, each has a footnote if the answer is there, and
  the page asks only once and only before the answer; a tab that is built again, or an
  answer that comes twice, would footnote twice. `ScopeInv` has the loop (`LoopInv`, the
  invariant of `PollLoopProofs` with the requests in their slots for its count), the
  state (`StateInv`) and what the requests carry (`RequestsInv`): none is ahead of the
  buffer. `TabInv` ties the two parts together: the tab is `closed` exactly until the
  page has built it, and it waits for its plots only while it is shown or was `left`.
  `InOrder` is as in `HistTileProofs`: without an overlap there is one chain
  (`OneChain`), and what a request under way was answered with is nothing, or no older
  than what is shown (`OnTime`). `StatusIsTrue`, `EveryHitIsShown` and
  `SectionsTellTheSame` need `ScreenInv`: at every stage what stands in the document is
  what the functions that write it would write from the present state. None of the three
  is inductive without it, because a step redraws a part of the document and leaves the
  rest: `Toggle` the traces but not the status line, `MapRead` the plots but not the
  picker. What the state holds is part of it (`Holds`): the event shown is one that
  could be decoded, and its channels are among those known. From there the properties
  are facts about the operators: a hit's plot is its layer's or the last (`PanelOf`), and
  has axes if one of its traces has points; the first `PICKER_NAMED` of a finite set of
  channels are that many, or all (`FirstOnes`), so that what the closed line names and what
  it counts add up to the clear boxes (`LineAccounts`); and two ways of summing a layer's
  charge sum the same set.
- **ChannelMapsProofs.** `WindowsHold` (`WindowsAreTrue`), `HistoryAgrees`
  (`HistoryIsThePage`) and `ScaleServes` (`OneScaleServesAll`), for any number of
  channels and events, any values, windows, horizons and rebuilds. The first two rest on
  `QueueInv`: as long as the clock was not set back, the log is in the order of time
  (`Ordered`), and each queue corresponds, in order, to entries of the log that include
  every one that is young (`Finds`). Only so is what `_evict()` takes from the left all
  that is old and nothing else; a queue that merely holds the right values would not do.
  The correspondence being one to one, counts and sums are the same (`SumAcross`), so
  `means()` is the mean of the horizon. From there to the page it is arithmetic: an age
  rounded to the unit of the wire is within the window if its whole units are, and not if
  it is half a unit past it; a value is moved by half a unit at most (`RoundedIs`) and a
  sum by as many halves as it has terms (`SumClose`). That leaves the window open by less
  than a unit (`WindowTells`), and closed if the window is the whole horizon and that is
  whole units (`QueueIsHorizon`).
  `ScaleServes` is about `quantile()` and `fenceTop()`: at most a quarter of the values
  lie past the upper quartile (`Quartiles`), no fence is lower than its map's, and a
  value past the end of the scale, which is the wider fence if it cuts anything, is past
  its own map's quartile (`ScaleIs`); a value is in the over-flow exactly when it
  reaches the scale's end (`BinOf`).

What is assumed of the constants says no more than the program's own data does: bounds
are numbers; the value for "none" is none of the things it stands in for; channels are
numbered from nought, and a strip has two of them at most (`PairsAssumption`); values,
times, windows and horizons are whole numbers, of either sign; a frontend's records have
the fields the decoder gives (`LayoutAssumption`, and `IsEvent` in `WorldsAssumption`);
the last plot is no layer's (`FallbackAssumption`). TLC evaluates every one of them in
the runs.

With this every invariant and every action property of a passing run is a theorem. Where
a proof goes through data, the minimum of a set of numbers (`LeastOne`, from the
well-foundedness of `<`) takes the place of induction, whose theorems the installed
provers cannot instance: a sum over a finite set, for instance, is shown to exist by
taking the smallest set that has none.

Only model-checked: what needs fairness, which is out of the prover's reach
(`EditsTakeEffect`, `DropsAreNoticed`, `RequestsAreAnswered`, `SignalStops`,
`EverythingGetsLinked`, `SettlesOnTheTruth`, `SettlesOnTheNewest`, `FallsSilent`), but
for the safety halves told of above. The four statements the code does not keep are
refuted by TLC's traces.

## 5. Not modelled

- *Registration* (`src/mdqm/install`): register, check, prune and seed over `/Custom`. It
  runs by itself and meets the modelled parts only through the paths it writes; that it
  touches its own entries only is a property of the tree it shares, and would be the next
  module to write.
- *Replay*: to the analyzer it is a frontend, and it looks at the run state once.
- *Elapsed time in the analyzer*: the token bucket's allowance, the floors of two and ten
  seconds and the back-off are choices. So a rate below one event per second is a fact
  (`MayTake`) and no result.
- *Numbers from waveforms* on the Python side, `Axis.index` with its under- and overflow,
  the layout of banks and frames. The repository's tests compare the two bank decoders
  byte by byte; `AdBanks` has what the page makes of the fields.
- *Runs that change with events waiting*, and *a dropped-packet counter that is reset*: the
  code has no remedy for either, so there is nothing to hold; `StartRun` and the counter
  state the premises.
- *Two threads inside one operation of the analyzer*: a request is served between the steps
  of the loop, never in the middle of one, be it on a thread.
- *A rebinning seen by a page that is open*: the cells of the noise and baseline tiles are
  made from the first reply and stay. `ChannelMaps` has one number of channels.
- *The histogram tiles' tables of moved channels and difference map, the tabs' counts and
  ages, the ODB helpers of `dqm-common.js`, what a failed boot says*: text and layout.
- *The panel catalogue* (generated from `spec/`), *drawing* and *the developers' scripts*.

Not proved: that a tile's call returns a whole reply or an error, which is no property of
its own; `hist_tile` checks what becomes of it.
