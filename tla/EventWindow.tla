---------------------------- MODULE EventWindow ----------------------------
(***************************************************************************)
(* What a rolling plot promises whoever watches it, with nothing said of   *)
(* how it is kept: the plot shows a suffix of the event stream, the count  *)
(* printed beside it is the length of that suffix, and the suffix is only  *)
(* ever cut down to half the cap in force, except by an explicit clear.    *)
(* A plot of a store that was not built to its end takes in data it does   *)
(* not count: there the suffix may be longer than the count, never shorter.*)
(*                                                                         *)
(* RollingHist implements this with two halves; see RollingHist!Abstract.  *)
(***************************************************************************)
EXTENDS Integers

CONSTANT MaxEvents      \* Bound: events offered in a behaviour.

VARIABLES
  offered,   \* events the plot has been told about; event k is the k-th
  filled,    \* those of them that had data for this plot
  shown,     \* events whose data is in the counts being served
  window,    \* the number of events the plot claims to cover
  whole,     \* the store the plot is in was built to its end
  half       \* half the cap in force

wvars == <<offered, filled, shown, window, whole, half>>

\* Events of the window of length w that ends at event n.
Suffix(n, w) == (n - w + 1) .. n

\* The counts served are the data of the last n events, all of it and nothing
\* else, for an n no less than the count and, in a whole store, equal to it.
Truthful ==
  \E n \in window .. offered :
    /\ shown = filled \intersect Suffix(offered, n)
    /\ whole => n = window

\* Events may leave the window only down to half the cap.
KeepsHalf(grown) == window' < grown => window' >= half'

WInit ==
  /\ offered = 0
  /\ filled = {}
  /\ shown = {}
  /\ window = 0
  /\ whole = TRUE
  /\ half \in Nat \ {0}

\* One more event; the window takes it in, and may drop its oldest ones.
WEvent ==
  /\ offered < MaxEvents
  /\ offered' = offered + 1
  /\ filled' \in {filled, filled \union {offered + 1}}
  /\ window' \in 0 .. window + 1
  /\ KeepsHalf(window + 1)
  /\ Truthful'
  /\ UNCHANGED <<whole, half>>

\* An event broken off between its data and its count.
WStray ==
  /\ ~ whole
  /\ offered < MaxEvents
  /\ offered' = offered + 1
  /\ filled' = filled \union {offered + 1}
  /\ shown' = shown \union {offered + 1}
  /\ UNCHANGED <<window, whole, half>>

\* A new cap: it throws nothing away beyond what the new half allows.
WRecap ==
  /\ half' \in Nat \ {0}
  /\ window' \in 0 .. window
  /\ KeepsHalf(window)
  /\ Truthful'
  /\ UNCHANGED <<offered, filled, whole>>

\* A clear, a new run or a rebuild: the plot is empty and says so.
WReset ==
  /\ whole' \in BOOLEAN
  /\ window' = 0
  /\ shown' = {}
  /\ half' \in Nat \ {0}
  /\ UNCHANGED <<offered, filled>>

WNext == WEvent \/ WStray \/ WRecap \/ WReset

WSpec == WInit /\ [][WNext]_wvars
=============================================================================
