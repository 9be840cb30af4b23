------------------------- MODULE RollingHistProofs -------------------------
(***************************************************************************)
(* RollingHist for every set of caps and every number of events: the count *)
(* printed beside a rolling plot never overstates it and is the truth      *)
(* wherever the build came to its end, the ceiling holds unless the cap    *)
(* was just cut, nothing but a clear or a rebuild takes the plot below     *)
(* half the cap, and the two halves implement EventWindow.                 *)
(***************************************************************************)
EXTENDS RollingHist, TLAPS

\* Half of a cap of at least two is at least one and at most half, and a
\* larger cap has no smaller half.
LEMMA Halving ==
  ASSUME NEW k \in Int, k >= 2
  PROVE  /\ k \div 2 \in Nat /\ k \div 2 >= 1
         /\ 2 * (k \div 2) <= k
         /\ \A m \in Int : m >= k => m \div 2 >= k \div 2
  OBVIOUS

\* The active half holds the data of the newest `a` events and the retired half
\* that of the events before them, up to the newest `w`.  The counts are never
\* more, and where the build came to its end they are the same numbers.
Halves(a, w) ==
  /\ events <= a /\ retired_events <= w - a /\ a <= w /\ w <= offered
  /\ active = {e \in filled : e > offered - a}
  /\ retired = {e \in filled : e > offered - w /\ e <= offered - a}
  /\ whole => a = events /\ w = window_events

\* The two halves are neighbouring stretches of the event stream; unless the cap
\* was cut, the retired half is no longer than a half may be.
IInv ==
  /\ TypeOK
  /\ \E a, w \in Nat : Halves(a, w)
  /\ ~ cut => retired_events <= half

\* Caps that set_cap can leave are integers from two up.
LEMMA CapRange == AdoptedCaps \subseteq {k \in Int : k >= 2}
  BY CapsAssumption DEF AdoptedCaps, Adopted

\* In a state of the invariant the numbers are numbers, and the halves add up
\* to the cap at most.
LEMMA Numbers ==
  ASSUME TypeOK
  PROVE  /\ cap \in Int /\ cap >= 2
         /\ half \in Nat /\ half >= 1 /\ 2 * half <= cap
         /\ events \in Nat /\ events < half
         /\ window_events = events + retired_events /\ window_events \in Nat
<1>1. cap \in Int /\ cap >= 2
  BY CapRange DEF TypeOK
<1>2. half \in Nat /\ half >= 1 /\ 2 * half <= cap
  BY <1>1, Halving DEF half
<1>3. events \in Nat /\ events < half /\ retired_events \in Nat
  BY <1>2 DEF TypeOK
<1>4. QED
  BY <1>1, <1>2, <1>3 DEF window_events

LEMMA InitIInv == Init => IInv
<1> SUFFICES ASSUME Init PROVE IInv
  OBVIOUS
<1>1. cap \in Int /\ cap >= 2
  BY CapRange DEF Init
<1>2. half \in Nat /\ half >= 1
  BY <1>1, Halving DEF half
<1>3. /\ active = {} /\ retired = {} /\ events = 0 /\ retired_events = 0
      /\ offered = 0 /\ filled = {} /\ window_events = 0
  BY DEF Init, window_events
<1>4. cut \in BOOLEAN /\ cap \in AdoptedCaps /\ whole \in BOOLEAN
  BY DEF Init
<1>5. TypeOK
  BY <1>2, <1>3, <1>4 DEF TypeOK
<1>6. Halves(0, 0) /\ retired_events <= half
  BY <1>2, <1>3 DEF Halves
<1>7. QED
  BY <1>5, <1>6 DEF IInv

\* What both halves of the invariant say of the data they hold.
LEMMA Ranges ==
  ASSUME TypeOK
  PROVE  offered \in Nat /\ \A e \in filled : e \in Nat /\ 1 <= e /\ e <= offered
  BY DEF TypeOK

\* An event keeps the invariant: it extends the active half, which becomes the
\* retired half when it has taken its share.
LEMMA EventIInv ==
  ASSUME IInv, NEW has_data \in BOOLEAN, ProcessEvent(has_data)
  PROVE  IInv'
<1> DEFINE data == IF has_data THEN active \union {offered + 1} ELSE active
<1>1. cap' = cap /\ half' = half /\ cap \in AdoptedCaps /\ whole' = whole /\ whole \in BOOLEAN
  BY DEF ProcessEvent, half, IInv, TypeOK
<1>2. /\ half \in Nat /\ half >= 1 /\ events \in Nat /\ events < half
      /\ retired_events \in Nat
      /\ window_events = events + retired_events
  BY Numbers DEF IInv, TypeOK
<1>3. PICK a \in Nat, w \in Nat : Halves(a, w)
  BY DEF IInv
<1>4. /\ offered \in Nat
      /\ \A e \in filled : e \in Nat /\ 1 <= e /\ e <= offered
      /\ events <= a /\ retired_events <= w - a /\ a <= w /\ w <= offered
      /\ active = {e \in filled : e > offered - a}
      /\ retired = {e \in filled : e > offered - w /\ e <= offered - a}
      /\ whole => a = events /\ w = window_events
  BY <1>3, Ranges DEF Halves, IInv
<1>5. /\ offered' = offered + 1
      /\ filled' = IF has_data THEN filled \union {offered + 1} ELSE filled
  BY DEF ProcessEvent
<1>6. \A e \in filled' : e \in Nat /\ 1 <= e /\ e <= offered'
  BY <1>4, <1>5
<1>7. data = {e \in filled' : e > offered' - (a + 1)}
  BY <1>4, <1>5
<1>8. window_events' = events' + retired_events'
  BY DEF window_events
<1>9. CASE events + 1 >= half
  <2>1. /\ active' = {} /\ retired' = data
        /\ events' = 0 /\ retired_events' = events + 1
    BY <1>9 DEF ProcessEvent, Swap
  <2>2. cut' = FALSE
    BY <1>9 DEF ProcessEvent
  <2>3. active' = {e \in filled' : e > offered' - 0}
    BY <1>4, <1>5, <1>6, <2>1
  <2>4. retired' = {e \in filled' : e > offered' - (a + 1) /\ e <= offered' - 0}
    BY <1>4, <1>5, <1>6, <1>7, <2>1
  <2>5. /\ events' <= 0 /\ retired_events' <= (a + 1) - 0
        /\ 0 <= a + 1 /\ a + 1 <= offered' /\ retired_events' <= half'
    BY <1>1, <1>2, <1>4, <1>5, <2>1
  <2>6. whole' => 0 = events' /\ a + 1 = window_events'
    BY <1>1, <1>2, <1>4, <1>8, <2>1
  <2>7. Halves(0, a + 1)'
    BY <2>3, <2>4, <2>5, <2>6 DEF Halves
  <2>8. /\ active' \in SUBSET (1 .. offered') /\ retired' \in SUBSET (1 .. offered')
        /\ filled' \in SUBSET (1 .. offered')
    BY <1>4, <1>5, <1>6, <2>3, <2>4
  <2>9. events' \in Nat /\ events' < half' /\ retired_events' \in Nat /\ offered' \in Nat
    BY <1>1, <1>2, <1>4, <1>5, <2>1
  <2>10. TypeOK'
    BY <1>1, <2>2, <2>8, <2>9 DEF TypeOK
  <2>11. QED
    BY <2>5, <2>7, <2>10 DEF IInv
<1>10. CASE ~ (events + 1 >= half)
  <2>1. /\ active' = data /\ events' = events + 1
        /\ retired' = retired /\ retired_events' = retired_events
    BY <1>10 DEF ProcessEvent
  <2>2. cut' = cut /\ cut \in BOOLEAN /\ (~ cut => retired_events <= half)
    BY <1>10 DEF ProcessEvent, IInv, TypeOK
  <2>3. active' = {e \in filled' : e > offered' - (a + 1)}
    BY <1>7, <2>1
  <2>4. retired' = {e \in filled' : e > offered' - (w + 1) /\ e <= offered' - (a + 1)}
    BY <1>4, <1>5, <2>1
  <2>5. /\ events' <= a + 1 /\ retired_events' <= (w + 1) - (a + 1)
        /\ a + 1 <= w + 1 /\ w + 1 <= offered'
    BY <1>2, <1>4, <1>5, <2>1
  <2>6. whole' => a + 1 = events' /\ w + 1 = window_events'
    BY <1>1, <1>2, <1>4, <1>8, <2>1
  <2>7. Halves(a + 1, w + 1)'
    BY <2>3, <2>4, <2>5, <2>6 DEF Halves
  <2>8. /\ active' \in SUBSET (1 .. offered') /\ retired' \in SUBSET (1 .. offered')
        /\ filled' \in SUBSET (1 .. offered')
    BY <1>6, <2>3, <2>4
  <2>9. events' \in Nat /\ events' < half' /\ retired_events' \in Nat /\ offered' \in Nat
    BY <1>1, <1>2, <1>4, <1>5, <1>10, <2>1
  <2>10. TypeOK'
    BY <1>1, <2>2, <2>8, <2>9 DEF TypeOK
  <2>11. ~ cut' => retired_events' <= half'
    BY <1>1, <2>1, <2>2
  <2>12. QED
    BY <2>7, <2>10, <2>11 DEF IInv
<1>11. QED
  BY <1>9, <1>10

\* An event broken off after its fill keeps the invariant: the active half holds
\* one event more than it counts.
LEMMA StrayIInv ==
  ASSUME IInv, EventBreaksOff
  PROVE  IInv'
<1>1. /\ cap' = cap /\ half' = half /\ whole' = FALSE /\ cut' = cut
      /\ events' = events /\ retired_events' = retired_events /\ retired' = retired
      /\ offered' = offered + 1 /\ filled' = filled \union {offered + 1}
      /\ active' = active \union {offered + 1}
  BY DEF EventBreaksOff, half, IInv, TypeOK
<1>2. events \in Nat /\ events < half /\ retired_events \in Nat
  BY Numbers DEF IInv, TypeOK
<1>3. PICK a \in Nat, w \in Nat : Halves(a, w)
  BY DEF IInv
<1>4. /\ offered \in Nat
      /\ \A e \in filled : e \in Nat /\ 1 <= e /\ e <= offered
      /\ events <= a /\ retired_events <= w - a /\ a <= w /\ w <= offered
      /\ active = {e \in filled : e > offered - a}
      /\ retired = {e \in filled : e > offered - w /\ e <= offered - a}
  BY <1>3, Ranges DEF Halves, IInv
<1>5. \A e \in filled' : e \in Nat /\ 1 <= e /\ e <= offered'
  BY <1>1, <1>4
<1>6. active' = {e \in filled' : e > offered' - (a + 1)}
  BY <1>1, <1>4
<1>7. retired' = {e \in filled' : e > offered' - (w + 1) /\ e <= offered' - (a + 1)}
  BY <1>1, <1>4
<1>8. /\ events' <= a + 1 /\ retired_events' <= (w + 1) - (a + 1)
      /\ a + 1 <= w + 1 /\ w + 1 <= offered'
  BY <1>1, <1>2, <1>4
<1>9. Halves(a + 1, w + 1)'
  BY <1>1, <1>6, <1>7, <1>8 DEF Halves
<1>10. /\ active' \in SUBSET (1 .. offered') /\ retired' \in SUBSET (1 .. offered')
       /\ filled' \in SUBSET (1 .. offered') /\ offered' \in Nat
  BY <1>1, <1>4, <1>5, <1>6, <1>7
<1>11. TypeOK'
  BY <1>1, <1>2, <1>10 DEF IInv, TypeOK
<1>12. QED
  BY <1>1, <1>9, <1>11 DEF IInv

\* A new cap keeps the invariant: the active half retires when it is at the new
\* share already, and then the cap was cut.
LEMMA SetCapIInv ==
  ASSUME IInv, NEW c \in Caps, SetCap(c)
  PROVE  IInv'
<1>1. cap' \in AdoptedCaps /\ cap' \in Int /\ cap' >= 2
  BY CapRange DEF AdoptedCaps, SetCap
<1>2. half' \in Nat /\ half' >= 1
  BY <1>1, Halving DEF half
<1>3. /\ cap \in Int /\ cap >= 2
      /\ half \in Nat /\ half >= 1 /\ events \in Nat /\ events < half
      /\ retired_events \in Nat
      /\ window_events = events + retired_events
  BY Numbers DEF IInv, TypeOK
<1>4. cap' >= cap => half' >= half
  BY <1>1, <1>3, Halving DEF half
<1>5. PICK a \in Nat, w \in Nat : Halves(a, w)
  BY DEF IInv
<1>6. /\ offered \in Nat
      /\ \A e \in filled : e \in Nat /\ 1 <= e /\ e <= offered
      /\ events <= a /\ retired_events <= w - a /\ a <= w /\ w <= offered
      /\ active = {e \in filled : e > offered - a}
      /\ retired = {e \in filled : e > offered - w /\ e <= offered - a}
      /\ whole => a = events /\ w = window_events
  BY <1>5, Ranges DEF Halves, IInv
<1>7. /\ offered' = offered /\ filled' = filled /\ cut' = (cut \/ cap' < cap)
      /\ whole' = whole /\ whole \in BOOLEAN /\ filled \in SUBSET (1 .. offered)
  BY DEF SetCap, IInv, TypeOK
<1>8. cut' \in BOOLEAN /\ cut \in BOOLEAN /\ (~ cut => retired_events <= half)
  BY <1>7 DEF IInv, TypeOK
<1>9. window_events' = events' + retired_events'
  BY DEF window_events
<1>10. CASE events >= half'
  <2>1. cap' < cap
    BY <1>1, <1>2, <1>3, <1>4, <1>10
  <2>2. cut'
    BY <1>7, <2>1
  <2>3. /\ active' = {} /\ retired' = active
        /\ events' = 0 /\ retired_events' = events
    BY <1>10 DEF SetCap, Swap
  <2>0. offered' = offered /\ filled' = filled
    BY <1>7
  <2>4. active' = {e \in filled' : e > offered' - 0}
    BY <1>6, <2>0, <2>3
  <2>5. retired' = {e \in filled' : e > offered' - a /\ e <= offered' - 0}
    BY <1>6, <2>0, <2>3
  <2>6. /\ events' <= 0 /\ retired_events' <= a - 0 /\ 0 <= a /\ a <= offered'
    BY <1>3, <1>6, <1>7, <2>3
  <2>7. whole' => 0 = events' /\ a = window_events'
    BY <1>3, <1>6, <1>7, <1>9, <2>3
  <2>8. Halves(0, a)'
    BY <2>4, <2>5, <2>6, <2>7 DEF Halves
  <2>9. /\ active' \in SUBSET (1 .. offered') /\ retired' \in SUBSET (1 .. offered')
        /\ filled' \in SUBSET (1 .. offered')
    BY <1>6, <1>7, <2>4, <2>5
  <2>10. events' \in Nat /\ events' < half' /\ retired_events' \in Nat /\ offered' \in Nat
    BY <1>2, <1>3, <1>6, <1>7, <2>3
  <2>11. TypeOK'
    BY <1>1, <1>7, <1>8, <2>9, <2>10 DEF TypeOK
  <2>12. QED
    BY <2>2, <2>8, <2>11 DEF IInv
<1>11. CASE ~ (events >= half')
  <2>1. /\ active' = active /\ retired' = retired
        /\ events' = events /\ retired_events' = retired_events
    BY <1>11 DEF SetCap, halves
  <2>2. window_events' = window_events
    BY <2>1 DEF window_events
  <2>3. events' \in Nat /\ events' < half'
    BY <1>2, <1>3, <1>11, <2>1
  <2>4. TypeOK'
    BY <1>1, <1>7, <1>8, <2>1, <2>3 DEF IInv, TypeOK
  <2>5. Halves(a, w)'
    BY <1>6, <1>7, <2>1, <2>2 DEF Halves
  <2>6. cap' >= cap \/ cap' < cap
    BY <1>1, <1>3
  <2>7. ~ cut' => retired_events <= half /\ half <= half'
    <3>1. ~ cut' => ~ cut /\ ~ (cap' < cap)
      BY <1>7, <1>8
    <3>2. ~ (cap' < cap) => half <= half'
      BY <1>2, <1>3, <1>4, <2>6
    <3>3. QED
      BY <1>8, <3>1, <3>2
  <2>8. retired_events <= half /\ half <= half' => retired_events' <= half'
    BY <1>2, <1>3, <2>1
  <2>9. QED
    BY <2>4, <2>5, <2>7, <2>8 DEF IInv
<1>12. QED
  BY <1>10, <1>11

\* Empty halves keep the invariant, with whatever cap and whatever build.
LEMMA EmptyIInv ==
  ASSUME TypeOK, Empty, cap' \in AdoptedCaps, whole' \in BOOLEAN, cut' = FALSE,
         offered' = offered, filled' = filled
  PROVE  IInv'
<1>1. /\ active' = {} /\ retired' = {} /\ events' = 0 /\ retired_events' = 0
      /\ window_events' = 0
  BY DEF Empty, window_events
<1>2. cap' \in Int /\ cap' >= 2
  BY CapRange
<1>3. half' \in Nat /\ half' >= 1
  BY <1>2, Halving DEF half
<1>4. offered \in Nat /\ \A e \in filled : e \in Nat /\ 1 <= e /\ e <= offered
  BY Ranges
<1>5. filled' \in SUBSET (1 .. offered') /\ offered' \in Nat
  BY DEF TypeOK
<1>6. TypeOK'
  <2>1. events' \in Nat /\ events' < half' /\ retired_events' \in Nat
    BY <1>1, <1>3
  <2>2. active' \in SUBSET (1 .. offered') /\ retired' \in SUBSET (1 .. offered')
    BY <1>1
  <2>3. QED
    BY <1>5, <2>1, <2>2 DEF TypeOK
<1>7. Halves(0, 0)'
  BY <1>1, <1>4 DEF Halves
<1>8. retired_events' <= half'
  BY <1>1, <1>3
<1>9. QED
  BY <1>6, <1>7, <1>8 DEF IInv

LEMMA ClearIInv ==
  ASSUME IInv, Clear
  PROVE  IInv'
  BY EmptyIInv DEF Clear, IInv, TypeOK

LEMMA RebuildIInv ==
  ASSUME IInv, NEW c \in Caps, NEW complete \in BOOLEAN, Rebuild(c, complete)
  PROVE  IInv'
  BY EmptyIInv DEF Rebuild, IInv, AdoptedCaps

LEMMA NextIInv == IInv /\ [Next]_vars => IInv'
<1> SUFFICES ASSUME IInv, [Next]_vars
             PROVE  IInv'
  OBVIOUS
<1>1. ASSUME NEW has_data \in BOOLEAN, ProcessEvent(has_data)
      PROVE  IInv'
  BY <1>1, EventIInv
<1>2. ASSUME NEW c \in Caps, SetCap(c)
      PROVE  IInv'
  BY <1>2, SetCapIInv
<1>3. CASE Clear
  BY <1>3, ClearIInv
<1>4. CASE EventBreaksOff
  BY <1>4, StrayIInv
<1>5. ASSUME NEW c \in Caps, NEW complete \in BOOLEAN, Rebuild(c, complete)
      PROVE  IInv'
  BY <1>5, RebuildIInv
<1>6. CASE UNCHANGED vars
  BY <1>6 DEF vars, halves, history, IInv, TypeOK, Halves, window_events, half
<1>7. QED
  BY <1>1, <1>2, <1>3, <1>4, <1>5, <1>6 DEF Next

\* The invariant is one of the specification.
THEOREM Inductive == Spec => []IInv
  BY InitIInv, NextIInv, PTL DEF Spec

\* Type correctness of the window, for all caps.
THEOREM TypeCorrect == Spec => []TypeOK
<1>1. IInv => TypeOK
  BY DEF IInv
<1>2. QED
  BY <1>1, Inductive, PTL

\* In a state of the invariant the counts served are a suffix of the events, no
\* shorter than the count, and as long as the count after a whole build.
LEMMA ShownIsSuffix ==
  ASSUME IInv
  PROVE  \E n \in window_events .. offered :
           ShowsTheLast(n) /\ (whole => n = window_events)
<1>1. PICK a \in Nat, w \in Nat : Halves(a, w)
  BY DEF IInv
<1>2. /\ events \in Nat /\ window_events = events + retired_events
      /\ retired_events \in Nat
  BY Numbers DEF IInv, TypeOK
<1>3. /\ offered \in Nat
      /\ \A e \in filled : e \in Nat /\ 1 <= e /\ e <= offered
      /\ events <= a /\ retired_events <= w - a /\ a <= w /\ w <= offered
      /\ active = {e \in filled : e > offered - a}
      /\ retired = {e \in filled : e > offered - w /\ e <= offered - a}
      /\ whole => w = window_events
  BY <1>1, Ranges DEF Halves, IInv
<1>4. active \union retired = {e \in filled : e > offered - w}
  BY <1>3
<1>5. w \in window_events .. offered
  BY <1>2, <1>3
<1>6. QED
  BY <1>3, <1>4, <1>5 DEF ShowsTheLast, Shown

\* The number beside a rolling plot never overstates it, and is exactly the number
\* of events served in every plot whose build came to its end.
THEOREM WindowIsTruthful == Spec => []WindowIsWhatIsShown
<1>1. IInv => WindowIsWhatIsShown
  BY ShownIsSuffix DEF WindowIsWhatIsShown
<1>2. QED
  BY <1>1, Inductive, PTL

\* The cap is a ceiling, except between a cut and the next swap by an event: of
\* the number always, of the data in a plot whose build came to its end.
THEOREM CeilingHolds == Spec => []CeilingUnlessCut
<1>1. IInv => CeilingUnlessCut
  <2> SUFFICES ASSUME IInv, ~ cut
               PROVE  /\ window_events <= cap
                      /\ whole => \A e \in Shown : e > offered - cap
    BY DEF CeilingUnlessCut
  <2>1. /\ cap \in Int /\ half \in Nat /\ 2 * half <= cap
        /\ events \in Nat /\ events < half
        /\ window_events = events + retired_events /\ retired_events \in Nat
        /\ offered \in Nat /\ \A e \in filled : e \in Nat
    BY Numbers, Ranges DEF IInv, TypeOK
  <2>2. window_events <= cap
    BY <2>1 DEF IInv
  <2>3. whole => \A e \in Shown : e \in Nat /\ e > offered - window_events
    BY <2>1, ShownIsSuffix DEF ShowsTheLast
  <2>4. QED
    BY <2>1, <2>2, <2>3
<1>2. QED
  BY <1>1, Inductive, PTL

\* What a step may do to the length of the window, whatever the action: only a
\* clear or a rebuild takes it below half the cap.
LEMMA Shrinking ==
  ASSUME IInv, IInv', Next
  PROVE  \/ window_events' >= window_events
         \/ window_events' >= half'
         \/ Clear
         \/ \E c \in Caps, complete \in BOOLEAN : Rebuild(c, complete)
<1>1. /\ half \in Nat /\ events \in Nat /\ retired_events \in Nat /\ events < half
      /\ window_events = events + retired_events
  BY Numbers DEF IInv, TypeOK
<1>2. half' \in Nat /\ events' \in Nat /\ retired_events' \in Nat
  <2>1. cap' \in Int /\ cap' >= 2
    BY CapRange DEF IInv, TypeOK
  <2>2. QED
    BY <2>1, Halving DEF half, IInv, TypeOK
<1>3. window_events' = events' + retired_events'
  BY DEF window_events
<1>4. ASSUME NEW has_data \in BOOLEAN, ProcessEvent(has_data)
      PROVE  window_events' >= window_events \/ window_events' >= half'
  <2>1. half' = half
    BY <1>4 DEF ProcessEvent, half
  <2>2. CASE events + 1 >= half
    <3>1. events' = 0 /\ retired_events' = events + 1
      BY <1>4, <2>2 DEF ProcessEvent, Swap
    <3>2. QED
      BY <1>1, <1>3, <2>1, <2>2, <3>1
  <2>3. CASE ~ (events + 1 >= half)
    <3>1. events' = events + 1 /\ retired_events' = retired_events
      BY <1>4, <2>3 DEF ProcessEvent
    <3>2. QED
      BY <1>1, <1>3, <3>1
  <2>4. QED
    BY <2>2, <2>3
<1>5. ASSUME NEW c \in Caps, SetCap(c)
      PROVE  window_events' >= window_events \/ window_events' >= half'
  <2>1. CASE events >= half'
    <3>1. events' = 0 /\ retired_events' = events
      BY <1>5, <2>1 DEF SetCap, Swap
    <3>2. QED
      BY <1>1, <1>2, <1>3, <2>1, <3>1
  <2>2. CASE ~ (events >= half')
    <3>1. events' = events /\ retired_events' = retired_events
      BY <1>5, <2>2 DEF SetCap, halves
    <3>2. QED
      BY <1>1, <1>3, <3>1
  <2>3. QED
    BY <2>1, <2>2
<1>6. CASE EventBreaksOff
  <2>1. events' = events /\ retired_events' = retired_events
    BY <1>6 DEF EventBreaksOff
  <2>2. QED
    BY <1>1, <1>3, <2>1
<1>7. QED
  BY <1>4, <1>5, <1>6 DEF Next

\* "This never shows fewer than half a window": no event and no change of the
\* cap takes the plot below half the cap in force, for all caps.
THEOREM NeverBelowHalf == Spec => ShrinksToHalfAtMost
<1>1. IInv /\ IInv' /\ [Next]_vars
      => [\/ window_events' >= window_events
          \/ window_events' >= half'
          \/ Clear
          \/ \E c \in Caps, complete \in BOOLEAN : Rebuild(c, complete)]_vars
  BY Shrinking
<1>2. QED
  BY <1>1, Inductive, PTL DEF Spec, ShrinksToHalfAtMost

-----------------------------------------------------------------------------
(* RollingHist implements EventWindow. *)

LEMMA InitAbstract == Init => Abstract!WInit
<1> SUFFICES ASSUME Init
             PROVE  Abstract!WInit
  OBVIOUS
<1>1. cap \in Int /\ cap >= 2
  BY CapRange DEF Init
<1>2. half \in Nat \ {0}
  BY <1>1, Halving DEF half
<1>3. Shown = {} /\ window_events = 0
  BY DEF Init, Shown, window_events
<1>4. QED
  BY <1>2, <1>3 DEF Init, Abstract!WInit

\* The counts shown after a step are the suffix the window says they are.
LEMMA TruthfulAfter ==
  ASSUME IInv
  PROVE  Abstract!Truthful
<1>1. /\ offered \in Nat /\ window_events \in Nat
      /\ \A e \in filled : e \in Nat /\ 1 <= e /\ e <= offered
  BY Numbers, Ranges DEF IInv
<1>2. PICK n \in window_events .. offered :
        ShowsTheLast(n) /\ (whole => n = window_events)
  BY ShownIsSuffix
<1>3. filled \intersect ((offered - n + 1) .. offered) = {e \in filled : e > offered - n}
  BY <1>1
<1>4. QED
  BY <1>2, <1>3 DEF ShowsTheLast, Abstract!Truthful, Abstract!Suffix

\* An event of RollingHist is an event of EventWindow.
LEMMA EventSimulates ==
  ASSUME IInv, IInv', Abstract!Truthful',
         NEW has_data \in BOOLEAN, ProcessEvent(has_data)
  PROVE  Abstract!WEvent
<1>1. /\ half \in Nat /\ half >= 1 /\ events \in Nat /\ events < half
      /\ retired_events \in Nat /\ window_events = events + retired_events
  BY Numbers DEF IInv, TypeOK
<1>2. half' = half /\ window_events' = events' + retired_events'
  BY DEF ProcessEvent, half, window_events
<1>3. /\ offered < MaxEvents /\ offered' = offered + 1
      /\ filled' \in {filled, filled \union {offered + 1}}
  BY DEF ProcessEvent
<1>4. /\ window_events' \in 0 .. window_events + 1
      /\ window_events' < window_events + 1 => window_events' >= half'
  <2>1. CASE events + 1 >= half
    <3>1. events' = 0 /\ retired_events' = events + 1
      BY <2>1 DEF ProcessEvent, Swap
    <3>2. QED
      BY <1>1, <1>2, <2>1, <3>1
  <2>2. CASE ~ (events + 1 >= half)
    <3>1. events' = events + 1 /\ retired_events' = retired_events
      BY <2>2 DEF ProcessEvent
    <3>2. QED
      BY <1>1, <1>2, <3>1
  <2>3. QED
    BY <2>1, <2>2
<1>5. whole' = whole
  BY DEF ProcessEvent
<1>6. QED
  BY <1>2, <1>3, <1>4, <1>5 DEF Abstract!WEvent, Abstract!KeepsHalf

\* An event broken off is one of the abstract window too.
LEMMA StraySimulates ==
  ASSUME EventBreaksOff
  PROVE  Abstract!WStray
<1>1. window_events' = window_events /\ half' = half
  BY DEF EventBreaksOff, window_events, half
<1>2. Shown' = Shown \union {offered + 1}
  BY DEF EventBreaksOff, Shown
<1>3. QED
  BY <1>1, <1>2 DEF EventBreaksOff, Abstract!WStray

\* A change of the cap is a recap.
LEMMA SetCapSimulates ==
  ASSUME IInv, IInv', Abstract!Truthful', NEW c \in Caps, SetCap(c)
  PROVE  Abstract!WRecap
<1>1. /\ events \in Nat /\ retired_events \in Nat
      /\ window_events = events + retired_events
  BY Numbers DEF IInv, TypeOK
<1>2. half' \in Nat /\ half' >= 1
  <2>1. cap' \in Int /\ cap' >= 2
    BY CapRange DEF IInv, TypeOK
  <2>2. QED
    BY <2>1, Halving DEF half
<1>3. window_events' = events' + retired_events'
  BY DEF window_events
<1>4. /\ window_events' \in 0 .. window_events
      /\ window_events' < window_events => window_events' >= half'
  <2>1. CASE events >= half'
    <3>1. events' = 0 /\ retired_events' = events
      BY <2>1 DEF SetCap, Swap
    <3>2. QED
      BY <1>1, <1>2, <1>3, <2>1, <3>1
  <2>2. CASE ~ (events >= half')
    <3>1. events' = events /\ retired_events' = retired_events
      BY <2>2 DEF SetCap, halves
    <3>2. QED
      BY <1>1, <1>3, <3>1
  <2>3. QED
    BY <2>1, <2>2
<1>5. QED
  BY <1>2, <1>4 DEF SetCap, Abstract!WRecap, Abstract!KeepsHalf

\* A clear is a reset, and so is a rebuild.
LEMMA ClearSimulates ==
  ASSUME IInv, Clear
  PROVE  Abstract!WReset
<1>1. half' \in Nat /\ half' >= 1
  <2>1. half' = half
    BY DEF Clear, half
  <2>2. QED
    BY <2>1, Numbers DEF IInv
<1>2. QED
  BY <1>1 DEF Clear, Empty, Shown, window_events, Abstract!WReset, IInv, TypeOK

LEMMA RebuildSimulates ==
  ASSUME NEW c \in Caps, NEW complete \in BOOLEAN, Rebuild(c, complete)
  PROVE  Abstract!WReset
<1>1. half' \in Nat /\ half' >= 1
  <2>1. cap' \in Int /\ cap' >= 2
    BY CapRange DEF Rebuild, AdoptedCaps
  <2>2. QED
    BY <2>1, Halving DEF half
<1>2. QED
  BY <1>1 DEF Rebuild, Empty, Shown, window_events, Abstract!WReset

\* The two halves implement the window: each call of the code maps to a step
\* of EventWindow, for all caps.
THEOREM ImplementsWindow == Spec => ShowsASuffix
<1>1. IInv => Abstract!Truthful
  BY TruthfulAfter
<1>2. IInv /\ IInv' /\ Abstract!Truthful' /\ [Next]_vars
      => [Abstract!WNext]_(Abstract!wvars)
  <2> SUFFICES ASSUME IInv, IInv', Abstract!Truthful', [Next]_vars
               PROVE  [Abstract!WNext]_(Abstract!wvars)
    OBVIOUS
  <2>1. CASE Next
    BY <2>1, EventSimulates, StraySimulates, SetCapSimulates, ClearSimulates,
       RebuildSimulates
    DEF Next, Abstract!WNext
  <2>2. CASE UNCHANGED vars
    BY <2>2 DEF vars, halves, history, Shown, window_events, half, Abstract!wvars
  <2>3. QED
    BY <2>1, <2>2
<1>3. QED
  BY <1>1, <1>2, InitAbstract, Inductive, PTL
  DEF Spec, ShowsASuffix, Abstract!WSpec
=============================================================================
