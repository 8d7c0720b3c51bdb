---------------------------- MODULE ScreenProofs ----------------------------
(***************************************************************************)
(* What the screen promises for any number of products, any stock and any  *)
(* depth of the event queue: greyed cells, the touch that wakes it, and    *)
(* the agreement of touches and broker; and that its grid hands the lists  *)
(* on without losing or sharing one and leaves no timer behind.            *)
(***************************************************************************)
EXTENDS Screen, UiGrid, FiniteSetTheorems, TLAPS

touchVars == <<ignoring, finger, woke, outcome>>
queueVars == <<sleeping, evq, handling, retained, last, lost, missed>>

-----------------------------------------------------------------------------
(* Greyed cells                                                            *)

GreyInv == stock \in [Shown -> Int] /\ disabled \subseteq Shown /\ DisabledMatches

LEMMA GreyStarts == ScreenInit => GreyInv
  BY ScreenAssumption DEF ScreenInit, GreyInv, DisabledMatches, Greyed

\* A tap repaints one cell; the others stay as they were.
LEMMA GreyTap ==
  ASSUME GreyInv, NEW p \in Shown, NEW queued \in BOOLEAN, TapCell(p, queued)
  PROVE  GreyInv'
<1>1. addMode' = addMode
  BY DEF TapCell
<1>2. CASE ~(queued /\ (addMode \/ stock[p] > 0))
  BY <1>1, <1>2 DEF TapCell, gridVars, GreyInv, DisabledMatches, Greyed
<1>3. CASE queued /\ (addMode \/ stock[p] > 0)
  <2>1. /\ stock' = [stock EXCEPT ![p] = IF addMode THEN @ + Unit ELSE @ - Unit]
        /\ disabled' = IF ~addMode /\ stock'[p] <= 0 THEN disabled \cup {p} ELSE disabled \ {p}
    BY <1>3 DEF TapCell
  <2>2. stock' \in [Shown -> Int] /\ \A q \in Shown \ {p} : stock'[q] = stock[q]
    BY <2>1, ScreenAssumption DEF GreyInv
  <2>3. CASE addMode
    BY <1>1, <2>1, <2>2, <2>3 DEF GreyInv, DisabledMatches, Greyed
  <2>4. CASE ~addMode
    BY <1>1, <2>1, <2>2, <2>4 DEF GreyInv, DisabledMatches, Greyed
  <2> QED
    BY <2>3, <2>4
<1> QED
  BY <1>2, <1>3

LEMMA GreyStep == GreyInv /\ [ScreenNext]_screenVars => GreyInv'
<1> SUFFICES ASSUME GreyInv, [ScreenNext]_screenVars PROVE GreyInv'
  OBVIOUS
<1>0. CASE UNCHANGED <<gridVars, addMode>>
  BY <1>0 DEF gridVars, GreyInv, DisabledMatches, Greyed
<1>1. ASSUME NEW p \in Shown, NEW queued \in BOOLEAN, TapCell(p, queued) PROVE GreyInv'
  BY <1>1, GreyTap
<1>2. ASSUME NEW add \in BOOLEAN, Toggle(add) PROVE GreyInv'
  BY <1>2 DEF Toggle, GreyInv, DisabledMatches, Greyed
<1>3. CASE InactivityTimer
  BY <1>3 DEF InactivityTimer, GreyInv, DisabledMatches, Greyed
<1>4. ASSUME NEW st \in [Shown -> 0 .. MaxStock], NewList(st) PROVE GreyInv'
  BY <1>4, ScreenAssumption DEF NewList, GreyInv, DisabledMatches, Greyed
<1>5. ASSUME NEW e, MqttSet(e) PROVE GreyInv'
  BY <1>5, <1>0 DEF MqttSet
<1>6. CASE \/ MqttLink \/ GrocyPost \/ ScreenEvent \/ GrocyEvent \/ StateEvent
           \/ Press \/ WakePost \/ ReleaseElsewhere \/ Swallow \/ RefreshClick
  BY <1>6, <1>0 DEF MqttLink, GrocyPost, ScreenEvent, GrocyEvent, StateEvent, Press,
                    WakePost, ReleaseElsewhere, Swallow, RefreshClick
<1>7. CASE UNCHANGED screenVars
  BY <1>7, <1>0 DEF screenVars
<1> QED
  BY <1>1, <1>2, <1>3, <1>4, <1>5, <1>6, <1>7 DEF ScreenNext

\* A cell is greyed exactly when its stock and the mode say so, through every
\* one of the five places that repaint cells (ui_main.c:106-112, 183-184, 482).
THEOREM GreyedAsMarked == ScreenSpec => []DisabledMatches
<1>1. GreyInv => DisabledMatches
  BY DEF GreyInv
<1> QED
  BY <1>1, GreyStarts, GreyStep, PTL DEF ScreenSpec

-----------------------------------------------------------------------------
(* The touch that wakes the screen                                         *)

\* The flag stays set until the finger is lifted.
TouchInv == /\ woke /\ finger # "up" => ignoring
            /\ WakeTouchHarmless

LEMMA TouchStep == TouchInv /\ [ScreenNext]_screenVars => TouchInv'
<1> SUFFICES ASSUME TouchInv, [ScreenNext]_screenVars PROVE TouchInv'
  OBVIOUS
<1> USE DEF TouchInv, WakeTouchHarmless
<1>0. CASE UNCHANGED touchVars
  BY <1>0 DEF touchVars
<1>1. CASE Press
  BY <1>1 DEF Press
<1>2. CASE WakePost \/ ReleaseElsewhere \/ Swallow
  <2>1. CASE WakePost
    <3>1. finger = "wake" /\ UNCHANGED <<ignoring, woke, outcome>>
      BY <2>1 DEF WakePost
    <3> QED
      BY <3>1
  <2> QED
    BY <1>2, <2>1 DEF ReleaseElsewhere, Swallow
<1>3. CASE Click
  BY <1>3 DEF Click
<1>4. ASSUME NEW p, NEW queued, NEW add,
             Toggle(add) \/ TapCell(p, queued) \/ RefreshClick
      PROVE  TouchInv'
  BY <1>3, <1>4 DEF Toggle, TapCell, RefreshClick
<1>5. ASSUME NEW e, MqttSet(e) PROVE TouchInv'
  BY <1>5, <1>0 DEF MqttSet, touchVars
<1>6. ASSUME NEW st, NewList(st) PROVE TouchInv'
  BY <1>6, <1>0 DEF NewList, touchVars
<1>7. CASE \/ MqttLink \/ GrocyPost \/ ScreenEvent \/ GrocyEvent \/ StateEvent
           \/ InactivityTimer \/ UNCHANGED screenVars
  BY <1>7, <1>0 DEF MqttLink, GrocyPost, ScreenEvent, GrocyEvent, StateEvent,
                    InactivityTimer, touchVars, screenVars
<1> QED
  BY <1>1, <1>2, <1>4, <1>5, <1>6, <1>7 DEF ScreenNext

\* A touch that finds the screen asleep only wakes it, however late the release
\* (ui_main.c:59-76).
THEOREM WakingTouchOnlyWakes == ScreenSpec => []WakeTouchHarmless
<1>1. ScreenInit => TouchInv
  BY DEF ScreenInit, TouchInv, WakeTouchHarmless
<1>2. TouchInv => WakeTouchHarmless
  BY DEF TouchInv
<1> QED
  BY <1>1, <1>2, TouchStep, PTL DEF ScreenSpec

-----------------------------------------------------------------------------
(* Touches and broker                                                      *)

\* A GROCY_EVENT in the queue is none of the screen's.
NoScreenEvent(q) == \A i \in 1 .. Len(q) : q[i] = "grocy"
LastIs(q, e) == \A i \in 1 .. Len(q) :
    q[i] # "grocy" /\ (\A j \in 1 .. Len(q) : i < j => q[j] = "grocy") => q[i] = e

\* What is still queued ends with the last screen event; what is not queued any
\* more is being handled, or has been.
EventInv ==
    /\ evq \in Seq(Queued) /\ handling \in Events \cup {"none"}
    /\ LastIs(evq, last)
    /\ NoScreenEvent(evq) =>
         /\ handling # "none" => handling = last
         /\ handling = "none" /\ missed = FALSE => retained = last
         /\ sleeping = TRUE => last = "sleep"
         /\ finger # "wake" /\ lost = FALSE /\ last = "sleep" => sleeping = TRUE
    /\ sleeping \in BOOLEAN /\ missed \in BOOLEAN /\ lost \in BOOLEAN
    /\ retained \in Events /\ last \in Events

LEMMA AppendShape ==
  ASSUME NEW q \in Seq(Queued), NEW e \in Queued
  PROVE  /\ Append(q, e) \in Seq(Queued)
         /\ e # "grocy" => LastIs(Append(q, e), e) /\ ~NoScreenEvent(Append(q, e))
         /\ e = "grocy" => /\ NoScreenEvent(Append(q, e)) => NoScreenEvent(q)
                           /\ \A l : LastIs(q, l) => LastIs(Append(q, e), l)
<1> DEFINE r == Append(q, e)
           n == Len(q)
<1>1. n \in Nat /\ r \in Seq(Queued) /\ Len(r) = n + 1 /\ r[n + 1] = e
  OBVIOUS
<1>2. \A i \in 1 .. n : r[i] = q[i]
  OBVIOUS
<1> HIDE DEF r, n
<1>3. n + 1 \in 1 .. Len(r) /\ \A i \in 1 .. Len(r) : i \in 1 .. n \/ i = n + 1
  BY <1>1
<1>4. e # "grocy" => LastIs(r, e) /\ ~NoScreenEvent(r)
  BY <1>1, <1>3 DEF LastIs, NoScreenEvent
<1>5. e = "grocy" /\ NoScreenEvent(r) => \A i \in 1 .. n : q[i] = "grocy"
  BY <1>1, <1>2 DEF NoScreenEvent
<1>6. ASSUME e = "grocy", NEW l, LastIs(q, l) PROVE LastIs(r, l)
  <2> SUFFICES ASSUME NEW i \in 1 .. Len(r), r[i] # "grocy",
                      \A j \in 1 .. Len(r) : i < j => r[j] = "grocy"
               PROVE  r[i] = l
    BY DEF LastIs
  <2>1. i \in 1 .. n
    BY <1>1, <1>3, <1>6
  <2>2. \A j \in 1 .. n : i < j => q[j] = "grocy"
    BY <1>1, <1>2
  <2> QED
    BY <1>2, <1>6, <2>1, <2>2 DEF LastIs, n
<1> QED
  BY <1>1, <1>4, <1>5, <1>6 DEF r, n, NoScreenEvent

LEMMA TailShape ==
  ASSUME NEW q \in Seq(Queued), q # <<>>, NEW l, LastIs(q, l)
  PROVE  /\ Head(q) \in Queued /\ Tail(q) \in Seq(Queued) /\ LastIs(Tail(q), l)
         /\ NoScreenEvent(Tail(q)) => IF Head(q) = "grocy" THEN NoScreenEvent(q)
                                                           ELSE Head(q) = l
<1> DEFINE r == Tail(q)
           n == Len(q)
<1>1. /\ n \in Nat \ {0} /\ r \in Seq(Queued) /\ Len(r) = n - 1
      /\ Head(q) = q[1] /\ q[1] \in Queued
  OBVIOUS
<1>2. \A i \in 1 .. n - 1 : r[i] = q[i + 1]
  OBVIOUS
<1> HIDE DEF r, n
<1>3. \A j \in 2 .. n : q[j] = r[j - 1] /\ j - 1 \in 1 .. Len(r)
  BY <1>1, <1>2
<1>4. LastIs(r, l)
  <2> SUFFICES ASSUME NEW i \in 1 .. Len(r), r[i] # "grocy",
                      \A j \in 1 .. Len(r) : i < j => r[j] = "grocy"
               PROVE  r[i] = l
    BY DEF LastIs
  <2>1. i + 1 \in 1 .. n /\ q[i + 1] = r[i]
    BY <1>1, <1>2
  <2>2. ASSUME NEW j \in 1 .. n, i + 1 < j PROVE q[j] = "grocy"
    <3>1. j \in 2 .. n /\ i < j - 1
      BY <1>1, <2>2
    <3>2. q[j] = r[j - 1] /\ j - 1 \in 1 .. Len(r)
      BY <1>3, <3>1
    <3> QED
      BY <3>1, <3>2
  <2> QED
    BY <2>1, <2>2 DEF LastIs, n
<1>5. ASSUME NoScreenEvent(r) PROVE \A j \in 2 .. n : q[j] = "grocy"
  BY <1>3, <1>5 DEF NoScreenEvent
<1>6. NoScreenEvent(r) /\ q[1] = "grocy" => \A j \in 1 .. n : q[j] = "grocy"
  <2>1. \A j \in 1 .. n : j = 1 \/ j \in 2 .. n
    BY <1>1
  <2> QED
    BY <1>5, <2>1
<1>7. NoScreenEvent(r) /\ q[1] # "grocy" => q[1] = l
  <2>1. 1 \in 1 .. n /\ \A j \in 1 .. n : 1 < j => j \in 2 .. n
    BY <1>1
  <2> QED
    BY <1>5, <2>1 DEF LastIs, n
<1> QED
  BY <1>1, <1>4, <1>6, <1>7 DEF r, n, NoScreenEvent

\* A screen event that is queued is the last one; one that finds no room leaves
\* everything as it was, but that a touch's wake is lost.
LEMMA PostShape ==
  ASSUME EventInv, NEW e \in Events, NEW d \in BOOLEAN, Post(e, d)
  PROVE  \/ /\ evq' \in Seq(Queued) /\ ~NoScreenEvent(evq') /\ LastIs(evq', last')
            /\ last' \in Events /\ lost' \in BOOLEAN
         \/ UNCHANGED <<evq, last>> /\ lost' = d
<1>1. CASE HasSlot
  <2>1. evq \in Seq(Queued) /\ e \in Queued /\ e # "grocy"
    BY DEF EventInv, Queued, Events
  <2>2. evq' = Append(evq, e) /\ last' = e /\ lost' = FALSE
    BY <1>1 DEF Post
  <2> QED
    BY <2>1, <2>2, AppendShape
<1>2. CASE ~HasSlot
  BY <1>2, Zenon DEF Post
<1> QED
  BY <1>1, <1>2

LEMMA EventStep == EventInv /\ [ScreenNext]_screenVars => EventInv'
<1> SUFFICES ASSUME EventInv, [ScreenNext]_screenVars PROVE EventInv'
  OBVIOUS
<1>0. CASE UNCHANGED queueVars /\ (finger = "wake" => finger' = "wake")
  BY <1>0 DEF EventInv, queueVars
<1>1. ASSUME NEW e \in Events, MqttSet(e) PROVE EventInv'
  <2>1. UNCHANGED <<sleeping, handling, retained, missed, finger>> /\ Post(e, lost)
    BY <1>1 DEF MqttSet
  <2>2. lost \in BOOLEAN
    BY DEF EventInv
  <2>3. CASE UNCHANGED <<evq, last>> /\ lost' = lost
    BY <1>0, <2>1, <2>3 DEF queueVars
  <2> QED
    BY <2>1, <2>2, <2>3, PostShape DEF EventInv
<1>2. CASE WakePost
  <2>1. /\ UNCHANGED <<sleeping, handling, retained, missed>> /\ Post("wake", TRUE)
        /\ "wake" \in Events
    BY <1>2 DEF WakePost, Events
  <2>2. CASE UNCHANGED <<evq, last>> /\ lost' = TRUE
    BY <2>1, <2>2 DEF EventInv
  <2> QED
    BY <2>1, <2>2, PostShape DEF EventInv
<1>3. CASE Press
  BY <1>3 DEF Press, EventInv, eventVars
<1>4. CASE ScreenEvent
  <2>1. /\ handling' = Head(evq) /\ evq' = Tail(evq) /\ evq # <<>> /\ Head(evq) # "grocy"
        /\ UNCHANGED <<finger, last, lost, missed, retained>>
    BY <1>4 DEF ScreenEvent
  <2>2. evq \in Seq(Queued) /\ LastIs(evq, last)
    BY DEF EventInv
  <2>3. /\ Head(evq) \in Events /\ evq' \in Seq(Queued) /\ LastIs(evq', last')
        /\ NoScreenEvent(evq') => Head(evq) = last
    BY <2>1, <2>2, TailShape DEF Queued
  <2>4. sleeping' \in BOOLEAN /\ (sleeping' = TRUE <=> Head(evq) = "sleep")
    BY <1>4, Zenon DEF ScreenEvent
  <2>5. handling' # "none"
    BY <2>1, <2>3 DEF Events
  <2> QED
    BY <2>1, <2>3, <2>4, <2>5 DEF EventInv
<1>5. CASE StateEvent
  <2>1. /\ handling # "none" /\ handling' = "none" /\ missed' = ~connected
        /\ retained' = (IF connected THEN handling ELSE retained)
        /\ UNCHANGED <<evq, sleeping, last, lost, finger>>
    BY <1>5 DEF StateEvent
  <2>2. missed' \in BOOLEAN
    BY <2>1, Zenon
  <2>3. missed' = FALSE => retained' = handling
    BY <2>1
  <2> QED
    BY <2>1, <2>2, <2>3 DEF EventInv
<1>6. ASSUME NEW p, NEW queued, NEW add,
             Toggle(add) \/ TapCell(p, queued) \/ RefreshClick
      PROVE  EventInv'
  BY <1>0, <1>6 DEF Toggle, TapCell, RefreshClick, Click, eventVars, queueVars
<1>7. ASSUME NEW st, NewList(st) PROVE EventInv'
  BY <1>0, <1>7 DEF NewList, eventVars, queueVars
<1>8. CASE MqttLink \/ ReleaseElsewhere \/ Swallow \/ InactivityTimer \/ UNCHANGED screenVars
  BY <1>0, <1>8 DEF MqttLink, ReleaseElsewhere, Swallow, InactivityTimer, eventVars,
                    queueVars, screenVars
<1>9. CASE GrocyPost
  <2>1. /\ evq' = Append(evq, "grocy")
        /\ UNCHANGED <<sleeping, handling, retained, last, lost, missed, finger>>
    BY <1>9 DEF GrocyPost
  <2>2. /\ evq' \in Seq(Queued) /\ LastIs(evq', last')
        /\ NoScreenEvent(evq') => NoScreenEvent(evq)
    BY <2>1, AppendShape DEF EventInv, Queued
  <2> QED
    BY <2>1, <2>2 DEF EventInv
<1>10. CASE GrocyEvent
  <2>1. /\ evq' = Tail(evq) /\ evq # <<>> /\ Head(evq) = "grocy"
        /\ UNCHANGED <<sleeping, handling, retained, last, lost, missed, finger>>
    BY <1>10 DEF GrocyEvent
  <2>2. /\ evq' \in Seq(Queued) /\ LastIs(evq', last')
        /\ NoScreenEvent(evq') => NoScreenEvent(evq)
    BY <2>1, TailShape DEF EventInv
  <2> QED
    BY <2>1, <2>2 DEF EventInv
<1> QED
  BY <1>1, <1>2, <1>3, <1>4, <1>5, <1>6, <1>7, <1>8, <1>9, <1>10 DEF ScreenNext

\* With no event under way the screen and the retained topic are as the last
\* queued screen event left them, whoever posted it and however many GROCY_EVENTs
\* share the queue, of any depth (ui_main.c:74-80, screen_ctrl.c:11-27,
\* grocy_mqtt.c:40).  What the two are not is named in ScreenFollowsEvents: an
\* event without a broker, and a wake that found the queue full.
THEOREM TouchAndBrokerAgree == ScreenSpec => []ScreenFollowsEvents
<1>1. ScreenInit => EventInv
  <2> SUFFICES ASSUME ScreenInit PROVE EventInv
    OBVIOUS
  <2>1. /\ sleeping = FALSE /\ evq = <<>> /\ handling = "none" /\ retained \in Events
        /\ last = "wake" /\ lost = FALSE /\ missed = TRUE
    BY DEF ScreenInit
  <2>2. evq \in Seq(Queued) /\ Len(evq) = 0
    BY <2>1
  <2>3. LastIs(evq, last)
    BY <2>2 DEF LastIs
  <2> QED
    BY <2>1, <2>2, <2>3 DEF EventInv, Events
<1>2. EventInv => ScreenFollowsEvents
  <2> SUFFICES ASSUME EventInv, evq = <<>>, handling = "none", finger # "wake"
               PROVE  /\ ~missed => retained = last
                      /\ sleeping => last = "sleep"
                      /\ ~lost /\ last = "sleep" => sleeping
    BY DEF ScreenFollowsEvents
  <2>1. Len(evq) = 0
    OBVIOUS
  <2>2. NoScreenEvent(evq)
    BY <2>1 DEF NoScreenEvent
  <2> QED
    BY <2>2 DEF EventInv
<1> QED
  BY <1>1, <1>2, EventStep, PTL DEF ScreenSpec

-----------------------------------------------------------------------------
(* The grid: lists and timers                                              *)

LEMMA Unowned == Owned(None) = {}
  BY DEF Owned

LEMMA NewOwner == \A b \in Arrays : \A r : Owned([buf |-> b, rows |-> r]) = {b}
  BY ArraysAssumption DEF Owned, None

LEMMA OwnerStarts == GridInit => OneOwner
  BY Unowned DEF GridInit, OneOwner

LEMMA OwnerStep == OneOwner /\ [GridNext]_uigridVars => OneOwner'
<1> SUFFICES ASSUME OneOwner, [GridNext]_uigridVars PROVE OneOwner'
  OBVIOUS
<1>0. CASE UNCHANGED bufVars
  BY <1>0 DEF OneOwner, bufVars, Owned
<1>1. ASSUME NEW b \in Arrays, NEW rows \in Sorted, Fetch(b, rows) PROVE OneOwner'
  <2>1. /\ Owned(msg) = {} /\ Owned(msg') = {b} /\ heap' = heap \cup {b} /\ b \notin heap
        /\ UNCHANGED <<queue, list, dropped>>
    BY <1>1, Unowned, NewOwner DEF Fetch
  <2>2. Owned(queue') = Owned(queue) /\ Owned(list') = Owned(list)
    BY <2>1
  <2> QED
    BY <2>1, <2>2 DEF OneOwner
<1>2. CASE Publish
  <2>1. /\ Owned(msg') = {} /\ queue' = msg /\ dropped' = dropped \cup Owned(queue)
        /\ UNCHANGED <<heap, list>>
    BY <1>2, Unowned DEF Publish
  <2>2. Owned(queue') = Owned(msg) /\ Owned(list') = Owned(list)
    BY <2>1
  <2> QED
    BY <2>1, <2>2 DEF OneOwner
<1>3. ASSUME NEW alloc \in BOOLEAN, NEW made, PollList(alloc, made), queue # None PROVE OneOwner'
  <2>1. /\ heap' = heap \ Owned(list) /\ list' = queue /\ Owned(queue') = {}
        /\ UNCHANGED <<msg, dropped>>
    BY <1>3, Unowned DEF PollList, Rebuild, Freed
  <2>2. Owned(list') = Owned(queue) /\ Owned(msg') = Owned(msg)
    BY <2>1
  <2> QED
    BY <2>1, <2>2 DEF OneOwner
<1>4. ASSUME NEW alloc \in BOOLEAN, NEW made, PollList(alloc, made), queue = None PROVE OneOwner'
  BY <1>4, <1>0 DEF PollList, bufVars
<1>5. CASE PanicRestart
  BY <1>5, Unowned DEF PanicRestart, OneOwner
<1>6. CASE BannerExpires \/ PollNoError \/ PollError \/ ErrorClear \/ RefreshPress
  BY <1>6, <1>0 DEF BannerExpires, PollNoError, PollError, ErrorClear, RefreshPress
<1>7. ASSUME NEW p, StockPostFailed(p) PROVE OneOwner'
  BY <1>7, <1>0 DEF StockPostFailed
<1>8. ASSUME NEW l, LinkChange(l) PROVE OneOwner'
  BY <1>8, <1>0 DEF LinkChange
<1>9. ASSUME NEW i, NEW k \in Flashes, Tap(i, k) \/ FlashFires(k) PROVE OneOwner'
  BY <1>9, <1>0 DEF Tap, FlashFires
<1>10. CASE UNCHANGED uigridVars
  BY <1>10, <1>0 DEF uigridVars
<1> QED
  BY <1>1, <1>2, <1>3, <1>4, <1>5, <1>6, <1>7, <1>8, <1>9, <1>10
     DEF GridNext, OtherTasks, Poll

\* Every product array has exactly one owner, from the Grocy task's allocation
\* to the LVGL task's free (grocy_task.c:62-69, ui_main.c:429-434).
THEOREM ListsHaveOneOwner == GridSpec => []OneOwner
  BY OwnerStarts, OwnerStep, PTL DEF GridSpec

-----------------------------------------------------------------------------
(* Timers.  That a failure starts one timer rests on the list having a     *)
(* product once; that a timer of the old grid is not taken for one of the  *)
(* new grid rests on the rebuild ending them all.                          *)

ListsTyped == /\ msg \in Lists /\ queue \in Lists /\ list \in Lists
              /\ cells \subseteq DOMAIN list.rows /\ gen \in {0, 1}
              /\ flash \in [Flashes -> Cells \cup {NoCell}]

\* A list has at most as many rows as there are products, each product once.
LEMMA RowsOnce ==
  ASSUME NEW l \in Lists
  PROVE  /\ DOMAIN l.rows \subseteq 1 .. Cardinality(Products)
         /\ \A i, j \in DOMAIN l.rows : l.rows[i] = l.rows[j] => i = j
<1>1. CASE l = None
  BY <1>1 DEF None
<1>2. CASE l # None
  <2>1. l.rows \in Sorted
    BY <1>2 DEF Lists
  <2>2. PICK n \in 1 .. Cardinality(Products) : l.rows \in [1 .. n -> Products]
    BY <2>1 DEF Sorted
  <2>3. \A i, j \in DOMAIN l.rows : i < j => l.rows[i] < l.rows[j]
    BY <2>1 DEF Sorted
  <2>4. DOMAIN l.rows = 1 .. n
    BY <2>2
  <2>5. \A i \in DOMAIN l.rows : l.rows[i] \in Nat
    BY <2>2, <2>4, ProductsAssumption
  <2>6. n \in Nat /\ Cardinality(Products) \in Nat /\ n <= Cardinality(Products)
    BY <2>2, ProductsAssumption, FS_CardinalityType
  <2>7. DOMAIN l.rows \subseteq 1 .. Cardinality(Products)
    BY <2>4, <2>6
  <2>8. ASSUME NEW i \in DOMAIN l.rows, NEW j \in DOMAIN l.rows, l.rows[i] = l.rows[j]
        PROVE  i = j
    <3>1. ~(i < j) /\ ~(j < i)
      BY <2>3, <2>5, <2>8
    <3> QED
      BY <3>1, <2>4, <2>6
  <2> QED
    BY <2>7, <2>8
<1> QED
  BY <1>1, <1>2

LEMMA ListsStart == GridInit => ListsTyped
  BY DEF GridInit, ListsTyped, Lists, None

LEMMA ListsStep == ListsTyped /\ [GridNext]_uigridVars => ListsTyped'
<1> SUFFICES ASSUME ListsTyped, [GridNext]_uigridVars PROVE ListsTyped'
  OBVIOUS
<1> USE DEF ListsTyped
<1>1. ASSUME NEW b \in Arrays, NEW rows \in Sorted, Fetch(b, rows) PROVE ListsTyped'
  BY <1>1 DEF Fetch, cellVars, Lists
<1>2. CASE Publish
  BY <1>2 DEF Publish, cellVars, Lists
<1>3. ASSUME NEW alloc \in BOOLEAN, NEW made \in SUBSET DOMAIN queue.rows, PollList(alloc, made)
      PROVE  ListsTyped'
  <2>1. CASE queue = None
    BY <1>3, <2>1 DEF PollList, cellVars
  <2>2. CASE queue # None
    BY <1>3, <2>2 DEF PollList, Rebuild, Lists
  <2> QED
    BY <2>1, <2>2
<1>4. CASE PanicRestart
  BY <1>4 DEF PanicRestart, Lists, None
<1>5. CASE BannerExpires \/ PollNoError \/ RefreshPress \/ UNCHANGED uigridVars
  BY <1>5 DEF BannerExpires, PollNoError, RefreshPress, cellVars, bufVars, uigridVars
<1>6. CASE PollError \/ ErrorClear
  BY <1>6 DEF PollError, ErrorClear, bufVars
<1>7. ASSUME NEW p, StockPostFailed(p) PROVE ListsTyped'
  BY <1>7 DEF StockPostFailed, cellVars, bufVars
<1>8. ASSUME NEW l, LinkChange(l) PROVE ListsTyped'
  BY <1>8 DEF LinkChange, cellVars, bufVars
<1>9. ASSUME NEW i \in DOMAIN list.rows, NEW k \in Flashes, Tap(i, k) PROVE ListsTyped'
  <2>1. <<gen, i>> \in Cells
    BY RowsOnce DEF Cells
  <2> QED
    BY <1>9, <2>1 DEF Tap, bufVars
<1>10. ASSUME NEW k \in Flashes, FlashFires(k) PROVE ListsTyped'
  BY <1>10 DEF FlashFires, FlashOver, bufVars
<1> QED
  BY <1>1, <1>2, <1>3, <1>4, <1>5, <1>6, <1>7, <1>8, <1>9, <1>10
     DEF GridNext, OtherTasks, Poll

GInv == ListsTyped /\ TimersLive

\* The cells of a grid are all of it, and the overlays and timers with them.
LEMMA TimersStart == GridInit => TimersLive
  BY DEF GridInit, TimersLive, Live

LEMMA TimersStep == GInv /\ [GridNext]_uigridVars => TimersLive'
<1> SUFFICES ASSUME GInv, [GridNext]_uigridVars PROVE TimersLive'
  OBVIOUS
<1> USE DEF GInv
<1>0. CASE UNCHANGED cellVars
  BY <1>0 DEF TimersLive, Live, cellVars
<1>1. ASSUME NEW alloc \in BOOLEAN, NEW made \in SUBSET DOMAIN queue.rows, PollList(alloc, made)
      PROVE  TimersLive'
  <2>1. CASE queue = None
    BY <1>1, <1>0, <2>1 DEF PollList
  <2>2. CASE queue # None
    <3>1. errTimers' = {} /\ errHandle' = NoCell
      BY <1>1, <2>2 DEF PollList, Rebuild, TimersKept, TimersLive
    <3>2. flashTimers' = {} /\ flash' = [k \in Flashes |-> NoCell]
      BY <1>1, <2>2 DEF PollList, Rebuild, FlashTimersKept, TimersLive
    <3> QED
      BY <3>1, <3>2 DEF TimersLive
  <2> QED
    BY <2>1, <2>2
<1>2. CASE PollError
  <2>1. CASE RowsOf(failedId) \subseteq cells /\ RowsOf(failedId) # {}
    <3>1. PICK i \in DOMAIN list.rows : RowsOf(failedId) = {i}
      BY <2>1, RowsOnce DEF RowsOf, ListsTyped
    <3>2. /\ errTimers' = (errTimers \ {errHandle}) \cup {<<gen, i>>}
          /\ errHandle' = <<gen, i>>
      BY <1>2, <2>1, <3>1 DEF PollError, RestartTimer
    <3>3. errTimers' = {<<gen, i>>}
      BY <3>2 DEF TimersLive
    <3>4. <<gen, i>> \in Live /\ <<gen, i>> # NoCell
      BY <2>1, <3>1, RowsOnce DEF Live, NoCell, ListsTyped
    <3> QED
      BY <1>2, <3>2, <3>3, <3>4 DEF PollError, TimersLive, Live
  <2>2. CASE ~(RowsOf(failedId) \subseteq cells /\ RowsOf(failedId) # {})
    BY <1>2, <2>2 DEF PollError, TimersLive, Live
  <2> QED
    BY <2>1, <2>2
<1>3. CASE PanicRestart
  BY <1>3 DEF PanicRestart, TimersLive, Live
<1>4. CASE ErrorClear
  <2>1. errTimers' = {} /\ errHandle' = NoCell
    BY <1>4 DEF ErrorClear, TimersLive
  <2> QED
    BY <1>4, <2>1 DEF ErrorClear, TimersLive, Live
<1>5. ASSUME NEW i \in DOMAIN list.rows, NEW k \in Flashes, Tap(i, k) PROVE TimersLive'
  <2>1. /\ flash' = [flash EXCEPT ![k] = <<gen, i>>] /\ flashTimers' = flashTimers \cup {k}
        /\ UNCHANGED <<gen, cells, errTimers, errHandle>>
    BY <1>5 DEF Tap
  <2>2. <<gen, i>> \in Live /\ <<gen, i>> # NoCell
    BY <1>5, RowsOnce DEF Tap, Live, NoCell, ListsTyped
  <2>3. \A j \in Flashes : flash'[j] = IF j = k THEN <<gen, i>> ELSE flash[j]
    BY <2>1 DEF ListsTyped
  <2> QED
    BY <2>1, <2>2, <2>3 DEF TimersLive, Live
<1>6. ASSUME NEW k \in Flashes, FlashFires(k) PROVE TimersLive'
  <2>1. /\ flash' = [flash EXCEPT ![k] = NoCell] /\ flashTimers' = flashTimers \ {k}
        /\ UNCHANGED <<gen, cells, errTimers, errHandle>>
    BY <1>6 DEF FlashFires, FlashOver
  <2>2. \A j \in Flashes : flash'[j] = IF j = k THEN NoCell ELSE flash[j]
    BY <2>1 DEF ListsTyped
  <2> QED
    BY <2>1, <2>2 DEF TimersLive, Live
<1>7. ASSUME NEW b, NEW rows, Fetch(b, rows) PROVE TimersLive'
  BY <1>7, <1>0 DEF Fetch
<1>8. CASE Publish \/ BannerExpires \/ PollNoError \/ RefreshPress
  BY <1>8, <1>0 DEF Publish, BannerExpires, PollNoError, RefreshPress
<1>9. ASSUME NEW p, StockPostFailed(p) PROVE TimersLive'
  BY <1>9, <1>0 DEF StockPostFailed
<1>10. ASSUME NEW l, LinkChange(l) PROVE TimersLive'
  BY <1>10, <1>0 DEF LinkChange
<1>11. CASE UNCHANGED uigridVars
  BY <1>11, <1>0 DEF uigridVars
<1> QED
  BY <1>1, <1>2, <1>3, <1>4, <1>5, <1>6, <1>7, <1>8, <1>9, <1>10, <1>11
     DEF GridNext, OtherTasks, Poll

LEMMA GridInvariant == GridSpec => []GInv
<1>1. GridInit => GInv
  BY ListsStart, TimersStart DEF GInv
<1>2. GInv /\ [GridNext]_uigridVars => GInv'
  BY ListsStep, TimersStep DEF GInv
<1> QED
  BY <1>1, <1>2, PTL DEF GridSpec

\* An error timer's cell and a flash timer's overlay exist, whatever rebuilds,
\* failures and taps came in between (ui_main.c:415-419,
\* ui_product_cell.c:136-153).
THEOREM NoTimerOutlives == GridSpec => []TimersLive
<1>1. GInv => TimersLive
  BY DEF GInv
<1> QED
  BY <1>1, GridInvariant, PTL

-----------------------------------------------------------------------------
(* Types                                                                   *)

TouchTypeOK ==
    /\ sleeping \in BOOLEAN /\ ignoring \in BOOLEAN /\ finger \in {"up", "wake", "down"}
    /\ addMode \in BOOLEAN /\ timer \in BOOLEAN
    /\ woke \in BOOLEAN /\ outcome \in {"none", "acted", "swallowed"}

CellTypeOK == stock \in Stocks /\ disabled \subseteq Shown

EventTypeOK ==
    /\ evq \in Seq(Queued) /\ Len(evq) <= EventQueueDepth
    /\ handling \in Events \cup {"none"} /\ connected \in BOOLEAN
    /\ retained \in Events /\ last \in Events /\ missed \in BOOLEAN /\ lost \in BOOLEAN

LEMMA TouchTypeStep == TouchTypeOK /\ [ScreenNext]_screenVars => TouchTypeOK'
<1> SUFFICES ASSUME TouchTypeOK, [ScreenNext]_screenVars PROVE TouchTypeOK'
  OBVIOUS
<1> USE DEF TouchTypeOK
<1>1. ASSUME NEW e \in Events, MqttSet(e) PROVE TouchTypeOK'
  BY <1>1 DEF MqttSet
<1>2. CASE \/ MqttLink \/ GrocyPost \/ ScreenEvent \/ GrocyEvent \/ StateEvent \/ Press
           \/ WakePost \/ ReleaseElsewhere \/ Swallow \/ RefreshClick \/ InactivityTimer
  BY <1>2 DEF MqttLink, GrocyPost, ScreenEvent, GrocyEvent, StateEvent, Press, WakePost,
              ReleaseElsewhere, Swallow, RefreshClick, Click, InactivityTimer
<1>3. ASSUME NEW add \in BOOLEAN, Toggle(add) PROVE TouchTypeOK'
  BY <1>3 DEF Toggle, Click
<1>4. ASSUME NEW p \in Shown, NEW queued \in BOOLEAN, TapCell(p, queued) PROVE TouchTypeOK'
  BY <1>4 DEF TapCell, Click
<1>5. ASSUME NEW st \in [Shown -> 0 .. MaxStock], NewList(st) PROVE TouchTypeOK'
  BY <1>5 DEF NewList
<1>6. CASE UNCHANGED screenVars
  BY <1>6 DEF screenVars
<1> QED
  BY <1>1, <1>2, <1>3, <1>4, <1>5, <1>6 DEF ScreenNext

\* A tap that is accepted in Consume mode finds something in stock, if not a unit.
LEMMA CellTypeStep == CellTypeOK /\ [ScreenNext]_screenVars => CellTypeOK'
<1> SUFFICES ASSUME CellTypeOK, [ScreenNext]_screenVars PROVE CellTypeOK'
  OBVIOUS
<1> USE DEF CellTypeOK
<1>0. CASE UNCHANGED gridVars
  BY <1>0 DEF gridVars
<1>1. ASSUME NEW p \in Shown, NEW queued \in BOOLEAN, TapCell(p, queued) PROVE CellTypeOK'
  <2>1. CASE ~(queued /\ (addMode \/ stock[p] > 0))
    BY <1>0, <1>1, <2>1 DEF TapCell
  <2>2. CASE queued /\ (addMode \/ stock[p] > 0)
    <3>1. /\ addMode => stock[p] + Unit <= MaxStock
          /\ stock' = [stock EXCEPT ![p] = IF addMode THEN stock[p] + Unit ELSE stock[p] - Unit]
          /\ disabled' \subseteq Shown
      BY <1>1, <2>2 DEF TapCell
    <3>2. stock[p] \in (1 - Unit) .. MaxStock
      BY DEF Stocks
    <3>3. (IF addMode THEN stock[p] + Unit ELSE stock[p] - Unit) \in (1 - Unit) .. MaxStock
      BY <2>2, <3>1, <3>2, ScreenAssumption
    <3> QED
      BY <3>1, <3>3 DEF Stocks
  <2> QED
    BY <2>1, <2>2
<1>2. ASSUME NEW add \in BOOLEAN, Toggle(add) PROVE CellTypeOK'
  BY <1>2 DEF Toggle, Greyed
<1>3. CASE InactivityTimer
  BY <1>3 DEF InactivityTimer, Greyed
<1>4. ASSUME NEW st \in [Shown -> 0 .. MaxStock], NewList(st) PROVE CellTypeOK'
  BY <1>4, ScreenAssumption DEF NewList, Greyed, Stocks
<1>5. ASSUME NEW e \in Events, MqttSet(e) PROVE CellTypeOK'
  BY <1>0, <1>5 DEF MqttSet
<1>6. CASE \/ MqttLink \/ GrocyPost \/ ScreenEvent \/ GrocyEvent \/ StateEvent \/ Press
           \/ WakePost \/ ReleaseElsewhere \/ Swallow \/ RefreshClick \/ UNCHANGED screenVars
  BY <1>0, <1>6 DEF MqttLink, GrocyPost, ScreenEvent, GrocyEvent, StateEvent, Press, WakePost,
                    ReleaseElsewhere, Swallow, RefreshClick, screenVars
<1> QED
  BY <1>1, <1>2, <1>3, <1>4, <1>5, <1>6 DEF ScreenNext

LEMMA AppendTyped ==
  ASSUME EventTypeOK, NEW e \in Queued, HasSlot
  PROVE  Append(evq, e) \in Seq(Queued) /\ Len(Append(evq, e)) <= EventQueueDepth
<1>1. evq \in Seq(Queued) /\ Len(evq) \in Nat /\ EventQueueDepth \in Nat
  BY ScreenAssumption DEF EventTypeOK
<1>2. Append(evq, e) \in Seq(Queued) /\ Len(Append(evq, e)) = Len(evq) + 1
  BY <1>1
<1> QED
  BY <1>1, <1>2 DEF HasSlot

LEMMA PostTyped ==
  ASSUME EventTypeOK, NEW e \in Events, NEW d \in BOOLEAN, Post(e, d)
  PROVE  evq' \in Seq(Queued) /\ Len(evq') <= EventQueueDepth /\ last' \in Events
         /\ lost' \in BOOLEAN
<1>1. CASE HasSlot
  BY <1>1, AppendTyped DEF Post, Queued
<1>2. CASE ~HasSlot
  BY <1>2, Zenon DEF Post, EventTypeOK
<1> QED
  BY <1>1, <1>2

LEMMA EventTypeStep == EventTypeOK /\ [ScreenNext]_screenVars => EventTypeOK'
<1> SUFFICES ASSUME EventTypeOK, [ScreenNext]_screenVars PROVE EventTypeOK'
  OBVIOUS
<1>0. CASE UNCHANGED <<eventVars, last, lost, missed>>
  BY <1>0 DEF EventTypeOK, eventVars
<1>1. ASSUME NEW e \in Events, MqttSet(e) PROVE EventTypeOK'
  <2>1. Post(e, lost) /\ lost \in BOOLEAN
    BY <1>1 DEF MqttSet, EventTypeOK
  <2> QED
    BY <1>1, <2>1, PostTyped DEF MqttSet, EventTypeOK
<1>2. CASE WakePost
  <2>1. "wake" \in Events
    BY DEF Events
  <2> QED
    BY <1>2, <2>1, PostTyped DEF WakePost, EventTypeOK
<1>3. CASE ScreenEvent \/ GrocyEvent
  <2>1. /\ Head(evq) \in Queued /\ Tail(evq) \in Seq(Queued)
        /\ Len(Tail(evq)) = Len(evq) - 1 /\ Len(evq) \in Nat
    BY <1>3 DEF ScreenEvent, GrocyEvent, EventTypeOK
  <2> QED
    BY <1>3, <2>1, ScreenAssumption DEF ScreenEvent, GrocyEvent, EventTypeOK, Queued
<1>4. CASE StateEvent \/ MqttLink
  BY <1>4 DEF StateEvent, MqttLink, EventTypeOK
<1>5. ASSUME NEW add \in BOOLEAN, Toggle(add) PROVE EventTypeOK'
  BY <1>0, <1>5 DEF Toggle, Click
<1>6. ASSUME NEW p \in Shown, NEW queued \in BOOLEAN, TapCell(p, queued) PROVE EventTypeOK'
  BY <1>0, <1>6 DEF TapCell, Click
<1>7. ASSUME NEW st \in [Shown -> 0 .. MaxStock], NewList(st) PROVE EventTypeOK'
  BY <1>0, <1>7 DEF NewList
<1>8. CASE \/ Press \/ ReleaseElsewhere \/ Swallow \/ RefreshClick \/ InactivityTimer
           \/ UNCHANGED screenVars
  BY <1>0, <1>8 DEF Press, ReleaseElsewhere, Swallow, RefreshClick, Click, InactivityTimer,
                    screenVars
<1>9. CASE GrocyPost
  BY <1>9, AppendTyped DEF GrocyPost, EventTypeOK, Queued
<1> QED
  BY <1>1, <1>2, <1>3, <1>4, <1>5, <1>6, <1>7, <1>8, <1>9 DEF ScreenNext

\* Type correctness of the screen, for any products, stock and queue depth.  A
\* Consume tap needs some stock, not a whole unit of it (ui_main.c:156-184): half
\* a bottle becomes minus a half, but never minus one.  And the event queue never
\* holds more than it has room for.
THEOREM ScreenTypes == ScreenSpec => []ScreenTypeOK
<1>1. ScreenInit => TouchTypeOK /\ CellTypeOK /\ EventTypeOK
  <2> SUFFICES ASSUME ScreenInit PROVE TouchTypeOK /\ CellTypeOK /\ EventTypeOK
    OBVIOUS
  <2>1. TouchTypeOK
    BY DEF ScreenInit, TouchTypeOK
  <2>4. CellTypeOK
    <3>1. stock \in [Shown -> 0 .. MaxStock] /\ disabled = Greyed(FALSE, stock)
      BY DEF ScreenInit
    <3>2. disabled \subseteq Shown
      BY <3>1 DEF Greyed
    <3>3. 0 .. MaxStock \subseteq (1 - Unit) .. MaxStock
      BY ScreenAssumption
    <3> QED
      BY <3>1, <3>2, <3>3 DEF CellTypeOK, Stocks
  <2>2. evq = <<>> /\ <<>> \in Seq(Queued) /\ Len(<<>>) = 0
    BY DEF ScreenInit
  <2>3. evq \in Seq(Queued) /\ Len(evq) <= EventQueueDepth
    BY <2>2, ScreenAssumption
  <2> QED
    BY <2>1, <2>3, <2>4 DEF ScreenInit, EventTypeOK, Events
<1>2. TouchTypeOK /\ CellTypeOK /\ EventTypeOK => ScreenTypeOK
  BY DEF TouchTypeOK, CellTypeOK, EventTypeOK, ScreenTypeOK
<1> QED
  BY <1>1, <1>2, TouchTypeStep, CellTypeStep, EventTypeStep, PTL DEF ScreenSpec

\* What ListsTyped leaves out.
RestTyped ==
    /\ heap \subseteq Arrays /\ dropped \subseteq Arrays /\ array \in BOOLEAN
    /\ errOverlay \subseteq cells
    /\ errTimers \subseteq Cells /\ errHandle \in Cells \cup {NoCell}
    /\ flashTimers \subseteq Flashes
    /\ failedId \in Products \cup {NoProduct}
    /\ upc \in {"idle", "error", "panic"} /\ banner \in {"none", "on", "over"}
    /\ label \in Links \cup {"loading", "refreshing", "failed"} /\ link \in Links

LEMMA OwnedArrays == \A l \in Lists : Owned(l) \subseteq Arrays
  BY DEF Owned, Lists

LEMMA RestStep == RestTyped /\ GInv /\ [GridNext]_uigridVars => RestTyped'
<1> SUFFICES ASSUME RestTyped, ListsTyped, [GridNext]_uigridVars PROVE RestTyped'
  BY DEF GInv
<1> USE DEF RestTyped
<1>1. ASSUME NEW b \in Arrays, NEW rows \in Sorted, Fetch(b, rows) PROVE RestTyped'
  BY <1>1 DEF Fetch, cellVars, labelVars
<1>2. CASE Publish
  BY <1>2, OwnedArrays DEF Publish, cellVars, labelVars, ListsTyped
<1>3. ASSUME NEW alloc \in BOOLEAN, NEW made \in SUBSET DOMAIN queue.rows, PollList(alloc, made)
      PROVE  RestTyped'
  <2>1. CASE queue = None
    BY <1>3, <2>1 DEF PollList, cellVars, labelVars
  <2>2. CASE queue # None
    BY <1>3, <2>2 DEF PollList, Rebuild, TimersKept, FlashTimersKept, Relabel, labelVars, Freed
  <2> QED
    BY <2>1, <2>2
<1>4. CASE PollNoError
  BY <1>4 DEF PollNoError, Relabel, bufVars, cellVars, labelVars
<1>5. CASE PollError
  <2>1. CASE RowsOf(failedId) \subseteq cells /\ RowsOf(failedId) # {}
    <3>1. PICK i \in DOMAIN list.rows : RowsOf(failedId) = {i}
      BY <2>1, RowsOnce DEF RowsOf, ListsTyped
    <3>2. <<gen, i>> \in Cells
      BY RowsOnce DEF Cells, ListsTyped
    <3>3. /\ errTimers' = (errTimers \ {errHandle}) \cup {<<gen, i>>}
          /\ errHandle' = <<gen, i>> /\ errOverlay' = errOverlay \cup {i} /\ i \in cells
      BY <1>5, <2>1, <3>1 DEF PollError, RestartTimer
    <3> QED
      BY <1>5, <3>2, <3>3 DEF PollError, bufVars
  <2>2. CASE ~(RowsOf(failedId) \subseteq cells /\ RowsOf(failedId) # {})
    BY <1>5, <2>2 DEF PollError, bufVars
  <2> QED
    BY <2>1, <2>2
<1>6. CASE PanicRestart
  BY <1>6 DEF PanicRestart
<1>7. CASE BannerExpires \/ RefreshPress \/ UNCHANGED uigridVars
  BY <1>7 DEF BannerExpires, RefreshPress, uigridVars, bufVars, cellVars, labelVars
<1>8. CASE ErrorClear
  BY <1>8 DEF ErrorClear, bufVars, labelVars
<1>9. ASSUME NEW p \in Products, StockPostFailed(p) PROVE RestTyped'
  BY <1>9 DEF StockPostFailed, bufVars, cellVars, labelVars
<1>10. ASSUME NEW l \in Links, LinkChange(l) PROVE RestTyped'
  BY <1>10 DEF LinkChange, bufVars, cellVars, labelVars
<1>11. ASSUME NEW i \in DOMAIN list.rows, NEW k \in Flashes, Tap(i, k) \/ FlashFires(k)
       PROVE  RestTyped'
  BY <1>11 DEF Tap, FlashFires, bufVars, labelVars
<1>12. ASSUME NEW k \in Flashes, FlashFires(k) PROVE RestTyped'
  BY <1>12 DEF FlashFires, bufVars, labelVars
<1> QED
  BY <1>1, <1>2, <1>3, <1>4, <1>5, <1>6, <1>7, <1>8, <1>9, <1>10, <1>11, <1>12
     DEF GridNext, OtherTasks, Poll

\* Type correctness of the grid, for any products, buffers and overlays: cells
\* belong to rows of the list that is shown and overlays to cells that exist,
\* also where memory ran out (ui_main.c:409-482).
THEOREM GridTypes == GridSpec => []GridTypeOK
<1>1. GridInit => RestTyped
  BY DEF GridInit, RestTyped
<1>2. RestTyped /\ GInv => GridTypeOK
  BY DEF RestTyped, GInv, ListsTyped, GridTypeOK
<1> QED
  BY <1>1, <1>2, RestStep, GridInvariant, PTL DEF GridSpec
=============================================================================
