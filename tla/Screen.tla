------------------------------- MODULE Screen -------------------------------
(***************************************************************************)
(* The screen as a device: asleep or lit, Consume or Purchase, and what a  *)
(* touch does to it.  Three tasks take part:                               *)
(*   - the LVGL task (ui_main.c): a touch wakes the screen and, when it is *)
(*     released, clicks a widget; the inactivity timer reverts the mode;   *)
(*   - the MQTT task (grocy_mqtt.c): the broker's screen/set messages      *)
(*     become SCREEN_EVENTs;                                               *)
(*   - the event loop task: screen_ctrl.c turns the backlight on or off,   *)
(*     then grocy_mqtt.c publishes the retained screen topic.              *)
(* The Grocy task's GROCY_EVENTs take room in the same queue.              *)
(*                                                                         *)
(* The stock path behind a tap is StockSync's; here a tap only moves the   *)
(* number that decides whether a cell is disabled.  Amounts are floats: the *)
(* server may have half a bottle, while a tap is always a whole unit.      *)
(***************************************************************************)
EXTENDS Integers, Sequences

CONSTANTS
    Shown,          \* the products on the grid
    Unit,              \* the parts of one unit: an amount is a number of parts
    MaxStock,          \* bound on the stock of a product
    EventQueueDepth    \* 16 in event_bus_init

ASSUME ScreenAssumption ==
    MaxStock \in Nat /\ Unit \in Nat \ {0} /\ EventQueueDepth \in Nat \ {0}

VARIABLES
    sleeping,    \* s_screen_sleeping
    ignoring,    \* s_ignoring_next_tap
    finger,      \* "up", "wake" (touch_wake_cb is about to post), "down"
    addMode,     \* s_add_mode
    timer,       \* s_inactivity_timer still exists
    stock,       \* s_products[i].stock_amount
    disabled,    \* products whose cell has the disabled overlay
    evq,         \* the event loop's queue
    handling,    \* the event between its two handlers, or "none"
    connected,   \* s_connected (grocy_mqtt.c)
    retained,    \* the screen topic's retained value on the broker
    last,        \* history: the last SCREEN_EVENT that was queued
    woke,        \* history: the last touch woke the screen
    outcome,     \* history: what that touch did: "none", "acted", "swallowed"
    lost,        \* history: a touch's wake was dropped, and nothing queued since
    missed       \* history: the topic does not say the last event: the broker was
                 \* away, or there was none since boot

gridVars  == <<stock, disabled>>
eventVars == <<evq, handling, connected, retained>>
screenVars == <<sleeping, ignoring, finger, addMode, timer, gridVars, eventVars,
                last, lost, woke, outcome, missed>>

Events == {"wake", "sleep"}
Queued == Events \cup {"grocy"}    \* a GROCY_EVENT, of any kind
Stocks == [Shown -> (1 - Unit) .. MaxStock]

ScreenTypeOK ==
    /\ sleeping \in BOOLEAN /\ ignoring \in BOOLEAN
    /\ finger \in {"up", "wake", "down"}
    /\ addMode \in BOOLEAN /\ timer \in BOOLEAN
    /\ stock \in Stocks
    /\ disabled \subseteq Shown
    /\ evq \in Seq(Queued) /\ Len(evq) <= EventQueueDepth
    /\ handling \in Events \cup {"none"}
    /\ connected \in BOOLEAN
    /\ retained \in Events
    /\ last \in Events
    /\ lost \in BOOLEAN /\ woke \in BOOLEAN
    /\ outcome \in {"none", "acted", "swallowed"}
    /\ missed \in BOOLEAN

\* The cells update_toggle_ui disables: out of stock, in Consume mode.
Greyed(add, st) == IF add THEN {} ELSE {p \in Shown : st[p] <= 0}

\* screen_on at boot, without an event: the topic is as the last session left it.
\* Consume mode; a first list is shown.
ScreenInit ==
    /\ sleeping = FALSE /\ ignoring = FALSE /\ finger = "up"
    /\ addMode = FALSE /\ timer = TRUE
    /\ stock \in [Shown -> 0 .. MaxStock]
    /\ disabled = Greyed(FALSE, stock)
    /\ evq = <<>> /\ handling = "none" /\ connected = FALSE
    /\ retained \in Events /\ missed = TRUE
    /\ last = "wake" /\ lost = FALSE /\ woke = FALSE /\ outcome = "none"

-----------------------------------------------------------------------------
(* Events                                                                  *)

HasSlot == Len(evq) < EventQueueDepth

\* esp_event_post_to: dropped when the queue is full (at once, or after 10 ms).
Post(e, lostIfFull) ==
    IF HasSlot THEN evq' = Append(evq, e) /\ last' = e /\ lost' = FALSE
               ELSE lost' = lostIfFull /\ UNCHANGED <<evq, last>>

\* The Grocy task's events, which nothing waits for.
GrocyPost ==
    /\ HasSlot /\ evq' = Append(evq, "grocy")
    /\ UNCHANGED <<sleeping, ignoring, finger, addMode, timer, gridVars, handling,
                   connected, retained, last, lost, woke, outcome, missed>>

\* MQTT_EVENT_DATA on screen/set.
MqttSet(e) ==
    /\ connected
    /\ Post(e, lost)
    /\ UNCHANGED <<sleeping, ignoring, finger, addMode, timer, gridVars, handling,
                   connected, retained, woke, outcome, missed>>

\* MQTT_EVENT_CONNECTED and MQTT_EVENT_DISCONNECTED.
MqttLink ==
    /\ connected' = ~connected
    /\ UNCHANGED <<sleeping, ignoring, finger, addMode, timer, gridVars, evq,
                   handling, retained, last, lost, woke, outcome, missed>>

\* screen_event_handler, registered first ...
ScreenEvent ==
    /\ handling = "none" /\ evq # <<>> /\ Head(evq) # "grocy"
    /\ handling' = Head(evq)
    /\ evq' = Tail(evq)
    /\ sleeping' = (Head(evq) = "sleep")
    /\ UNCHANGED <<ignoring, finger, addMode, timer, gridVars, connected, retained,
                   last, lost, woke, outcome, missed>>

\* ... and screen_state_handler, which publishes nothing while disconnected.
StateEvent ==
    /\ handling # "none"
    /\ retained' = IF connected THEN handling ELSE retained
    /\ missed' = ~connected
    /\ handling' = "none"
    /\ UNCHANGED <<sleeping, ignoring, finger, addMode, timer, gridVars, evq,
                   connected, last, lost, woke, outcome>>

\* A GROCY_EVENT goes to other handlers, and does nothing to the screen.
GrocyEvent ==
    /\ handling = "none" /\ evq # <<>> /\ Head(evq) = "grocy"
    /\ evq' = Tail(evq)
    /\ UNCHANGED <<sleeping, ignoring, finger, addMode, timer, gridVars, handling,
                   connected, retained, last, lost, woke, outcome, missed>>

-----------------------------------------------------------------------------
(* Touches                                                                 *)

\* LV_EVENT_PRESSED.  On a sleeping screen touch_wake_cb lights it ...
Press ==
    /\ finger = "up"
    /\ woke' = sleeping
    /\ outcome' = "none"
    /\ IF sleeping
          THEN sleeping' = FALSE /\ ignoring' = TRUE /\ finger' = "wake"
          ELSE finger' = "down" /\ UNCHANGED <<sleeping, ignoring>>
    /\ UNCHANGED <<addMode, timer, gridVars, eventVars, last, lost, missed>>

\* Mutated WakePost: the event is not posted.
WakePostNothing ==
    /\ finger = "wake"
    /\ finger' = "down"
    /\ UNCHANGED <<sleeping, ignoring, addMode, timer, gridVars, eventVars, last, lost,
                   woke, outcome, missed>>

\* ... and posts SCREEN_EVENT_WAKE, without waiting and without looking at the
\* result.
WakePost ==
    /\ finger = "wake"
    /\ finger' = "down"
    /\ Post("wake", TRUE)
    /\ UNCHANGED <<sleeping, ignoring, addMode, timer, gridVars, handling, connected,
                   retained, woke, outcome, missed>>

\* The release is not a click on a widget that looks at s_ignoring_next_tap:
\* the background, or a scroll.
ReleaseElsewhere ==
    /\ finger = "down"
    /\ finger' = "up"
    /\ UNCHANGED <<sleeping, ignoring, addMode, timer, gridVars, eventVars, last, lost,
                   woke, outcome, missed>>

\* The first line of all three click handlers.
Swallow ==
    /\ finger = "down" /\ ignoring
    /\ finger' = "up"
    /\ ignoring' = FALSE
    /\ outcome' = "swallowed"
    /\ UNCHANGED <<sleeping, addMode, timer, gridVars, eventVars, last, lost, woke, missed>>

\* Mutated Click: s_ignoring_next_tap is not looked at.
ClickAlways == /\ finger = "down"
               /\ finger' = "up"
               /\ outcome' = "acted"
               /\ UNCHANGED <<sleeping, ignoring, eventVars, last, lost, woke, missed>>

Click == /\ finger = "down" /\ ~ignoring
         /\ finger' = "up"
         /\ outcome' = "acted"
         /\ UNCHANGED <<sleeping, ignoring, eventVars, last, lost, woke, missed>>

\* toggle_event_cb.  Resetting the inactivity timer does not bring it back.
Toggle(add) ==
    /\ Click
    /\ addMode' = add
    /\ disabled' = Greyed(add, stock)
    /\ UNCHANGED <<timer, stock>>

\* cell_tap_cb: ignored on a cell without stock in Consume mode, and when the
\* command queue is full; otherwise a whole unit is taken, also of half a one,
\* and this cell is repainted.
TapCell(p, queued) ==
    /\ Click
    /\ IF queued /\ (addMode \/ stock[p] > 0)
          THEN /\ addMode => stock[p] + Unit <= MaxStock
               /\ stock' = [stock EXCEPT ![p] = IF addMode THEN @ + Unit ELSE @ - Unit]
               /\ disabled' = IF ~addMode /\ stock'[p] <= 0 THEN disabled \cup {p}
                                                            ELSE disabled \ {p}
          ELSE UNCHANGED gridVars
    /\ UNCHANGED <<addMode, timer>>

\* refresh_btn_cb
RefreshClick == Click /\ UNCHANGED <<addMode, timer, gridVars>>

-----------------------------------------------------------------------------
(* Timers of the LVGL task; a touch_wake_cb runs to its end first          *)

\* Mutated InactivityTimer: the cells are not updated.
InactivityNoUpdate ==
    /\ timer /\ finger # "wake"
    /\ timer' = FALSE
    /\ addMode' = FALSE
    /\ UNCHANGED <<sleeping, ignoring, finger, gridVars, eventVars, last, lost, woke,
                   outcome, missed>>

\* inactivity_timer_cb, ten minutes after the last reset.  The timer repeats
\* once: LVGL deletes it after this call.
InactivityTimer ==
    /\ timer /\ finger # "wake"
    /\ timer' = FALSE
    /\ addMode' = FALSE
    /\ disabled' = IF addMode THEN Greyed(FALSE, stock) ELSE disabled
    /\ UNCHANGED <<sleeping, ignoring, finger, stock, eventVars, last, lost, woke, outcome,
                   missed>>

\* ui_main_update_products: new cells, themed for the current mode.
NewList(st) ==
    /\ finger # "wake"
    /\ stock' = st
    /\ disabled' = Greyed(addMode, st)
    /\ UNCHANGED <<sleeping, ignoring, finger, addMode, timer, eventVars, last, lost, woke,
                   outcome, missed>>

-----------------------------------------------------------------------------
ScreenNext == \/ \E e \in Events : MqttSet(e)
              \/ MqttLink \/ GrocyPost \/ ScreenEvent \/ GrocyEvent \/ StateEvent
              \/ Press \/ WakePost \/ ReleaseElsewhere \/ Swallow
              \/ \E add \in BOOLEAN : Toggle(add)
              \/ \E p \in Shown, queued \in BOOLEAN : TapCell(p, queued)
              \/ RefreshClick \/ InactivityTimer
              \/ \E st \in [Shown -> 0 .. MaxStock] : NewList(st)

ScreenSpec == ScreenInit /\ [][ScreenNext]_screenVars

\* The event loop and the LVGL task run, and a finger is lifted again.
ScreenFairSpec == /\ ScreenSpec
                  /\ WF_screenVars(ScreenEvent) /\ WF_screenVars(GrocyEvent)
                  /\ WF_screenVars(StateEvent) /\ WF_screenVars(WakePost)
                  /\ WF_screenVars(InactivityTimer) /\ WF_screenVars(ReleaseElsewhere \/ Swallow)

-----------------------------------------------------------------------------
\* A cell is greyed out exactly when a tap on it would be ignored for lack of
\* stock, whatever sequence of taps, mode switches, inactivity reverts and new
\* lists led there (ui_main.c:106-112, 183-184, 482).
DisabledMatches == disabled = Greyed(addMode, stock)

\* A touch that finds the screen asleep only wakes it (ui_main.c:59-76): it
\* never toggles, posts or refreshes, however late the release and whatever
\* events arrive in between.
WakeTouchHarmless == woke => outcome # "acted"

\* "Inactivity revert - automatically returns to Consume mode" (README.md:28):
\* once nobody touches the screen any more, it does.
RevertsWhenIdle == <>[](finger = "up") => <>[]~addMode

\* With no event under way the screen and its retained topic are as the last
\* queued event left them, whoever posted it (ui_main.c:74-80,
\* screen_ctrl.c:11-27, grocy_mqtt.c:40), although a touch lights the screen
\* before its event is queued, and GROCY_EVENTs take the room.  Two things are
\* never made up for: an event that found the broker away is not in the topic
\* ("Current screen state after wake/sleep event", README.md:184), and a touch
\* whose wake found the queue full leaves a lit screen that the topic may still
\* call asleep.  Not the other way round: no screen is dark without a "sleep".
ScreenFollowsEvents ==
    evq = <<>> /\ handling = "none" /\ finger # "wake" =>
        /\ ~missed => retained = last
        /\ sleeping => last = "sleep"
        /\ ~lost /\ last = "sleep" => sleeping
=============================================================================
