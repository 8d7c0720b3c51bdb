------------------------------- MODULE UiGrid -------------------------------
(***************************************************************************)
(* Who owns what on the main screen: the list buffers handed from the      *)
(* Grocy task to the LVGL task (grocy_task.c, ui_main.c), the cells built  *)
(* from them, the error and flash overlays with their timers               *)
(* (ui_product_cell.c), and the status label.                              *)
(*                                                                         *)
(* The LVGL task runs one callback at a time; poll_timer_cb is split where *)
(* the other tasks can see a difference.  Memory may run out while a grid  *)
(* is built.  A cell is <<gen, row>>: rebuilding the grid changes gen, so  *)
(* a pointer kept to a deleted cell is not the cell that took its place.   *)
(***************************************************************************)
EXTENDS Integers, Sequences, FiniteSets

CONSTANTS
    Products,    \* ids of the location's products; 0 is no product
    Links,       \* what WiFi and MQTT can report
    Arrays,     \* the product arrays the heap has room for
    Flashes      \* flash overlays that can be on the screen at once

ASSUME ProductsAssumption == IsFiniteSet(Products) /\ Products \subseteq Nat \ {0}
ASSUME ArraysAssumption  == 0 \notin Arrays

VARIABLES
    heap,         \* product arrays that are allocated
    msg,          \* the list the Grocy task has fetched
    queue,        \* g_product_list_queue, one slot
    list,         \* s_products, s_product_count
    dropped,      \* history: arrays of unread lists that were overwritten
    gen,          \* changes with every rebuild of the grid
    array,        \* s_cells # NULL
    cells,        \* the rows whose cell was created
    errOverlay,   \* the rows whose cell carries an error overlay
    errTimers,    \* the cells that running error timers will clear
    errHandle,    \* the cell of the timer s_error_clear_timer names
    flash,        \* the cell each flash overlay is a child of
    flashTimers,  \* the flash overlays whose timer runs
    failedId,     \* s_failed_product_id
    upc,          \* the LVGL task: "idle", in the poll's second half, or dead
    banner,       \* s_error_show_until_us: 0, in the future, in the past
    label,        \* s_lbl_status
    link          \* what WiFi and MQTT report

bufVars   == <<heap, msg, queue, list, dropped>>
cellVars  == <<gen, array, cells, errOverlay, errTimers, errHandle, flash, flashTimers>>
labelVars == <<banner, label>>
uigridVars == <<bufVars, cellVars, failedId, upc, labelVars, link>>

None   == [buf |-> 0, rows |-> <<>>]
\* Lists come sorted, so two products always stand in the same order.
Sorted   == {r \in UNION {[1 .. n -> Products] : n \in 1 .. Cardinality(Products)} :
               \A i, j \in DOMAIN r : i < j => r[i] < r[j]}
Lists  == [buf : Arrays, rows : Sorted] \cup {None}
NoCell == <<0, 0>>
NoProduct == 0
Cells  == {0, 1} \X (1 .. Cardinality(Products))

Owned(l) == IF l = None THEN {} ELSE {l.buf}
Live     == {<<gen, i>> : i \in cells}

GridTypeOK ==
    /\ heap \subseteq Arrays /\ dropped \subseteq Arrays
    /\ msg \in Lists /\ queue \in Lists /\ list \in Lists
    /\ gen \in {0, 1} /\ array \in BOOLEAN
    /\ cells \subseteq DOMAIN list.rows
    /\ errOverlay \subseteq cells
    /\ errTimers \subseteq Cells /\ errHandle \in Cells \cup {NoCell}
    /\ flash \in [Flashes -> Cells \cup {NoCell}] /\ flashTimers \subseteq Flashes
    /\ failedId \in Products \cup {NoProduct}
    /\ upc \in {"idle", "error", "panic"}
    /\ banner \in {"none", "on", "over"}
    /\ label \in Links \cup {"loading", "refreshing", "failed"}
    /\ link \in Links

GridInit ==
    /\ heap = {} /\ msg = None /\ queue = None /\ list = None /\ dropped = {}
    /\ gen = 0 /\ array = FALSE /\ cells = {}
    /\ errOverlay = {} /\ errTimers = {} /\ errHandle = NoCell
    /\ flash = [k \in Flashes |-> NoCell] /\ flashTimers = {}
    /\ failedId = NoProduct /\ upc = "idle"
    /\ banner = "none" /\ label = "loading" /\ link \in Links

-----------------------------------------------------------------------------
(* The other tasks                                                         *)

\* grocy_fetch_location_products returns a list in a new array.
Fetch(b, rows) ==
    /\ msg = None /\ b \notin heap
    /\ heap' = heap \cup {b}
    /\ msg' = [buf |-> b, rows |-> rows]
    /\ UNCHANGED <<queue, list, dropped, cellVars, failedId, upc, labelVars, link>>

\* xQueueOverwrite copies the message over the one in the slot.
Publish ==
    /\ msg # None
    /\ dropped' = dropped \cup Owned(queue)
    /\ queue' = msg
    /\ msg' = None
    /\ UNCHANGED <<heap, list, cellVars, failedId, upc, labelVars, link>>

\* on_stock_post_failed, in the event loop task
StockPostFailed(p) ==
    /\ failedId' = p
    /\ UNCHANGED <<bufVars, cellVars, upc, labelVars, link>>

\* WiFi or the broker come or go.
LinkChange(l) ==
    /\ link' = l
    /\ UNCHANGED <<bufVars, cellVars, failedId, upc, labelVars>>

-----------------------------------------------------------------------------
(* poll_timer_cb, first half: ui_main_update_products                      *)

\* Mutated Freed: the old array is taken to be the new one's business.
FreedNone(old) == {}

\* free(s_products)
Freed(old) == Owned(old)

\* Mutated FlashTimersKept: flash overlays have no delete guard.
FlashTimersKeptAll == flashTimers

\* The rebuild deletes the error timer its handle names, and lv_obj_clean
\* deletes every overlay, whose delete guard deletes its timer.
TimersKept      == errTimers \ {errHandle}
FlashTimersKept == flashTimers \ {k \in Flashes : flash[k] # NoCell}

\* Mutated Relabel: the label is only written while no error was shown.
RelabelOnce == /\ banner' = banner
               /\ label' = IF banner = "none" THEN link ELSE label

\* update_normal_status, unless an error banner is still due: then nothing.
Relabel == IF banner = "on" THEN UNCHANGED labelVars
                            ELSE banner' = "none" /\ label' = link

\* The new grid.  calloc of s_cells may fail (alloc), which ends the function
\* early, and so may the creation of any cell (made are those that exist).
Rebuild(alloc, made) ==
    /\ heap' = heap \ Freed(list)
    /\ list' = queue
    /\ gen' = 1 - gen
    /\ array' = alloc
    /\ cells' = IF alloc THEN made ELSE {}
    /\ errOverlay' = {} /\ errTimers' = TimersKept /\ errHandle' = NoCell
    /\ flash' = [k \in Flashes |-> NoCell] /\ flashTimers' = FlashTimersKept
    /\ IF alloc THEN Relabel ELSE UNCHANGED labelVars

PollList(alloc, made) ==
    /\ upc = "idle" /\ upc' = "error"
    /\ queue' = None
    /\ IF queue = None THEN UNCHANGED <<heap, list, cellVars, labelVars>>
                       ELSE Rebuild(alloc, made)
    /\ UNCHANGED <<msg, dropped, failedId, link>>

-----------------------------------------------------------------------------
(* poll_timer_cb, second half: the failed product                          *)

\* lv_timer_delete of the timer the handle names, then a new one for c.
RestartTimer(c) == /\ errTimers' = (errTimers \ {errHandle}) \cup {c}
                   /\ errHandle' = c

RowsOf(p) == {i \in DOMAIN list.rows : list.rows[i] = p}

PollNoError ==
    /\ upc = "error" /\ failedId = NoProduct
    /\ upc' = "idle"
    /\ Relabel
    /\ UNCHANGED <<bufVars, cellVars, failedId, link>>

\* ui_product_cell_set_error reads its user data: the LVGL task dies of a NULL
\* s_cells or a NULL s_cells[i].
PollError ==
    /\ upc = "error" /\ failedId # NoProduct
    /\ failedId' = NoProduct
    /\ upc' = IF RowsOf(failedId) \subseteq cells THEN "idle" ELSE "panic"
    /\ IF RowsOf(failedId) \subseteq cells /\ RowsOf(failedId) # {}
          THEN /\ errOverlay' = errOverlay \cup RowsOf(failedId)
               /\ \A i \in RowsOf(failedId) : RestartTimer(<<gen, i>>)
          ELSE UNCHANGED <<errOverlay, errTimers, errHandle>>
    /\ banner' = "on" /\ label' = "failed"
    /\ UNCHANGED <<bufVars, gen, array, cells, flash, flashTimers, link>>

\* The panic handler restarts the terminal.
PanicRestart ==
    /\ upc = "panic" /\ upc' = "idle"
    /\ heap' = {} /\ msg' = None /\ queue' = None /\ list' = None /\ dropped' = {}
    /\ gen' = 0 /\ array' = FALSE /\ cells' = {}
    /\ errOverlay' = {} /\ errTimers' = {} /\ errHandle' = NoCell
    /\ flash' = [k \in Flashes |-> NoCell] /\ flashTimers' = {}
    /\ failedId' = NoProduct /\ banner' = "none" /\ label' = "loading"
    /\ UNCHANGED link

-----------------------------------------------------------------------------
(* Timers and touches                                                      *)

\* Four seconds have passed since the failure.
BannerExpires ==
    /\ banner = "on" /\ banner' = "over"
    /\ UNCHANGED <<bufVars, cellVars, failedId, upc, label, link>>

\* error_clear_timer_cb; LVGL deletes the timer after its one call.
ErrorClear ==
    /\ upc = "idle"
    /\ \E c \in errTimers :
          /\ errTimers' = errTimers \ {c}
          /\ errOverlay' = IF c[1] = gen THEN errOverlay \ {c[2]} ELSE errOverlay
    /\ errHandle' = NoCell
    /\ UNCHANGED <<bufVars, gen, array, cells, flash, flashTimers, failedId, upc,
                   labelVars, link>>

\* cell_tap_cb with room in the command queue: ui_product_cell_flash.
Tap(i, k) ==
    /\ upc = "idle" /\ i \in cells \ errOverlay
    /\ flash[k] = NoCell
    /\ flash' = [flash EXCEPT ![k] = <<gen, i>>]
    /\ flashTimers' = flashTimers \cup {k}
    /\ UNCHANGED <<bufVars, gen, array, cells, errOverlay, errTimers, errHandle,
                   failedId, upc, labelVars, link>>

\* The overlay is deleted; its guard was removed first.
FlashOver(k) == [flash EXCEPT ![k] = NoCell]

\* flash_timer_cb
FlashFires(k) ==
    /\ upc = "idle" /\ k \in flashTimers
    /\ flashTimers' = flashTimers \ {k}
    /\ flash' = FlashOver(k)
    /\ UNCHANGED <<bufVars, gen, array, cells, errOverlay, errTimers, errHandle,
                   failedId, upc, labelVars, link>>

\* refresh_btn_cb, as far as the screen goes
RefreshPress ==
    /\ upc = "idle" /\ label' = "refreshing"
    /\ UNCHANGED <<bufVars, cellVars, failedId, upc, banner, link>>

-----------------------------------------------------------------------------
Poll == PollNoError \/ PollError
        \/ \E alloc \in BOOLEAN : \E made \in SUBSET DOMAIN queue.rows :
               PollList(alloc, made)

\* A panic stops both cores.
OtherTasks == /\ upc # "panic"
              /\ \/ \E b \in Arrays, rows \in Sorted : Fetch(b, rows)
                 \/ Publish
                 \/ \E p \in Products : StockPostFailed(p)
                 \/ \E l \in Links : LinkChange(l)
                 \/ BannerExpires

GridNext == \/ OtherTasks
            \/ Poll \/ PanicRestart \/ ErrorClear \/ RefreshPress
            \/ \E i \in DOMAIN list.rows, k \in Flashes : Tap(i, k)
            \/ \E k \in Flashes : FlashFires(k)

GridSpec == GridInit /\ [][GridNext]_uigridVars

\* The LVGL task runs every timer that is due, in each of its rounds.
GridFairness ==
    /\ WF_uigridVars(Poll)
    /\ WF_uigridVars(BannerExpires)
    /\ WF_uigridVars(PanicRestart)
    /\ SF_uigridVars(ErrorClear)
    /\ \A k \in Flashes : SF_uigridVars(FlashFires(k))

GridFairSpec == GridSpec /\ GridFairness

-----------------------------------------------------------------------------
\* Every product array has exactly one owner (the Grocy task, the queue, the
\* screen), is freed once and by the last of them, and none is lost but by
\* the overwriting of an unread list (grocy_task.c:62-69, ui_main.c:429-434).
OneOwner ==
    /\ heap = Owned(msg) \cup Owned(queue) \cup Owned(list) \cup dropped
    /\ Owned(msg) \cap Owned(queue) = {} /\ Owned(queue) \cap Owned(list) = {}
    /\ Owned(msg) \cap Owned(list) = {}
    /\ dropped \cap (Owned(msg) \cup Owned(queue) \cup Owned(list)) = {}

\* No timer outlives what it points to (ui_main.c:415-419,
\* ui_product_cell.c:136-153): an error timer's cell and a flash timer's
\* overlay exist, whatever rebuilds, failures and taps came in between, and
\* the one error timer that runs is the one its handle names.
TimersLive ==
    /\ errTimers \subseteq Live
    /\ errTimers = {errHandle} \ {NoCell}
    /\ flashTimers = {k \in Flashes : flash[k] # NoCell}
    /\ \A k \in flashTimers : flash[k] \in Live

\* "Status label: empty unless WiFi/MQTT is down" (ui_main.c:205): once the
\* link is stable and no POST fails any more the label says so again and
\* again, whatever banner or "Refreshing..." was there before.
LabelReturns ==
    \A l \in Links : <>[](link = l /\ failedId = NoProduct /\ upc # "panic")
                         => []<>(label = l)
=============================================================================
