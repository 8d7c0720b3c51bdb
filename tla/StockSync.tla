----------------------------- MODULE StockSync -----------------------------
(***************************************************************************)
(* The stock path of the terminal: what happens between a tap on a product *)
(* and the number the server and the screen end up with.                   *)
(*                                                                         *)
(* Four threads of control, each with one action per step that another     *)
(* thread can see:                                                         *)
(*   - the Grocy task on core 0 (grocy_task.c): fetch the list, download   *)
(*     images, publish, drain the stock queue, wait;                       *)
(*   - the LVGL task on core 1 (ui_main.c): taps, the refresh button, the  *)
(*     200 ms poll timer, the 4 s error timer;                             *)
(*   - the event loop task (event_bus.c), which runs on_stock_post_failed; *)
(*   - the Grocy server and its other clients, seen only through HTTP.     *)
(* They share the stock command queue, the one-slot product list queue,    *)
(* the event group s_flags, the event loop's queue and s_failed_product_id.*)
(*                                                                         *)
(* Time is abstracted: a wait may time out whenever no bit is set, and a   *)
(* timer may fire whenever it exists.  Amounts are whole units.            *)
(***************************************************************************)
EXTENDS Integers, Sequences, FiniteSets

CONSTANTS
    Products,          \* the leaf products of the configured location
    NoProduct,         \* 0, "no product failed"
    InitialStock,      \* the server's stock when the terminal boots
    StockQueueDepth,   \* 8 in grocy_task_start
    EventQueueDepth    \* 16 in event_bus_init

ASSUME NoProductAssumption == NoProduct \notin Products
ASSUME StockAssumption     == InitialStock \in [Products -> Nat]
ASSUME DepthAssumption     == /\ StockQueueDepth \in Nat \ {0}
                              /\ EventQueueDepth \in Nat \ {0}

VARIABLES
    \* the server
    server,      \* stock of every product
    \* the Grocy task
    gpc,         \* where grocy_task_fn is
    hand,        \* the command being POSTed
    postFailed,  \* stock_post_failed
    msg,         \* the list fetched and not yet published
    \* shared between tasks
    stockq,      \* g_stock_cmd_queue
    listq,       \* g_product_list_queue, one slot
    bits,        \* s_flags
    evq,         \* the event loop's queue
    failedId,    \* s_failed_product_id
    \* the LVGL task
    upc,         \* which callback runs, and where it is
    tap,         \* the command of the tap in progress
    grid,        \* TRUE once a list has been shown: there are cells to tap
    shown,       \* s_products[i].stock_amount, as the cells show it
    overlay,     \* products whose cell carries the error overlay
    clearTimer,  \* the cell s_error_clear_timer will clear, or NoProduct
    \* history, read by the properties only
    owed,        \* why a fetch is due: {"refresh", "resync"}
    mixed        \* products whose shown stock is known to be unreliable

taskVars == <<gpc, hand, postFailed, msg>>
uiVars   == <<upc, tap, grid, shown, overlay, clearTimer>>
vars     == <<server, taskVars, stockq, listq, bits, evq, failedId, uiVars,
              owed, mixed>>

Ops       == {"add", "consume"}
Command   == [prod : Products, op : Ops]
NoCommand == [prod |-> NoProduct, op |-> "none"]

\* A product list message.  "miss" is history: the products for which a
\* command was accepted but not yet applied when the stock was read, or was
\* accepted after it.
List   == [stock : [Products -> Int], miss : SUBSET Products]
NoList == [stock |-> <<>>, miss |-> {}]

Event == [kind : {"ready", "change"}] \cup [kind : {"failed"}, prod : Products]

TypeOK ==
    /\ server \in [Products -> Nat]
    /\ gpc \in {"fetch", "images", "drain", "post", "wait"}
    /\ hand \in IF gpc = "post" THEN Command ELSE {NoCommand}
    /\ postFailed \in BOOLEAN
    /\ msg \in List \cup {NoList}
    /\ stockq \in Seq(Command) /\ Len(stockq) <= StockQueueDepth
    /\ listq \in List \cup {NoList}
    /\ bits \subseteq {"REFRESH", "STOCK_CMD"}
    /\ evq \in Seq(Event) /\ Len(evq) <= EventQueueDepth
    /\ failedId \in Products \cup {NoProduct}
    /\ upc \in {"idle", "notify", "paint", "error"}
    /\ tap \in IF upc \in {"notify", "paint"} THEN Command ELSE {NoCommand}
    /\ grid \in BOOLEAN
    /\ shown \in [Products -> Int]
    /\ overlay \subseteq Products
    /\ clearTimer \in Products \cup {NoProduct}
    /\ owed \subseteq {"refresh", "resync"}
    /\ mixed \subseteq Products

Init ==
    /\ server = InitialStock
    /\ gpc = "fetch"                  \* bool do_fetch = true
    /\ hand = NoCommand
    /\ postFailed = FALSE
    /\ msg = NoList
    /\ stockq = <<>>
    /\ listq = NoList
    /\ bits = {}
    /\ evq = <<>>
    /\ failedId = NoProduct
    /\ upc = "idle"
    /\ tap = NoCommand
    /\ grid = FALSE
    /\ shown = [p \in Products |-> 0]
    /\ overlay = {}
    /\ clearTimer = NoProduct
    /\ owed = {}
    /\ mixed = {}

-----------------------------------------------------------------------------
(* Helpers                                                                 *)

Delta(c) == IF c.op = "add" THEN 1 ELSE -1

\* esp_event_post_to with a timeout of 0: dropped when the queue is full.
PostEvent(e) == evq' = IF Len(evq) < EventQueueDepth THEN Append(evq, e) ELSE evq

\* Products with a command accepted and not yet taken by the task.
Queued == {stockq[i].prod : i \in 1 .. Len(stockq)}

\* History: p's stock changed in a way the lists now in flight do not show.
Miss(l, ps) == IF l = NoList THEN NoList ELSE [l EXCEPT !.miss = @ \cup ps]

\* The server: a consume of more than is in stock is answered with 400.
Accepts(n, c) == c.op = "add" \/ n > 0
Applied(n, c) == IF Accepts(n, c) THEN n + Delta(c) ELSE n

-----------------------------------------------------------------------------
(* The Grocy task                                                          *)

\* What the fetch can read: the server's stock, or, when the entries GET
\* failed, no entry at all, so that every amount stays 0.
Snapshots == { [stock |-> server, miss |-> Queued],
               [stock |-> [p \in Products |-> 0], miss |-> Products] }

\* grocy_fetch_location_products returns ESP_OK with at least one product.
FetchOk(list) ==
    /\ gpc = "fetch"
    /\ msg' = list
    /\ gpc' = "images"
    /\ owed' = {}
    /\ UNCHANGED <<server, hand, postFailed, stockq, listq, bits, evq, failedId,
                   uiVars, mixed>>

\* It returns an error, or an empty list: nothing is published, nothing is
\* retried, and the stock queue is drained.
FetchNothing ==
    /\ gpc = "fetch"
    /\ gpc' = "drain"
    /\ postFailed' = FALSE
    /\ owed' = {}
    /\ UNCHANGED <<server, hand, msg, stockq, listq, bits, evq, failedId, uiVars,
                   mixed>>

\* The images are in the cache: xQueueOverwrite, then PRODUCTS_READY.
Publish ==
    /\ gpc = "images"
    /\ listq' = msg
    /\ msg' = NoList
    /\ PostEvent([kind |-> "ready"])
    /\ gpc' = "drain"
    /\ postFailed' = FALSE
    /\ UNCHANGED <<server, hand, stockq, bits, failedId, uiVars, owed, mixed>>

\* Mutated Receive: xQueuePeek instead of xQueueReceive.
ReceivePeek ==
    /\ gpc = "drain" /\ stockq # <<>>
    /\ hand' = Head(stockq)
    /\ gpc' = "post"
    /\ UNCHANGED <<server, postFailed, msg, stockq, listq, bits, evq, failedId,
                   uiVars, owed, mixed>>

\* xQueueReceive succeeds: a command to POST.
Receive ==
    /\ gpc = "drain"
    /\ stockq # <<>>
    /\ hand' = Head(stockq)
    /\ stockq' = Tail(stockq)
    /\ gpc' = "post"
    /\ UNCHANGED <<server, postFailed, msg, listq, bits, evq, failedId, uiVars,
                   owed, mixed>>

\* http_post_json makes one attempt, and a second after a transport error.
\* An attempt is answered, or lost after the server applied it, or never
\* reaches the server.
Attempt == {"answered", "lost", "unreached"}
Reach(n, c, a) == IF a = "unreached" THEN n ELSE Applied(n, c)

PostCommand(a1, a2) ==
    LET p  == hand.prod
        n1 == Reach(server[p], hand, a1)
        n2 == IF a1 = "answered" THEN n1 ELSE Reach(n1, hand, a2)
        ok == \/ a1 = "answered" /\ Accepts(server[p], hand)
              \/ a1 # "answered" /\ a2 = "answered" /\ Accepts(n1, hand)
        exact == n2 = server[p] + Delta(hand)
    IN  /\ gpc = "post"
        /\ server' = [server EXCEPT ![p] = n2]
        /\ postFailed' = (postFailed \/ ~ok)
        /\ IF ok THEN PostEvent([kind |-> "change"])
                 ELSE PostEvent([kind |-> "failed", prod |-> p])
        /\ hand' = NoCommand
        /\ gpc' = "drain"
        /\ owed' = IF ok THEN owed ELSE owed \cup {"resync"}
        /\ mixed' = IF exact THEN mixed ELSE mixed \cup {p}
        /\ UNCHANGED <<msg, stockq, listq, bits, failedId, uiVars>>

\* Mutated Drained: one command per wakeup (if instead of while) ...
DrainedOnce ==
    /\ gpc = "drain"
    /\ gpc' = IF postFailed THEN "fetch" ELSE "wait"
    /\ UNCHANGED <<server, hand, postFailed, msg, stockq, listq, bits, evq,
                   failedId, uiVars, owed, mixed>>

\* ... or no refetch after a failed POST (the continue is missing).
DrainedNoResync ==
    /\ gpc = "drain"
    /\ stockq = <<>>
    /\ gpc' = "wait"
    /\ UNCHANGED <<server, hand, postFailed, msg, stockq, listq, bits, evq,
                   failedId, uiVars, owed, mixed>>

\* The queue is empty: after a failed POST the loop goes straight back to the
\* fetch (continue), leaving the event bits as they are; otherwise it waits.
Drained ==
    /\ gpc = "drain"
    /\ stockq = <<>>
    /\ gpc' = IF postFailed THEN "fetch" ELSE "wait"
    /\ UNCHANGED <<server, hand, postFailed, msg, stockq, listq, bits, evq,
                   failedId, uiVars, owed, mixed>>

\* Mutated DoFetch: the timeout is forgotten.
DoFetchOnRequest(b) == "REFRESH" \in b

\* do_fetch after xEventGroupWaitBits returned b (empty on a timeout).
DoFetch(b) == "STOCK_CMD" \notin b \/ "REFRESH" \in b

LeaveWait ==
    /\ gpc = "wait"
    /\ bits' = {}
    /\ gpc' = IF DoFetch(bits) THEN "fetch" ELSE "drain"
    /\ postFailed' = FALSE
    /\ UNCHANGED <<server, hand, msg, stockq, listq, evq, failedId, uiVars, owed,
                   mixed>>

Wake    == bits # {} /\ LeaveWait
Timeout == bits = {} /\ LeaveWait

-----------------------------------------------------------------------------
(* The event loop task                                                     *)

\* One event is handed to its handlers.  Only on_stock_post_failed changes
\* state: one cell, whatever is still in it is overwritten.
Dispatch ==
    /\ evq # <<>>
    /\ evq' = Tail(evq)
    /\ failedId' = IF Head(evq).kind = "failed" THEN Head(evq).prod ELSE failedId
    /\ UNCHANGED <<server, taskVars, stockq, listq, bits, uiVars, owed, mixed>>

-----------------------------------------------------------------------------
(* The LVGL task                                                           *)

\* Mutated TapSend: the queue is taken to have room.
TapSendUnchecked(p, op) ==
    /\ upc = "idle" /\ grid /\ p \notin overlay
    /\ op = "consume" => shown[p] > 0
    /\ tap' = [prod |-> p, op |-> op]
    /\ stockq' = Append(stockq, tap')
    /\ upc' = "notify"
    /\ msg' = Miss(msg, {p})
    /\ listq' = Miss(listq, {p})
    /\ UNCHANGED <<server, gpc, hand, postFailed, bits, evq, failedId, grid,
                   shown, overlay, clearTimer, owed, mixed>>

\* cell_tap_cb up to and including a successful xQueueSend.  The cell must be
\* visible, must not be covered by the (clickable) error overlay, and in
\* Consume mode its stock must not be zero.  The mode is the user's choice.
TapSend(p, op) ==
    /\ upc = "idle"
    /\ grid
    /\ p \notin overlay
    /\ op = "consume" => shown[p] > 0
    /\ Len(stockq) < StockQueueDepth
    /\ tap' = [prod |-> p, op |-> op]
    /\ stockq' = Append(stockq, tap')
    /\ upc' = "notify"
    /\ msg' = Miss(msg, {p})
    /\ listq' = Miss(listq, {p})
    /\ UNCHANGED <<server, gpc, hand, postFailed, bits, evq, failedId, grid,
                   shown, overlay, clearTimer, owed, mixed>>

\* grocy_task_notify_stock_cmd
TapNotify ==
    /\ upc = "notify"
    /\ bits' = bits \cup {"STOCK_CMD"}
    /\ upc' = "paint"
    /\ UNCHANGED <<server, taskVars, stockq, listq, evq, failedId, tap, grid,
                   shown, overlay, clearTimer, owed, mixed>>

\* Mutated TapPaint: the update is made for Purchase only.
TapPaintAdd ==
    /\ upc = "paint"
    /\ shown' = IF tap.op = "add" THEN [shown EXCEPT ![tap.prod] = @ + 1] ELSE shown
    /\ tap' = NoCommand
    /\ upc' = "idle"
    /\ UNCHANGED <<server, taskVars, stockq, listq, bits, evq, failedId, grid,
                   overlay, clearTimer, owed, mixed>>

\* The optimistic update of the tapped cell.
TapPaint ==
    /\ upc = "paint"
    /\ shown' = [shown EXCEPT ![tap.prod] = @ + Delta(tap)]
    /\ tap' = NoCommand
    /\ upc' = "idle"
    /\ UNCHANGED <<server, taskVars, stockq, listq, bits, evq, failedId, grid,
                   overlay, clearTimer, owed, mixed>>

\* refresh_btn_cb
RefreshPress ==
    /\ upc = "idle"
    /\ bits' = bits \cup {"REFRESH"}
    /\ owed' = owed \cup {"refresh"}
    /\ UNCHANGED <<server, taskVars, stockq, listq, evq, failedId, uiVars, mixed>>

\* Mutated PollList: the error timer is cancelled but the cells stay.
PollListKeepsCells ==
    /\ upc = "idle"
    /\ upc' = "error"
    /\ listq' = NoList
    /\ IF listq = NoList
          THEN UNCHANGED <<grid, shown, overlay, clearTimer, mixed>>
          ELSE /\ grid' = TRUE
               /\ shown' = listq.stock
               /\ clearTimer' = NoProduct
               /\ mixed' = listq.miss
               /\ UNCHANGED overlay
    /\ UNCHANGED <<server, taskVars, stockq, bits, evq, failedId, tap, owed>>

\* poll_timer_cb, first half: a list in the queue replaces the grid
\* (ui_main_update_products): every cell, overlay and the error timer go.
PollList ==
    /\ upc = "idle"
    /\ upc' = "error"
    /\ listq' = NoList
    /\ IF listq = NoList
          THEN UNCHANGED <<grid, shown, overlay, clearTimer, mixed>>
          ELSE /\ grid' = TRUE
               /\ shown' = listq.stock
               /\ overlay' = {}
               /\ clearTimer' = NoProduct
               /\ mixed' = listq.miss
    /\ UNCHANGED <<server, taskVars, stockq, bits, evq, failedId, tap, owed>>

\* poll_timer_cb, second half: atomic_exchange, then the overlay on the failed
\* cell.  A timer still running for another cell is deleted, not fired.
PollError ==
    /\ upc = "error"
    /\ upc' = "idle"
    /\ failedId' = NoProduct
    /\ IF failedId # NoProduct /\ grid
          THEN /\ overlay' = overlay \cup {failedId}
               /\ clearTimer' = failedId
          ELSE UNCHANGED <<overlay, clearTimer>>
    /\ UNCHANGED <<server, taskVars, stockq, listq, bits, evq, tap, grid, shown,
                   owed, mixed>>

\* error_clear_timer_cb, 4 s after the overlay
ErrorClear ==
    /\ upc = "idle"
    /\ clearTimer # NoProduct
    /\ overlay' = overlay \ {clearTimer}
    /\ clearTimer' = NoProduct
    /\ UNCHANGED <<server, taskVars, stockq, listq, bits, evq, failedId, upc, tap,
                   grid, shown, owed, mixed>>

-----------------------------------------------------------------------------
(* Other clients of the Grocy server: the web UI, a phone.                 *)

OtherClient(p, op) ==
    /\ Accepts(server[p], [op |-> op])
    /\ server' = [server EXCEPT ![p] = @ + Delta([op |-> op])]
    /\ mixed' = mixed \cup {p}
    /\ msg' = Miss(msg, {p})
    /\ listq' = Miss(listq, {p})
    /\ UNCHANGED <<gpc, hand, postFailed, stockq, bits, evq, failedId, uiVars, owed>>

-----------------------------------------------------------------------------
TaskStep == \/ \E l \in Snapshots : FetchOk(l)
            \/ FetchNothing \/ Publish \/ Receive
            \/ \E a1, a2 \in Attempt : PostCommand(a1, a2)
            \/ Drained \/ Wake \/ Timeout

UserStep == \/ \E p \in Products, op \in Ops : TapSend(p, op)
            \/ RefreshPress

UiStep == TapNotify \/ TapPaint \/ PollList \/ PollError \/ ErrorClear

Next == TaskStep \/ Dispatch \/ UserStep \/ UiStep
        \/ \E p \in Products, op \in Ops : OtherClient(p, op)

Spec == Init /\ [][Next]_vars

-----------------------------------------------------------------------------
(* Properties                                                              *)

\* No lost wakeup (grocy_task.c:73-106, ui_main.c:172-176).  The task only
\* sleeps on a non-empty stock queue while the tap that filled it is about to
\* set STOCK_CMD_BIT: a command never waits for the refresh interval.
NoLostWakeup ==
    gpc = "wait" /\ stockq # <<>> => "STOCK_CMD" \in bits \/ upc = "notify"

\* A failed POST is followed by a fetch before the task waits again, and a
\* press of the refresh button is pending until the task fetches, whatever bits
\* it was raised together with (grocy_task.c:87-110).  It is one attempt that is
\* owed: a fetch that fails waits for the next interval (grocy_task.c:67-75).
FetchOwed ==
    /\ "resync" \in owed => gpc = "fetch" \/ (gpc \in {"drain", "post"} /\ postFailed)
    /\ "refresh" \in owed => gpc = "fetch" \/ "REFRESH" \in bits

\* The stock the accepted but not yet applied commands for p will move.
Count(p, op) ==
    Cardinality({i \in 1 .. Len(stockq) : stockq[i] = [prod |-> p, op |-> op]})
    + IF hand = [prod |-> p, op |-> op] THEN 1 ELSE 0
Pending(p)   == Count(p, "add") - Count(p, "consume")
Unpainted(p) == IF tap.prod = p THEN Delta(tap) ELSE 0

\* The optimistic number is right (ui_main.c:177-187, grocy_task.c:108-109):
\* for every product that no known hazard touched (a command in flight while
\* the stock was read, a POST that did not move the stock by exactly one, a
\* failed entries GET, another client), the cell shows the server's stock plus
\* the commands still under way, in every interleaving of tap, poll, drain and
\* fetch.
DisplayExact ==
    grid => \A p \in Products \ mixed :
                shown[p] + Unpainted(p) = server[p] + Pending(p)

\* Nothing is under way: the task waits, both queues are empty.
Quiet == gpc = "wait" /\ bits = {} /\ stockq = <<>> /\ listq = NoList /\ upc = "idle"

\* "A stock-command wake skips the fetch -- optimistic UI already updated"
\* (grocy_task.c:109): once everything is posted, and with no fault and no
\* other client, the screen shows the server's stock.
OptimisticExact == Quiet /\ grid => \A p \in Products : shown[p] = server[p]

\* The screen converges (grocy_task.c:97-110, ui_main.c:233-235): when taps,
\* faults and other clients' changes stop, it ends up showing the server's
\* stock, by the refetch after a failure and the periodic refresh.
Converges == <>[](grid /\ \A p \in Products : shown[p] = server[p])

\* The commands accepted and not settled: the one being POSTed, then the queue.
Unsettled == IF hand = NoCommand THEN stockq ELSE <<hand>> \o stockq

Ledger == INSTANCE StockLedger WITH
              Capacity <- StockQueueDepth + 1,
              pending  <- Unsettled,
              resync   <- "resync" \in owed

\* The promise of the stock path (ui_main.c:158-176, grocy_task.c:73-106): every
\* accepted command is settled once, in the order of the taps, by at most two
\* attempts at the server, is only reported as done if one of them moved the
\* stock, and nothing but commands and other clients moves it.
ImplementsLedger == Ledger!Spec

\* None of them waits for ever, and after one that failed the list is fetched.
SettledInTurn == Ledger!Fairness

\* Every error overlay goes away again (ui_main.c:223-250): also the one whose
\* timer was deleted because another cell failed within its four seconds.
OverlaysClear == \A p \in Products : p \in overlay ~> p \notin overlay

=============================================================================
