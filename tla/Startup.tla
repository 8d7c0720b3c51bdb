------------------------------ MODULE Startup ------------------------------
(***************************************************************************)
(* The boot sequence of app_main.c from the event loop to the services,    *)
(* with what each step creates and which tasks run from then on.  A task   *)
(* starts while the steps after it have not run, so what it uses has to be *)
(* there already; a step that fails may leave it out.                      *)
(*                                                                         *)
(* The configuration and the setup wizard, which come first, are in        *)
(* Provisioning: the terminal is provisioned here.                         *)
(***************************************************************************)
EXTENDS Integers, Sequences

CONSTANT MaxFaults   \* bound: steps that fail and power cuts, over all boots

ASSUME FaultsAssumption == MaxFaults \in Nat

VARIABLES
    pc,           \* the next step of app_main or of on_wifi_connected
    made,         \* what the steps of this boot have created
    rendering,    \* the LVGL task has the LVGL lock
    started,      \* s_services_started
    faults,       \* steps that failed and power cuts so far
    clean         \* history: no step of this boot has failed

bootVars == <<pc, made, rendering, started, faults, clean>>

\* Mutated Order: the main screen before the task that feeds it.
OrderUiFirst == <<"bus", "board", "ctrl", "lvgl", "register", "connecting", "wifi", "offline",
                  "client", "cache", "screen", "task", "mqtt", "log", "events", "ota", "online">>

\* The steps in their order; at "offline" and "online" WiFi has the next word.
Order == <<"bus", "board", "ctrl", "lvgl", "register", "connecting", "wifi", "offline",
           "client", "cache", "task", "screen", "mqtt", "log", "events", "ota", "online">>

\* What a step gives: "list", "cmd" and "flags" are the queues and the event
\* group of the Grocy task, "hook" is the log function.
Gives == [bus |-> {"bus"}, board |-> {"board", "touch"}, ctrl |-> {"ctrl"},
          lvgl |-> {"lvgl"}, register |-> {"display"}, connecting |-> {},
          wifi |-> {"wifi"}, client |-> {"client"}, cache |-> {"cache"},
          task |-> {"list", "cmd", "flags", "task"}, screen |-> {"screen"},
          mqtt |-> {"mqtt"}, log |-> {"ring", "hook"}, events |-> {"telemetry"},
          ota |-> {"ota"}]
Steps  == DOMAIN Gives
Things == UNION {Gives[s] : s \in Steps}

BootTypeOK == /\ pc \in Steps \cup {"offline", "online", "restart"}
              /\ made \subseteq Things
              /\ "task" \in made => {"list", "cmd", "flags"} \subseteq made
              /\ "hook" \in made => "ring" \in made
              /\ rendering \in BOOLEAN /\ started \in BOOLEAN
              /\ faults \in 0 .. MaxFaults /\ clean \in BOOLEAN

BootInit == /\ pc = "bus" /\ made = {} /\ rendering = FALSE
            /\ started = FALSE /\ faults = 0 /\ clean = TRUE

-----------------------------------------------------------------------------
(* What the running tasks use without looking whether it is there          *)

\* grocy_task_fn: a list without pictures leaves the cache alone, so a use is
\* something that may happen.
TaskUses   == IF "task" \in made THEN {"client", "cache", "bus", "list", "cmd", "flags"} ELSE {}

\* poll_timer_cb and the touch handler; cell_tap_cb needs a cell, hence a list
ScreenUses == (IF "screen" \in made THEN {"list", "bus", "board"} ELSE {})
              \cup (IF {"screen", "task", "touch"} \subseteq made THEN {"cmd"} ELSE {})

\* screen_event_handler, mqtt_event_handler, mqtt_log_task
HandlerUses == (IF "ctrl" \in made THEN {"bus", "board"} ELSE {})
               \cup (IF "mqtt" \in made THEN {"bus"} ELSE {})
               \cup (IF "hook" \in made THEN {"ring"} ELSE {})

\* What the step itself is about to use.
StepUses == CASE pc = "ctrl" -> {"bus"}
              [] pc = "register" -> {"board", "lvgl"}
              [] pc = "screen" -> {"bus", "display"}
              [] pc \in {"mqtt", "events"} -> {"bus"}
              [] OTHER -> {}

Missing == (TaskUses \cup ScreenUses \cup HandlerUses \cup StepUses) \ made

-----------------------------------------------------------------------------
Place(step) == CHOOSE i \in 1 .. Len(Order) : Order[i] = step
After(step) == Order[Place(step) + 1]

At(step) == pc = step /\ pc' = After(step)

Fault == faults < MaxFaults /\ faults' = faults + 1

\* The step creates all it gives, or fails and leaves only some of it.
Whole(step) == made' = made \cup Gives[step] /\ UNCHANGED <<faults, clean>>
Short(step, left) == /\ made' = made \cup left /\ left # Gives[step]
                     /\ Fault /\ clean' = FALSE

Steady == UNCHANGED <<rendering, started>>

\* event_bus_init; its result is not looked at.
EventBusInit == /\ At("bus") /\ Steady
                /\ Whole("bus") \/ Short("bus", {})

\* board_init: without a backlight or a display ESP_ERROR_CHECK restarts, without
\* a touch controller it goes on.
BoardInit == /\ pc = "board" /\ Steady
             /\ \/ At("board") /\ (Whole("board") \/ Short("board", {"board"}))
                \/ pc' = "restart" /\ Short("board", {})

\* screen_ctrl_init and the first screen_on
ScreenCtrlInit == /\ At("ctrl") /\ Steady /\ "bus" \in made
                  /\ Whole("ctrl") \/ Short("ctrl", {})

LvglPortInit == /\ pc = "lvgl" /\ Steady
                /\ \/ At("lvgl") /\ Whole("lvgl")
                   \/ pc' = "restart" /\ Short("lvgl", {})

\* board_lvgl_register; for the rotation it waits for the lock as long as it takes.
LvglRegister == /\ pc = "register" /\ Steady
                /\ \/ At("register") /\ Whole("register")
                   \/ pc' = "restart" /\ Short("register", {})

\* The "Connecting..." label, or none after 500 ms without the lock.
ConnectingScreen == At("connecting") /\ UNCHANGED <<made, faults, clean>> /\ Steady

WifiManagerStart == /\ At("wifi") /\ Steady
                    /\ Whole("wifi") \/ Short("wifi", {})

-----------------------------------------------------------------------------
(* on_wifi_connected, called for every new address                         *)

OnWifiConnected ==
    /\ pc \in {"offline", "online"} /\ "wifi" \in made
    /\ pc' = IF started THEN pc ELSE "client"
    /\ started' = TRUE
    /\ UNCHANGED <<made, rendering, faults, clean>>

GrocyClientInit == /\ At("client") /\ Steady
                   /\ Whole("client") \/ Short("client", {})

ImageCacheInit == /\ At("cache") /\ Steady
                  /\ Whole("cache") \/ Short("cache", {})

\* grocy_task_start: no task without both queues and the event group.
GrocyTaskStart ==
    /\ At("task") /\ Steady
    /\ \/ Whole("task")
       \/ \E left \in SUBSET {"list", "cmd", "flags"} : Short("task", left)

\* The main screen, if the LVGL lock is free within 200 ms.
UiMainInit == /\ At("screen") /\ Steady
              /\ {"bus", "display"} \subseteq made
              /\ \/ ~rendering /\ Whole("screen")
                 \/ rendering /\ UNCHANGED <<made, faults, clean>>

MqttManagerInit == /\ At("mqtt") /\ Steady /\ "bus" \in made
                   /\ Whole("mqtt") \/ Short("mqtt", {})

MqttLogInit == /\ At("log") /\ Steady
               /\ Whole("log") \/ Short("log", {})

MqttEventsInit == /\ At("events") /\ Steady /\ "bus" \in made
                  /\ Whole("events") \/ Short("events", {})

OtaTaskStart == /\ At("ota") /\ Steady
                /\ Whole("ota") \/ Short("ota", {})

-----------------------------------------------------------------------------
\* The LVGL task takes the lock to draw and gives it back.
LvglDraws == /\ "display" \in made /\ rendering' = ~rendering
             /\ UNCHANGED <<pc, made, started, faults, clean>>

\* A NULL handle is used: an assertion or an exception, then a restart.
Panic == /\ pc # "restart" /\ Missing # {} /\ pc' = "restart"
         /\ UNCHANGED <<made, rendering, started, faults, clean>>

PowerCut == /\ pc # "restart" /\ pc' = "restart" /\ Fault
            /\ UNCHANGED <<made, rendering, started, clean>>

Restart == /\ pc = "restart" /\ pc' = "bus"
           /\ made' = {} /\ rendering' = FALSE /\ started' = FALSE /\ clean' = TRUE
           /\ UNCHANGED faults

BootSteps == \/ EventBusInit \/ BoardInit \/ ScreenCtrlInit \/ LvglPortInit
             \/ LvglRegister \/ ConnectingScreen \/ WifiManagerStart

Services == \/ GrocyClientInit \/ ImageCacheInit \/ GrocyTaskStart \/ UiMainInit
            \/ MqttManagerInit \/ MqttLogInit \/ MqttEventsInit \/ OtaTaskStart

BootNext == BootSteps \/ OnWifiConnected \/ Services \/ LvglDraws \/ Panic \/ PowerCut \/ Restart

BootSpec == BootInit /\ [][BootNext]_bootVars

-----------------------------------------------------------------------------
\* The order of the steps is right for the tasks that run already while later
\* steps have yet to come: what a task, a handler or the next step uses is never
\* the work of a step still ahead, whatever failed before (app_main.c:35-74, 87-161).
UsesReady == \A step \in Steps :
    pc # "restart" /\ Place(step) >= Place(pc) => Missing \cap Gives[step] = {}

=============================================================================
