------------------------------ MODULE MqttLink ------------------------------
(***************************************************************************)
(* What the terminal tells the broker beside the state of its screen: that *)
(* it is there (grocy_mqtt.c), its telemetry events (mqtt_events.c) and    *)
(* its log lines (mqtt_log.c), from the start of the services on.          *)
(*                                                                         *)
(* Between the client and the broker is a session that dies unseen: each   *)
(* side notices in its own time, and the broker then publishes the last    *)
(* will.  So it does when the terminal loses power; only the terminal's   *)
(* own state is gone then.  Any task may log, at any time; a line is a     *)
(* number, given in the order in which the ring buffer took the lines or   *)
(* refused them.  The warnings that publishing itself logs are without     *)
(* number and without bound.                                               *)
(***************************************************************************)
EXTENDS Integers, Sequences

CONSTANTS
    Events,      \* the kinds of telemetry events, beside "boot"
    Threshold,   \* CONFIG_GROCY_MQTT_LOG_LEVEL
    RingSize,    \* log lines the ring buffer holds, with the one being read
    MaxLines,    \* bound: numbered lines
    MaxDrops     \* bound: connections lost and power cuts

ASSUME LogAssumption == /\ Threshold \in 0 .. 4
                        /\ RingSize \in Nat \ {0} /\ MaxLines \in Nat /\ MaxDrops \in Nat

VARIABLES
    ipc,        \* how far on_wifi_connected has come, or "off"
    session,    \* the broker's session: "none", "alive", "dead" (not noticed yet)
    client,     \* the MQTT client's own state: "off", "down" or "up"
    handler,    \* the event mqtt_event_handler is about to get
    mqttConnected,  \* s_connected
    status,     \* the retained status topic on the broker
    sent,       \* kinds of telemetry events of this boot that reached the broker
    hooked,     \* mqtt_log_vprintf is the log function
    drainer,    \* mqtt_log_task runs
    ring,       \* the lines in the ring buffer
    held,       \* the line the drain task has received and not returned, or 0
    logged,     \* numbered lines so far, over all boots
    topic,      \* the numbered lines on the log topic, in the order they came
    drops       \* connections lost and power cuts so far

linkVars == <<session, client, handler, mqttConnected, status, drops>>
logVars  == <<hooked, drainer, ring, held, logged, topic>>
mqttVars     == <<ipc, linkVars, sent, logVars>>

Lines   == 1 .. MaxLines
Warning == MaxLines + 1    \* any warning that publishing a line has logged

MqttTypeOK ==
    /\ ipc \in {"off", "manager", "ring", "hook", "task", "events", "boot", "done"}
    /\ session \in {"none", "alive", "dead"} /\ client \in {"off", "down", "up"}
    /\ handler \in {"none", "connected", "disconnected"} /\ mqttConnected \in BOOLEAN
    /\ status \in {"none", "online", "offline"} /\ sent \subseteq Events \cup {"boot"}
    /\ hooked \in BOOLEAN /\ drainer \in BOOLEAN
    /\ ring \in Seq(Lines \cup {Warning}) /\ held \in {0, Warning} \cup Lines
    /\ Len(ring) + (IF held = 0 THEN 0 ELSE 1) <= RingSize
    /\ logged \in 0 .. MaxLines /\ topic \in Seq(Lines)
    /\ drops \in 0 .. MaxDrops

MqttInit ==
    /\ ipc = "manager"
    /\ session = "none" /\ client = "off" /\ handler = "none" /\ mqttConnected = FALSE
    /\ status = "none" /\ sent = {} /\ drops = 0
    /\ hooked = FALSE /\ drainer = FALSE
    /\ ring = <<>> /\ held = 0 /\ logged = 0 /\ topic = <<>>

-----------------------------------------------------------------------------
(* The start of the services, steps 11 to 13 of on_wifi_connected          *)

\* mqtt_manager_init: the client is started, or could not be created.
ManagerInit(ok) ==
    /\ ipc = "manager" /\ ipc' = "ring"
    /\ client' = IF ok THEN "down" ELSE "off"
    /\ UNCHANGED <<session, handler, mqttConnected, status, drops, sent, logVars>>

\* mqtt_log_init ends early without a ring buffer.
RingCreate(ok) ==
    /\ ipc = "ring" /\ ipc' = IF ok THEN "hook" ELSE "events"
    /\ UNCHANGED <<linkVars, sent, logVars>>

\* The hook takes the place of the log function.
HookLog ==
    /\ ipc = "hook" /\ ipc' = "task" /\ hooked' = TRUE
    /\ UNCHANGED <<linkVars, sent, drainer, ring, held, logged, topic>>

\* The result of xTaskCreate is not looked at: without the task, hook and ring
\* buffer stay.
LogTask(ok) ==
    /\ ipc = "task" /\ ipc' = "events" /\ drainer' = ok
    /\ UNCHANGED <<linkVars, sent, hooked, ring, held, logged, topic>>

\* mqtt_events_init registers its handler, then publishes the boot event.
RegisterEvents == ipc = "events" /\ ipc' = "boot" /\ UNCHANGED <<linkVars, sent, logVars>>

\* A QoS 0 message gets through: both ends are there.
Reaches == mqttConnected /\ client = "up" /\ session = "alive"

Telemetry(kind) == sent' = IF Reaches THEN sent \cup {kind} ELSE sent

BootEvent == /\ ipc = "boot" /\ ipc' = "done" /\ Telemetry("boot")
             /\ UNCHANGED <<linkVars, logVars>>

\* events_handler, in the event loop task
EventsHandler(kind) == /\ ipc \in {"boot", "done"} /\ Telemetry(kind)
                       /\ UNCHANGED <<ipc, linkVars, logVars>>

-----------------------------------------------------------------------------
(* The connection                                                          *)

\* Mutated LastWill: the client states none, so the topic stays as it is.
LastWillNone == status

\* What the broker publishes, retained, for a session that has died.
LastWill == "offline"

\* The broker publishes the will of a session that this one takes over.
Connect ==
    /\ client = "down" /\ handler = "none"
    /\ client' = "up" /\ session' = "alive" /\ handler' = "connected"
    /\ status' = IF session = "none" THEN status ELSE LastWill
    /\ UNCHANGED <<ipc, sent, mqttConnected, drops, logVars>>

\* Mutated Greeting: only the first connection is announced.
GreetingOnce == IF session = "alive" /\ status = "none" THEN "online" ELSE status

\* The retained "online"; lost with the session, it is sent again by the next.
Greeting == IF session = "alive" THEN "online" ELSE status

OnConnected ==
    /\ handler = "connected" /\ handler' = "none"
    /\ mqttConnected' = TRUE
    /\ status' = Greeting
    /\ UNCHANGED <<ipc, session, client, sent, drops, logVars>>

\* The network is gone; neither side knows.
LinkLost ==
    /\ session = "alive" /\ drops < MaxDrops
    /\ session' = "dead" /\ drops' = drops + 1
    /\ UNCHANGED <<ipc, client, handler, mqttConnected, status, sent, logVars>>

ClientNotices ==
    /\ client = "up" /\ session # "alive" /\ handler = "none"
    /\ client' = "down" /\ handler' = "disconnected"
    /\ UNCHANGED <<ipc, session, mqttConnected, status, sent, drops, logVars>>

OnDisconnected ==
    /\ handler = "disconnected" /\ handler' = "none"
    /\ mqttConnected' = FALSE
    /\ UNCHANGED <<ipc, session, client, status, sent, drops, logVars>>

\* One and a half keepalives without a packet: the last will.
BrokerNotices ==
    /\ session = "dead" /\ session' = "none" /\ status' = LastWill
    /\ UNCHANGED <<ipc, client, handler, mqttConnected, sent, drops, logVars>>

\* The terminal loses power, or restarts: its session is left to die.
PowerOff ==
    /\ ipc # "off" /\ drops < MaxDrops /\ drops' = drops + 1
    /\ ipc' = "off"
    /\ session' = IF session = "alive" THEN "dead" ELSE session
    /\ client' = "off" /\ handler' = "none" /\ mqttConnected' = FALSE /\ sent' = {}
    /\ hooked' = FALSE /\ drainer' = FALSE /\ ring' = <<>> /\ held' = 0
    /\ UNCHANGED <<status, logged, topic>>

\* ... and is connected again, as far as the start of its services.
PowerOn == ipc = "off" /\ ipc' = "manager" /\ UNCHANGED <<linkVars, sent, logVars>>

-----------------------------------------------------------------------------
(* The log                                                                 *)

ShouldPublish(level) == level <= Threshold

\* xRingbufferSend without waiting: a line that finds no room is gone.
Accepted(level) == hooked /\ ShouldPublish(level)
                   /\ Len(ring) + (IF held = 0 THEN 0 ELSE 1) < RingSize

\* mqtt_log_vprintf, called by ESP_LOGx in any task
Line(level) ==
    /\ logged' = logged + 1
    /\ ring' = IF Accepted(level) THEN Append(ring, logged') ELSE ring

Log(level) ==
    /\ logged < MaxLines /\ Line(level)
    /\ UNCHANGED <<ipc, linkVars, sent, hooked, drainer, held, topic>>

\* Mutated Receive: a line is looked at and stays in the buffer.
ReceivePeek ==
    /\ drainer /\ held = 0 /\ ring # <<>>
    /\ held' = Head(ring) /\ ring' = ring
    /\ UNCHANGED <<ipc, linkVars, sent, hooked, drainer, logged, topic>>

Receive ==
    /\ drainer /\ held = 0 /\ ring # <<>>
    /\ held' = Head(ring) /\ ring' = Tail(ring)
    /\ UNCHANGED <<ipc, linkVars, sent, hooked, drainer, logged, topic>>

\* Mutated Returned: the item is only given back when it was published.
ReturnedIfSent == IF Reaches THEN 0 ELSE held

Returned == 0

\* mqtt_publish, then vRingbufferReturnItem, whatever became of it.  While the
\* client is down and s_connected still set, esp_mqtt_client_publish logs a
\* warning, which comes back through the hook.
Forward ==
    /\ held # 0 /\ held' = Returned
    /\ topic' = IF Reaches /\ held # Warning THEN Append(topic, held) ELSE topic
    /\ ring' = IF mqttConnected /\ client # "up" /\ Accepted(2)
                  THEN Append(ring, Warning) ELSE ring
    /\ UNCHANGED <<ipc, linkVars, sent, hooked, drainer, logged>>

-----------------------------------------------------------------------------
ServiceSteps == \/ \E ok \in BOOLEAN : ManagerInit(ok) \/ RingCreate(ok) \/ LogTask(ok)
                \/ HookLog \/ RegisterEvents \/ BootEvent

MqttTask == OnConnected \/ ClientNotices \/ OnDisconnected

MqttNext == \/ ServiceSteps \/ MqttTask \/ Connect \/ LinkLost \/ BrokerNotices
            \/ PowerOff \/ PowerOn
            \/ Receive \/ Forward
            \/ \E kind \in Events : EventsHandler(kind)
            \/ \E level \in 1 .. 4 : Log(level)

MqttSpec == MqttInit /\ [][MqttNext]_mqttVars

\* The tasks run, the client reconnects for ever, and both sides have a
\* keepalive after which they notice a dead session.  Nobody has to switch a
\* terminal on again.
MqttFairness ==
    /\ WF_mqttVars(ServiceSteps)
    /\ WF_mqttVars(MqttTask)
    /\ WF_mqttVars(Connect)
    /\ WF_mqttVars(BrokerNotices)
    /\ WF_mqttVars(Receive)
    /\ WF_mqttVars(Forward)

MqttFairSpec == MqttSpec /\ MqttFairness

-----------------------------------------------------------------------------
\* The log topic has each line at most once and in the order of the log,
\* whatever was dropped for want of room, of a connection or of power
\* (mqtt_log.c:100-121).
LogInOrder == /\ \A i, j \in 1 .. Len(topic) : i < j => topic[i] < topic[j]
              /\ \A i \in 1 .. Len(ring), j \in 1 .. Len(topic) : topic[j] < ring[i]

\* mqtt_log_init went on although mqtt_log_task could not be created.
NoReader == hooked /\ ipc # "task" /\ ~drainer

\* The ring buffer is empty again once the tasks stop logging, unless nobody
\* reads it: no line keeps its room, also not one that could not be published,
\* nor the warnings that come back through the hook from publishing it, for
\* they end when the client has told s_connected (mqtt_log.c:113-121,
\* grocy_mqtt.c:75-77).
RingDrains == []<>(NoReader \/ (ring = <<>> /\ held = 0))

\* Home Assistant's view (README.md:182): the status topic says "online" while
\* the terminal stays connected, and no longer once it is gone (switched off, or
\* with a client that could not be created), whichever side notices first and
\* however often it came and went (grocy_mqtt.c:57-63, 112-117).
StatusTruthful == /\ <>[](session = "alive") => <>[](status = "online")
                  /\ <>[](session # "alive") => <>[](status # "online")

\* "boot: Device (re)started" (README.md:192): every start is reported.
BootReported == client # "off" ~> "boot" \in sent
=============================================================================
