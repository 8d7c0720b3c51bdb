---------------------------- MODULE WifiManager ----------------------------
(***************************************************************************)
(* wifi_manager.c, without the services that app_main.c starts at the      *)
(* first connection.  The WiFi driver posts events to the default event    *)
(* loop, which runs wifi_event_handler for one event at a time; the        *)
(* handler starts the next connection attempt itself, or spawns a task     *)
(* that does so after a backoff.  The results of esp_wifi_connect and of   *)
(* xTaskCreate are not looked at: a call that fails leaves the station     *)
(* without an attempt, and no event follows.  A restart loses everything   *)
(* but the configuration.                                                  *)
(***************************************************************************)
EXTENDS Integers, Sequences, FiniteSets

CONSTANTS
    MaxRetries,       \* STA_MAX_RETRIES
    BackoffInitial,   \* STA_BACKOFF_MS_INITIAL
    BackoffMax,       \* STA_BACKOFF_MS_MAX
    RetryBound,       \* s_retry_count is counted up to here only
    QueueBound        \* bound on the events waiting in the default event loop

ASSUME BackoffAssumption == BackoffInitial \in Nat \ {0} /\ BackoffMax \in Nat
ASSUME BoundAssumption   == /\ MaxRetries \in Nat /\ RetryBound \in Nat \ {0}
                            /\ QueueBound \in Nat \ {0}

VARIABLES
    link,           \* the station, as the driver sees it
    events,         \* the default event loop's queue
    retry,          \* s_retry_count
    connected,      \* s_connected
    everConnected,  \* s_ever_connected
    portal,         \* s_portal_server runs
    pending,        \* the delays of the reconnect tasks alive
    stranded        \* history: a call that failed has ended the attempts since boot

wifiVars == <<link, events, retry, connected, everConnected, portal, pending, stranded>>

\* The delay before the n-th retry in a row: doubled n - 1 times while below
\* the maximum, then cut to it.
Backoff(n) ==
    LET doubled[k \in 1 .. n] == IF k = 1 THEN BackoffInitial
                                 ELSE IF doubled[k - 1] < BackoffMax
                                      THEN 2 * doubled[k - 1] ELSE doubled[k - 1]
    IN  IF doubled[n] > BackoffMax THEN BackoffMax ELSE doubled[n]
Delays == {Backoff(n) : n \in 1 .. RetryBound}

WifiTypeOK ==
    /\ link \in {"off", "down", "connecting", "up"}
    /\ events \in Seq({"start", "disconnected", "got_ip"}) /\ Len(events) <= QueueBound
    /\ retry \in 0 .. RetryBound
    /\ connected \in BOOLEAN /\ everConnected \in BOOLEAN /\ portal \in BOOLEAN
    /\ pending \in Seq(Delays) /\ Len(pending) <= 1
    /\ stranded \in BOOLEAN

WifiBoot == /\ link' = "off" /\ events' = <<"start">> /\ retry' = 0
            /\ connected' = FALSE /\ everConnected' = FALSE /\ portal' = FALSE
            /\ pending' = <<>> /\ stranded' = FALSE

\* wifi_manager_start has run: the driver is about to report STA_START.
WifiInit == /\ link = "off" /\ events = <<"start">> /\ retry = 0
            /\ connected = FALSE /\ everConnected = FALSE /\ portal = FALSE
            /\ pending = <<>> /\ stranded = FALSE

-----------------------------------------------------------------------------
(* The driver                                                              *)

Posted(e) == Len(events) < QueueBound /\ events' = Append(events, e)

\* An attempt fails, or a link that was up is lost.
LinkDown ==
    /\ link \in {"connecting", "up"}
    /\ link' = "down"
    /\ Posted("disconnected")
    /\ UNCHANGED <<retry, connected, everConnected, portal, pending, stranded>>

\* Associated, with an address; or the address was renewed.
LinkUp ==
    /\ link \in {"connecting", "up"}
    /\ link' = "up"
    /\ Posted("got_ip")
    /\ UNCHANGED <<retry, connected, everConnected, portal, pending, stranded>>

-----------------------------------------------------------------------------
(* wifi_event_handler                                                      *)

Take(e) == events # <<>> /\ Head(events) = e /\ events' = Tail(events)

\* esp_wifi_connect, which may fail without anyone noticing.
Connects == \/ link' = "connecting" /\ UNCHANGED stranded
            \/ stranded' = TRUE /\ UNCHANGED link

OnStart ==
    /\ Take("start")
    /\ Connects
    /\ UNCHANGED <<retry, connected, everConnected, portal, pending>>

Disconnected ==
    /\ Take("disconnected")
    /\ connected' = FALSE
    /\ retry' = IF retry < RetryBound THEN retry + 1 ELSE retry

\* Mutated RetryLater: gives up after MaxRetries even when known-good.
RetryLaterBounded ==
    /\ Disconnected
    /\ everConnected
    /\ IF retry' <= MaxRetries THEN pending' = Append(pending, Backoff(retry')) /\ UNCHANGED portal
                               ELSE portal' = TRUE /\ UNCHANGED pending
    /\ UNCHANGED <<link, everConnected, stranded>>

\* Connected before: a task reconnects after the backoff.  The result of
\* xTaskCreate is not looked at.
RetryLater ==
    /\ Disconnected
    /\ everConnected
    /\ \/ pending' = Append(pending, Backoff(retry')) /\ UNCHANGED stranded
       \/ stranded' = TRUE /\ UNCHANGED pending
    /\ UNCHANGED <<link, everConnected, portal>>

\* Still on the initial boot: connect at once ...
RetryNow ==
    /\ Disconnected
    /\ ~everConnected /\ retry' <= MaxRetries
    /\ Connects
    /\ UNCHANGED <<everConnected, portal, pending>>

\* ... or give up: the portal, and no attempt any more.  When httpd_start fails
\* there is an access point that serves no page.
StartPortal ==
    /\ Disconnected
    /\ ~everConnected /\ retry' > MaxRetries
    /\ \/ portal' = TRUE /\ UNCHANGED stranded
       \/ stranded' = TRUE /\ UNCHANGED portal
    /\ UNCHANGED <<link, everConnected, pending>>

\* An address, also a renewed one: the count of failures starts again.
OnGotIp ==
    /\ Take("got_ip")
    /\ retry' = 0
    /\ connected' = TRUE
    /\ everConnected' = TRUE
    /\ UNCHANGED <<link, portal, pending, stranded>>

\* Mutated Reconnect: the task connects but does not end (no vTaskDelete).
ReconnectAgain ==
    /\ pending # <<>>
    /\ Connects
    /\ UNCHANGED <<events, retry, connected, everConnected, portal, pending>>

\* reconnect_task after its delay: connect, and the task is gone.
Reconnect ==
    /\ pending # <<>>
    /\ pending' = Tail(pending)
    /\ Connects
    /\ UNCHANGED <<events, retry, connected, everConnected, portal>>

\* portal_save_handler restarts the device; so does a power cut.
PortalSave == portal /\ WifiBoot
WifiPowerCut   == WifiBoot

WifiNext == \/ LinkDown \/ LinkUp \/ OnStart \/ RetryLater \/ RetryNow \/ StartPortal
            \/ OnGotIp \/ Reconnect \/ PortalSave \/ WifiPowerCut

WifiSpec == WifiInit /\ [][WifiNext]_wifiVars

-----------------------------------------------------------------------------
Ones(e) == Cardinality({i \in 1 .. Len(events) : events[i] = e})
Token(b) == IF b THEN 1 ELSE 0

\* Exactly one connection attempt exists (wifi_manager.c:34-40, 154-188): it is
\* with the driver, or in a disconnect event not handled yet, or in a reconnect
\* task; it ends once at most, in the portal or in a call whose failure nobody
\* looks at (esp_wifi_connect, xTaskCreate, httpd_start).  So no order of events
\* makes two attempts of one, calls esp_wifi_connect on a station that is
\* connecting or connected, or loses the attempt of a station that was
\* connected once without such a failure.
OneAttempt ==
    Ones("start") + Token(link \in {"connecting", "up"}) + Ones("disconnected")
        + Len(pending) + Token(portal) + Token(stranded) = 1

\* "Never fall back to SoftAP; credentials are known-good."
\* (wifi_manager.c:168): not after one connection, in any order of events.
NoPortalOnceConnected == everConnected => ~portal

\* s_connected lags behind the driver only by the events not handled yet: with
\* an empty queue it says whether the station is up (wifi_manager.c:158-201).
StatusSettles == events = <<>> => (connected <=> link = "up")

\* A terminal that was connected once comes back, however long the access
\* point was away (wifi_manager.c:166-178, 34-40), unless it is restarted, or
\* the call that would have tried again failed: the code "retries indefinitely"
\* (wifi_manager.c:167) as long as no such call fails.
ComesBack == everConnected /\ ~connected ~> connected \/ ~everConnected \/ stranded
=============================================================================
