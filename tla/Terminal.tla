------------------------------ MODULE Terminal ------------------------------
(***************************************************************************)
(* The boot sequence and the WiFi manager together.  app_main starts the   *)
(* WiFi manager and ends; every new address makes wifi_event_handler call  *)
(* on_wifi_connected, and the first of these calls starts the services     *)
(* from within the handler.  While it does so the default event loop takes *)
(* no other event: the driver's news wait in its queue.  A restart, of     *)
(* whatever cause, loses both halves.                                      *)
(***************************************************************************)
EXTENDS Startup, WifiManager

terminalVars == <<bootVars, wifiVars>>

\* WiFi's variables have the values from which esp_wifi_start sets them going.
TerminalInit == BootInit /\ WifiInit

WifiStarted == "wifi" \in made /\ pc # "restart"

\* The event loop is free: the handler is not starting the services.
LoopFree == WifiStarted /\ pc \in {"offline", "online"}

\* app_main, the services, the LVGL task and a use of what is not there
BootSide == (BootSteps \/ Services \/ LvglDraws \/ Panic \/ PowerCut) /\ UNCHANGED wifiVars

Driver == WifiStarted /\ (LinkDown \/ LinkUp \/ Reconnect) /\ UNCHANGED bootVars

Handler == LoopFree /\ (OnStart \/ RetryLater \/ RetryNow \/ StartPortal) /\ UNCHANGED bootVars

\* Mutated Address: the callback is only called when the link was down.
AddressIfNew == LoopFree /\ OnGotIp /\ IF retry > 0 THEN OnWifiConnected ELSE UNCHANGED bootVars

\* IP_EVENT_STA_GOT_IP: the handler's own part, and its callback.
Address == LoopFree /\ OnGotIp /\ OnWifiConnected

\* portal_save_handler has stored the credentials and restarts.
PortalRestart == /\ portal /\ LoopFree /\ pc' = "restart" /\ Fault
                 /\ UNCHANGED <<made, rendering, started, clean, wifiVars>>

TerminalRestart == Restart /\ WifiBoot

TerminalNext == \/ BootSide \/ Driver \/ Handler \/ Address
                \/ PortalRestart \/ TerminalRestart

TerminalSpec == TerminalInit /\ [][TerminalNext]_terminalVars

\* The tasks run, a step that uses a missing handle does not get past it, and
\* an access point that is tried again and again answers at last.
TerminalFairness ==
    /\ WF_terminalVars(BootSteps /\ UNCHANGED wifiVars)
    /\ WF_terminalVars(Services /\ UNCHANGED wifiVars)
    /\ WF_terminalVars(Panic /\ StepUses \ made # {} /\ UNCHANGED wifiVars)
    /\ WF_terminalVars(Handler \/ Address)
    /\ WF_terminalVars(TerminalRestart)
    /\ WF_terminalVars(WifiStarted /\ Reconnect /\ UNCHANGED bootVars)
    /\ SF_terminalVars(WifiStarted /\ LinkUp /\ UNCHANGED bootVars)

TerminalFairSpec == TerminalSpec /\ TerminalFairness

-----------------------------------------------------------------------------
\* Once the power stays on and steps stop failing, the terminal stops restarting
\* and comes to rest (app_main.c:35-74, 87-161, wifi_manager.c:154-201): with its
\* services started if WiFi was, unless it ended in the portal or in a failed
\* call that left it without an attempt; and when no step of that boot failed,
\* all services are there, but for a screen that the LVGL lock kept waiting for
\* 200 ms.  That failures stop is the bound MaxFaults: a step that fails in every
\* boot (ESP_ERROR_CHECK) restarts the terminal for ever, and one that fails
\* only once leaves out its service until the next restart.
ServicesCome == <>[](/\ pc \in {"offline", "online"}
                     /\ WifiStarted => pc = "online" \/ portal \/ stranded
                     /\ pc = "online" /\ clean => Things \ {"screen"} \subseteq made)
=============================================================================
