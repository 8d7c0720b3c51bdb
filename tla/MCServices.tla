----------------------------- MODULE MCServices -----------------------------
(***************************************************************************)
(* Three parts of the terminal that share no state, explored one at a time *)
(* as Init chooses: the boot sequence with the WiFi manager, the link to   *)
(* the MQTT broker, and the firmware updates.  Interleaved, each would     *)
(* reach just the states it reaches alone.                                 *)
(***************************************************************************)
EXTENDS Terminal, MqttLink, MCOtaTask

VARIABLE part
servicesVars == <<part, terminalVars, mqttVars, otaVars>>

Init == /\ part \in {"terminal", "mqtt", "ota"}
        /\ TerminalInit /\ MqttInit /\ OtaInit
        /\ part # "ota" => published = MCFactory /\ served = MCFactory

Next == /\ UNCHANGED part
        /\ \/ part = "terminal" /\ TerminalNext /\ UNCHANGED <<mqttVars, otaVars>>
           \/ part = "mqtt" /\ MqttNext /\ UNCHANGED <<terminalVars, otaVars>>
           \/ part = "ota" /\ OtaNext /\ UNCHANGED <<terminalVars, mqttVars>>

Spec == Init /\ [][Next]_servicesVars

\* TerminalFairness, MqttFairness and OtaFairness, each where its part runs.
Fairness ==
    /\ WF_terminalVars(part = "terminal" /\ BootSteps /\ UNCHANGED wifiVars)
    /\ WF_terminalVars(part = "terminal" /\ Services /\ UNCHANGED wifiVars)
    /\ WF_terminalVars(part = "terminal" /\ Panic /\ StepUses \ made # {} /\ UNCHANGED wifiVars)
    /\ WF_terminalVars(part = "terminal" /\ (Handler \/ Address))
    /\ WF_terminalVars(part = "terminal" /\ TerminalRestart)
    /\ WF_terminalVars(part = "terminal" /\ WifiStarted /\ Reconnect /\ UNCHANGED bootVars)
    /\ SF_terminalVars(part = "terminal" /\ WifiStarted /\ LinkUp /\ UNCHANGED bootVars)
    /\ WF_mqttVars(part = "mqtt" /\ ServiceSteps)
    /\ WF_mqttVars(part = "mqtt" /\ MqttTask)
    /\ WF_mqttVars(part = "mqtt" /\ Connect)
    /\ WF_mqttVars(part = "mqtt" /\ BrokerNotices)
    /\ WF_mqttVars(part = "mqtt" /\ Receive)
    /\ WF_mqttVars(part = "mqtt" /\ Forward)
    /\ WF_otaVars(part = "ota" /\ Task)
    /\ WF_otaVars(part = "ota" /\ Crash)
    /\ SF_otaVars(part = "ota" /\ FetchWhole)
    /\ SF_otaVars(part = "ota" /\ WriteDone)

FairSpec == Spec /\ Fairness

-----------------------------------------------------------------------------
\* The types of the parts: every variable of app_main.c, wifi_manager.c, the
\* MQTT modules and the update task stays in its range.
ServicesTypeOK == BootTypeOK /\ WifiTypeOK /\ MqttTypeOK /\ OtaTypeOK

\* ServicesCome, of the runs in which the terminal is switched on.
TerminalComesUp == part = "terminal" => ServicesCome
=============================================================================
