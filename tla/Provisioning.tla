---------------------------- MODULE Provisioning ----------------------------
(***************************************************************************)
(* How the terminal gets its configuration, and keeps it: config.c on top  *)
(* of NVS, the setup wizard (ui_setup.c), the save handler of the captive  *)
(* portal (wifi_manager.c) and the boot sequence that ties them            *)
(* (app_main.c).  NVS makes every set durable by itself; the device may    *)
(* lose power between any two of them.                                     *)
(*                                                                         *)
(* A value is the number of the user's entry it was typed in; 0 is the     *)
(* Kconfig default.  Two tasks run during setup: the main task, which      *)
(* waits for the semaphore and saves, and the LVGL task with the buttons.  *)
(***************************************************************************)
EXTENDS Integers, Sequences

CONSTANT MaxEntered    \* bound on the entries typed

ASSUME EnteredAssumption == MaxEntered \in Nat

\* Mutated SaveOrder: the flag is written first.
SaveProvisionedFirst ==
    <<"provisioned", "wifi_ssid", "wifi_pass", "grocy_url", "grocy_api_key", "untyped">>

\* config_save's order.  The three MQTT keys and location_id, which neither the
\* wizard nor the portal can change, are one key.
SaveOrder ==
    <<"wifi_ssid", "wifi_pass", "grocy_url", "grocy_api_key", "untyped", "provisioned">>
Keys   == {SaveOrder[k] : k \in 1 .. Len(SaveOrder)}
Typed  == {"wifi_ssid", "wifi_pass", "grocy_url", "grocy_api_key"}
Absent == -1
Values == (0 .. MaxEntered) \cup {0, 1}   \* entries, and the flag

VARIABLES
    byKconfig,   \* CONFIG_GROCY_PROVISIONED_BY_KCONFIG of this build
    ns, nvs,     \* the NVS namespace exists; its keys
    cfg,         \* g_config; "provisioned" is 0 or 1
    main, k,     \* where the main task is; the key config_save is at
    sem,         \* s_done_sem: "null", "empty", "given"
    lvgl,        \* the LVGL task: "idle", or in save_btn_cb before the give
    fetch,       \* a setup_fetch task runs
    clientMade,      \* grocy_client_init has run
    entered,     \* entries typed so far
    saved,       \* history: a save of a provisioned terminal has got to the flag,
                 \* and NVS has not been erased since
    portalUsed,  \* history: the portal changed the configuration
    mixed,       \* history: an nvs_set failed, or Save was pressed while saving
    misread      \* history: nvs_open or nvs_get failed on a load

ramVars == <<cfg, main, k, sem, lvgl, fetch, clientMade>>
history == <<saved, portalUsed, mixed, misread>>
setupVars == <<byKconfig, ns, nvs, ramVars, entered, history>>

SetupTypeOK ==
    /\ ns \in BOOLEAN
    /\ nvs \in [Keys -> Values \cup {Absent}]
    /\ cfg \in [Keys -> Values]
    /\ main \in {"nvs", "load", "lock", "wizard", "open", "save", "restart", "run"}
    /\ k \in 1 .. Len(SaveOrder)
    /\ sem \in {"null", "empty", "given"}
    /\ lvgl \in {"idle", "give"}
    /\ byKconfig \in BOOLEAN /\ fetch \in BOOLEAN /\ clientMade \in BOOLEAN
    /\ entered \in 0 .. MaxEntered
    /\ saved \in BOOLEAN /\ portalUsed \in BOOLEAN /\ mixed \in BOOLEAN /\ misread \in BOOLEAN
    /\ ~ns => \A key \in Keys : nvs[key] = Absent

Zero == [key \in Keys |-> 0]

SetupInit ==
    /\ byKconfig \in BOOLEAN
    /\ ns = FALSE /\ nvs = [key \in Keys |-> Absent]
    /\ cfg = Zero /\ main = "nvs" /\ k = 1 /\ sem = "null" /\ lvgl = "idle"
    /\ fetch = FALSE /\ clientMade = FALSE
    /\ entered = 0
    /\ saved = FALSE /\ portalUsed = FALSE /\ mixed = FALSE /\ misread = FALSE

\* Power lost, esp_restart, or abort: the RAM is gone.
Reboot ==
    /\ cfg' = Zero /\ main' = "nvs" /\ k' = 1 /\ sem' = "null" /\ lvgl' = "idle"
    /\ fetch' = FALSE /\ clientMade' = FALSE
    /\ UNCHANGED <<byKconfig, ns, nvs, entered, history>>

-----------------------------------------------------------------------------
(* Boot                                                                    *)

\* nvs_flash_init: a partition without a free page, or of another version, is
\* erased, and the flag and every other key with it.
NvsInit ==
    /\ main = "nvs" /\ main' = "load"
    /\ \/ ns' = FALSE /\ nvs' = [key \in Keys |-> Absent] /\ saved' = FALSE
       \/ UNCHANGED <<ns, nvs, saved>>
    /\ UNCHANGED <<byKconfig, cfg, k, sem, lvgl, fetch, clientMade, entered, portalUsed,
                   mixed, misread>>

\* config_load: the Kconfig defaults without a namespace, otherwise key by key.
Loaded == [key \in Keys |->
    IF ~ns THEN IF key = "provisioned" /\ byKconfig THEN 1 ELSE 0
    ELSE IF nvs[key] # Absent THEN nvs[key] ELSE 0]

\* An unexpected nvs_open error leaves g_config as it is: all zero.  A key that
\* cannot be read gets its default.
Load ==
    /\ main = "load"
    /\ \/ cfg' = Loaded /\ UNCHANGED misread
       \/ misread' = TRUE /\ UNCHANGED cfg
       \/ misread' = TRUE /\ ns /\ \E key \in Keys : cfg' = [Loaded EXCEPT ![key] = 0]
    /\ main' = IF cfg'["provisioned"] = 1 THEN "run" ELSE "lock"
    /\ clientMade' = (main' = "run")   \* on_wifi_connected, later in this boot
    /\ UNCHANGED <<byKconfig, ns, nvs, k, sem, lvgl, fetch, entered, saved, portalUsed, mixed>>

\* app_main shows the wizard if it gets the LVGL lock, and goes on to
\* config_save if it does not.
ShowWizard ==
    /\ main = "lock"
    /\ \/ main' = "wizard" /\ sem' = "empty"
       \/ main' = "open" /\ UNCHANGED sem
    /\ UNCHANGED <<byKconfig, ns, nvs, cfg, k, lvgl, fetch, clientMade, entered, history>>

-----------------------------------------------------------------------------
(* The wizard                                                              *)

\* save_btn_cb: the fields go to g_config; the wizard can still be pressed
\* after it has returned, until the restart ...
SavePress ==
    /\ lvgl = "idle" /\ entered < MaxEntered
    /\ \/ main = "wizard" /\ sem = "empty" /\ UNCHANGED mixed
       \/ /\ ~clientMade /\ cfg["provisioned"] = 1
          /\ main \in {"wizard", "open", "save", "restart"}
          /\ mixed' = TRUE
    /\ entered' = entered + 1
    /\ cfg' = [key \in Keys |-> IF key \in Typed THEN entered'
                                ELSE IF key = "provisioned" THEN 1 ELSE cfg[key]]
    /\ lvgl' = "give"
    /\ UNCHANGED <<byKconfig, ns, nvs, main, k, sem, fetch, clientMade, saved,
                   portalUsed, misread>>

\* ... and the semaphore is given; after ui_setup_show has returned it is NULL
\* and the give aborts.
Give ==
    /\ lvgl = "give"
    /\ IF sem = "null" THEN Reboot
       ELSE /\ sem' = "given" /\ lvgl' = "idle"
            /\ UNCHANGED <<byKconfig, ns, nvs, cfg, main, k, fetch, clientMade, entered,
                           history>>

\* The main task: semaphore, LVGL lock (not held by a callback), delete.
WizardDone ==
    /\ main = "wizard" /\ sem = "given" /\ lvgl = "idle"
    /\ sem' = "null" /\ main' = "open"
    /\ UNCHANGED <<byKconfig, ns, nvs, cfg, k, lvgl, fetch, clientMade, entered, history>>

\* The Fetch button starts a task of its own, whose GET fails for want of the
\* client ...
FetchPress ==
    /\ main = "wizard" /\ lvgl = "idle" /\ ~fetch
    /\ fetch' = TRUE
    /\ UNCHANGED <<byKconfig, ns, nvs, cfg, main, k, sem, lvgl, clientMade, entered,
                   history>>

\* ... and which then returns from its function, on which FreeRTOS aborts.
FetchReturn == fetch /\ Reboot

-----------------------------------------------------------------------------
(* Saving                                                                  *)

\* portal_save_handler: new credentials for a terminal that cannot connect.
PortalSave ==
    /\ main = "run" /\ entered < MaxEntered
    /\ entered' = entered + 1
    /\ cfg' = [cfg EXCEPT !["wifi_ssid"] = entered', !["wifi_pass"] = entered',
                          !["provisioned"] = 1]
    /\ main' = "open" /\ portalUsed' = TRUE
    /\ UNCHANGED <<byKconfig, ns, nvs, k, sem, lvgl, fetch, clientMade, saved,
                   mixed, misread>>

\* Mutated SaveOpen: the old keys are erased before the new ones are written.
SaveOpenErases ==
    /\ main = "open"
    /\ \/ ns' = TRUE /\ main' = "save" /\ nvs' = [key \in Keys |-> Absent]
       \/ main' = "restart" /\ UNCHANGED <<byKconfig, ns, nvs>>
    /\ k' = 1
    /\ UNCHANGED <<byKconfig, cfg, sem, lvgl, fetch, clientMade, entered, history>>

\* config_save opens the namespace, creating it.
SaveOpen ==
    /\ main = "open"
    /\ \/ ns' = TRUE /\ main' = "save"
       \/ main' = "restart" /\ UNCHANGED ns
    /\ k' = 1
    /\ UNCHANGED <<byKconfig, nvs, cfg, sem, lvgl, fetch, clientMade, entered, history>>

\* One nvs_set; its result is not looked at.
SaveKey ==
    /\ main = "save"
    /\ \/ /\ nvs' = [nvs EXCEPT ![SaveOrder[k]] = cfg[SaveOrder[k]]]
          /\ saved' = (saved \/ (SaveOrder[k] = "provisioned" /\ cfg["provisioned"] = 1))
          /\ UNCHANGED mixed
       \/ mixed' = TRUE /\ UNCHANGED <<nvs, saved>>
    /\ IF k < Len(SaveOrder) THEN k' = k + 1 /\ UNCHANGED main
                             ELSE main' = "restart" /\ UNCHANGED k
    /\ UNCHANGED <<byKconfig, ns, cfg, sem, lvgl, fetch, clientMade, entered, portalUsed,
                   misread>>

Restart  == main = "restart" /\ Reboot
PowerCut == Reboot

SetupNext == \/ NvsInit \/ Load \/ ShowWizard \/ SavePress \/ Give \/ WizardDone
             \/ FetchPress \/ FetchReturn
             \/ PortalSave \/ SaveOpen \/ SaveKey \/ Restart \/ PowerCut

SetupSpec == SetupInit /\ [][SetupNext]_setupVars

-----------------------------------------------------------------------------
\* First provisioning is atomic (config.c:95-103, provisioned written last): a
\* terminal that boots past the wizard has all the values of one entry,
\* wherever power was lost in however many earlier attempts, whether or not the
\* wizard could be shown, and whenever NVS was erased; but for the portal, which
\* changes two of the four, a failing NVS, and a second Save during the first.
AllOrNothing ==
    main = "run" /\ ~portalUsed /\ ~mixed /\ ~misread =>
        \A a, b \in Typed : cfg[a] = cfg[b]

\* "On subsequent boots the setup wizard is skipped." (README.md:240): once a
\* save has got as far as the provisioned flag, also when a later save is cut
\* short or partly fails.  Two things bring it back: an NVS error on a load
\* (config.c:28-36,65), and a boot that erases the partition (app_main.c:92-97),
\* after which the promise starts again with the next save.
WizardOnce == saved /\ ~misread => main \notin {"lock", "wizard"}

\* "set `CONFIG_GROCY_PROVISIONED_BY_KCONFIG=y` to skip the wizard permanently"
\* (README.md:247).
KconfigPermanent == byKconfig /\ ~misread => main # "wizard"
=============================================================================
