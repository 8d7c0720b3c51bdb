---------------------------- MODULE PartsProofs -----------------------------
(***************************************************************************)
(* The configuration is that of one entry, whenever the power goes; and what *)
(* is proved of the HTTP client, the product list, the pictures, the       *)
(* configuration and the grid holds of the five put together, as MCParts   *)
(* checks them.                                                            *)
(***************************************************************************)
EXTENDS MCParts, GrocyClientProofs, ImageScaleProofs, ScreenProofs

-----------------------------------------------------------------------------
(* The configuration                                                       *)

\* config_save writes the provisioned flag last.
LEMMA SixKeys == Len(SaveOrder) = 6
BY DEF SaveOrder

LEMMA FlagIsLast ==
  /\ SaveOrder[6] = "provisioned"
  /\ \A j \in 1 .. 5 : SaveOrder[j] \in Keys \ {"provisioned"}
  /\ \A a \in Typed : \E j \in 1 .. 5 : SaveOrder[j] = a
  /\ Typed \subseteq Keys /\ "provisioned" \in Keys \ Typed
<1>1. Len(SaveOrder) = 6
  BY SixKeys
<1>2. /\ SaveOrder[1] = "wifi_ssid" /\ SaveOrder[2] = "wifi_pass" /\ SaveOrder[3] = "grocy_url"
      /\ SaveOrder[4] = "grocy_api_key" /\ SaveOrder[5] = "untyped"
      /\ SaveOrder[6] = "provisioned"
  BY DEF SaveOrder
<1>3. \A j \in 1 .. 5 : SaveOrder[j] # "provisioned" /\ SaveOrder[j] \in Keys
  BY <1>1, <1>2 DEF Keys
<1>4. \A a \in Typed : \E j \in 1 .. 5 : SaveOrder[j] = a
  BY <1>2 DEF Typed
<1>5. "provisioned" \in Keys
  BY <1>1, <1>2 DEF Keys
<1> QED
  BY <1>1, <1>2, <1>3, <1>4, <1>5 DEF Typed

LEMMA SetupStarts == SetupInit => SetupTypeOK
<1> SUFFICES ASSUME SetupInit PROVE SetupTypeOK
  OBVIOUS
<1>1. cfg \in [Keys -> Values] /\ nvs \in [Keys -> Values \cup {Absent}]
  BY EnteredAssumption DEF SetupInit, Zero, Values, Absent
<1>2. k \in 1 .. Len(SaveOrder) /\ entered \in 0 .. MaxEntered
  BY SixKeys, EnteredAssumption DEF SetupInit
<1>3. \A key \in Keys : nvs[key] = Absent
  BY DEF SetupInit
<1> QED
  BY <1>1, <1>2, <1>3 DEF SetupInit, SetupTypeOK

\* config_save writes to a namespace that it has opened.
Opened == main = "save" => ns = TRUE

\* A restart leaves what is in flash.
LEMMA RebootType == ASSUME SetupTypeOK, Reboot PROVE SetupTypeOK'
<1>1. cfg' \in [Keys -> Values]
  BY EnteredAssumption DEF Reboot, Zero, Values
<1>2. k' \in 1 .. Len(SaveOrder)
  BY SixKeys DEF Reboot
<1> QED
  BY <1>1, <1>2 DEF SetupTypeOK, Reboot, history

LEMMA SetupTypeStep == SetupTypeOK /\ Opened /\ [SetupNext]_setupVars => SetupTypeOK'
<1> SUFFICES ASSUME SetupTypeOK, Opened, [SetupNext]_setupVars PROVE SetupTypeOK'
  OBVIOUS
<1> USE DEF history
<1>1. CASE Load
  <2>1. Loaded \in [Keys -> Values]
    BY EnteredAssumption DEF SetupTypeOK, Loaded, Absent, Values
  <2>3. 0 \in Values
    BY EnteredAssumption DEF Values
  <2>4. \A key \in Keys : [Loaded EXCEPT ![key] = 0] \in [Keys -> Values]
    BY <2>1, <2>3
  <2>2. cfg' \in [Keys -> Values] /\ misread' \in BOOLEAN /\ main' \in {"run", "lock"}
    BY <1>1, <2>1, <2>4 DEF Load, SetupTypeOK
  <2> QED
    BY <1>1, <2>2 DEF Load, SetupTypeOK
<1>2. CASE SavePress
  <2>1. /\ entered' = entered + 1 /\ entered' \in 0 .. MaxEntered /\ lvgl' = "give"
        /\ mixed' \in BOOLEAN
        /\ UNCHANGED <<byKconfig, ns, nvs, main, k, sem, fetch, clientMade, saved, portalUsed,
                       misread>>
    <3>1. mixed' \in BOOLEAN /\ entered' = entered + 1 /\ entered < MaxEntered
      BY <1>2 DEF SavePress, SetupTypeOK
    <3> QED
      BY <1>2, <3>1, EnteredAssumption DEF SavePress, SetupTypeOK
  <2>2. cfg' \in [Keys -> Values]
    BY <1>2, <2>1 DEF SavePress, SetupTypeOK, Values
  <2> QED
    BY <2>1, <2>2 DEF SetupTypeOK
<1>3. CASE PortalSave
  <2>1. /\ entered' = entered + 1 /\ entered' \in 0 .. MaxEntered /\ main' = "open"
        /\ portalUsed' = TRUE
        /\ UNCHANGED <<byKconfig, ns, nvs, k, sem, lvgl, fetch, clientMade, saved, mixed, misread>>
    BY <1>3, EnteredAssumption DEF PortalSave, SetupTypeOK
  <2>2. cfg' \in [Keys -> Values]
    BY <1>3, <2>1 DEF PortalSave, SetupTypeOK, Values
  <2> QED
    BY <2>1, <2>2 DEF SetupTypeOK
<1>4. CASE SaveOpen
  <2>1. k' \in 1 .. Len(SaveOrder)
    BY <1>4, SixKeys DEF SaveOpen
  <2>2. ns' \in BOOLEAN /\ (~ns' => \A key \in Keys : nvs'[key] = Absent)
    BY <1>4 DEF SaveOpen, SetupTypeOK
  <2> QED
    BY <1>4, <2>1, <2>2 DEF SaveOpen, SetupTypeOK
<1>5. CASE SaveKey
  <2>1. SaveOrder[k] \in Keys
    BY DEF SetupTypeOK, Keys
  <2>2. nvs' \in [Keys -> Values \cup {Absent}] /\ saved' \in BOOLEAN /\ mixed' \in BOOLEAN
    BY <1>5, <2>1 DEF SaveKey, SetupTypeOK
  <2>3. k' \in 1 .. Len(SaveOrder) /\ main' \in {"save", "restart"}
    BY <1>5, SixKeys DEF SaveKey, SetupTypeOK
  <2>4. ns' = TRUE
    BY <1>5 DEF SaveKey, Opened
  <2> QED
    BY <1>5, <2>2, <2>3, <2>4 DEF SaveKey, SetupTypeOK
<1>6. CASE Give \/ FetchReturn \/ Restart \/ PowerCut
  BY <1>6, RebootType DEF Give, FetchReturn, Restart, PowerCut, SetupTypeOK
<1>7. CASE ShowWizard \/ WizardDone
  <2>1. /\ main' \in {"wizard", "open"} /\ sem' \in {"null", "empty", "given"}
        /\ UNCHANGED <<byKconfig, ns, nvs, cfg, k, lvgl, fetch, clientMade, entered, history>>
    BY <1>7 DEF ShowWizard, WizardDone, SetupTypeOK
  <2> QED
    BY <2>1 DEF SetupTypeOK
<1>9. CASE NvsInit
  <2>1. nvs' \in [Keys -> Values \cup {Absent}] /\ ns' \in BOOLEAN /\ saved' \in BOOLEAN
    BY <1>9 DEF NvsInit, SetupTypeOK
  <2>2. ~ns' => \A key \in Keys : nvs'[key] = Absent
    BY <1>9 DEF NvsInit, SetupTypeOK
  <2> QED
    BY <1>9, <2>1, <2>2 DEF NvsInit, SetupTypeOK
<1>8. CASE FetchPress \/ UNCHANGED setupVars
  <2>1. /\ fetch' \in BOOLEAN
        /\ UNCHANGED <<byKconfig, ns, nvs, cfg, main, k, sem, lvgl, clientMade, entered, history>>
    BY <1>8 DEF FetchPress, SetupTypeOK, setupVars, ramVars
  <2> QED
    BY <2>1 DEF SetupTypeOK
<1> QED
  BY <1>1, <1>2, <1>3, <1>4, <1>5, <1>6, <1>7, <1>8, <1>9 DEF SetupNext

LEMMA OpenedStep == Opened /\ [SetupNext]_setupVars => Opened'
<1> SUFFICES ASSUME Opened, [SetupNext]_setupVars PROVE Opened'
  OBVIOUS
<1>1. CASE main' # "save"
  BY <1>1 DEF Opened
<1>2. CASE main' = "save"
  BY <1>2 DEF Opened, SetupNext, NvsInit, Load, ShowWizard, SavePress, Give, WizardDone, FetchPress,
              FetchReturn, PortalSave, SaveOpen, SaveKey, Restart, PowerCut, Reboot,
              setupVars, ramVars
<1> QED
  BY <1>1, <1>2

\* Every key of the configuration, in RAM and in flash, holds an entry's number
\* or nothing, and a namespace that was never opened for writing is empty.
THEOREM SetupTypes == SetupSpec => []SetupTypeOK
<1>1. SetupInit => Opened
  BY DEF SetupInit, Opened
<1> QED
  BY <1>1, SetupStarts, SetupTypeStep, OpenedStep, PTL DEF SetupSpec

-----------------------------------------------------------------------------
\* Nothing has happened that a save is not proof against.
Clean == ~portalUsed /\ ~mixed /\ ~misread

OneEntry(c) == \A a, b \in Typed : c[a] = c[b]

\* As long as nothing of that kind happens: a configuration with the flag has
\* all its values from one entry, in RAM and in flash; config_save has written
\* the keys before k; and once the flag is in flash nothing is saved again.
EntryInv ==
    Clean =>
        /\ cfg["provisioned"] = 1 => OneEntry(cfg)
        /\ nvs["provisioned"] = 1 => OneEntry(nvs)
        /\ nvs["provisioned"] = 1 => main \in {"nvs", "load", "run", "restart"}
        /\ main = "save" => \A j \in 1 .. k - 1 : nvs[SaveOrder[j]] = cfg[SaveOrder[j]]
        /\ main = "run" => cfg["provisioned"] = 1

\* The flag stays in flash once it is there, and so does what it says.
FlagInv ==
    saved /\ ~misread =>
        /\ nvs["provisioned"] = 1 /\ main \notin {"lock", "wizard"}
        /\ main \in {"open", "save"} => cfg["provisioned"] = 1

LEMMA LoadKeepsEntry == SetupTypeOK /\ EntryInv /\ Load => EntryInv'
<1> SUFFICES ASSUME SetupTypeOK, EntryInv, Load, Clean' PROVE EntryInv'
  BY DEF EntryInv
<1>1. /\ cfg' = Loaded /\ nvs' = nvs /\ main' = IF cfg'["provisioned"] = 1 THEN "run" ELSE "lock"
      /\ Clean
  BY DEF Load, Clean
<1>2. "provisioned" \in Keys \ Typed /\ Typed \subseteq Keys
  BY FlagIsLast
<1>3. CASE ns
  <2>1. \A key \in Keys : cfg'[key] = IF nvs[key] # Absent THEN nvs[key] ELSE 0
    BY <1>1, <1>3 DEF Loaded
  <2>2. cfg'["provisioned"] = 1 <=> nvs["provisioned"] = 1
    BY <1>2, <2>1 DEF Absent
  <2>3. nvs["provisioned"] = 1 => OneEntry(nvs)
    BY <1>1 DEF EntryInv
  <2>4. OneEntry(nvs) => OneEntry(cfg')
    BY <1>2, <2>1 DEF OneEntry
  <2> QED
    BY <1>1, <2>2, <2>3, <2>4 DEF EntryInv
<1>4. CASE ~ns
  <2>1. \A key \in Keys : cfg'[key] = IF key = "provisioned" /\ byKconfig THEN 1 ELSE 0
    BY <1>1, <1>4 DEF Loaded
  <2>2. OneEntry(cfg')
    BY <1>2, <2>1 DEF OneEntry
  <2>3. nvs["provisioned"] # 1
    BY <1>2, <1>4 DEF SetupTypeOK, Absent
  <2> QED
    BY <1>1, <2>2, <2>3 DEF EntryInv
<1> QED
  BY <1>3, <1>4 DEF SetupTypeOK

\* One nvs_set: the flag is written after all the keys of the entry.
LEMMA SaveKeepsEntry == SetupTypeOK /\ EntryInv /\ SaveKey => EntryInv'
<1> SUFFICES ASSUME SetupTypeOK, EntryInv, SaveKey, Clean' PROVE EntryInv'
  BY DEF EntryInv
<1>1. /\ Clean /\ main = "save" /\ cfg' = cfg /\ k \in 1 .. 6
      /\ nvs' = [nvs EXCEPT ![SaveOrder[k]] = cfg[SaveOrder[k]]]
      /\ IF k < 6 THEN k' = k + 1 /\ main' = "save" ELSE main' = "restart" /\ k' = k
  BY SixKeys DEF SaveKey, Clean, SetupTypeOK
<1>2. /\ cfg["provisioned"] = 1 => OneEntry(cfg)
      /\ nvs["provisioned"] # 1
      /\ \A j \in 1 .. k - 1 : nvs[SaveOrder[j]] = cfg[SaveOrder[j]]
  BY <1>1 DEF EntryInv
<1>3. /\ \A j \in 1 .. 6 : SaveOrder[j] \in Keys
      /\ \A key \in Keys : nvs'[key] = IF key = SaveOrder[k] THEN cfg[key] ELSE nvs[key]
  BY <1>1, SixKeys DEF SetupTypeOK, Keys
<1>4. \A j \in 1 .. k : nvs'[SaveOrder[j]] = cfg'[SaveOrder[j]]
  BY <1>1, <1>2, <1>3
<1>5. CASE k < 6
  <2>1. nvs'["provisioned"] = nvs["provisioned"]
    BY <1>1, <1>3, <1>5, FlagIsLast
  <2> QED
    BY <1>1, <1>2, <1>4, <1>5, <2>1 DEF EntryInv
<1>6. CASE k = 6
  <2>1. nvs'["provisioned"] = cfg["provisioned"] /\ \A a \in Typed : nvs'[a] = cfg[a]
    BY <1>1, <1>4, <1>6, FlagIsLast
  <2>2. nvs'["provisioned"] = 1 => OneEntry(nvs')
    BY <1>2, <2>1 DEF OneEntry
  <2> QED
    BY <1>1, <1>2, <1>6, <2>2 DEF EntryInv
<1> QED
  BY <1>1, <1>5, <1>6

LEMMA EntryStep == SetupTypeOK /\ EntryInv /\ [SetupNext]_setupVars => EntryInv'
<1> SUFFICES ASSUME SetupTypeOK, EntryInv, [SetupNext]_setupVars PROVE EntryInv'
  OBVIOUS
<1>1. CASE Load
  BY <1>1, LoadKeepsEntry
<1>2. CASE SaveKey
  BY <1>2, SaveKeepsEntry
<1>3. CASE Reboot
  <2>1. cfg' = Zero /\ nvs' = nvs /\ main' = "nvs" /\ (Clean' <=> Clean)
    BY <1>3 DEF Reboot, Clean, history
  <2>2. cfg'["provisioned"] = 0
    BY <2>1, FlagIsLast DEF Zero
  <2> QED
    BY <2>1, <2>2 DEF EntryInv
<1>4. CASE SavePress
  <2> SUFFICES ASSUME Clean' PROVE EntryInv'
    BY DEF EntryInv
  <2>1. Clean /\ main = "wizard" /\ main' = main /\ nvs' = nvs
    BY <1>4 DEF SavePress, Clean
  <2>2. OneEntry(cfg')
    BY <1>4, FlagIsLast DEF SavePress, OneEntry
  <2> QED
    BY <2>1, <2>2 DEF EntryInv
<1>5. CASE SaveOpen
  <2>1. /\ main = "open" /\ main' \in {"save", "restart"} /\ cfg' = cfg /\ nvs' = nvs /\ k' = 1
        /\ (Clean' <=> Clean)
    BY <1>5 DEF SaveOpen, Clean, history
  <2> QED
    BY <2>1 DEF EntryInv
<1>6. CASE PortalSave
  BY <1>6 DEF PortalSave, EntryInv, Clean
<1>7. CASE ShowWizard \/ WizardDone
  <2>1. /\ main \in {"lock", "wizard"} /\ main' \in {"wizard", "open"} /\ cfg' = cfg /\ nvs' = nvs
        /\ (Clean' <=> Clean)
    BY <1>7 DEF ShowWizard, WizardDone, Clean, history
  <2> QED
    BY <2>1 DEF EntryInv
<1>8. CASE UNCHANGED <<cfg, nvs, main, k, history>>
  BY <1>8 DEF EntryInv, Clean, history
<1>9. CASE NvsInit
  <2>1. /\ main' = "load" /\ cfg' = cfg /\ (Clean' <=> Clean)
        /\ nvs' = nvs \/ nvs' = [key \in Keys |-> Absent]
    BY <1>9 DEF NvsInit, Clean
  <2>2. nvs' = nvs \/ nvs'["provisioned"] = -1
    BY <2>1, FlagIsLast DEF Absent
  <2> QED
    BY <2>1, <2>2 DEF EntryInv, OneEntry
<1> QED
  BY <1>1, <1>2, <1>3, <1>4, <1>5, <1>6, <1>7, <1>8, <1>9
     DEF SetupNext, Give, FetchPress, FetchReturn, Restart, PowerCut, setupVars, ramVars

LEMMA FlagStep == SetupTypeOK /\ FlagInv /\ [SetupNext]_setupVars => FlagInv'
<1> SUFFICES ASSUME SetupTypeOK, FlagInv, [SetupNext]_setupVars, saved', ~misread'
             PROVE  FlagInv'
  BY DEF FlagInv
<1>1. CASE SaveKey
  <2>1. /\ main = "save" /\ cfg' = cfg /\ k \in 1 .. 6 /\ ~misread
        /\ IF k < 6 THEN main' = "save" ELSE main' = "restart"
    BY <1>1, SixKeys DEF SaveKey, SetupTypeOK
  <2>2. CASE nvs' = nvs /\ saved' = saved
    BY <2>1, <2>2 DEF FlagInv
  <2>3. CASE nvs' = [nvs EXCEPT ![SaveOrder[k]] = cfg[SaveOrder[k]]]
             /\ saved' = (saved \/ (SaveOrder[k] = "provisioned" /\ cfg["provisioned"] = 1))
    <3>1. nvs'["provisioned"] = IF SaveOrder[k] = "provisioned" THEN cfg["provisioned"]
                                                               ELSE nvs["provisioned"]
      BY <2>3, FlagIsLast DEF SetupTypeOK
    <3>2. SaveOrder[k] = "provisioned" => k = 6
      BY <2>1, FlagIsLast
    <3> QED
      BY <2>1, <2>3, <3>1, <3>2 DEF FlagInv
  <2> QED
    BY <1>1, <2>2, <2>3 DEF SaveKey
<1>2. saved \/ SaveKey
  BY DEF SetupNext, NvsInit, Load, ShowWizard, SavePress, Give, WizardDone, FetchPress, FetchReturn,
         PortalSave, SaveOpen, Restart, PowerCut, Reboot, setupVars, history
<1>3. CASE Load /\ saved
  <2>1. /\ nvs["provisioned"] = 1 /\ cfg' = Loaded /\ nvs' = nvs
        /\ main' = IF cfg'["provisioned"] = 1 THEN "run" ELSE "lock"
    BY <1>3 DEF Load, FlagInv
  <2>2. ns
    BY <2>1, FlagIsLast DEF SetupTypeOK, Absent
  <2>3. cfg'["provisioned"] = 1
    BY <2>1, <2>2, FlagIsLast DEF Loaded, Absent
  <2> QED
    BY <2>1, <2>3 DEF FlagInv
<1>4. CASE Reboot /\ saved
  BY <1>4 DEF Reboot, FlagInv, history
<1>5. CASE SavePress /\ saved
  <2>1. nvs' = nvs /\ main' = main /\ ~misread
    BY <1>5 DEF SavePress
  <2>2. cfg'["provisioned"] = 1
    BY <1>5, FlagIsLast DEF SavePress
  <2> QED
    BY <1>5, <2>1, <2>2 DEF FlagInv
<1>6. CASE PortalSave /\ saved
  <2>1. nvs' = nvs /\ main' = "open" /\ ~misread
    BY <1>6 DEF PortalSave
  <2>2. cfg'["provisioned"] = 1
    BY <1>6, FlagIsLast DEF PortalSave, SetupTypeOK
  <2> QED
    BY <1>6, <2>1, <2>2 DEF FlagInv
<1>7. CASE (ShowWizard \/ WizardDone \/ SaveOpen) /\ saved
  <2>1. ~misread /\ nvs' = nvs /\ cfg' = cfg
    BY <1>7 DEF ShowWizard, WizardDone, SaveOpen, history
  <2>2. main = "open" /\ main' \in {"save", "restart"}
    BY <1>7, <2>1 DEF ShowWizard, WizardDone, SaveOpen, FlagInv
  <2> QED
    BY <1>7, <2>1, <2>2 DEF FlagInv
<1>8. CASE UNCHANGED <<cfg, nvs, main, history>>
  BY <1>8 DEF FlagInv, history
<1>9. CASE NvsInit
  <2>1. main' = "load" /\ nvs' = nvs /\ saved /\ ~misread
    BY <1>9 DEF NvsInit
  <2> QED
    BY <2>1 DEF FlagInv
<1> QED
  BY <1>1, <1>2, <1>3, <1>4, <1>5, <1>6, <1>7, <1>8, <1>9
     DEF SetupNext, Give, FetchPress, FetchReturn, Restart, PowerCut, setupVars, ramVars

\* A terminal that boots past the wizard has all the values of one entry,
\* wherever power was lost in whatever number of attempts (config.c:95-103).
THEOREM FirstSaveIsWhole == SetupSpec => []AllOrNothing
<1>1. SetupInit => EntryInv
  BY FlagIsLast DEF SetupInit, EntryInv, Zero, Absent
<1>2. EntryInv => AllOrNothing
  BY DEF EntryInv, AllOrNothing, Clean, OneEntry
<1> QED
  BY <1>1, <1>2, EntryStep, SetupTypes, PTL DEF SetupSpec

\* "On subsequent boots the setup wizard is skipped." (README.md:240), whatever
\* later saves were cut short or failed in part, until an NVS error on a load or a
\* boot that erases the partition (app_main.c:92-97).
THEOREM WizardIsOver == SetupSpec => []WizardOnce
<1>1. SetupInit => FlagInv
  BY DEF SetupInit, FlagInv
<1>2. FlagInv => WizardOnce
  BY DEF FlagInv, WizardOnce
<1> QED
  BY <1>1, <1>2, FlagStep, SetupTypes, PTL DEF SetupSpec

-----------------------------------------------------------------------------
(* The parts together                                                      *)

\* The part that was chosen takes its own steps, and the others none.
LEMMA PartSteps ==
  [Next]_partsVars => /\ [HttpNext]_httpVars /\ [ListNext]_listVars /\ [ScaleNext]_scaleVars
                      /\ [SetupNext]_setupVars /\ [GridNext]_uigridVars
  BY DEF Next, partsVars, ListReturned

\* MCParts implements the specification of each of its five parts, so that what
\* its run shows of a part in its bounds is what the theorems say without them
\* (grocy_client.c, grocy_image_cache.c, config.c, ui_main.c share no state).
THEOREM PartsBehave ==
  Spec => HttpSpec /\ ListSpec /\ ScaleSpec /\ SetupSpec /\ GridSpec
<1>1. Init => HttpInit /\ ListInit /\ ScaleInit /\ SetupInit /\ GridInit
  BY DEF Init
<1> QED
  BY <1>1, PartSteps, PTL DEF Spec, HttpSpec, ListSpec, ScaleSpec, SetupSpec, GridSpec

\* The types of all five parts: among them that every integer of the scaler stays
\* in its width (grocy_image_cache.c:198-268), that the body has room for its
\* terminator (grocy_client.c:37-65), and that what flash holds of a key is an
\* entry's value or nothing (config.c:40-105).
THEOREM PartsTyped == Spec => []PartsTypeOK
<1>1. HttpTypeOK /\ ListTypeOK /\ ScaleTypeOK /\ SetupTypeOK /\ GridTypeOK => PartsTypeOK
  BY DEF PartsTypeOK
<1> QED
  BY <1>1, PartsBehave, HttpTypes, ListTypes, ScaleTypes, SetupTypes, GridTypes, PTL
=============================================================================
