------------------------------ MODULE OtaTask ------------------------------
(***************************************************************************)
(* Firmware updates: the loop of ota_task_fn, the manifest's body and the  *)
(* version comparison (ota_manifest.c), over what ESP-IDF does with the    *)
(* two application slots.  sdkconfig.defaults enables the bootloader's     *)
(* rollback, and nothing in the firmware marks an image as valid.          *)
(* The manifest names a version and a URL; what is at the URL is nowhere   *)
(* compared with what the manifest says of it.                             *)
(* The power may be lost, and requests and downloads fail, at any point.   *)
(***************************************************************************)
EXTENDS Integers, Sequences

CONSTANTS
    Releases,    \* [ver, good]: an image, its version, whether it can run
    Factory,     \* the release the terminal was flashed with
    BufSize,     \* MANIFEST_BUF_SIZE
    Chunks,      \* lengths of the pieces a manifest may arrive in
    MaxChunks, MaxCuts   \* bounds

ASSUME ReleaseAssumption ==
    /\ \A r \in Releases : r.ver \in Seq(Nat) /\ Len(r.ver) <= 3 /\ r.good \in BOOLEAN
    /\ Factory \in Releases /\ Factory.good
ASSUME BufAssumption == /\ BufSize \in Nat \ {0} /\ Chunks \subseteq Nat
                        /\ MaxChunks \in Nat /\ MaxCuts \in Nat

VARIABLES
    slots,      \* ota_0 and ota_1
    boot,       \* the slot otadata selects
    running,    \* the slot that was booted
    otaPc,      \* where ota_task_fn is
    body,       \* manifest_body_t: its length, pieces seen, whether one was skipped
    manifest,   \* the release it announced
    published,  \* what the server's manifest says now
    served,     \* the image that is at its URL now
    cuts        \* power cuts so far

devVars == <<slots, boot, running>>
server  == <<published, served>>
otaVars == <<devVars, otaPc, body, manifest, server, cuts>>

States  == {"undefined", "new", "pending", "aborted"}   \* of an image, in otadata
NoBody  == [len |-> 0, seen |-> 0, holed |-> FALSE]
Other   == 1 - running
Current == slots[running].rel

OtaTypeOK ==
    /\ slots \in [{0, 1} -> [rel : Releases, whole : BOOLEAN, state : States]]
    /\ boot \in {0, 1} /\ running \in {0, 1}
    /\ otaPc \in {"delay", "body", "compare", "begin", "write", "restart"}
    /\ body \in [len : 0 .. BufSize - 1, seen : 0 .. MaxChunks, holed : BOOLEAN]
    /\ manifest \in Releases /\ published \in Releases /\ served \in Releases
    /\ cuts \in 0 .. MaxCuts

OtaInit ==
    /\ slots = [i \in {0, 1} |-> [rel |-> Factory, whole |-> i = 0, state |-> "undefined"]]
    /\ boot = 0 /\ running = 0
    /\ otaPc = "delay" /\ body = NoBody
    /\ manifest = Factory /\ published \in Releases /\ served \in Releases
    /\ cuts = 0

-----------------------------------------------------------------------------
(* ota_semver_compare                                                      *)

\* sscanf("%d.%d.%d") leaves a part that is not there at 0.
Part(v, i) == IF i <= Len(v) THEN v[i] ELSE 0

\* Mutated Compare: the parts are compared as one number each.
CompareSum(a, b) == (Part(a, 1) + Part(a, 2) + Part(a, 3))
                    - (Part(b, 1) + Part(b, 2) + Part(b, 3))

Compare(a, b) ==
    IF Part(a, 1) # Part(b, 1) THEN Part(a, 1) - Part(b, 1)
    ELSE IF Part(a, 2) # Part(b, 2) THEN Part(a, 2) - Part(b, 2)
    ELSE Part(a, 3) - Part(b, 3)

-----------------------------------------------------------------------------
(* The task                                                                *)

\* Mutated Poll: the body is static and never cleared.
PollKeepsBody == /\ otaPc = "delay" /\ Current.good
                 /\ otaPc' = "body"
                 /\ UNCHANGED <<devVars, body, manifest, server, cuts>>

\* The interval is over: a request for the manifest is made.
Poll == /\ otaPc = "delay" /\ Current.good
        /\ otaPc' = "body" /\ body' = NoBody
        /\ UNCHANGED <<devVars, manifest, server, cuts>>

\* Mutated Fits: no room is kept for the terminator.
FitsExactly(n) == body.len + n <= BufSize

Fits(n) == body.len + n < BufSize

\* manifest_event_handler: a piece that does not fit is left out, and the next
\* one is appended if it does.
Chunk(n) ==
    /\ otaPc = "body" /\ body.seen < MaxChunks
    /\ body' = [len   |-> IF Fits(n) THEN body.len + n ELSE body.len,
                seen  |-> body.seen + 1,
                holed |-> body.holed \/ ~Fits(n)]
    /\ UNCHANGED <<devVars, otaPc, manifest, server, cuts>>

\* The request, the status, the JSON or a field of it is not right.
FetchFails ==
    /\ otaPc = "body" /\ otaPc' = "delay"
    /\ UNCHANGED <<devVars, body, manifest, server, cuts>>

\* A body with a hole in it may still be JSON, of another version.
FetchOk(r) ==
    /\ otaPc = "body" /\ otaPc' = "compare"
    /\ body.holed \/ r = published
    /\ manifest' = r
    /\ UNCHANGED <<devVars, body, server, cuts>>

IsNewer == Compare(manifest.ver, Current.ver) > 0

UpToDate ==
    /\ otaPc = "compare" /\ ~IsNewer /\ otaPc' = "delay"
    /\ UNCHANGED <<devVars, body, manifest, server, cuts>>

Update ==
    /\ otaPc = "compare" /\ IsNewer /\ otaPc' = "begin"
    /\ UNCHANGED <<devVars, body, manifest, server, cuts>>

\* esp_ota_begin refuses while the running image is not confirmed.
BeginRefused ==
    /\ otaPc = "begin" /\ slots[running].state = "pending"
    /\ otaPc' = "delay"
    /\ UNCHANGED <<devVars, body, manifest, server, cuts>>

\* Mutated Begin: the slots are switched before the image is there.
BeginSwitches ==
    /\ otaPc = "begin" /\ slots[running].state # "pending"
    /\ otaPc' = "write"
    /\ slots' = [slots EXCEPT ![Other].whole = FALSE]
    /\ boot' = Other
    /\ UNCHANGED <<running, body, manifest, server, cuts>>

\* The slot that is not running is erased.
Begin ==
    /\ otaPc = "begin" /\ slots[running].state # "pending"
    /\ otaPc' = "write"
    /\ slots' = [slots EXCEPT ![Other].whole = FALSE]
    /\ UNCHANGED <<boot, running, body, manifest, server, cuts>>

\* The download or the verification of the image fails: ota_failed.
WriteFails ==
    /\ otaPc = "write" /\ otaPc' = "delay"
    /\ UNCHANGED <<devVars, body, manifest, server, cuts>>

\* The image at the URL is complete and verified, whichever it is, and the next
\* boot is from it.
WriteDone ==
    /\ otaPc = "write" /\ otaPc' = "restart"
    /\ slots' = [slots EXCEPT ![Other] = [rel |-> served, whole |-> TRUE, state |-> "new"]]
    /\ boot' = Other
    /\ UNCHANGED <<running, body, manifest, server, cuts>>

-----------------------------------------------------------------------------
(* Restarts                                                                *)

\* Mutated Bootloader: an image that was tried is tried for ever.
BootloaderKeeps ==
    /\ running' = boot /\ boot' = boot
    /\ slots' = IF slots[boot].state = "new"
                   THEN [slots EXCEPT ![boot].state = "pending"] ELSE slots

\* The bootloader with CONFIG_BOOTLOADER_APP_ROLLBACK_ENABLE: a new image gets
\* one boot to be confirmed in; at the next one the other slot is taken.
Bootloader ==
    CASE slots[boot].state = "new" ->
           /\ slots' = [slots EXCEPT ![boot].state = "pending"]
           /\ running' = boot /\ boot' = boot
      [] slots[boot].state = "pending" ->
           /\ slots' = [slots EXCEPT ![boot].state = "aborted"]
           /\ running' = 1 - boot /\ boot' = 1 - boot
      [] OTHER -> slots' = slots /\ running' = boot /\ boot' = boot

Booted == Bootloader /\ otaPc' = "delay" /\ body' = NoBody /\ UNCHANGED <<manifest, server>>

\* esp_restart, half a second after ota_complete
OtaRestart  == otaPc = "restart" /\ Booted /\ UNCHANGED cuts

\* An image that cannot run panics before its first poll.
Crash    == ~Current.good /\ Booted /\ UNCHANGED cuts

OtaPowerCut == cuts < MaxCuts /\ Booted /\ cuts' = cuts + 1

\* A release is two uploads, in either order; either may be forgotten.
Release(r) == /\ \/ published' = r /\ UNCHANGED served
                 \/ served' = r /\ UNCHANGED published
              /\ UNCHANGED <<devVars, otaPc, body, manifest, cuts>>

-----------------------------------------------------------------------------
FetchAny   == \E r \in Releases : FetchOk(r)
FetchWhole == ~body.holed /\ FetchOk(published)

Task == \/ Poll \/ FetchFails \/ FetchAny \/ UpToDate \/ Update \/ BeginRefused
        \/ Begin \/ WriteFails \/ WriteDone \/ OtaRestart
        \/ \E n \in Chunks : Chunk(n)

OtaNext == Task \/ Crash \/ OtaPowerCut \/ \E r \in Releases : Release(r)

OtaSpec == OtaInit /\ [][OtaNext]_otaVars

\* The task runs; a manifest that is asked for for ever arrives in one piece at
\* last, and so does an image.
OtaFairness ==
    /\ WF_otaVars(Task)
    /\ WF_otaVars(Crash)
    /\ SF_otaVars(FetchWhole)
    /\ SF_otaVars(WriteDone)

OtaFairSpec == OtaSpec /\ OtaFairness

-----------------------------------------------------------------------------
\* Whenever the power goes, in the middle of a download, after the switch of
\* slots or on the boot that undoes it, the image that is booted next is whole
\* (ota_task.c:54-61).
NextBoot == IF slots[boot].state = "pending" THEN 1 - boot ELSE boot
BootsWhole == slots[running].whole /\ slots[NextBoot].whole

\* "OTA should not apply when manifest is same or older"
\* (test_ota_semver.c:47): the terminal restarts into another image only when the
\* manifest it had read announced a version after the running one's in the order
\* of the three parts, though other releases come meanwhile.  That is all: the
\* image itself is newer if it is the one announced, and an older one at the URL
\* is installed all the same (ota_task.c:46-54), time and again.
Newer(a, b) == \E i \in 1 .. 3 : /\ Part(a, i) > Part(b, i)
                                 /\ \A j \in 1 .. i - 1 : Part(a, j) = Part(b, j)
InstallsNewer ==
    otaPc = "restart" => Newer(manifest.ver, Current.ver)

\* An image that cannot run never keeps the terminal (README.md:212, "automatic
\* rollback"): it is back on one that can, again and again.
Recovers == []<>Current.good

\* Once the server has the same release for good, in the manifest and at its URL,
\* the terminal ends up with that version or a newer one, or with an image it has
\* not confirmed.
CatchesUp ==
    \A r \in Releases :
        <>[](published = r /\ served = r) =>
            []<>(~Newer(r.ver, Current.ver) \/ slots[running].state = "pending")


=============================================================================
