----------------------------- MODULE SecureBoot -----------------------------
(***************************************************************************)
(* The immutable bootloader (samples/bootloader, NSIB) with the validation  *)
(* library (subsys/bootloader/bl_validation), the bootloader storage and    *)
(* the choice of the slot an update is made for (fota_download,             *)
(* tfm_platform_s0_active).  Two slots hold an image each.  After a reset   *)
(* main tries the newer one first; an image that fails validation is        *)
(* invalidated for good; one that passes revokes the keys listed before     *)
(* its own, records its version in the counter and is started.  Power may   *)
(* be lost between any two writes.                                          *)
(*                                                                          *)
(* External to the repository: MCUboot, the second stage, which copies a    *)
(* downloaded image into the slot it is linked for, and a programming tool  *)
(* that rewrites a slot while the device is in service.                     *)
(***************************************************************************)
EXTENDS BlStorage, Sequences

CONSTANTS
    MaxVersion,       \* versions of images are 1 .. MaxVersion
    NonSecure,        \* CONFIG_TRUSTED_EXECUTION_NONSECURE: which s0_active
    ResetAfterCopy,   \* the second stage resets when it has copied an image
    ApisUnmet,        \* a downloaded image may require an EXT_API that the
                      \* bootloader does not provide
    MaxUpdates,       \* bound: images downloaded
    MaxLosses,        \* bound: power losses in the middle of something
    MaxServices       \* bound: slots rewritten by a programming tool

ASSUME SecureBootAssumption ==
    /\ MaxVersion \in Nat \ {0}
    /\ 2 * MaxVersion + 1 < CounterMod      \* set_monotonic_version's __ASSERT
    /\ NonSecure \in BOOLEAN
    /\ ResetAfterCopy \in BOOLEAN
    /\ ApisUnmet \in BOOLEAN
    /\ {MaxUpdates, MaxLosses, MaxServices} \subseteq Nat

VARIABLES
    slot,      \* the flash of S0 and S1, as fw_info and the signature show it
    pc,        \* where the boot chain is
    try,       \* the slots main has still to attempt, the current one first
    idx,       \* validate_signature's loop: the next key to invalidate
    staged,    \* the downloaded image in the secondary partition
    running,   \* the slot bl_boot jumped to
    booted,    \* history: version and key of every image started so far
    room,      \* history: set_monotonic_version never lacked a counter slot
    updates, losses, services    \* counters of the bounds

bootVars == <<counter, keyValid, slot, pc, try, idx, staged, running, booted,
              room, updates, losses, services>>

Slots == {0, 1}
None == 2

\* What a flash slot shows: found, fw_info_find finds the structure; valid,
\* fw_info.valid is CONFIG_FW_INFO_VALID_VAL; good, every other check up to
\* the signature by key passes; apis, the EXT_APIs it requires are provided.
\* Key NumKeys is one that is not provisioned.
Contents == [found : BOOLEAN, valid : BOOLEAN, good : BOOLEAN, apis : BOOLEAN,
             version : 0 .. MaxVersion, key : 0 .. NumKeys]
Blank == [found |-> FALSE, valid |-> FALSE, good |-> FALSE, apis |-> FALSE,
          version |-> 0, key |-> 0]
Image(v, k, g, a) ==
    [found |-> TRUE, valid |-> TRUE, good |-> g, apis |-> a, version |-> v, key |-> k]
\* An image that is not good gets neither as far as its key nor to its EXT_APIs.
Images ==
    {i \in [found : {TRUE}, valid : {TRUE}, good : BOOLEAN, apis : BOOLEAN,
            version : 1 .. MaxVersion, key : 0 .. NumKeys] :
        /\ ~i.good => i.key = 0 /\ i.apis
        /\ ~i.apis => i.key \in Keys}

NoUpdate == [target |-> None, image |-> Blank]
Updates == {NoUpdate} \cup [target : Slots, image : Images]

Pcs == {"RESET", "VALIDATE", "INVALIDATE", "REVOKE", "RECORD", "BOOT", "ABORTED",
        "SECOND_STAGE", "ERASED", "PARTIAL", "RUNNING"}

-----------------------------------------------------------------------------
\* bl_validation

\* A plausible error: the shift is one too wide.
CounterWide(version, s) == 4 * version + (1 - s)
\* The counter holds the version and, inverted, the slot.
CounterOf(version, s) == (2 * version + (1 - s)) % CounterMod

set_monotonic_version(version, s) == set_monotonic_counter(CounterOf(version, s))

get_monotonic_version == get_monotonic_counter \div 2

\* A plausible error: the version is not compared with the counter.
ValidateAnyVersion(s) ==
    /\ slot[s].valid
    /\ slot[s].good
    /\ key_is_valid(slot[s].key)

validate_firmware(s) ==
    /\ slot[s].valid
    /\ slot[s].version >= get_monotonic_version
    /\ slot[s].good
    /\ key_is_valid(slot[s].key)

-----------------------------------------------------------------------------
\* main and validate_and_boot of the bootloader

\* A plausible error: S0 is always tried first.
OrdersS0First == {<<0, 1>>}

\* The order main tries the slots in.  s0_info is dereferenced without a
\* check when only S1 holds an image: either order may result.
BootOrders ==
    IF ~slot[1].found \/ (slot[0].found /\ slot[0].version >= slot[1].version)
    THEN {<<0, 1>>}
    ELSE {<<1, 0>>} \cup (IF slot[0].found THEN {} ELSE {<<0, 1>>})

main ==
    /\ pc = "RESET"
    /\ try' \in BootOrders
    /\ pc' = "VALIDATE"
    /\ UNCHANGED <<counter, keyValid, slot, idx, staged, running, booted, room,
                   updates, losses, services>>

\* validate_and_boot returned: main goes on to the other slot, or gives up.
TryNext ==
    /\ try' = Tail(try)
    /\ pc' = IF Tail(try) = << >> THEN "ABORTED" ELSE "VALIDATE"

NoFwInfo ==
    /\ pc = "VALIDATE"
    /\ ~slot[Head(try)].found
    /\ TryNext
    /\ UNCHANGED <<counter, keyValid, slot, idx, staged, running, booted, room,
                   updates, losses, services>>

bl_validate_firmware_local ==
    /\ pc = "VALIDATE"
    /\ slot[Head(try)].found
    /\ pc' = IF validate_firmware(Head(try)) THEN "REVOKE" ELSE "INVALIDATE"
    /\ idx' = 0
    /\ UNCHANGED <<counter, keyValid, slot, try, staged, running, booted, room,
                   updates, losses, services>>

\* "Failed to validate, permanently invalidating!"
fw_info_invalidate ==
    /\ pc = "INVALIDATE"
    /\ slot' = [slot EXCEPT ![Head(try)].valid = FALSE]
    /\ TryNext
    /\ UNCHANGED <<counter, keyValid, idx, staged, running, booted, room,
                   updates, losses, services>>

\* A plausible error: the loop leaves the key before the matching one.
InvalidateKeysBut ==
    /\ pc = "REVOKE"
    /\ IF idx + 1 < slot[Head(try)].key
       THEN /\ invalidate_public_key(idx)
            /\ idx' = idx + 1
            /\ pc' = pc
       ELSE /\ pc' = "RECORD"
            /\ UNCHANGED <<keyValid, idx>>
    /\ UNCHANGED <<counter, slot, try, staged, running, booted, room, updates, losses, services>>

\* validate_signature, once key matched: one earlier key in each step.
InvalidateKeys ==
    /\ pc = "REVOKE"
    /\ IF idx < slot[Head(try)].key
       THEN /\ invalidate_public_key(idx)
            /\ idx' = idx + 1
            /\ pc' = pc
       ELSE /\ pc' = "RECORD"
            /\ UNCHANGED <<keyValid, idx>>
    /\ UNCHANGED <<counter, slot, try, staged, running, booted, room, updates, losses, services>>

\* The error of set_monotonic_version is ignored.
RecordVersion ==
    /\ pc = "RECORD"
    /\ pc' = "BOOT"
    /\ IF slot[Head(try)].version > get_monotonic_version
       THEN set_monotonic_version(slot[Head(try)].version, Head(try))
       ELSE UNCHANGED counter
    /\ room' = (room /\ (slot[Head(try)].version > get_monotonic_version => FreeSlots # {}))
    /\ UNCHANGED <<keyValid, slot, try, idx, staged, running, booted,
                   updates, losses, services>>

\* bl_boot returns, and main goes on, if an EXT_API is not provided.
bl_boot ==
    /\ pc = "BOOT"
    /\ \/ /\ slot[Head(try)].apis
          /\ running' = Head(try)
          /\ booted' = booted \cup {[version |-> slot[Head(try)].version,
                                    key |-> slot[Head(try)].key]}
          /\ pc' = "SECOND_STAGE"
          /\ try' = << >>
       \/ /\ ~slot[Head(try)].apis
          /\ TryNext
          /\ UNCHANGED <<running, booted>>
    /\ idx' = 0
    /\ UNCHANGED <<counter, keyValid, slot, staged, room, updates, losses, services>>

-----------------------------------------------------------------------------
\* The second stage (external): copies the downloaded image into its slot.

CopyErases ==
    /\ pc = "SECOND_STAGE"
    /\ staged # NoUpdate
    /\ slot' = [slot EXCEPT ![staged.target] = Blank]
    /\ pc' = "ERASED"
    /\ UNCHANGED <<counter, keyValid, try, idx, staged, running, booted, room,
                   updates, losses, services>>

\* fw_info lies near the start: it is there before the image is whole.
CopyWritesInfo ==
    /\ pc = "ERASED"
    /\ slot' = [slot EXCEPT ![staged.target] = [staged.image EXCEPT !.good = FALSE]]
    /\ pc' = "PARTIAL"
    /\ UNCHANGED <<counter, keyValid, try, idx, staged, running, booted, room,
                   updates, losses, services>>

CopyEnds ==
    /\ pc = "PARTIAL"
    /\ slot' = [slot EXCEPT ![staged.target] = staged.image]
    /\ staged' = NoUpdate
    /\ IF ResetAfterCopy
       THEN pc' = "RESET" /\ running' = None
       ELSE pc' = "RUNNING" /\ running' = running
    /\ UNCHANGED <<counter, keyValid, try, idx, booted, room, updates, losses, services>>

StartApplication ==
    /\ pc = "SECOND_STAGE"
    /\ staged = NoUpdate
    /\ pc' = "RUNNING"
    /\ UNCHANGED <<counter, keyValid, slot, try, idx, staged, running, booted, room,
                   updates, losses, services>>

-----------------------------------------------------------------------------
\* The application: which slot is the update made for?

FwValid(s) == slot[s].found /\ slot[s].valid

\* read_s0_active, of the builds without TF-M: the newer of the images found.
read_s0_active ==
    slot[1].found => slot[0].version >= slot[1].version

\* tfm_platform_s0_active: the newer of the images still valid.
tfm_platform_s0_active ==
    FwValid(0) /\ (FwValid(1) => slot[0].version >= slot[1].version)

S0ActiveKnown == IF NonSecure THEN FwValid(0) \/ FwValid(1) ELSE slot[0].found

fota_download_s0_active_get ==
    IF NonSecure THEN tfm_platform_s0_active ELSE read_s0_active

\* fota_download_b1_file_parse and the download of the file it selects.
DownloadUpdate(image) ==
    /\ pc = "RUNNING"
    /\ staged = NoUpdate
    /\ S0ActiveKnown
    /\ image.apis \/ ApisUnmet
    /\ updates < MaxUpdates
    /\ updates' = updates + 1
    /\ staged' = [target |-> IF fota_download_s0_active_get THEN 1 ELSE 0, image |-> image]
    /\ UNCHANGED <<counter, keyValid, slot, pc, try, idx, running, booted, room, losses, services>>

\* The application resets the device, or the user a device that gave up.
Reboot ==
    /\ pc \in {"RUNNING", "ABORTED"}
    /\ pc' = "RESET"
    /\ running' = None
    /\ UNCHANGED <<counter, keyValid, slot, try, idx, staged, booted, room,
                   updates, losses, services>>

PowerLoss ==
    /\ pc \notin {"RESET", "RUNNING", "ABORTED"}
    /\ losses < MaxLosses
    /\ losses' = losses + 1
    /\ pc' = "RESET"
    /\ running' = None
    /\ try' = << >>
    /\ idx' = 0
    /\ UNCHANGED <<counter, keyValid, slot, staged, booted, room, updates, services>>

\* A programming tool rewrites a slot while the device is held in reset.
Program(s, image) ==
    /\ pc = "RESET"
    /\ services < MaxServices
    /\ services' = services + 1
    /\ slot' = [slot EXCEPT ![s] = image]
    /\ UNCHANGED <<counter, keyValid, pc, try, idx, staged, running, booted, room, updates, losses>>

-----------------------------------------------------------------------------
BootInit ==
    /\ BlStorageInit
    /\ slot = [s \in Slots |-> IF s = 0 THEN Image(1, 0, TRUE, TRUE) ELSE Blank]
    /\ pc = "RESET"
    /\ try = << >>
    /\ idx = 0
    /\ staged = NoUpdate
    /\ running = None
    /\ booted = {}
    /\ room = TRUE
    /\ updates = 0 /\ losses = 0 /\ services = 0

BootStep ==
    \/ main \/ NoFwInfo \/ bl_validate_firmware_local \/ fw_info_invalidate
    \/ InvalidateKeys \/ RecordVersion \/ bl_boot
    \/ CopyErases \/ CopyWritesInfo \/ CopyEnds \/ StartApplication

BootNext ==
    \/ BootStep
    \/ \E image \in Images : DownloadUpdate(image)
    \/ Reboot
    \/ PowerLoss
    \/ \E s \in Slots, image \in Images : Program(s, image)

BootSpec == BootInit /\ [][BootNext]_bootVars

\* The boot chain runs on its own, and an application that has downloaded an
\* update resets the device to have it installed.
ApplyUpdate == staged # NoUpdate /\ Reboot

BootFairSpec == BootSpec /\ WF_bootVars(BootStep) /\ WF_bootVars(ApplyUpdate)

-----------------------------------------------------------------------------
\* Every variable keeps its type; the counter stays within counter_t.
BootTypeOK ==
    /\ BlStorageTypeOK
    /\ slot \in [Slots -> Contents]
    /\ pc \in Pcs
    /\ try \in {<< >>, <<0>>, <<1>>, <<0, 1>>, <<1, 0>>}
    /\ idx \in 0 .. NumKeys
    /\ staged \in Updates
    /\ running \in Slots \cup {None}
    /\ booted \subseteq [version : 1 .. MaxVersion, key : Keys]
    /\ room \in BOOLEAN
    /\ updates \in 0 .. MaxUpdates
    /\ losses \in 0 .. MaxLosses
    /\ services \in 0 .. MaxServices

\* As long as the counter never lacked a slot, the bootloader starts no
\* image older than one it started before, however the image got into the
\* slot and wherever the power was lost.
NoDowngrade ==
    pc = "BOOT" /\ room => \A b \in booted : slot[Head(try)].version >= b.version

\* Once an image signed with a key was started, no image signed with a key
\* listed before it is: the revocation is complete before bl_boot, and a
\* power loss in the middle of it is made good by the next boot.
RevokedNeverBoots ==
    pc = "BOOT" => \A b \in booted : slot[Head(try)].key >= b.key

\* "only the binary corresponding to the currently inactive bootloader slot
\* will be selected": an update is never downloaded for the running slot.
SelectedIsInactive == pc = "RUNNING" /\ staged # NoUpdate => staged.target # running

\* "If this image is faulty and cannot be booted, the other partition will
\* always hold a working image that is booted instead": unless a tool rewrote
\* a slot the bootloader never gives up, whatever images are downloaded and
\* wherever their copying or booting is cut off, and the running slot is not
\* the one that is updated.
AlwaysBoots == services = 0 => pc # "ABORTED" /\ SelectedIsInactive

\* A newer image with a good signature by a valid key, once downloaded, gets
\* to run (or a newer one does), power losses or not.
UpdatesTakeEffect ==
    \A v \in 1 .. MaxVersion :
        (/\ staged # NoUpdate /\ staged.image.version = v
         /\ pc = "RUNNING" /\ v > slot[running].version
         /\ staged.image.good /\ staged.image.apis /\ key_is_valid(staged.image.key))
        ~> (services > 0 \/ (running # None /\ slot[running].version >= v))
=============================================================================
