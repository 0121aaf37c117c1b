-------------------------- MODULE SecureBootProofs --------------------------
(***************************************************************************)
(* Theorems about the immutable bootloader (SecureBoot, BlStorage), for    *)
(* every number of keys, counter slots and versions, and any number of     *)
(* downloads, power losses and slots rewritten by a programming tool.      *)
(***************************************************************************)
EXTENDS SecureBoot, WellFoundedInduction, TLAPS

(* A nonempty set of naturals has a least element.                         *)
LEMMA LeastElement ==
    ASSUME NEW S \in SUBSET Nat, S # {}
    PROVE  \E a \in S : \A b \in S : a <= b
<1>1. \E a \in S : \A b \in S : ~(<<b, a>> \in OpToRel(<, Nat))
  BY NatLessThanWellFounded, WFMin
<1>2. \A a, b \in Nat : ~(<<b, a>> \in OpToRel(<, Nat)) => a <= b
  BY DEF OpToRel
<1> QED BY <1>1, <1>2

(* A bounded, nonempty set of naturals has a Max: it is in the set and      *)
(* above all its elements.                                                 *)
LEMMA BoundedMax ==
    ASSUME NEW n \in Nat, NEW S \in SUBSET (0 .. n), S # {}
    PROVE  Max(S) \in S /\ \A y \in S : y <= Max(S)
<1> DEFINE T == {d \in 0 .. n : n - d \in S}
<1>1. PICK z : z \in S
  OBVIOUS
<1>2. n - z \in T
  BY <1>1
<1>3. PICK a \in T : \A b \in T : a <= b
  <2>1. T \in SUBSET Nat /\ T # {}
    BY <1>2
  <2> QED BY <2>1, LeastElement
<1>4. \A y \in S : n - y \in T
  OBVIOUS
<1>5. n - a \in S /\ a \in 0 .. n
  OBVIOUS
<1>6. \A y \in S : n - a >= y
  BY <1>3, <1>4, <1>5
<1>7. \E x \in S : \A y \in S : x >= y
  BY <1>5, <1>6
<1>8. Max(S) \in S /\ \A y \in S : Max(S) >= y
  BY <1>7 DEF Max
<1> QED BY <1>8

-----------------------------------------------------------------------------
\* The monotonic counter.

(* get_counter returns a counter_t that is at least every slot in use.      *)
LEMMA CounterRange ==
    ASSUME BlStorageTypeOK
    PROVE  /\ get_monotonic_counter \in 0 .. CounterMod - 1
           /\ get_monotonic_counter \in {counter[i] : i \in WrittenSlots} \cup {0}
           /\ \A i \in WrittenSlots : counter[i] <= get_monotonic_counter
<1> DEFINE S == {counter[i] : i \in WrittenSlots} \cup {0}
<1>1. CounterMod - 1 \in Nat /\ 0 \in 0 .. CounterMod - 1
  BY BlStorageAssumption
<1>2. S \in SUBSET (0 .. CounterMod - 1) /\ S # {}
  BY <1>1 DEF BlStorageTypeOK, WrittenSlots
<1>3. Max(S) \in S /\ \A y \in S : y <= Max(S)
  BY <1>1, <1>2, BoundedMax
<1> QED BY <1>2, <1>3 DEF get_monotonic_counter

(* The version it stands for is a natural.                                 *)
LEMMA VersionRange ==
    ASSUME BlStorageTypeOK
    PROVE  get_monotonic_version \in Nat
BY CounterRange DEF get_monotonic_version

(* The slots of the counter are written from the first on.                 *)
CounterFilled ==
    \A i, j \in CounterSlots : i < j /\ counter[i] = 0 => counter[j] = 0

(* A slot that set_monotonic_counter may write is the only such slot.      *)
LEMMA OneFreeSlot ==
    ASSUME BlStorageTypeOK, NEW i \in FreeSlots, NEW j \in FreeSlots
    PROVE  i = j
<1>1. i \in Nat /\ j \in Nat
  BY BlStorageAssumption DEF FreeSlots, CounterSlots
<1>2. ASSUME NEW m \in FreeSlots, NEW n \in FreeSlots, m \in 1 .. n - 1
      PROVE  FALSE
  <2>1. counter[m] = 0 /\ m \in WrittenSlots
    BY <1>2 DEF FreeSlots
  <2> QED BY <2>1, <1>2 DEF WrittenSlots
<1>3. i \in 1 .. j - 1 \/ j \in 1 .. i - 1 \/ i = j
  BY <1>1, BlStorageAssumption DEF FreeSlots, CounterSlots
<1> QED BY <1>2, <1>3

(* set_monotonic_counter keeps the type and the order of the slots; with a  *)
(* slot left, the value it was given is what get_counter then returns.     *)
LEMMA SetCounter ==
    ASSUME BlStorageTypeOK, CounterFilled, NEW new \in 1 .. CounterMod - 1,
           new > get_monotonic_counter, set_monotonic_counter(new)
    PROVE  /\ counter' \in [CounterSlots -> 0 .. CounterMod - 1]
           /\ CounterFilled'
           /\ FreeSlots # {} => get_monotonic_counter' = new
           /\ FreeSlots = {} => counter' = counter
<1>0. /\ counter' = [i \in CounterSlots |-> IF i \in FreeSlots THEN new ELSE counter[i]]
      /\ CounterMod \in Nat /\ NumCounterSlots \in Nat
      /\ counter \in [CounterSlots -> 0 .. CounterMod - 1]
      /\ get_monotonic_counter \in Nat
  BY CounterRange, BlStorageAssumption DEF set_monotonic_counter, BlStorageTypeOK
<1>1. counter' \in [CounterSlots -> 0 .. CounterMod - 1]
  BY <1>0
<1>2. CounterFilled'
  BY <1>0 DEF CounterFilled, FreeSlots, WrittenSlots, CounterSlots
<1>3. FreeSlots = {} => counter' = counter
  BY <1>0
<1>4. ASSUME NEW f \in FreeSlots
      PROVE  get_monotonic_counter' = new
  <2>1. FreeSlots = {f}
    BY OneFreeSlot
  <2>2. f \in CounterSlots /\ counter[f] = 0 /\ \A j \in 1 .. f - 1 : counter[j] # 0
    BY DEF FreeSlots, WrittenSlots, CounterSlots
  <2>3. counter' = [i \in CounterSlots |-> IF i = f THEN new ELSE counter[i]]
    BY <1>0, <2>1
  <2>4. f \in WrittenSlots'
    BY <1>0, <2>2, <2>3 DEF WrittenSlots, CounterSlots
  <2>5. \A i \in WrittenSlots' : i = f \/ i \in WrittenSlots
    <3> SUFFICES ASSUME NEW i \in WrittenSlots', i # f
                 PROVE  i \in WrittenSlots
      OBVIOUS
    <3>1. i \in CounterSlots /\ \A j \in 1 .. i : counter'[j] # 0
      BY DEF WrittenSlots
    <3>2. CASE i < f
      BY <3>1, <3>2, <2>2 DEF WrittenSlots, CounterSlots
    <3>3. CASE f < i
      <4>1. counter[i] = 0
        BY <3>1, <3>3, <2>2 DEF CounterFilled
      <4>2. counter'[i] = 0
        BY <4>1, <3>1, <2>3
      <4>3. i \in 1 .. i
        BY <3>1 DEF CounterSlots
      <4> QED BY <4>2, <4>3, <3>1
    <3> QED BY <3>1, <3>2, <3>3, <2>2, <1>0 DEF CounterSlots
  <2> DEFINE S == {counter'[i] : i \in WrittenSlots'} \cup {0}
  <2>6. \A y \in S : y <= new
    <3>1. \A i \in WrittenSlots : counter[i] <= get_monotonic_counter
      BY CounterRange
    <3>2. \A i \in WrittenSlots : counter[i] \in Nat /\ i \in CounterSlots
      BY <1>0 DEF WrittenSlots
    <3>3. \A i \in WrittenSlots' : counter'[i] <= new
      BY <3>1, <3>2, <2>2, <2>3, <2>5, <1>0
    <3> QED BY <3>3
  <2>7. new \in S
    BY <2>2, <2>3, <2>4
  <2>8. S \in SUBSET (0 .. CounterMod - 1)
    BY <1>0, <1>1 DEF WrittenSlots
  <2>9. Max(S) \in S /\ \A y \in S : y <= Max(S)
    <3>1. CounterMod - 1 \in Nat /\ S # {}
      BY <2>7, BlStorageAssumption
    <3> HIDE DEF S
    <3> QED BY <2>8, <3>1, BoundedMax
  <2>10. Max(S) = new
    <3>1. Max(S) \in Nat /\ new \in Nat
      BY <2>7, <2>8, <2>9
    <3>2. Max(S) <= new /\ new <= Max(S)
      BY <2>6, <2>7, <2>9
    <3> HIDE DEF S
    <3> QED BY <3>1, <3>2
  <2> QED BY <2>10 DEF get_monotonic_counter
<1> QED BY <1>1, <1>2, <1>3, <1>4

(* The counter of an image newer than the recorded version is larger than   *)
(* the one stored, does not wrap and stands for the image's version.        *)
LEMMA CounterGrows ==
    ASSUME BlStorageTypeOK, NEW v \in 1 .. MaxVersion, NEW s \in Slots,
           v > get_monotonic_version
    PROVE  /\ CounterOf(v, s) \in 1 .. CounterMod - 1
           /\ CounterOf(v, s) > get_monotonic_counter
           /\ CounterOf(v, s) \div 2 = v
<1>1. MaxVersion \in Nat /\ CounterMod \in Nat /\ 2 * MaxVersion + 1 < CounterMod
  BY SecureBootAssumption, BlStorageAssumption
<1>2. get_monotonic_counter \in Nat /\ get_monotonic_counter \div 2 < v
  BY CounterRange DEF get_monotonic_version
<1>3. s = 0 \/ s = 1
  BY DEF Slots
<1>4. 2 * v + (1 - s) \in 1 .. CounterMod - 1
  BY <1>1, <1>3
<1>5. CounterOf(v, s) = 2 * v + (1 - s)
  BY <1>1, <1>4 DEF CounterOf
<1>6. get_monotonic_counter < 2 * v
  BY <1>2
<1>7. (2 * v + (1 - s)) \div 2 = v
  BY <1>3
<1>8. 2 * v + (1 - s) > get_monotonic_counter
  BY <1>2, <1>3, <1>6
<1> QED BY <1>4, <1>5, <1>7, <1>8

-----------------------------------------------------------------------------
\* main has a slot to attempt.
Attempts == {"VALIDATE", "INVALIDATE", "REVOKE", "RECORD", "BOOT"}

\* The image of the slot at hand has passed validate_firmware.
Passed == {"REVOKE", "RECORD", "BOOT"}

(* What the type invariant needs besides itself: a slot to attempt, an      *)
(* image to copy, a version in what fw_info_find finds.                     *)
Chain ==
    /\ pc \in Attempts => try # << >>
    /\ pc \in {"ERASED", "PARTIAL"} => staged # NoUpdate
    /\ \A s \in Slots : slot[s].found => slot[s].version \in 1 .. MaxVersion

(* The keys before that of an image started are invalid for good, and       *)
(* validate_signature has invalidated those below its loop index; at the    *)
(* end of its loop these are all the keys before that of the image.         *)
KeysRevoked ==
    /\ \A b \in booted : \A k \in Keys : k < b.key => ~keyValid[k]
    /\ pc \in Passed =>
           /\ slot[Head(try)].found
           /\ key_is_valid(slot[Head(try)].key)
           /\ idx <= slot[Head(try)].key
           /\ \A k \in Keys : k < idx => ~keyValid[k]
    /\ pc \in {"RECORD", "BOOT"} => idx = slot[Head(try)].key

(* The counter stands for the newest version started, unless it ran out of  *)
(* slots; the image that passed is not older, and recorded before bl_boot.  *)
VersionsRecorded ==
    /\ room => \A b \in booted : b.version <= get_monotonic_version
    /\ pc \in Passed => slot[Head(try)].version >= get_monotonic_version
    /\ pc = "BOOT" /\ room => slot[Head(try)].version <= get_monotonic_version

BootInv == BootTypeOK /\ Chain /\ CounterFilled /\ KeysRevoked /\ VersionsRecorded

(* The slots main attempts, one after the other.                           *)
LEMMA TrySlots ==
    ASSUME BootTypeOK, try # << >>
    PROVE  /\ Head(try) \in Slots
           /\ Tail(try) \in {<< >>, <<0>>, <<1>>}
<1>1. try = <<0>> \/ try = <<1>> \/ try = <<0, 1>> \/ try = <<1, 0>>
  BY DEF BootTypeOK
<1>2. Tail(<<0>>) = << >> /\ Tail(<<1>>) = << >>
  OBVIOUS
<1>3. Tail(<<0, 1>>) = <<1>> /\ Tail(<<1, 0>>) = <<0>>
  OBVIOUS
<1>4. Head(<<0>>) = 0 /\ Head(<<1>>) = 1 /\ Head(<<0, 1>>) = 0 /\ Head(<<1, 0>>) = 1
  OBVIOUS
<1> QED BY <1>1, <1>2, <1>3, <1>4 DEF Slots

(* An image is what a slot may hold, with a version.                       *)
LEMMA ImageTypes ==
    /\ Images \subseteq Contents
    /\ \A i \in Images : i.found /\ i.valid /\ i.version \in 1 .. MaxVersion
    /\ Blank \in Contents /\ ~Blank.found
    /\ Image(1, 0, TRUE, TRUE) \in Images
<1>1. /\ MaxVersion \in Nat /\ 1 \in 1 .. MaxVersion
      /\ NumKeys \in Nat /\ 0 \in 0 .. NumKeys
      /\ Keys \subseteq 0 .. NumKeys
      /\ 1 .. MaxVersion \subseteq 0 .. MaxVersion /\ 0 \in 0 .. MaxVersion
  BY SecureBootAssumption, BlStorageAssumption DEF Keys
<1>2. Blank \in Contents /\ ~Blank.found
  BY <1>1 DEF Blank, Contents
<1>3. Image(1, 0, TRUE, TRUE) \in Images
  BY <1>1 DEF Image, Images
<1>4. ASSUME NEW i \in Images
      PROVE  i \in Contents /\ i.found /\ i.valid /\ i.version \in 1 .. MaxVersion
  BY <1>1 DEF Images, Contents
<1> QED BY <1>2, <1>3, <1>4

(* What is staged is an image for one of the slots.                        *)
LEMMA StagedTypes ==
    ASSUME BootTypeOK, staged # NoUpdate
    PROVE  staged.target \in Slots /\ staged.image \in Images
BY DEF BootTypeOK, Updates

(* A step that leaves the storage and the history alone and ends outside    *)
(* the part of validate_and_boot that has passed the image.                 *)
LEMMA QuietStep ==
    ASSUME BootInv, UNCHANGED <<counter, keyValid, booted, room>>,
           pc' \notin Passed
    PROVE  CounterFilled' /\ KeysRevoked' /\ VersionsRecorded'
<1>1. get_monotonic_version' = get_monotonic_version
  BY DEF get_monotonic_version, get_monotonic_counter, WrittenSlots
<1>2. pc' \notin {"RECORD", "BOOT"}
  BY DEF Passed
<1> QED BY <1>1, <1>2 DEF BootInv, CounterFilled, KeysRevoked, VersionsRecorded

(* validate_and_boot returned.                                             *)
LEMMA TryNextTypes ==
    ASSUME BootTypeOK, try # << >>, TryNext
    PROVE  /\ try' \in {<< >>, <<0>>, <<1>>, <<0, 1>>, <<1, 0>>}
           /\ pc' \in {"ABORTED", "VALIDATE"}
           /\ pc' \in Attempts => try' # << >>
           /\ pc' \notin Passed /\ pc' \notin {"ERASED", "PARTIAL"}
BY TrySlots DEF TryNext, Attempts, Passed

(* main chooses an order of the two slots.                                 *)
LEMMA MainStep == ASSUME BootInv, main PROVE BootInv'
<1>1. try' \in {<<0, 1>>, <<1, 0>>}
  BY DEF main, BootOrders
<1>2. BootTypeOK'
  BY <1>1 DEF BootInv, BootTypeOK, BlStorageTypeOK, main, Pcs
<1>3. try' # << >>
  BY <1>1
<1>4. Chain'
  BY <1>3 DEF BootInv, Chain, main
<1> QED BY <1>2, <1>4, QuietStep DEF BootInv, main, Passed

(* A slot without a fw_info structure is passed over.                      *)
LEMMA NoFwInfoStep == ASSUME BootInv, NoFwInfo PROVE BootInv'
<1>1. try # << >>
  BY DEF BootInv, Chain, NoFwInfo, Attempts
<1>2. BootTypeOK'
  BY <1>1, TryNextTypes DEF BootInv, BootTypeOK, BlStorageTypeOK, NoFwInfo, Pcs
<1>3. Chain'
  BY <1>1, TryNextTypes DEF BootInv, Chain, NoFwInfo
<1> QED BY <1>1, <1>2, <1>3, QuietStep, TryNextTypes DEF BootInv, NoFwInfo

(* Invalidating a slot clears its valid word and nothing else.             *)
LEMMA InvalidateStep == ASSUME BootInv, fw_info_invalidate PROVE BootInv'
<1>1. try # << >> /\ Head(try) \in Slots /\ slot \in [Slots -> Contents]
  BY TrySlots DEF BootInv, Chain, fw_info_invalidate, Attempts, BootTypeOK
<1>2. slot' = [slot EXCEPT ![Head(try)].valid = FALSE]
  BY DEF fw_info_invalidate
<1>3. slot' \in [Slots -> Contents]
  BY <1>1, <1>2 DEF Contents
<1>4. \A s \in Slots : slot'[s].found = slot[s].found /\ slot'[s].version = slot[s].version
  BY <1>1, <1>2 DEF Contents
<1>5. BootTypeOK'
  BY <1>1, <1>3, TryNextTypes
  DEF BootInv, BootTypeOK, BlStorageTypeOK, fw_info_invalidate, Pcs
<1>6. Chain'
  BY <1>1, <1>4, TryNextTypes DEF BootInv, Chain, fw_info_invalidate
<1> QED BY <1>1, <1>5, <1>6, QuietStep, TryNextTypes DEF BootInv, fw_info_invalidate

(* The copying of an image: what is written to the slot is of its type.    *)
LEMMA CopyStep ==
    ASSUME BootInv, CopyErases \/ CopyWritesInfo \/ CopyEnds
    PROVE  BootInv'
<1>1. staged # NoUpdate
  BY DEF BootInv, Chain, CopyErases, CopyWritesInfo, CopyEnds
<1>2. staged.target \in Slots /\ staged.image \in Images
  BY <1>1, StagedTypes DEF BootInv
<1>3. PICK c \in {Blank, [staged.image EXCEPT !.good = FALSE], staged.image} :
          slot' = [slot EXCEPT ![staged.target] = c]
  BY DEF CopyErases, CopyWritesInfo, CopyEnds
<1>4. c \in Contents /\ (c.found => c.version \in 1 .. MaxVersion)
  <2>1. staged.image \in Contents /\ staged.image.version \in 1 .. MaxVersion
    BY <1>2, ImageTypes
  <2> QED BY <1>3, <2>1, ImageTypes DEF Contents
<1>5. slot' \in [Slots -> Contents]
  BY <1>2, <1>3, <1>4 DEF BootInv, BootTypeOK
<1>6. \A s \in Slots : slot'[s].found => slot'[s].version \in 1 .. MaxVersion
  BY <1>2, <1>3, <1>4 DEF BootInv, BootTypeOK, Chain
<1>7. /\ pc' \in {"ERASED", "PARTIAL", "RESET", "RUNNING"}
      /\ staged' \in {staged, NoUpdate}
      /\ running' \in {running, None}
      /\ pc' \in {"ERASED", "PARTIAL"} => staged' = staged
      /\ UNCHANGED <<counter, keyValid, try, idx, booted, room, updates, losses, services>>
  BY DEF CopyErases, CopyWritesInfo, CopyEnds
<1>8. BootTypeOK'
  BY <1>5, <1>7 DEF BootInv, BootTypeOK, BlStorageTypeOK, Pcs, Updates
<1>9. Chain'
  BY <1>1, <1>6, <1>7 DEF Chain, Attempts
<1> QED BY <1>7, <1>8, <1>9, QuietStep DEF BootInv, Passed

(* Steps of the second stage and of the application that write no slot.    *)
LEMMA ApplicationStep ==
    ASSUME BootInv, StartApplication \/ Reboot \/ PowerLoss
    PROVE  BootInv'
<1>1. losses' \in 0 .. MaxLosses /\ 0 \in 0 .. NumKeys
  BY BlStorageAssumption, SecureBootAssumption
  DEF BootInv, BootTypeOK, StartApplication, Reboot, PowerLoss
<1>2. BootTypeOK'
  BY <1>1 DEF BootInv, BootTypeOK, BlStorageTypeOK, Pcs, StartApplication, Reboot, PowerLoss
<1>3. Chain'
  BY DEF BootInv, Chain, Attempts, StartApplication, Reboot, PowerLoss
<1> QED BY <1>2, <1>3, QuietStep DEF BootInv, Passed, StartApplication, Reboot, PowerLoss

(* A download stages an image for one of the slots.                        *)
LEMMA DownloadStep ==
    ASSUME BootInv, NEW image \in Images, DownloadUpdate(image)
    PROVE  BootInv'
<1>1. updates' \in 0 .. MaxUpdates
  BY SecureBootAssumption DEF BootInv, BootTypeOK, DownloadUpdate
<1>2. staged' \in Updates
  BY DEF DownloadUpdate, Updates, Slots
<1>3. BootTypeOK'
  BY <1>1, <1>2 DEF BootInv, BootTypeOK, BlStorageTypeOK, DownloadUpdate
<1>4. Chain'
  BY DEF BootInv, Chain, Attempts, DownloadUpdate
<1> QED BY <1>3, <1>4, QuietStep DEF BootInv, Passed, DownloadUpdate

(* A programming tool leaves the storage as it is, whatever it writes.     *)
LEMMA ProgramStep ==
    ASSUME BootInv, NEW s \in Slots, NEW image \in Images, Program(s, image)
    PROVE  BootInv'
<1>1. services' \in 0 .. MaxServices
  BY SecureBootAssumption DEF BootInv, BootTypeOK, Program
<1>2. image \in Contents /\ image.version \in 1 .. MaxVersion
  BY ImageTypes
<1>3. BootTypeOK'
  BY <1>1, <1>2 DEF BootInv, BootTypeOK, BlStorageTypeOK, Program
<1>4. Chain'
  BY <1>2 DEF BootInv, BootTypeOK, Chain, Attempts, Program
<1> QED BY <1>3, <1>4, QuietStep DEF BootInv, Passed, Program

(* The slot at hand, from validate_firmware on.                            *)
LEMMA SlotAtHand ==
    ASSUME BootInv, pc \in Attempts
    PROVE  /\ Head(try) \in Slots /\ slot[Head(try)] \in Contents
           /\ slot[Head(try)].version \in Nat /\ slot[Head(try)].key \in Nat
           /\ get_monotonic_version \in Nat
<1>1. Head(try) \in Slots
  BY TrySlots DEF BootInv, Chain
<1>2. slot[Head(try)] \in Contents
  BY <1>1 DEF BootInv, BootTypeOK
<1>3. get_monotonic_version \in Nat
  BY VersionRange DEF BootInv, BootTypeOK
<1> QED
  BY <1>1, <1>2, <1>3, SecureBootAssumption, BlStorageAssumption DEF Contents

(* The checks of validate_firmware hold of an image that passed them.      *)
LEMMA ValidateStep == ASSUME BootInv, bl_validate_firmware_local PROVE BootInv'
<1>0. pc = "VALIDATE" /\ pc' \in {"REVOKE", "INVALIDATE"} /\ idx' = 0
      /\ UNCHANGED <<counter, keyValid, slot, try, staged, running, booted, room,
                     updates, losses, services>>
  BY DEF bl_validate_firmware_local
<1>1. BootTypeOK'
  BY <1>0, BlStorageAssumption DEF BootInv, BootTypeOK, BlStorageTypeOK, Pcs
<1>2. Chain'
  BY <1>0 DEF BootInv, Chain, Attempts
<1>3. get_monotonic_version' = get_monotonic_version /\ CounterFilled'
  BY <1>0 DEF get_monotonic_version, get_monotonic_counter, WrittenSlots, BootInv, CounterFilled
<1>4. /\ Head(try) \in Slots
      /\ slot[Head(try)].key \in Nat
  BY <1>0, SlotAtHand DEF Attempts
<1>5. pc' = "REVOKE" => slot[Head(try)].found /\ validate_firmware(Head(try))
  BY DEF bl_validate_firmware_local
<1>6. KeysRevoked'
  <2>1. \A k \in Keys : ~(k < 0)
    BY BlStorageAssumption DEF Keys
  <2> QED BY <1>0, <1>4, <1>5, <2>1
          DEF BootInv, KeysRevoked, Passed, validate_firmware, key_is_valid
<1>7. VersionsRecorded'
  BY <1>0, <1>3, <1>5 DEF BootInv, VersionsRecorded, Passed, validate_firmware
<1> QED BY <1>1, <1>2, <1>3, <1>6, <1>7 DEF BootInv

(* One key more is invalid, but not that of the image.                     *)
LEMMA InvalidateKeysStep == ASSUME BootInv, InvalidateKeys PROVE BootInv'
<1>0. pc = "REVOKE"
      /\ UNCHANGED <<counter, slot, try, staged, running, booted, room,
                     updates, losses, services>>
  BY DEF InvalidateKeys
<1> DEFINE key == slot[Head(try)].key
<1>1. /\ key \in Nat /\ key \in Keys /\ keyValid[key]
      /\ slot[Head(try)].found
      /\ idx <= key /\ idx \in Nat
      /\ \A k \in Keys : k < idx => ~keyValid[k]
  BY <1>0, SlotAtHand, BlStorageAssumption
  DEF Attempts, Passed, BootInv, BootTypeOK, KeysRevoked, key_is_valid
<1>2. get_monotonic_version' = get_monotonic_version /\ CounterFilled'
  BY <1>0 DEF get_monotonic_version, get_monotonic_counter, WrittenSlots, BootInv, CounterFilled
<1>3. CASE idx < key
  <2>1. /\ keyValid' = [keyValid EXCEPT ![idx] = FALSE] /\ idx' = idx + 1 /\ pc' = pc
    BY <1>3 DEF InvalidateKeys, invalidate_public_key
  <2>2. idx \in Keys /\ idx + 1 \in 0 .. NumKeys
    BY <1>1, <1>3, BlStorageAssumption DEF Keys
  <2>3. keyValid \in [Keys -> BOOLEAN]
    BY DEF BootInv, BootTypeOK, BlStorageTypeOK
  <2>4. /\ keyValid' \in [Keys -> BOOLEAN]
        /\ keyValid'[key]
        /\ \A k \in Keys : k < idx + 1 => ~keyValid'[k]
        /\ \A k \in Keys : ~keyValid[k] => ~keyValid'[k]
    <3>1. \A k \in Keys : k < idx + 1 => k < idx \/ k = idx
      BY <1>1, BlStorageAssumption DEF Keys
    <3> QED BY <1>1, <1>3, <2>1, <2>2, <2>3, <3>1
  <2>5. BootTypeOK'
    BY <1>0, <2>1, <2>2, <2>4 DEF BootInv, BootTypeOK, BlStorageTypeOK
  <2>6. Chain'
    BY <1>0, <2>1 DEF BootInv, Chain
  <2>7. KeysRevoked'
    <3>1. pc' \notin {"RECORD", "BOOT"} /\ idx' <= key
      BY <1>0, <1>1, <1>3, <2>1
    <3> QED BY <1>0, <1>1, <2>1, <2>4, <3>1 DEF BootInv, KeysRevoked, key_is_valid
  <2>8. VersionsRecorded'
    BY <1>0, <1>2, <2>1 DEF BootInv, VersionsRecorded
  <2> QED BY <1>2, <2>5, <2>6, <2>7, <2>8 DEF BootInv
<1>4. CASE ~(idx < key)
  <2>1. pc' = "RECORD" /\ UNCHANGED <<keyValid, idx>>
    BY <1>4 DEF InvalidateKeys
  <2>2. idx = key
    BY <1>1, <1>4
  <2>3. BootTypeOK' /\ Chain'
    BY <1>0, <2>1 DEF BootInv, BootTypeOK, BlStorageTypeOK, Pcs, Chain, Attempts
  <2>4. KeysRevoked'
    BY <1>0, <1>1, <2>1, <2>2 DEF BootInv, KeysRevoked, key_is_valid
  <2>5. VersionsRecorded'
    BY <1>0, <1>2, <2>1 DEF BootInv, VersionsRecorded, Passed
  <2> QED BY <1>2, <2>3, <2>4, <2>5 DEF BootInv
<1> QED BY <1>3, <1>4

(* The version is recorded, or the counter has no slot left.               *)
LEMMA RecordStep == ASSUME BootInv, RecordVersion PROVE BootInv'
<1> DEFINE version == slot[Head(try)].version
<1>0. /\ pc = "RECORD" /\ pc' = "BOOT"
      /\ UNCHANGED <<keyValid, slot, try, idx, staged, running, booted,
                     updates, losses, services>>
  BY DEF RecordVersion
<1>1. /\ Head(try) \in Slots /\ version \in 1 .. MaxVersion
      /\ get_monotonic_version \in Nat /\ version >= get_monotonic_version
  BY <1>0, SlotAtHand
  DEF Attempts, Passed, BootInv, Chain, KeysRevoked, VersionsRecorded
<1>2. BlStorageTypeOK /\ CounterFilled
  BY DEF BootInv, BootTypeOK
<1>3. /\ counter' \in [CounterSlots -> 0 .. CounterMod - 1]
      /\ CounterFilled'
      /\ get_monotonic_version' \in Nat
      /\ version >= get_monotonic_version'
      /\ get_monotonic_version' >= get_monotonic_version
      /\ room' => version <= get_monotonic_version'
      /\ room' => room
      /\ room' \in BOOLEAN
  <2>0. room' = (room /\ (version > get_monotonic_version => FreeSlots # {}))
        /\ room \in BOOLEAN
    BY DEF RecordVersion, BootInv, BootTypeOK
  <2>1. counter' = counter => /\ get_monotonic_version' = get_monotonic_version
                              /\ CounterFilled'
                              /\ counter' \in [CounterSlots -> 0 .. CounterMod - 1]
    BY <1>2 DEF get_monotonic_version, get_monotonic_counter, WrittenSlots,
                CounterFilled, BlStorageTypeOK
  <2>2. CASE ~(version > get_monotonic_version)
    <3>1. counter' = counter
      BY <2>2 DEF RecordVersion
    <3> QED BY <1>1, <2>0, <2>1, <2>2, <3>1
  <2>3. CASE version > get_monotonic_version
    <3> DEFINE new == CounterOf(version, Head(try))
    <3>1. /\ new \in 1 .. CounterMod - 1 /\ new > get_monotonic_counter
          /\ new \div 2 = version
      BY <1>1, <1>2, <2>3, CounterGrows
    <3>2. set_monotonic_counter(new)
      BY <2>3 DEF RecordVersion, set_monotonic_version
    <3> HIDE DEF new
    <3>3. /\ counter' \in [CounterSlots -> 0 .. CounterMod - 1]
          /\ CounterFilled'
          /\ FreeSlots # {} => get_monotonic_counter' = new
          /\ FreeSlots = {} => counter' = counter
      BY <1>2, <3>1, <3>2, SetCounter
    <3>4. CASE FreeSlots # {}
      <4>1. get_monotonic_version' = version
        BY <3>1, <3>3, <3>4 DEF get_monotonic_version
      <4> QED BY <1>1, <2>0, <3>3, <4>1
    <3>5. CASE FreeSlots = {}
      <4>1. ~room' /\ room' \in BOOLEAN
        BY <2>0, <2>3, <3>5
      <4>2. get_monotonic_version' = get_monotonic_version
        BY <2>1, <3>3, <3>5
      <4>3. version >= get_monotonic_version' /\ get_monotonic_version' >= get_monotonic_version
        BY <1>1, <4>2
      <4> QED BY <1>1, <3>3, <4>1, <4>2, <4>3
    <3> QED BY <3>4, <3>5
  <2> QED BY <2>2, <2>3
<1>4. BootTypeOK' /\ Chain'
  BY <1>0, <1>3 DEF BootInv, BootTypeOK, BlStorageTypeOK, Pcs, Chain, Attempts
<1>5. KeysRevoked'
  BY <1>0 DEF BootInv, KeysRevoked, Passed, key_is_valid
<1>6. VersionsRecorded'
  <2>1. \A b \in booted : b.version \in Nat
    BY SecureBootAssumption DEF BootInv, BootTypeOK
  <2> QED BY <1>0, <1>1, <1>3, <2>1 DEF BootInv, VersionsRecorded
<1> QED BY <1>3, <1>4, <1>5, <1>6 DEF BootInv

(* The image started is recorded: its version and the keys before its own. *)
LEMMA BlBootStep == ASSUME BootInv, bl_boot PROVE BootInv'
<1>0. /\ pc = "BOOT" /\ idx' = 0 /\ try # << >>
      /\ UNCHANGED <<counter, keyValid, slot, staged, room, updates, losses, services>>
  BY DEF bl_boot, BootInv, Chain, Attempts
<1>1. get_monotonic_version' = get_monotonic_version /\ CounterFilled'
  BY <1>0 DEF get_monotonic_version, get_monotonic_counter, WrittenSlots, BootInv, CounterFilled
<1>2. 0 \in 0 .. NumKeys
  BY BlStorageAssumption
<1>3. CASE ~slot[Head(try)].apis
  <2>1. TryNext /\ UNCHANGED <<running, booted>>
    BY <1>3 DEF bl_boot
  <2>2. BootTypeOK'
    BY <1>0, <1>2, <2>1, TryNextTypes DEF BootInv, BootTypeOK, BlStorageTypeOK, Pcs
  <2>3. Chain'
    BY <1>0, <2>1, TryNextTypes DEF BootInv, Chain
  <2> QED BY <1>0, <2>1, <2>2, <2>3, TryNextTypes, QuietStep DEF BootInv
<1>4. CASE slot[Head(try)].apis
  <2> DEFINE b0 == [version |-> slot[Head(try)].version, key |-> slot[Head(try)].key]
  <2>1. /\ running' = Head(try) /\ booted' = booted \cup {b0}
        /\ pc' = "SECOND_STAGE" /\ try' = << >>
    BY <1>4 DEF bl_boot
  <2>2. /\ Head(try) \in Slots
        /\ slot[Head(try)].version \in 1 .. MaxVersion
        /\ slot[Head(try)].key \in Keys
        /\ idx = slot[Head(try)].key
        /\ \A k \in Keys : k < idx => ~keyValid[k]
        /\ room => slot[Head(try)].version <= get_monotonic_version
    BY <1>0, SlotAtHand
    DEF Attempts, Passed, BootInv, Chain, KeysRevoked, key_is_valid, VersionsRecorded
  <2>3. b0 \in [version : 1 .. MaxVersion, key : Keys]
    BY <2>2
  <2>4. BootTypeOK'
    BY <1>0, <1>2, <2>1, <2>2, <2>3 DEF BootInv, BootTypeOK, BlStorageTypeOK, Pcs
  <2>5. Chain'
    BY <1>0, <2>1 DEF BootInv, Chain, Attempts
  <2>6. KeysRevoked'
    BY <1>0, <2>1, <2>2 DEF BootInv, KeysRevoked, Passed
  <2>7. VersionsRecorded'
    BY <1>0, <1>1, <2>1, <2>2 DEF BootInv, VersionsRecorded, Passed
  <2> QED BY <1>1, <2>4, <2>5, <2>6, <2>7 DEF BootInv
<1> QED BY <1>3, <1>4

(* The invariant holds of a device with one image in S0.                   *)
LEMMA BootInitInv == BootInit => BootInv
<1> SUFFICES ASSUME BootInit PROVE BootInv
  OBVIOUS
<1>1. BlStorageTypeOK /\ CounterFilled
  BY BlStorageAssumption DEF BootInit, BlStorageInit, BlStorageTypeOK, CounterFilled
<1>2. BootTypeOK
  <2>1. slot \in [Slots -> Contents]
    BY ImageTypes DEF BootInit
  <2>2. /\ 0 \in 0 .. MaxUpdates /\ 0 \in 0 .. MaxLosses /\ 0 \in 0 .. MaxServices
        /\ 0 \in 0 .. NumKeys
    BY SecureBootAssumption, BlStorageAssumption
  <2> QED BY <1>1, <2>1, <2>2 DEF BootInit, BootTypeOK, Pcs, Updates
<1>3. Chain
  BY ImageTypes DEF BootInit, Chain, Attempts
<1>4. KeysRevoked /\ VersionsRecorded
  BY DEF BootInit, KeysRevoked, VersionsRecorded, Passed
<1> QED BY <1>1, <1>2, <1>3, <1>4 DEF BootInv

(* Every step keeps the invariant.                                         *)
LEMMA BootNextInv == BootInv /\ [BootNext]_bootVars => BootInv'
<1> SUFFICES ASSUME BootInv, [BootNext]_bootVars PROVE BootInv'
  OBVIOUS
<1>1. CASE BootStep
  BY <1>1, MainStep, NoFwInfoStep, ValidateStep, InvalidateStep, InvalidateKeysStep,
     RecordStep, BlBootStep, CopyStep, ApplicationStep DEF BootStep
<1>2. CASE \E image \in Images : DownloadUpdate(image)
  BY <1>2, DownloadStep
<1>3. CASE Reboot \/ PowerLoss
  BY <1>3, ApplicationStep
<1>4. CASE \E s \in Slots, image \in Images : Program(s, image)
  BY <1>4, ProgramStep
<1>5. CASE UNCHANGED bootVars
  BY <1>5 DEF bootVars, BootInv, BootTypeOK, BlStorageTypeOK, Chain, CounterFilled,
              KeysRevoked, VersionsRecorded, get_monotonic_version,
              get_monotonic_counter, WrittenSlots, key_is_valid
<1> QED BY <1>1, <1>2, <1>3, <1>4, <1>5 DEF BootNext

(* The invariant of the boot chain.                                        *)
THEOREM BootInvariant == BootSpec => []BootInv
BY BootInitInv, BootNextInv, PTL DEF BootSpec

(* Every variable of the boot chain keeps its type, and the counter its     *)
(* counter_t, for every number of keys, counter slots and versions.         *)
THEOREM BootTypeCorrect == BootSpec => []BootTypeOK
<1>1. BootInv => BootTypeOK
  BY DEF BootInv
<1> QED BY <1>1, BootInvariant, PTL

(* Neither a power loss nor an image written into a slot by any means makes *)
(* bl_boot start an image older than one started before.                    *)
THEOREM BootNoDowngrade == BootSpec => []NoDowngrade
<1>1. BootInv => NoDowngrade
  <2> SUFFICES ASSUME BootInv, pc = "BOOT", room, NEW b \in booted
               PROVE  slot[Head(try)].version >= b.version
    BY DEF NoDowngrade
  <2>1. b.version \in Nat
    BY SecureBootAssumption DEF BootInv, BootTypeOK
  <2> QED BY <2>1, SlotAtHand DEF BootInv, VersionsRecorded, Passed, Attempts
<1> QED BY <1>1, BootInvariant, PTL

(* An image signed with a key listed before that of an image started is     *)
(* never started, power losses in the middle of the revocation included.    *)
THEOREM BootRevokedNeverBoots == BootSpec => []RevokedNeverBoots
<1>1. BootInv => RevokedNeverBoots
  <2> SUFFICES ASSUME BootInv, pc = "BOOT", NEW b \in booted
               PROVE  slot[Head(try)].key >= b.key
    BY DEF RevokedNeverBoots
  <2>1. b.key \in Nat
    BY BlStorageAssumption DEF BootInv, BootTypeOK, Keys
  <2>2. slot[Head(try)].key \in Keys /\ keyValid[slot[Head(try)].key]
    BY DEF BootInv, KeysRevoked, Passed, key_is_valid
  <2>3. ~(slot[Head(try)].key < b.key)
    BY <2>2 DEF BootInv, KeysRevoked
  <2> QED BY <2>1, <2>3, SlotAtHand DEF Attempts
<1> QED BY <1>1, BootInvariant, PTL

-----------------------------------------------------------------------------
\* The bootloader never gives up.

\* The image of the slot passes every check up to bl_boot.
Works(s) == slot[s].found /\ slot[s].apis /\ validate_firmware(s)

\* Of the images that are still valid, the slot's is the one main tries first.
Outranks(s) ==
    FwValid(1 - s) => IF s = 0 THEN slot[0].version >= slot[1].version
                               ELSE slot[1].version > slot[0].version

\* The slot works, and what is staged is for the other one, whose image will
\* not be started before the staged one is in its place.
Rescue(w) ==
    /\ Works(w)
    /\ staged # NoUpdate =>
           /\ staged.target = 1 - w
           /\ Outranks(w) \/ ~validate_firmware(1 - w)

(* There always is a slot to fall back to; which one it is, at each place.  *)
RescueAt ==
    /\ pc # "ABORTED"
    /\ \A s \in Slots : slot[s].found => slot[s].apis
    /\ staged # NoUpdate => staged.image.apis
    /\ pc \in {"RESET", "VALIDATE"} => \E w \in Slots : Rescue(w)
    /\ pc = "VALIDATE" =>
           \/ /\ try \in {<<0, 1>>, <<1, 0>>}
              /\ Outranks(Head(try)) \/ ~slot[Head(try)].found
           \/ /\ try \in {<<0>>, <<1>>}
              /\ Rescue(Head(try)) /\ ~FwValid(1 - Head(try))
    /\ pc = "INVALIDATE" =>
           /\ try \in {<<0, 1>>, <<1, 0>>}
           /\ ~validate_firmware(Head(try))
           /\ Rescue(1 - Head(try))
    /\ pc \in Passed => Rescue(Head(try)) /\ Outranks(Head(try))
    /\ pc \in {"SECOND_STAGE", "ERASED", "PARTIAL", "RUNNING"} =>
           /\ running \in Slots
           /\ Rescue(running)
           /\ staged = NoUpdate => Outranks(running)

NeverGivesUp == services = 0 => RescueAt

(* What the slots are worth depends on the storage, the slots and what is   *)
(* staged only.                                                            *)
LEMMA RescueSame ==
    ASSUME UNCHANGED <<counter, keyValid, slot, staged>>, NEW s
    PROVE  /\ validate_firmware(s)' = validate_firmware(s)
           /\ FwValid(s)' = FwValid(s)
           /\ Outranks(s)' = Outranks(s)
           /\ Rescue(s)' = Rescue(s)
BY DEF validate_firmware, FwValid, Outranks, Rescue, Works, key_is_valid,
       get_monotonic_version, get_monotonic_counter, WrittenSlots

(* The other slot, and what the provers need of the two.                   *)
LEMMA OtherSlot ==
    ASSUME NEW s \in Slots
    PROVE  /\ 1 - s \in Slots /\ 1 - (1 - s) = s /\ 1 - s # s
           /\ \A t \in Slots : t = s \/ t = 1 - s
BY DEF Slots

(* The order of main, slot by slot.                                        *)
LEMMA TryPairs ==
    /\ Head(<<0, 1>>) = 0 /\ Tail(<<0, 1>>) = <<1>> /\ Head(<<1, 0>>) = 1 /\ Tail(<<1, 0>>) = <<0>>
    /\ Head(<<0>>) = 0 /\ Head(<<1>>) = 1 /\ Tail(<<0>>) = << >> /\ Tail(<<1>>) = << >>
    /\ <<0>> # << >> /\ <<1>> # << >>
<1>1. Tail(<<0>>) = << >> /\ Tail(<<1>>) = << >>
  OBVIOUS
<1>2. Tail(<<0, 1>>) = <<1>> /\ Tail(<<1, 0>>) = <<0>>
  OBVIOUS
<1> QED BY <1>1, <1>2

(* When the first of two attempts fails, the second is on the other slot.   *)
LEMMA SecondTry ==
    ASSUME try \in {<<0, 1>>, <<1, 0>>}, TryNext
    PROVE  /\ Head(try) \in Slots
           /\ pc' = "VALIDATE" /\ try' \in {<<0>>, <<1>>}
           /\ Head(try') = 1 - Head(try)
<1>1. CASE try = <<0, 1>>
  BY <1>1, TryPairs DEF TryNext, Slots
<1>2. CASE try = <<1, 0>>
  BY <1>2, TryPairs DEF TryNext, Slots
<1> QED BY <1>1, <1>2

(* main tries a slot first only if it outranks the other or holds nothing. *)
LEMMA MainRescue == ASSUME BootInv, RescueAt, main PROVE RescueAt'
<1>0. /\ pc = "RESET" /\ pc' = "VALIDATE" /\ UNCHANGED <<counter, keyValid, slot, staged>>
      /\ try' \in BootOrders
  BY DEF main
<1>1. try' \in {<<0, 1>>, <<1, 0>>}
  BY <1>0 DEF BootOrders
<1>2. Outranks(Head(try')) \/ ~slot[Head(try')].found
  <2>0. slot[0].version \in Nat /\ slot[1].version \in Nat
    BY SecureBootAssumption DEF BootInv, BootTypeOK, Slots, Contents
  <2>1. CASE try' = <<0, 1>>
    <3>1. ~slot[1].found \/ slot[0].version >= slot[1].version \/ ~slot[0].found
      BY <1>0, <2>1, TryPairs DEF BootOrders
    <3> QED BY <2>1, <3>1, TryPairs DEF Outranks, FwValid
  <2>2. CASE try' = <<1, 0>>
    <3>1. ~slot[0].found \/ ~(slot[0].version >= slot[1].version)
      BY <1>0, <2>2, TryPairs DEF BootOrders
    <3> QED BY <2>0, <2>2, <3>1, TryPairs DEF Outranks, FwValid
  <2> QED BY <1>1, <2>1, <2>2
<1>3. (Outranks(Head(try)) \/ ~slot[Head(try)].found)'
  BY <1>0, <1>2 DEF Outranks, FwValid
<1>4. \E w \in Slots : Rescue(w)'
  BY <1>0, RescueSame DEF RescueAt
<1> QED BY <1>0, <1>1, <1>3, <1>4 DEF RescueAt, Passed

(* The slot passed over is not the one that works.                         *)
LEMMA NoFwInfoRescue == ASSUME BootInv, RescueAt, NoFwInfo PROVE RescueAt'
<1>0. /\ pc = "VALIDATE" /\ ~slot[Head(try)].found /\ TryNext
      /\ UNCHANGED <<counter, keyValid, slot, staged>>
  BY DEF NoFwInfo
<1>1. try \in {<<0, 1>>, <<1, 0>>}
  BY <1>0 DEF RescueAt, Rescue, Works
<1>2. /\ Head(try) \in Slots
      /\ pc' = "VALIDATE" /\ try' \in {<<0>>, <<1>>}
      /\ Head(try') = 1 - Head(try)
  BY <1>0, <1>1, SecondTry
<1>3. PICK w \in Slots : Rescue(w)
  BY <1>0 DEF RescueAt
<1>4. w = 1 - Head(try)
  BY <1>0, <1>2, <1>3, OtherSlot DEF Rescue, Works
<1>5. ~FwValid(Head(try)) /\ 1 - Head(try') = Head(try)
  BY <1>0, <1>2, OtherSlot DEF FwValid
<1>6. Rescue(Head(try))' /\ ~FwValid(1 - Head(try))' /\ \E x \in Slots : Rescue(x)'
  BY <1>0, <1>2, <1>3, <1>4, <1>5, RescueSame
<1> QED BY <1>0, <1>2, <1>6 DEF RescueAt, Passed

(* Whichever slot passes first is one to fall back to from then on.        *)
LEMMA ValidateRescue ==
    ASSUME BootInv, RescueAt, bl_validate_firmware_local
    PROVE  RescueAt'
<1> DEFINE a == Head(try)
<1>0. /\ pc = "VALIDATE" /\ slot[a].found
      /\ pc' = IF validate_firmware(a) THEN "REVOKE" ELSE "INVALIDATE"
      /\ UNCHANGED <<counter, keyValid, slot, staged, try>>
  BY DEF bl_validate_firmware_local
<1>1. a \in Slots
  BY <1>0, SlotAtHand DEF Attempts
<1>2. PICK w \in Slots : Rescue(w)
  BY <1>0 DEF RescueAt
<1>3. w = a \/ w = 1 - a
  BY <1>1, OtherSlot
<1>4. CASE validate_firmware(a)
  <2>1. Works(a)
    BY <1>0, <1>1, <1>4 DEF Works, RescueAt
  <2>2. Rescue(a) /\ Outranks(a)
    <3>1. CASE Rescue(a) /\ ~FwValid(1 - a)
      BY <3>1 DEF Outranks
    <3>2. CASE Outranks(a)
      <4>1. CASE w = a
        BY <1>2, <3>2, <4>1
      <4>2. CASE w = 1 - a /\ staged = NoUpdate
        BY <2>1, <3>2, <4>2 DEF Rescue
      <4>3. CASE w = 1 - a /\ staged # NoUpdate
        <5>1. Outranks(1 - a) /\ FwValid(1 - a) /\ FwValid(a)
          BY <1>0, <1>1, <1>2, <1>4, <4>3, OtherSlot
          DEF Rescue, Works, validate_firmware, FwValid
        <5>2. slot[0].version \in Nat /\ slot[1].version \in Nat
          BY SecureBootAssumption DEF BootInv, BootTypeOK, Slots, Contents
        <5>3. CASE a = 0
          BY <5>1, <5>2, <5>3, <3>2 DEF Outranks
        <5>4. CASE a = 1
          BY <5>1, <5>2, <5>4, <3>2 DEF Outranks
        <5> QED BY <1>1, <5>3, <5>4 DEF Slots
      <4> QED BY <1>3, <4>1, <4>2, <4>3
    <3> QED BY <1>0, <3>1, <3>2 DEF RescueAt
  <2>3. Rescue(Head(try))' /\ Outranks(Head(try))'
    BY <1>0, <2>2, RescueSame
  <2> QED BY <1>0, <1>4, <2>3 DEF RescueAt, Passed
<1>5. CASE ~validate_firmware(a)
  <2>1. ~Rescue(a)
    BY <1>5 DEF Rescue, Works
  <2>2. try \in {<<0, 1>>, <<1, 0>>} /\ Rescue(1 - a)
    BY <1>0, <1>2, <1>3, <2>1 DEF RescueAt
  <2>3. Rescue(1 - Head(try))' /\ ~validate_firmware(Head(try))'
    BY <1>0, <1>5, <2>2, RescueSame
  <2> QED BY <1>0, <1>5, <2>2, <2>3 DEF RescueAt, Passed
<1> QED BY <1>4, <1>5

(* The slot invalidated is not the one that works.                         *)
LEMMA InvalidateRescue ==
    ASSUME BootInv, RescueAt, fw_info_invalidate
    PROVE  RescueAt'
<1>p. PICK a \in Slots : a = Head(try)
  BY SlotAtHand DEF fw_info_invalidate, Attempts
<1>0. /\ pc = "INVALIDATE" /\ TryNext
      /\ slot' = [slot EXCEPT ![a].valid = FALSE]
      /\ UNCHANGED <<counter, keyValid, staged>>
  BY <1>p DEF fw_info_invalidate
<1>1. /\ try \in {<<0, 1>>, <<1, 0>>} /\ ~validate_firmware(a) /\ Rescue(1 - a)
  BY <1>p, <1>0 DEF RescueAt
<1>2. /\ pc' = "VALIDATE" /\ try' \in {<<0>>, <<1>>}
      /\ Head(try') = 1 - a
  BY <1>p, <1>0, <1>1, SecondTry
<1>3. /\ 1 - a \in Slots /\ 1 - (1 - a) = a /\ 1 - a # a
  BY OtherSlot
<1>4. slot \in [Slots -> Contents]
  BY DEF BootInv, BootTypeOK
<1>5. /\ slot'[1 - a] = slot[1 - a]
      /\ ~slot'[a].valid /\ slot'[a].found = slot[a].found
      /\ slot'[a].apis = slot[a].apis
  BY <1>0, <1>2, <1>3, <1>4 DEF Contents
<1>6. get_monotonic_version' = get_monotonic_version
  BY <1>0 DEF get_monotonic_version, get_monotonic_counter, WrittenSlots
<1>7. validate_firmware(1 - a)' = validate_firmware(1 - a)
  BY <1>0, <1>5, <1>6 DEF validate_firmware, key_is_valid
<1>8. ~FwValid(a)' /\ ~validate_firmware(a)'
  BY <1>5 DEF FwValid, validate_firmware
<1>9. Rescue(1 - a)'
  BY <1>0, <1>1, <1>2, <1>3, <1>5, <1>7, <1>8 DEF Rescue, Works
<1>10. \A s \in Slots : slot'[s].found => slot'[s].apis
  BY <1>5, OtherSlot DEF RescueAt
<1>11. Rescue(Head(try))' /\ ~FwValid(1 - Head(try))'
  BY <1>2, <1>3, <1>8, <1>9
<1>12. \E w \in Slots : Rescue(w)'
  BY <1>3, <1>9
<1> QED BY <1>0, <1>2, <1>10, <1>11, <1>12 DEF RescueAt, Passed

(* Revoking the earlier keys and recording the version, the image that     *)
(* passed stays one that works.                                            *)
LEMMA PassedRescue ==
    ASSUME BootInv', RescueAt, InvalidateKeys \/ RecordVersion
    PROVE  RescueAt'
<1>0. pc \in Passed /\ pc' \in Passed /\ UNCHANGED <<slot, try, staged>>
  BY DEF InvalidateKeys, RecordVersion, Passed
<1>1. Rescue(Head(try)) /\ Outranks(Head(try))
  BY <1>0 DEF RescueAt
<1>2. Outranks(Head(try))'
  BY <1>0, <1>1 DEF Outranks, FwValid
<1>3. Works(Head(try))'
  BY <1>0, <1>1
  DEF Rescue, Works, validate_firmware, BootInv, KeysRevoked, VersionsRecorded
<1>4. Rescue(Head(try))'
  BY <1>0, <1>1, <1>2, <1>3 DEF Rescue
<1> QED BY <1>0, <1>2, <1>4 DEF RescueAt, Passed

(* The running slot is one to fall back to.                                *)
LEMMA BlBootRescue == ASSUME BootInv, RescueAt, bl_boot PROVE RescueAt'
<1>0. pc = "BOOT" /\ UNCHANGED <<counter, keyValid, slot, staged>>
  BY DEF bl_boot
<1>1. PICK a \in Slots : a = Head(try)
  BY <1>0, SlotAtHand DEF Attempts
<1>2. Rescue(a) /\ Outranks(a) /\ slot[a].apis
  BY <1>0, <1>1 DEF RescueAt, Passed, Rescue, Works
<1>3. running' = a /\ pc' = "SECOND_STAGE"
  BY <1>1, <1>2 DEF bl_boot
<1>4. Rescue(running)' /\ Outranks(running)'
  BY <1>0, <1>2, <1>3, RescueSame
<1> QED BY <1>0, <1>3, <1>4 DEF RescueAt, Passed

(* The copy of the staged image does not touch the running slot.           *)
LEMMA CopyRescue ==
    ASSUME ResetAfterCopy, BootInv, RescueAt, CopyErases \/ CopyWritesInfo \/ CopyEnds
    PROVE  RescueAt'
<1>0. /\ pc \in {"SECOND_STAGE", "ERASED", "PARTIAL"} /\ staged # NoUpdate
      /\ UNCHANGED <<counter, keyValid>>
  BY DEF CopyErases, CopyWritesInfo, CopyEnds, BootInv, Chain
<1>1. PICK r \in Slots : r = running
  BY <1>0 DEF RescueAt
<1>2. Rescue(r) /\ staged.target = 1 - r
  BY <1>0, <1>1 DEF RescueAt, Rescue
<1>3. PICK c \in {Blank, [staged.image EXCEPT !.good = FALSE], staged.image} :
          /\ slot' = [slot EXCEPT ![1 - r] = c]
          /\ pc' = "ERASED" => c = Blank
          /\ pc' = "PARTIAL" => c = [staged.image EXCEPT !.good = FALSE]
  BY <1>2 DEF CopyErases, CopyWritesInfo, CopyEnds
<1>4. /\ 1 - r \in Slots /\ 1 - r # r /\ slot \in [Slots -> Contents]
      /\ staged.image \in Contents /\ staged.image.apis
      /\ \A t \in Slots : t = r \/ t = 1 - r
  BY <1>0, OtherSlot, StagedTypes, ImageTypes DEF BootInv, BootTypeOK, RescueAt
<1>5. slot'[r] = slot[r] /\ slot'[1 - r] = c
  BY <1>3, <1>4
<1>6. c.found => c.apis
  BY <1>3, <1>4, ImageTypes DEF Contents
<1>7. get_monotonic_version' = get_monotonic_version
  BY <1>0 DEF get_monotonic_version, get_monotonic_counter, WrittenSlots
<1>8. Works(r)'
  BY <1>0, <1>2, <1>5, <1>7 DEF Rescue, Works, validate_firmware, key_is_valid
<1>9. \A t \in Slots : slot'[t].found => slot'[t].apis
  BY <1>4, <1>5, <1>6 DEF RescueAt
<1>10. CASE CopyErases \/ CopyWritesInfo
  <2>1. pc' \in {"ERASED", "PARTIAL"} /\ UNCHANGED <<running, staged>>
    BY <1>10 DEF CopyErases, CopyWritesInfo
  <2>2. ~validate_firmware(1 - r)'
    <3>1. ~slot'[1 - r].good \/ ~slot'[1 - r].valid
      BY <1>3, <1>4, <1>5, <2>1 DEF Blank, Contents
    <3> QED BY <3>1 DEF validate_firmware
  <2>3. Rescue(running)'
    BY <1>1, <1>2, <1>8, <2>1, <2>2 DEF Rescue
  <2> QED BY <1>0, <1>1, <1>4, <1>9, <2>1, <2>3 DEF RescueAt, Passed
<1>11. CASE CopyEnds
  <2>1. pc' = "RESET" /\ staged' = NoUpdate
    BY <1>11 DEF CopyEnds
  <2>2. Rescue(r)'
    BY <1>8, <2>1 DEF Rescue
  <2> QED BY <1>9, <2>1, <2>2 DEF RescueAt, Passed
<1> QED BY <1>10, <1>11

(* The second stage found nothing to copy.                                 *)
LEMMA StartRescue == ASSUME RescueAt, StartApplication PROVE RescueAt'
<1>0. /\ pc = "SECOND_STAGE" /\ pc' = "RUNNING"
      /\ UNCHANGED <<counter, keyValid, slot, staged, running>>
  BY DEF StartApplication
<1>1. running \in Slots /\ Rescue(running) /\ (staged = NoUpdate => Outranks(running))
  BY <1>0 DEF RescueAt
<1>2. Rescue(running)' /\ (staged = NoUpdate => Outranks(running)')
  BY <1>0, <1>1, RescueSame
<1> QED BY <1>0, <1>1, <1>2 DEF RescueAt, Passed

(* tfm_platform_s0_active tells the running slot, so the update is for the  *)
(* other one.                                                              *)
LEMMA DownloadRescue ==
    ASSUME NonSecure, ~ApisUnmet, BootInv, RescueAt,
           NEW image \in Images, DownloadUpdate(image)
    PROVE  RescueAt'
<1>0. /\ pc = "RUNNING" /\ staged = NoUpdate /\ image.apis
      /\ staged' = [target |-> IF fota_download_s0_active_get THEN 1 ELSE 0, image |-> image]
      /\ UNCHANGED <<counter, keyValid, slot, pc, running>>
  BY DEF DownloadUpdate
<1>1. PICK r \in Slots : r = running
  BY <1>0 DEF RescueAt
<1>2. Works(r) /\ Outranks(r) /\ FwValid(r)
  BY <1>0, <1>1 DEF RescueAt, Rescue, Works, validate_firmware, FwValid
<1>3. fota_download_s0_active_get <=> r = 0
  <2>0. slot[0].version \in Nat /\ slot[1].version \in Nat
    BY SecureBootAssumption DEF BootInv, BootTypeOK, Slots, Contents
  <2>1. CASE r = 0
    BY <1>2, <2>1 DEF fota_download_s0_active_get, tfm_platform_s0_active, Outranks
  <2>2. CASE r = 1
    BY <1>2, <2>0, <2>2 DEF fota_download_s0_active_get, tfm_platform_s0_active, Outranks
  <2> QED BY <2>1, <2>2 DEF Slots
<1>4. staged'.target = 1 - r /\ staged'.image = image /\ 1 - r \in Slots
  BY <1>0, <1>3 DEF Slots
<1>5. Outranks(r)' /\ Works(r)'
  BY <1>0, <1>2 DEF Outranks, FwValid, Works, validate_firmware, key_is_valid,
                    get_monotonic_version, get_monotonic_counter, WrittenSlots
<1>6. Rescue(r)'
  BY <1>4, <1>5 DEF Rescue
<1>7. Rescue(running)' /\ Outranks(running)'
  BY <1>0, <1>1, <1>5, <1>6
<1> QED BY <1>0, <1>1, <1>4, <1>7 DEF RescueAt, Passed

(* Wherever the device is reset, one slot is there to fall back to.        *)
LEMMA ResetRescue ==
    ASSUME BootInv, RescueAt, Reboot \/ PowerLoss
    PROVE  RescueAt'
<1>0. pc' = "RESET" /\ UNCHANGED <<counter, keyValid, slot, staged>>
  BY DEF Reboot, PowerLoss
<1>1. \E w \in Slots : Rescue(w)
  <2>1. CASE pc \in {"RESET", "VALIDATE"}
    BY <2>1 DEF RescueAt
  <2>2. CASE pc = "INVALIDATE"
    BY <2>2, SlotAtHand, OtherSlot DEF RescueAt, Attempts
  <2>3. CASE pc \in Passed
    BY <2>3, SlotAtHand DEF RescueAt, Attempts, Passed
  <2>4. CASE pc \in {"SECOND_STAGE", "ERASED", "PARTIAL", "RUNNING"}
    BY <2>4 DEF RescueAt
  <2> QED BY <2>1, <2>2, <2>3, <2>4 DEF BootInv, BootTypeOK, Pcs, RescueAt, Passed
<1>2. \E w \in Slots : Rescue(w)'
  BY <1>0, <1>1, RescueSame
<1> QED BY <1>0, <1>2 DEF RescueAt, Passed

(* With TF-M's s0_active, a second stage that resets after a copy and       *)
(* updates built for this bootloader, the bootloader never gives up and an  *)
(* update is never made for the running slot, until a programming tool      *)
(* rewrites a slot: for every number of updates, power losses and keys.     *)
THEOREM BootAlwaysBoots ==
    ASSUME NonSecure, ResetAfterCopy, ~ApisUnmet
    PROVE  BootSpec => []AlwaysBoots
<1>1. BootInit => NeverGivesUp
  <2> SUFFICES ASSUME BootInit PROVE RescueAt
    BY DEF NeverGivesUp
  <2>1. BootInv
    BY BootInitInv
  <2>2. Rescue(0)
    <3>1. get_monotonic_version = 0
      <4>1. WrittenSlots = {}
        BY BlStorageAssumption DEF BootInit, BlStorageInit, WrittenSlots, CounterSlots
      <4>2. get_monotonic_counter = 0
        BY <2>1, <4>1, CounterRange DEF BootInv, BootTypeOK
      <4> QED BY <4>2 DEF get_monotonic_version
    <3>2. slot[0] = Image(1, 0, TRUE, TRUE) /\ keyValid[0] /\ 0 \in Keys
      BY BlStorageAssumption DEF BootInit, BlStorageInit, Slots, Keys
    <3> QED BY <3>1, <3>2 DEF Rescue, Works, validate_firmware, key_is_valid, Image, BootInit
  <2>3. \A s \in Slots : slot[s].found => slot[s].apis
    BY DEF BootInit, Image, Blank
  <2> QED BY <2>2, <2>3 DEF RescueAt, BootInit, Passed, Slots
<1>2. BootInv /\ BootInv' /\ NeverGivesUp /\ [BootNext]_bootVars => NeverGivesUp'
  <2> SUFFICES ASSUME BootInv, BootInv', NeverGivesUp, [BootNext]_bootVars, services' = 0
               PROVE  RescueAt'
    BY DEF NeverGivesUp
  <2>1. services \in Nat
    BY SecureBootAssumption DEF BootInv, BootTypeOK
  <2>2. CASE BootStep
    <3>1. services = 0
      BY <2>2 DEF BootStep, main, NoFwInfo, bl_validate_firmware_local,
         fw_info_invalidate, InvalidateKeys, RecordVersion, bl_boot, CopyErases,
         CopyWritesInfo, CopyEnds, StartApplication
    <3> QED BY <2>2, <3>1, MainRescue, NoFwInfoRescue, ValidateRescue, InvalidateRescue,
               PassedRescue, BlBootRescue, CopyRescue, StartRescue
            DEF BootStep, NeverGivesUp
  <2>3. CASE \E image \in Images : DownloadUpdate(image)
    BY <2>3, DownloadRescue DEF DownloadUpdate, NeverGivesUp
  <2>4. CASE Reboot \/ PowerLoss
    BY <2>4, ResetRescue DEF Reboot, PowerLoss, NeverGivesUp
  <2>5. CASE \E s \in Slots, image \in Images : Program(s, image)
    <3>1. services' = services + 1
      BY <2>5 DEF Program
    <3> QED BY <2>1, <3>1
  <2>6. CASE UNCHANGED bootVars
    <3>1. services = 0 /\ UNCHANGED <<counter, keyValid, slot, staged, pc, try, running>>
      BY <2>6 DEF bootVars
    <3>2. RescueAt
      BY <3>1 DEF NeverGivesUp
    <3>3. /\ Rescue(Head(try))' = Rescue(Head(try))
          /\ Rescue(1 - Head(try))' = Rescue(1 - Head(try))
          /\ Outranks(Head(try))' = Outranks(Head(try))
          /\ FwValid(1 - Head(try))' = FwValid(1 - Head(try))
          /\ validate_firmware(Head(try))' = validate_firmware(Head(try))
      BY <3>1, RescueSame
    <3>4. Rescue(running)' = Rescue(running) /\ Outranks(running)' = Outranks(running)
      BY <3>1, RescueSame
    <3>5. \A w \in Slots : Rescue(w)' = Rescue(w)
      BY <3>1, RescueSame
    <3> QED BY <3>1, <3>2, <3>3, <3>4, <3>5 DEF RescueAt
  <2> QED BY <2>2, <2>3, <2>4, <2>5, <2>6 DEF BootNext
<1>3. BootInv /\ NeverGivesUp => AlwaysBoots
  <2> SUFFICES ASSUME NeverGivesUp, services = 0
               PROVE  pc # "ABORTED" /\ SelectedIsInactive
    BY DEF AlwaysBoots
  <2>1. RescueAt
    BY DEF NeverGivesUp
  <2>2. SelectedIsInactive
    BY <2>1, OtherSlot DEF SelectedIsInactive, RescueAt, Rescue
  <2> QED BY <2>1, <2>2 DEF RescueAt
<1> QED BY <1>1, <1>2, <1>3, BootInvariant, PTL DEF BootSpec

=============================================================================
