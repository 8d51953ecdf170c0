----------------------------- MODULE FlashSlots -----------------------------
(***************************************************************************)
(* The two app slots, their otadata states and the bootloader, as the      *)
(* simulator keeps them (sim_flash.hpp): what the firmware's update code   *)
(* reads and writes through esp_ota_ops and espp::Ota.  Each operator is   *)
(* one call, atomic and persistent: sim_flash saves under its lock.        *)
(***************************************************************************)
EXTENDS Naturals

VARIABLES
  image,    \* per slot: "none", "partial" (a descriptor, no complete image), "full"
  state,    \* per slot: its otadata state
  boot,     \* the slot the bootloader is going to start
  running   \* the slot that runs

flashVars == <<image, state, boot, running>>

Slots == {0, 1}
Other(s) == 1 - s
Images == {"none", "partial", "full"}
States == {"undefined", "new", "pending", "valid", "invalid", "aborted"}

FlashTypeOK ==
  /\ image \in [Slots -> Images]
  /\ state \in [Slots -> States]
  /\ boot \in Slots
  /\ running \in Slots

\* A device as it leaves the first flash: one confirmed image.
FlashInit ==
  /\ image = [s \in Slots |-> IF s = 0 THEN "full" ELSE "none"]
  /\ state = [s \in Slots |-> IF s = 0 THEN "valid" ELSE "undefined"]
  /\ boot = 0
  /\ running = 0

\* esp_ota_get_state_partition() on the running image
PendingVerify == state[running] = "pending"

\* esp_ota_check_rollback_is_possible()
RollbackPossible ==
  LET other == Other(running)
  IN  image[other] = "full" /\ state[other] \in {"new", "pending", "valid"}

\* The bootloader: every image still pending was never confirmed; when the
\* boot slot's was not, the other slot starts if it holds a complete image; a
\* NEW image starts as PENDING_VERIFY.
Bootloader ==
  LET swept == [s \in Slots |-> IF state[s] = "pending" THEN "aborted" ELSE state[s]]
      next  == IF state[boot] = "pending" /\ image[Other(boot)] = "full" THEN Other(boot) ELSE boot
  IN  /\ boot' = next
      /\ running' = next
      /\ state' = IF swept[next] = "new" THEN [swept EXCEPT ![next] = "pending"] ELSE swept
      /\ UNCHANGED image

\* esp_ota_set_boot_partition(), on an image that verifies: whatever the slot's
\* state was, it is NEW again.
SetBoot(s) ==
  /\ boot' = s
  /\ state' = [state EXCEPT ![s] = "new"]
  /\ UNCHANGED <<image, running>>

\* Mutant of EraseOther: a boot slot that is erased stays the boot slot.
EraseOtherOnly ==
  /\ image' = [image EXCEPT ![Other(running)] = "none"]
  /\ state' = [state EXCEPT ![Other(running)] = "undefined"]
  /\ UNCHANGED <<boot, running>>

\* esp_ota_begin(): the slot that does not run is erased and loses its otadata
\* entry; a boot slot that pointed there falls back to the running one.
EraseOther ==
  /\ image' = [image EXCEPT ![Other(running)] = "none"]
  /\ state' = [state EXCEPT ![Other(running)] = "undefined"]
  /\ boot' = running
  /\ UNCHANGED running

\* The first bytes of an upload: the slot reads as an image that does not verify.
WriteDescriptor ==
  /\ image' = [image EXCEPT ![Other(running)] = "partial"]
  /\ UNCHANGED <<state, boot, running>>

\* Mutant of CommitImage: the image is stored, the boot slot not switched.
CommitImageInactive ==
  /\ image' = [image EXCEPT ![Other(running)] = "full"]
  /\ state' = [state EXCEPT ![Other(running)] = "new"]
  /\ UNCHANGED <<boot, running>>

\* espp::Ota::finish(): the upload validates and is the next image to boot.
CommitImage ==
  /\ image' = [image EXCEPT ![Other(running)] = "full"]
  /\ state' = [state EXCEPT ![Other(running)] = "new"]
  /\ boot' = Other(running)
  /\ UNCHANGED running

\* esp_ota_mark_app_valid_cancel_rollback()
MarkRunningValid ==
  /\ state' = [state EXCEPT ![running] = "valid"]
  /\ UNCHANGED <<image, boot, running>>

\* esp_ota_mark_app_invalid_rollback_and_reboot(), up to the reboot
MarkRunningInvalid ==
  /\ RollbackPossible
  /\ state' = [state EXCEPT ![running] = "invalid"]
  /\ boot' = Other(running)
  /\ UNCHANGED <<image, running>>
=============================================================================
