--------------------------------- MODULE Iap ---------------------------------
(***************************************************************************)
(* iap.c, a programming session: the bytes of a new image are collected in *)
(* a page buffer on the heap and written page by page to the flash slot    *)
(* that follows the boot slot, which is then activated.  Under it, what    *)
(* esp_ota_ops of ESP-IDF does with the flash.                             *)
(***************************************************************************)
EXTENDS Naturals, Sequences

CONSTANTS
  Byte,         (* the bytes a server may send                             *)
  Images,       (* byte sequences that are an image of this device         *)
  PageSize,     (* IAP_PAGE_SIZE                                           *)
  NoSlot,       (* partition_to_program or ota_handle is NULL              *)
  FlashMayFail  (* the flash, the heap or the OTA data may refuse          *)

Slot == {"factory", "ota_0", "ota_1"}

ASSUME IapAssumption ==
  /\ Images \subseteq Seq(Byte)
  /\ PageSize \in Nat \ {0}
  /\ NoSlot \notin Slot
  /\ FlashMayFail \in BOOLEAN

VARIABLES
  session,      (* "open" or "closed"                                      *)
  partition,    (* partition_to_program                                    *)
  pageBuffer,   (* page_buffer points to "none" or a "held" block          *)
  page,         (* the bytes in it                                         *)
  handle,       (* the slot of the OTA handle esp_ota_end has not freed    *)
  flash,        (* what each slot holds                                    *)
  boot,         (* esp_ota_get_boot_partition                              *)
  running       (* esp_ota_get_running_partition                           *)

slotVars == <<handle, flash, boot, running>>
iapVars  == <<session, partition, pageBuffer, page, slotVars>>

(* RAM after a reset. *)
IapReset ==
  /\ session' = "closed" /\ partition' = NoSlot
  /\ pageBuffer' = "none" /\ page' = <<>>
  /\ handle' = NoSlot
  /\ running' = boot
  /\ UNCHANGED <<flash, boot>>

(* Fault: the same slot again. *)
NextSlotStuck(s) ==
  CASE s = "factory" -> "ota_0"
    [] s = "ota_0"   -> "ota_1"
    [] s = "ota_1"   -> "ota_1"

(* iap_find_next_boot_partition *)
NextSlot(s) ==
  CASE s = "factory" -> "ota_0"
    [] s = "ota_0"   -> "ota_1"
    [] s = "ota_1"   -> "ota_0"

(* iap_begin while a session is open is refused; otherwise it allocates    *)
(* the page buffer and esp_ota_begin erases the slot, unless that slot is  *)
(* the one that runs.  A failure frees the buffer again.                   *)
BeginSession ==
  /\ session = "closed"
  /\ partition' = NextSlot(boot)
  /\ partition' # running
  /\ session' = "open" /\ pageBuffer' = "held" /\ page' = <<>>
  /\ handle' = partition'
  /\ flash' = [flash EXCEPT ![partition'] = <<>>]
  /\ UNCHANGED <<boot, running>>

(* The handle is allocated after the slot has been erased. *)
BeginFails ==
  /\ session = "closed"
  /\ \/ FlashMayFail /\ UNCHANGED <<partition, flash>>
     \/ partition' = NextSlot(boot) /\ (partition' = running \/ FlashMayFail) /\ UNCHANGED flash
     \/ /\ partition' = NextSlot(boot) /\ partition' # running /\ FlashMayFail
        /\ flash' = [flash EXCEPT ![partition'] = <<>>]
  /\ pageBuffer' = "none" /\ page' = <<>>
  /\ UNCHANGED <<session, handle, boot, running>>

(* One round of iap_write's loop: as much as fits. *)
CopyLength(data) ==
  IF Len(data) < PageSize - Len(page) THEN Len(data) ELSE PageSize - Len(page)

CopyToPage(data) ==
  /\ page' = page \o SubSeq(data, 1, CopyLength(data))
  /\ UNCHANGED <<session, partition, pageBuffer, slotVars>>

(* iap_write_page_buffer: an empty page needs no write. *)
WritePage ==
  /\ page # <<>> => handle # NoSlot
  /\ flash' = IF page = <<>> THEN flash ELSE [flash EXCEPT ![handle] = @ \o page]
  /\ page' = <<>>
  /\ UNCHANGED <<session, partition, pageBuffer, handle, boot, running>>

WritePageFails ==
  /\ page # <<>>
  /\ FlashMayFail \/ handle = NoSlot
  /\ UNCHANGED iapVars

(* Fault: the page buffer is not freed. *)
ReleaseKeepingBuffer ==
  /\ page' = <<>>
  /\ handle' = NoSlot
  /\ UNCHANGED <<pageBuffer, flash, boot, running>>

(* iap_finish up to esp_ota_end, which frees the handle and says whether   *)
(* the slot holds a valid image.                                           *)
ReleaseSession ==
  /\ pageBuffer' = "none" /\ page' = <<>>
  /\ handle' = NoSlot
  /\ UNCHANGED <<flash, boot, running>>

CloseSession == session' = "closed" /\ partition' = NoSlot

ImageIsValid == handle # NoSlot /\ flash[handle] \in Images

(* iap_abort: the result of esp_ota_end does not matter. *)
AbortSession ==
  \/ session = "open" /\ ReleaseSession /\ CloseSession
  \/ session = "closed" /\ UNCHANGED iapVars

(* esp_ota_set_boot_partition, which verifies the image once more. *)
ActivateSlot ==
  /\ flash[partition] \in Images
  /\ boot' = partition
  /\ CloseSession
  /\ UNCHANGED <<pageBuffer, page, handle, flash, running>>

=============================================================================
