------------------------------ MODULE IapHttps ------------------------------
(***************************************************************************)
(* iap_https.c: the task that asks the server for metadata, periodically   *)
(* and on demand, and downloads a new image into a programming session;    *)
(* with init_ota as the start.                                             *)
(***************************************************************************)
EXTENDS Iap, HttpsClient

CONSTANTS
  Files,        (* what the server may send as the firmware                *)
  Metadata,     (* what the server may send as the metadata                *)
  Intervals,    (* INTERVAL= values, 0 for "do not poll"                   *)
  PowerLoss     (* the supply may be switched off and on at any time       *)

ASSUME IapHttpsAssumption ==
  /\ Header \notin Byte
  /\ Files \subseteq Seq(Byte)
  /\ Metadata \subseteq Seq(Byte)
  /\ Intervals \subseteq Nat
  /\ PowerLoss \in BOOLEAN

VARIABLES
  pc,           (* where the task is                                       *)
  job,          (* the request it is at                                    *)
  bits,         (* FWUP_CHECK_FOR_UPDATE ("check") and FWUP_DOWNLOAD_IMAGE *)
  timer,        (* check_for_updates_timer: "none", "idle" or "armed"      *)
  polling,      (* polling_interval_s                                      *)
  auto_reboot,
  has_iap_session,
  has_new_firmware,
  connected,    (* the Wi-Fi station's connected flag                      *)
  data,         (* bytes iap_write has still to copy                       *)
  passed        (* history: bytes passed to iap_write in this session      *)

taskVars == <<pc, job, data, passed>>
flagVars == <<has_iap_session, has_new_firmware>>
pollVars == <<bits, timer, polling>>
envVars  == <<auto_reboot, connected>>
vars == <<iapVars, httpVars, taskVars, flagVars, pollVars, envVars>>

DefaultInterval == 60

At(label) == pc = label
Goto(label) == pc' = label

(* iap_https_init and iap_https_check_now in RAM. *)
Init ==
  /\ session = "closed" /\ partition = NoSlot /\ pageBuffer = "none" /\ page = <<>>
  /\ handle = NoSlot
  /\ boot = "factory" /\ running = boot
  /\ flash \in {[s \in Slot |-> IF s = boot THEN image ELSE <<>>] : image \in Images}
  /\ stream = <<>> /\ content_length = NoLength /\ tls = Stale /\ buffer = <<>>
  /\ total = 0 /\ inHeaders = TRUE
  /\ pc = "starting" /\ job = "check" /\ data = <<>> /\ passed = <<>>
  /\ bits = {"check"} /\ timer = "armed" /\ polling = DefaultInterval
  /\ has_iap_session = FALSE /\ has_new_firmware = FALSE
  /\ auto_reboot \in BOOLEAN /\ connected = FALSE

(* A reset: the flash is what remains. *)
Reboot ==
  /\ IapReset
  /\ stream' = <<>> /\ content_length' = NoLength /\ tls' = Stale /\ buffer' = <<>>
  /\ total' = 0 /\ inHeaders' = TRUE
  /\ pc' = "starting" /\ job' = "check" /\ data' = <<>> /\ passed' = <<>>
  /\ bits' = {"check"} /\ timer' = "armed" /\ polling' = DefaultInterval
  /\ has_iap_session' = FALSE /\ has_new_firmware' = FALSE
  /\ connected' = FALSE
  /\ UNCHANGED auto_reboot

-----------------------------------------------------------------------------
(* The task *)

Start ==
  /\ At("starting") /\ connected
  /\ Goto("waiting")
  /\ UNCHANGED <<iapVars, httpVars, job, data, passed, flagVars, pollVars, envVars>>

(* Fault: a check has priority over a download. *)
WakeToCheck ==
  /\ At("waiting") /\ bits # {}
  /\ job' = IF "check" \in bits THEN "check" ELSE "download"
  /\ Goto("woken")
  /\ UNCHANGED <<iapVars, httpVars, data, passed, flagVars, pollVars, envVars>>

(* A download has priority over a check. *)
Wake ==
  /\ At("waiting") /\ bits # {}
  /\ job' = IF "download" \in bits THEN "download" ELSE "check"
  /\ Goto("woken")
  /\ UNCHANGED <<iapVars, httpVars, data, passed, flagVars, pollVars, envVars>>

Online ==
  /\ At("woken") /\ connected
  /\ Goto("connecting")
  /\ UNCHANGED <<iapVars, httpVars, job, data, passed, flagVars, pollVars, envVars>>

(* Fault: the download does not forget the session of an earlier one. *)
RequestKeepingSession ==
  /\ At("connecting")
  /\ \E body \in IF job = "check" THEN Metadata ELSE Files :
       \E announced \in {Len(body), NoLength} : SendRequest(body, announced)
  /\ Goto("receiving")
  /\ UNCHANGED <<iapVars, job, data, passed, flagVars, pollVars, envVars>>

(* wifi_tls_connect and https_send_request.  The download goes on when     *)
(* the connection failed, and then the request does.                       *)
Request ==
  /\ At("connecting")
  /\ \E body \in IF job = "check" THEN Metadata ELSE Files :
       \E announced \in {Len(body), NoLength} : SendRequest(body, announced)
  /\ has_iap_session' = (has_iap_session /\ job = "check")
  /\ Goto("receiving")
  /\ UNCHANGED <<iapVars, job, data, passed, has_new_firmware, pollVars, envVars>>

RequestFails ==
  /\ At("connecting")
  /\ has_iap_session' = (has_iap_session /\ job = "check")
  /\ Goto("done")
  /\ UNCHANGED <<iapVars, httpVars, job, data, passed, has_new_firmware, pollVars, envVars>>

(* wifi_tls_send_request reads: a packet, or the end of the connection. *)
Receive ==
  /\ At("receiving")
  /\ \E n \in 1 .. Len(stream) :
       \/ Gathers(n, job) /\ Goto("receiving")
       \/ Drops(n, job) /\ Goto("done")
       \/ Delivers(n, job) /\ Goto(IF job = "check" THEN "metadata" ELSE "body")
  /\ UNCHANGED <<iapVars, job, data, passed, flagVars, pollVars, envVars>>

Disconnected ==
  /\ At("receiving")
  /\ Goto("done")
  /\ UNCHANGED <<iapVars, httpVars, job, data, passed, flagVars, pollVars, envVars>>

(* iap_https_metadata_body_callback: the interval may change, and an image *)
(* of another version is to be downloaded.                                 *)
MetadataReceived ==
  /\ At("metadata")
  /\ polling' \in {polling} \cup Intervals
  /\ bits' \in {bits, bits \cup {"download"}}
  /\ Goto("done")
  /\ UNCHANGED <<iapVars, httpVars, job, data, passed, flagVars, timer, envVars>>

(* iap_https_firmware_body_callback with data *)
BodyInSession ==
  /\ At("body") /\ has_iap_session
  /\ data' = buffer /\ passed' = passed \o buffer
  /\ Goto("write")
  /\ UNCHANGED <<iapVars, httpVars, job, flagVars, pollVars, envVars>>

BodyAbortsOldSession ==
  /\ At("body") /\ ~has_iap_session
  /\ session = "open"
  /\ AbortSession
  /\ UNCHANGED <<httpVars, taskVars, flagVars, pollVars, envVars>>

BodyBegins ==
  /\ At("body") /\ ~has_iap_session
  /\ BeginSession
  /\ has_iap_session' = TRUE
  /\ data' = buffer /\ passed' = buffer
  /\ Goto("write")
  /\ UNCHANGED <<httpVars, job, has_new_firmware, pollVars, envVars>>

BodyCannotBegin ==
  /\ At("body") /\ ~has_iap_session
  /\ BeginFails
  /\ Goto("done")
  /\ UNCHANGED <<httpVars, job, data, passed, flagVars, pollVars, envVars>>

(* Fault: the source pointer stays where it is. *)
WriteCopiesSameBytes ==
  /\ At("write") /\ session = "open" /\ data # <<>>
  /\ CopyToPage(data)
  /\ data' = SubSeq(data, 1, Len(data) - CopyLength(data))
  /\ Goto(IF Len(page') = PageSize THEN "page" ELSE "write")
  /\ UNCHANGED <<httpVars, job, passed, flagVars, pollVars, envVars>>

(* iap_write, a round of its loop; a page that is full is written. *)
WriteCopies ==
  /\ At("write") /\ session = "open" /\ data # <<>>
  /\ CopyToPage(data)
  /\ data' = SubSeq(data, CopyLength(data) + 1, Len(data))
  /\ Goto(IF Len(page') = PageSize THEN "page" ELSE "write")
  /\ UNCHANGED <<httpVars, job, passed, flagVars, pollVars, envVars>>

PageWritten ==
  /\ At("page")
  /\ WritePage
  /\ Goto("write")
  /\ UNCHANGED <<httpVars, job, data, passed, flagVars, pollVars, envVars>>

(* An error of iap_write aborts the session and ends the request. *)
WriteFails ==
  /\ \/ At("page") /\ WritePageFails
     \/ At("write") /\ session = "closed" /\ UNCHANGED iapVars
  /\ Goto("abort")
  /\ UNCHANGED <<httpVars, job, data, passed, flagVars, pollVars, envVars>>

Abort ==
  /\ At("abort")
  /\ AbortSession
  /\ Goto("done")
  /\ UNCHANGED <<httpVars, job, data, passed, flagVars, pollVars, envVars>>

(* All bytes are in: read on, or the callback with length 0. *)
WriteReturns ==
  /\ At("write") /\ session = "open" /\ data = <<>>
  /\ IF AllDelivered
       THEN Goto("commit") /\ has_iap_session' = FALSE /\ UNCHANGED httpVars
       ELSE Goto("receiving") /\ Consumed /\ UNCHANGED has_iap_session
  /\ UNCHANGED <<iapVars, job, data, passed, has_new_firmware, pollVars, envVars>>

(* iap_commit: the last page, whether it can be written or not; *)
CommitLastPage ==
  /\ At("commit")
  /\ WritePage \/ WritePageFails
  /\ Goto("finish")
  /\ UNCHANGED <<httpVars, job, data, passed, flagVars, pollVars, envVars>>

(* then iap_finish: esp_ota_end, *)
Finish ==
  /\ At("finish")
  /\ ReleaseSession
  /\ UNCHANGED <<session, partition>>
  /\ \/ ImageIsValid /\ Goto("activate")
     \/ (ImageIsValid => FlashMayFail) /\ Goto("committed")
  /\ UNCHANGED <<httpVars, job, data, passed, flagVars, pollVars, envVars>>

(* and esp_ota_set_boot_partition. *)
Activate ==
  /\ At("activate")
  /\ \/ ActivateSlot
     \/ FlashMayFail /\ UNCHANGED iapVars
  /\ Goto("committed")
  /\ UNCHANGED <<httpVars, job, data, passed, flagVars, pollVars, envVars>>

(* has_new_firmware, whatever iap_commit returned. *)
Committed ==
  /\ At("committed")
  /\ has_new_firmware' = TRUE
  /\ Goto(IF auto_reboot THEN "restart" ELSE "done")
  /\ UNCHANGED <<iapVars, httpVars, job, data, passed, has_iap_session, pollVars, envVars>>

Restart == At("restart") /\ Reboot

(* Fault: both flags are cleared after a download. *)
DownloadDoneForAll ==
  /\ At("done") /\ job = "download"
  /\ bits' = {}
  /\ Goto("waiting")
  /\ UNCHANGED <<iapVars, httpVars, job, data, passed, flagVars, timer, polling, envVars>>

(* The request is over.  A download clears its bit, a check starts the     *)
(* timer anew (or deletes it) and then clears its own.                     *)
DownloadDone ==
  /\ At("done") /\ job = "download"
  /\ bits' = bits \ {"download"}
  /\ Goto("waiting")
  /\ UNCHANGED <<iapVars, httpVars, job, data, passed, flagVars, timer, polling, envVars>>

(* Fault: the timer is not started again. *)
CheckDoneOnce ==
  /\ At("done") /\ job = "check"
  /\ Goto("clear")
  /\ UNCHANGED <<iapVars, httpVars, job, data, passed, flagVars, pollVars, envVars>>

CheckDone ==
  /\ At("done") /\ job = "check"
  /\ timer' = IF polling > 0 THEN "armed" ELSE "none"
  /\ Goto("clear")
  /\ UNCHANGED <<iapVars, httpVars, job, data, passed, flagVars, bits, polling, envVars>>

CheckCleared ==
  /\ At("clear")
  /\ bits' = bits \ {"check"}
  /\ Goto("waiting")
  /\ UNCHANGED <<iapVars, httpVars, job, data, passed, flagVars, timer, polling, envVars>>

-----------------------------------------------------------------------------
(* Around it *)

(* The timer is one-shot.  An interval is at least a second, so it does    *)
(* not elapse between the last two steps of a check.                       *)
TimerElapses ==
  /\ timer = "armed" /\ ~At("clear")
  /\ timer' = "idle"
  /\ bits' = bits \cup {"check"}
  /\ UNCHANGED <<iapVars, httpVars, taskVars, flagVars, polling, envVars>>

(* iap_https_check_now, by any other task *)
CheckNow ==
  /\ "check" \notin bits
  /\ bits' = bits \cup {"check"}
  /\ UNCHANGED <<iapVars, httpVars, taskVars, flagVars, timer, polling, envVars>>

WifiChanges ==
  /\ connected' = ~connected
  /\ UNCHANGED <<iapVars, httpVars, taskVars, flagVars, pollVars, auto_reboot>>

PowerCycle == PowerLoss /\ Reboot

TaskStep ==
  \/ Start \/ Wake \/ Online \/ Request \/ RequestFails \/ Receive \/ Disconnected
  \/ MetadataReceived \/ BodyInSession \/ BodyAbortsOldSession \/ BodyBegins
  \/ BodyCannotBegin \/ WriteCopies \/ PageWritten \/ WriteFails \/ Abort \/ WriteReturns
  \/ CommitLastPage \/ Finish \/ Activate \/ Committed \/ Restart
  \/ DownloadDone \/ CheckDone \/ CheckCleared

Next == TaskStep \/ TimerElapses \/ CheckNow \/ WifiChanges \/ PowerCycle

(* The task runs whenever it can, and a server answers or the connection   *)
(* ends.  A Wi-Fi connection that comes and goes is used some time.        *)
Fairness ==
  /\ WF_vars(TaskStep) /\ SF_vars(Start) /\ SF_vars(Online)
  /\ WF_vars(TimerElapses)

Safe == Init /\ [][Next]_vars
Spec == Safe /\ Fairness

-----------------------------------------------------------------------------
(* Safety *)

Octet == Byte \cup {Header}

Labels == {"starting", "waiting", "woken", "connecting", "receiving", "metadata", "body", "write",
           "page", "abort", "commit", "finish", "activate", "committed", "restart", "done",
           "clear"}

(* Type correctness. *)
TypeOK ==
  /\ session \in {"open", "closed"} /\ partition \in Slot \cup {NoSlot}
  /\ pageBuffer \in {"none", "held"} /\ page \in Seq(Octet) /\ Len(page) <= PageSize
  /\ handle \in Slot \cup {NoSlot}
  /\ flash \in [Slot -> Seq(Octet)] /\ boot \in Slot /\ running \in Slot
  /\ stream \in Seq(Octet) /\ content_length \in Nat \cup {NoLength}
  /\ tls \in [1 .. TlsSize -> Octet] /\ buffer \in Seq(Octet)
  /\ total \in Nat
  /\ pc \in Labels /\ job \in {"check", "download"}
  /\ data \in Seq(Octet) /\ passed \in Seq(Octet)
  /\ bits \subseteq {"check", "download"} /\ timer \in {"none", "idle", "armed"}
  /\ polling \in Nat

(* A complete image boots, whenever the power fails, and the image that    *)
(* runs is never written: the module implements FirmwareSlots.             *)
FS == INSTANCE FirmwareSlots WITH complete <- {s \in Slot : flash[s] \in Images}

ImplementsSlots == FS!Spec

(* Page buffering loses, repeats and reorders nothing: while a session is  *)
(* open, the slot, the page buffer and what is still to copy are together  *)
(* what the body callbacks passed to iap_write.                            *)
StreamKept ==
  session = "open" /\ handle # NoSlot => flash[handle] \o page \o data = passed

(* iap_write works in an open session with a page buffer: has_iap_session, *)
(* which iap_https.c keeps for itself, does not survive an aborted or lost *)
(* download into the next one.                                             *)
WriteHasBuffer ==
  pc \in {"write", "page"} => session = "open" /\ pageBuffer = "held" /\ handle = partition

-----------------------------------------------------------------------------
(* What the safety properties rest on *)

(* An OTA handle is open only on the slot after the boot slot, which does  *)
(* not run, and within a session that holds its page buffer.               *)
SessionOK ==
  /\ session = "closed" => pageBuffer = "none" /\ handle = NoSlot
  /\ session = "open" => partition \in Slot
  /\ handle # NoSlot =>
       /\ session = "open" /\ pageBuffer = "held"
       /\ handle = partition /\ partition = NextSlot(boot) /\ partition # running

(* The steps that need that handle have it; has_iap_session may outlive it *)
(* only until the next download.                                           *)
HandleOK ==
  /\ pc \in {"write", "page", "commit", "finish"} => handle # NoSlot
  /\ pc = "activate" => session = "open" /\ pageBuffer = "none" /\ handle = NoSlot
  /\ pc = "body" => job = "download"
  /\ has_iap_session /\ job = "download" /\ pc \in {"receiving", "body"} => handle # NoSlot

(* iap_write returns when it has copied everything. *)
DataOK == handle # NoSlot /\ pc \notin {"write", "page", "abort"} => data = <<>>

IInv == TypeOK /\ SessionOK /\ HandleOK /\ DataOK /\ StreamKept

-----------------------------------------------------------------------------
(* Liveness *)

(* As long as the interval is not 0 and Wi-Fi comes back, another check    *)
(* is always to come, whatever becomes of the earlier ones.                *)
ChecksForEver ==
  []<>connected /\ <>[](polling > 0) => []<>(At("connecting") /\ job = "check")

(* An image that the metadata announced is requested, however often checks *)
(* are demanded meanwhile.                                                 *)
AnnouncedIsRequested ==
  []<>connected => ("download" \in bits ~>
                      "download" \notin bits \/ (At("connecting") /\ job = "download"))

(* A check that is demanded while none is under way is made, be it during  *)
(* a download or when no timer runs.  (A demand in the course of a check   *)
(* is forgotten with it, iap_https.c:217.)                                 *)
DemandIsServed ==
  []<>connected =>
    ("check" \in bits /\ (job = "download" \/ pc \in {"starting", "waiting", "woken"})
       ~> At("connecting") /\ job = "check")

-----------------------------------------------------------------------------
(* What the documentation says and the code does not do *)

(* iap_https.h:83, iap_https_new_firmware_installed: "Returns 1 if a new   *)
(* firmware has been installed but not yet booted".                        *)
NewFirmwareIsInstalled == has_new_firmware => boot # running

(* https_client.c:230, "If the last received packet also contains message  *)
(* body data, we copy it to the beginning of the buffer": what iap_write   *)
(* gets is the body, in order.                                             *)
BodyInOrder ==
  At("write") => \E file \in Files : Len(passed) <= Len(file) /\ passed = SubSeq(file, 1, Len(passed))

=============================================================================
