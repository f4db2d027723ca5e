----------------------------- MODULE BleSettings -----------------------------
(***************************************************************************)
(* ble_lead.c, the writes to the System Settings Service, with the Wi-Fi   *)
(* credentials in RAM and in NVS: a write of CONNECT_WIFI or FORCE_OTA     *)
(* keeps BTC in wifi_sta_init, and FORCE_OTA starts a local_ota_task,      *)
(* which waits for the connected flag of the group it finds.  Of the tare  *)
(* (CANCEL_OTA), in full in BleTareHandler, only its ends are here.        *)
(* (Host, port and file name of the update are read by that task alone.)   *)
(***************************************************************************)
EXTENDS BleServices, WifiSta

CONSTANTS
  Credentials,  (* pairs of a network's name and password                  *)
  LongName,     (* those whose name fills its array of 32                  *)
  Unterminated, (* those whose password fills its array of 32              *)
  Garbled,      (* such a password, with the bytes that follow the array   *)
  Default,      (* DEFAULT_WIFI_SSID and DEFAULT_WIFI_PASSWORD             *)
  NoBlob,       (* no credentials, as in an NVS that holds none            *)
  MaxOta,       (* FORCE_OTA writes between two starts of the chip         *)
  NvsMayFail    (* a write to NVS may fail                                 *)

ASSUME SettingsAssumption ==
  /\ Default \in Credentials
  /\ LongName \subseteq Credentials /\ Unterminated \subseteq Credentials
  /\ NoBlob \notin Credentials /\ Garbled \notin Credentials
  /\ MaxOta \in Nat
  /\ NvsMayFail \in BOOLEAN

VARIABLES
  btc,          (* where BTC is in the handler of a write                  *)
  forced,       (* that write is one of FORCE_OTA                          *)
  wifi_params,
  stored,       (* the credentials in NVS                                  *)
  ota,          (* each local_ota_task: "absent", "created", "waiting",    *)
                (* "online"                                                *)
  awaited,      (* the group it waits for, or 0                            *)
  written,      (* history: the credentials as the client wrote them; none *)
                (* since a FORCE_OTA put those in NVS in their place       *)
  refused       (* history: there is no group since wifi_sta_init failed   *)

settingsVars == <<btc, forced, wifi_params, stored, ota, awaited, written, refused>>

Ota == 1 .. MaxOta

SettingsInit ==
  /\ btc = "idle" /\ forced = FALSE /\ wifi_params = Default /\ stored = NoBlob
  /\ ota = [i \in Ota |-> "absent"] /\ awaited = [i \in Ota |-> 0]
  /\ written = Default /\ refused = FALSE

(* init_nvs erases an NVS that is full. *)
SettingsReset ==
  /\ btc' = "idle" /\ forced' = FALSE /\ wifi_params' = Default
  /\ ota' = [i \in Ota |-> "absent"] /\ awaited' = [i \in Ota |-> 0]
  /\ written' = Default /\ refused' = FALSE
  /\ stored' \in {stored} \cup {s \in {NoBlob} : NvsMayFail}

-----------------------------------------------------------------------------
(* Writes *)

(* WIFI_SSID or WIFI_PASSWORD: with what the other one is, another pair. *)
WriteCredentials(pair) ==
  /\ wifi_params' = pair /\ written' = pair
  /\ UNCHANGED <<btc, forced, stored, ota, awaited, refused>>

(* CONNECT_WIFI goes straight to wifi_sta_init. *)
WriteConnectWifi ==
  /\ btc' = "init" /\ forced' = FALSE
  /\ UNCHANGED <<wifi_params, stored, ota, awaited, written, refused>>

(* CANCEL_OTA, the tare. *)
WriteTare ==
  /\ btc' = "tare"
  /\ UNCHANGED <<forced, wifi_params, stored, ota, awaited, written, refused>>

(* Fault: the task is created before Wi-Fi is initialised. *)
WriteForceOtaEarly ==
  /\ \E i \in Ota : ota[i] = "absent" /\ ota' = [ota EXCEPT ![i] = "created"]
  /\ btc' = "init" /\ forced' = FALSE
  /\ UNCHANGED <<wifi_params, stored, awaited, written, refused>>

(* FORCE_OTA first takes the credentials from NVS (read_wifi_params_nvs),  *)
(* or stores those in RAM if there are none (write_wifi_params_nvs).       *)
WriteForceOta ==
  /\ \E i \in Ota : ota[i] = "absent"
  /\ btc' = "init" /\ forced' = TRUE
  /\ IF stored # NoBlob
       THEN wifi_params' = stored /\ written' = NoBlob /\ UNCHANGED stored
       ELSE /\ UNCHANGED <<wifi_params, written>>
            /\ stored' \in {wifi_params} \cup {s \in {NoBlob} : NvsMayFail}
  /\ UNCHANGED <<ota, awaited, refused>>

-----------------------------------------------------------------------------
(* BTC in the handler *)

BtcAt(label) == btc = label
BtcGoto(label) == btc' = label

(* strlen of the name, whose array the password follows, against 32. *)
Accepted == wifi_params \notin LongName

(* What strcpy takes: a password that fills its array has no NUL, and the  *)
(* limit it is tested against is the driver's 64.                          *)
Copied == {wifi_params} \cup {g \in {Garbled} : wifi_params \in Unterminated}

(* What follows wifi_sta_init, whatever it returned. *)
InitReturns == BtcGoto(IF forced THEN "create" ELSE "idle")

(* Fault: Wi-Fi is started before there is a group for its events. *)
InitConfiguresStarting ==
  /\ BtcAt("init") /\ Accepted
  /\ config' = wifi_params /\ started' = TRUE /\ events' = events \o <<"start">>
  /\ BtcGoto("group")
  /\ UNCHANGED <<group, connectedBits, link, handler>>
  /\ UNCHANGED <<forced, wifi_params, stored, ota, awaited, written, refused>>

InitConfigures ==
  /\ BtcAt("init") /\ Accepted
  /\ \E params \in Copied : Configure(params)
  /\ BtcGoto("group")
  /\ UNCHANGED <<forced, wifi_params, stored, ota, awaited, written, refused>>

(* The name or the password is too long, or the driver refuses. *)
InitFails ==
  /\ \/ BtcAt("init") /\ (~Accepted \/ wifi_params \in Unterminated \/ WifiMayFail)
     \/ BtcAt("start") /\ WifiMayFail
  /\ InitReturns
  /\ refused' = (group = 0)
  /\ UNCHANGED <<wifiVars, forced, wifi_params, stored, ota, awaited, written>>

InitCreatesGroup ==
  /\ BtcAt("group")
  /\ CreateGroup
  /\ BtcGoto("start")
  /\ refused' = FALSE
  /\ UNCHANGED <<forced, wifi_params, stored, ota, awaited, written>>

InitStarts ==
  /\ BtcAt("start")
  /\ StartWifi
  /\ BtcGoto("settle")
  /\ UNCHANGED <<forced, wifi_params, stored, ota, awaited, written, refused>>

InitSettles ==
  /\ BtcAt("settle")
  /\ InitReturns
  /\ UNCHANGED <<wifiVars, forced, wifi_params, stored, ota, awaited, written, refused>>

(* xTaskCreate of a local_ota_task. *)
CreateOtaTask ==
  /\ BtcAt("create")
  /\ \E i \in Ota : ota[i] = "absent" /\ ota' = [ota EXCEPT ![i] = "created"]
  /\ BtcGoto("idle") /\ forced' = FALSE
  /\ UNCHANGED <<wifiVars, wifi_params, stored, awaited, written, refused>>

(* The tare ends; or BTC is stopped for good, having suspended itself on a *)
(* NULL handle or waiting for a converter that is powered down; or it waits*)
(* for stdout, held by a task it has suspended, and so will all others.    *)
TareEnds ==
  /\ BtcAt("tare")
  /\ btc' \in {"idle", "stopped", "silenced"}
  /\ UNCHANGED <<wifiVars, forced, wifi_params, stored, ota, awaited, written, refused>>

BtcStep ==
  \/ TareEnds
  \/ InitConfigures \/ InitFails \/ InitCreatesGroup \/ InitStarts \/ InitSettles
  \/ CreateOtaTask

-----------------------------------------------------------------------------
(* The local_ota_tasks, as far as xEventGroupWaitBits *)

(* It logs, and waits, unless the flag is set already. *)
OtaWaits(i) ==
  /\ ota[i] = "created" /\ group > 0 /\ btc # "silenced"
  /\ IF group \in connectedBits
       THEN ota' = [ota EXCEPT ![i] = "online"] /\ UNCHANGED awaited
       ELSE /\ ota' = [ota EXCEPT ![i] = "waiting"]
            /\ awaited' = [awaited EXCEPT ![i] = group]
  /\ UNCHANGED <<wifiVars, btc, forced, wifi_params, stored, written, refused>>

(* wifi_sta_set_connected(true) wakes all that wait for this group. *)
OtaWoken ==
  /\ RaiseFlag
  /\ ota' = [i \in Ota |-> IF awaited[i] = group THEN "online" ELSE ota[i]]
  /\ awaited' = [i \in Ota |-> IF awaited[i] = group THEN 0 ELSE awaited[i]]
  /\ UNCHANGED <<btc, forced, wifi_params, stored, written, refused>>

=============================================================================
