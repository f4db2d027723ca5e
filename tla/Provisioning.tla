---------------------------- MODULE Provisioning ----------------------------
(***************************************************************************)
(* The device as a BLE client provisions it: advertising and connections,  *)
(* the Wi-Fi credentials, CONNECT_WIFI and FORCE_OTA, the Wi-Fi station    *)
(* and the update tasks that wait for it.                                  *)
(***************************************************************************)
EXTENDS BleSettings

CONSTANT MaxOutages  (* bound: how often the supply is switched off and on *)

ASSUME ProvisioningAssumption == MaxOutages \in Nat

VARIABLE outages

vars == <<bleVars, wifiVars, settingsVars, outages>>

Init == BleInit /\ WifiInit(Default) /\ SettingsInit /\ outages = 0

Reboot == BleReset /\ WifiReset(Default) /\ SettingsReset

(* A client writes, to a service that has been started, and BTC is free. *)
Write ==
  /\ links > 0 /\ "settings" \in services /\ BtcAt("idle")
  /\ \/ \E pair \in Credentials : WriteCredentials(pair)
     \/ group < MaxGroups /\ (WriteConnectWifi \/ WriteForceOta)
     \/ WriteTare
  /\ UNCHANGED <<bleVars, wifiVars, outages>>

(* A task that finds no group at all passes NULL to xEventGroupWaitBits,   *)
(* which asserts; a task that comes online restarts the chip in the end,   *)
(* or ends.                                                                *)
OtaFindsNoGroup == group = 0 /\ (\E i \in Ota : ota[i] = "created") /\ UNCHANGED outages
OtaRestarts == (\E i \in Ota : ota[i] = "online") /\ UNCHANGED outages
PowerCycle  == outages < MaxOutages /\ outages' = outages + 1

Restart == (OtaFindsNoGroup \/ OtaRestarts \/ PowerCycle) /\ Reboot

Main    == EnableBleLead /\ UNCHANGED <<wifiVars, settingsVars, outages>>
BtcBle  == BtcAt("idle") /\ BleEvent /\ UNCHANGED <<wifiVars, settingsVars, outages>>
Btc     == BtcStep /\ UNCHANGED <<bleVars, outages>>
EventTask ==    (* it logs every event before it looks at it *)
  \/ (handler # "idle" \/ btc # "silenced") /\ WifiEvent /\ UNCHANGED <<bleVars, settingsVars, outages>>
  \/ OtaWoken /\ UNCHANGED <<bleVars, outages>>
OtaTask == (\E i \in Ota : OtaWaits(i)) /\ UNCHANGED <<bleVars, outages>>
Client  == (ClientConnects \/ ClientLeaves) /\ UNCHANGED <<wifiVars, settingsVars, outages>>
Network == (Associated \/ Dropped) /\ UNCHANGED <<bleVars, settingsVars, outages>>

Next ==
  \/ Main \/ BtcBle \/ Btc \/ EventTask \/ OtaTask
  \/ Write \/ Client \/ Network \/ Restart

(* The tasks run whenever they can; BTC takes its events in the order they *)
(* came in, so writes do not keep it from the others for ever.  Nobody has *)
(* to connect, to write or to let the station associate.                   *)
Fairness ==
  WF_vars(Main) /\ SF_vars(BtcBle) /\ WF_vars(Btc) /\ WF_vars(EventTask) /\ WF_vars(OtaTask)

Safe == Init /\ [][Next]_vars
Spec == Safe /\ Fairness

-----------------------------------------------------------------------------
(* Safety *)

(* Type correctness. *)
BleTypes ==
  /\ enabling \in {"advertising", "gap", "device", "settings", "done"}
  /\ adv_config_done \subseteq AdvFlag /\ queue \in Seq(Event)
  /\ services \subseteq Profile /\ advertising \in BOOLEAN /\ links \in 0 .. MaxLinks

WifiTypes ==
  /\ group \in 0 .. MaxGroups /\ connectedBits \subseteq 1 .. MaxGroups
  /\ config \in Credentials \cup {Garbled} /\ started \in BOOLEAN /\ link \in {"idle", "connecting", "up"}
  /\ events \in Seq({"start", "got_ip", "disconnected"}) /\ handler \in {"idle", "raise", "lower"}

SettingsTypes ==
  /\ btc \in {"idle", "init", "group", "start", "settle", "create", "tare", "stopped", "silenced"}
  /\ forced \in BOOLEAN
  /\ wifi_params \in Credentials /\ stored \in Credentials \cup {NoBlob}
  /\ ota \in [Ota -> {"absent", "created", "waiting", "online"}]
  /\ awaited \in [Ota -> 0 .. MaxGroups]
  /\ written \in Credentials \cup {NoBlob} /\ refused \in BOOLEAN

TypeOK == BleTypes /\ WifiTypes /\ SettingsTypes /\ outages \in 0 .. MaxOutages

(* The connected flag, as any task reads it from the current group, is     *)
(* never set while the link is down, except as long as the event that says *)
(* so has not been handled: a second initialisation, which replaces the    *)
(* group between the test and the change of the flag, does not break that. *)
FlagIsTrue ==
  group \in connectedBits /\ link # "up" =>
    handler = "lower" \/ \E i \in DOMAIN events : events[i] = "disconnected"

(* Every Wi-Fi event finds an event group: xEventGroupGetBits asserts that *)
(* its handle is not NULL.                                                 *)
EventsFindGroup == events # <<>> \/ handler # "idle" => group > 0

(* A local_ota_task finds an event group to wait for, unless a             *)
(* wifi_sta_init has been refused.                                         *)
TaskFindsGroup == (\E i \in Ota : ota[i] = "created") => group > 0 \/ refused

(* The driver is configured with what the client wrote last, unless a      *)
(* FORCE_OTA since has put what NVS holds in its place: never with what an *)
(* earlier initialisation had, and with bytes nobody wrote only where a    *)
(* password fills its array.                                               *)
InForce == IF written = NoBlob THEN stored ELSE written

CredentialsUsed ==
  btc \in {"group", "start"} =>
    config = InForce \/ (config = Garbled /\ InForce \in Unterminated)

-----------------------------------------------------------------------------
(* What the safety properties rest on *)

(* Wi-Fi is started, and its link goes up, with a group in place only; a   *)
(* group to come has no flag yet.                                          *)
GroupOK ==
  /\ started \/ link # "idle" \/ btc \in {"start", "settle"} => group > 0
  /\ btc = "create" => group > 0 \/ refused
  /\ connectedBits \subseteq 1 .. group

(* The news that the link went down comes after the news that it was up.   *)
NewsInOrder ==
  link # "up" =>
    /\ \A i \in DOMAIN events :
         events[i] = "got_ip" => \E j \in DOMAIN events : j > i /\ events[j] = "disconnected"
    /\ handler = "raise" => \E j \in DOMAIN events : events[j] = "disconnected"

(* RAM has the credentials in force. *)
CredentialsKept == wifi_params = InForce

IInv ==
  /\ TypeOK /\ GroupOK /\ NewsInOrder /\ CredentialsKept
  /\ FlagIsTrue /\ EventsFindGroup /\ TaskFindsGroup /\ CredentialsUsed

-----------------------------------------------------------------------------
(* Liveness *)

(* As long as a connection is free, the device is soon to be found again,  *)
(* whichever completions the start of app_main has missed and however long *)
(* a FORCE_OTA or a tare keeps BTC busy, unless a tare stops BTC for good. *)
Connectable ==
  links < MaxLinks ~> advertising \/ links = MaxLinks \/ btc \in {"stopped", "silenced"}

(* A link that is lost, or could not be made, is tried again, unless a     *)
(* tare leaves stdout locked.                                              *)
Reconnects == started /\ link = "idle" ~> link # "idle" \/ ~started \/ btc = "silenced"

(* A task that waits for the current group when the station gets its       *)
(* address is woken, unless the group is replaced meanwhile, or a tare     *)
(* leaves stdout locked.                                                   *)
WaiterIsWoken ==
  \A i \in Ota :
    (ota[i] = "waiting" /\ awaited[i] = group /\ \E e \in DOMAIN events : events[e] = "got_ip")
      ~> ota[i] # "waiting" \/ awaited[i] # group \/ btc = "silenced"

=============================================================================
