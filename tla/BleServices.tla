----------------------------- MODULE BleServices -----------------------------
(***************************************************************************)
(* ble_lead.c, the start of the GATT server by app_main and the events of  *)
(* the BLE host that set up the services and keep the device advertising.  *)
(* Under it, what the host does with the calls: it carries them out in the *)
(* order they were made, and its task (BTC) runs the handlers in that      *)
(* order, one after another.                                               *)
(***************************************************************************)
EXTENDS Naturals, Sequences, FiniteSets

CONSTANTS
  MaxLinks,     (* connections the controller takes at once                *)
  MaxWaiting    (* bound: events of one kind that wait for BTC             *)

Profile == {"device", "settings"}
AdvFlag == {"adv", "rsp"}
RegEvt    == [device |-> "reg_device",    settings |-> "reg_settings"]
CreateEvt == [device |-> "create_device", settings |-> "create_settings"]
Event == AdvFlag \cup {"connect", "disconnect"}
           \cup {RegEvt[p] : p \in Profile} \cup {CreateEvt[p] : p \in Profile}

ASSUME BleAssumption == MaxLinks \in Nat \ {0} /\ MaxWaiting \in Nat \ {0}

VARIABLES
  enabling,     (* where app_main is in enable_ble_lead                    *)
  adv_config_done,
  queue,        (* the events that wait for BTC, in their order            *)
  services,     (* the profiles whose service has been started             *)
  advertising,
  links         (* clients connected                                       *)

bleVars == <<enabling, adv_config_done, queue, services, advertising, links>>

BleInit ==
  /\ enabling = "advertising" /\ adv_config_done = {} /\ queue = <<>>
  /\ services = {} /\ advertising = FALSE /\ links = 0

BleReset ==
  /\ enabling' = "advertising" /\ adv_config_done' = {} /\ queue' = <<>>
  /\ services' = {} /\ advertising' = FALSE /\ links' = 0

Post(new) == queue' = queue \o new

(* One event is handled, and the calls it makes will cause new ones. *)
Handle(event, new) ==
  /\ queue # <<>> /\ Head(queue) = event
  /\ queue' = Tail(queue) \o new

(* esp_ble_gap_start_advertising fails when every connection is taken. *)
StartAdvertising == advertising' = (advertising \/ links < MaxLinks)

-----------------------------------------------------------------------------
(* enable_ble_lead *)

(* setup_lead_advertising: advertising data and scan response are handed   *)
(* over, and their flags are raised.  Nobody looks at the flags yet.       *)
SetUpAdvertising ==
  /\ enabling = "advertising"
  /\ enabling' = "gap"
  /\ adv_config_done' = AdvFlag
  /\ Post(<<"adv", "rsp">>)
  /\ UNCHANGED <<services, advertising, links>>

(* esp_ble_gap_register_callback: only now are completions reported. *)
RegisterGap ==
  /\ enabling = "gap"
  /\ enabling' = "device"
  /\ UNCHANGED <<adv_config_done, queue, services, advertising, links>>

GapRegistered == enabling \notin {"advertising", "gap"}

(* esp_ble_gatts_app_register, once for each service. *)
RegisterApp(profile, next) ==
  /\ enabling = profile
  /\ enabling' = next
  /\ Post(<<RegEvt[profile]>>)
  /\ UNCHANGED <<adv_config_done, services, advertising, links>>

EnableBleLead ==
  \/ SetUpAdvertising \/ RegisterGap
  \/ RegisterApp("device", "settings") \/ RegisterApp("settings", "done")

-----------------------------------------------------------------------------
(* Events *)

(* A completion clears its flag, and the last one starts advertising; one  *)
(* that comes before the callback is registered is lost.                   *)
ConfigComplete(flag) ==
  /\ Handle(flag, <<>>)
  /\ IF GapRegistered
       THEN /\ adv_config_done' = adv_config_done \ {flag}
            /\ IF adv_config_done' = {} THEN StartAdvertising ELSE UNCHANGED advertising
       ELSE UNCHANGED <<adv_config_done, advertising>>
  /\ UNCHANGED <<enabling, services, links>>

(* Fault: the device profile leaves the advertising data alone. *)
RegisteredQuietly(profile) ==
  /\ Handle(RegEvt[profile], <<CreateEvt[profile]>>)
  /\ UNCHANGED <<enabling, adv_config_done, services, advertising, links>>

(* ESP_GATTS_REG_EVT: the profile's gatts_if is stored and its handler     *)
(* creates the service; the device profile sets up advertising once more.  *)
Registered(profile) ==
  /\ IF profile = "device"
       THEN /\ Handle(RegEvt[profile], <<"adv", "rsp", CreateEvt[profile]>>)
            /\ adv_config_done' = AdvFlag
       ELSE /\ Handle(RegEvt[profile], <<CreateEvt[profile]>>)
            /\ UNCHANGED adv_config_done
  /\ UNCHANGED <<enabling, services, advertising, links>>

(* ESP_GATTS_CREATE_EVT adds the characteristics and starts the service;   *)
(* the handles follow in ESP_GATTS_ADD_CHAR_EVT, before any client's event.*)
ServiceCreated(profile) ==
  /\ Handle(CreateEvt[profile], <<>>)
  /\ services' = services \cup {profile}
  /\ UNCHANGED <<enabling, adv_config_done, advertising, links>>

(* ESP_GATTS_CONNECT_EVT and ESP_GATTS_DISCONNECT_EVT of the device        *)
(* profile: connectable advertising ended with the connection.             *)
LinkEvent(event) ==
  /\ Handle(event, <<>>)
  /\ StartAdvertising
  /\ UNCHANGED <<enabling, adv_config_done, services, links>>

BleEvent ==
  \/ \E flag \in AdvFlag : ConfigComplete(flag)
  \/ \E profile \in Profile : Registered(profile) \/ ServiceCreated(profile)
  \/ \E event \in {"connect", "disconnect"} : LinkEvent(event)

-----------------------------------------------------------------------------
(* Clients, and the host's part in it: an event goes to the device profile *)
(* once that is registered.                                                *)

Pending(event) == Cardinality({i \in DOMAIN queue : queue[i] = event})
DeviceRegistered == enabling \in {"settings", "done"} /\ Pending(RegEvt["device"]) = 0
Heard(event) == IF DeviceRegistered THEN <<event>> ELSE <<>>

ClientConnects ==
  /\ advertising /\ links < MaxLinks /\ Pending("connect") < MaxWaiting
  /\ links' = links + 1
  /\ advertising' = FALSE
  /\ Post(Heard("connect"))
  /\ UNCHANGED <<enabling, adv_config_done, services>>

ClientLeaves ==
  /\ links > 0 /\ Pending("disconnect") < MaxWaiting
  /\ links' = links - 1
  /\ Post(Heard("disconnect"))
  /\ UNCHANGED <<enabling, adv_config_done, services, advertising>>

=============================================================================
