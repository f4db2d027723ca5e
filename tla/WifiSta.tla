------------------------------- MODULE WifiSta -------------------------------
(***************************************************************************)
(* wifi_sta.c: wifi_sta_init, run by the BLE host's task, and the handler  *)
(* of the Wi-Fi events, run by the system event task; both use the static  *)
(* event group, which every initialisation creates anew.  Under them, the  *)
(* Wi-Fi driver and the access point.                                      *)
(***************************************************************************)
EXTENDS Naturals, Sequences

CONSTANTS
  MaxGroups,    (* initialisations between two starts of the chip          *)
  MaxEvents,    (* bound: Wi-Fi events that wait for the event task        *)
  WifiMayFail   (* the driver may refuse a call                            *)

ASSUME WifiAssumption ==
  /\ MaxGroups \in Nat /\ MaxEvents \in Nat \ {0}
  /\ WifiMayFail \in BOOLEAN

VARIABLES
  group,        (* wifi_sta_event_group, by number; 0 is NULL              *)
  connectedBits,(* the groups whose CONNECTED flag is set                  *)
  config,       (* what the driver was last configured with                *)
  started,      (* esp_wifi_start has succeeded                            *)
  link,         (* "idle", "connecting" or "up"                            *)
  events,       (* system events, in their order                           *)
  handler       (* the event task: "idle", or about to "raise" or "lower"  *)

wifiVars == <<group, connectedBits, config, started, link, events, handler>>

WifiInit(default) ==
  /\ group = 0 /\ connectedBits = {} /\ config = default
  /\ started = FALSE /\ link = "idle" /\ events = <<>> /\ handler = "idle"

WifiReset(default) ==
  /\ group' = 0 /\ connectedBits' = {} /\ config' = default
  /\ started' = FALSE /\ link' = "idle" /\ events' = <<>> /\ handler' = "idle"

-----------------------------------------------------------------------------
(* wifi_sta_init, in the steps between its delays *)

(* Fault: a driver that has been initialised keeps its configuration. *)
ConfigureOnce(params) ==
  /\ config' = IF group = 0 THEN params ELSE config
  /\ UNCHANGED <<group, connectedBits, started, link, events, handler>>

(* esp_wifi_init to esp_wifi_set_config: a link that is up stays up. *)
Configure(params) ==
  /\ config' = params
  /\ UNCHANGED <<group, connectedBits, started, link, events, handler>>

CreateGroup ==
  /\ group < MaxGroups
  /\ group' = group + 1
  /\ UNCHANGED <<connectedBits, config, started, link, events, handler>>

(* esp_wifi_start reports SYSTEM_EVENT_STA_START, the first time at least. *)
StartWifi ==
  /\ started' = TRUE
  /\ \/ events' = Append(events, "start")
     \/ started /\ UNCHANGED events
  /\ UNCHANGED <<group, connectedBits, config, link, handler>>

-----------------------------------------------------------------------------
(* wifi_sta_handle_event *)

NextEvent(event) ==
  /\ handler = "idle"
  /\ events # <<>> /\ Head(events) = event
  /\ events' = Tail(events)

(* esp_wifi_connect does nothing while connected or connecting. *)
WifiConnect == link' = IF started /\ link = "idle" THEN "connecting" ELSE link

StaStart ==
  /\ NextEvent("start")
  /\ WifiConnect
  /\ UNCHANGED <<group, connectedBits, config, started, handler>>

(* Fault: the test of the flag is the wrong way round. *)
StaGotIpInverted ==
  /\ NextEvent("got_ip")
  /\ handler' = IF group \notin connectedBits THEN "idle" ELSE "raise"
  /\ UNCHANGED <<group, connectedBits, config, started, link>>

(* wifi_sta_set_connected looks at the flag first, *)
StaGotIp ==
  /\ NextEvent("got_ip")
  /\ handler' = IF group \in connectedBits THEN "idle" ELSE "raise"
  /\ UNCHANGED <<group, connectedBits, config, started, link>>

(* Fault: the flag stays set. *)
StaDisconnectedQuietly ==
  /\ NextEvent("disconnected")
  /\ WifiConnect
  /\ UNCHANGED <<group, connectedBits, config, started, handler>>

(* Fault: no new attempt after one has failed. *)
StaDisconnectedForGood ==
  /\ NextEvent("disconnected")
  /\ handler' = IF group \in connectedBits THEN "lower" ELSE "idle"
  /\ UNCHANGED <<group, connectedBits, config, started, link>>

StaDisconnected ==
  /\ NextEvent("disconnected")
  /\ IF group \in connectedBits
       THEN handler' = "lower" /\ UNCHANGED link
       ELSE WifiConnect /\ UNCHANGED handler
  /\ UNCHANGED <<group, connectedBits, config, started>>

(* and sets or clears it then, in the group that is current by now. *)
RaiseFlag ==
  /\ handler = "raise"
  /\ connectedBits' = connectedBits \cup {group}
  /\ handler' = "idle"
  /\ UNCHANGED <<group, config, started, link, events>>

LowerFlag ==
  /\ handler = "lower"
  /\ connectedBits' = connectedBits \ {group}
  /\ WifiConnect
  /\ handler' = "idle"
  /\ UNCHANGED <<group, config, started, events>>

WifiEvent == StaStart \/ StaGotIp \/ StaDisconnected \/ LowerFlag

-----------------------------------------------------------------------------
(* The access point and the driver *)

Associated ==
  /\ link = "connecting" /\ Len(events) < MaxEvents
  /\ link' = "up"
  /\ events' = Append(events, "got_ip")
  /\ UNCHANGED <<group, connectedBits, config, started, handler>>

(* An attempt fails, or the link is lost. *)
Dropped ==
  /\ link # "idle" /\ Len(events) < MaxEvents
  /\ link' = "idle"
  /\ events' = Append(events, "disconnected")
  /\ UNCHANGED <<group, connectedBits, config, started, handler>>

=============================================================================
