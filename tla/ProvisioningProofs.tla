------------------------- MODULE ProvisioningProofs -------------------------
(***************************************************************************)
(* The safety of provisioning, for any credentials and any number of       *)
(* connections, initialisations, events and update tasks.  IInv is         *)
(* inductive: one lemma for each of its conjuncts follows every action of  *)
(* Next.                                                                   *)
(***************************************************************************)
EXTENDS Provisioning, SequenceTheorems, TLAPS

-----------------------------------------------------------------------------
(* The event queues *)

(* What may be put into the two queues. *)
WifiNews == {"start", "got_ip", "disconnected"}

(* The first event of a queue is taken: the others move up by one.         *)
LEMMA Taken ==
  ASSUME NEW S, NEW s \in Seq(S), s # <<>>
  PROVE  /\ Tail(s) \in Seq(S) /\ Len(s) \in Nat \ {0} /\ Len(Tail(s)) = Len(s) - 1
         /\ DOMAIN s = 1 .. Len(s) /\ DOMAIN Tail(s) = 1 .. Len(Tail(s))
         /\ Head(s) = s[1]
         /\ \A i \in DOMAIN Tail(s) : i + 1 \in DOMAIN s /\ Tail(s)[i] = s[i + 1]
         /\ \A i \in DOMAIN s : i > 1 => i - 1 \in DOMAIN Tail(s) /\ Tail(s)[i - 1] = s[i]
<1>1. /\ Tail(s) \in Seq(S) /\ Len(Tail(s)) = Len(s) - 1
      /\ \A i \in 1 .. Len(Tail(s)) : Tail(s)[i] = s[i + 1]
  BY HeadTailProperties
<1>2. Len(s) \in Nat \ {0} /\ DOMAIN s = 1 .. Len(s) /\ DOMAIN Tail(s) = 1 .. Len(Tail(s))
  BY <1>1, LenProperties, EmptySeq
<1>3. Head(s) = s[1]
  OBVIOUS
<1>4. \A i \in DOMAIN Tail(s) : i + 1 \in DOMAIN s /\ Tail(s)[i] = s[i + 1]
  BY <1>1, <1>2
<1>5. \A i \in DOMAIN s : i > 1 => i - 1 \in DOMAIN Tail(s) /\ Tail(s)[i - 1] = s[i]
  <2> TAKE i \in DOMAIN s
  <2> HAVE i > 1
  <2>1. i - 1 \in 1 .. Len(Tail(s)) /\ (i - 1) + 1 = i
    BY <1>1, <1>2
  <2> QED  BY <1>1, <1>2, <2>1
<1> QED  BY <1>1, <1>2, <1>3, <1>4, <1>5

(* One event is added at the end. *)
LEMMA Added ==
  ASSUME NEW S, NEW s \in Seq(S), NEW e \in S
  PROVE  /\ Append(s, e) \in Seq(S) /\ Len(s) \in Nat
         /\ DOMAIN s = 1 .. Len(s) /\ DOMAIN Append(s, e) = 1 .. Len(s) + 1
         /\ \A i \in DOMAIN s : i \in DOMAIN Append(s, e) /\ Append(s, e)[i] = s[i]
         /\ Append(s, e)[Len(s) + 1] = e
         /\ Append(s, e) # <<>>
<1>1. /\ Append(s, e) \in Seq(S) /\ Append(s, e) # <<>> /\ Len(Append(s, e)) = Len(s) + 1
      /\ \A i \in 1 .. Len(s) : Append(s, e)[i] = s[i]
      /\ Append(s, e)[Len(s) + 1] = e
  BY AppendProperties
<1>2. Len(s) \in Nat /\ DOMAIN s = 1 .. Len(s) /\ DOMAIN Append(s, e) = 1 .. Len(s) + 1
  BY <1>1, LenProperties
<1> QED  BY <1>1, <1>2

(* Short lists of events for BTC, and what joins them to the queue. *)
LEMMA Posted ==
  /\ \A q, new \in Seq(Event) : q \o new \in Seq(Event)
  /\ \A q \in Seq(Event) : q # <<>> => Tail(q) \in Seq(Event)
  /\ <<>> \in Seq(Event)
  /\ \A e \in Event : <<e>> \in Seq(Event)
  /\ \A e, f \in Event : <<e, f>> \in Seq(Event)
  /\ \A e, f, g \in Event : <<e, f, g>> \in Seq(Event)
<1>1. \A q, new \in Seq(Event) : q \o new \in Seq(Event)
  BY ConcatProperties
<1>2. \A q \in Seq(Event) : q # <<>> => Tail(q) \in Seq(Event)
  BY HeadTailProperties
<1> HIDE DEF Event
<1>3. <<>> \in Seq(Event) /\ \A e \in Event : <<e>> \in Seq(Event)
  OBVIOUS
<1>4. \A e, f \in Event : <<e, f>> \in Seq(Event)
  OBVIOUS
<1>5. \A e, f, g \in Event : <<e, f, g>> \in Seq(Event)
  OBVIOUS
<1> QED  BY <1>1, <1>2, <1>3, <1>4, <1>5

(* The events there are. *)
LEMMA Events ==
  /\ {"adv", "rsp", "connect", "disconnect"} \subseteq Event
  /\ \A p \in Profile : RegEvt[p] \in Event /\ CreateEvt[p] \in Event
  BY DEF Event, AdvFlag

-----------------------------------------------------------------------------
(* Types *)

LEMMA BleTypesKept ==
  ASSUME BleTypes, EnableBleLead \/ BleEvent \/ ClientConnects \/ ClientLeaves
  PROVE  BleTypes'
<1> USE Posted, Events, BleAssumption
<1>1. CASE SetUpAdvertising
  BY <1>1 DEF BleTypes, SetUpAdvertising, Post
<1>2. CASE RegisterGap
  BY <1>2 DEF BleTypes, RegisterGap
<1>3. ASSUME NEW p \in Profile, NEW next \in {"settings", "done"}, RegisterApp(p, next)
      PROVE  BleTypes'
  BY <1>3 DEF BleTypes, RegisterApp, Post
<1>4. ASSUME NEW flag \in AdvFlag, ConfigComplete(flag) PROVE BleTypes'
  BY <1>4 DEF BleTypes, ConfigComplete, Handle, StartAdvertising
<1>5. ASSUME NEW p \in Profile, Registered(p) PROVE BleTypes'
  <2>1. queue \in Seq(Event) /\ queue # <<>>
    BY <1>5, Zenon DEF BleTypes, Registered, Handle
  <2>2. RegEvt[p] \in Event /\ CreateEvt[p] \in Event /\ Tail(queue) \in Seq(Event)
    BY <1>5, <2>1
  <2>3. PICK new \in Seq(Event) : queue' = Tail(queue) \o new
    <3>1. <<"adv", "rsp", CreateEvt[p]>> \in Seq(Event) /\ <<CreateEvt[p]>> \in Seq(Event)
      BY <2>2
    <3> QED  BY <1>5, <3>1, Zenon DEF Registered, Handle
  <2>4. adv_config_done' \subseteq AdvFlag /\ UNCHANGED <<enabling, services, advertising, links>>
    BY <1>5, Zenon DEF BleTypes, Registered
  <2>5. queue' \in Seq(Event)
    BY <2>2, <2>3
  <2> QED  BY <2>4, <2>5, Zenon DEF BleTypes
<1>6. ASSUME NEW p \in Profile, ServiceCreated(p) PROVE BleTypes'
  BY <1>6 DEF BleTypes, ServiceCreated, Handle
<1>7. ASSUME NEW e, LinkEvent(e) PROVE BleTypes'
  BY <1>7 DEF BleTypes, LinkEvent, Handle, StartAdvertising
<1>8. CASE ClientConnects
  <2>1. queue' \in Seq(Event)
    BY <1>8 DEF BleTypes, ClientConnects, Post, Heard
  <2>2. links' \in 0 .. MaxLinks
    BY <1>8 DEF BleTypes, ClientConnects
  <2>3. advertising' \in BOOLEAN /\ UNCHANGED <<enabling, adv_config_done, services>>
    BY <1>8, Zenon DEF ClientConnects
  <2> QED  BY <2>1, <2>2, <2>3, Zenon DEF BleTypes
<1>9. CASE ClientLeaves
  BY <1>9 DEF BleTypes, ClientLeaves, Post, Heard
<1>10. "device" \in Profile /\ "settings" \in Profile
  BY DEF Profile
<1> QED
  BY ONLY <1>1, <1>2, <1>3, <1>4, <1>5, <1>6, <1>7, <1>8, <1>9, <1>10,
          EnableBleLead \/ BleEvent \/ ClientConnects \/ ClientLeaves, Zenon
     DEF EnableBleLead, BleEvent

(* What RaiseFlag, WifiEvent, Associated and Dropped leave of Wi-Fi's      *)
(* types; the group is there for the flag to be set in it.                 *)
LEMMA WifiTypesKept ==
  ASSUME WifiTypes, EventsFindGroup, RaiseFlag \/ WifiEvent \/ Associated \/ Dropped
  PROVE  WifiTypes'
<1> USE WifiAssumption
<1>1. /\ events \in Seq(WifiNews)
      /\ events # <<>> => Tail(events) \in Seq(WifiNews)
      /\ \A e \in WifiNews : Append(events, e) \in Seq(WifiNews)
  BY Taken, Added DEF WifiTypes, WifiNews
<1>2. ASSUME WifiConnect PROVE link' \in {"idle", "connecting", "up"}
  BY <1>2 DEF WifiConnect, WifiTypes
<1>3. CASE RaiseFlag
  BY <1>3 DEF RaiseFlag, WifiTypes, EventsFindGroup
<1>4. CASE StaStart
  BY <1>1, <1>2, <1>4 DEF StaStart, NextEvent, WifiTypes, WifiNews
<1>5. CASE StaGotIp
  BY <1>1, <1>5 DEF StaGotIp, NextEvent, WifiTypes, WifiNews
<1>6. CASE StaDisconnected
  BY <1>1, <1>2, <1>6 DEF StaDisconnected, NextEvent, WifiTypes, WifiNews
<1>7. CASE LowerFlag
  BY <1>2, <1>7 DEF LowerFlag, WifiTypes
<1>8. CASE Associated
  BY <1>1, <1>8 DEF Associated, WifiTypes, WifiNews
<1>9. CASE Dropped
  BY <1>1, <1>9 DEF Dropped, WifiTypes, WifiNews
<1> QED
  BY ONLY <1>3, <1>4, <1>5, <1>6, <1>7, <1>8, <1>9,
          RaiseFlag \/ WifiEvent \/ Associated \/ Dropped, Zenon
     DEF WifiEvent

(* The same for BTC inside wifi_sta_init, and its own variables. *)
LEMMA BtcTypesKept ==
  ASSUME WifiTypes, SettingsTypes, BtcStep
  PROVE  WifiTypes' /\ SettingsTypes'
<1> USE WifiAssumption, SettingsAssumption
<1>1. CASE InitConfigures
  <2>1. PICK params \in Copied : Configure(params)
    BY <1>1, Zenon DEF InitConfigures
  <2>2. params \in Credentials \cup {Garbled}
    BY DEF Copied, SettingsTypes
  <2> QED  BY <1>1, <2>1, <2>2 DEF InitConfigures, Configure, BtcGoto, WifiTypes, SettingsTypes
<1>2. CASE InitFails
  <2>1. btc' \in {"create", "idle"} /\ refused' \in BOOLEAN
    BY <1>2 DEF InitFails, InitReturns, BtcGoto
  <2>2. UNCHANGED <<wifiVars, forced, wifi_params, stored, ota, awaited, written>>
    BY <1>2, Zenon DEF InitFails
  <2> QED  BY <2>1, <2>2 DEF wifiVars, WifiTypes, SettingsTypes
<1>3. CASE InitCreatesGroup
  <2>1. /\ group < MaxGroups /\ group' = group + 1 /\ btc' = "start" /\ refused' = FALSE
        /\ UNCHANGED <<connectedBits, config, started, link, events, handler>>
        /\ UNCHANGED <<forced, wifi_params, stored, ota, awaited, written>>
    BY <1>3, Zenon DEF InitCreatesGroup, CreateGroup, BtcGoto
  <2>2. WifiTypes'
    BY <2>1 DEF WifiTypes
  <2>3. SettingsTypes'
    BY <2>1, Zenon DEF SettingsTypes
  <2> QED  BY <2>2, <2>3
<1>4. CASE InitStarts
  <2>1. "start" \in WifiNews /\ events \in Seq(WifiNews) /\ Append(events, "start") \in Seq(WifiNews)
    BY Added DEF WifiTypes, WifiNews
  <2> QED  BY <1>4, <2>1 DEF InitStarts, StartWifi, BtcGoto, WifiTypes, SettingsTypes, WifiNews
<1>5. CASE InitSettles
  BY <1>5 DEF InitSettles, InitReturns, BtcGoto, wifiVars, WifiTypes, SettingsTypes
<1>6. CASE CreateOtaTask
  BY <1>6 DEF CreateOtaTask, BtcGoto, wifiVars, WifiTypes, SettingsTypes
<1>7. CASE TareEnds
  BY <1>7 DEF TareEnds, wifiVars, WifiTypes, SettingsTypes
<1> QED
  BY ONLY <1>1, <1>2, <1>3, <1>4, <1>5, <1>6, <1>7, BtcStep, Zenon DEF BtcStep

(* Writes, and the update tasks. *)
LEMMA SettingsTypesKept ==
  ASSUME WifiTypes, SettingsTypes,
         \/ \E pair \in Credentials : WriteCredentials(pair)
         \/ WriteConnectWifi \/ WriteForceOta \/ WriteTare \/ OtaWoken
         \/ \E i \in Ota : OtaWaits(i)
  PROVE  SettingsTypes'
<1> USE SettingsAssumption
<1>1. ASSUME NEW pair \in Credentials, WriteCredentials(pair) PROVE SettingsTypes'
  BY <1>1 DEF WriteCredentials, SettingsTypes
<1>2. CASE WriteConnectWifi
  BY <1>2 DEF WriteConnectWifi, SettingsTypes
<1>3. CASE WriteForceOta
  BY <1>3 DEF WriteForceOta, SettingsTypes
<1>4. CASE OtaWoken
  <2>1. ota' \in [Ota -> {"absent", "created", "waiting", "online"}]
    BY <1>4 DEF OtaWoken, SettingsTypes
  <2>2. awaited' \in [Ota -> 0 .. MaxGroups]
    BY <1>4, WifiAssumption DEF OtaWoken, SettingsTypes
  <2>3. UNCHANGED <<btc, forced, wifi_params, stored, written, refused>>
    BY <1>4 DEF OtaWoken
  <2> QED  BY <2>1, <2>2, <2>3 DEF SettingsTypes
<1>5. ASSUME NEW i \in Ota, OtaWaits(i) PROVE SettingsTypes'
  BY <1>5 DEF OtaWaits, SettingsTypes, WifiTypes
<1>6. CASE WriteTare
  BY <1>6 DEF WriteTare, SettingsTypes
<1> QED
  BY ONLY <1>1, <1>2, <1>3, <1>4, <1>5, <1>6,
          \/ \E pair \in Credentials : WriteCredentials(pair)
          \/ WriteConnectWifi \/ WriteForceOta \/ WriteTare \/ OtaWoken
          \/ \E i \in Ota : OtaWaits(i),
          Zenon

(* A restart: the types, and whatever else is true of RAM at reset. *)
LEMMA RestartHolds == IInv /\ Restart => IInv'
<1> SUFFICES ASSUME IInv, Restart PROVE IInv'
  OBVIOUS
<1> USE BleAssumption, WifiAssumption, SettingsAssumption, ProvisioningAssumption
<1>1. Reboot /\ BleTypes /\ WifiTypes /\ SettingsTypes /\ outages \in 0 .. MaxOutages
  BY Zenon DEF Restart, IInv, TypeOK
<1>2. BleTypes'
  <2>1. /\ enabling' = "advertising" /\ adv_config_done' = {} /\ queue' = <<>>
        /\ services' = {} /\ advertising' \in BOOLEAN /\ links' = 0
    BY <1>1, Zenon DEF Reboot, BleReset
  <2> QED  BY <2>1, Posted DEF BleTypes
<1>3. WifiTypes'
  <2>1. /\ group' = 0 /\ connectedBits' = {} /\ config' = Default
        /\ started' \in BOOLEAN /\ link' = "idle" /\ events' = <<>> /\ handler' = "idle"
    BY <1>1, Zenon DEF Reboot, WifiReset
  <2> QED  BY <2>1 DEF WifiTypes
<1>4. SettingsTypes'
  <2>1. /\ btc' = "idle" /\ forced' \in BOOLEAN /\ wifi_params' = Default /\ written' = Default
        /\ ota' = [i \in Ota |-> "absent"] /\ awaited' = [i \in Ota |-> 0]
        /\ refused' \in BOOLEAN /\ stored' \in {stored, NoBlob}
    BY <1>1 DEF Reboot, SettingsReset
  <2> QED  BY <1>1, <2>1 DEF SettingsTypes
<1>5. outages' \in 0 .. MaxOutages
  <2>1. OtaFindsNoGroup \/ OtaRestarts \/ PowerCycle
    BY Zenon DEF Restart
  <2>2. UNCHANGED outages \/ (outages < MaxOutages /\ outages' = outages + 1)
    BY <2>1, Zenon DEF OtaFindsNoGroup, OtaRestarts, PowerCycle
  <2> QED  BY <1>1, <2>2
<1>6. /\ group' = 0 /\ started' = FALSE /\ link' = "idle" /\ events' = <<>> /\ handler' = "idle"
      /\ connectedBits' = {} /\ btc' = "idle" /\ wifi_params' = Default /\ written' = Default
      /\ \A i \in Ota : ota'[i] = "absent"
  BY <1>1 DEF Reboot, WifiReset, SettingsReset
<1>7. TypeOK'
  BY <1>2, <1>3, <1>4, <1>5, Zenon DEF TypeOK
<1>8. GroupOK' /\ CredentialsKept' /\ FlagIsTrue' /\ EventsFindGroup' /\ TaskFindsGroup'
      /\ CredentialsUsed'
  BY <1>6
     DEF GroupOK, CredentialsKept, InForce, FlagIsTrue, EventsFindGroup, TaskFindsGroup, CredentialsUsed
<1>9. NewsInOrder'
  BY <1>6 DEF NewsInOrder
<1> QED  BY <1>7, <1>8, <1>9, Zenon DEF IInv

-----------------------------------------------------------------------------
(* The steps, by what they touch *)

(* A client's write to a service; BTC is free for it. *)
Writes ==
  /\ btc = "idle"
  /\ \/ \E pair \in Credentials : WriteCredentials(pair)
     \/ WriteConnectWifi \/ WriteForceOta \/ WriteTare

LEMMA NextCases ==
  [Next]_vars =>
    \/ UNCHANGED <<wifiVars, settingsVars>>
    \/ BtcStep
    \/ (WifiEvent \/ Associated \/ Dropped) /\ UNCHANGED settingsVars
    \/ OtaWoken
    \/ (\E i \in Ota : OtaWaits(i)) /\ UNCHANGED wifiVars
    \/ Writes /\ UNCHANGED wifiVars
    \/ Restart
<1> USE DEF wifiVars, settingsVars
<1>1. Main \/ BtcBle \/ Client \/ UNCHANGED vars => UNCHANGED <<wifiVars, settingsVars>>
  BY Zenon DEF Main, BtcBle, Client, vars
<1>2. Btc => BtcStep
  BY Zenon DEF Btc
<1>3. EventTask \/ Network =>
        ((WifiEvent \/ Associated \/ Dropped) /\ UNCHANGED settingsVars) \/ OtaWoken
  BY Zenon DEF EventTask, Network
<1>4. OtaTask => (\E i \in Ota : OtaWaits(i)) /\ UNCHANGED wifiVars
  BY Zenon DEF OtaTask, OtaWaits
<1>5. Write => Writes /\ UNCHANGED wifiVars
  BY Zenon DEF Write, Writes, BtcAt
<1> QED  BY ONLY <1>1, <1>2, <1>3, <1>4, <1>5, Zenon DEF Next

(* Type correctness is kept. *)
LEMMA TypeStep == IInv /\ [Next]_vars => TypeOK'
<1> SUFFICES ASSUME IInv PROVE [Next]_vars => TypeOK'
  OBVIOUS
<1>1. /\ BleTypes /\ WifiTypes /\ SettingsTypes /\ outages \in 0 .. MaxOutages /\ EventsFindGroup
  BY Zenon DEF IInv, TypeOK
<1>2. UNCHANGED bleVars => BleTypes'
  BY <1>1, Zenon DEF bleVars, BleTypes
<1>3. UNCHANGED wifiVars => WifiTypes'
  BY <1>1, Zenon DEF wifiVars, WifiTypes
<1>4. UNCHANGED settingsVars => SettingsTypes'
  BY <1>1, Zenon DEF settingsVars, SettingsTypes
<1>5. outages' = outages => outages' \in 0 .. MaxOutages
  BY <1>1
<1>6. Main \/ BtcBle \/ Client => TypeOK'
  BY <1>1, <1>3, <1>4, <1>5, BleTypesKept, Zenon
     DEF Main, BtcBle, Client, TypeOK
<1>7. Btc => TypeOK'
  BY <1>1, <1>2, <1>5, BtcTypesKept, Zenon DEF Btc, TypeOK
<1>8. EventTask \/ Network => TypeOK'
  <2>1. OtaWoken => RaiseFlag
    BY Zenon DEF OtaWoken
  <2> QED
    BY <1>1, <1>2, <1>4, <1>5, <2>1, WifiTypesKept, SettingsTypesKept, Zenon
       DEF EventTask, Network, TypeOK
<1>9. OtaTask \/ Write => TypeOK'
  <2>1. OtaTask => UNCHANGED wifiVars
    BY Zenon DEF OtaTask, OtaWaits
  <2> QED
    BY <1>1, <1>2, <1>3, <1>5, <2>1, SettingsTypesKept, Zenon DEF OtaTask, Write, TypeOK
<1>10. Restart => TypeOK'
  BY RestartHolds, Zenon DEF IInv
<1>11. UNCHANGED vars => TypeOK'
  BY <1>1, <1>2, <1>3, <1>4, <1>5, Zenon DEF vars, TypeOK
<1> QED
  BY ONLY <1>6, <1>7, <1>8, <1>9, <1>10, <1>11, Zenon DEF Next

(* What BTC does to Wi-Fi: nothing, or another configuration, the next     *)
(* group, or a start.                                                      *)
LEMMA BtcCases ==
  BtcStep =>
    \/ /\ UNCHANGED <<group, connectedBits, started, link, events, handler>>
       /\ btc \in {"init", "start", "settle", "create", "tare"}
    \/ InitCreatesGroup
    \/ InitStarts
BY Zenon
   DEF BtcStep, TareEnds, InitConfigures, InitFails, InitSettles, CreateOtaTask, Configure,
       BtcAt, wifiVars

-----------------------------------------------------------------------------
(* The groups *)

(* A group, once there is one, stays until a restart, and nothing starts   *)
(* Wi-Fi before.                                                           *)
LEMMA GroupStep == IInv /\ [Next]_vars => GroupOK' /\ EventsFindGroup'
<1> DEFINE Goal == GroupOK' /\ EventsFindGroup'
<1> SUFFICES ASSUME IInv PROVE [Next]_vars => Goal
  OBVIOUS
<1>1. WifiTypes /\ GroupOK /\ EventsFindGroup /\ started \in BOOLEAN
  BY Zenon DEF IInv, TypeOK, WifiTypes
<1>2. group \in Nat
  BY <1>1 DEF WifiTypes
<1>3. UNCHANGED <<wifiVars, settingsVars>> => Goal
  <2>1. UNCHANGED <<wifiVars, settingsVars>> =>
          UNCHANGED <<group, connectedBits, started, link, events, handler, btc, refused>>
    BY Zenon DEF wifiVars, settingsVars
  <2> QED  BY <1>1, <2>1 DEF GroupOK, EventsFindGroup
<1>4. BtcStep => Goal
  <2>1. CASE InitCreatesGroup
    <3>1. /\ group' = group + 1 /\ connectedBits' = connectedBits /\ btc' = "start"
      BY <2>1, Zenon DEF InitCreatesGroup, CreateGroup, BtcGoto
    <3>2. group' > 0 /\ 1 .. group \subseteq 1 .. group'
      BY <1>2, <3>1
    <3> QED  BY <1>1, <3>1, <3>2, Zenon DEF GroupOK, EventsFindGroup
  <2>2. CASE InitStarts
    <3>1. btc = "start" /\ UNCHANGED <<group, connectedBits>> /\ btc' = "settle"
      BY <2>2, Zenon DEF InitStarts, StartWifi, BtcAt, BtcGoto
    <3> QED  BY <1>1, <3>1, Zenon DEF GroupOK, EventsFindGroup
  <2>3. CASE InitFails
    <3>1. /\ UNCHANGED <<group, connectedBits, started, link, events, handler>>
          /\ btc' \in {"create", "idle"} /\ refused' = (group = 0)
      BY <2>3, Zenon DEF InitFails, InitReturns, BtcGoto, wifiVars
    <3>2. group > 0 \/ refused'
      <4>1. group > 0 \/ group = 0
        BY <1>2
      <4> QED  BY <3>1, <4>1, Zenon
    <3> QED  BY <1>1, <3>1, <3>2 DEF GroupOK, EventsFindGroup
  <2>4. CASE InitSettles
    <3>1. /\ UNCHANGED <<group, connectedBits, started, link, events, handler>>
          /\ btc' \in {"create", "idle"} /\ btc = "settle"
      BY <2>4, Zenon DEF InitSettles, InitReturns, BtcAt, BtcGoto, wifiVars
    <3> QED  BY <1>1, <3>1, Zenon DEF GroupOK, EventsFindGroup
  <2>5. CASE InitConfigures \/ CreateOtaTask \/ TareEnds
    <3>1. /\ UNCHANGED <<group, connectedBits, started, link, events, handler>>
          /\ btc' \in {"group", "idle", "stopped", "silenced"}
      BY <2>5, Zenon DEF InitConfigures, CreateOtaTask, TareEnds, Configure, BtcGoto, wifiVars
    <3>2. btc' \notin {"start", "settle", "create"}
      BY <3>1
    <3> QED  BY <1>1, <3>1, <3>2 DEF GroupOK, EventsFindGroup
  <2> HIDE DEF Goal
  <2> QED  BY ONLY <2>1, <2>2, <2>3, <2>4, <2>5, Zenon DEF BtcStep
<1>5. (WifiEvent \/ Associated \/ Dropped) /\ UNCHANGED settingsVars => Goal
  <2> SUFFICES ASSUME WifiEvent \/ Associated \/ Dropped, UNCHANGED settingsVars PROVE Goal
    OBVIOUS
  <2>1. UNCHANGED <<group, started>> /\ connectedBits' \subseteq connectedBits
    BY Zenon
       DEF WifiEvent, StaStart, StaGotIp, StaDisconnected, LowerFlag, Associated, Dropped, NextEvent
  <2>2. events # <<>> \/ handler # "idle" \/ link # "idle" \/ started
    BY Zenon
       DEF WifiEvent, StaStart, StaGotIp, StaDisconnected, LowerFlag, Associated, Dropped, NextEvent
  <2>3. group > 0
    BY <1>1, <2>2, Zenon DEF GroupOK, EventsFindGroup
  <2>4. UNCHANGED <<btc, refused>>
    BY Zenon DEF settingsVars
  <2> QED  BY <1>1, <2>1, <2>3, <2>4, Zenon DEF GroupOK, EventsFindGroup
<1>6. OtaWoken => Goal
  <2> SUFFICES ASSUME OtaWoken PROVE Goal
    OBVIOUS
  <2>1. /\ handler = "raise" /\ connectedBits' = connectedBits \cup {group}
        /\ UNCHANGED <<group, started, link, btc, refused>>
    BY Zenon DEF OtaWoken, RaiseFlag
  <2>2. group > 0
    BY <1>1, <2>1 DEF EventsFindGroup
  <2>3. connectedBits' \subseteq 1 .. group'
    BY <1>1, <1>2, <2>1, <2>2 DEF GroupOK
  <2> QED  BY <2>1, <2>2, <2>3, Zenon DEF GroupOK, EventsFindGroup
<1>7. (\E i \in Ota : OtaWaits(i)) /\ UNCHANGED wifiVars => Goal
  BY <1>1, Zenon DEF OtaWaits, wifiVars, GroupOK, EventsFindGroup
<1>8. Writes /\ UNCHANGED wifiVars => Goal
  <2> SUFFICES ASSUME Writes, UNCHANGED wifiVars PROVE Goal
    OBVIOUS
  <2>1. btc' \in {"idle", "init", "tare"}
    BY Zenon DEF Writes, WriteCredentials, WriteConnectWifi, WriteForceOta, WriteTare
  <2>2. btc' \notin {"start", "settle", "create"}
    BY <2>1
  <2> QED  BY <1>1, <2>2 DEF wifiVars, GroupOK, EventsFindGroup
<1>9. Restart => Goal
  BY RestartHolds, Zenon DEF IInv
<1> HIDE DEF Goal
<1> QED
  BY ONLY <1>3, <1>4, <1>5, <1>6, <1>7, <1>8, <1>9, NextCases, Zenon

(* A local_ota_task is created behind an initialisation. *)
LEMMA TaskStep == IInv /\ [Next]_vars => TaskFindsGroup'
<1> SUFFICES ASSUME IInv PROVE [Next]_vars => TaskFindsGroup'
  OBVIOUS
<1>1. GroupOK /\ TaskFindsGroup /\ group \in Nat
  <2>1. GroupOK /\ TaskFindsGroup /\ WifiTypes
    BY Zenon DEF IInv, TypeOK
  <2> QED  BY <2>1 DEF WifiTypes
<1>2. ota \in [Ota -> {"absent", "created", "waiting", "online"}]
  BY Zenon DEF IInv, TypeOK, SettingsTypes
<1>3. UNCHANGED <<group, ota, refused>> => TaskFindsGroup'
  BY <1>1 DEF TaskFindsGroup
<1>4. BtcStep => TaskFindsGroup'
  <2>1. InitCreatesGroup => TaskFindsGroup'
    <3>1. InitCreatesGroup => group' = group + 1
      BY Zenon DEF InitCreatesGroup, CreateGroup
    <3> QED  BY <1>1, <3>1 DEF TaskFindsGroup
  <2>2. InitFails => TaskFindsGroup'
    <3>1. InitFails => group' = group /\ refused' = (group = 0)
      BY Zenon DEF InitFails, wifiVars
    <3>2. group > 0 \/ group = 0
      BY <1>1
    <3> QED  BY <3>1, <3>2, Zenon DEF TaskFindsGroup
  <2>3. CreateOtaTask => TaskFindsGroup'
    <3>1. CreateOtaTask => btc = "create" /\ UNCHANGED <<group, refused>>
      BY Zenon DEF CreateOtaTask, BtcAt, wifiVars
    <3> QED  BY <1>1, <3>1 DEF GroupOK, TaskFindsGroup
  <2>4. TareEnds \/ InitConfigures \/ InitStarts \/ InitSettles =>
          UNCHANGED <<group, ota, refused>>
    BY Zenon DEF TareEnds, InitConfigures, InitStarts, InitSettles, Configure, StartWifi, wifiVars
  <2> QED  BY ONLY <1>3, <2>1, <2>2, <2>3, <2>4, Zenon DEF BtcStep
<1>5. WifiEvent \/ Associated \/ Dropped => group' = group
  BY Zenon
     DEF WifiEvent, StaStart, StaGotIp, StaDisconnected, LowerFlag, Associated, Dropped
<1>6. OtaWoken => TaskFindsGroup'
  <2>1. OtaWoken => /\ UNCHANGED <<group, refused>>
                    /\ \A i \in Ota : ota'[i] = "created" => ota[i] = "created"
    BY <1>2 DEF OtaWoken, RaiseFlag
  <2> QED  BY <1>1, <2>1, Zenon DEF TaskFindsGroup
<1>7. (\E i \in Ota : OtaWaits(i)) /\ UNCHANGED wifiVars => TaskFindsGroup'
  BY <1>1, Zenon DEF OtaWaits, wifiVars, TaskFindsGroup
<1>8. Writes /\ UNCHANGED wifiVars => UNCHANGED <<group, ota, refused>>
  BY Zenon DEF Writes, WriteCredentials, WriteConnectWifi, WriteForceOta, WriteTare, wifiVars
<1>9. Restart => TaskFindsGroup'
  BY RestartHolds, Zenon DEF IInv
<1>10. UNCHANGED <<wifiVars, settingsVars>> => UNCHANGED <<group, ota, refused>>
  BY Zenon DEF wifiVars, settingsVars
<1>11. UNCHANGED settingsVars => UNCHANGED <<ota, refused>>
  BY Zenon DEF settingsVars
<1> QED
  BY ONLY <1>3, <1>4, <1>5, <1>6, <1>7, <1>8, <1>9, <1>10, <1>11, NextCases, Zenon

-----------------------------------------------------------------------------
(* The connected flag *)

(* An event that is taken from the queue, or added to it, keeps the order  *)
(* of the news.                                                            *)
LEMMA NewsTaken ==
  ASSUME WifiTypes, NewsInOrder, NEW event, NextEvent(event), link # "up"
  PROVE  /\ \A i \in DOMAIN events' :
              events'[i] = "got_ip" =>
                \E j \in DOMAIN events' : j > i /\ events'[j] = "disconnected"
         /\ event = "got_ip" => \E j \in DOMAIN events' : events'[j] = "disconnected"
         /\ event # "disconnected" /\ (\E j \in DOMAIN events : events[j] = "disconnected") =>
              \E j \in DOMAIN events' : events'[j] = "disconnected"
<1> DEFINE s == events
           t == events'
<1>1. s \in Seq(WifiNews) /\ s # <<>> /\ t = Tail(s) /\ Head(s) = event
  BY DEF WifiTypes, WifiNews, NextEvent
<1>2. /\ Len(s) \in Nat \ {0} /\ DOMAIN s = 1 .. Len(s) /\ DOMAIN t = 1 .. Len(t)
      /\ Len(t) = Len(s) - 1 /\ s[1] = event
      /\ \A i \in DOMAIN t : i + 1 \in DOMAIN s /\ t[i] = s[i + 1]
      /\ \A i \in DOMAIN s : i > 1 => i - 1 \in DOMAIN t /\ t[i - 1] = s[i]
  BY <1>1, Taken
<1>3. \A i \in DOMAIN s : s[i] = "got_ip" => \E j \in DOMAIN s : j > i /\ s[j] = "disconnected"
  BY DEF NewsInOrder
<1> HIDE DEF s, t
<1>4. ASSUME NEW i \in DOMAIN t, t[i] = "got_ip"
      PROVE  \E j \in DOMAIN t : j > i /\ t[j] = "disconnected"
  <2>1. PICK j \in DOMAIN s : j > i + 1 /\ s[j] = "disconnected"
    BY <1>2, <1>3, <1>4
  <2>2. j - 1 \in DOMAIN t /\ t[j - 1] = "disconnected" /\ j - 1 > i
    BY <1>2, <2>1
  <2> QED  BY <2>2
<1>5. event = "got_ip" => \E j \in DOMAIN t : t[j] = "disconnected"
  <2> SUFFICES ASSUME event = "got_ip" PROVE \E j \in DOMAIN t : t[j] = "disconnected"
    OBVIOUS
  <2>1. PICK j \in DOMAIN s : j > 1 /\ s[j] = "disconnected"
    BY <1>2, <1>3
  <2> QED  BY <1>2, <2>1
<1>6. ASSUME event # "disconnected", NEW j \in DOMAIN s, s[j] = "disconnected"
      PROVE  \E k \in DOMAIN t : t[k] = "disconnected"
  <2>1. j > 1
    BY <1>2, <1>6
  <2> QED  BY <1>2, <1>6, <2>1
<1> QED  BY <1>4, <1>5, <1>6 DEF s, t

LEMMA NewsAdded ==
  ASSUME WifiTypes, NEW event \in WifiNews, events' = Append(events, event)
  PROVE  /\ event = "disconnected" => 
              /\ \A i \in DOMAIN events' :
                   events'[i] = "got_ip" =>
                     \E j \in DOMAIN events' : j > i /\ events'[j] = "disconnected"
              /\ \E j \in DOMAIN events' : events'[j] = "disconnected"
         /\ event = "start" /\ link # "up" /\ NewsInOrder =>
              \A i \in DOMAIN events' :
                events'[i] = "got_ip" =>
                  \E j \in DOMAIN events' : j > i /\ events'[j] = "disconnected"
         /\ (\E j \in DOMAIN events : events[j] = "disconnected") =>
              \E j \in DOMAIN events' : events'[j] = "disconnected"
<1> DEFINE s == events
           t == events'
           n == Len(s) + 1
<1>1. s \in Seq(WifiNews) /\ t = Append(s, event)
  BY DEF WifiTypes, WifiNews
<1>2. /\ Len(s) \in Nat /\ DOMAIN s = 1 .. Len(s) /\ DOMAIN t = 1 .. n
      /\ \A i \in DOMAIN s : i \in DOMAIN t /\ t[i] = s[i]
      /\ t[n] = event
  BY <1>1, Added
<1>3. NewsInOrder /\ link # "up" =>
        \A i \in DOMAIN s : s[i] = "got_ip" => \E j \in DOMAIN s : j > i /\ s[j] = "disconnected"
  BY DEF NewsInOrder
<1> HIDE DEF s, t
<1>4. n \in DOMAIN t /\ \A i \in DOMAIN t : i # n => i \in DOMAIN s /\ t[i] = s[i] /\ n > i
  BY <1>2
<1>5. ASSUME event = "disconnected", NEW i \in DOMAIN t, t[i] = "got_ip"
      PROVE  \E j \in DOMAIN t : j > i /\ t[j] = "disconnected"
  BY <1>2, <1>4, <1>5
<1>6. ASSUME event = "start", link # "up", NewsInOrder, NEW i \in DOMAIN t, t[i] = "got_ip"
      PROVE  \E j \in DOMAIN t : j > i /\ t[j] = "disconnected"
  BY <1>2, <1>3, <1>4, <1>6
<1> QED  BY <1>2, <1>4, <1>5, <1>6 DEF s, t

(* RaiseFlag follows a got_ip, so a link that has gone down since has its  *)
(* news in the queue; and a flag that is set after its link has gone down  *)
(* is about to be lowered, or the news is still to be read.                *)
LEMMA FlagStep == IInv /\ [Next]_vars => NewsInOrder' /\ FlagIsTrue'
<1> DEFINE Down(q) == \E j \in DOMAIN q : q[j] = "disconnected"
           Order(q) == \A i \in DOMAIN q :
                         q[i] = "got_ip" => \E j \in DOMAIN q : j > i /\ q[j] = "disconnected"
           Goal == NewsInOrder' /\ FlagIsTrue'
<1> SUFFICES ASSUME IInv PROVE [Next]_vars => Goal
  OBVIOUS
<1>1. WifiTypes /\ NewsInOrder /\ FlagIsTrue /\ GroupOK
  BY Zenon DEF IInv, TypeOK
<1>2. link # "up" => Order(events) /\ (handler = "raise" => Down(events))
  BY <1>1 DEF NewsInOrder
<1>3. group \in connectedBits /\ link # "up" => handler = "lower" \/ Down(events)
  BY <1>1 DEF FlagIsTrue
<1>4. \/ link' = "up"
      \/ /\ Order(events') /\ (handler' = "raise" => Down(events'))
         /\ group' \in connectedBits' => handler' = "lower" \/ Down(events')
      => Goal
  BY DEF NewsInOrder, FlagIsTrue
<1>5. ASSUME NEW event, NextEvent(event), link # "up"
      PROVE  /\ Order(events') /\ handler = "idle"
             /\ event = "got_ip" => Down(events')
             /\ event # "disconnected" /\ Down(events) => Down(events')
  BY <1>1, <1>5, NewsTaken DEF NextEvent
<1>6. ASSUME NEW event \in WifiNews, events' = Append(events, event)
      PROVE  /\ event = "disconnected" => Order(events') /\ Down(events')
             /\ event = "start" /\ link # "up" => Order(events')
             /\ Down(events) => Down(events')
  BY <1>1, <1>6, NewsAdded
<1> HIDE DEF Goal, Down, Order
<1>7. UNCHANGED <<group, connectedBits, link, events, handler>> => Goal
  BY <1>2, <1>3, <1>4
<1>8. WifiConnect => (link' = "up" <=> link = "up")
  BY DEF WifiConnect
<1>9. StaStart => Goal
  <2>1. StaStart => NextEvent("start") /\ WifiConnect /\ UNCHANGED <<group, connectedBits, handler>>
    BY Zenon DEF StaStart
  <2> QED  BY <1>3, <1>4, <1>5, <1>8, <2>1
<1>10. StaGotIp => Goal
  <2>1. StaGotIp => /\ NextEvent("got_ip") /\ UNCHANGED <<group, connectedBits, link>>
    BY Zenon DEF StaGotIp
  <2> QED  BY <1>4, <1>5, <2>1
<1>11. StaDisconnected => Goal
  <2> SUFFICES ASSUME StaDisconnected, link # "up" PROVE Goal
    <3>1. StaDisconnected /\ link = "up" => link' = "up"
      BY <1>8, Zenon DEF StaDisconnected
    <3> QED  BY <1>4, <3>1
  <2>1. NextEvent("disconnected") /\ UNCHANGED <<group, connectedBits>>
    BY Zenon DEF StaDisconnected
  <2>2. \/ group \in connectedBits /\ handler' = "lower"
        \/ group \notin connectedBits /\ handler' = handler
    BY Zenon DEF StaDisconnected
  <2> QED  BY <1>4, <1>5, <2>1, <2>2
<1>12. LowerFlag => Goal
  <2>1. LowerFlag => /\ connectedBits' = connectedBits \ {group} /\ WifiConnect
                     /\ handler' = "idle" /\ UNCHANGED <<group, events>>
    BY Zenon DEF LowerFlag
  <2> QED  BY <1>2, <1>4, <1>8, <2>1
<1>13. RaiseFlag => Goal
  <2>1. RaiseFlag => handler = "raise" /\ handler' = "idle" /\ UNCHANGED <<group, link, events>>
    BY Zenon DEF RaiseFlag
  <2> QED  BY <1>2, <1>4, <2>1
<1>14. Associated => Goal
  BY <1>4 DEF Associated
<1>15. Dropped => Goal
  <2>1. Dropped => events' = Append(events, "disconnected")
    BY Zenon DEF Dropped
  <2> QED  BY <1>4, <1>6, <2>1 DEF WifiNews
<1>16. InitStarts => Goal
  <2>1. InitStarts => /\ UNCHANGED <<group, connectedBits, link, handler>>
                      /\ events' = Append(events, "start") \/ events' = events
    BY Zenon DEF InitStarts, StartWifi
  <2> QED  BY <1>2, <1>3, <1>4, <1>6, <1>7, <2>1 DEF WifiNews
<1>17. InitCreatesGroup => Goal
  <2> SUFFICES ASSUME InitCreatesGroup PROVE Goal
    OBVIOUS
  <2>1. group' = group + 1 /\ UNCHANGED <<connectedBits, link, events, handler>>
    BY Zenon DEF InitCreatesGroup, CreateGroup
  <2>2. group' \notin connectedBits
    BY <1>1, <2>1 DEF GroupOK, WifiTypes
  <2> QED  BY <1>2, <1>4, <2>1, <2>2
<1>18. Restart => Goal
  BY RestartHolds, Zenon DEF IInv, Goal
<1>19. /\ UNCHANGED wifiVars => UNCHANGED <<group, connectedBits, link, events, handler>>
       /\ OtaWoken => RaiseFlag
  BY Zenon DEF wifiVars, OtaWoken
<1> QED
  BY ONLY <1>7, <1>9, <1>10, <1>11, <1>12, <1>13, <1>14, <1>15, <1>16, <1>17, <1>18, <1>19,
          NextCases, BtcCases, Zenon
     DEF WifiEvent

-----------------------------------------------------------------------------
(* The credentials *)

LEMMA CredentialsStep == IInv /\ [Next]_vars => CredentialsKept' /\ CredentialsUsed'
<1> DEFINE Goal == CredentialsKept' /\ CredentialsUsed'
<1> SUFFICES ASSUME IInv PROVE [Next]_vars => Goal
  OBVIOUS
<1>1. CredentialsKept /\ CredentialsUsed /\ SettingsTypes
  BY Zenon DEF IInv, TypeOK
<1>2. UNCHANGED <<wifi_params, written, stored, config, btc>> => Goal
  BY <1>1 DEF CredentialsKept, CredentialsUsed, InForce
<1>3. BtcStep => Goal
  <2>1. BtcStep => UNCHANGED <<wifi_params, written, stored>>
    BY Zenon
       DEF BtcStep, TareEnds, InitConfigures, InitFails, InitCreatesGroup, InitStarts, InitSettles,
           CreateOtaTask
  <2>2. \/ config' \in Copied
        \/ InitCreatesGroup /\ config' = config /\ btc = "group"
        \/ btc' \in {"create", "idle", "settle", "stopped", "silenced"}
        \/ ~BtcStep
    BY Zenon
       DEF BtcStep, TareEnds, InitConfigures, InitFails, InitCreatesGroup, InitStarts, InitSettles,
           CreateOtaTask, InitReturns, Configure, CreateGroup, BtcAt, BtcGoto
  <2>3. config' \in Copied => 
          config' = InForce \/ (config' = Garbled /\ InForce \in Unterminated)
    BY <1>1 DEF Copied, CredentialsKept
  <2>4. UNCHANGED <<wifi_params, written, stored>> => InForce' = InForce /\ wifi_params' = wifi_params
    BY DEF InForce
  <2> QED  BY <1>1, <2>1, <2>2, <2>3, <2>4 DEF CredentialsKept, CredentialsUsed
<1>4. WifiEvent \/ Associated \/ Dropped => config' = config
  BY Zenon
     DEF WifiEvent, StaStart, StaGotIp, StaDisconnected, LowerFlag, Associated, Dropped
<1>5. OtaWoken \/ ((\E i \in Ota : OtaWaits(i)) /\ UNCHANGED wifiVars) =>
        UNCHANGED <<wifi_params, written, stored, config, btc>>
  BY Zenon DEF OtaWoken, OtaWaits, RaiseFlag, wifiVars
<1>6. Writes => Goal
  <2>1. ASSUME NEW pair \in Credentials, WriteCredentials(pair), btc = "idle" PROVE Goal
    <3>1. wifi_params' = written' /\ written' \in Credentials /\ btc' = "idle"
      BY <2>1, Zenon DEF WriteCredentials
    <3> QED  BY <3>1, SettingsAssumption DEF CredentialsKept, CredentialsUsed, InForce
  <2>2. WriteConnectWifi => Goal
    <3>1. WriteConnectWifi => UNCHANGED <<wifi_params, written, stored>> /\ btc' = "init"
      BY Zenon DEF WriteConnectWifi
    <3> QED  BY <1>1, <3>1 DEF CredentialsKept, CredentialsUsed, InForce
  <2>3. WriteForceOta => Goal
    <3> SUFFICES ASSUME WriteForceOta PROVE Goal
      OBVIOUS
    <3>1. btc' = "init"
      BY Zenon DEF WriteForceOta
    <3>2. CASE stored # NoBlob
      <4>1. wifi_params' = stored /\ stored' = stored /\ written' = NoBlob
        BY <3>2, Zenon DEF WriteForceOta
      <4> QED  BY <3>1, <4>1 DEF CredentialsKept, CredentialsUsed, InForce
    <3>3. CASE stored = NoBlob
      <4>1. wifi_params' = wifi_params /\ written' = written
        BY <3>3, Zenon DEF WriteForceOta
      <4>2. wifi_params = written /\ written # NoBlob
        BY <1>1, <3>3, SettingsAssumption DEF CredentialsKept, InForce, SettingsTypes
      <4> QED  BY <3>1, <4>1, <4>2 DEF CredentialsKept, CredentialsUsed, InForce
    <3> QED  BY <3>2, <3>3
  <2>4. WriteTare => Goal
    <3>1. WriteTare => UNCHANGED <<wifi_params, written, stored>> /\ btc' = "tare"
      BY Zenon DEF WriteTare
    <3> QED  BY <1>1, <3>1 DEF CredentialsKept, CredentialsUsed, InForce
  <2> QED  BY ONLY <2>1, <2>2, <2>3, <2>4, Zenon DEF Writes
<1>7. Restart => Goal
  BY RestartHolds, Zenon DEF IInv
<1>8. /\ UNCHANGED settingsVars => UNCHANGED <<wifi_params, written, stored, btc>>
      /\ UNCHANGED wifiVars => config' = config
  BY Zenon DEF wifiVars, settingsVars
<1> HIDE DEF Goal
<1>9. \/ UNCHANGED <<wifiVars, settingsVars>>
      \/ (WifiEvent \/ Associated \/ Dropped) /\ UNCHANGED settingsVars
      \/ OtaWoken \/ ((\E i \in Ota : OtaWaits(i)) /\ UNCHANGED wifiVars)
      => Goal
  BY ONLY <1>2, <1>4, <1>5, <1>8
<1> QED  BY ONLY <1>3, <1>6, <1>7, <1>9, NextCases, Zenon

-----------------------------------------------------------------------------
(* Theorems *)

(* The initial states satisfy the invariant. *)
LEMMA InitHolds == Init => IInv
<1> SUFFICES ASSUME Init PROVE IInv
  OBVIOUS
<1>1. BleTypes
  <2>1. /\ enabling = "advertising" /\ adv_config_done = {} /\ queue = <<>>
        /\ services = {} /\ advertising \in BOOLEAN /\ links = 0
    BY Zenon DEF Init, BleInit
  <2> QED  BY <2>1, Posted, BleAssumption DEF BleTypes
<1>2. WifiTypes
  <2>1. /\ group = 0 /\ connectedBits = {} /\ config = Default
        /\ started \in BOOLEAN /\ link = "idle" /\ events = <<>> /\ handler = "idle"
    BY Zenon DEF Init, WifiInit
  <2> QED  BY <2>1, WifiAssumption, SettingsAssumption DEF WifiTypes
<1>3. SettingsTypes
  <2>1. /\ btc = "idle" /\ forced \in BOOLEAN /\ wifi_params = Default /\ stored = NoBlob
        /\ ota = [i \in Ota |-> "absent"] /\ awaited = [i \in Ota |-> 0]
        /\ written = Default /\ refused \in BOOLEAN
    BY Zenon DEF Init, SettingsInit
  <2> QED  BY <2>1, WifiAssumption, SettingsAssumption DEF SettingsTypes
<1>4. TypeOK
  <2>1. outages \in 0 .. MaxOutages
    BY ProvisioningAssumption DEF Init
  <2> QED  BY <1>1, <1>2, <1>3, <2>1, Zenon DEF TypeOK
<1>5. /\ group = 0 /\ started = FALSE /\ link = "idle" /\ events = <<>> /\ handler = "idle"
      /\ connectedBits = {} /\ btc = "idle" /\ wifi_params = Default /\ written = Default
      /\ \A i \in Ota : ota[i] = "absent"
  BY DEF Init, WifiInit, SettingsInit
<1>6. GroupOK /\ CredentialsKept /\ FlagIsTrue /\ EventsFindGroup /\ TaskFindsGroup /\ CredentialsUsed
  BY <1>5, SettingsAssumption
     DEF GroupOK, CredentialsKept, InForce, FlagIsTrue, EventsFindGroup, TaskFindsGroup, CredentialsUsed
<1>7. NewsInOrder
  BY <1>5 DEF NewsInOrder
<1> QED  BY <1>4, <1>6, <1>7, Zenon DEF IInv

(* The inductive invariant: Wi-Fi runs with an event group only, the news  *)
(* of the link are read in the order they happened, and the credentials in *)
(* RAM are the client's last or, after a FORCE_OTA, NVS's.                 *)
THEOREM ProvisioningInductive == Safe => []IInv
<1>1. IInv /\ [Next]_vars => IInv'
  BY TypeStep, GroupStep, TaskStep, FlagStep, CredentialsStep, Zenon DEF IInv
<1> QED  BY <1>1, InitHolds, PTL DEF Safe

(* The state of BLE host, station and settings is what the code can hold.  *)
THEOREM ProvisioningTypes == Safe => []TypeOK
<1>1. IInv => TypeOK
  BY Zenon DEF IInv
<1> QED  BY <1>1, ProvisioningInductive, PTL

(* The connected flag of the current group is never left set behind a link *)
(* that is down, however often wifi_sta_init replaces the group between    *)
(* the handler's test and its change of the flag.                          *)
THEOREM FlagTellsTheTruth == Safe => []FlagIsTrue
<1>1. IInv => FlagIsTrue
  BY Zenon DEF IInv
<1> QED  BY <1>1, ProvisioningInductive, PTL

(* wifi_sta_handle_event never passes NULL to xEventGroupGetBits.          *)
THEOREM NoEventWithoutGroup == Safe => []EventsFindGroup
<1>1. IInv => EventsFindGroup
  BY Zenon DEF IInv
<1> QED  BY <1>1, ProvisioningInductive, PTL

(* local_ota_task passes NULL to xEventGroupWaitBits only after an         *)
(* initialisation that was refused.                                        *)
THEOREM NoTaskWithoutGroup == Safe => []TaskFindsGroup
<1>1. IInv => TaskFindsGroup
  BY Zenon DEF IInv
<1> QED  BY <1>1, ProvisioningInductive, PTL

(* The station is configured with the credentials the client wrote last or,*)
(* if a FORCE_OTA has come since, with those that NVS holds; with bytes    *)
(* nobody wrote only if these have a password that fills its array.        *)
THEOREM RightCredentials == Safe => []CredentialsUsed
<1>1. IInv => CredentialsUsed
  BY Zenon DEF IInv
<1> QED  BY <1>1, ProvisioningInductive, PTL

=============================================================================
