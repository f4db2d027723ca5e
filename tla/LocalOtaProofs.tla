--------------------------- MODULE LocalOtaProofs ---------------------------
(***************************************************************************)
(* The safety of Force OTA, for any number of tasks, images, bodies, cuts, *)
(* buffers and slots.                                                      *)
(***************************************************************************)
EXTENDS LocalOta, SequenceTheorems, WellFoundedInduction, TLAPS

-----------------------------------------------------------------------------
(* Numbers and sequences *)

(* The least of some natural numbers. *)
LEMMA Least ==
  ASSUME NEW S, S \subseteq Nat, S # {}
  PROVE  FirstOf(S) \in S /\ \A j \in S : FirstOf(S) <= j
<1> DEFINE R == OpToRel(<, Nat)
<1>1. IsWellFoundedOn(R, Nat)
  BY NatLessThanWellFounded, Zenon
<1>2. \A m, n \in Nat : m < n => <<m, n>> \in R
  BY SMT DEF OpToRel
<1> HIDE DEF R
<1>3. \E x \in S : \A y \in S : ~(<<y, x>> \in R)
  BY <1>1, WFMin
<1>4. \E x \in S : \A y \in S : x <= y
  <2>1. PICK x \in S : \A y \in S : ~(<<y, x>> \in R)
    BY <1>3
  <2>2. \A y \in S : ~(y < x) /\ x \in Nat /\ y \in Nat
    BY <1>2, <2>1
  <2> QED
    BY SMT, <2>2
<1> QED
  BY <1>4 DEF FirstOf

LEMMA SlotsAndUnits ==
  /\ \A s \in Slot : NextUpdateSlot(s) \in Slot \ {s}
  /\ Slot # {} /\ "factory" \in Slot
  /\ {"cr", "lf", Zero} \subseteq Unit /\ Status \subseteq Unit
  /\ \A b \in Bodies \cup {Image} : b \in Seq(Unit)
<1>1. \A s \in Slot : NextUpdateSlot(s) \in Slot \ {s}
  BY SMT DEF Slot, NextUpdateSlot
<1>2. {"cr", "lf", Zero} \subseteq Unit /\ Status \subseteq Unit
  BY Zenon DEF Unit
<1>3. \A b \in Bodies \cup {Image} : b \in Seq(Unit)
  BY LocalOtaAssumption DEF LocalOtaAssumption
<1> QED
  BY <1>1, <1>2, <1>3 DEF Slot

LEMMA CharIs == TypeOK => \A i : Char(i) \in Unit
<1> SUFFICES ASSUME TypeOK, NEW i PROVE Char(i) \in Unit
  OBVIOUS
<1>1. text \in Seq(Unit)
  BY DEF TypeOK, NetTypes
<1>2. CASE i \in DOMAIN text
  <2>1. text[i] \in Unit
    BY <1>1, <1>2, LenProperties, ElementOfSeq
  <2> QED
    BY <1>2, <2>1 DEF Char
<1>3. CASE i \notin DOMAIN text
  BY <1>3, SlotsAndUnits DEF Char
<1> QED
  BY <1>2, <1>3

LEMMA BytesAre ==
  ASSUME TypeOK, NEW first \in Nat, NEW last \in Nat, last + 1 >= first
  PROVE  /\ Bytes(first, last) \in Seq(Unit) /\ Len(Bytes(first, last)) = last + 1 - first
         /\ DOMAIN Bytes(first, last) = 1 .. last + 1 - first
         /\ \A i \in 1 .. last + 1 - first : Bytes(first, last)[i] = Char(first + i - 1)
<1>1. last + 1 - first \in Nat
  BY SMT
<1>2. Bytes(first, last) = [i \in 1 .. last + 1 - first |-> Char(first + i - 1)]
  BY DEF Bytes
<1>3. Bytes(first, last) \in [1 .. last + 1 - first -> Unit]
  BY <1>2, CharIs
<1>4. Bytes(first, last) \in Seq(Unit)
  BY <1>1, <1>3, SeqDef
<1>5. DOMAIN Bytes(first, last) = 1 .. Len(Bytes(first, last)) /\ Len(Bytes(first, last)) \in Nat
  BY <1>4, LenProperties
<1>6. Len(Bytes(first, last)) = last + 1 - first
  BY SMT, <1>1, <1>3, <1>5
<1> QED
  BY <1>2, <1>3, <1>4, <1>6

(* What follows the blank line.                                            *)
LEMMA AfterHeadersIs ==
  ASSUME TypeOK, NEW t \in Tasks, BlankLines(buff_len[t]) # {},
         FirstOf(BlankLines(buff_len[t])) < buff_len[t]
  PROVE  AfterHeaders(t) \in Seq(Unit)
<1> DEFINE B == BlankLines(buff_len[t])
<1>1. buff_len[t] \in Nat
  BY SMT, LocalOtaAssumption DEF LocalOtaAssumption, TypeOK, TaskTypes
<1>2. B \subseteq Nat
  BY SMT, <1>1 DEF BlankLines, LineStarts
<1>3. FirstOf(B) \in Nat
  BY <1>2, Least
<1> HIDE DEF B
<1>4. FirstOf(B) + 2 \in Nat /\ buff_len[t] + 1 >= FirstOf(B) + 2
  BY SMT, <1>1, <1>3 DEF B
<1> QED
  BY <1>1, <1>4, BytesAre DEF AfterHeaders, B

-----------------------------------------------------------------------------
(* Types *)

(* Each task has a socket of its own, and -1 is not one of them.           *)
LEMMA Sockets == Tasks \subseteq Socket /\ NoSocket \in Socket /\ NoSocket \notin Tasks
<1>1. NoSocket \notin Nat
  BY LocalOtaAssumption DEF LocalOtaAssumption
<1>2. Tasks \subseteq Nat
  BY SMT, LocalOtaAssumption DEF LocalOtaAssumption, Tasks
<1> QED
  BY <1>1, <1>2 DEF Socket

LEMMA OwnSocket == \A t \in Tasks : t \in Socket
BY Sockets

(* A task asks for a socket.                                               *)
Opens(t) == OpenSocket(t) \/ SocketFails(t)

(* Every step is a reset or one of these of a task.                        *)
Move(t) ==
  \/ ForceOta(t) \/ OpenSocket(t) \/ SocketFails(t) \/ Connected(t) \/ NotConnected(t)
  \/ Send(t) \/ SendFails(t)
  \/ Begin(t) \/ BeginFails(t) \/ Recv(t) \/ RecvEnd(t) \/ RecvFails(t)
  \/ HeaderRefused(t) \/ HeaderGoesOn(t) \/ HeaderEnds(t) \/ Body(t)
  \/ End(t) \/ Activate(t) \/ Fatal(t)

LEMMA NextCases == Next => Reboot \/ \E t \in Tasks : Move(t)
BY Zenon DEF Next, TaskStep, PowerCycle, Restart, HeaderOverrun, Move

(* A write, done or refused, keeps to its slot.                            *)
LEMMA Writes ==
  ASSUME TypeOK, NEW t \in Tasks, handle[t] # NoHandle, NEW data \in Seq(Unit),
         OtaWrite(t, data) \/ OtaWriteFails(t, data)
  PROVE  /\ flash' \in [Slot -> [1 .. SlotSize -> Unit \cup {Erased}]]
         /\ handle' \in [Tasks -> {NoHandle} \cup [slot : Slot, pos : 0 .. SlotSize]]
         /\ \A s \in Slot : s # handle[t].slot => flash'[s] = flash[s]
         /\ handle'[t] # NoHandle /\ handle'[t].slot = handle[t].slot
         /\ \A u \in Tasks : u # t => handle'[u] = handle[u]
<1>1. handle[t] \in [slot : Slot, pos : 0 .. SlotSize] /\ SlotSize \in Nat
  BY LocalOtaAssumption DEF LocalOtaAssumption, TypeOK, TaskTypes
<1>2. CASE OtaWrite(t, data)
  <2> DEFINE h == handle[t]
             block == [i \in 1 .. SlotSize |->
                        IF i - h.pos \in DOMAIN data THEN Programmed(flash[h.slot][i], data[i - h.pos])
                                                     ELSE flash[h.slot][i]]
  <2>1. /\ h.pos + Len(data) <= SlotSize
        /\ flash' = [flash EXCEPT ![h.slot] = block]
        /\ handle' = [handle EXCEPT ![t].pos = @ + Len(data)]
    BY <1>2 DEF OtaWrite, Fits
  <2>2. h.slot \in Slot /\ h.pos \in Nat /\ Len(data) \in Nat
    BY SMT, <1>1, LenProperties
  <2>3. \A i \in 1 .. SlotSize : block[i] \in Unit \cup {Erased}
    <3> TAKE i \in 1 .. SlotSize
    <3>1. flash[h.slot][i] \in Unit \cup {Erased}
      BY <2>2 DEF TypeOK, SlotTypes
    <3>2. i - h.pos \in DOMAIN data => data[i - h.pos] \in Unit
      BY LenProperties, ElementOfSeq
    <3>3. \A old, new : old \in Unit \cup {Erased} /\ new \in Unit => Programmed(old, new) \in Unit \cup {Erased}
      BY SlotsAndUnits DEF Programmed
    <3> QED
      BY <3>1, <3>2, <3>3
  <2>4. block \in [1 .. SlotSize -> Unit \cup {Erased}]
    BY <2>3
  <2> HIDE DEF block
  <2>5. flash' \in [Slot -> [1 .. SlotSize -> Unit \cup {Erased}]]
    BY <2>1, <2>2, <2>4 DEF TypeOK, SlotTypes
  <2>6. h.pos + Len(data) \in 0 .. SlotSize
    BY SMT, <1>1, <2>1, <2>2
  <2>7. handle' = [handle EXCEPT ![t] = [slot |-> h.slot, pos |-> h.pos + Len(data)]]
    <3>1. \A r \in [slot : Slot, pos : 0 .. SlotSize] : \A e :
            [r EXCEPT !.pos = e] = [slot |-> r.slot, pos |-> e]
      OBVIOUS
    <3>2. handle' = [handle EXCEPT ![t] = [handle[t] EXCEPT !.pos = @ + Len(data)]]
      BY <2>1
    <3> QED
      BY <1>1, <3>1, <3>2
  <2>8. [slot |-> h.slot, pos |-> h.pos + Len(data)] # NoHandle
    BY SMT, <2>2, LocalOtaAssumption DEF LocalOtaAssumption
  <2> QED
    BY <2>1, <2>2, <2>5, <2>6, <2>7, <2>8 DEF TypeOK, TaskTypes, SlotTypes
<1>3. CASE OtaWriteFails(t, data)
  BY <1>3 DEF OtaWriteFails, TypeOK, TaskTypes, SlotTypes
<1> QED
  BY <1>2, <1>3

(* The steps of a task write what has its type.                            *)
LEMMA ResetTypes ==
  ASSUME TypeOK, Reboot
  PROVE  TypeOK'
<1>1. <<>> \in Seq(Unit) /\ Len(<<>>) = 0
  BY EmptySeq
<1>2. Blank \in [1 .. SlotSize -> Unit \cup {Erased}]
  BY DEF Blank
<1>3. TaskTypes'
  <2>1. overlapped' \in BOOLEAN
    BY Zenon DEF Reboot
  <2>2. buff_len' \in [Tasks -> 0 .. BufferSize]
    <3>1. 0 \in 0 .. BufferSize
      BY SMT, LocalOtaAssumption DEF LocalOtaAssumption
    <3> QED
      BY Zenon, <3>1 DEF Reboot, RamAtReset
  <2>3. /\ pc' = [t \in Tasks |-> "absent"] /\ handle' = [t \in Tasks |-> NoHandle]
        /\ resp_body_start' = [t \in Tasks |-> FALSE] /\ http_200_flag' = [t \in Tasks |-> FALSE]
        /\ whole' = [t \in Tasks |-> FALSE]
    BY DEF Reboot, RamAtReset
  <2> QED
    BY Zenon, <2>1, <2>2, <2>3 DEF TaskTypes
<1>4. NetTypes'
  <2>1. text' = <<>> /\ socket_id' = NoSocket /\ body' = [d \in Socket |-> <<>>]
    BY DEF Reboot, RamAtReset
  <2>2. socket' = [d \in Socket |-> [state |-> "closed", rest |-> NoReply]]
    BY DEF Reboot, RamAtReset, Closed
  <2>3. Len(text') <= BufferSize
    BY SMT, <1>1, <2>1, LocalOtaAssumption DEF LocalOtaAssumption
  <2>4. socket' \in [Socket -> [state : {"closed", "connecting", "open"}, rest : {NoReply} \cup Seq(Unit)]]
    BY SMT, <2>2
  <2> QED
    BY <1>1, <2>1, <2>3, <2>4, Sockets DEF NetTypes
<1>5. SlotTypes'
  BY <1>2 DEF Reboot, TypeOK, SlotTypes
<1> QED
  BY <1>3, <1>4, <1>5 DEF TypeOK

LEMMA SocketIs ==
  ASSUME TypeOK
  PROVE  /\ socket_id \in Socket
         /\ socket[socket_id] \in [state : {"closed", "connecting", "open"}, rest : {NoReply} \cup Seq(Unit)]
BY DEF TypeOK, NetTypes

(* The fields of a socket.                                                 *)
State == {"closed", "connecting", "open"}
Rest  == {NoReply} \cup Seq(Unit)

(* A reply in two.                                                         *)
LEMMA Packets ==
  ASSUME NEW d \in Seq(Unit), NEW n \in 1 .. BufferSize, n <= Len(d)
  PROVE  /\ SubSeq(d, 1, n) \in Seq(Unit) /\ Len(SubSeq(d, 1, n)) = n
         /\ SubSeq(d, n + 1, Len(d)) \in Seq(Unit)
         /\ SubSeq(d, 1, n) \o SubSeq(d, n + 1, Len(d)) = d
<1>1. Len(d) \in Nat /\ \A i \in 1 .. Len(d) : d[i] \in Unit
  BY LenProperties, ElementOfSeq
<1>2. n \in Nat /\ n >= 1
  BY SMT, LocalOtaAssumption DEF LocalOtaAssumption
<1>3. SubSeq(d, 1, n) \in Seq(Unit) /\ Len(SubSeq(d, 1, n)) = IF 1 <= n THEN n - 1 + 1 ELSE 0
  BY <1>1, <1>2, SubSeqProperties
<1>4. SubSeq(d, n + 1, Len(d)) \in Seq(Unit)
  BY <1>1, <1>2, SubSeqProperties
<1>5. 1 \in 1 .. Len(d) + 1 /\ n \in 1 - 1 .. Len(d) /\ Len(d) \in n .. Len(d)
  BY <1>1, <1>2
<1>6. SubSeq(d, 1, n) \o SubSeq(d, n + 1, Len(d)) = SubSeq(d, 1, Len(d))
  BY <1>5, ConcatAdjacentSubSeq
<1>7. SubSeq(d, 1, n) \o SubSeq(d, n + 1, Len(d)) = d
  BY <1>6, SubSeqFull
<1>8. Len(SubSeq(d, 1, n)) = n
  BY SMT, <1>2, <1>3
<1> QED
  BY ONLY <1>3, <1>4, <1>7, <1>8, Zenon

LEMMA HeadersAre ==
  ASSUME NEW s \in Status
  PROVE  Headers(s) \in Seq(Unit) /\ Len(Headers(s)) = 5 /\ \A b \in Bodies : Headers(s) \o b \in Seq(Unit)
<1>1. Headers(s) \in Seq(Unit) /\ Len(Headers(s)) = 5
  BY SMT, SlotsAndUnits DEF Headers
<1> QED
  BY <1>1, SlotsAndUnits, ConcatProperties

LEMMA PacketIs ==
  ASSUME TypeOK, NEW t \in Tasks
  PROVE  Bytes(1, buff_len[t]) \in Seq(Unit)
<1>1. buff_len[t] \in Nat /\ buff_len[t] + 1 >= 1
  BY SMT, LocalOtaAssumption DEF LocalOtaAssumption, TypeOK, TaskTypes
<1> QED
  BY <1>1, BytesAre

LEMMA ExceptTypes ==
  ASSUME NEW S, NEW T, NEW f \in [S -> T], NEW x, NEW e \in T
  PROVE  [f EXCEPT ![x] = e] \in [S -> T]
OBVIOUS

(* What a socket is after one field of it is set.                          *)
LEMMA FieldSet ==
  ASSUME TypeOK, NEW u \in Socket
  PROVE  /\ \A e \in Rest : /\ [socket EXCEPT ![u].rest = e] \in [Socket -> [state : State, rest : Rest]]
                            /\ [socket EXCEPT ![u].rest = e][u] = [state |-> socket[u].state, rest |-> e]
                            /\ \A v \in Socket : v # u => [socket EXCEPT ![u].rest = e][v] = socket[v]
         /\ \A e \in State : /\ [socket EXCEPT ![u].state = e] \in [Socket -> [state : State, rest : Rest]]
                             /\ [socket EXCEPT ![u].state = e][u] = [state |-> e, rest |-> socket[u].rest]
                             /\ \A v \in Socket : v # u => [socket EXCEPT ![u].state = e][v] = socket[v]
<1>1. socket \in [Socket -> [state : State, rest : Rest]]
  BY DEF TypeOK, NetTypes, State, Rest
<1>2. socket[u] \in [state : State, rest : Rest] /\ socket[u].state \in State /\ socket[u].rest \in Rest
  BY <1>1
<1>3. ASSUME NEW e \in Rest
      PROVE  /\ [socket EXCEPT ![u].rest = e] \in [Socket -> [state : State, rest : Rest]]
             /\ [socket EXCEPT ![u].rest = e][u] = [state |-> socket[u].state, rest |-> e]
             /\ \A v \in Socket : v # u => [socket EXCEPT ![u].rest = e][v] = socket[v]
  <2>1. [socket[u] EXCEPT !.rest = e] = [state |-> socket[u].state, rest |-> e]
    BY <1>2
  <2>2. [state |-> socket[u].state, rest |-> e] \in [state : State, rest : Rest]
    BY <1>2
  <2>3. [socket EXCEPT ![u].rest = e] = [socket EXCEPT ![u] = [state |-> socket[u].state, rest |-> e]]
    BY <2>1
  <2> QED
    BY <1>1, <2>2, <2>3
<1>4. ASSUME NEW e \in State
      PROVE  /\ [socket EXCEPT ![u].state = e] \in [Socket -> [state : State, rest : Rest]]
             /\ [socket EXCEPT ![u].state = e][u] = [state |-> e, rest |-> socket[u].rest]
             /\ \A v \in Socket : v # u => [socket EXCEPT ![u].state = e][v] = socket[v]
  <2>1. [socket[u] EXCEPT !.state = e] = [state |-> e, rest |-> socket[u].rest]
    BY <1>2
  <2>2. [state |-> e, rest |-> socket[u].rest] \in [state : State, rest : Rest]
    BY <1>2
  <2>3. [socket EXCEPT ![u].state = e] = [socket EXCEPT ![u] = [state |-> e, rest |-> socket[u].rest]]
    BY <2>1
  <2> QED
    BY <1>1, <2>2, <2>3
<1> QED
  BY <1>3, <1>4

LEMMA TypeStep ==
  ASSUME TypeOK, TasksOK, Next
  PROVE  TypeOK'
<1> USE DEF At, Goto, localVars, netVars, slotVars, history
<1>1. CASE Reboot
  BY <1>1, ResetTypes
<1>2. ASSUME NEW t \in Tasks, Move(t) PROVE TypeOK'
  <2>1. /\ socket_id \in Socket /\ t \in Socket
        /\ socket[socket_id] \in [state : {"closed", "connecting", "open"}, rest : {NoReply} \cup Seq(Unit)]
        /\ pc[t] \in InUpdate => handle[t] # NoHandle /\ handle[t].slot = NextUpdateSlot(running)
    BY SocketIs, Sockets DEF TasksOK
  <2>2. pc' \in [Tasks -> Busy \cup {"absent", "waiting", "gone"}]
    <3>1. pc \in [Tasks -> Busy \cup {"absent", "waiting", "gone"}]
      BY DEF TypeOK, TaskTypes
    <3>2. \/ UNCHANGED pc
          \/ \E l \in Busy \cup {"absent", "waiting", "gone"} : pc' = [pc EXCEPT ![t] = l]
      BY SMT, <1>2 DEF Move, Busy, ForceOta, OpenSocket, SocketFails, Connected, NotConnected, Send,
         SendFails, Begin, BeginFails, Recv,
             RecvEnd, RecvFails, HeaderRefused, HeaderGoesOn, HeaderEnds, Body, End, Activate,
             Fatal, Delete
    <3> QED
      BY SMT, <3>1, <3>2
  <2>3. handle' \in [Tasks -> {NoHandle} \cup [slot : Slot, pos : 0 .. SlotSize]] /\ SlotTypes'
    <3>1. CASE \/ ForceOta(t) \/ OpenSocket(t) \/ SocketFails(t) \/ Connected(t) \/ NotConnected(t)
               \/ Send(t) \/ SendFails(t)
               \/ Recv(t) \/ RecvEnd(t) \/ RecvFails(t) \/ HeaderRefused(t) \/ HeaderGoesOn(t) \/ End(t)
      <4>1. UNCHANGED <<handle, flash, boot, running>>
        BY Zenon, <3>1 DEF ForceOta, OpenSocket, SocketFails, Connected, NotConnected, Send, SendFails, Recv,
           RecvEnd,
           RecvFails, HeaderRefused, HeaderGoesOn, End
      <4> QED
        BY Zenon, <4>1 DEF TypeOK, TaskTypes, SlotTypes
    <3>2. CASE Begin(t)
      <4>1. /\ flash' = [flash EXCEPT ![NextUpdateSlot(running)] = Blank] /\ UNCHANGED <<boot, running>>
            /\ handle' = [handle EXCEPT ![t] = [slot |-> NextUpdateSlot(running), pos |-> 0]]
        BY Zenon, <3>2 DEF Begin
      <4>2. NextUpdateSlot(running) \in Slot /\ Blank \in [1 .. SlotSize -> Unit \cup {Erased}]
        BY SlotsAndUnits DEF TypeOK, SlotTypes, Blank
      <4>3. 0 \in 0 .. SlotSize
        BY SMT, LocalOtaAssumption DEF LocalOtaAssumption
      <4> QED
        BY SMT, <4>1, <4>2, <4>3 DEF TypeOK, TaskTypes, SlotTypes
    <3>3. CASE BeginFails(t)
      <4>1. /\ flash' \in {flash, [flash EXCEPT ![NextUpdateSlot(running)] = Blank]}
            /\ UNCHANGED <<boot, running, handle>>
        BY Zenon, <3>3 DEF BeginFails
      <4>2. NextUpdateSlot(running) \in Slot /\ Blank \in [1 .. SlotSize -> Unit \cup {Erased}]
        BY SlotsAndUnits DEF TypeOK, SlotTypes, Blank
      <4>3. [flash EXCEPT ![NextUpdateSlot(running)] = Blank]
              \in [Slot -> [1 .. SlotSize -> Unit \cup {Erased}]]
        BY SMT, <4>2 DEF TypeOK, SlotTypes
      <4> QED
        BY Zenon, <4>1, <4>3 DEF TypeOK, TaskTypes, SlotTypes
    <3>4. CASE HeaderEnds(t)
      <4>1. /\ OtaWrite(t, AfterHeaders(t)) \/ OtaWriteFails(t, AfterHeaders(t))
            /\ BlankLines(buff_len[t]) # {} /\ FirstOf(BlankLines(buff_len[t])) < buff_len[t]
            /\ pc[t] = "got" /\ UNCHANGED <<boot, running>>
        BY Zenon, <3>4 DEF HeaderEnds
      <4>2. AfterHeaders(t) \in Seq(Unit) /\ handle[t] # NoHandle
        BY <2>1, <4>1, AfterHeadersIs DEF InUpdate
      <4> QED
        BY <4>1, <4>2, Writes DEF TypeOK, SlotTypes
    <3>5. CASE Body(t)
      <4>1. /\ OtaWrite(t, Bytes(1, buff_len[t])) \/ OtaWriteFails(t, Bytes(1, buff_len[t]))
            /\ pc[t] = "got" /\ UNCHANGED <<boot, running>>
        BY Zenon, <3>5 DEF Body
      <4>2. Bytes(1, buff_len[t]) \in Seq(Unit) /\ handle[t] # NoHandle
        BY <2>1, <4>1, PacketIs DEF InUpdate
      <4> QED
        BY <4>1, <4>2, Writes DEF TypeOK, SlotTypes
    <3>6. CASE Activate(t)
      <4>1. pc[t] \in InUpdate /\ boot' \in {boot, handle[t].slot} /\ UNCHANGED <<flash, running, handle>>
        BY SMT, <3>6 DEF Activate, InUpdate
      <4>2. handle[t].slot \in Slot
        BY <2>1, <4>1, SlotsAndUnits DEF TypeOK, SlotTypes
      <4> QED
        BY Zenon, <4>1, <4>2 DEF TypeOK, TaskTypes, SlotTypes
    <3>7. CASE Fatal(t)
      <4>1. handle' = [handle EXCEPT ![t] = NoHandle] /\ UNCHANGED <<flash, boot, running>>
        BY Zenon, <3>7 DEF Fatal, Delete
      <4> QED
        BY SMT, <4>1 DEF TypeOK, TaskTypes, SlotTypes
    <3> QED
      BY ONLY <1>2, <3>1, <3>2, <3>3, <3>4, <3>5, <3>6, <3>7, Zenon DEF Move
  <2>4. /\ resp_body_start' \in [Tasks -> BOOLEAN] /\ http_200_flag' \in [Tasks -> BOOLEAN]
        /\ whole' \in [Tasks -> BOOLEAN] /\ overlapped' \in BOOLEAN
    <3>1. /\ resp_body_start \in [Tasks -> BOOLEAN] /\ http_200_flag \in [Tasks -> BOOLEAN]
          /\ whole \in [Tasks -> BOOLEAN] /\ overlapped \in BOOLEAN
      BY DEF TypeOK, TaskTypes
    <3>2. \E b \in BOOLEAN : \/ UNCHANGED resp_body_start
                             \/ resp_body_start' = [resp_body_start EXCEPT ![t] = b]
      BY Zenon, <1>2 DEF Move, ForceOta, OpenSocket, SocketFails, Connected, NotConnected, Send, SendFails,
         Begin, BeginFails, Recv,
             RecvEnd, RecvFails, HeaderRefused, HeaderGoesOn, HeaderEnds, Body, End, Activate,
             Fatal, Delete
    <3>3. \E b \in BOOLEAN : \/ UNCHANGED http_200_flag
                             \/ http_200_flag' = [http_200_flag EXCEPT ![t] = b]
      BY Zenon, <1>2 DEF Move, ForceOta, OpenSocket, SocketFails, Connected, NotConnected, Send, SendFails,
         Begin, BeginFails, Recv,
             RecvEnd, RecvFails, HeaderRefused, HeaderGoesOn, HeaderEnds, Body, End, Activate,
             Fatal, Delete
    <3>4. \E b \in BOOLEAN : UNCHANGED whole \/ whole' = [whole EXCEPT ![t] = b]
      BY Zenon, <1>2 DEF Move, ForceOta, OpenSocket, SocketFails, Connected, NotConnected, Send, SendFails,
         Begin, BeginFails, Recv,
             RecvEnd, RecvFails, HeaderRefused, HeaderGoesOn, HeaderEnds, Body, End, Activate,
             Fatal, Delete
    <3>5. overlapped' \in BOOLEAN
      BY Zenon, <1>2, <3>1 DEF Move, ForceOta, OpenSocket, SocketFails, Connected, NotConnected, Send,
         SendFails, Begin, BeginFails, Recv,
             RecvEnd, RecvFails, HeaderRefused, HeaderGoesOn, HeaderEnds, Body, End, Activate,
             Fatal, Delete
    <3> QED
      BY <3>1, <3>2, <3>3, <3>4, <3>5
  <2>5. /\ buff_len' \in [Tasks -> 0 .. BufferSize]
        /\ text' \in Seq(Unit) /\ Len(text') <= BufferSize
    <3>1. /\ buff_len \in [Tasks -> 0 .. BufferSize]
          /\ text \in Seq(Unit) /\ Len(text) <= BufferSize
      BY DEF TypeOK, TaskTypes, NetTypes
    <3>2. CASE Recv(t)
      <4>1. socket[socket_id].rest # NoReply
        BY Zenon, <3>2 DEF Recv
      <4>2. socket[socket_id].rest \in Seq(Unit)
        BY SMT, <2>1, <4>1
      <4>3. PICK n \in 1 .. BufferSize : /\ n <= Len(socket[socket_id].rest)
                                        /\ text' = SubSeq(socket[socket_id].rest, 1, n)
                                        /\ buff_len' = [buff_len EXCEPT ![t] = n]
        BY Zenon, <3>2 DEF Recv, PacketSizes
      <4>4. text' \in Seq(Unit) /\ Len(text') = n
        BY <4>2, <4>3, Packets
      <4>5. n \in 0 .. BufferSize /\ n <= BufferSize
        BY SMT, LocalOtaAssumption DEF LocalOtaAssumption
      <4> QED
        BY SMT, <3>1, <4>3, <4>4, <4>5
    <3>3. CASE ~Recv(t)
      <4>1. text' \in {text, <<>>}
        BY Zenon, <1>2, <3>3 DEF Move, ForceOta, OpenSocket, SocketFails, Connected, NotConnected, Send,
           SendFails, Begin, BeginFails,
             RecvEnd, RecvFails, HeaderRefused, HeaderGoesOn, HeaderEnds, Body, End, Activate,
             Fatal, Delete
      <4>2. UNCHANGED buff_len \/ buff_len' = [buff_len EXCEPT ![t] = 0]
        BY Zenon, <1>2, <3>3 DEF Move, ForceOta, OpenSocket, SocketFails, Connected, NotConnected, Send,
           SendFails, Begin, BeginFails,
             RecvEnd, RecvFails, HeaderRefused, HeaderGoesOn, HeaderEnds, Body, End, Activate,
             Fatal, Delete
      <4>3. 0 \in 0 .. BufferSize /\ 0 <= BufferSize
        BY SMT, LocalOtaAssumption DEF LocalOtaAssumption
      <4>4. <<>> \in Seq(Unit) /\ Len(<<>>) = 0
        BY EmptySeq
      <4> QED
        <5>1. buff_len' \in [Tasks -> 0 .. BufferSize]
          BY SMT, <3>1, <4>2, <4>3
        <5> QED
          BY Zenon, <3>1, <4>1, <4>3, <4>4, <5>1
    <3> QED
      BY <3>2, <3>3
  <2>6. socket_id' \in Socket /\ body' \in [Socket -> Seq(Unit)]
    <3>1. socket_id \in Socket /\ body \in [Socket -> Seq(Unit)]
      BY DEF TypeOK, NetTypes
    <3>2. socket_id' \in {socket_id, t, NoSocket}
      BY Zenon, <1>2 DEF Move, ForceOta, OpenSocket, SocketFails, Connected, NotConnected, Send, SendFails,
         Begin, BeginFails, Recv,
             RecvEnd, RecvFails, HeaderRefused, HeaderGoesOn, HeaderEnds, Body, End, Activate, Fatal
    <3>3. \/ UNCHANGED body
          \/ \E b \in Bodies \cup {<<>>} : body' = [body EXCEPT ![socket_id] = b]
      BY Zenon, <1>2 DEF Move, ForceOta, OpenSocket, SocketFails, Connected, NotConnected, Send, SendFails,
         Begin, BeginFails, Recv,
             RecvEnd, RecvFails, HeaderRefused, HeaderGoesOn, HeaderEnds, Body, End, Activate,
             Fatal, Delete
    <3>4. \A b \in Bodies \cup {<<>>} : b \in Seq(Unit)
      BY EmptySeq, SlotsAndUnits
    <3> QED
      BY SMT, <2>1, <3>1, <3>2, <3>3, <3>4, Sockets
  <2>7. socket' \in [Socket -> [state : State, rest : Rest]]
    <3>1. socket \in [Socket -> [state : State, rest : Rest]] /\ "open" \in State
      BY DEF TypeOK, NetTypes, State, Rest
    <3>2. CASE \/ ForceOta(t) \/ SocketFails(t) \/ SendFails(t) \/ Begin(t) \/ BeginFails(t) \/ RecvFails(t)
               \/ HeaderRefused(t) \/ HeaderGoesOn(t) \/ HeaderEnds(t) \/ Body(t) \/ End(t) \/ Activate(t)
      <4>1. UNCHANGED socket
        BY Zenon, <3>2 DEF ForceOta, SocketFails, SendFails, Begin, BeginFails, RecvFails, HeaderRefused,
           HeaderGoesOn,
           HeaderEnds, Body, End, Activate
      <4> QED
        BY <3>1, <4>1
    <3>3. CASE OpenSocket(t) \/ NotConnected(t) \/ RecvEnd(t) \/ Fatal(t)
      <4>1. PICK u \in {t, socket_id}, st \in {"closed", "connecting"} :
              socket' = [socket EXCEPT ![u] = [state |-> st, rest |-> NoReply]]
        BY Zenon, <3>3 DEF OpenSocket, NotConnected, RecvEnd, Fatal, CloseSocket, Closed
      <4>2. [state |-> st, rest |-> NoReply] \in [state : State, rest : Rest]
        BY DEF State, Rest
      <4> QED
        BY <3>1, <4>1, <4>2
    <3>4. CASE Connected(t)
      BY <2>1, <3>1, <3>4, FieldSet DEF Connected
    <3>5. CASE Send(t)
      <4>2. \A s \in Status, b \in Bodies : Headers(s) \o b \in Rest
        BY HeadersAre DEF Rest
      <4>3. \/ UNCHANGED socket
            \/ \E s \in Status, b \in Bodies : socket' = [socket EXCEPT ![socket_id].rest = Headers(s) \o b]
        BY Zenon, <3>5 DEF Send, Headers
      <4>4. CASE UNCHANGED socket
        BY <3>1, <4>4
      <4>5. ASSUME NEW e \in Rest, socket' = [socket EXCEPT ![socket_id].rest = e]
            PROVE  socket' \in [Socket -> [state : State, rest : Rest]]
        BY <2>1, <4>5, FieldSet
      <4> QED
        BY Zenon, <4>2, <4>3, <4>4, <4>5
    <3>6. CASE Recv(t)
      <4>1. socket[socket_id].rest # NoReply
        BY Zenon, <3>6 DEF Recv
      <4>2. socket_id \in Socket /\ socket[socket_id].rest \in Seq(Unit)
        BY <2>1, <4>1
      <4>3. PICK n \in 1 .. BufferSize :
              /\ n <= Len(socket[socket_id].rest)
              /\ socket' = [socket EXCEPT ![socket_id].rest = SubSeq(@, n + 1, Len(@))]
        BY Zenon, <3>6 DEF Recv, PacketSizes
      <4> DEFINE d == socket[socket_id].rest
                 e == SubSeq(d, n + 1, Len(d))
      <4>4. e \in Rest
        BY <4>2, <4>3, Packets DEF Rest
      <4>5. socket' = [socket EXCEPT ![socket_id].rest = e]
        BY <4>3
      <4> HIDE DEF e
      <4> QED
        BY <4>2, <4>4, <4>5, FieldSet
    <3> QED
      BY ONLY <1>2, <3>2, <3>3, <3>4, <3>5, <3>6, Zenon DEF Move
  <2> QED
    BY <2>2, <2>3, <2>4, <2>5, <2>6, <2>7 DEF TypeOK, TaskTypes, NetTypes, State, Rest
<1> QED
  BY ONLY NextCases, Next, <1>1, <1>2, Zenon

-----------------------------------------------------------------------------
(* The tasks among each other *)

(* A step of one task leaves the others where they are, with what is their *)
(* own.                                                                    *)
LEMMA OthersKeep ==
  ASSUME TypeOK, NEW t \in Tasks, Move(t), NEW u \in Tasks, u # t
  PROVE  /\ pc'[u] = pc[u] /\ handle'[u] = handle[u] /\ buff_len'[u] = buff_len[u]
         /\ resp_body_start'[u] = resp_body_start[u] /\ http_200_flag'[u] = http_200_flag[u]
         /\ whole'[u] = whole[u]
<1> USE DEF At, Goto, localVars, netVars, slotVars, history
<1>1. \/ UNCHANGED pc
      \/ \E e : pc' = [pc EXCEPT ![t] = e]
  BY Zenon DEF Move, ForceOta, OpenSocket, SocketFails, Connected, NotConnected, Send, SendFails, Begin,
     BeginFails,
       Recv, RecvEnd, RecvFails, HeaderRefused, HeaderGoesOn, HeaderEnds, Body, End, Activate,
       Fatal, Delete
<1>2. \/ UNCHANGED handle
      \/ \E e : handle' = [handle EXCEPT ![t] = e]
  <2>1. \A data : OtaWrite(t, data) => \E e : handle' = [handle EXCEPT ![t] = e]
    BY DEF OtaWrite
  <2>2. \A data : OtaWriteFails(t, data) => UNCHANGED handle
    BY DEF OtaWriteFails
  <2> QED
    BY Zenon, <2>1, <2>2 DEF Move, ForceOta, OpenSocket, SocketFails, Connected, NotConnected, Send,
       SendFails, Begin, BeginFails,
       Recv, RecvEnd, RecvFails, HeaderRefused, HeaderGoesOn, HeaderEnds, Body, End, Activate,
       Fatal, Delete
<1>3. \/ UNCHANGED buff_len
      \/ \E e : buff_len' = [buff_len EXCEPT ![t] = e]
  BY Zenon DEF Move, ForceOta, OpenSocket, SocketFails, Connected, NotConnected, Send, SendFails, Begin,
     BeginFails,
       Recv, RecvEnd, RecvFails, HeaderRefused, HeaderGoesOn, HeaderEnds, Body, End, Activate,
       Fatal, Delete
<1>4. \/ UNCHANGED resp_body_start
      \/ \E e : resp_body_start' = [resp_body_start EXCEPT ![t] = e]
  BY Zenon DEF Move, ForceOta, OpenSocket, SocketFails, Connected, NotConnected, Send, SendFails, Begin,
     BeginFails,
       Recv, RecvEnd, RecvFails, HeaderRefused, HeaderGoesOn, HeaderEnds, Body, End, Activate,
       Fatal, Delete
<1>5. \/ UNCHANGED http_200_flag
      \/ \E e : http_200_flag' = [http_200_flag EXCEPT ![t] = e]
  BY Zenon DEF Move, ForceOta, OpenSocket, SocketFails, Connected, NotConnected, Send, SendFails, Begin,
     BeginFails,
       Recv, RecvEnd, RecvFails, HeaderRefused, HeaderGoesOn, HeaderEnds, Body, End, Activate,
       Fatal, Delete
<1>6. \/ UNCHANGED whole
      \/ \E e : whole' = [whole EXCEPT ![t] = e]
  BY Zenon DEF Move, ForceOta, OpenSocket, SocketFails, Connected, NotConnected, Send, SendFails, Begin,
     BeginFails,
       Recv, RecvEnd, RecvFails, HeaderRefused, HeaderGoesOn, HeaderEnds, Body, End, Activate,
       Fatal, Delete
<1> QED
  BY <1>1, <1>2, <1>3, <1>4, <1>5, <1>6 DEF TypeOK, TaskTypes

(* No task but a reset changes the slot that runs, and none takes back     *)
(* that two overlapped.                                                    *)
LEMMA MoveKeeps ==
  ASSUME NEW t \in Tasks, Move(t)
  PROVE  /\ running' = running /\ (~overlapped' => ~overlapped)
         /\ pc[t] # "delay" /\ (pc[t] \in Busy \/ ForceOta(t) \/ Opens(t))
<1> USE DEF At, Goto, localVars, netVars, slotVars, history
<1>1. running' = running
  BY Zenon DEF Move, ForceOta, OpenSocket, SocketFails, Connected, NotConnected, Send, SendFails, Begin,
     BeginFails,
       Recv, RecvEnd, RecvFails, HeaderRefused, HeaderGoesOn, HeaderEnds, Body, End, Activate,
       Fatal, Delete
<1>2. ~overlapped' => ~overlapped
  BY Zenon DEF Move, ForceOta, OpenSocket, SocketFails, Connected, NotConnected, Send, SendFails, Begin,
     BeginFails,
       Recv, RecvEnd, RecvFails, HeaderRefused, HeaderGoesOn, HeaderEnds, Body, End, Activate,
       Fatal, Delete
<1>3. pc[t] # "delay" /\ (pc[t] \in Busy \/ ForceOta(t) \/ Opens(t))
  BY SMT DEF Opens, Busy, Move, ForceOta, OpenSocket, SocketFails, Connected, NotConnected, Send, SendFails, Begin,
     BeginFails,
       Recv, RecvEnd, RecvFails, HeaderRefused, HeaderGoesOn, HeaderEnds, Body, End, Activate,
       Fatal, Delete
<1> QED
  BY <1>1, <1>2, <1>3

(* Where no two overlap, a task at its update is the only one, and the     *)
(* number is that of its socket.                                           *)
LEMMA Alone ==
  ASSUME TypeOK, SocketOK, NEW t \in Tasks, Move(t), ~overlapped'
  PROVE  /\ pc[t] \in Busy \ {"fatal"} => socket_id = t
         /\ pc[t] = "fatal" => socket_id = t \/ (socket_id = NoSocket /\ socket[t].state = "closed")
         /\ pc[t] \in Busy \/ Opens(t) =>
              \A u \in Tasks : u # t => pc[u] \notin Busy /\ socket[u].state = "closed"
         /\ Opens(t) => pc[t] \notin Busy /\ socket[t].state = "closed"
<1>1. ~overlapped
  BY MoveKeeps
<1>2. \A u \in Tasks :
        /\ pc[u] \in Busy => \A v \in Tasks : pc[v] \in Busy => v = u
        /\ pc[u] \in Busy =>
             socket_id = u \/ (socket_id = NoSocket /\ pc[u] = "fatal" /\ socket[u].state = "closed")
        /\ socket[u].state # "closed" => pc[u] \in Busy
  BY <1>1 DEF SocketOK
<1>3. "fatal" \in Busy /\ NoSocket \notin Tasks
  BY Sockets DEF Busy
<1>4. Opens(t) => \A u \in Tasks : pc[u] \notin Busy
  BY Zenon DEF Opens, OpenSocket, SocketFails
<1> QED
  BY <1>2, <1>3, <1>4

(* What a task that moves takes along of its own.                          *)
LEMMA TasksStep ==
  ASSUME TypeOK, TasksOK, Next
  PROVE  TasksOK'
<1> USE DEF At, Goto, localVars, netVars, slotVars, history
<1>1. CASE Reboot
  <2>1. \A u \in Tasks : /\ pc'[u] = "absent" /\ http_200_flag'[u] = FALSE
                         /\ resp_body_start'[u] = FALSE /\ whole'[u] = FALSE
    BY <1>1 DEF Reboot, RamAtReset
  <2> QED
    BY <2>1 DEF TasksOK, Busy, InUpdate
<1>2. ASSUME NEW t \in Tasks, Move(t) PROVE TasksOK'
  <2>1. \A u \in Tasks : u # t => /\ pc'[u] = pc[u] /\ handle'[u] = handle[u]
                                  /\ resp_body_start'[u] = resp_body_start[u]
                                  /\ http_200_flag'[u] = http_200_flag[u] /\ whole'[u] = whole[u]
    BY <1>2, OthersKeep
  <2>2. running' = running
    BY <1>2, MoveKeeps
  <2>3. /\ pc \in [Tasks -> Busy \cup {"absent", "waiting", "gone"}]
        /\ resp_body_start \in [Tasks -> BOOLEAN] /\ http_200_flag \in [Tasks -> BOOLEAN]
        /\ whole \in [Tasks -> BOOLEAN] /\ buff_len \in [Tasks -> 0 .. BufferSize]
        /\ handle \in [Tasks -> {NoHandle} \cup [slot : Slot, pos : 0 .. SlotSize]]
    BY DEF TypeOK, TaskTypes
  <2>4. /\ pc[t] \in InUpdate => handle[t] # NoHandle /\ handle[t].slot = NextUpdateSlot(running)
        /\ pc[t] \notin InUpdate \cup {"fatal"} => ~http_200_flag[t]
        /\ whole[t] => resp_body_start[t]
        /\ resp_body_start[t] => http_200_flag[t]
    BY DEF TasksOK
  <2>5. pc'[t] \in InUpdate => handle'[t] # NoHandle /\ handle'[t].slot = NextUpdateSlot(running)
    <3>1. CASE Begin(t)
      <4>1. handle'[t] = [slot |-> NextUpdateSlot(running), pos |-> 0]
        BY <2>3, <3>1 DEF Begin
      <4>2. [slot |-> NextUpdateSlot(running), pos |-> 0] # NoHandle
        BY SMT, SlotsAndUnits, LocalOtaAssumption DEF LocalOtaAssumption, TypeOK, SlotTypes
      <4> QED
        BY <4>1, <4>2
    <3>2. CASE HeaderEnds(t)
      <4>1. /\ OtaWrite(t, AfterHeaders(t)) \/ OtaWriteFails(t, AfterHeaders(t))
            /\ BlankLines(buff_len[t]) # {} /\ FirstOf(BlankLines(buff_len[t])) < buff_len[t]
            /\ pc[t] = "got"
        BY Zenon, <3>2 DEF HeaderEnds
      <4>2. AfterHeaders(t) \in Seq(Unit) /\ pc[t] \in InUpdate
        BY <4>1, AfterHeadersIs DEF InUpdate
      <4> QED
        BY <2>4, <4>1, <4>2, Writes
    <3>3. CASE Body(t)
      <4>1. /\ OtaWrite(t, Bytes(1, buff_len[t])) \/ OtaWriteFails(t, Bytes(1, buff_len[t]))
            /\ pc[t] = "got"
        BY Zenon, <3>3 DEF Body
      <4>2. Bytes(1, buff_len[t]) \in Seq(Unit) /\ pc[t] \in InUpdate
        BY <4>1, PacketIs DEF InUpdate
      <4> QED
        BY <2>4, <4>1, <4>2, Writes
    <3>4. CASE ~(Begin(t) \/ HeaderEnds(t) \/ Body(t))
      <4>1. (UNCHANGED handle /\ (pc'[t] \in InUpdate => pc[t] \in InUpdate)) \/ pc'[t] = "gone"
        BY SMT, <1>2, <2>3, <3>4 DEF InUpdate, Move, ForceOta, OpenSocket, SocketFails, Connected,
           NotConnected, Send, SendFails, Begin, BeginFails,
       Recv, RecvEnd, RecvFails, HeaderRefused, HeaderGoesOn, HeaderEnds, Body, End, Activate,
       Fatal, Delete
      <4> QED
        BY SMT, <2>4, <4>1 DEF InUpdate
    <3> QED
      BY <3>1, <3>2, <3>3, <3>4
  <2>6. /\ pc'[t] \notin InUpdate \cup {"fatal"} => ~http_200_flag'[t]
        /\ whole'[t] => resp_body_start'[t]
        /\ resp_body_start'[t] => http_200_flag'[t]
    BY SMT, <1>2, <2>3, <2>4 DEF InUpdate, Move, ForceOta, OpenSocket, SocketFails, Connected, NotConnected,
       Send, SendFails, Begin, BeginFails,
       Recv, RecvEnd, RecvFails, HeaderRefused, HeaderGoesOn, HeaderEnds, Body, End, Activate,
       Fatal, Delete
  <2>7. ASSUME NEW u \in Tasks
        PROVE  /\ pc'[u] \in InUpdate => handle'[u] # NoHandle /\ handle'[u].slot = NextUpdateSlot(running)
               /\ pc'[u] \notin InUpdate \cup {"fatal"} => ~http_200_flag'[u]
               /\ whole'[u] => resp_body_start'[u]
               /\ resp_body_start'[u] => http_200_flag'[u]
    <3>1. CASE u = t
      BY <2>5, <2>6, <3>1
    <3>2. CASE u # t
      BY <2>1, <2>2, <3>2 DEF TasksOK
    <3> QED
      BY <3>1, <3>2
  <2> QED
    BY <2>2, <2>7 DEF TasksOK
<1> QED
  BY ONLY NextCases, Next, <1>1, <1>2, Zenon

(* Who opens a socket is alone, and who leaves his update closes it.       *)
LEMMA SocketStep ==
  ASSUME TypeOK, SocketOK, Next
  PROVE  SocketOK'
<1> USE DEF At, Goto, localVars, netVars, slotVars, history
<1>1. CASE Reboot
  <2>1. \A u \in Tasks : pc'[u] = "absent" /\ socket'[u].state = "closed"
    BY <1>1, Sockets DEF Reboot, RamAtReset, Closed
  <2> QED
    BY <2>1 DEF SocketOK, Busy
<1>2. ASSUME NEW t \in Tasks, Move(t), ~overlapped' PROVE SocketOK'
  <2>1. /\ pc[t] \in Busy \ {"fatal"} => socket_id = t
        /\ pc[t] = "fatal" => socket_id = t \/ (socket_id = NoSocket /\ socket[t].state = "closed")
        /\ pc[t] \in Busy \/ Opens(t) =>
              \A u \in Tasks : u # t => pc[u] \notin Busy /\ socket[u].state = "closed"
        /\ Opens(t) => pc[t] \notin Busy /\ socket[t].state = "closed"
    BY <1>2, Alone
  <2>2. \A u \in Tasks : u # t => pc'[u] = pc[u]
    BY <1>2, OthersKeep
  <2>3. /\ pc \in [Tasks -> Busy \cup {"absent", "waiting", "gone"}]
        /\ socket \in [Socket -> [state : State, rest : Rest]]
    BY DEF TypeOK, TaskTypes, NetTypes, State, Rest
  <2>4. \A u \in Tasks :
          /\ pc[u] \in Busy => \A v \in Tasks : pc[v] \in Busy => v = u
          /\ pc[u] \in Busy =>
               socket_id = u \/ (socket_id = NoSocket /\ pc[u] = "fatal" /\ socket[u].state = "closed")
          /\ socket[u].state # "closed" => pc[u] \in Busy
    BY <1>2, MoveKeeps DEF SocketOK
  <2>5. CASE ForceOta(t)
    <3>1. UNCHANGED <<socket_id, socket>> /\ pc'[t] = "waiting" /\ pc[t] = "absent"
      BY <2>3, <2>5 DEF ForceOta
    <3> QED
      BY SMT, <2>2, <2>4, <3>1 DEF SocketOK, Busy
  <2>6. CASE OpenSocket(t)
    <3>1. /\ socket_id' = t /\ socket' = [socket EXCEPT ![t] = [state |-> "connecting", rest |-> NoReply]]
          /\ pc'[t] = "connecting"
      BY <2>3, <2>6 DEF OpenSocket
    <3> QED
      BY <2>1, <2>2, <2>3, <2>6, <3>1, Sockets DEF Opens, SocketOK, Busy
  <2>7. CASE SocketFails(t)
    <3>1. socket_id' = NoSocket /\ socket' = socket /\ pc'[t] = "fatal"
      BY <2>3, <2>7 DEF SocketFails
    <3> QED
      BY <2>1, <2>2, <2>7, <3>1 DEF Opens, SocketOK, Busy
  <2>8. CASE pc[t] \in Busy /\ ~Opens(t) /\ ~ForceOta(t)
    <3>1. socket_id' = socket_id
      BY Zenon, <1>2, <2>8 DEF Opens, Move, Connected, NotConnected, Send, SendFails, Begin, BeginFails,
         Recv, RecvEnd, RecvFails, HeaderRefused, HeaderGoesOn, HeaderEnds, Body, End, Activate,
         Fatal, Delete
    <3>2. Fatal(t) \/ (pc[t] # "fatal" /\ pc'[t] \in Busy)
      BY SMT, <1>2, <2>3, <2>8 DEF Opens, Busy, Move, Connected, NotConnected, Send, SendFails,
         Begin, BeginFails,
         Recv, RecvEnd, RecvFails, HeaderRefused, HeaderGoesOn, HeaderEnds, Body, End, Activate
    <3>3. CASE Fatal(t)
      <4>1. pc[t] = "fatal" /\ pc'[t] = "gone" /\ socket' = [socket EXCEPT ![socket_id] = Closed]
        BY <2>3, <3>3 DEF Fatal, Delete, CloseSocket
      <4>2. \A u \in Tasks : socket'[u] = IF u = socket_id THEN Closed ELSE socket[u]
        BY <2>3, <4>1, Sockets
      <4>3. \A u \in Tasks : socket'[u].state = "closed"
        BY <2>1, <2>8, <4>1, <4>2 DEF Closed
      <4>4. \A u \in Tasks : pc'[u] \notin Busy
        BY <2>1, <2>2, <2>8, <4>1 DEF Busy
      <4> QED
        BY <4>3, <4>4 DEF SocketOK
    <3>4. CASE pc[t] # "fatal" /\ pc'[t] \in Busy
      <4>1. socket_id = t
        BY <2>1, <2>8, <3>4
      <4>2. \A u \in Tasks : u # t => socket'[u] = socket[u]
        <5>1. CASE Connected(t)
          BY <2>3, <5>1, Sockets DEF Connected
        <5>2. CASE Send(t)
          BY <2>3, <4>1, <5>2, Sockets DEF Send
        <5>3. CASE Recv(t)
          BY <2>3, <4>1, <5>3, Sockets DEF Recv
        <5>4. CASE ~(Connected(t) \/ Send(t) \/ Recv(t))
          <6>1. UNCHANGED socket \/ socket' = [socket EXCEPT ![t] = Closed]
            BY Zenon, <1>2, <2>8, <4>1, <5>4 DEF Opens, Move, NotConnected, SendFails, Begin,
               BeginFails, RecvEnd, RecvFails, HeaderRefused, HeaderGoesOn, HeaderEnds, Body, End,
               Activate, Fatal, CloseSocket
          <6> QED
            BY <2>3, <6>1, Sockets
        <5> QED
          BY <5>1, <5>2, <5>3, <5>4
      <4> QED
        BY <2>1, <2>2, <2>8, <3>1, <3>4, <4>1, <4>2 DEF SocketOK
    <3> QED
      BY <3>2, <3>3, <3>4
  <2> QED
    BY <1>2, <2>5, <2>6, <2>7, <2>8, MoveKeeps DEF Opens
<1>3. CASE overlapped'
  BY <1>3 DEF SocketOK
<1> QED
  BY ONLY NextCases, Next, <1>1, <1>2, <1>3, Zenon

-----------------------------------------------------------------------------
(* The slots *)

(* A task that is alone erases and writes the slot after the running one,  *)
(* and as long as it does, the running one boots.                          *)
LEMMA FlashStep ==
  ASSUME TypeOK, TasksOK, SocketOK, BootOK, NEW t \in Tasks, Move(t), ~overlapped'
  PROVE  \/ flash' = flash
         \/ /\ boot = running /\ boot' = boot
            /\ flash' \in [Slot -> [1 .. SlotSize -> Unit \cup {Erased}]]
            /\ \A s \in Slot : s # NextUpdateSlot(running) => flash'[s] = flash[s]
<1> USE DEF At, Goto, localVars, netVars, slotVars, history
<1>1. ~overlapped /\ (pc[t] \in InUpdate => handle[t] # NoHandle /\ handle[t].slot = NextUpdateSlot(running))
  BY MoveKeeps DEF TasksOK
<1>2. pc[t] \in {"begin", "got"} => boot = running
  <2> SUFFICES ASSUME pc[t] \in {"begin", "got"} PROVE boot = running
    OBVIOUS
  <2>1. \A u \in Tasks : pc[u] # "delay"
    <3>1. pc[t] \in Busy /\ pc[t] # "delay"
      BY SMT DEF Busy
    <3>2. \A u \in Tasks : u # t => pc[u] \notin Busy
      BY <3>1, Alone
    <3> QED
      BY <3>1, <3>2 DEF Busy
  <2> QED
    BY <1>1, <2>1 DEF BootOK
<1>3. flash' \in [Slot -> [1 .. SlotSize -> Unit \cup {Erased}]]
  <2>1. Next
    <3>1. CASE ForceOta(t)
      BY Zenon, <3>1 DEF Next
    <3>2. CASE ~ForceOta(t)
      <4>1. TaskStep(t)
        BY Zenon, <3>2 DEF Move, TaskStep
      <4> QED
        BY Zenon, <4>1 DEF Next
    <3> QED
      BY <3>1, <3>2
  <2> QED
    BY <2>1, TypeStep DEF TypeOK, SlotTypes
<1>4. CASE Begin(t) \/ BeginFails(t)
  <2>1. /\ pc[t] = "begin" /\ boot' = boot
        /\ flash' = flash \/ flash' = [flash EXCEPT ![NextUpdateSlot(running)] = Blank]
    BY Zenon, <1>4 DEF Begin, BeginFails
  <2> QED
    BY <1>2, <1>3, <2>1 DEF TypeOK, SlotTypes
<1>5. CASE HeaderEnds(t)
  <2>1. /\ OtaWrite(t, AfterHeaders(t)) \/ OtaWriteFails(t, AfterHeaders(t))
        /\ BlankLines(buff_len[t]) # {} /\ FirstOf(BlankLines(buff_len[t])) < buff_len[t]
        /\ pc[t] = "got" /\ boot' = boot
    BY Zenon, <1>5 DEF HeaderEnds
  <2>2. AfterHeaders(t) \in Seq(Unit) /\ pc[t] \in InUpdate
    BY <2>1, AfterHeadersIs DEF InUpdate
  <2> QED
    BY <1>1, <1>2, <1>3, <2>1, <2>2, Writes
<1>6. CASE Body(t)
  <2>1. /\ OtaWrite(t, Bytes(1, buff_len[t])) \/ OtaWriteFails(t, Bytes(1, buff_len[t]))
        /\ pc[t] = "got" /\ boot' = boot
    BY Zenon, <1>6 DEF Body
  <2>2. Bytes(1, buff_len[t]) \in Seq(Unit) /\ pc[t] \in InUpdate
    BY <2>1, PacketIs DEF InUpdate
  <2> QED
    BY <1>1, <1>2, <1>3, <2>1, <2>2, Writes
<1>7. CASE ~(Begin(t) \/ BeginFails(t) \/ HeaderEnds(t) \/ Body(t))
  BY Zenon, <1>7 DEF Move, ForceOta, OpenSocket, SocketFails, Connected, NotConnected, Send, SendFails,
     Begin, BeginFails,
       Recv, RecvEnd, RecvFails, HeaderRefused, HeaderGoesOn, HeaderEnds, Body, End, Activate,
       Fatal, Delete
<1> QED
  BY <1>4, <1>5, <1>6, <1>7

(* What a reset of a task that is alone does to the slots.                 *)
LEMMA ResetSlots ==
  ASSUME TypeOK, BootOK, Reboot, ~overlapped'
  PROVE  /\ running' = boot /\ boot' = boot /\ Valid(boot)
         /\ \A s \in Slot : Valid(s) => flash'[s] = flash[s]
         /\ \A s \in Slot : ~Valid(s) => flash'[s] = Blank
<1>1. Valid(boot)
  BY Zenon DEF Reboot, BootOK
<1> QED
  BY <1>1 DEF Reboot

LEMMA BlankIsNotValid ==
  ASSUME NEW s \in Slot, flash'[s] = Blank
  PROVE  ~Valid(s)'
<1>1. Image \in Seq(Unit) /\ Image # <<>> /\ Len(Image) <= SlotSize /\ SlotSize \in Nat
  BY LocalOtaAssumption DEF LocalOtaAssumption
<1>2. Len(Image) \in Nat /\ Len(Image) # 0 /\ DOMAIN Image = 1 .. Len(Image)
  BY <1>1, LenProperties, EmptySeq
<1>3. 1 \in DOMAIN Image /\ 1 \in 1 .. SlotSize
  BY SMT, <1>1, <1>2
<1>4. Image[1] # Erased
  BY Zenon, <1>3, LocalOtaAssumption DEF LocalOtaAssumption
<1>5. flash'[s][1] = Erased
  BY <1>3 DEF Blank
<1> QED
  BY <1>3, <1>4, <1>5 DEF Valid

(* The boot slot stays whole.                                              *)
LEMMA BootStep ==
  ASSUME TypeOK, TasksOK, SocketOK, BootOK, Next
  PROVE  BootOK'
<1> USE DEF At, Goto, localVars, netVars, slotVars, history
<1>1. boot \in Slot /\ running \in Slot /\ flash \in [Slot -> [1 .. SlotSize -> Unit \cup {Erased}]]
  BY DEF TypeOK, SlotTypes
<1>2. ASSUME Reboot, ~overlapped' PROVE BootOK'
  <2>1. Valid(boot)' /\ boot' = running'
    BY <1>1, <1>2, ResetSlots DEF Valid
  <2> QED
    BY <2>1 DEF BootOK
<1>3. ASSUME NEW t \in Tasks, Move(t), ~overlapped' PROVE BootOK'
  <2>1. ~overlapped /\ running' = running /\ pc[t] # "delay"
    BY <1>3, MoveKeeps
  <2>2. Valid(boot) /\ (boot = running \/ \E u \in Tasks : pc[u] = "delay")
    BY <2>1 DEF BootOK
  <2>3. CASE Activate(t)
    <3>1. CASE Valid(handle[t].slot) /\ boot' = handle[t].slot /\ Goto(t, "delay")
      <4>1. flash' = flash /\ pc'[t] = "delay"
        BY <2>3, <3>1 DEF Activate, TypeOK, TaskTypes
      <4> QED
        BY <3>1, <4>1 DEF BootOK, Valid
    <3>2. CASE boot' = boot /\ Goto(t, "fatal")
      <4>1. flash' = flash /\ \A u \in Tasks : u # t => pc'[u] = pc[u]
        BY <2>3, <3>2 DEF Activate, TypeOK, TaskTypes
      <4> QED
        BY <2>1, <2>2, <3>2, <4>1 DEF BootOK, Valid
    <3> QED
      BY Zenon, <2>3, <3>1, <3>2 DEF Activate
  <2>4. CASE ~Activate(t)
    <3>1. boot' = boot
      BY Zenon, <1>3, <2>4 DEF Move, ForceOta, OpenSocket, SocketFails, Connected, NotConnected, Send,
         SendFails, Begin, BeginFails,
       Recv, RecvEnd, RecvFails, HeaderRefused, HeaderGoesOn, HeaderEnds, Body, End, Activate,
       Fatal, Delete
    <3>2. \A u \in Tasks : pc[u] = "delay" => pc'[u] = "delay"
      BY <1>3, <2>1, OthersKeep
    <3>3. flash'[boot] = flash[boot]
      BY <1>1, <1>3, FlashStep, SlotsAndUnits
    <3>4. Valid(boot)'
      BY <2>2, <3>1, <3>3 DEF Valid
    <3> QED
      BY <2>1, <2>2, <3>1, <3>2, <3>4 DEF BootOK
  <2> QED
    BY <2>3, <2>4
<1>4. CASE overlapped'
  BY <1>4 DEF BootOK
<1> QED
  BY ONLY NextCases, Next, <1>2, <1>3, <1>4, Zenon

-----------------------------------------------------------------------------
(* The reply *)

(* A write on erased flash leaves what is written there, behind what was   *)
(* there before.                                                           *)
LEMMA Writing ==
  ASSUME TypeOK, NEW t \in Tasks, handle[t] # NoHandle, NEW data \in Seq(Unit), OtaWrite(t, data)
  PROVE  /\ handle[t].slot \in Slot /\ handle[t].pos \in Nat /\ Len(data) \in Nat
         /\ handle'[t] = [slot |-> handle[t].slot, pos |-> handle[t].pos + Len(data)]
         /\ handle[t].pos + Len(data) <= SlotSize
         /\ \A i \in 1 .. SlotSize :
              i <= handle[t].pos \/ i > handle[t].pos + Len(data) =>
                flash'[handle[t].slot][i] = flash[handle[t].slot][i]
         /\ \A i \in 1 .. SlotSize :
              i > handle[t].pos /\ i <= handle[t].pos + Len(data) /\ flash[handle[t].slot][i] = Erased =>
                flash'[handle[t].slot][i] = data[i - handle[t].pos]
<1> DEFINE h == handle[t]
<1>1. h \in [slot : Slot, pos : 0 .. SlotSize] /\ SlotSize \in Nat
  BY LocalOtaAssumption DEF LocalOtaAssumption, TypeOK, TaskTypes
<1>2. h.slot \in Slot /\ h.pos \in Nat /\ Len(data) \in Nat /\ DOMAIN data = 1 .. Len(data)
  BY SMT, <1>1, LenProperties
<1>3. /\ h.pos + Len(data) <= SlotSize
      /\ flash' = [flash EXCEPT ![h.slot] =
                     [i \in 1 .. SlotSize |->
                        IF i - h.pos \in DOMAIN data THEN Programmed(flash[h.slot][i], data[i - h.pos])
                                                     ELSE flash[h.slot][i]]]
      /\ handle' = [handle EXCEPT ![t] = [handle[t] EXCEPT !.pos = @ + Len(data)]]
  BY DEF OtaWrite, Fits
<1>4. handle'[t] = [slot |-> h.slot, pos |-> h.pos + Len(data)]
  <2>1. \A r \in [slot : Slot, pos : 0 .. SlotSize] : \A e :
          [r EXCEPT !.pos = e] = [slot |-> r.slot, pos |-> e]
    OBVIOUS
  <2>2. handle'[t] = [handle[t] EXCEPT !.pos = @ + Len(data)]
    BY <1>3 DEF TypeOK, TaskTypes
  <2> QED
    BY <1>1, <2>1, <2>2
<1>5. flash'[h.slot] = [i \in 1 .. SlotSize |->
                         IF i - h.pos \in DOMAIN data THEN Programmed(flash[h.slot][i], data[i - h.pos])
                                                      ELSE flash[h.slot][i]]
  BY <1>2, <1>3 DEF TypeOK, SlotTypes
<1>6. ASSUME NEW i \in 1 .. SlotSize, i <= h.pos \/ i > h.pos + Len(data)
      PROVE  flash'[h.slot][i] = flash[h.slot][i]
  <2>1. i - h.pos \notin DOMAIN data
    BY SMT, <1>1, <1>2, <1>6
  <2> QED
    BY <1>5, <2>1
<1>7. ASSUME NEW i \in 1 .. SlotSize, i > h.pos, i <= h.pos + Len(data), flash[h.slot][i] = Erased
      PROVE  flash'[h.slot][i] = data[i - h.pos]
  <2>1. i - h.pos \in DOMAIN data
    BY SMT, <1>1, <1>2, <1>7
  <2> QED
    BY <1>5, <1>7, <2>1 DEF Programmed
<1> QED
  BY <1>2, <1>3, <1>4, <1>6, <1>7

(* While a task is at its update alone, nothing comes for another.         *)
LEMMA OthersNet ==
  ASSUME TypeOK, SocketOK, NEW t \in Tasks, Move(t), ~overlapped', NEW u \in Tasks, u # t, pc[u] \in Busy
  PROVE  pc' = [pc EXCEPT ![t] = "waiting"] /\ UNCHANGED <<handle, localVars, text, netVars, slotVars, history>>
<1>1. pc[t] \notin Busy /\ ~Opens(t)
  BY Alone
<1>2. ForceOta(t)
  BY <1>1, MoveKeeps
<1> QED
  BY <1>2 DEF ForceOta, Goto

LEMMA ReplyStep ==
  ASSUME TypeOK, TasksOK, SocketOK, BootOK, ReplyOK, Next
  PROVE  ReplyOK'
<1> USE DEF At, Goto, localVars, netVars, slotVars, history
<1>1. CASE Reboot
  <2>1. \A u \in Tasks : pc'[u] = "absent"
    BY <1>1 DEF Reboot, RamAtReset
  <2> QED
    BY <2>1 DEF ReplyOK, ReplyOf
<1>2. ASSUME NEW t \in Tasks, Move(t), ~overlapped' PROVE ReplyOK'
  <2>1. \A u \in Tasks : ReplyOf(u)
    BY <1>2, MoveKeeps DEF ReplyOK
  <2>2. ASSUME NEW u \in Tasks, u # t PROVE ReplyOf(u)'
    <3>1. pc'[u] = pc[u]
      BY <1>2, <2>2, OthersKeep
    <3>2. CASE pc[u] \in Busy
      <4>1. UNCHANGED <<handle, localVars, text, netVars, slotVars, history>>
        BY Zenon, <1>2, <2>2, <3>2, OthersNet
      <4>2. ReplyOf(u)
        BY <2>1
      <4> QED
        BY <3>1, <4>1, <4>2 DEF ReplyOf, Received
    <3>3. CASE pc[u] \notin Busy
      BY <3>1, <3>3 DEF ReplyOf, Busy
    <3> QED
      BY <3>2, <3>3
  <2>3. ReplyOf(t)'
    <3>1. /\ pc \in [Tasks -> Busy \cup {"absent", "waiting", "gone"}]
          /\ socket \in [Socket -> [state : State, rest : Rest]]
          /\ body \in [Socket -> Seq(Unit)] /\ http_200_flag \in [Tasks -> BOOLEAN]
          /\ buff_len \in [Tasks -> 0 .. BufferSize]
          /\ flash \in [Slot -> [1 .. SlotSize -> Unit \cup {Erased}]]
          /\ handle \in [Tasks -> {NoHandle} \cup [slot : Slot, pos : 0 .. SlotSize]]
      BY DEF TypeOK, TaskTypes, NetTypes, SlotTypes, State, Rest
    <3>2. /\ pc[t] \in Busy \ {"fatal"} => socket_id = t
          /\ pc[t] \in InUpdate => handle[t] # NoHandle /\ handle[t].slot = NextUpdateSlot(running)
          /\ resp_body_start[t] => http_200_flag[t]
      BY <1>2, Alone DEF TasksOK
    <3>3. ReplyOf(t)
      BY <2>1
    <3>4. pc'[t] \in {"connecting", "send", "begin", "recv", "got"} =>
            \/ OpenSocket(t) \/ Connected(t) \/ Send(t) \/ Begin(t) \/ Recv(t)
            \/ HeaderGoesOn(t) \/ HeaderEnds(t) \/ Body(t)
      <4>1. CASE NotConnected(t) \/ SendFails(t) \/ BeginFails(t) \/ RecvEnd(t) \/ RecvFails(t)
                 \/ HeaderRefused(t) \/ End(t) \/ Activate(t) \/ Fatal(t) \/ ForceOta(t) \/ SocketFails(t)
        <5>1. \E e \in {"fatal", "end", "activate", "delay", "gone", "waiting"} : pc' = [pc EXCEPT ![t] = e]
          BY SMT, <4>1 DEF NotConnected, SocketFails, SendFails, BeginFails, RecvEnd, RecvFails,
             HeaderRefused, End,
             Activate, Fatal, Delete, ForceOta
        <5> QED
          BY SMT, <3>1, <5>1
      <4> QED
        BY Zenon, <1>2, <4>1 DEF Move
    <3>5. CASE pc'[t] \notin {"connecting", "send", "begin", "recv", "got"}
      BY <3>5 DEF ReplyOf
    <3>6. CASE OpenSocket(t)
      <4>1. pc'[t] = "connecting" /\ socket'[t].rest = NoReply
        BY <3>1, <3>6, Sockets DEF OpenSocket
      <4> QED
        BY <4>1 DEF ReplyOf
    <3>7. CASE Connected(t)
      <4>1. pc[t] = "connecting" /\ pc'[t] = "send" /\ socket' = [socket EXCEPT ![t].state = "open"]
        BY <3>1, <3>7 DEF Connected
      <4>2. socket'[t].rest = NoReply
        BY <3>3, <4>1, FieldSet, OwnSocket DEF ReplyOf, State
      <4> QED
        BY <4>1, <4>2 DEF ReplyOf
    <3>8. CASE Send(t)
      <4>1. pc[t] = "send" /\ pc'[t] = "begin" /\ socket_id = t
        BY <3>1, <3>2, <3>8 DEF Send, Busy
      <4>2. socket[socket_id].rest = NoReply
        BY <3>3, <4>1 DEF ReplyOf
      <4>3. PICK s \in Status, b \in Bodies :
              socket' = [socket EXCEPT ![t].rest = Headers(s) \o b] /\ body' = [body EXCEPT ![t] = b]
        BY Zenon, <3>8, <4>1, <4>2 DEF Send, Headers
      <4>4. Headers(s) \o b \in Seq(Unit)
        BY HeadersAre
      <4> DEFINE reply == Headers(s) \o b
      <4>5. reply \in Rest /\ socket' = [socket EXCEPT ![t].rest = reply]
        BY <4>3, <4>4 DEF Rest
      <4>6. Headers(s) \o body'[t] = reply
        BY <3>1, <4>3, Sockets
      <4> HIDE DEF reply
      <4>7. socket'[t].rest = reply
        <5>1. socket'[t] = [state |-> socket[t].state, rest |-> reply]
          BY Zenon, <4>5, FieldSet, OwnSocket
        <5> QED
          BY <5>1
      <4>8. Received(t)' = <<>> /\ <<>> \o reply = reply /\ reply \in Seq(Unit)
        BY <4>1, <4>4, ConcatEmptySeq DEF Received, reply
      <4>9. Headers(s) \o body'[t] = Received(t)' \o socket'[t].rest
        BY ONLY <4>6, <4>7, <4>8, Zenon
      <4> QED
        BY <4>1, <4>7, <4>8, <4>9 DEF ReplyOf
    <3>9. CASE Begin(t)
      <4>1. /\ pc[t] = "begin" /\ pc'[t] = "recv" /\ UNCHANGED <<socket, body, http_200_flag>>
            /\ handle'[t] = [slot |-> NextUpdateSlot(running), pos |-> 0]
            /\ flash'[NextUpdateSlot(running)] = Blank
        BY <3>1, <3>9, SlotsAndUnits DEF Begin, TypeOK, SlotTypes
      <4>2. Received(t) = <<>> /\ Received(t)' = <<>>
        BY <4>1 DEF Received
      <4>3. \A i \in 1 .. SlotSize : flash'[handle'[t].slot][i] = Erased
        <5>1. flash'[handle'[t].slot] = Blank
          BY <4>1
        <5>2. \A i \in 1 .. SlotSize : Blank[i] = Erased
          BY DEF Blank
        <5> QED
          BY <5>1, <5>2
      <4> QED
        BY <3>3, <4>1, <4>2, <4>3 DEF ReplyOf
    <3>10. CASE Recv(t)
      <4>1. pc[t] = "recv" /\ pc'[t] = "got" /\ socket_id = t /\ UNCHANGED <<body, http_200_flag, handle, flash>>
        BY <3>1, <3>2, <3>10 DEF Recv, Busy
      <4> DEFINE d == socket[t].rest
      <4>2. d \in Seq(Unit) /\ t \in Tasks
        BY <3>3, <4>1 DEF ReplyOf
      <4>3. PICK n \in 1 .. BufferSize :
              /\ n <= Len(d) /\ text' = SubSeq(d, 1, n)
              /\ socket' = [socket EXCEPT ![t].rest = SubSeq(d, n + 1, Len(d))]
              /\ buff_len' = [buff_len EXCEPT ![t] = n]
        BY Zenon, <3>10, <4>1 DEF Recv, PacketSizes
      <4> DEFINE e == SubSeq(d, n + 1, Len(d))
      <4>4. text' \in Seq(Unit) /\ Len(text') = n /\ e \in Seq(Unit) /\ text' \o e = d
        BY <4>2, <4>3, Packets
      <4>5. socket' = [socket EXCEPT ![t].rest = e] /\ e \in Rest
        BY <4>3, <4>4 DEF Rest
      <4> HIDE DEF e
      <4>6. socket'[t].rest = e
        <5>1. socket'[t] = [state |-> socket[t].state, rest |-> e]
          BY Zenon, <4>5, FieldSet, OwnSocket
        <5> QED
          BY <5>1
      <4>7. buff_len'[t] = n
        BY <3>1, <4>3
      <4>8. Received(t) = <<>> /\ Received(t)' = text' /\ <<>> \o d = d
        BY <4>1, <4>2, ConcatEmptySeq DEF Received
      <4>9. Received(t)' \o socket'[t].rest = Received(t) \o d
        BY ONLY <4>4, <4>6, <4>8, Zenon
      <4> QED
        BY <3>3, <4>1, <4>4, <4>6, <4>7, <4>9 DEF ReplyOf
    <3>11. CASE HeaderGoesOn(t)
      <4>1. /\ pc[t] = "got" /\ pc'[t] = "recv" /\ http_200_flag'[t] = TRUE
            /\ UNCHANGED <<socket, handle, flash>>
        BY <3>1, <3>11 DEF HeaderGoesOn
      <4> QED
        BY <3>3, <4>1 DEF ReplyOf
    <3>12. ASSUME NEW data \in Seq(Unit), OtaWrite(t, data) \/ OtaWriteFails(t, data),
                  pc[t] = "got", pc'[t] = "recv", http_200_flag'[t] = TRUE, UNCHANGED socket
           PROVE  ReplyOf(t)'
      <4>1. \A i \in 1 .. SlotSize : i > handle[t].pos => flash[handle[t].slot][i] = Erased
        BY <3>3, <3>12 DEF ReplyOf
      <4>2. \A i \in 1 .. SlotSize : i > handle'[t].pos => flash'[handle'[t].slot][i] = Erased
        <5>1. CASE OtaWrite(t, data)
          <6>1. handle[t] # NoHandle
            BY <3>2, <3>12 DEF InUpdate
          <6>2. /\ handle[t].slot \in Slot /\ handle[t].pos \in Nat /\ Len(data) \in Nat
                /\ handle'[t] = [slot |-> handle[t].slot, pos |-> handle[t].pos + Len(data)]
                /\ \A i \in 1 .. SlotSize :
                     i <= handle[t].pos \/ i > handle[t].pos + Len(data) =>
                       flash'[handle[t].slot][i] = flash[handle[t].slot][i]
            BY <5>1, <6>1, Writing
          <6>3. handle'[t].slot = handle[t].slot /\ handle'[t].pos = handle[t].pos + Len(data)
            BY <6>2
          <6>4. \A i \in 1 .. SlotSize : i > handle[t].pos + Len(data) => i > handle[t].pos
            BY SMT, <6>2
          <6> QED
            BY Zenon, <4>1, <6>2, <6>3, <6>4
        <5>2. CASE OtaWriteFails(t, data)
          BY <4>1, <5>2 DEF OtaWriteFails
        <5> QED
          BY <3>12, <5>1, <5>2
      <4> QED
        BY <3>3, <3>12, <4>2 DEF ReplyOf
    <3>13. CASE HeaderEnds(t)
      <4>1. /\ OtaWrite(t, AfterHeaders(t)) \/ OtaWriteFails(t, AfterHeaders(t))
            /\ BlankLines(buff_len[t]) # {} /\ FirstOf(BlankLines(buff_len[t])) < buff_len[t]
            /\ pc[t] = "got" /\ UNCHANGED socket
        BY Zenon, <3>13 DEF HeaderEnds
      <4>2. pc'[t] = "recv" /\ http_200_flag'[t] = TRUE
        BY <3>1, <3>13 DEF HeaderEnds
      <4>3. AfterHeaders(t) \in Seq(Unit)
        BY <4>1, AfterHeadersIs
      <4> QED
        BY <3>12, <4>1, <4>2, <4>3
    <3>14. CASE Body(t)
      <4>1. CASE pc'[t] = "recv"
        <5>1. /\ pc[t] = "got" /\ UNCHANGED <<socket, http_200_flag>> /\ resp_body_start[t]
              /\ OtaWrite(t, Bytes(1, buff_len[t])) \/ OtaWriteFails(t, Bytes(1, buff_len[t]))
          BY Zenon, <3>14 DEF Body
        <5>2. http_200_flag'[t] = TRUE
          BY <3>1, <3>2, <5>1
        <5> QED
          BY <3>12, <4>1, <5>1, <5>2, PacketIs
      <4>2. CASE pc'[t] # "recv"
        <5>1. pc'[t] = "fatal"
          BY <3>1, <3>14, <4>2 DEF Body
        <5> QED
          BY <5>1 DEF ReplyOf
      <4> QED
        BY <4>1, <4>2
    <3> QED
      BY <3>4, <3>5, <3>6, <3>7, <3>8, <3>9, <3>10, <3>11, <3>13, <3>14
  <2> QED
    BY <2>2, <2>3 DEF ReplyOK
<1>3. CASE overlapped'
  BY <1>3 DEF ReplyOK
<1> QED
  BY ONLY NextCases, Next, <1>1, <1>2, <1>3, Zenon

-----------------------------------------------------------------------------
(* The body *)

(* Where two sequences joined are two others joined and the second cut is  *)
(* behind the first, the part between the cuts fills the gap.              *)
Between(h, b, x, r, d) ==
  /\ h \in Seq(Unit) /\ b \in Seq(Unit) /\ x \in Seq(Unit) /\ r \in Seq(Unit) /\ d \in Seq(Unit)
  /\ h \o b = x \o r /\ Len(h) <= Len(x)
  /\ Len(d) = Len(x) - Len(h) /\ \A i \in 1 .. Len(d) : d[i] = x[Len(h) + i]

LEMMA CutBehind == \A h, b, x, r, d : Between(h, b, x, r, d) => b = d \o r
<1> SUFFICES ASSUME NEW h, NEW b, NEW x, NEW r, NEW d, Between(h, b, x, r, d) PROVE b = d \o r
  OBVIOUS
<1> USE DEF Between
<1>1. Len(h) \in Nat /\ Len(b) \in Nat /\ Len(x) \in Nat /\ Len(r) \in Nat /\ Len(d) \in Nat
  BY LenProperties
<1>2. /\ Len(h \o b) = Len(h) + Len(b) /\ Len(x \o r) = Len(x) + Len(r)
      /\ d \o r \in Seq(Unit) /\ Len(d \o r) = Len(d) + Len(r)
  BY ConcatProperties
<1>3. Len(b) = Len(d) + Len(r)
  BY SMT, <1>1, <1>2
<1>4. ASSUME NEW i \in 1 .. Len(b) PROVE b[i] = (d \o r)[i]
  <2> DEFINE k == Len(h) + i
  <2>1. /\ k \in 1 .. Len(h) + Len(b) /\ k \in 1 .. Len(x) + Len(r) /\ i \in 1 .. Len(d) + Len(r)
        /\ ~(k <= Len(h)) /\ k - Len(h) = i
        /\ (k <= Len(x) <=> i <= Len(d)) /\ k - Len(x) = i - Len(d)
        /\ (i <= Len(d) => i \in 1 .. Len(d))
    BY SMT, <1>1, <1>3
  <2> HIDE DEF k
  <2>2. (h \o b)[k] = b[i]
    BY <2>1, ConcatProperties
  <2>3. (x \o r)[k] = IF k <= Len(x) THEN x[k] ELSE r[k - Len(x)]
    BY <2>1, ConcatProperties
  <2>4. (d \o r)[i] = IF i <= Len(d) THEN d[i] ELSE r[i - Len(d)]
    BY <2>1, ConcatProperties
  <2>5. i <= Len(d) => d[i] = x[k]
    BY <2>1 DEF k
  <2> QED
    BY <2>1, <2>2, <2>3, <2>4, <2>5
<1> QED
  BY <1>2, <1>3, <1>4, SeqEqual

(* A first packet with all headers: the blank line is where it is, and     *)
(* what follows it is the body.                                            *)
LEMMA FirstPacket ==
  ASSUME TypeOK, NEW t \in Tasks, Len(text) = buff_len[t], buff_len[t] >= 5,
         NEW s \in Status, NEW b \in Seq(Unit), NEW r \in Seq(Unit), Headers(s) \o b = text \o r
  PROVE  b = AfterHeaders(t) \o r
<1> DEFINE n == buff_len[t]
           S == BlankLines(n)
<1>1. n \in Nat /\ n >= 5 /\ text \in Seq(Unit) /\ DOMAIN text = 1 .. n /\ Len(text) = n
  BY LocalOtaAssumption, LenProperties DEF LocalOtaAssumption, TypeOK, TaskTypes, NetTypes
<1>2. Headers(s) \in Seq(Unit) /\ Len(Headers(s)) = 5
  BY HeadersAre
<1>3. \A i \in 1 .. 5 : text[i] = Headers(s)[i]
  <2> TAKE i \in 1 .. 5
  <2>1. Len(b) \in Nat /\ Len(r) \in Nat
    BY LenProperties
  <2>2. /\ i \in 1 .. Len(Headers(s)) + Len(b) /\ i <= Len(Headers(s))
        /\ i \in 1 .. Len(text) + Len(r) /\ i <= Len(text)
    BY SMT, <1>1, <1>2, <2>1
  <2>3. (Headers(s) \o b)[i] = Headers(s)[i] /\ (text \o r)[i] = text[i]
    BY <1>1, <1>2, <2>2, ConcatProperties
  <2> QED
    BY <2>3
<1>4. Char(1) = s /\ Char(2) = "cr" /\ Char(3) = "lf" /\ Char(4) = "cr" /\ Char(5) = "lf"
  <2>1. 1 \in DOMAIN text /\ 2 \in DOMAIN text /\ 3 \in DOMAIN text /\ 4 \in DOMAIN text /\ 5 \in DOMAIN text
    BY SMT, <1>1
  <2>2. text[1] = s /\ text[2] = "cr" /\ text[3] = "lf" /\ text[4] = "cr" /\ text[5] = "lf"
    BY <1>3 DEF Headers
  <2> QED
    BY <2>1, <2>2 DEF Char
<1>5. s # "lf" /\ s # Zero
  BY DEF Status, Zero
<1>6. 4 \in S
  <2>1. 4 \in 1 .. n /\ 4 - 1 = 3 /\ 4 + 1 = 5
    BY SMT, <1>1
  <2>2. 4 \in LineStarts(n)
    BY <1>4, <2>1 DEF LineStarts
  <2>3. \A j \in LineStarts(4) : Char(j) # Zero
    <3>1. \A j \in LineStarts(4) : j = 1 \/ j = 2 \/ j = 3 \/ j = 4
      BY SMT DEF LineStarts
    <3> QED
      BY <1>4, <1>5, <3>1 DEF Zero
  <2> QED
    BY <1>4, <2>1, <2>2, <2>3 DEF BlankLines
<1>7. \A i \in S : i \in Nat /\ i >= 4
  <2> SUFFICES ASSUME NEW i \in S PROVE i \in Nat /\ i >= 4
    OBVIOUS
  <2>1. i \in 1 .. n /\ (i = 1 \/ Char(i - 1) = "lf") /\ Char(i + 1) = "lf"
    <3>1. n # 1
      BY SMT, <1>1
    <3> QED
      BY Zenon, <3>1 DEF BlankLines, LineStarts
  <2>2. i # 1 /\ i # 2 /\ i # 3
    <3>1. i = 1 => Char(i + 1) = "cr"
      BY SMT, <1>4
    <3>2. i = 2 => Char(i - 1) = s
      BY SMT, <1>4
    <3>3. i = 3 => Char(i - 1) = "cr"
      BY SMT, <1>4
    <3> QED
      BY SMT, <1>5, <2>1, <3>1, <3>2, <3>3
  <2> QED
    BY SMT, <1>1, <2>1, <2>2
<1>8. FirstOf(S) = 4
  <2>1. S \subseteq Nat /\ S # {}
    BY <1>6, <1>7
  <2>2. FirstOf(S) \in S /\ \A j \in S : FirstOf(S) <= j
    BY <2>1, Least
  <2> HIDE DEF S
  <2> QED
    BY SMT, <1>6, <1>7, <2>2
<1>9. AfterHeaders(t) = Bytes(6, n)
  <2>1. FirstOf(S) + 2 = 6
    BY SMT, <1>8
  <2> QED
    BY <2>1 DEF AfterHeaders
<1> DEFINE d == Bytes(6, n)
<1>10. 6 \in Nat /\ n + 1 >= 6
  BY SMT, <1>1
<1>11. /\ d \in Seq(Unit) /\ Len(d) = n + 1 - 6
       /\ \A i \in 1 .. n + 1 - 6 : d[i] = Char(6 + i - 1)
  BY <1>1, <1>10, BytesAre
<1> HIDE DEF d
<1>12. Len(d) = Len(text) - Len(Headers(s)) /\ Len(Headers(s)) <= Len(text)
  BY SMT, <1>1, <1>2, <1>11
<1>13. \A i \in 1 .. Len(d) : d[i] = text[Len(Headers(s)) + i]
  <2> TAKE i \in 1 .. Len(d)
  <2>1. i \in 1 .. n + 1 - 6 /\ 6 + i - 1 = Len(Headers(s)) + i /\ Len(Headers(s)) + i \in 1 .. n
    BY SMT, <1>1, <1>2, <1>11
  <2>2. d[i] = Char(6 + i - 1)
    BY <1>11, <2>1
  <2> QED
    BY <1>1, <2>1, <2>2 DEF Char
<1> DEFINE h == Headers(s)
<1>14. Between(h, b, text, r, d)
  BY Zenon, <1>1, <1>2, <1>11, <1>12, <1>13 DEF Between
<1> HIDE DEF h
<1>15. b = d \o r
  BY ONLY <1>14, CutBehind
<1> QED
  BY <1>9, <1>15 DEF d

(* What is written so far, and how a write adds to it.                     *)
LEMMA WrittenIs ==
  ASSUME TypeOK, NEW t \in Tasks, handle[t] # NoHandle
  PROVE  /\ Written(handle[t]) \in Seq(Unit \cup {Erased}) /\ Len(Written(handle[t])) = handle[t].pos
         /\ handle[t].pos \in Nat /\ handle[t].pos <= SlotSize
<1> DEFINE h == handle[t]
<1>1. h \in [slot : Slot, pos : 0 .. SlotSize] /\ SlotSize \in Nat
  BY LocalOtaAssumption DEF LocalOtaAssumption, TypeOK, TaskTypes
<1>2. h.slot \in Slot /\ h.pos \in Nat /\ h.pos <= SlotSize
  BY SMT, <1>1
<1>3. \A i \in 1 .. h.pos : i \in 1 .. SlotSize
  BY SMT, <1>1, <1>2
<1>4. \A i \in 1 .. h.pos : flash[h.slot][i] \in Unit \cup {Erased}
  BY <1>2, <1>3 DEF TypeOK, SlotTypes
<1>5. Written(h) \in [1 .. h.pos -> Unit \cup {Erased}]
  BY <1>4 DEF Written
<1>6. Written(h) \in Seq(Unit \cup {Erased})
  BY <1>2, <1>5, SeqDef
<1>7. DOMAIN Written(h) = 1 .. Len(Written(h)) /\ Len(Written(h)) \in Nat
  BY <1>6, LenProperties
<1>8. Len(Written(h)) = h.pos
  BY SMT, <1>2, <1>5, <1>7
<1> QED
  BY <1>2, <1>6, <1>8

LEMMA WrittenGrows ==
  ASSUME TypeOK, TypeOK', NEW t \in Tasks, handle[t] # NoHandle, handle'[t] # NoHandle,
         NEW data \in Seq(Unit), OtaWrite(t, data),
         \A i \in 1 .. SlotSize : i > handle[t].pos => flash[handle[t].slot][i] = Erased
  PROVE  Written(handle[t])' = Written(handle[t]) \o data
<1> DEFINE h == handle[t]
           V == Unit \cup {Erased}
           W == Written(h)
<1>1. /\ h.slot \in Slot /\ h.pos \in Nat /\ Len(data) \in Nat
      /\ h' = [slot |-> h.slot, pos |-> h.pos + Len(data)]
      /\ h.pos + Len(data) <= SlotSize
      /\ \A i \in 1 .. SlotSize :
           i <= h.pos \/ i > h.pos + Len(data) => flash'[h.slot][i] = flash[h.slot][i]
      /\ \A i \in 1 .. SlotSize :
           i > h.pos /\ i <= h.pos + Len(data) /\ flash[h.slot][i] = Erased =>
             flash'[h.slot][i] = data[i - h.pos]
  BY Writing
<1>2. W \in Seq(V) /\ Len(W) = h.pos
  BY WrittenIs
<1>3. data \in Seq(V)
  BY SeqMonotonic
<1>4. /\ W \o data \in Seq(V) /\ Len(W \o data) = Len(W) + Len(data)
      /\ \A i \in 1 .. Len(W) + Len(data) : (W \o data)[i] = IF i <= Len(W) THEN W[i] ELSE data[i - Len(W)]
  BY <1>2, <1>3, ConcatProperties
<1>5. W' = [i \in 1 .. h.pos + Len(data) |-> flash'[h.slot][i]]
  BY <1>1 DEF Written
<1>6. SlotSize \in Nat /\ \A i \in 1 .. h.pos + Len(data) : i \in 1 .. SlotSize
  BY SMT, <1>1, LocalOtaAssumption DEF LocalOtaAssumption
<1>7. W' \in [1 .. h.pos + Len(data) -> V]
  <2>1. \A i \in 1 .. h.pos + Len(data) : flash'[h.slot][i] \in V
    BY <1>1, <1>6 DEF TypeOK, SlotTypes
  <2> QED
    BY <1>5, <2>1
<1>8. W' \in Seq(V) /\ Len(W') = h.pos + Len(data)
  <2>1. h.pos + Len(data) \in Nat
    BY SMT, <1>1
  <2>2. W' \in Seq(V)
    BY <1>7, <2>1, SeqDef
  <2>3. DOMAIN W' = 1 .. Len(W') /\ Len(W') \in Nat
    BY <2>2, LenProperties
  <2>4. Len(W') = h.pos + Len(data)
    BY SMT, <1>7, <2>1, <2>3
  <2> QED
    BY <2>2, <2>4
<1>9. ASSUME NEW i \in 1 .. h.pos + Len(data) PROVE W'[i] = (W \o data)[i]
  <2>1. W'[i] = flash'[h.slot][i] /\ i \in 1 .. SlotSize
    BY <1>5, <1>6
  <2>2. (W \o data)[i] = IF i <= h.pos THEN W[i] ELSE data[i - h.pos]
    BY <1>2, <1>4
  <2>3. CASE i <= h.pos
    <3>1. flash'[h.slot][i] = flash[h.slot][i]
      BY <1>1, <2>1, <2>3
    <3>2. W[i] = flash[h.slot][i]
      <4>1. i \in 1 .. h.pos
        BY SMT, <1>1, <2>3
      <4> QED
        BY <4>1 DEF Written
    <3> QED
      BY <2>1, <2>2, <2>3, <3>1, <3>2
  <2>4. CASE ~(i <= h.pos)
    <3>1. i > h.pos /\ i <= h.pos + Len(data)
      BY SMT, <1>1, <2>4
    <3>2. flash'[h.slot][i] = data[i - h.pos]
      BY <1>1, <2>1, <3>1
    <3> QED
      BY <2>1, <2>2, <2>4, <3>2
  <2> QED
    BY <2>3, <2>4
<1>10. Len(W') = Len(W \o data) /\ \A i \in 1 .. Len(W') : W'[i] = (W \o data)[i]
  BY <1>2, <1>4, <1>8, <1>9
<1> QED
  BY <1>4, <1>8, <1>10, SeqEqual

(* Written, received and still to come.                                    *)
LEMMA BodyStep ==
  ASSUME TypeOK, TypeOK', TasksOK, TasksOK', SocketOK, ReplyOK, BodyWritten, Next
  PROVE  BodyWritten'
<1> USE DEF At, Goto, localVars, netVars, slotVars, history
<1>1. CASE Reboot
  <2>1. \A u \in Tasks : whole'[u] = FALSE
    BY <1>1 DEF Reboot, RamAtReset
  <2> QED
    BY <2>1 DEF BodyWritten, BodyOf
<1>2. ASSUME NEW t \in Tasks, Move(t), ~overlapped' PROVE BodyWritten'
  <2>1. \A u \in Tasks : ReplyOf(u) /\ BodyOf(u)
    BY <1>2, MoveKeeps DEF ReplyOK, BodyWritten
  <2>2. ASSUME NEW u \in Tasks, u # t PROVE BodyOf(u)'
    <3>1. pc'[u] = pc[u]
      BY <1>2, <2>2, OthersKeep
    <3>2. CASE pc[u] \in Busy
      <4>1. UNCHANGED <<handle, localVars, text, netVars, slotVars, history>>
        BY Zenon, <1>2, <2>2, <3>2, OthersNet
      <4>2. BodyOf(u)
        BY <2>1
      <4> QED
        BY <3>1, <4>1, <4>2 DEF BodyOf, Received, ToCome, Written
    <3>3. CASE pc[u] \notin Busy
      BY <3>1, <3>3 DEF BodyOf, Busy
    <3> QED
      BY <3>2, <3>3
  <2>3. BodyOf(t)'
    <3> DEFINE V == Unit \cup {Erased}
               W == Written(handle[t])
               d == socket[t].rest
    <3>1. /\ pc \in [Tasks -> Busy \cup {"absent", "waiting", "gone"}]
          /\ socket \in [Socket -> [state : State, rest : Rest]]
          /\ whole \in [Tasks -> BOOLEAN] /\ text \in Seq(Unit)
          /\ http_200_flag \in [Tasks -> BOOLEAN] /\ buff_len \in [Tasks -> 0 .. BufferSize]
      BY DEF TypeOK, TaskTypes, NetTypes, State, Rest
    <3>2. /\ pc[t] \in Busy \ {"fatal"} => socket_id = t
          /\ pc[t] \in InUpdate => handle[t] # NoHandle
          /\ pc[t] \notin InUpdate \cup {"fatal"} => ~http_200_flag[t]
          /\ whole[t] => resp_body_start[t]
          /\ resp_body_start[t] => http_200_flag[t]
      BY <1>2, Alone DEF TasksOK
    <3>3. ReplyOf(t) /\ BodyOf(t) /\ (pc'[t] \in InUpdate => handle'[t] # NoHandle)
      BY <2>1 DEF TasksOK
    <3>4. pc'[t] \in {"recv", "got", "end"} =>
            \/ Begin(t) \/ Recv(t) \/ RecvEnd(t) \/ HeaderGoesOn(t) \/ HeaderEnds(t) \/ Body(t)
      <4>1. CASE \/ NotConnected(t) \/ SendFails(t) \/ BeginFails(t) \/ RecvFails(t) \/ OpenSocket(t)
                 \/ Connected(t) \/ Send(t) \/ HeaderRefused(t) \/ End(t) \/ Activate(t) \/ Fatal(t)
                 \/ ForceOta(t) \/ SocketFails(t)
        <5>1. \E e \in {"fatal", "activate", "delay", "gone", "waiting", "connecting", "send", "begin"} :
                pc' = [pc EXCEPT ![t] = e]
          BY SMT, <4>1 DEF NotConnected, SendFails, BeginFails, RecvFails, OpenSocket, SocketFails,
             Connected, Send,
             HeaderRefused, End, Activate, Fatal, Delete, ForceOta
        <5> QED
          BY SMT, <3>1, <5>1
      <4> QED
        BY Zenon, <1>2, <4>1 DEF Move
    <3>5. CASE pc'[t] \notin {"recv", "got", "end"}
      BY <3>5 DEF BodyOf
    <3>6. CASE Begin(t)
      <4>1. pc[t] = "begin" /\ whole'[t] = whole[t]
        BY <3>6 DEF Begin
      <4>2. ~whole'[t]
        BY SMT, <3>1, <3>2, <4>1 DEF InUpdate
      <4> QED
        BY <4>2 DEF BodyOf
    <3>7. CASE HeaderGoesOn(t)
      <4>1. ~resp_body_start[t] /\ whole'[t] = whole[t]
        BY <3>7 DEF HeaderGoesOn
      <4>2. ~whole'[t]
        BY <3>2, <4>1
      <4> QED
        BY <4>2 DEF BodyOf
    <3>8. ASSUME pc[t] \in {"recv", "got"}
          PROVE  /\ W \in Seq(V) /\ d \in Seq(Unit) /\ d \in Seq(V) /\ Received(t) \in Seq(V)
                 /\ <<>> \in Seq(V)
      <4>1. d \in Seq(Unit) /\ handle[t] # NoHandle
        BY <3>2, <3>3, <3>8 DEF ReplyOf, InUpdate
      <4>2. Received(t) \in Seq(Unit)
        BY <3>1, EmptySeq DEF Received
      <4>3. W \in Seq(V)
        BY <4>1, WrittenIs
      <4> QED
        BY <4>1, <4>2, <4>3, SeqMonotonic, EmptySeq
    <3>9. CASE Recv(t)
      <4>1. /\ pc[t] = "recv" /\ pc'[t] = "got" /\ socket_id = t
            /\ UNCHANGED <<body, whole, handle, flash>>
        BY <3>1, <3>2, <3>9 DEF Recv, Busy
      <4>2. PICK n \in 1 .. BufferSize :
              /\ n <= Len(d) /\ text' = SubSeq(d, 1, n)
              /\ socket' = [socket EXCEPT ![t].rest = SubSeq(d, n + 1, Len(d))]
        BY Zenon, <3>9, <4>1 DEF Recv, PacketSizes
      <4> DEFINE e == SubSeq(d, n + 1, Len(d))
      <4>3. text' \in Seq(Unit) /\ e \in Seq(Unit) /\ text' \o e = d
        BY <3>8, <4>1, <4>2, Packets
      <4>4. socket' = [socket EXCEPT ![t].rest = e] /\ e \in Rest
        BY <4>2, <4>3 DEF Rest
      <4> HIDE DEF e
      <4>5. socket'[t].rest = e
        <5>1. socket'[t] = [state |-> socket[t].state, rest |-> e]
          BY Zenon, <4>4, FieldSet, OwnSocket
        <5> QED
          BY <5>1
      <4>6. W \in Seq(V) /\ text' \in Seq(V) /\ e \in Seq(V)
        BY <3>8, <4>1, <4>3, SeqMonotonic
      <4> HIDE DEF d, V
      <4>7. (W \o <<>>) \o d = (W \o text') \o e
        <5>1. W \o <<>> = W
          BY <4>6, ConcatEmptySeq
        <5>2. (W \o text') \o e = W \o (text' \o e)
          BY <4>6, ConcatAssociative
        <5> QED
          BY ONLY <4>3, <5>1, <5>2, Zenon
      <4>8. Received(t) = <<>> /\ ToCome(t) = d /\ Received(t)' = text' /\ ToCome(t)' = e
        BY <4>1, <4>5 DEF Received, ToCome, d
      <4>9. W' = W
        BY <4>1 DEF Written
      <4>10. whole'[t] = whole[t] /\ body'[t] = body[t]
        BY <4>1
      <4>11. whole[t] => body[t] = W \o Received(t) \o ToCome(t)
        BY <3>3, <4>1 DEF BodyOf
      <4>12. whole'[t] => body'[t] = W' \o Received(t)' \o ToCome(t)'
        BY ONLY <4>7, <4>8, <4>9, <4>10, <4>11, Zenon
      <4> QED
        BY <4>12 DEF BodyOf
    <3>10. CASE RecvEnd(t)
      <4>1. /\ pc[t] = "recv" /\ pc'[t] = "end" /\ socket_id = t /\ d = <<>>
            /\ UNCHANGED <<body, whole, handle, flash>>
        BY <3>1, <3>2, <3>10 DEF RecvEnd, Busy
      <4>2. Received(t) = <<>> /\ ToCome(t) = <<>> /\ Received(t)' = <<>> /\ ToCome(t)' = <<>>
        BY <4>1 DEF Received, ToCome
      <4>3. W' = W
        BY <4>1 DEF Written
      <4>4. whole'[t] = whole[t] /\ body'[t] = body[t]
        BY <4>1
      <4>5. whole[t] => body[t] = W \o Received(t) \o ToCome(t)
        BY <3>3, <4>1 DEF BodyOf
      <4>6. whole'[t] => body'[t] = W' \o Received(t)' \o ToCome(t)'
        BY ONLY <4>2, <4>3, <4>4, <4>5, Zenon
      <4> QED
        BY <4>6 DEF BodyOf
    <3>11. ASSUME NEW data \in Seq(Unit), OtaWrite(t, data), pc[t] = "got", pc'[t] = "recv",
                  UNCHANGED <<socket, body>>
           PROVE  /\ W' = W \o data /\ Received(t)' = <<>> /\ ToCome(t)' = d /\ body'[t] = body[t]
                  /\ W' \o Received(t)' \o ToCome(t)' = (W \o data) \o d
      <4>1. /\ handle[t] # NoHandle /\ handle'[t] # NoHandle
            /\ \A i \in 1 .. SlotSize : i > handle[t].pos => flash[handle[t].slot][i] = Erased
        BY <3>2, <3>3, <3>11 DEF InUpdate, ReplyOf
      <4>2. W' = W \o data
        BY <3>11, <4>1, WrittenGrows
      <4>3. Received(t)' = <<>> /\ ToCome(t)' = d /\ body'[t] = body[t]
        BY <3>11 DEF Received, ToCome
      <4>4. W \o data \in Seq(V)
        BY <3>8, <3>11, SeqMonotonic, ConcatProperties
      <4>5. (W \o data) \o <<>> = W \o data
        BY <4>4, ConcatEmptySeq
      <4> QED
        BY ONLY <4>2, <4>3, <4>5, Zenon
    <3>12. CASE HeaderEnds(t)
      <4>1. CASE OtaWrite(t, AfterHeaders(t)) /\ whole'[t]
        <5>1. /\ BlankLines(buff_len[t]) # {} /\ FirstOf(BlankLines(buff_len[t])) < buff_len[t]
              /\ pc[t] = "got" /\ UNCHANGED <<socket, body>>
          BY Zenon, <3>12 DEF HeaderEnds
        <5>2. pc'[t] = "recv"
          BY <3>1, <3>12 DEF HeaderEnds
        <5>3. ~resp_body_start[t]
          BY Zenon, <3>12 DEF HeaderEnds
        <5>4. ~http_200_flag[t] /\ buff_len[t] >= 5
          <6>1. ~whole[t]
            BY <3>2, <5>3
          <6>2. whole' = [whole EXCEPT ![t] = ~http_200_flag[t] /\ buff_len[t] >= 5] \/ whole' = whole
            BY Zenon, <3>12 DEF HeaderEnds
          <6> QED
            BY Zenon, <3>1, <4>1, <6>1, <6>2
        <5>5. AfterHeaders(t) \in Seq(Unit)
          BY <5>1, AfterHeadersIs
        <5>6. /\ W' = W \o AfterHeaders(t) /\ body'[t] = body[t]
              /\ W' \o Received(t)' \o ToCome(t)' = (W \o AfterHeaders(t)) \o d
          BY <3>11, <4>1, <5>1, <5>2, <5>5
        <5>7. W = <<>>
          <6>1. handle[t].pos = 0 /\ handle[t] # NoHandle
            BY <3>2, <3>3, <5>1, <5>4 DEF ReplyOf, InUpdate
          <6>2. W \in Seq(V) /\ Len(W) = 0
            BY <6>1, WrittenIs
          <6> QED
            BY <6>2, EmptySeq
        <5>8. body[t] = AfterHeaders(t) \o d
          <6>1. /\ Len(text) = buff_len[t] /\ d \in Seq(Unit)
                /\ \E s \in Status : Headers(s) \o body[t] = Received(t) \o d
            BY <3>3, <5>1, <5>4 DEF ReplyOf
          <6>2. Received(t) = text
            BY <5>1 DEF Received
          <6>3. PICK s \in Status : Headers(s) \o body[t] = text \o d
            BY <6>1, <6>2
          <6>4. body[t] \in Seq(Unit)
            BY OwnSocket DEF TypeOK, NetTypes
          <6> QED
            BY <5>4, <6>1, <6>3, <6>4, FirstPacket
        <5>9. W \o AfterHeaders(t) = AfterHeaders(t)
          BY <5>5, <5>7, ConcatEmptySeq
        <5>10. body'[t] = W' \o Received(t)' \o ToCome(t)'
          BY ONLY <5>6, <5>8, <5>9, Zenon
        <5> QED
          BY <5>10 DEF BodyOf
      <4>2. CASE ~OtaWrite(t, AfterHeaders(t))
        <5>1. whole' = whole /\ ~resp_body_start[t]
          BY Zenon, <3>12, <4>2 DEF HeaderEnds
        <5>2. ~whole'[t]
          BY <3>2, <5>1
        <5> QED
          BY <5>2 DEF BodyOf
      <4>3. CASE ~whole'[t]
        BY <4>3 DEF BodyOf
      <4> QED
        BY <4>1, <4>2, <4>3
    <3>13. CASE Body(t)
      <4>1. CASE pc'[t] = "recv" /\ OtaWrite(t, Bytes(1, buff_len[t]))
        <5>1. pc[t] = "got" /\ UNCHANGED <<socket, body>> /\ whole' = whole
          BY Zenon, <3>13 DEF Body
        <5>2. Bytes(1, buff_len[t]) \in Seq(Unit) /\ Bytes(1, buff_len[t]) = text
          <6>1. Len(text) = buff_len[t]
            BY <3>3, <5>1 DEF ReplyOf
          <6>2. buff_len[t] \in Nat /\ 1 \in Nat /\ buff_len[t] + 1 >= 1 /\ buff_len[t] + 1 - 1 = buff_len[t]
            BY SMT, <3>1, LocalOtaAssumption DEF LocalOtaAssumption
          <6>3. /\ Bytes(1, buff_len[t]) \in Seq(Unit)
                /\ Len(Bytes(1, buff_len[t])) = buff_len[t] + 1 - 1
                /\ \A i \in 1 .. buff_len[t] + 1 - 1 : Bytes(1, buff_len[t])[i] = Char(1 + i - 1)
            BY <6>2, BytesAre
          <6>4. DOMAIN text = 1 .. buff_len[t]
            BY <3>1, <6>1, LenProperties
          <6>5. \A i \in 1 .. buff_len[t] : Bytes(1, buff_len[t])[i] = text[i]
            <7> TAKE i \in 1 .. buff_len[t]
            <7>1. 1 + i - 1 = i
              BY SMT
            <7> QED
              BY <6>2, <6>3, <6>4, <7>1 DEF Char
          <6> QED
            BY <3>1, <6>1, <6>2, <6>3, <6>5, SeqEqual
        <5>3. /\ body'[t] = body[t]
              /\ W' \o Received(t)' \o ToCome(t)' = (W \o text) \o d
          BY <3>11, <4>1, <5>1, <5>2
        <5>4. Received(t) = text /\ ToCome(t) = d /\ whole'[t] = whole[t]
          BY <5>1 DEF Received, ToCome
        <5>5. whole[t] => body[t] = W \o Received(t) \o ToCome(t)
          BY <3>3, <5>1 DEF BodyOf
        <5>6. whole'[t] => body'[t] = W' \o Received(t)' \o ToCome(t)'
          BY ONLY <5>3, <5>4, <5>5, Zenon
        <5> QED
          BY <5>6 DEF BodyOf
      <4>2. CASE ~(pc'[t] = "recv" /\ OtaWrite(t, Bytes(1, buff_len[t])))
        <5>1. pc' = [pc EXCEPT ![t] = "fatal"]
          BY <3>1, <3>13, <4>2 DEF Body
        <5>2. pc'[t] = "fatal"
          BY <3>1, <5>1
        <5> QED
          BY <5>2 DEF BodyOf
      <4> QED
        BY <4>1, <4>2
    <3> QED
      BY <3>4, <3>5, <3>6, <3>7, <3>9, <3>10, <3>12, <3>13
  <2> QED
    BY <2>2, <2>3 DEF BodyWritten
<1>3. CASE overlapped'
  BY <1>3 DEF BodyWritten
<1> QED
  BY ONLY NextCases, Next, <1>1, <1>2, <1>3, Zenon

-----------------------------------------------------------------------------
(* The whole invariant *)

LEMMA InitHolds == Init => IInv
<1> SUFFICES ASSUME Init PROVE IInv
  OBVIOUS
<1> USE DEF Init, RamAtReset
<1>1. /\ Image \in Seq(Unit) /\ Len(Image) \in Nat /\ Len(Image) <= SlotSize /\ SlotSize \in Nat
      /\ DOMAIN Image = 1 .. Len(Image)
  BY LocalOtaAssumption, LenProperties DEF LocalOtaAssumption
<1>2. <<>> \in Seq(Unit) /\ Len(<<>>) = 0
  BY EmptySeq
<1>3. flash["factory"] = Holds(Image) /\ boot = "factory" /\ running = "factory" /\ "factory" \in Slot
  BY SlotsAndUnits
<1>4. SlotTypes
  <2>1. Blank \in [1 .. SlotSize -> Unit \cup {Erased}]
    BY DEF Blank
  <2>2. Holds(Image) \in [1 .. SlotSize -> Unit \cup {Erased}]
    <3>1. \A i \in DOMAIN Image : Image[i] \in Unit
      BY <1>1, ElementOfSeq
    <3> QED
      BY <3>1 DEF Holds
  <2> QED
    BY <1>3, <2>1, <2>2 DEF SlotTypes
<1>5. TaskTypes
  <2>1. 0 \in 0 .. BufferSize
    BY SMT, LocalOtaAssumption DEF LocalOtaAssumption
  <2> QED
    BY Zenon, <2>1 DEF TaskTypes
<1>6. NetTypes
  <2>1. Len(<<>>) <= BufferSize
    BY SMT, <1>2, LocalOtaAssumption DEF LocalOtaAssumption
  <2>2. socket \in [Socket -> [state : {"closed", "connecting", "open"}, rest : {NoReply} \cup Seq(Unit)]]
    <3>1. socket = [d \in Socket |-> [state |-> "closed", rest |-> NoReply]]
      BY DEF Closed
    <3> QED
      BY SMT, <3>1
  <2>3. text = <<>> /\ socket_id = NoSocket /\ body = [d \in Socket |-> <<>>]
    OBVIOUS
  <2> QED
    BY <1>2, <2>1, <2>2, <2>3, Sockets DEF NetTypes
<1>7. \A t \in Tasks : /\ pc[t] = "absent" /\ http_200_flag[t] = FALSE /\ resp_body_start[t] = FALSE
                       /\ whole[t] = FALSE /\ socket[t].state = "closed"
  BY OwnSocket DEF Closed
<1>8. TasksOK /\ SocketOK
  BY <1>7 DEF TasksOK, SocketOK, Busy, InUpdate
<1>9. BootOK
  <2>1. \A i \in DOMAIN Image : Holds(Image)[i] = Image[i]
    <3>1. \A i \in DOMAIN Image : i \in 1 .. SlotSize
      BY SMT, <1>1
    <3> QED
      BY <3>1 DEF Holds
  <2>2. Valid(boot)
    BY <1>3, <2>1 DEF Valid
  <2> QED
    BY <1>3, <2>2 DEF BootOK
<1>10. ReplyOK /\ BodyWritten
  BY <1>7 DEF ReplyOK, ReplyOf, BodyWritten, BodyOf
<1> QED
  BY <1>4, <1>5, <1>6, <1>8, <1>9, <1>10 DEF IInv, TypeOK

LEMMA StepHolds == IInv /\ [Next]_vars => IInv'
<1> SUFFICES ASSUME IInv, [Next]_vars PROVE IInv'
  OBVIOUS
<1>1. TypeOK /\ TasksOK /\ SocketOK /\ BootOK /\ ReplyOK /\ BodyWritten
  BY DEF IInv
<1>2. CASE Next
  <2>1. TypeOK' /\ TasksOK'
    BY <1>1, <1>2, TypeStep, TasksStep
  <2>2. SocketOK' /\ BootOK'
    BY <1>1, <1>2, SocketStep, BootStep
  <2>3. ReplyOK' /\ BodyWritten'
    BY <1>1, <1>2, <2>1, ReplyStep, BodyStep
  <2> QED
    BY <2>1, <2>2, <2>3 DEF IInv
<1>3. CASE UNCHANGED vars
  <2>1. /\ UNCHANGED <<pc, handle, resp_body_start, http_200_flag, buff_len, text, socket_id, socket>>
        /\ UNCHANGED <<flash, boot, running, body, whole, overlapped>>
    BY <1>3 DEF vars, localVars, netVars, slotVars, history
  <2>2. TypeOK'
    BY <1>1, <2>1 DEF TypeOK, TaskTypes, NetTypes, SlotTypes
  <2>3. TasksOK' /\ SocketOK' /\ BootOK'
    BY <1>1, <2>1 DEF TasksOK, SocketOK, BootOK, Valid
  <2>4. \A t \in Tasks : (ReplyOf(t) => ReplyOf(t)') /\ (BodyOf(t) => BodyOf(t)')
    BY <2>1 DEF ReplyOf, BodyOf, Received, ToCome, Written, At
  <2>5. ReplyOK' /\ BodyWritten'
    BY <1>1, <2>1, <2>4 DEF ReplyOK, BodyWritten
  <2> QED
    BY <2>2, <2>3, <2>5 DEF IInv
<1> QED
  BY <1>2, <1>3

(* However many tasks FORCE_OTA has started, whatever the server sends,    *)
(* however it is cut into packets and whatever fails, the invariant holds. *)
THEOREM LocalOtaInductive == Safe => []IInv
<1> QED
  BY InitHolds, StepHolds, PTL DEF Safe

(* No packet is longer than the buffer, and no task writes past its slot.  *)
THEOREM LocalOtaTypes == Safe => []TypeOK
<1>1. IInv => TypeOK
  BY DEF IInv
<1> QED
  BY <1>1, LocalOtaInductive, PTL

(* The power may fail at any instant of an update that no other overlaps:  *)
(* the next start finds a whole image in the slot it boots.                *)
THEOREM BootableAtAnyTime == Safe => []BootSlotWhole
<1>1. IInv => BootSlotWhole
  BY DEF IInv, BootOK, BootSlotWhole
<1> QED
  BY <1>1, LocalOtaInductive, PTL

(* Without an overlap every open socket belongs to a task at its update.   *)
THEOREM NoSocketLeft == Safe => []SocketsClosed
<1>1. IInv => SocketsClosed
  BY DEF IInv, SocketOK, SocketsClosed
<1> QED
  BY <1>1, LocalOtaInductive, PTL

(* A body whose headers came in one packet is written as it was sent, for  *)
(* every body, buffer and way to cut the reply.                            *)
THEOREM BodyArrives == Safe => []BodyWritten
<1>1. IInv => BodyWritten
  BY DEF IInv
<1> QED
  BY <1>1, LocalOtaInductive, PTL

(* A step is one of FirmwareSlots.                                         *)
LEMMA SlotStep == IInv /\ [Next]_vars => [overlapped' \/ FS!Next]_<<boot, running, flash>>
<1> DEFINE complete == {s \in Slot : Valid(s)}
<1> SUFFICES ASSUME IInv, [Next]_vars, ~overlapped'
             PROVE  FS!Next \/ UNCHANGED <<boot, running, flash>>
  BY Zenon
<1>1. TypeOK /\ TasksOK /\ SocketOK /\ BootOK
  BY DEF IInv
<1>2. boot \in Slot /\ running \in Slot /\ flash \in [Slot -> [1 .. SlotSize -> Unit \cup {Erased}]]
  BY <1>1 DEF TypeOK, SlotTypes
<1>3. CASE Reboot
  <2>1. /\ running' = boot /\ boot' = boot
        /\ \A s \in Slot : Valid(s) => flash'[s] = flash[s]
        /\ \A s \in Slot : ~Valid(s) => flash'[s] = Blank
    BY <1>1, <1>3, ResetSlots
  <2>2. \A s \in Slot : Valid(s)' <=> Valid(s)
    <3> TAKE s \in Slot
    <3>1. CASE Valid(s)
      BY <2>1, <3>1 DEF Valid
    <3>2. CASE ~Valid(s)
      BY <2>1, <3>2, BlankIsNotValid
    <3> QED
      BY <3>1, <3>2
  <2>3. complete' = complete
    BY <2>2
  <2> QED
    BY <2>1, <2>3 DEF FS!Next, FS!Restart
<1>4. ASSUME NEW t \in Tasks, Move(t)
      PROVE  FS!Next \/ UNCHANGED <<boot, running, flash>>
  <2>1. running' = running
    BY <1>4, MoveKeeps
  <2>2. CASE Activate(t)
    <3>1. flash' = flash
      BY <2>2 DEF Activate
    <3>2. complete' = complete
      BY <3>1 DEF Valid
    <3>3. CASE boot' = boot
      BY <2>1, <3>1, <3>3
    <3>4. CASE boot' = handle[t].slot /\ Valid(handle[t].slot)
      <4>1. handle[t].slot \in Slot
        BY <1>1, <1>2, <2>2, SlotsAndUnits DEF Activate, At, TasksOK, InUpdate
      <4> QED
        BY <2>1, <3>2, <3>4, <4>1 DEF FS!Next, FS!Activate
    <3> QED
      BY Zenon, <2>2, <3>3, <3>4 DEF Activate
  <2>3. CASE ~Activate(t)
    <3>1. boot' = boot
      BY Zenon, <1>4, <2>3 DEF Move, ForceOta, OpenSocket, SocketFails, Connected, NotConnected, Send,
         SendFails, Begin, BeginFails,
       Recv, RecvEnd, RecvFails, HeaderRefused, HeaderGoesOn, HeaderEnds, Body, End, Activate,
       Fatal, Delete, localVars, netVars, slotVars, history
    <3>2. CASE flash' = flash
      BY <2>1, <3>1, <3>2
    <3>3. CASE boot = running /\ \A s \in Slot : s # NextUpdateSlot(running) => flash'[s] = flash[s]
      <4> DEFINE n == NextUpdateSlot(running)
      <4>1. n \in Slot \ {boot, running}
        BY <1>2, <3>3, SlotsAndUnits
      <4>2. \A s \in Slot : s # n => (Valid(s)' <=> Valid(s))
        BY <3>3 DEF Valid
      <4> HIDE DEF n
      <4>3. complete' \in {complete \cup {n}, complete \ {n}}
        <5>1. CASE Valid(n)'
          BY <4>1, <4>2, <5>1
        <5>2. CASE ~Valid(n)'
          BY <4>1, <4>2, <5>2
        <5> QED
          BY <5>1, <5>2
      <4> QED
        BY <2>1, <3>1, <4>1, <4>3 DEF FS!Next, FS!Program
    <3> QED
      BY <1>1, <1>4, <3>2, <3>3, FlashStep
  <2> QED
    BY <2>2, <2>3
<1>5. CASE UNCHANGED vars
  BY <1>5 DEF vars, slotVars
<1> QED
  BY ONLY NextCases, [Next]_vars, <1>3, <1>4, <1>5, Zenon

(* One update at a time keeps to what FirmwareSlots promises, step by step.*)
THEOREM SlotStepsHold == Safe => SlotStepsKept
<1> QED
  BY SlotStep, LocalOtaInductive, PTL DEF Safe, SlotStepsKept

=============================================================================
