------------------------------ MODULE LocalOta ------------------------------
(***************************************************************************)
(* local_ota.c: each Force OTA write starts one more local_ota_task, which *)
(* fetches an image over plain HTTP, writes it to the slot after the       *)
(* running one as it comes and restarts into it.  All of them share the    *)
(* receive buffer and the socket number, which are static.                 *)
(* (ota_write_data is filled from text and written in one go, so it needs  *)
(* no variable.)                                                           *)
(***************************************************************************)
EXTENDS Naturals, Sequences

CONSTANTS
  MaxTasks,     (* FORCE_OTA writes between two starts                     *)
  Image,        (* an image of this device                                 *)
  Bodies,       (* what the server may send after the headers              *)
  BufferSize,   (* TEXT_BUFFSIZE                                           *)
  Cuts,         (* positions in a reply at which a packet may end          *)
  SlotSize,     (* the room in a slot                                      *)
  NoReply,      (* a socket on which no request was sent                   *)
  NoSocket,     (* socket_id is -1                                         *)
  NoHandle,     (* update_handle is 0                                      *)
  NetMayFail,   (* a connection may fail or break at any time              *)
  FlashMayFail, (* the flash, the heap or the OTA data may refuse          *)
  PowerLoss     (* the supply may be switched off and on at any time       *)

(* The tasks, in the order of their creation, and the sockets: each task's,*)
(* and -1, which is never open.                                            *)
Tasks  == 1 .. MaxTasks
Socket == Tasks \cup {NoSocket}

(* Received in units: a status line without its end, single bytes, and the *)
(* zero that memset leaves.                                                *)
Status == {"200", "404"}
Zero   == "zero"
Erased == "erased"
Unit   == Status \cup {"cr", "lf", Zero} \cup UNION {{b[i] : i \in DOMAIN b} : b \in Bodies \cup {Image}}

Slot == {"factory", "ota_0", "ota_1"}

ASSUME LocalOtaAssumption ==
  /\ MaxTasks \in Nat
  /\ BufferSize \in Nat \ {0} /\ Cuts \subseteq Nat
  /\ SlotSize \in Nat
  /\ Image # <<>> /\ \A b \in Bodies \cup {Image} : b \in Seq(Unit) /\ Erased \notin {b[i] : i \in DOMAIN b}
  /\ Len(Image) <= SlotSize
  /\ NoSocket \notin Nat
  /\ NoHandle \notin [slot : Slot, pos : Nat]
  /\ \A s \in Status : NoReply # s
  /\ {NetMayFail, FlashMayFail, PowerLoss} \subseteq BOOLEAN

VARIABLES
  pc,           (* where each task is                                      *)
  handle,       (* its update_handle: the slot and how far it is written   *)
  resp_body_start,
  http_200_flag,
  buff_len,
  text,         (* the receive buffer, up to the zeros that fill it        *)
  socket_id,    (* the task that opened the socket of this number          *)
  socket,       (* each socket: its state, what is to come                 *)
  flash,        (* what each slot holds                                    *)
  boot,         (* esp_ota_get_boot_partition                              *)
  running,      (* esp_ota_get_running_partition                           *)
  body,         (* history: the body of the reply on each socket           *)
  whole,        (* history: the first packet held all headers, its rest is written *)
  overlapped    (* history: two tasks were at their updates at once, and   *)
                (* no whole slot has booted since                          *)

localVars == <<resp_body_start, http_200_flag, buff_len>>
netVars   == <<socket_id, socket>>
slotVars  == <<flash, boot, running>>
history   == <<body, whole, overlapped>>
vars == <<pc, handle, localVars, text, netVars, slotVars, history>>

At(t, label) == pc[t] = label
Goto(t, label) == pc' = [pc EXCEPT ![t] = label]

Closed == [state |-> "closed", rest |-> NoReply]

(* RAM after a reset; the tasks are not there yet. *)
RamAtReset ==
  [pc |-> [t \in Tasks |-> "absent"], handle |-> [t \in Tasks |-> NoHandle],
   no |-> [t \in Tasks |-> FALSE], len |-> [t \in Tasks |-> 0],
   socket |-> [d \in Socket |-> Closed], body |-> [d \in Socket |-> <<>>]]

Blank == [i \in 1 .. SlotSize |-> Erased]
Holds(contents) == [i \in 1 .. SlotSize |-> IF i \in DOMAIN contents THEN contents[i] ELSE Erased]

Init ==
  /\ pc = RamAtReset.pc /\ handle = RamAtReset.handle
  /\ resp_body_start = RamAtReset.no /\ http_200_flag = RamAtReset.no
  /\ buff_len = RamAtReset.len
  /\ text = <<>> /\ socket_id = NoSocket /\ socket = RamAtReset.socket
  /\ boot = "factory" /\ running = boot
  /\ flash = [s \in Slot |-> IF s = boot THEN Holds(Image) ELSE Blank]
  /\ body = RamAtReset.body /\ whole = RamAtReset.no /\ overlapped = FALSE

-----------------------------------------------------------------------------
(* The flash, as esp_ota_ops uses it *)

Valid(s) == \A i \in DOMAIN Image : flash[s][i] = Image[i]

(* Flash bits only go from 1 to 0: bytes written over others mix. *)
Programmed(old, new) ==
  CASE old = Erased -> new
    [] old = new    -> new
    [] OTHER        -> Zero

Fits(h, data) == h.pos + Len(data) <= SlotSize
FirstByteIsMagic(h, data) == h.pos = 0 /\ data # <<>> => data[1] = Image[1]

(* esp_ota_write by task t *)
OtaWrite(t, data) ==
  LET h == handle[t]
  IN  /\ Fits(h, data) /\ FirstByteIsMagic(h, data)
      /\ flash' = [flash EXCEPT ![h.slot] =
                     [i \in 1 .. SlotSize |->
                        IF i - h.pos \in DOMAIN data THEN Programmed(@[i], data[i - h.pos]) ELSE @[i]]]
      /\ handle' = [handle EXCEPT ![t].pos = @ + Len(data)]

OtaWriteFails(t, data) ==
  /\ FlashMayFail \/ ~Fits(handle[t], data) \/ ~FirstByteIsMagic(handle[t], data)
  /\ UNCHANGED <<flash, handle>>

(* esp_ota_get_next_update_partition(NULL): after the slot that runs *)
NextUpdateSlot(s) ==
  CASE s = "factory" -> "ota_0"
    [] s = "ota_0"   -> "ota_1"
    [] s = "ota_1"   -> "ota_0"

(* A reset; the bootloader takes a slot that is whole if the boot slot is  *)
(* not, and the chip stays down if there is none.  (A slot that is not     *)
(* whole is erased before anything else is done with it: it counts as      *)
(* blank.)                                                                 *)
Reboot ==
  /\ running' \in IF Valid(boot) THEN {boot} ELSE {s \in Slot : Valid(s)}
  /\ pc' = RamAtReset.pc /\ handle' = RamAtReset.handle
  /\ resp_body_start' = RamAtReset.no /\ http_200_flag' = RamAtReset.no
  /\ buff_len' = RamAtReset.len
  /\ text' = <<>> /\ socket_id' = NoSocket /\ socket' = RamAtReset.socket
  /\ body' = RamAtReset.body /\ whole' = RamAtReset.no
  /\ flash' = [s \in Slot |-> IF Valid(s) THEN flash[s] ELSE Blank]
  /\ overlapped' = (overlapped /\ ~Valid(boot))
  /\ UNCHANGED boot

-----------------------------------------------------------------------------
(* The task *)

(* The tasks that are at their updates. *)
Busy == {"connecting", "send", "begin", "recv", "got", "end", "activate", "delay", "fatal"}

(* FORCE_OTA is written: xTaskCreate. *)
ForceOta(t) ==
  /\ At(t, "absent") /\ \A u \in Tasks : u < t => ~At(u, "absent")
  /\ Goto(t, "waiting")
  /\ UNCHANGED <<handle, localVars, text, netVars, slotVars, history>>

(* The connected flag is set; connect_to_http_server opens a socket. *)
OpenSocket(t) ==
  /\ At(t, "waiting")
  /\ socket_id' = t
  /\ socket' = [socket EXCEPT ![t] = [state |-> "connecting", rest |-> NoReply]]
  /\ overlapped' = (overlapped \/ \E u \in Tasks : pc[u] \in Busy)
  /\ Goto(t, "connecting")
  /\ UNCHANGED <<handle, localVars, text, slotVars, body, whole>>

(* There is no memory for a socket, or no number. *)
SocketFails(t) ==
  /\ At(t, "waiting") /\ NetMayFail
  /\ socket_id' = NoSocket
  /\ overlapped' = (overlapped \/ \E u \in Tasks : pc[u] \in Busy)
  /\ Goto(t, "fatal")
  /\ UNCHANGED <<handle, localVars, text, socket, slotVars, body, whole>>

Connected(t) ==
  /\ At(t, "connecting")
  /\ socket[t].state = "connecting"
  /\ socket' = [socket EXCEPT ![t].state = "open"]
  /\ Goto(t, "send")
  /\ UNCHANGED <<handle, localVars, text, socket_id, slotVars, history>>

(* close(socket_id), whoever opened it *)
CloseSocket == socket' = [socket EXCEPT ![socket_id] = Closed]

NotConnected(t) ==
  /\ At(t, "connecting")
  /\ NetMayFail \/ socket[t].state = "closed"
  /\ CloseSocket
  /\ Goto(t, "fatal")
  /\ UNCHANGED <<handle, localVars, text, socket_id, slotVars, history>>

(* The request, and the reply the server starts to send. *)
Send(t) ==
  /\ At(t, "send")
  /\ socket[socket_id].state = "open"
  /\ IF socket[socket_id].rest = NoReply
       THEN \E s \in Status, b \in Bodies :
              /\ socket' = [socket EXCEPT ![socket_id].rest = <<s, "cr", "lf", "cr", "lf">> \o b]
              /\ body' = [body EXCEPT ![socket_id] = b]
       ELSE UNCHANGED <<socket, body>>
  /\ Goto(t, "begin")
  /\ UNCHANGED <<handle, localVars, text, socket_id, slotVars, whole, overlapped>>

NetBroken == NetMayFail \/ socket[socket_id].state # "open"

SendFails(t) ==
  /\ At(t, "send") /\ NetBroken
  /\ Goto(t, "fatal")
  /\ UNCHANGED <<handle, localVars, text, netVars, slotVars, history>>

(* esp_ota_begin erases the slot and allocates the handle; it refuses the  *)
(* slot that runs.                                                         *)
Begin(t) ==
  /\ At(t, "begin")
  /\ NextUpdateSlot(running) # running
  /\ flash' = [flash EXCEPT ![NextUpdateSlot(running)] = Blank]
  /\ handle' = [handle EXCEPT ![t] = [slot |-> NextUpdateSlot(running), pos |-> 0]]
  /\ text' = <<>>
  /\ Goto(t, "recv")
  /\ UNCHANGED <<localVars, netVars, boot, running, history>>

BeginFails(t) ==
  /\ At(t, "begin") /\ (FlashMayFail \/ NextUpdateSlot(running) = running)
  /\ flash' \in {flash, [flash EXCEPT ![NextUpdateSlot(running)] = Blank]}
  /\ Goto(t, "fatal")
  /\ UNCHANGED <<handle, localVars, text, netVars, boot, running, history>>

(* Fault: room for one byte more. *)
PacketSizesAndOne(s) ==
  LET rest == Len(socket[s].rest) IN {n \in 1 .. BufferSize + 1 : n <= rest}

(* A packet ends at a cut, at the end of the reply or with a full buffer. *)
PacketSizes(s) ==
  LET all == Len(body[s]) + 5  rest == Len(socket[s].rest)
  IN  {n \in 1 .. BufferSize : n <= rest /\ (n \in {rest, BufferSize} \/ all - rest + n \in Cuts)}

(* recv gives a packet, (of the socket that has the number now: in an      *)
(* overlap a recv that waits would keep to the one it was called with,)    *)
Recv(t) ==
  /\ At(t, "recv")
  /\ socket[socket_id].state = "open" /\ socket[socket_id].rest # NoReply
  /\ \E n \in PacketSizes(socket_id) :
       /\ text' = SubSeq(socket[socket_id].rest, 1, n)
       /\ socket' = [socket EXCEPT ![socket_id].rest = SubSeq(@, n + 1, Len(@))]
       /\ buff_len' = [buff_len EXCEPT ![t] = n]
  /\ Goto(t, "got")
  /\ UNCHANGED <<handle, resp_body_start, http_200_flag, socket_id, slotVars, history>>

(* Fault: the end of the reply is not the end of the loop. *)
RecvEndIgnored(t) ==
  /\ At(t, "recv")
  /\ socket[socket_id].state = "open" /\ socket[socket_id].rest = <<>>
  /\ UNCHANGED vars

(* the end of the reply, *)
RecvEnd(t) ==
  /\ At(t, "recv")
  /\ socket[socket_id].state = "open" /\ socket[socket_id].rest = <<>>
  /\ CloseSocket
  /\ Goto(t, "end")
  /\ UNCHANGED <<handle, localVars, text, socket_id, slotVars, history>>

(* or an error. *)
RecvFails(t) ==
  /\ At(t, "recv") /\ NetBroken
  /\ Goto(t, "fatal")
  /\ UNCHANGED <<handle, localVars, text, netVars, slotVars, history>>

(* Byte i of the buffer, which is filled up with zeros. *)
Char(i) == IF i \in DOMAIN text THEN text[i] ELSE Zero
Bytes(first, last) == [i \in 1 .. (last + 1 - first) |-> Char(first + i - 1)]

(* read_past_http_header walks from line to line, as long as none starts   *)
(* with a zero, to a line of two bytes.  A packet of one byte that is not a*)
(* line feed counts as one: read_until has met no end, and adds one.       *)
LineStarts(len) == {i \in 1 .. len : i = 1 \/ Char(i - 1) = "lf"}
BlankLines(len) ==
  {i \in LineStarts(len) :
     /\ Char(i) # "lf"
     /\ Char(i + 1) = "lf" \/ (len = 1 /\ Char(i) \notin Status)
     /\ \A j \in LineStarts(i) : Char(j) # Zero}
FirstOf(S) == CHOOSE i \in S : \A j \in S : i <= j

(* Fault: i_write_len counts the rest one byte short. *)
AfterHeadersCut(t) == Bytes(FirstOf(BlankLines(buff_len[t])) + 2, buff_len[t] - 1)

AfterHeaders(t) == Bytes(FirstOf(BlankLines(buff_len[t])) + 2, buff_len[t])

Is200(t) == http_200_flag[t] \/ \E i \in DOMAIN text : text[i] = "200"

HeaderRefused(t) ==
  /\ At(t, "got") /\ ~resp_body_start[t]
  /\ ~Is200(t)
  /\ Goto(t, "fatal")
  /\ UNCHANGED <<handle, localVars, text, netVars, slotVars, history>>

(* No blank line yet, and the next round of the loop clears the buffer. *)
HeaderGoesOn(t) ==
  /\ At(t, "got") /\ ~resp_body_start[t]
  /\ Is200(t)
  /\ BlankLines(buff_len[t]) = {}
  /\ http_200_flag' = [http_200_flag EXCEPT ![t] = TRUE]
  /\ text' = <<>>
  /\ Goto(t, "recv")
  /\ UNCHANGED <<handle, resp_body_start, buff_len, netVars, slotVars, history>>

(* What follows the blank line is written; if that fails, its bytes are    *)
(* lost and the search for a blank line goes on in the next packet.        *)
HeaderEnds(t) ==
  /\ At(t, "got") /\ ~resp_body_start[t]
  /\ Is200(t)
  /\ BlankLines(buff_len[t]) # {}
  /\ FirstOf(BlankLines(buff_len[t])) < buff_len[t]
  /\ \/ /\ OtaWrite(t, AfterHeaders(t))
        /\ resp_body_start' = [resp_body_start EXCEPT ![t] = TRUE]
        /\ whole' = [whole EXCEPT ![t] = ~http_200_flag[t] /\ buff_len[t] >= 5]
     \/ /\ OtaWriteFails(t, AfterHeaders(t))
        /\ UNCHANGED <<resp_body_start, whole>>
  /\ http_200_flag' = [http_200_flag EXCEPT ![t] = TRUE]
  /\ text' = <<>>
  /\ Goto(t, "recv")
  /\ UNCHANGED <<buff_len, netVars, boot, running, body, overlapped>>

(* The second byte of the line lies behind the packet, which was of one    *)
(* byte (or another task's was longer): the length passed to memcpy is -1, *)
(* and the chip panics.                                                    *)
HeaderOverrun(t) ==
  /\ At(t, "got") /\ ~resp_body_start[t]
  /\ Is200(t)
  /\ BlankLines(buff_len[t]) # {} /\ FirstOf(BlankLines(buff_len[t])) = buff_len[t]
  /\ Reboot

Body(t) ==
  /\ At(t, "got") /\ resp_body_start[t]
  /\ \/ /\ OtaWrite(t, Bytes(1, buff_len[t]))
        /\ text' = <<>>
        /\ Goto(t, "recv")
     \/ /\ OtaWriteFails(t, Bytes(1, buff_len[t]))
        /\ UNCHANGED text
        /\ Goto(t, "fatal")
  /\ UNCHANGED <<localVars, netVars, boot, running, history>>

(* esp_ota_end frees the handle and verifies the image. *)
End(t) ==
  /\ At(t, "end")
  /\ \/ Valid(handle[t].slot) /\ Goto(t, "activate")
     \/ (~Valid(handle[t].slot) \/ FlashMayFail) /\ Goto(t, "fatal")
  /\ UNCHANGED <<handle, localVars, text, netVars, slotVars, history>>

(* esp_ota_set_boot_partition verifies it once more. *)
Activate(t) ==
  /\ At(t, "activate")
  /\ \/ Valid(handle[t].slot) /\ boot' = handle[t].slot /\ Goto(t, "delay")
     \/ (~Valid(handle[t].slot) \/ FlashMayFail) /\ UNCHANGED boot /\ Goto(t, "fatal")
  /\ UNCHANGED <<handle, localVars, text, netVars, flash, running, history>>

(* vTaskDelete: its local variables are gone with it. *)
Delete(t) ==
  /\ Goto(t, "gone")
  /\ handle' = [handle EXCEPT ![t] = NoHandle]
  /\ resp_body_start' = [resp_body_start EXCEPT ![t] = FALSE]
  /\ http_200_flag' = [http_200_flag EXCEPT ![t] = FALSE]
  /\ buff_len' = [buff_len EXCEPT ![t] = 0]
  /\ whole' = [whole EXCEPT ![t] = FALSE]
  /\ UNCHANGED <<text, slotVars, overlapped>>

(* Fault: the socket is left open. *)
FatalLeavingSocket(t) ==
  /\ At(t, "fatal")
  /\ Delete(t)
  /\ UNCHANGED <<netVars, body>>

(* task_fatal_error closes the socket, once more after a failed connect,   *)
(* and deletes the task; its OTA handle is never freed.                    *)
Fatal(t) ==
  /\ At(t, "fatal")
  /\ CloseSocket
  /\ body' = [body EXCEPT ![socket_id] = <<>>]
  /\ Delete(t)
  /\ UNCHANGED socket_id

(* Fault: the task ends without a restart. *)
NoRestart(t) == At(t, "delay") /\ Delete(t) /\ UNCHANGED <<netVars, body>>

(* Ten seconds later. *)
Restart(t) == At(t, "delay") /\ Reboot

PowerCycle == PowerLoss /\ Reboot

TaskStep(t) ==
  \/ OpenSocket(t) \/ SocketFails(t) \/ Connected(t) \/ NotConnected(t) \/ Send(t) \/ SendFails(t)
  \/ Begin(t) \/ BeginFails(t) \/ Recv(t) \/ RecvEnd(t) \/ RecvFails(t)
  \/ HeaderRefused(t) \/ HeaderGoesOn(t) \/ HeaderEnds(t) \/ HeaderOverrun(t) \/ Body(t)
  \/ End(t) \/ Activate(t) \/ Restart(t) \/ Fatal(t)

Next == PowerCycle \/ \E t \in Tasks : ForceOta(t) \/ TaskStep(t)

(* A task goes on some time: the server sends its reply to the end, so no  *)
(* wait has to be broken off by an error.  Nobody has to bring Wi-Fi up.   *)
Proceed(t) ==
  /\ TaskStep(t)
  /\ ~At(t, "waiting")
  /\ At(t, "recv") /\ socket[socket_id].state = "open" => pc'[t] # "fatal"

Fairness == \A t \in Tasks : WF_vars(Proceed(t))

Safe == Init /\ [][Next]_vars
Spec == Safe /\ Fairness

-----------------------------------------------------------------------------
(* Safety *)

(* Type correctness; in particular no packet is longer than the buffer and *)
(* no task writes past its slot.                                           *)
TaskTypes ==
  /\ pc \in [Tasks -> Busy \cup {"absent", "waiting", "gone"}]
  /\ handle \in [Tasks -> {NoHandle} \cup [slot : Slot, pos : 0 .. SlotSize]]
  /\ resp_body_start \in [Tasks -> BOOLEAN] /\ http_200_flag \in [Tasks -> BOOLEAN]
  /\ buff_len \in [Tasks -> 0 .. BufferSize]
  /\ whole \in [Tasks -> BOOLEAN] /\ overlapped \in BOOLEAN

NetTypes ==
  /\ text \in Seq(Unit) /\ Len(text) <= BufferSize
  /\ socket_id \in Socket
  /\ socket \in [Socket -> [state : {"closed", "connecting", "open"}, rest : {NoReply} \cup Seq(Unit)]]
  /\ body \in [Socket -> Seq(Unit)]

SlotTypes ==
  /\ flash \in [Slot -> [1 .. SlotSize -> Unit \cup {Erased}]]
  /\ boot \in Slot /\ running \in Slot

TypeOK == TaskTypes /\ NetTypes /\ SlotTypes

(* Whenever the power fails, the slot the next start boots holds a whole   *)
(* image, however the reply was cut into packets and whatever failed,      *)
(* unless two tasks were at their updates at once: the second erases the   *)
(* slot the first has activated, or both write to it.                      *)
BootSlotWhole == ~overlapped => Valid(boot)

(* One update at a time takes the steps of FirmwareSlots and no other: it  *)
(* erases and writes neither the slot that runs nor the one that boots,    *)
(* and activates only a whole image.                                       *)
FS == INSTANCE FirmwareSlots WITH complete <- {s \in Slot : Valid(s)}

SlotStepsKept == [][overlapped' \/ FS!Next]_<<boot, running, flash>>

(* A task that is alone and whose headers came in one packet has brought   *)
(* every byte of the body it received, and nothing else, to the flash in   *)
(* order: what is written, received and still to come is the body.         *)
Written(h) == [i \in 1 .. h.pos |-> flash[h.slot][i]]
Received(t) == IF At(t, "got") THEN text ELSE <<>>
ToCome(t) == IF At(t, "end") THEN <<>> ELSE socket[t].rest

BodyOf(t) ==
  whole[t] /\ pc[t] \in {"recv", "got", "end"} =>
    body[t] = Written(handle[t]) \o Received(t) \o ToCome(t)

BodyWritten == ~overlapped => \A t \in Tasks : BodyOf(t)

(* A task that ends leaves no socket behind, if none overlapped it: Force  *)
(* OTA can be tried again and again.                                       *)
SocketsClosed ==
  ~overlapped => \A t \in Tasks : socket[t].state # "closed" => pc[t] \in Busy

-----------------------------------------------------------------------------
(* What the safety properties rest on *)

(* A task that has begun its update writes to the slot after the running   *)
(* one, and it keeps nothing from before its first packet, nor from before *)
(* its first block.                                                        *)
InUpdate == {"recv", "got", "end", "activate", "delay"}

TasksOK ==
  \A t \in Tasks :
    /\ pc[t] \in InUpdate => handle[t] # NoHandle /\ handle[t].slot = NextUpdateSlot(running)
    /\ pc[t] \notin InUpdate \cup {"fatal"} => ~http_200_flag[t]
    /\ whole[t] => resp_body_start[t]
    /\ resp_body_start[t] => http_200_flag[t]

(* As long as no two tasks overlap, one at most is busy and owns the socket,*)
(* unless it got none, and no other is open, *)
SocketOK ==
  ~overlapped => \A t \in Tasks :
    /\ pc[t] \in Busy => \A u \in Tasks : pc[u] \in Busy => u = t
    /\ pc[t] \in Busy =>
         socket_id = t \/ (socket_id = NoSocket /\ pc[t] = "fatal" /\ socket[t].state = "closed")
    /\ socket[t].state # "closed" => pc[t] \in Busy

(* the boot slot is whole, and it is the one that runs until the task has  *)
(* activated its own, *)
BootOK ==
  ~overlapped =>
    /\ Valid(boot)
    /\ boot = running \/ \E t \in Tasks : pc[t] = "delay"

(* what has come and what is to come of the first packet is the reply, the *)
(* slot is erased behind what is written, and then the body is as it is to *)
(* be.                                                                     *)
Headers(s) == <<s, "cr", "lf", "cr", "lf">>

ReplyOf(t) ==
  /\ pc[t] \in {"connecting", "send"} => socket[t].rest = NoReply
  /\ pc[t] \in {"begin", "recv", "got"} => socket[t].rest \in Seq(Unit)
  /\ pc[t] \in {"begin", "recv", "got"} /\ ~http_200_flag[t] =>
       \E s \in Status : Headers(s) \o body[t] = Received(t) \o socket[t].rest
  /\ pc[t] \in {"recv", "got"} /\ ~http_200_flag[t] => handle[t].pos = 0
  /\ pc[t] \in {"recv", "got"} =>
       \A i \in 1 .. SlotSize : i > handle[t].pos => flash[handle[t].slot][i] = Erased
  /\ pc[t] = "got" => Len(text) = buff_len[t]

ReplyOK == ~overlapped => \A t \in Tasks : ReplyOf(t)

IInv == TypeOK /\ TasksOK /\ SocketOK /\ BootOK /\ ReplyOK /\ BodyWritten

-----------------------------------------------------------------------------
(* Liveness *)

(* A task that got as far as a socket ends by a restart or by its deletion,*)
(* even if another takes its socket away: the wait for a packet is not for *)
(* ever.                                                                   *)
OtaEnds == \A t \in Tasks : pc[t] \in Busy ~> pc[t] \in {"gone", "absent"}

=============================================================================
