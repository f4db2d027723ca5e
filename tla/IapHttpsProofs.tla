--------------------------- MODULE IapHttpsProofs ---------------------------
(***************************************************************************)
(* The safety of updates over the air, for all page sizes, buffers, images *)
(* and responses.  IInv is inductive: one lemma for each of its conjuncts  *)
(* follows every action of Next.  That the module implements FirmwareSlots *)
(* follows from it.                                                        *)
(***************************************************************************)
EXTENDS IapHttps, SequenceTheorems, TLAPS

(* A sequence split in two is made of sequences, and they make it up. *)
LEMMA Parts ==
  ASSUME NEW S, NEW d \in Seq(S), NEW k \in 0 .. Len(d)
  PROVE  /\ SubSeq(d, 1, k) \in Seq(S) /\ Len(SubSeq(d, 1, k)) = k
         /\ SubSeq(d, k + 1, Len(d)) \in Seq(S)
         /\ SubSeq(d, 1, k) \o SubSeq(d, k + 1, Len(d)) = d
<1>1. Len(d) \in Nat /\ \A i \in 1 .. Len(d) : d[i] \in S
  BY LenProperties, ElementOfSeq
<1>2. SubSeq(d, 1, k) \in Seq(S) /\ Len(SubSeq(d, 1, k)) = IF 1 <= k THEN k - 1 + 1 ELSE 0
  BY <1>1, SubSeqProperties
<1>3. SubSeq(d, k + 1, Len(d)) \in Seq(S)
  BY <1>1, SubSeqProperties
<1>4. SubSeq(d, 1, k) \o SubSeq(d, k + 1, Len(d)) = d
  <2>1. 1 \in 1 .. Len(d) + 1 /\ k \in 1 - 1 .. Len(d) /\ Len(d) \in k .. Len(d)
    BY <1>1
  <2>2. SubSeq(d, 1, k) \o SubSeq(d, k + 1, Len(d)) = SubSeq(d, 1, Len(d))
    BY <2>1, ConcatAdjacentSubSeq
  <2> QED  BY <2>2, SubSeqFull
<1>5. Len(SubSeq(d, 1, k)) = k
  BY <1>2
<1> QED  BY ONLY <1>2, <1>3, <1>4, <1>5, Zenon

(* The slot to program is another one than the boot slot. *)
LEMMA NextSlotOther == \A s \in Slot : NextSlot(s) \in Slot \ {s}
  BY DEF Slot, NextSlot

(* The copy of a round of iap_write fits both the data and the page. *)
LEMMA CopyFits ==
  ASSUME TypeOK
  PROVE  CopyLength(data) \in 0 .. Len(data) /\ Len(page) + CopyLength(data) <= PageSize
<1>1. Len(data) \in Nat /\ Len(page) \in Nat /\ Len(page) <= PageSize /\ PageSize \in Nat
  BY LenProperties, IapAssumption DEF TypeOK
<1> QED  BY <1>1 DEF CopyLength

(* Sequences of octets: the empty one, those of bytes, concatenations. *)
LEMMA Octets ==
  /\ <<>> \in Seq(Octet) /\ Len(<<>>) = 0
  /\ Seq(Byte) \subseteq Seq(Octet)
  /\ \A x \in Seq(Octet) : Len(x) \in Nat
  /\ \A x, y \in Seq(Octet) : x \o y \in Seq(Octet) /\ Len(x \o y) = Len(x) + Len(y)
  /\ \A x \in Seq(Octet) : x \o <<>> = x /\ <<>> \o x = x
<1>1. <<>> \in Seq(Octet) /\ Len(<<>>) = 0
  BY EmptySeq
<1>2. Seq(Byte) \subseteq Seq(Octet)
  <2>1. Byte \subseteq Octet
    BY DEF Octet
  <2> QED  BY <2>1, SeqMonotonic
<1>3. \A x \in Seq(Octet) : Len(x) \in Nat
  BY LenProperties
<1>4. \A x, y \in Seq(Octet) : x \o y \in Seq(Octet) /\ Len(x \o y) = Len(x) + Len(y)
  BY ConcatProperties
<1>5. \A x \in Seq(Octet) : x \o <<>> = x /\ <<>> \o x = x
  BY ConcatEmptySeq
<1> QED  BY <1>1, <1>2, <1>3, <1>4, <1>5

(* Concatenation of octets is associative. *)
LEMMA Associative == \A x, y, z \in Seq(Octet) : (x \o y) \o z = x \o (y \o z)
  BY ConcatAssociative

(* An empty page fits. *)
LEMMA EmptyPage == <<>> \in Seq(Octet) /\ Len(<<>>) <= PageSize
  BY Octets, IapAssumption

(* A block of n octets that are all Header. *)
LEMMA Headers ==
  \A n \in Nat : /\ [i \in 1 .. n |-> Header] \in [1 .. n -> Octet]
                 /\ [i \in 1 .. n |-> Header] \in Seq(Octet)
<1> TAKE n \in Nat
<1>1. [i \in 1 .. n |-> Header] \in [1 .. n -> Octet]
  BY DEF Octet
<1> QED  BY <1>1, SeqDef

(* A TLS read leaves the stream, the TLS buffer and what has been gathered *)
(* well typed.                                                             *)
LEMMA ReadType ==
  ASSUME TypeOK, NEW n \in 1 .. Len(stream), Read(n)
  PROVE  /\ n \in Nat /\ stream' \in Seq(Octet) /\ tls' \in [1 .. TlsSize -> Octet]
         /\ Gathered(n) \in Seq(Octet) /\ Len(Gathered(n)) \in Nat
<1>1. stream \in Seq(Octet) /\ buffer \in Seq(Octet) /\ tls \in [1 .. TlsSize -> Octet]
  BY DEF TypeOK
<1>2. Len(stream) \in Nat /\ n \in 0 .. Len(stream) /\ n <= TlsSize
  BY <1>1, Octets DEF Read, Readable
<1>3. SubSeq(stream, 1, n) \in Seq(Octet) /\ stream' \in Seq(Octet)
  BY <1>1, <1>2, Parts DEF Read
<1>4. \A i \in 1 .. n : stream[i] \in Octet
  BY <1>1, <1>2, ElementOfSeq
<1>5. tls' \in [1 .. TlsSize -> Octet]
  BY <1>1, <1>4 DEF Read
<1>6. Gathered(n) \in Seq(Octet) /\ Len(Gathered(n)) \in Nat
  BY <1>1, <1>3, Octets DEF Gathered
<1> QED  BY <1>2, <1>3, <1>5, <1>6

(* The body bytes after the headers lie within the TLS buffer. *)
LEMMA BodyType ==
  ASSUME TypeOK, NEW n \in 1 .. Len(stream), Read(n), ~Overflows(n, job),
         Len(Gathered(n)) >= HeaderLength
  PROVE  BodyAfterHeaders(n) \in Seq(Octet)
<1> DEFINE m == Len(Gathered(n)) - HeaderLength
<1>1. HeaderLength \in Nat \ {0} /\ TlsSize \in Nat /\ BufferSize[job] \in 1 .. TlsSize
  BY HttpsAssumption DEF TypeOK
<1>2. Len(Gathered(n)) \in Nat /\ tls' \in [1 .. TlsSize -> Octet]
  BY ReadType
<1>3. m \in Nat /\ \A i \in 1 .. m : HeaderLength + i \in 1 .. TlsSize
  BY <1>1, <1>2 DEF Overflows
<1>4. [i \in 1 .. m |-> tls'[HeaderLength + i]] \in [1 .. m -> Octet]
  BY <1>2, <1>3
<1> QED  BY <1>3, <1>4, SeqDef DEF BodyAfterHeaders

(* The initial states satisfy the invariant. *)
LEMMA InitHolds == Init => IInv
<1> SUFFICES ASSUME Init PROVE IInv
  OBVIOUS
<1>1. Stale \in [1 .. TlsSize -> Octet]
  BY Headers, HttpsAssumption DEF Stale
<1>2. flash \in [Slot -> Seq(Octet)]
  <2>1. PICK image \in Images : flash = [s \in Slot |-> IF s = boot THEN image ELSE <<>>]
    BY DEF Init
  <2>2. image \in Seq(Octet) /\ <<>> \in Seq(Octet)
    BY Octets, IapAssumption
  <2> QED  BY <2>1, <2>2
<1>3. TypeOK
  BY <1>1, <1>2, Octets, IapAssumption
     DEF Init, TypeOK, Labels, Slot, DefaultInterval
<1>4. SessionOK /\ HandleOK /\ DataOK /\ StreamKept
  BY DEF Init, SessionOK, HandleOK, DataOK, StreamKept
<1> QED  BY <1>3, <1>4 DEF IInv

(* A reset leads to states like the initial ones. *)
LEMMA RebootHolds == TypeOK /\ Reboot => IInv'
<1> SUFFICES ASSUME TypeOK, Reboot PROVE IInv'
  OBVIOUS
<1>1. Stale \in [1 .. TlsSize -> Octet]
  BY Headers, HttpsAssumption DEF Stale
<1>2. TypeOK'
  BY <1>1, Octets, IapAssumption
     DEF Reboot, IapReset, TypeOK, Labels, Slot, DefaultInterval
<1>3. SessionOK' /\ HandleOK' /\ DataOK' /\ StreamKept'
  BY DEF Reboot, IapReset, SessionOK, HandleOK, DataOK, StreamKept
<1> QED  BY <1>2, <1>3 DEF IInv

(* A request that is sent leaves the HTTP state well typed. *)
LEMMA RequestType ==
  ASSUME TypeOK, NEW body \in Seq(Byte), NEW announced \in {Len(body), NoLength},
         SendRequest(body, announced)
  PROVE  /\ stream' \in Seq(Octet) /\ content_length' \in Nat \cup {NoLength}
         /\ tls' \in [1 .. TlsSize -> Octet] /\ buffer' \in Seq(Octet) /\ total' \in Nat
<1>1. body \in Seq(Octet) /\ Len(body) \in Nat
  BY Octets
<1>2. Stale \in [1 .. TlsSize -> Octet] /\ [i \in 1 .. HeaderLength |-> Header] \in Seq(Octet)
  BY Headers, HttpsAssumption DEF Stale
<1> QED  BY <1>1, <1>2, Octets DEF SendRequest

(* So does a packet. *)
LEMMA PacketType ==
  ASSUME TypeOK, NEW n \in 1 .. Len(stream),
         Gathers(n, job) \/ Drops(n, job) \/ Delivers(n, job)
  PROVE  /\ stream' \in Seq(Octet) /\ content_length' \in Nat \cup {NoLength}
         /\ tls' \in [1 .. TlsSize -> Octet] /\ buffer' \in Seq(Octet) /\ total' \in Nat
<1>1. Read(n) /\ content_length' = content_length
  BY DEF Gathers, Drops, Delivers
<1>2. /\ n \in Nat /\ stream' \in Seq(Octet) /\ tls' \in [1 .. TlsSize -> Octet]
      /\ Gathered(n) \in Seq(Octet)
  BY <1>1, ReadType
<1>3. ~Overflows(n, job) /\ Len(Gathered(n)) >= HeaderLength => BodyAfterHeaders(n) \in Seq(Octet)
  BY <1>1, BodyType
<1>4. buffer' \in Seq(Octet) /\ total' \in Nat
  <2>1. buffer \in Seq(Octet) /\ total \in Nat
    BY DEF TypeOK
  <2>2. CASE Gathers(n, job)
    BY <1>2, <1>3, <2>1, <2>2, Octets DEF Gathers
  <2>3. CASE Drops(n, job)
    BY <2>1, <2>3 DEF Drops
  <2>4. CASE Delivers(n, job)
    BY <1>2, <1>3, <2>1, <2>4, Octets DEF Delivers
  <2> QED  BY <2>2, <2>3, <2>4
<1> QED  BY <1>1, <1>2, <1>4 DEF TypeOK

(* No step leaves the types. *)
LEMMA TypeStep == IInv /\ [Next]_vars => TypeOK'
<1> SUFFICES ASSUME IInv PROVE [Next]_vars => TypeOK'
  OBVIOUS
<1> USE DEF IInv, vars, iapVars, slotVars, httpVars, taskVars, flagVars, pollVars, envVars, At, Goto
<1>1. Start \/ Wake \/ Online \/ RequestFails \/ Disconnected \/ Committed => TypeOK'
  <2> USE DEF TypeOK, Labels
  <2>1. Start => TypeOK'  BY SMTT(30) DEF Start
  <2>2. Wake => TypeOK'  BY SMTT(30) DEF Wake
  <2>3. Online => TypeOK'  BY SMTT(30) DEF Online
  <2>4. RequestFails => TypeOK'  BY SMTT(30) DEF RequestFails
  <2>5. Disconnected => TypeOK'  BY SMTT(30) DEF Disconnected
  <2>6. Committed => TypeOK'  BY SMTT(30) DEF Committed
  <2> QED  BY ONLY <2>1, <2>2, <2>3, <2>4, <2>5, <2>6
<1>2. DownloadDone \/ CheckDone \/ CheckCleared \/ TimerElapses \/ CheckNow \/ WifiChanges => TypeOK'
  <2> USE DEF TypeOK, Labels
  <2>1. DownloadDone => TypeOK'  BY SMTT(30) DEF DownloadDone
  <2>2. CheckDone => TypeOK'  BY SMTT(30) DEF CheckDone
  <2>3. CheckCleared => TypeOK'  BY SMTT(30) DEF CheckCleared
  <2>4. TimerElapses => TypeOK'  BY SMTT(30) DEF TimerElapses
  <2>5. CheckNow => TypeOK'  BY SMTT(30) DEF CheckNow
  <2>6. WifiChanges => TypeOK'  BY SMTT(30) DEF WifiChanges
  <2> QED  BY ONLY <2>1, <2>2, <2>3, <2>4, <2>5, <2>6
<1>3. Request => TypeOK'
  <2> SUFFICES ASSUME Request PROVE TypeOK'
    OBVIOUS
  <2>1. PICK body \in Seq(Byte) :
          \E announced \in {Len(body), NoLength} : SendRequest(body, announced)
    BY IapHttpsAssumption DEF Request
  <2>2. PICK announced \in {Len(body), NoLength} : SendRequest(body, announced)
    BY <2>1
  <2>3. /\ stream' \in Seq(Octet) /\ content_length' \in Nat \cup {NoLength}
        /\ tls' \in [1 .. TlsSize -> Octet] /\ buffer' \in Seq(Octet) /\ total' \in Nat
    BY <2>2, RequestType
  <2> QED  BY <2>3, SMTT(30) DEF Request, TypeOK, Labels
<1>4. Receive => TypeOK'
  <2> SUFFICES ASSUME Receive PROVE TypeOK'
    OBVIOUS
  <2>1. PICK n \in 1 .. Len(stream) :
           \/ Gathers(n, job) /\ Goto("receiving")
           \/ Drops(n, job) /\ Goto("done")
           \/ Delivers(n, job) /\ Goto(IF job = "check" THEN "metadata" ELSE "body")
    BY DEF Receive
  <2>2. /\ stream' \in Seq(Octet) /\ content_length' \in Nat \cup {NoLength}
        /\ tls' \in [1 .. TlsSize -> Octet] /\ buffer' \in Seq(Octet) /\ total' \in Nat
    BY <2>1, PacketType
  <2>3. pc' \in Labels
    BY <2>1 DEF Labels
  <2> QED  BY <2>2, <2>3, SMTT(30) DEF Receive, TypeOK
<1>5. MetadataReceived => TypeOK'
  BY IapHttpsAssumption, SMTT(30) DEF TypeOK, Labels, MetadataReceived
<1>6. BodyInSession => TypeOK'
  BY Octets, SMTT(30) DEF TypeOK, Labels, BodyInSession
<1>7. BodyAbortsOldSession \/ Abort => TypeOK'
  <2>1. AbortSession => /\ session' \in {"open", "closed"} /\ partition' \in Slot \cup {NoSlot}
                        /\ pageBuffer' \in {"none", "held"} /\ handle' \in Slot \cup {NoSlot}
                        /\ page' \in Seq(Octet) /\ Len(page') <= PageSize
                        /\ UNCHANGED <<flash, boot, running>>
    <3>1. ReleaseSession /\ CloseSession =>
            /\ session' = "closed" /\ partition' = NoSlot /\ pageBuffer' = "none"
            /\ handle' = NoSlot /\ page' = <<>> /\ UNCHANGED <<flash, boot, running>>
      BY DEF ReleaseSession, CloseSession
    <3>2. AbortSession => (ReleaseSession /\ CloseSession) \/ UNCHANGED iapVars
      BY Zenon DEF AbortSession
    <3>3. CASE UNCHANGED iapVars
      BY <3>3, SMTT(30) DEF TypeOK
    <3>4. CASE ReleaseSession /\ CloseSession
      BY <3>1, <3>4, EmptyPage, IapAssumption, SMTT(30) DEF TypeOK
    <3> QED  BY ONLY <3>2, <3>3, <3>4
  <2>2. BodyAbortsOldSession => TypeOK'  BY <2>1, SMTT(30) DEF TypeOK, BodyAbortsOldSession
  <2>3. Abort => TypeOK'  BY <2>1, SMTT(30) DEF TypeOK, Labels, Abort
  <2> QED  BY ONLY <2>2, <2>3
<1>8. BodyBegins => TypeOK'
  BY Octets, NextSlotOther, IapAssumption, SMTT(30)
     DEF TypeOK, Labels, BodyBegins, BeginSession
<1>9. BodyCannotBegin => TypeOK'
  <2>1. NextSlot(boot) \in Slot
    BY NextSlotOther DEF TypeOK
  <2>2. BeginFails => flash' \in [Slot -> Seq(Octet)] /\ partition' \in Slot \cup {NoSlot}
    <3>1. [flash EXCEPT ![NextSlot(boot)] = <<>>] \in [Slot -> Seq(Octet)]
      BY <2>1, Octets DEF TypeOK
    <3> QED  BY <2>1, <3>1 DEF TypeOK, BeginFails
  <2> QED
    BY <2>2, Octets, IapAssumption, SMTT(30) DEF TypeOK, Labels, BodyCannotBegin, BeginFails
<1>10. WriteCopies => TypeOK'
  <2> SUFFICES ASSUME WriteCopies PROVE TypeOK'
    OBVIOUS
  <2> DEFINE k == CopyLength(data)
  <2>1. k \in 0 .. Len(data) /\ Len(page) + k <= PageSize
    BY CopyFits
  <2>2. /\ SubSeq(data, 1, k) \in Seq(Octet) /\ Len(SubSeq(data, 1, k)) = k
        /\ SubSeq(data, k + 1, Len(data)) \in Seq(Octet)
    BY <2>1, Parts DEF TypeOK
  <2>3. page' \in Seq(Octet) /\ Len(page') <= PageSize /\ data' \in Seq(Octet)
    BY <2>1, <2>2, Octets DEF TypeOK, WriteCopies, CopyToPage
  <2> HIDE DEF k
  <2> QED  BY <2>3, SMTT(30) DEF TypeOK, Labels, WriteCopies, CopyToPage
<1>11. PageWritten \/ CommitLastPage => TypeOK'
  <2>1. WritePage => /\ flash' \in [Slot -> Seq(Octet)]
                     /\ page' \in Seq(Octet) /\ Len(page') <= PageSize
    BY Octets, IapAssumption, SMTT(30) DEF TypeOK, WritePage
  <2>2. WritePageFails => UNCHANGED iapVars
    BY DEF WritePageFails
  <2>3. PageWritten => TypeOK'
    BY <2>1, SMTT(30) DEF TypeOK, Labels, PageWritten, WritePage
  <2>4. CommitLastPage => TypeOK'
    BY <2>1, <2>2, SMTT(30) DEF TypeOK, Labels, CommitLastPage, WritePage
  <2> QED  BY ONLY <2>3, <2>4
<1>12. WriteFails => TypeOK'
  BY SMTT(30) DEF TypeOK, Labels, WriteFails, WritePageFails
<1>13. WriteReturns => TypeOK'
  <2> SUFFICES ASSUME WriteReturns PROVE TypeOK'
    OBVIOUS
  <2>1. (pc' = "commit" \/ pc' = "receiving") /\ (buffer' = buffer \/ buffer' = <<>>)
    BY Zenon DEF WriteReturns, Consumed
  <2>2. UNCHANGED <<iapVars, stream, content_length, tls, total, job, data, passed, pollVars>>
    BY Zenon DEF WriteReturns, Consumed
  <2>3. pc' \in Labels
    BY <2>1 DEF Labels
  <2>4. buffer' \in Seq(Octet)
    BY <2>1, EmptyPage, Zenon DEF TypeOK
  <2> QED  BY <2>2, <2>3, <2>4, SMTT(30) DEF TypeOK
<1>14. Finish \/ Activate => TypeOK'
  <2>1. Finish => TypeOK'
    BY Octets, IapAssumption, SMTT(30) DEF TypeOK, Labels, Finish, ReleaseSession
  <2>2. Activate => TypeOK'
    <3>1. Activate => boot' \in Slot /\ session' \in {"open", "closed"} /\ pc' \in Labels
      BY SMTT(30)
         DEF TypeOK, SessionOK, HandleOK, Labels, Activate, ActivateSlot, CloseSession
    <3> QED  BY <3>1, SMTT(30) DEF TypeOK, Activate, ActivateSlot, CloseSession
  <2> QED  BY ONLY <2>1, <2>2
<1>15. Restart \/ PowerCycle => TypeOK'
  BY RebootHolds DEF Restart, PowerCycle
<1>16. UNCHANGED vars => TypeOK'
  BY SMTT(30) DEF TypeOK
<1> QED
  BY ONLY <1>1, <1>2, <1>3, <1>4, <1>5, <1>6, <1>7, <1>8, <1>9, <1>10, <1>11, <1>12, <1>13, <1>14,
          <1>15, <1>16, Zenon DEF Next, TaskStep

(* The steps outside the flash session leave all of iap.c alone. *)
LEMMA Quiet ==
  [Next]_vars =>
    \/ UNCHANGED iapVars
    \/ BodyAbortsOldSession \/ BodyBegins \/ BodyCannotBegin \/ WriteCopies \/ PageWritten
    \/ Abort \/ CommitLastPage \/ Finish \/ Activate \/ (Reboot /\ pc' = "starting")
<1>1. Start \/ Wake \/ Online \/ Request \/ RequestFails \/ Receive \/ Disconnected => UNCHANGED iapVars
  BY Zenon DEF Start, Wake, Online, Request, RequestFails, Receive, Disconnected
<1>2. MetadataReceived \/ BodyInSession \/ WriteReturns \/ Committed => UNCHANGED iapVars
  BY Zenon DEF MetadataReceived, BodyInSession, WriteReturns, Committed
<1>3. WriteFails => UNCHANGED iapVars
  BY Zenon DEF WriteFails, WritePageFails
<1>4. DownloadDone \/ CheckDone \/ CheckCleared \/ TimerElapses \/ CheckNow \/ WifiChanges =>
        UNCHANGED iapVars
  BY Zenon DEF DownloadDone, CheckDone, CheckCleared, TimerElapses, CheckNow, WifiChanges
<1>5. UNCHANGED vars => UNCHANGED iapVars
  BY DEF vars
<1>6. Restart \/ PowerCycle => Reboot /\ pc' = "starting"
  BY Zenon DEF Restart, PowerCycle, Reboot
<1> QED  BY ONLY <1>1, <1>2, <1>3, <1>4, <1>5, <1>6, Zenon DEF Next, TaskStep

(* What closing a session leaves. *)
LEMMA AbortEffect ==
  SessionOK /\ AbortSession =>
    /\ session' = "closed" /\ pageBuffer' = "none" /\ handle' = NoSlot
    /\ UNCHANGED <<flash, boot, running>>
<1> SUFFICES ASSUME SessionOK, AbortSession
             PROVE  /\ session' = "closed" /\ pageBuffer' = "none" /\ handle' = NoSlot
                    /\ UNCHANGED <<flash, boot, running>>
  OBVIOUS
<1>1. CASE session = "open" /\ ReleaseSession /\ CloseSession
  BY <1>1 DEF ReleaseSession, CloseSession
<1>2. CASE session = "closed" /\ UNCHANGED iapVars
  BY <1>2 DEF SessionOK, iapVars, slotVars
<1> QED  BY <1>1, <1>2 DEF AbortSession

(* No step opens an OTA handle on the slot that boots or runs. *)
LEMMA SessionStep == IInv /\ [Next]_vars => SessionOK'
<1> SUFFICES ASSUME IInv PROVE [Next]_vars => SessionOK'
  OBVIOUS
<1> USE DEF IInv, iapVars, slotVars
<1>1. UNCHANGED iapVars => SessionOK'
  BY SMTT(30) DEF SessionOK
<1>2. BodyAbortsOldSession \/ Abort => SessionOK'
  BY AbortEffect DEF SessionOK, BodyAbortsOldSession, Abort
<1>3. BodyBegins => SessionOK'
  BY NextSlotOther, SMTT(30) DEF TypeOK, SessionOK, BodyBegins, BeginSession
<1>4. BodyCannotBegin => SessionOK'
  BY SMTT(30) DEF SessionOK, BodyCannotBegin, BeginFails
<1>5. WriteCopies => SessionOK'
  BY SMTT(30) DEF SessionOK, WriteCopies, CopyToPage
<1>6. PageWritten \/ CommitLastPage => SessionOK'
  <2>1. WritePage \/ WritePageFails => UNCHANGED <<session, partition, pageBuffer, handle, boot, running>>
    BY Zenon DEF WritePage, WritePageFails
  <2> QED  BY <2>1, SMTT(30) DEF SessionOK, PageWritten, CommitLastPage
<1>7. Finish => SessionOK'
  BY SMTT(30) DEF SessionOK, HandleOK, Finish, ReleaseSession, At
<1>8. Activate => SessionOK'
  <2>1. Activate => ActivateSlot \/ UNCHANGED iapVars
    BY Zenon DEF Activate
  <2>2. Activate => pageBuffer = "none" /\ handle = NoSlot
    BY DEF Activate, At, HandleOK
  <2>3. ActivateSlot => session' = "closed" /\ UNCHANGED <<pageBuffer, handle>>
    BY DEF ActivateSlot, CloseSession
  <2>4. pageBuffer = "none" /\ handle = NoSlot /\ ActivateSlot => SessionOK'
    BY <2>3 DEF SessionOK
  <2> QED  BY ONLY <1>1, <2>1, <2>2, <2>4, Zenon
<1>9. Reboot => SessionOK'
  BY RebootHolds
<1> QED
  BY ONLY <1>1, <1>2, <1>3, <1>4, <1>5, <1>6, <1>7, <1>8, <1>9, Quiet, Zenon

(* The task is where it needs an OTA handle only while it has one. *)
LEMMA HandleStep == IInv /\ [Next]_vars => HandleOK'
<1> SUFFICES ASSUME IInv PROVE [Next]_vars => HandleOK'
  OBVIOUS
<1> USE DEF IInv, vars, iapVars, slotVars, httpVars, taskVars, flagVars, pollVars, envVars, At, Goto
<1>1. Start \/ Wake \/ Online \/ RequestFails \/ Disconnected \/ Committed => HandleOK'
  <2> USE DEF HandleOK
  <2>1. Start => HandleOK'  BY SMTT(30) DEF Start
  <2>2. Wake => HandleOK'  BY SMTT(30) DEF Wake
  <2>3. Online => HandleOK'  BY SMTT(30) DEF Online
  <2>4. RequestFails => HandleOK'  BY SMTT(30) DEF RequestFails
  <2>5. Disconnected => HandleOK'  BY SMTT(30) DEF Disconnected
  <2>6. Committed => HandleOK'  BY SMTT(30) DEF Committed
  <2> QED  BY ONLY <2>1, <2>2, <2>3, <2>4, <2>5, <2>6
<1>2. DownloadDone \/ CheckDone \/ CheckCleared \/ TimerElapses \/ CheckNow \/ WifiChanges => HandleOK'
  <2> USE DEF HandleOK
  <2>1. DownloadDone => HandleOK'  BY SMTT(30) DEF DownloadDone
  <2>2. CheckDone => HandleOK'  BY SMTT(30) DEF CheckDone
  <2>3. CheckCleared => HandleOK'  BY SMTT(30) DEF CheckCleared
  <2>4. TimerElapses => HandleOK'  BY SMTT(30) DEF TimerElapses
  <2>5. CheckNow => HandleOK'  BY SMTT(30) DEF CheckNow
  <2>6. WifiChanges => HandleOK'  BY SMTT(30) DEF WifiChanges
  <2> QED  BY ONLY <2>1, <2>2, <2>3, <2>4, <2>5, <2>6
<1>3. Request => HandleOK'
  <2>1. Request => /\ pc' = "receiving" /\ job' = job /\ handle' = handle
                   /\ has_iap_session' = (has_iap_session /\ job = "check")
    BY Zenon DEF Request
  <2>2. Request => (has_iap_session' => job' # "download")
    BY <2>1, Zenon
  <2> QED  BY <2>1, <2>2, SMTT(30) DEF HandleOK
<1>4. Receive => HandleOK'
  <2> SUFFICES ASSUME Receive PROVE HandleOK'
    OBVIOUS
  <2>1. /\ pc = "receiving" /\ job' = job /\ handle' = handle
        /\ has_iap_session' = has_iap_session
    BY Zenon DEF Receive
  <2>2. pc' \in {"receiving", "done"} \/ pc' = IF job = "check" THEN "metadata" ELSE "body"
    BY Zenon DEF Receive
  <2>3. pc' \in {"receiving", "done", "metadata", "body"} /\ (pc' = "body" => job' = "download")
    BY <2>1, <2>2, SMTT(30) DEF TypeOK
  <2> QED  BY <2>1, <2>3, SMTT(30) DEF HandleOK
<1>5. MetadataReceived => HandleOK'
  BY SMTT(30) DEF HandleOK, MetadataReceived
<1>6. BodyInSession => HandleOK'
  BY SMTT(30) DEF HandleOK, BodyInSession
<1>7. BodyAbortsOldSession => HandleOK'
  <2>1. BodyAbortsOldSession => UNCHANGED <<pc, job, has_iap_session>> /\ pc = "body" /\ ~has_iap_session
    BY Zenon DEF BodyAbortsOldSession
  <2> QED  BY <2>1, SMTT(30) DEF HandleOK
<1>8. BodyBegins => HandleOK'
  <2>1. BodyBegins => handle' \in Slot
    BY NextSlotOther, SMTT(30) DEF TypeOK, BodyBegins, BeginSession
  <2> QED  BY <2>1, IapAssumption, SMTT(30) DEF HandleOK, BodyBegins
<1>9. BodyCannotBegin => HandleOK'
  BY SMTT(30) DEF HandleOK, BodyCannotBegin
<1>10. WriteCopies => HandleOK'
  BY SMTT(30) DEF HandleOK, WriteCopies, CopyToPage
<1>11. PageWritten => HandleOK'
  BY SMTT(30) DEF HandleOK, PageWritten, WritePage
<1>12. WriteFails => HandleOK'
  <2>1. WriteFails => pc' = "abort"
    BY Zenon DEF WriteFails
  <2> QED  BY <2>1, SMTT(30) DEF HandleOK
<1>13. Abort => HandleOK'
  BY SMTT(30) DEF HandleOK, Abort
<1>14. WriteReturns => HandleOK'
  <2> SUFFICES ASSUME WriteReturns PROVE HandleOK'
    OBVIOUS
  <2>1. pc = "write" /\ handle' = handle /\ (pc' = "commit" \/ pc' = "receiving")
    BY Zenon DEF WriteReturns
  <2> QED  BY <2>1, SMTT(30) DEF HandleOK
<1>15. CommitLastPage => HandleOK'
  <2>1. WritePage \/ WritePageFails => handle' = handle
    BY Zenon DEF WritePage, WritePageFails
  <2> QED  BY <2>1, SMTT(30) DEF HandleOK, CommitLastPage
<1>16. Finish => HandleOK'
  <2>1. handle # NoSlot => session = "open"
    BY DEF SessionOK
  <2> QED  BY <2>1, SMTT(30) DEF HandleOK, Finish, ReleaseSession
<1>17. Activate => HandleOK'
  BY SMTT(30) DEF HandleOK, Activate
<1>18. Restart \/ PowerCycle => HandleOK'
  BY RebootHolds DEF Restart, PowerCycle
<1>19. UNCHANGED vars => HandleOK'
  BY SMTT(30) DEF HandleOK
<1> QED
  BY ONLY <1>1, <1>2, <1>3, <1>4, <1>5, <1>6, <1>7, <1>8, <1>9, <1>10, <1>11, <1>12, <1>13, <1>14,
          <1>15, <1>16, <1>17, <1>18, <1>19, Zenon DEF Next, TaskStep

(* The bytes to copy and the history change only in the body callback. *)
LEMMA Copying ==
  [Next]_vars =>
    \/ UNCHANGED <<data, passed>>
    \/ BodyInSession \/ BodyBegins \/ WriteCopies \/ Reboot
<1> USE DEF taskVars
<1>1. Start \/ Wake \/ Online \/ Request \/ RequestFails \/ Receive \/ Disconnected =>
        UNCHANGED <<data, passed>>
  BY Zenon DEF Start, Wake, Online, Request, RequestFails, Receive, Disconnected
<1>2. MetadataReceived \/ BodyAbortsOldSession \/ BodyCannotBegin \/ PageWritten \/ WriteFails =>
        UNCHANGED <<data, passed>>
  BY Zenon DEF MetadataReceived, BodyAbortsOldSession, BodyCannotBegin, PageWritten, WriteFails
<1>3. Abort \/ WriteReturns \/ CommitLastPage \/ Finish \/ Activate \/ Committed =>
        UNCHANGED <<data, passed>>
  BY Zenon DEF Abort, WriteReturns, CommitLastPage, Finish, Activate, Committed
<1>4. DownloadDone \/ CheckDone \/ CheckCleared \/ TimerElapses \/ CheckNow \/ WifiChanges =>
        UNCHANGED <<data, passed>>
  BY Zenon DEF DownloadDone, CheckDone, CheckCleared, TimerElapses, CheckNow, WifiChanges
<1>5. UNCHANGED vars => UNCHANGED <<data, passed>>
  BY DEF vars
<1> QED
  BY ONLY <1>1, <1>2, <1>3, <1>4, <1>5, Zenon DEF Next, TaskStep, Restart, PowerCycle

(* A session goes into a page write, out of one or to its end only with    *)
(* everything copied.                                                      *)
LEMMA Copied ==
  [Next]_vars =>
    \/ pc' \in {"write", "page", "abort"}
    \/ pc \notin {"write", "page", "abort"}
    \/ data = <<>>
    \/ Abort \/ Reboot
<1> USE DEF At, Goto, taskVars
<1>1. Start \/ Wake \/ Online \/ Request \/ RequestFails \/ Receive \/ Disconnected =>
        pc \notin {"write", "page", "abort"}
  BY Zenon DEF Start, Wake, Online, Request, RequestFails, Receive, Disconnected
<1>2. MetadataReceived \/ BodyInSession \/ BodyAbortsOldSession \/ BodyBegins \/ BodyCannotBegin =>
        pc \notin {"write", "page", "abort"}
  BY Zenon DEF MetadataReceived, BodyInSession, BodyAbortsOldSession, BodyBegins, BodyCannotBegin
<1>3. CommitLastPage \/ Finish \/ Activate \/ Committed => pc \notin {"write", "page", "abort"}
  BY Zenon DEF CommitLastPage, Finish, Activate, Committed
<1>4. DownloadDone \/ CheckDone \/ CheckCleared => pc \notin {"write", "page", "abort"}
  BY Zenon DEF DownloadDone, CheckDone, CheckCleared
<1>5. TimerElapses \/ CheckNow \/ WifiChanges \/ UNCHANGED vars => pc' = pc
  BY Zenon DEF TimerElapses, CheckNow, WifiChanges, vars
<1>6. WriteCopies \/ PageWritten \/ WriteFails => pc' \in {"write", "page", "abort"}
  BY Zenon DEF WriteCopies, PageWritten, WriteFails
<1>7. WriteReturns => data = <<>>
  BY Zenon DEF WriteReturns
<1>8. Restart \/ PowerCycle => Reboot
  BY Zenon DEF Restart, PowerCycle
<1>9. pc' = pc => pc' \in {"write", "page", "abort"} \/ pc \notin {"write", "page", "abort"}
  OBVIOUS
<1> QED
  BY ONLY <1>1, <1>2, <1>3, <1>4, <1>5, <1>6, <1>7, <1>8, <1>9, Zenon DEF Next, TaskStep

(* A session that has not been aborted is left only with everything copied. *)
LEMMA DataStep == IInv /\ [Next]_vars => DataOK'
<1> SUFFICES ASSUME IInv, [Next]_vars, handle' # NoSlot, pc' \notin {"write", "page", "abort"}
             PROVE  data' = <<>>
  BY DEF DataOK
<1> USE DEF IInv
<1>1. CASE BodyInSession \/ BodyBegins \/ WriteCopies
  BY <1>1, Zenon DEF BodyInSession, BodyBegins, WriteCopies, Goto
<1>2. CASE Reboot
  BY <1>2 DEF Reboot
<1>3. CASE Abort
  BY <1>3, AbortEffect DEF Abort
<1>4. CASE UNCHANGED <<data, passed>> /\ ~Reboot /\ ~Abort
  <2>1. CASE handle' = handle
    <3>1. pc \notin {"write", "page", "abort"} \/ data = <<>>
      BY <1>4, Copied
    <3> QED  BY <1>4, <2>1, <3>1 DEF DataOK
  <2>2. CASE handle' # handle
    <3>1. \/ BodyAbortsOldSession \/ BodyBegins \/ BodyCannotBegin \/ WriteCopies \/ PageWritten
          \/ CommitLastPage \/ Finish \/ Activate
      BY <1>4, <2>2, Quiet, Zenon DEF iapVars, slotVars
    <3>2. ~BodyAbortsOldSession /\ ~Finish
      BY AbortEffect, Zenon DEF BodyAbortsOldSession, Finish, ReleaseSession
    <3>3. ~BodyBegins /\ ~WriteCopies /\ ~PageWritten
      BY Zenon DEF BodyBegins, WriteCopies, PageWritten, Goto
    <3>4. ~BodyCannotBegin /\ ~CommitLastPage /\ ~Activate
      BY <2>2, Zenon
         DEF BodyCannotBegin, CommitLastPage, Activate, WritePage, WritePageFails, BeginFails,
             ActivateSlot, iapVars, slotVars
    <3> QED  BY ONLY <3>1, <3>2, <3>3, <3>4
  <2> QED  BY ONLY <2>1, <2>2
<1> QED  BY ONLY <1>1, <1>2, <1>3, <1>4, Copying, [Next]_vars, Zenon

(* Page buffering keeps the stream of bytes. *)
LEMMA StreamStep == IInv /\ [Next]_vars => StreamKept'
<1> SUFFICES ASSUME IInv PROVE [Next]_vars => StreamKept'
  OBVIOUS
<1> USE DEF IInv, iapVars, slotVars
<1>1. UNCHANGED iapVars /\ UNCHANGED <<data, passed>> => StreamKept'
  BY DEF StreamKept
<1>2. BodyInSession => StreamKept'
  <2> SUFFICES ASSUME BodyInSession, session = "open", handle # NoSlot
               PROVE  (flash[handle] \o page) \o buffer = passed \o buffer
    BY Zenon DEF BodyInSession, StreamKept
  <2>1. data = <<>> /\ (flash[handle] \o page) \o data = passed
    BY DEF BodyInSession, At, DataOK, StreamKept
  <2>2. flash[handle] \o page \in Seq(Octet)
    BY Octets DEF TypeOK
  <2> QED  BY <2>1, <2>2, Octets
<1>3. BodyAbortsOldSession \/ Abort => StreamKept'
  BY AbortEffect DEF StreamKept, BodyAbortsOldSession, Abort
<1>4. BodyBegins => StreamKept'
  <2> SUFFICES ASSUME BodyBegins PROVE StreamKept'
    OBVIOUS
  <2>1. handle' \in Slot /\ flash' = [flash EXCEPT ![handle'] = <<>>] /\ page' = <<>>
    BY NextSlotOther DEF TypeOK, BodyBegins, BeginSession
  <2>2. flash'[handle'] = <<>>
    BY <2>1 DEF TypeOK
  <2>3. (<<>> \o <<>>) \o buffer = buffer
    BY Octets DEF TypeOK
  <2> QED  BY <2>1, <2>2, <2>3 DEF StreamKept, BodyBegins
<1>5. BodyCannotBegin => StreamKept'
  <2>1. BodyCannotBegin => session = "closed" /\ session' = session
    BY Zenon DEF BodyCannotBegin, BeginFails
  <2> QED  BY <2>1 DEF StreamKept
<1>6. WriteCopies => StreamKept'
  <2> SUFFICES ASSUME WriteCopies, handle # NoSlot PROVE StreamKept'
    BY DEF StreamKept, WriteCopies, CopyToPage
  <2> DEFINE k == CopyLength(data)
             a == SubSeq(data, 1, k)
             b == SubSeq(data, k + 1, Len(data))
  <2>1. /\ session = "open" /\ UNCHANGED <<flash, handle, passed>>
        /\ page' = page \o a /\ data' = b
    BY DEF WriteCopies, CopyToPage
  <2>2. a \in Seq(Octet) /\ b \in Seq(Octet) /\ a \o b = data
    BY CopyFits, Parts DEF TypeOK
  <2> HIDE DEF a, b
  <2>3. flash[handle] \in Seq(Octet) /\ page \in Seq(Octet)
    BY DEF TypeOK
  <2>4. (flash[handle] \o (page \o a)) \o b = (flash[handle] \o page) \o (a \o b)
    <3> DEFINE f == flash[handle]
    <3>1. f \in Seq(Octet) /\ f \o page \in Seq(Octet) /\ page \in Seq(Octet)
      BY <2>3, Octets
    <3> HIDE DEF f
    <3>2. a \in Seq(Octet) /\ b \in Seq(Octet)
      BY <2>2
    <3>3. f \o (page \o a) = (f \o page) \o a /\ ((f \o page) \o a) \o b = (f \o page) \o (a \o b)
      BY ONLY <3>1, <3>2, Associative
    <3> QED  BY ONLY <3>3 DEF f
  <2>5. (flash[handle] \o page) \o data = passed
    BY <2>1 DEF StreamKept
  <2> QED  BY <2>1, <2>2, <2>4, <2>5 DEF StreamKept
<1>7. (PageWritten \/ CommitLastPage) /\ WritePage => StreamKept'
  <2> SUFFICES ASSUME PageWritten \/ CommitLastPage, WritePage, session = "open", handle # NoSlot
               PROVE  (flash'[handle] \o page') \o data = passed
    BY Zenon DEF PageWritten, CommitLastPage, WritePage, StreamKept
  <2>1. /\ flash[handle] \in Seq(Octet) /\ page \in Seq(Octet) /\ flash \in [Slot -> Seq(Octet)]
        /\ handle \in Slot
    BY DEF TypeOK
  <2>2. flash'[handle] = flash[handle] \o page
    <3>1. CASE page = <<>>
      BY <2>1, <3>1, Octets DEF WritePage
    <3>2. CASE page # <<>>
      BY <2>1, <3>2 DEF WritePage
    <3> QED  BY <3>1, <3>2
  <2>3. flash'[handle] \o page' = flash[handle] \o page
    BY <2>1, <2>2, Octets DEF WritePage
  <2> QED  BY <2>3 DEF StreamKept
<1>8. CommitLastPage => WritePage \/ UNCHANGED <<iapVars, data, passed>>
  BY Zenon DEF CommitLastPage, WritePageFails
<1>9. Finish => StreamKept'
  BY DEF Finish, ReleaseSession, StreamKept
<1>10. Activate => StreamKept'
  <2>1. Activate => handle = NoSlot /\ handle' = handle
    BY DEF Activate, ActivateSlot, HandleOK, At
  <2> QED  BY <2>1 DEF StreamKept
<1>11. Reboot => StreamKept'
  BY RebootHolds
<1>12. PageWritten => WritePage
  BY DEF PageWritten
<1> QED
  BY ONLY <1>1, <1>2, <1>3, <1>4, <1>5, <1>6, <1>7, <1>8, <1>9, <1>10, <1>11, <1>12, Quiet, Copying,
          Zenon

(* A step of the update is a step, or a stutter, of the firmware slots.    *)
LEMMA SlotStep ==
  IInv /\ [Next]_vars => [FS!Next]_<<boot, running, {s \in Slot : flash[s] \in Images}>>
<1> DEFINE complete == {s \in Slot : flash[s] \in Images}
           Goal == [FS!Next]_<<boot, running, complete>>
<1> SUFFICES ASSUME IInv PROVE [Next]_vars => Goal
  OBVIOUS
<1> USE DEF IInv, iapVars, slotVars
<1>1. UNCHANGED <<flash, boot, running>> => Goal
  OBVIOUS
<1>2. ASSUME NEW s \in Slot \ {boot, running}, NEW content, UNCHANGED <<boot, running>>,
             flash' = [flash EXCEPT ![s] = content]
      PROVE  Goal
  <2>1. \A t \in Slot : t # s => (flash'[t] \in Images <=> flash[t] \in Images)
    BY <1>2 DEF TypeOK
  <2>2. complete' \in {complete \cup {s}, complete \ {s}}
    <3>1. CASE flash'[s] \in Images
      BY <2>1, <3>1
    <3>2. CASE flash'[s] \notin Images
      BY <2>1, <3>2
    <3> QED  BY ONLY <3>1, <3>2
  <2>3. FS!Program
    BY <1>2, <2>2 DEF FS!Program
  <2> QED  BY <2>3 DEF FS!Next
<1>3. NextSlot(boot) \in Slot \ {boot}
  BY NextSlotOther DEF TypeOK
<1>4. UNCHANGED iapVars => Goal
  BY ONLY <1>1, Zenon DEF iapVars, slotVars
<1>5. BodyAbortsOldSession \/ Abort => Goal
  <2>1. BodyAbortsOldSession \/ Abort => UNCHANGED <<flash, boot, running>>
    BY AbortEffect, Zenon DEF BodyAbortsOldSession, Abort
  <2> QED  BY ONLY <1>1, <2>1
<1>6. BodyBegins => Goal
  <2> SUFFICES ASSUME BodyBegins PROVE Goal
    OBVIOUS
  <2>1. /\ partition' = NextSlot(boot) /\ partition' # running /\ UNCHANGED <<boot, running>>
        /\ flash' = [flash EXCEPT ![partition'] = <<>>]
    BY Zenon DEF BodyBegins, BeginSession
  <2> HIDE DEF Goal
  <2> QED  BY <1>2, <1>3, <2>1
<1>7. BodyCannotBegin => Goal
  <2> SUFFICES ASSUME BodyCannotBegin PROVE Goal
    OBVIOUS
  <2>1. \/ UNCHANGED <<flash, boot, running>>
        \/ /\ partition' = NextSlot(boot) /\ partition' # running /\ UNCHANGED <<boot, running>>
           /\ flash' = [flash EXCEPT ![partition'] = <<>>]
    BY Zenon DEF BodyCannotBegin, BeginFails
  <2> HIDE DEF Goal
  <2> QED  BY <1>1, <1>2, <1>3, <2>1
<1>8. WriteCopies => Goal
  BY ONLY <1>1, Zenon DEF WriteCopies, CopyToPage, slotVars
<1>9. PageWritten \/ CommitLastPage => Goal
  <2> SUFFICES ASSUME PageWritten \/ CommitLastPage PROVE Goal
    OBVIOUS
  <2>1. handle \in Slot \ {boot, running}
    BY <1>3 DEF TypeOK, SessionOK, HandleOK, PageWritten, CommitLastPage, At
  <2>2. \/ UNCHANGED <<flash, boot, running>>
        \/ UNCHANGED <<boot, running>> /\ flash' = [flash EXCEPT ![handle] = flash[handle] \o page]
    BY Zenon DEF PageWritten, CommitLastPage, WritePage, WritePageFails
  <2> HIDE DEF Goal
  <2> QED  BY <1>1, <1>2, <2>1, <2>2
<1>10. Finish => Goal
  BY ONLY <1>1, Zenon DEF Finish, ReleaseSession
<1>11. Activate => Goal
  <2>1. CASE ActivateSlot /\ At("activate")
    <3>1. partition \in complete
      BY <2>1 DEF ActivateSlot, SessionOK, HandleOK, At
    <3>2. FS!Activate
      BY <2>1, <3>1 DEF FS!Activate, ActivateSlot
    <3> QED  BY <3>2 DEF FS!Next
  <2> QED  BY ONLY <1>4, <2>1, Zenon DEF Activate
<1>12. Reboot => Goal
  <2>1. Reboot => FS!Restart
    BY DEF Reboot, IapReset, FS!Restart
  <2> QED  BY <2>1 DEF FS!Next
<1> HIDE DEF Goal
<1> QED
  BY ONLY <1>4, <1>5, <1>6, <1>7, <1>8, <1>9, <1>10, <1>11, <1>12, Quiet, Zenon

(* The inductive invariant: an OTA handle is open only within a session,   *)
(* on a slot that neither boots nor runs; the steps that write have it;    *)
(* and nothing is lost between the callback and the flash.                 *)
THEOREM UpdateInductive == Safe => []IInv
<1>1. IInv /\ [Next]_vars => IInv'
  BY TypeStep, SessionStep, HandleStep, DataStep, StreamStep, Zenon DEF IInv
<1> QED  BY <1>1, InitHolds, PTL DEF Safe

(* The state of client and flash session stays what the code can hold: no  *)
(* page longer than the page buffer, no body bytes from beyond the TLS     *)
(* buffer.                                                                 *)
THEOREM UpdateTypes == Safe => []TypeOK
<1>1. IInv => TypeOK
  BY DEF IInv
<1> QED  BY <1>1, UpdateInductive, PTL

(* iap.c loses, repeats and reorders no byte, for every page size and      *)
(* every way the response is split into packets.                           *)
THEOREM NothingIsLost == Safe => []StreamKept
<1>1. IInv => StreamKept
  BY DEF IInv
<1> QED  BY <1>1, UpdateInductive, PTL

(* iap_write never runs without an open session and its page buffer.       *)
THEOREM WritesAreBuffered == Safe => []WriteHasBuffer
<1>1. IInv => WriteHasBuffer
  BY DEF IInv, SessionOK, HandleOK, WriteHasBuffer
<1> QED  BY <1>1, UpdateInductive, PTL

(* The update implements the firmware slots: whenever power fails, the     *)
(* device boots a whole image, and the image that runs is never written.   *)
THEOREM SlotsAreKept == Safe => ImplementsSlots
<1>1. Init => FS!Init
  <2> SUFFICES ASSUME Init PROVE FS!Init
    OBVIOUS
  <2>1. boot \in Slot /\ running = boot
    BY DEF Init, Slot
  <2>2. PICK image \in Images : flash = [s \in Slot |-> IF s = boot THEN image ELSE <<>>]
    BY DEF Init
  <2>3. flash[boot] \in Images
    BY <2>1, <2>2
  <2> QED  BY <2>1, <2>3 DEF FS!Init
<1> QED  BY <1>1, SlotStep, UpdateInductive, PTL DEF Safe, ImplementsSlots, FS!Spec

(* Whenever the power fails: the slot that boots and the slot that runs    *)
(* hold a whole image each, for every image, page size and way to fail.    *)
THEOREM AlwaysBootable == Safe => []FS!WholeImages
<1>1. FS!Init => FS!WholeImages
  BY DEF FS!Init, FS!WholeImages
<1>2. FS!WholeImages /\ [FS!Next]_<<boot, running, {s \in Slot : flash[s] \in Images}>> => FS!WholeImages'
  BY DEF FS!WholeImages, FS!Next, FS!Program, FS!Activate, FS!Restart
<1> QED  BY <1>1, <1>2, SlotsAreKept, PTL DEF ImplementsSlots, FS!Spec

=============================================================================
