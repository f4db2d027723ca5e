----------------------------- MODULE HttpsClient -----------------------------
(***************************************************************************)
(* https_client.c under wifi_tls_send_request: what the TLS connection     *)
(* reads is gathered in the request's response buffer until the headers    *)
(* are complete; the body is passed on, whole or in fragments.             *)
(***************************************************************************)
EXTENDS Naturals, Sequences

CONSTANTS
  Header,       (* a byte of the headers, or of stale memory               *)
  HeaderLength, (* bytes of the headers up to the empty line               *)
  TlsSize,      (* tls_response_buffer_size                                *)
  BufferSize,   (* response_buffer_len of the metadata ("check") and       *)
                (* firmware ("download") requests                          *)
  NoLength      (* headers without a usable status or Content-Length       *)

ASSUME HttpsAssumption ==
  /\ HeaderLength \in Nat \ {0}
  /\ TlsSize \in Nat \ {0}
  /\ BufferSize \in [{"check", "download"} -> 1 .. TlsSize]
  /\ NoLength \notin Nat

VARIABLES
  stream,       (* what the server has still to send                       *)
  content_length,
  tls,          (* tls_response_buffer                                     *)
  buffer,       (* response_buffer up to response_buffer_count             *)
  total,        (* response_body_total_count                               *)
  inHeaders     (* is_processing_headers                                   *)

httpVars == <<stream, content_length, tls, buffer, total, inHeaders>>

Stale == [i \in 1 .. TlsSize |-> Header]

(* https_send_request of a request the server answers with this body.  The *)
(* first packet resets the state and the rest is allocated anew.           *)
SendRequest(body, announced) ==
  /\ stream' = [i \in 1 .. HeaderLength |-> Header] \o body
  /\ content_length' = announced
  /\ tls' = Stale /\ buffer' = <<>> /\ total' = 0 /\ inHeaders' = TRUE

(* A TLS read of n bytes leaves the rest of its buffer as it was. *)
Readable(n) == n \in 1 .. TlsSize /\ n <= Len(stream)

Read(n) ==
  /\ Readable(n)
  /\ tls' = [i \in 1 .. TlsSize |-> IF i <= n THEN stream[i] ELSE tls[i]]
  /\ stream' = SubSeq(stream, n + 1, Len(stream))

Gathered(n) == buffer \o SubSeq(stream, 1, n)

Overflows(n, job) == Len(Gathered(n)) > BufferSize[job]

(* All headers are there.  The body bytes that follow them are copied from *)
(* the TLS buffer, at the offset they have in the response buffer.         *)
BodyAfterHeaders(n) ==
  [i \in 1 .. Len(Gathered(n)) - HeaderLength |-> tls'[HeaderLength + i]]

Complete(body, job) ==
  IF job = "check" THEN Len(body) >= content_length ELSE body # <<>>

(* The callback gets nothing yet: headers or a body still incomplete. *)
Gathers(n, job) ==
  /\ Read(n)
  /\ ~Overflows(n, job)
  /\ UNCHANGED content_length
  /\ \/ /\ inHeaders /\ Len(Gathered(n)) < HeaderLength
        /\ buffer' = Gathered(n) /\ total' = total + n /\ inHeaders' = TRUE
     \/ /\ inHeaders /\ Len(Gathered(n)) >= HeaderLength
        /\ content_length # NoLength
        /\ buffer' = BodyAfterHeaders(n) /\ total' = Len(buffer') /\ inHeaders' = FALSE
        /\ ~Complete(buffer', job)
     \/ /\ ~inHeaders
        /\ buffer' = Gathered(n) /\ total' = total + n /\ inHeaders' = FALSE
        /\ ~Complete(buffer', job)

(* The packet ends the request: too long, or headers of no use. *)
Drops(n, job) ==
  /\ Read(n)
  /\ \/ Overflows(n, job)
     \/ inHeaders /\ Len(Gathered(n)) >= HeaderLength /\ content_length = NoLength
  /\ UNCHANGED <<content_length, buffer, total, inHeaders>>

(* The body callback is due, with the bytes in buffer. *)
Delivers(n, job) ==
  /\ Read(n)
  /\ ~Overflows(n, job)
  /\ content_length # NoLength
  /\ inHeaders' = FALSE
  /\ \/ /\ inHeaders /\ Len(Gathered(n)) >= HeaderLength
        /\ buffer' = BodyAfterHeaders(n) /\ total' = Len(buffer')
     \/ /\ ~inHeaders
        /\ buffer' = Gathered(n) /\ total' = total + n
  /\ Complete(buffer', job)
  /\ UNCHANGED content_length

(* The callback wants more, and more is to come or not. *)
Consumed == buffer' = <<>> /\ UNCHANGED <<stream, content_length, tls, total, inHeaders>>

AllDelivered == total >= content_length

=============================================================================
