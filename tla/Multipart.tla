----------------------------- MODULE Multipart -----------------------------
(* The body of a transcription request as nim_http.py's                     *)
(* parse_transcription_multipart takes it in: the ASGI messages it receives *)
(* one by one, and the callbacks the external multipart parser makes while  *)
(* it eats the bytes of one.  Where a message is cut is up to the client,   *)
(* so a header or a part's data may come in several portions.  Bytes are    *)
(* counted, not kept; the parser's grammar is a boundary byte before each   *)
(* part and at the end.  A mutant is a plausible mistake in the definition  *)
(* that follows it.                                                         *)
EXTENDS Naturals, Sequences, FiniteSets, Functions

CONSTANTS
    EnvelopeLimit,  \* limits.envelope_bytes
    PartLimit,      \* limits.part_count
    HeaderLimit,    \* limits.part_header_bytes
    FileLimit,      \* limits.encoded_audio_bytes
    TextLimit,      \* limits.text_field_bytes
    MaxMessage,     \* bound: bytes of one ASGI message
    Lengths,        \* the Content-Length a request may declare
    Undeclared      \* no Content-Length

ASSUME MultipartAssumption ==
    /\ {EnvelopeLimit, PartLimit, HeaderLimit, FileLimit, TextLimit} \subseteq Nat \ {0}
    /\ MaxMessage \in Nat /\ Lengths \subseteq Nat /\ Undeclared \notin Nat

VARIABLES
    where,          \* what the parser expects next
    fresh, last,    \* bytes of the message not parsed yet; more_body is false
    envelope,       \* envelope_bytes
    declared,       \* content_length
    parts,          \* part_count
    headerBytes,    \* part_headers
    inHeader,       \* a header has begun
    headers,        \* the names current_header_name is made of
    found,          \* the keys of current_headers
    name, size,     \* current_name, len(current_data)
    fields,         \* the length of each field
    sent,           \* bytes of part data that came under each name
    verdict         \* what the parse returned

message == <<fresh, last, envelope>>
part    == <<parts, headerBytes, inHeader, headers, found, name, size>>
body    == <<where, message, declared, part, fields, sent, verdict>>

Names   == {"file", "model", "extra"}
Headers == {"disposition", "type"}

BodyOK == /\ where \in {"boundary", "headers", "data", "end"}
          /\ {fresh, envelope, parts, headerBytes, size} \subseteq Nat
          /\ {last, inHeader} \subseteq BOOLEAN
          /\ declared \in Lengths \cup {Undeclared}
          /\ headers \in Seq(Headers) /\ found \subseteq Seq(Headers)
          /\ name \in Names \cup {"none"}
          /\ DOMAIN fields \subseteq Names /\ \A n \in DOMAIN fields : fields[n] \in Nat
          /\ sent \in [Names -> Nat]
          /\ verdict \in {"none", "malformed_request", "request_too_large", "accepted"}

BodyInit == /\ where = "boundary" /\ fresh = 0 /\ last = FALSE /\ envelope = 0
            /\ parts = 0 /\ headerBytes = 0 /\ inHeader = FALSE
            /\ headers = <<>> /\ found = {} /\ name = "none" /\ size = 0
            /\ fields = <<>> /\ sent = [n \in Names |-> 0] /\ verdict = "none"
            /\ declared \in Lengths \cup {Undeclared}

\* The parse has returned: its locals are gone.
Forget == /\ where' = "end" /\ fresh' = 0 /\ last' = TRUE /\ envelope' = 0
          /\ parts' = 0 /\ headerBytes' = 0 /\ inHeader' = FALSE
          /\ headers' = <<>> /\ found' = {} /\ name' = "none" /\ size' = 0
          /\ fields' = <<>> /\ sent' = [n \in Names |-> 0] /\ verdict' = "none"
          /\ declared' = Undeclared

Reject(code) == verdict' = code
Malformed == Reject("malformed_request")
TooLarge  == Reject("request_too_large")

Eat(k) == k <= fresh /\ fresh' = fresh - k /\ UNCHANGED <<last, envelope>>

-----------------------------------------------------------------------------
\* The ASGI messages.

FitsAlone(total, n, limit) == n <= limit        \* mutant: only this portion is measured
Fits(total, n, limit) == total + n <= limit

\* receive() returns n bytes of body, the last ones or not.
Message(n) == /\ IF Fits(envelope, n, EnvelopeLimit)
                 THEN /\ envelope' = envelope + n /\ fresh' = n /\ last' \in BOOLEAN
                      /\ UNCHANGED verdict
                 ELSE TooLarge /\ UNCHANGED message
              /\ UNCHANGED <<where, declared, part, fields, sent>>

\* A disconnect, another message, or a body that is not bytes.
BadMessage == Malformed /\ UNCHANGED <<where, message, declared, part, fields, sent>>

-----------------------------------------------------------------------------
\* The parser's callbacks.

BadFraming == /\ fresh > 0 /\ where # "end" /\ Malformed
              /\ UNCHANGED <<where, message, declared, part, fields, sent>>

DataKept == size        \* mutant: current_data is not reset
NoData == 0

PartBegin ==
    /\ where = "boundary" /\ Eat(1)
    /\ parts' = parts + 1
    /\ IF parts' > PartLimit THEN TooLarge /\ UNCHANGED where
                             ELSE where' = "headers" /\ UNCHANGED verdict
    /\ headers' = <<>> /\ found' = {} /\ name' = "none" /\ size' = NoData
    /\ headerBytes' = 0 /\ inHeader' = FALSE
    /\ UNCHANGED <<declared, fields, sent>>

HeaderBytes(k) ==
    /\ where = "headers" /\ k > 0 /\ Eat(k)
    /\ IF Fits(headerBytes, k, HeaderLimit)
       THEN headerBytes' = headerBytes + k /\ inHeader' = TRUE /\ UNCHANGED verdict
       ELSE TooLarge /\ UNCHANGED <<headerBytes, inHeader>>
    /\ UNCHANGED <<where, declared, parts, headers, found, name, size, fields, sent>>

\* on_header_end: neither accumulator is emptied, so the key of a later header
\* is made of all the names so far.
HeaderEnd(h) ==
    /\ where = "headers" /\ inHeader
    /\ headers' = Append(headers, h) /\ inHeader' = FALSE
    /\ IF headers' \in found THEN Malformed /\ UNCHANGED found
                             ELSE found' = found \cup {headers'} /\ UNCHANGED verdict
    /\ UNCHANGED <<where, message, declared, parts, headerBytes, name, size, fields, sent>>

NewName(n) == n \notin DOMAIN fields

\* on_headers_finished: a disposition with one new name.
HeadersFinished(n) ==
    /\ where = "headers" /\ ~inHeader /\ fresh > 0
    /\ IF <<"disposition">> \in found /\ NewName(n)
       THEN name' = n /\ where' = "data" /\ UNCHANGED verdict
       ELSE Malformed /\ UNCHANGED <<name, where>>
    /\ UNCHANGED <<message, declared, parts, headerBytes, inHeader, headers, found, size,
                   fields, sent>>

BadDisposition == /\ where = "headers" /\ ~inHeader /\ fresh > 0 /\ Malformed
                  /\ UNCHANGED <<where, message, declared, part, fields, sent>>

DataLimit(n) == IF n = "file" THEN FileLimit ELSE TextLimit

PartData(k) ==
    /\ where = "data" /\ k > 0 /\ Eat(k)
    /\ sent' = [sent EXCEPT ![name] = @ + k]
    /\ IF Fits(size, k, DataLimit(name)) THEN size' = size + k /\ UNCHANGED verdict
                                         ELSE TooLarge /\ UNCHANGED size
    /\ UNCHANGED <<where, declared, parts, headerBytes, inHeader, headers, found, name,
                   fields>>

\* on_part_end: text that is not UTF-8 is refused.
PartEnd ==
    /\ where = "data" /\ fresh > 0
    /\ \/ fields' = [n \in DOMAIN fields \cup {name} |->
                        IF n = name THEN size ELSE fields[n]]
          /\ where' = "boundary" /\ UNCHANGED verdict
       \/ name # "file" /\ Malformed /\ UNCHANGED <<fields, where>>
    /\ UNCHANGED <<message, declared, part, sent>>

End == /\ where = "boundary" /\ parts > 0 /\ Eat(1) /\ where' = "end"
       /\ UNCHANGED <<declared, part, fields, sent, verdict>>

\* What follows the closing boundary is counted but not read.
Epilogue == /\ where = "end" /\ fresh > 0 /\ Eat(fresh)
            /\ UNCHANGED <<where, declared, part, fields, sent, verdict>>

Callback == \/ BadFraming \/ PartBegin \/ BadDisposition \/ PartEnd \/ End \/ Epilogue
            \/ \E k \in 1..MaxMessage : HeaderBytes(k) \/ PartData(k)
            \/ \E h \in Headers : HeaderEnd(h)
            \/ \E n \in Names : HeadersFinished(n)

Complete == /\ where = "end" /\ declared \in {Undeclared, envelope}
            /\ "file" \in DOMAIN fields

\* After the last message.
Finish == /\ last /\ fresh = 0
          /\ verdict' = IF Complete THEN "accepted" ELSE "malformed_request"
          /\ UNCHANGED <<where, message, declared, part, fields, sent>>

-----------------------------------------------------------------------------
\* Properties.

\* However a body is cut into messages, no more of it is kept than its limits
\* allow: envelope, parts, each part's headers and each field
\* (docs/configuration.md:73-79).
LimitsHold == /\ envelope <= EnvelopeLimit
              /\ parts > PartLimit => verdict # "none"
              /\ headerBytes <= HeaderLimit
              /\ name # "none" => size <= DataLimit(name)
              /\ \A n \in DOMAIN fields : fields[n] <= DataLimit(n)

\* An accepted body is the body that was sent: every part that was begun is a
\* field, and each field has exactly the bytes that came under its name.
AcceptedAsSent == verdict = "accepted" =>
    /\ Cardinality(DOMAIN fields) = parts
    /\ \A n \in DOMAIN fields : fields[n] = sent[n]

\* nim_http.py:408 refuses a part with a "duplicate multipart part header": the
\* data of a part that repeats one is never read.
RepeatedHeaderRefused == where = "data" => IsInjective(headers)
=============================================================================
