--------------------------- MODULE AudioFrontend ---------------------------
(* An upload on its way through frontend.py: sniff_riff finds the data      *)
(* chunk of a RIFF/WAVE file that arrives in pieces, as grpc.py's           *)
(* StreamingRecognize and nim_ws.py's append take it in, and                *)
(* StreamingAudioFrontend turns that chunk into samples.  Bytes are known   *)
(* by their offset in the upload and samples are counted; what the filters  *)
(* compute is left out.  A mutant is a plausible mistake in the definition  *)
(* that follows it.                                                         *)
EXTENDS Naturals, FiniteSets

CONSTANTS
    MaxHeader,      \* max_riff_header_bytes
    Files,          \* bound: the files that are uploaded
    NoFile          \* riff_remaining is None

Cells     == {"pcm16k", "pcm8k", "g711"}    \* ACCEPT_MATRIX; MULAW and ALAW alike
SampleBytes(cell) == IF cell = "g711" THEN 1 ELSE 2     \* _bytes_per_sample
HalfLen   == 20     \* _StreamingResampler._HALF_LEN

\* The chunks of a file and where each starts: a header of 8 bytes, the body,
\* and a byte of padding if the body is odd.
IsLayout(f) ==
    /\ f.count \in Nat /\ f.magic \in Nat /\ f.wave \in BOOLEAN
    /\ f.id \in [1..f.count -> {"fmt", "data", "other"}]
    /\ f.size \in [1..f.count -> Nat]
    /\ f.cell \in [1..f.count -> Cells \cup {"off matrix", "unknown"}]
    /\ f.start \in [1..f.count + 1 -> Nat]
    /\ f.start[1] = 12
    /\ \A i \in 1..f.count : f.start[i + 1] = f.start[i] + 8 + f.size[i] + (f.size[i] % 2)

ASSUME FrontendAssumption == /\ MaxHeader \in Nat \ {0} /\ NoFile \notin Nat
                             /\ \A f \in Files : IsLayout(f)

VARIABLES
    file,           \* what is uploaded
    deferred,       \* the format comes from the file, or was declared
    received,       \* bytes of it received
    head,           \* len(riff_head)
    verdict,        \* what was found: the format, or why it is refused
    cell,           \* the frontend's encoding and rate
    remaining,      \* riff_remaining
    decoded,        \* the offsets of the bytes pushed into the frontend
    kept, skip,     \* len(_byte_tail), _initial_skip
    emitted,        \* samples produced
    flushed         \* flush() was called

intake   == <<received, head, verdict, cell, remaining>>
frontend == <<decoded, kept, skip, emitted, flushed>>
vars     == <<file, deferred, intake, frontend>>

TypeOK == /\ file \in Files /\ deferred \in BOOLEAN /\ flushed \in BOOLEAN
          /\ received \in 0..file.start[file.count + 1] /\ head \in 0..received
          /\ verdict \in {"none", "format", "unsupported_format", "request_too_large"}
          /\ cell \in Cells \cup {"none"}
          /\ remaining \in Nat \cup {NoFile}
          /\ decoded \subseteq 0..received
          /\ kept \in 0..1 /\ skip \in 0..HalfLen /\ emitted \in Nat

Least(a, b) == IF a <= b THEN a ELSE b

-----------------------------------------------------------------------------
\* sniff_riff on the first n bytes of the file.

WholeHeader(n) == n     \* mutant: the prefix is not cut at the limit
Seen(n) == Least(n, MaxHeader)

NeedMore(n) == IF n >= MaxHeader THEN "request_too_large" ELSE "none"

\* The walk is past chunk j: its header and body were seen.
Passed(j, n) == Seen(n) >= file.start[j + 1]

\* Chunk i ends the walk: the data, or a fmt chunk that is too short.
Decides(i, n) == /\ Seen(n) >= file.start[i] + 8
                 /\ file.id[i] = "data" \/ (file.id[i] = "fmt" /\ file.size[i] < 16)
                 /\ \A j \in 1..i - 1 : /\ Passed(j, n)
                                        /\ file.id[j] # "data"
                                        /\ file.id[j] = "fmt" => file.size[j] >= 16
Deciders(n) == {i \in 1..file.count : Decides(i, n)}
Decider(n) == CHOOSE i \in Deciders(n) : TRUE

\* The last fmt chunk before the data, as resolved_fmt.
Formats(i) == {j \in 1..i - 1 : file.id[j] = "fmt"}
Format(i) == file.cell[CHOOSE j \in Formats(i) : \A k \in Formats(i) : k <= j]

\* The chunk that ends the walk has a format in front of it that validate_format
\* accepts.
Sound(i) == file.id[i] = "data" /\ Formats(i) # {} /\ Format(i) \in Cells

NotRiff(n) == file.magic < Least(4, Seen(n))

Sniff(n) ==
    CASE NotRiff(n) -> "unsupported_format"
      [] ~NotRiff(n) /\ Seen(n) < 12 -> NeedMore(n)
      [] ~NotRiff(n) /\ Seen(n) >= 12 /\ ~file.wave -> "unsupported_format"
      [] OTHER -> IF Deciders(n) = {} THEN NeedMore(n)
                  ELSE IF Sound(Decider(n)) THEN "format" ELSE "unsupported_format"

-----------------------------------------------------------------------------
\* StreamingAudioFrontend.

\* The resampler's initial delay, and its samples per sample.
Fresh(c) == IF c = "pcm16k" THEN 0 ELSE HalfLen
Scale(c) == IF c = "pcm16k" THEN 1 ELSE 2

\* _emit, with so much of the delay still to be discarded.
Emit(delay, n) == /\ skip' = delay - Least(delay, n)
                  /\ emitted' = emitted + (n - Least(delay, n))

TailLost(n, size) == 0      \* mutant: an incomplete sample is dropped
Kept(n, size) == n % size

\* push(): count bytes from an offset on.
Push(c, delay, from, count) ==
    /\ decoded' = decoded \cup from..(from + count - 1)
    /\ kept' = Kept(kept + count, SampleBytes(c))
    /\ Emit(delay, Scale(c) * ((kept + count) \div SampleBytes(c)))
    /\ UNCHANGED flushed

\* flush(): the filter's lookahead.
Flush == /\ cell # "none" /\ ~flushed /\ flushed' = TRUE
         /\ kept' = 0
         /\ Emit(skip, Fresh(cell))
         /\ UNCHANGED <<file, deferred, intake, decoded>>

-----------------------------------------------------------------------------
\* The intake.

Init == /\ file \in Files /\ deferred \in BOOLEAN
        /\ received = 0 /\ head = 0 /\ verdict = "none" /\ remaining = NoFile
        /\ IF deferred THEN cell = "none" /\ skip = 0
                       ELSE cell \in Cells /\ skip = Fresh(cell)
        /\ decoded = {} /\ kept = 0 /\ emitted = 0 /\ flushed = FALSE

Total == file.start[file.count + 1]

Arrives(n) == /\ ~flushed /\ received + n <= Total
              /\ received' = received + n
              /\ UNCHANGED <<file, deferred>>

Take(n, size) == IF size = NoFile THEN n ELSE Least(n, size)

\* payload[:riff_remaining]
Payload(c, delay, from, n, size) ==
    /\ remaining' = IF size = NoFile THEN NoFile ELSE size - Take(n, size)
    /\ Push(c, delay, from, Take(n, size))

\* More bytes for the frontend that is bound.
Audio(n) == /\ cell # "none" /\ Arrives(n)
            /\ Payload(cell, skip, received, n, remaining)
            /\ UNCHANGED <<head, verdict, cell>>

\* More bytes of a header: all that is kept is sniffed again.
Undecided(n) == /\ cell = "none" /\ verdict = "none" /\ Arrives(n)
                /\ verdict' = Sniff(head + n)

HeaderIncomplete(n) == /\ Undecided(n) /\ verdict' = "none"
                       /\ head' = head + n
                       /\ UNCHANGED <<cell, remaining, frontend>>

HeaderRefused(n) == /\ Undecided(n) /\ verdict' \notin {"none", "format"}
                    /\ UNCHANGED <<head, cell, remaining, frontend>>

WholeUpload(i) == 0     \* mutant: the header is pushed with the data
DataOffset(i) == file.start[i] + 8

HeaderResolves(n) ==
    /\ Undecided(n) /\ verdict' = "format"
    /\ head' = 0
    /\ \E i \in Deciders(head + n) :
          /\ cell' = Format(i)
          /\ Payload(Format(i), Fresh(Format(i)), received - head + DataOffset(i),
                     head + n - DataOffset(i), file.size[i])

Next == Flush \/ \E n \in 0..Total :
                    Audio(n) \/ HeaderIncomplete(n) \/ HeaderRefused(n) \/ HeaderResolves(n)

Spec == Init /\ [][Next]_vars

-----------------------------------------------------------------------------
\* Properties.

\* However an upload is cut, the same is found: once the sniffer has decided,
\* no longer prefix, up to the whole file that HTTP sniffs, says otherwise.
CutIndependent ==
    verdict # "none" => \A n \in received..Total : Sniff(n) = verdict

\* The bytes kept for a header are all there were, and fewer than
\* max_riff_header_bytes ("callers retain at most their configured header bound").
HeadBounded == deferred /\ verdict = "none" => head = received /\ head < MaxHeader

\* The first data chunk, and how much of it was received.
FirstData == CHOOSE i \in 1..file.count : /\ file.id[i] = "data"
                                          /\ \A j \in 1..i - 1 : file.id[j] # "data"
From == IF deferred THEN file.start[FirstData] + 8 ELSE 0
Audible == IF deferred THEN Least(file.size[FirstData], received - From) ELSE received

\* Exactly the bytes of the data chunk are decoded, in whatever pieces they
\* come: none of the header, none after the chunk ("never decodes RIFF metadata
\* as PCM").
OnlyDataDecoded == decoded = IF cell = "none" THEN {} ELSE From..(From + Audible - 1)

\* The samples are those of the bytes decoded, whatever the pieces: with the
\* resampler, delayed by its half length until it is flushed.
SamplesExact ==
    cell # "none" =>
        LET whole == Scale(cell) * (Audible \div SampleBytes(cell))
        IN emitted = IF flushed THEN whole ELSE whole - Least(Fresh(cell), whole)
=============================================================================
