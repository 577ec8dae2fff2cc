------------------------ MODULE AudioFrontendProofs ------------------------
(* What the intake of an upload keeps, for every RIFF layout, every header  *)
(* limit and every way to cut the upload into pieces.                       *)
EXTENDS AudioFrontend, TLAPS

\* What the header's decision leaves where the upload stands.
IntakeInv ==
    /\ file \in Files /\ deferred \in BOOLEAN /\ flushed \in BOOLEAN
    /\ received \in Nat /\ received <= Total
    /\ cell \in Cells \cup {"none"}
    /\ verdict \in {"none", "format", "unsupported_format", "request_too_large"}
    /\ ~deferred => verdict = "none" /\ cell # "none" /\ remaining = NoFile
    /\ deferred => (cell # "none" <=> verdict = "format")
    /\ HeadBounded
    /\ CutIndependent

\* What was decoded of the file.
DecodedInv ==
    /\ cell = "none" => decoded = {} /\ kept = 0 /\ emitted = 0 /\ ~flushed
    /\ cell # "none" => Audible \in Nat /\ From \in Nat
    /\ cell # "none" /\ deferred =>
          /\ FirstData \in 1..file.count /\ From <= received
          /\ remaining \in Nat /\ remaining = file.size[FirstData] - Audible
    /\ OnlyDataDecoded

\* Samples decoded so far, before the delay.
Decoded == Scale(cell) * (Audible \div SampleBytes(cell))

\* What the frontend made of it.
SamplesInv ==
    /\ kept \in Nat /\ skip \in Nat /\ emitted \in Nat
    /\ cell # "none" /\ ~flushed =>
          /\ kept = Audible % SampleBytes(cell)
          /\ skip = Fresh(cell) - Least(Fresh(cell), Decoded)
    /\ SamplesExact

FrontendInv == IntakeInv /\ DecodedInv /\ SamplesInv

-----------------------------------------------------------------------------
\* The offsets of a file.
LEMMA Layout ==
    ASSUME file \in Files
    PROVE  /\ IsLayout(file) /\ Total \in Nat /\ file.count \in Nat
           /\ \A i \in 1..file.count : /\ file.start[i] \in Nat /\ file.start[i + 1] \in Nat
                                       /\ file.size[i] \in Nat
<1>1. IsLayout(file)
  BY FrontendAssumption
<1>2. file.count \in Nat /\ file.start \in [1..file.count + 1 -> Nat]
      /\ file.size \in [1..file.count -> Nat]
  BY <1>1 DEF IsLayout
<1>3. file.count + 1 \in 1..file.count + 1
  BY <1>2
<1>4. Total \in Nat
  BY <1>2, <1>3 DEF Total
<1>5. ASSUME NEW i \in 1..file.count
      PROVE  file.start[i] \in Nat /\ file.start[i + 1] \in Nat /\ file.size[i] \in Nat
  <2>1. i \in 1..file.count + 1 /\ i + 1 \in 1..file.count + 1
    BY <1>2
  <2> QED BY <1>2, <2>1
<1> QED BY <1>1, <1>2, <1>4, <1>5

\* At most one chunk ends the walk, and it still does when more is seen.
LEMMA DeciderStable ==
    ASSUME file \in Files, NEW n \in Nat, NEW m \in Nat, n <= m
    PROVE  /\ Deciders(n) \subseteq Deciders(m)
           /\ \A i, k \in Deciders(m) : i = k
<1>1. Seen(n) \in Nat /\ Seen(m) \in Nat /\ Seen(n) <= Seen(m)
  BY FrontendAssumption DEF Seen, Least
<1>2. ASSUME NEW i \in 1..file.count, Decides(i, n) PROVE Decides(i, m)
  <2>1. Seen(m) >= file.start[i] + 8
    BY <1>1, <1>2, Layout DEF Decides
  <2>2. ASSUME NEW j \in 1..i - 1 PROVE Passed(j, m)
    <3>1. j \in 1..file.count
      BY <2>2, Layout
    <3> QED BY <1>1, <1>2, <2>2, <3>1, Layout DEF Decides, Passed
  <2> QED BY <1>2, <2>1, <2>2 DEF Decides
<1>3. ASSUME NEW i \in 1..file.count, NEW k \in 1..file.count, Decides(i, m), Decides(k, m)
      PROVE  ~(i < k)
  <2> SUFFICES ASSUME i < k PROVE FALSE
    OBVIOUS
  <2>1. i \in 1..k - 1
    BY Layout
  <2>2. file.id[i] # "data" /\ (file.id[i] = "fmt" => file.size[i] >= 16)
    BY <1>3, <2>1 DEF Decides
  <2>3. file.id[i] = "fmt" /\ file.size[i] < 16
    BY <1>3, <2>2 DEF Decides
  <2>4. file.size[i] \in Nat
    BY Layout
  <2> QED BY <2>2, <2>3, <2>4
<1>4. ASSUME NEW i \in Deciders(m), NEW k \in Deciders(m) PROVE i = k
  BY <1>3, <1>4, Layout DEF Deciders
<1> QED BY <1>2, <1>4 DEF Deciders

\* Once the sniffer has decided, more bytes change nothing.
LEMMA SniffStable ==
    ASSUME file \in Files, NEW n \in Nat, NEW m \in Nat, n <= m, Sniff(n) # "none"
    PROVE  Sniff(m) = Sniff(n)
<1>1. Seen(n) \in Nat /\ Seen(m) \in Nat /\ Seen(n) <= Seen(m)
  BY FrontendAssumption DEF Seen, Least
<1>2. file.magic \in Nat
  BY Layout DEF IsLayout
<1>3. CASE n >= MaxHeader
  <2>1. Seen(m) = Seen(n) /\ NeedMore(m) = NeedMore(n)
    BY <1>3, FrontendAssumption DEF Seen, Least, NeedMore
  <2>2. Deciders(m) = Deciders(n)
    BY <2>1 DEF Deciders, Decides, Passed
  <2> QED BY <2>1, <2>2 DEF Sniff, NotRiff, Decider
<1>4. CASE n < MaxHeader
  <2>1. NeedMore(n) = "none"
    BY <1>4, FrontendAssumption DEF NeedMore
  <2>2. CASE Deciders(n) # {}
    <3>1. Deciders(m) = Deciders(n)
      BY <2>2, DeciderStable
    <3> QED BY <1>1, <1>2, <2>1, <2>2, <3>1 DEF Sniff, NotRiff, Decider, Least
  <2>3. CASE Deciders(n) = {}
    BY <1>1, <1>2, <2>1, <2>3 DEF Sniff, NotRiff, Least
  <2> QED BY <2>2, <2>3
<1> QED BY <1>3, <1>4, FrontendAssumption

\* A chunk that resolves the format is the file's first data chunk, and its
\* body begins within what was seen.
LEMMA ResolvesFirstData ==
    ASSUME file \in Files, NEW n \in Nat, Sniff(n) = "format"
    PROVE  \A i \in Deciders(n) :
               /\ i = FirstData /\ i \in 1..file.count
               /\ DataOffset(i) \in Nat /\ DataOffset(i) <= n
               /\ Format(i) \in Cells
<1> SUFFICES ASSUME NEW i \in Deciders(n)
             PROVE  /\ i = FirstData /\ i \in 1..file.count
                    /\ DataOffset(i) \in Nat /\ DataOffset(i) <= n
                    /\ Format(i) \in Cells
  OBVIOUS
<1>1. i \in 1..file.count /\ Decides(i, n)
  BY DEF Deciders
<1>2. Decider(n) = i
  BY DeciderStable DEF Decider
<1>3. Sound(i)
  BY <1>2 DEF Sniff, NotRiff, NeedMore
<1>4. /\ file.id[i] = "data" /\ \A j \in 1..i - 1 : file.id[j] # "data"
  BY <1>1, <1>3 DEF Sound, Decides
<1>5. \A k \in 1..file.count :
          file.id[k] = "data" /\ (\A j \in 1..k - 1 : file.id[j] # "data") => k = i
  BY <1>1, <1>4, Layout
<1>6. FirstData = i
  BY <1>1, <1>4, <1>5 DEF FirstData
<1>7. Seen(n) <= n /\ Seen(n) \in Nat
  BY FrontendAssumption DEF Seen, Least
<1> QED BY <1>1, <1>3, <1>6, <1>7, Layout DEF Decides, DataOffset, Sound

\* Samples that straddle two pieces are counted once.
LEMMA Straddle ==
    ASSUME NEW a \in Nat, NEW n \in Nat, NEW size \in {1, 2}
    PROVE  /\ (a % size) + n \in Nat
           /\ (a + n) % size = ((a % size) + n) % size
           /\ (a + n) \div size = (a \div size) + (((a % size) + n) \div size)
           /\ a \div size \in Nat /\ a % size \in Nat
           /\ ((a % size) + n) \div size \in Nat
<1>1. CASE size = 1
  BY <1>1
<1>2. CASE size = 2
  BY <1>2
<1> QED BY <1>1, <1>2

-----------------------------------------------------------------------------
\* What a file is found to be, and what of it is audible, are its own.
LEMMA SameFile ==
    ASSUME UNCHANGED file
    PROVE  /\ Total' = Total /\ FirstData' = FirstData
           /\ \A n \in Nat : Sniff(n)' = Sniff(n)
BY DEF Total, FirstData, Sniff, NotRiff, NeedMore, Deciders, Decides, Decider, Passed, Seen,
       Sound, Formats, Format

\* An upload starts with nothing received.
LEMMA FrontendInit == Init => FrontendInv
<1> SUFFICES ASSUME Init PROVE FrontendInv
  OBVIOUS
<1>1. IntakeInv
  <2>1. file \in Files /\ Total \in Nat
    BY Layout DEF Init
  <2>2. ~deferred => cell \in Cells
    BY DEF Init
  <2>3. deferred => cell = "none"
    BY DEF Init
  <2>4. verdict = "none" /\ remaining = NoFile /\ received = 0 /\ head = 0
        /\ flushed = FALSE /\ deferred \in BOOLEAN
    BY DEF Init
  <2>5. received \in Nat /\ received <= Total /\ head < MaxHeader /\ head = received
    BY <2>1, <2>4, FrontendAssumption
  <2>6. HeadBounded /\ CutIndependent
    BY <2>4, <2>5 DEF HeadBounded, CutIndependent
  <2>7. cell # "none" <=> ~deferred
    BY <2>2, <2>3, <2>4 DEF Cells
  <2> QED BY <2>1, <2>2, <2>3, <2>4, <2>5, <2>6, <2>7 DEF IntakeInv
<1>2. DecodedInv
  BY DEF Init, DecodedInv, OnlyDataDecoded, Audible, From
<1>3. cell # "none" => Audible = 0 /\ skip = Fresh(cell)
  BY DEF Init, Audible
<1>4. cell # "none" => Audible \div SampleBytes(cell) = 0 /\ Audible % SampleBytes(cell) = 0
  BY <1>3, Straddle DEF SampleBytes
<1>5. cell # "none" => Decoded = 0
  BY <1>4 DEF Decoded, Scale
<1>6. SamplesInv
  BY <1>3, <1>4, <1>5 DEF Init, SamplesInv, SamplesExact, Decoded, Fresh, HalfLen, Least
<1> QED BY <1>1, <1>2, <1>6 DEF FrontendInv

\* The decision on the header is kept.
LEMMA IntakeStep == IntakeInv /\ [Next]_vars => IntakeInv'
<1> SUFFICES ASSUME IntakeInv, [Next]_vars PROVE IntakeInv'
  OBVIOUS
<1> USE DEF IntakeInv
<1>1. file \in Files /\ Total \in Nat
  BY Layout
<1>2. UNCHANGED <<file, deferred>>
  BY DEF Next, vars, Flush, Audio, HeaderIncomplete, HeaderRefused, HeaderResolves,
         Undecided, Arrives
<1>3. Total' = Total /\ \A n \in Nat : Sniff(n)' = Sniff(n)
  BY <1>2, SameFile
<1>4. received' \in Nat /\ received' <= Total' /\ received <= received' /\ flushed' \in BOOLEAN
  <2>1. CASE Flush \/ UNCHANGED vars
    <3>1. UNCHANGED received /\ flushed' \in BOOLEAN
      BY <2>1 DEF Flush, vars, intake, frontend
    <3> QED BY <1>3, <3>1
  <2>2. ASSUME NEW n \in 0..Total,
               Audio(n) \/ HeaderIncomplete(n) \/ HeaderRefused(n) \/ HeaderResolves(n)
        PROVE  /\ received' = received + n /\ received' <= Total
               /\ UNCHANGED flushed
    <3>1. Arrives(n)
      BY <2>2 DEF Audio, HeaderIncomplete, HeaderRefused, HeaderResolves, Undecided
    <3>2. UNCHANGED flushed
      BY <2>2 DEF Audio, HeaderIncomplete, HeaderRefused, HeaderResolves, Payload, Push,
                  frontend
    <3> QED BY <3>1, <3>2 DEF Arrives
  <2> QED BY <1>1, <1>3, <2>1, <2>2 DEF Next
<1>5. CASE UNCHANGED <<verdict, cell>> /\ (cell # "none" \/ UNCHANGED intake)
  <2>1. CutIndependent'
    BY <1>1, <1>3, <1>4, <1>5 DEF CutIndependent, intake
  <2>2. HeadBounded'
    BY <1>2, <1>5 DEF HeadBounded, intake
  <2>3. ~deferred' => remaining' = NoFile
    BY <1>2, <1>5 DEF Next, vars, intake, Flush, Audio, HeaderIncomplete, HeaderRefused,
       HeaderResolves, Undecided, Payload
  <2> QED BY <1>1, <1>2, <1>4, <1>5, <2>1, <2>2, <2>3
<1>6. ASSUME NEW n \in 0..Total, Undecided(n),
             HeaderIncomplete(n) \/ HeaderRefused(n) \/ HeaderResolves(n)
      PROVE  IntakeInv'
  <2>1. deferred /\ head = received /\ received' = received + n /\ n \in Nat
    BY <1>1, <1>6 DEF Undecided, HeadBounded, Arrives
  <2>2. verdict' = Sniff(received')
    BY <1>6, <2>1 DEF Undecided
  <2>3. CutIndependent'
    BY <1>1, <1>2, <1>3, <1>4, <2>2, SniffStable DEF CutIndependent
  <2>4. verdict' \in {"none", "format", "unsupported_format", "request_too_large"}
    BY <2>2 DEF Sniff, NeedMore
  <2>5. verdict' = "none" => received' < MaxHeader
    BY <1>4, <2>2, FrontendAssumption DEF Sniff, NeedMore
  <2>6. CASE HeaderIncomplete(n)
    BY <1>2, <1>4, <1>6, <2>1, <2>3, <2>5, <2>6 DEF HeaderIncomplete, Undecided, HeadBounded
  <2>7. CASE HeaderRefused(n)
    BY <1>2, <1>4, <1>6, <2>1, <2>3, <2>4, <2>7 DEF HeaderRefused, Undecided, HeadBounded
  <2>8. CASE HeaderResolves(n)
    <3>1. PICK i \in Deciders(received') : cell' = Format(i)
      BY <2>1, <2>8 DEF HeaderResolves
    <3>2. cell' \in Cells
      BY <1>1, <1>4, <2>2, <2>8, <3>1, ResolvesFirstData DEF HeaderResolves
    <3> QED BY <1>2, <1>4, <2>1, <2>3, <2>8, <3>2 DEF HeaderResolves, HeadBounded, Cells
  <2> QED BY <1>6, <2>6, <2>7, <2>8
<1> QED BY <1>5, <1>6 DEF Next, vars, Flush, Audio, HeaderIncomplete, HeaderRefused,
                          HeaderResolves, intake

\* The delay is discarded once, whatever the pieces.
LEMMA DelayOnce ==
    ASSUME NEW fresh \in {0, 20}, NEW done \in Nat, NEW more \in Nat,
           NEW delay \in Nat, delay = fresh - Least(fresh, done)
    PROVE  /\ delay - Least(delay, more) \in Nat
           /\ delay - Least(delay, more) = fresh - Least(fresh, done + more)
           /\ (done - Least(fresh, done)) + (more - Least(delay, more))
                 = (done + more) - Least(fresh, done + more)
           /\ (done + more) - Least(fresh, done + more) \in Nat
BY DEF Least

\* A piece of n bytes for a frontend whose samples are exact so far.
LEMMA PushExact ==
    ASSUME NEW c \in Cells, NEW a \in Nat, NEW n \in Nat, NEW from, NEW delay \in Nat,
           NEW done \in Nat, done = Scale(c) * (a \div SampleBytes(c)),
           kept = a % SampleBytes(c),
           delay = Fresh(c) - Least(Fresh(c), done),
           emitted = done - Least(Fresh(c), done),
           Push(c, delay, from, n)
    PROVE  LET next == Scale(c) * ((a + n) \div SampleBytes(c))
           IN /\ next \in Nat
              /\ kept' = (a + n) % SampleBytes(c) /\ kept' \in Nat
              /\ skip' = Fresh(c) - Least(Fresh(c), next) /\ skip' \in Nat
              /\ emitted' = next - Least(Fresh(c), next) /\ emitted' \in Nat
<1> DEFINE more == Scale(c) * ((kept + n) \div SampleBytes(c))
<1> DEFINE next == Scale(c) * ((a + n) \div SampleBytes(c))
<1>1. SampleBytes(c) \in {1, 2} /\ Scale(c) \in {1, 2} /\ Fresh(c) \in {0, 20}
  BY DEF SampleBytes, Scale, Fresh, HalfLen
<1>2. /\ more \in Nat /\ next = done + more
      /\ kept' = (a + n) % SampleBytes(c) /\ kept' \in Nat
  <2>1. /\ (kept + n) \div SampleBytes(c) \in Nat /\ a \div SampleBytes(c) \in Nat
        /\ (a + n) \div SampleBytes(c)
              = (a \div SampleBytes(c)) + ((kept + n) \div SampleBytes(c))
    <3>1. SampleBytes(c) \in {1, 2}
      BY <1>1
    <3> QED BY <3>1, Straddle
  <2>2. more \in Nat /\ next = done + more
    <3>1. CASE Scale(c) = 1
      BY <2>1, <3>1
    <3>2. CASE Scale(c) = 2
      BY <2>1, <3>2
    <3> QED BY <1>1, <3>1, <3>2
  <2>3. kept' = (a + n) % SampleBytes(c)
    BY <1>1, Straddle DEF Push, Kept
  <2>4. (a + n) % SampleBytes(c) \in Nat
    BY <1>1, Straddle
  <2> QED BY <2>2, <2>3, <2>4
<1>3. /\ skip' = delay - Least(delay, more)
      /\ emitted' = emitted + (more - Least(delay, more))
  BY DEF Push, Emit
<1> HIDE DEF more, next
<1>4. /\ skip' = Fresh(c) - Least(Fresh(c), next) /\ skip' \in Nat
      /\ emitted' = next - Least(Fresh(c), next) /\ emitted' \in Nat /\ next \in Nat
  <2>1. next \in Nat /\ next = done + more /\ more \in Nat
    BY <1>2
  <2>2. Fresh(c) \in {0, 20} /\ delay = Fresh(c) - Least(Fresh(c), done)
    BY <1>1
  <2>3. /\ delay - Least(delay, more) \in Nat
        /\ delay - Least(delay, more) = Fresh(c) - Least(Fresh(c), done + more)
        /\ (done - Least(Fresh(c), done)) + (more - Least(delay, more))
              = (done + more) - Least(Fresh(c), done + more)
        /\ (done + more) - Least(Fresh(c), done + more) \in Nat
    BY <2>1, <2>2, DelayOnce
  <2> QED BY <1>3, <2>1, <2>3
<1> QED BY <1>2, <1>4 DEF next

\* What is decoded stays the audible part of the data chunk, and its samples
\* stay exact.
LEMMA DecodedStep == FrontendInv /\ IntakeInv' /\ [Next]_vars => DecodedInv' /\ SamplesInv'
<1> SUFFICES ASSUME FrontendInv, IntakeInv', [Next]_vars PROVE DecodedInv' /\ SamplesInv'
  OBVIOUS
<1>1. file \in Files /\ Total \in Nat /\ IsLayout(file)
  BY Layout DEF FrontendInv, IntakeInv
<1>2. CASE UNCHANGED <<file, deferred, received, cell, remaining, frontend>>
  <2>1. FirstData' = FirstData
    BY <1>2, SameFile
  <2>2. From' = From /\ Audible' = Audible
    BY <1>2, <2>1 DEF From, Audible
  <2> QED BY <1>2, <2>1, <2>2
          DEF frontend, FrontendInv, DecodedInv, SamplesInv, OnlyDataDecoded, SamplesExact,
              Decoded
<1>3. CASE Flush
  <2>1. UNCHANGED <<file, deferred, received, cell, remaining, decoded>> /\ cell # "none"
        /\ ~flushed /\ flushed' = TRUE /\ kept' = 0 /\ Emit(skip, Fresh(cell))
    BY <1>3 DEF Flush, intake
  <2>2. FirstData' = FirstData
    BY <2>1, SameFile
  <2>3. From' = From /\ Audible' = Audible /\ Decoded' = Decoded
    BY <2>1, <2>2 DEF From, Audible, Decoded
  <2>4. DecodedInv'
    BY <2>1, <2>2, <2>3 DEF FrontendInv, DecodedInv, OnlyDataDecoded
  <2>5. /\ SampleBytes(cell) \in {1, 2} /\ Scale(cell) \in {1, 2}
        /\ Fresh(cell) \in {0, 20} /\ Audible \in Nat
    BY <2>1 DEF SampleBytes, Scale, Fresh, HalfLen, FrontendInv, DecodedInv
  <2>6. Audible \div SampleBytes(cell) \in Nat
    BY <2>5, Straddle
  <2>7. Decoded \in Nat
    BY <2>5, <2>6 DEF Decoded
  <2>8. /\ skip = Fresh(cell) - Least(Fresh(cell), Decoded)
        /\ emitted = Decoded - Least(Fresh(cell), Decoded)
    BY <2>1 DEF FrontendInv, SamplesInv, SamplesExact, Decoded
  <2>9. emitted' = Decoded /\ skip' \in Nat
    BY <2>1, <2>5, <2>7, <2>8 DEF Emit, Least
  <2>10. SamplesExact'
    BY <2>1, <2>3, <2>9 DEF SamplesExact, Decoded
  <2> QED BY <2>1, <2>4, <2>7, <2>9, <2>10 DEF SamplesInv
<1>4. ASSUME NEW n \in 0..Total, Audio(n) PROVE DecodedInv' /\ SamplesInv'
  <2> DEFINE taken == Take(n, remaining)
  <2>1. /\ UNCHANGED <<file, deferred, cell, flushed>> /\ cell \in Cells /\ ~flushed
        /\ n \in Nat /\ received' = received + n /\ received \in Nat
    BY <1>1, <1>4 DEF Audio, Arrives, Payload, Push, FrontendInv, IntakeInv
  <2>2. FirstData' = FirstData /\ From' = From /\ From \in Nat /\ Audible \in Nat
    BY <2>1, SameFile DEF From, FrontendInv, DecodedInv, Cells
  <2>3. /\ taken \in Nat /\ Audible' = Audible + taken
        /\ taken > 0 => received = From + Audible
    <3>1. CASE ~deferred
      BY <2>1, <2>2, <3>1 DEF Audible, From, Take, FrontendInv, IntakeInv
    <3>2. CASE deferred
      <4>1. /\ remaining \in Nat /\ From <= received
            /\ remaining = file.size[FirstData] - Audible /\ file.size[FirstData] \in Nat
        BY <1>1, <2>1, <3>2, Layout DEF FrontendInv, DecodedInv, Cells
      <4>2. Audible = Least(file.size[FirstData], received - From)
        BY <3>2 DEF Audible
      <4>3. Audible' = Least(file.size[FirstData], received' - From)
        BY <2>1, <2>2, <3>2 DEF Audible
      <4>4. taken = Least(n, remaining)
        BY <4>1, FrontendAssumption DEF Take
      <4> HIDE DEF taken
      <4> QED BY <2>1, <2>2, <4>1, <4>2, <4>3, <4>4 DEF Least
    <3> QED BY <3>1, <3>2
  <2>4. /\ remaining' = IF remaining = NoFile THEN NoFile ELSE remaining - taken
        /\ decoded' = decoded \cup received..(received + taken - 1)
        /\ Push(cell, skip, received, taken)
    BY <1>4 DEF Audio, Payload, Push
  <2> HIDE DEF taken
  <2>5. decoded = From..(From + Audible - 1)
    BY <2>1 DEF FrontendInv, DecodedInv, OnlyDataDecoded, Cells
  <2>6. decoded' = From..(From + Audible' - 1)
    <3>1. CASE taken = 0
      BY <2>1, <2>2, <2>3, <2>4, <2>5, <3>1
    <3>2. CASE taken > 0
      BY <2>1, <2>2, <2>3, <2>4, <2>5, <3>2
    <3> QED BY <2>3, <3>1, <3>2
  <2>7. DecodedInv'
    <3>1. OnlyDataDecoded'
      BY <2>1, <2>2, <2>6 DEF OnlyDataDecoded, Cells
    <3>2. cell # "none" /\ Audible' \in Nat /\ From' \in Nat
      BY <2>1, <2>2, <2>3 DEF Cells
    <3>3. deferred => /\ FirstData \in 1..file.count /\ From <= received'
                      /\ remaining' \in Nat /\ remaining' = file.size[FirstData] - Audible'
      <4>1. CASE deferred
        <5>1. /\ FirstData \in 1..file.count /\ From <= received /\ remaining \in Nat
              /\ remaining = file.size[FirstData] - Audible /\ file.size[FirstData] \in Nat
          BY <1>1, <3>2, <4>1, Layout DEF FrontendInv, DecodedInv
        <5>2. remaining' = remaining - taken /\ taken <= remaining
          BY <2>1, <2>4, <5>1, FrontendAssumption DEF taken, Take, Least
        <5> QED BY <2>1, <2>2, <2>3, <5>1, <5>2
      <4> QED BY <4>1
    <3> QED BY <2>1, <2>2, <3>1, <3>2, <3>3 DEF DecodedInv
  <2>8. SamplesInv'
    <3>1. /\ kept = Audible % SampleBytes(cell) /\ skip \in Nat
          /\ skip = Fresh(cell) - Least(Fresh(cell), Decoded)
          /\ emitted = Decoded - Least(Fresh(cell), Decoded)
      BY <2>1 DEF FrontendInv, SamplesInv, SamplesExact, Decoded, Cells
    <3>2. Decoded \in Nat
      BY <2>2, Straddle DEF Decoded, Scale, SampleBytes
    <3>3. LET next == Scale(cell) * ((Audible + taken) \div SampleBytes(cell))
          IN /\ kept' = (Audible + taken) % SampleBytes(cell) /\ kept' \in Nat
             /\ skip' = Fresh(cell) - Least(Fresh(cell), next) /\ skip' \in Nat
             /\ emitted' = next - Least(Fresh(cell), next) /\ emitted' \in Nat
      BY <2>1, <2>2, <2>3, <2>4, <3>1, <3>2, PushExact DEF Decoded
    <3> QED BY <2>1, <2>2, <2>3, <3>3 DEF SamplesInv, SamplesExact, Decoded
  <2> QED BY <2>7, <2>8
<1>5. ASSUME NEW n \in 0..Total, HeaderResolves(n) PROVE DecodedInv' /\ SamplesInv'
  <2>1. /\ UNCHANGED <<file, deferred>> /\ deferred /\ head = received /\ received \in Nat
        /\ n \in Nat /\ received' = received + n /\ received' \in Nat
        /\ cell = "none" /\ verdict' = "format" /\ verdict' = Sniff(head + n)
    BY <1>1, <1>5 DEF HeaderResolves, Undecided, Arrives, FrontendInv, IntakeInv, HeadBounded
  <2>2. PICK i \in Deciders(head + n) :
            /\ cell' = Format(i)
            /\ Payload(Format(i), Fresh(Format(i)), received - head + DataOffset(i),
                       head + n - DataOffset(i), file.size[i])
    BY <1>5 DEF HeaderResolves
  <2>3. /\ i = FirstData /\ i \in 1..file.count /\ cell' \in Cells
        /\ DataOffset(i) \in Nat /\ DataOffset(i) <= received' /\ file.size[i] \in Nat
    BY <1>1, <2>1, <2>2, ResolvesFirstData, Layout
  <2>4. FirstData' = i /\ From' = DataOffset(i)
    BY <2>1, <2>3, SameFile DEF From, DataOffset
  <2> DEFINE taken == Take(head + n - DataOffset(i), file.size[i])
  <2>5. taken \in Nat /\ taken = Audible' /\ taken <= file.size[i]
    <3>1. taken = Least(head + n - DataOffset(i), file.size[i])
      BY <2>3, FrontendAssumption DEF Take
    <3>2. Audible' = Least(file.size[i], received' - DataOffset(i))
      BY <2>1, <2>4 DEF Audible
    <3> HIDE DEF taken
    <3> QED BY <2>1, <2>3, <3>1, <3>2 DEF Least
  <2>6. /\ remaining' = file.size[i] - taken
        /\ Push(cell', Fresh(cell'), received - head + DataOffset(i), taken)
    BY <2>2, <2>3, FrontendAssumption DEF Payload
  <2> HIDE DEF taken
  <2>7. decoded = {} /\ kept = 0 /\ emitted = 0 /\ ~flushed
    BY <2>1 DEF FrontendInv, DecodedInv
  <2>8. decoded' = From'..(From' + Audible' - 1)
    BY <2>1, <2>3, <2>4, <2>5, <2>6, <2>7 DEF Push
  <2>9. DecodedInv'
    <3>1. OnlyDataDecoded' /\ cell' # "none"
      BY <2>3, <2>8 DEF OnlyDataDecoded, Cells
    <3> QED BY <2>1, <2>3, <2>4, <2>5, <2>6, <3>1 DEF DecodedInv
  <2>10. SamplesInv'
    <3> DEFINE c == cell'
    <3>1. c \in Cells /\ SampleBytes(c) \in {1, 2} /\ Fresh(c) \in {0, 20} /\ Scale(c) \in {1, 2}
      BY <2>3 DEF SampleBytes, Fresh, HalfLen, Scale
    <3>2. 0 \div SampleBytes(c) = 0 /\ 0 % SampleBytes(c) = 0
      BY <3>1
    <3>3. 0 = Scale(c) * (0 \div SampleBytes(c))
      BY <3>1, <3>2
    <3>4. Fresh(c) = Fresh(c) - Least(Fresh(c), 0) /\ 0 = 0 - Least(Fresh(c), 0)
      BY <3>1 DEF Least
    <3>5. Push(c, Fresh(c), received - head + DataOffset(i), taken)
      BY <2>6
    <3>6. UNCHANGED flushed
      BY <2>6 DEF Push
    <3> HIDE DEF c
    <3>7. LET next == Scale(c) * ((0 + taken) \div SampleBytes(c))
          IN /\ kept' = (0 + taken) % SampleBytes(c) /\ kept' \in Nat
             /\ skip' = Fresh(c) - Least(Fresh(c), next) /\ skip' \in Nat
             /\ emitted' = next - Least(Fresh(c), next) /\ emitted' \in Nat
      BY <2>5, <2>7, <3>1, <3>2, <3>3, <3>4, <3>5, PushExact
    <3>8. \A t \in Nat : 0 + t = t
      OBVIOUS
    <3> QED BY <2>5, <2>7, <3>6, <3>7, <3>8 DEF c, SamplesInv, SamplesExact, Decoded
  <2> QED BY <2>9, <2>10
<1>6. ASSUME NEW n \in 0..Total, HeaderIncomplete(n) \/ HeaderRefused(n)
      PROVE  DecodedInv' /\ SamplesInv'
  <2>1. cell = "none" /\ cell' = "none" /\ UNCHANGED frontend
    BY <1>6 DEF HeaderIncomplete, HeaderRefused, Undecided
  <2> QED BY <2>1 DEF frontend, FrontendInv, DecodedInv, SamplesInv, OnlyDataDecoded,
                      SamplesExact
<1> QED BY <1>2, <1>3, <1>4, <1>5, <1>6 DEF Next, vars, intake

\* The invariant is inductive.
LEMMA FrontendStep == FrontendInv /\ [Next]_vars => FrontendInv'
BY IntakeStep, DecodedStep DEF FrontendInv

\* However an upload is cut into pieces, the header is decided alike, and alike
\* for the whole file at once (sniff_riff).
THEOREM DecisionIsFinal == Spec => []CutIndependent
<1>1. FrontendInv => CutIndependent
  BY DEF FrontendInv, IntakeInv
<1> QED BY FrontendInit, FrontendStep, <1>1, PTL DEF Spec

\* No more than max_riff_header_bytes are kept for a header (sniff_riff's
\* callers).
THEOREM HeadStaysBounded == Spec => []HeadBounded
<1>1. FrontendInv => HeadBounded
  BY DEF FrontendInv, IntakeInv
<1> QED BY FrontendInit, FrontendStep, <1>1, PTL DEF Spec

\* Whatever the layout of a file, exactly its first data chunk is decoded.
THEOREM OnlyDataIsDecoded == Spec => []OnlyDataDecoded
<1>1. FrontendInv => OnlyDataDecoded
  BY DEF FrontendInv, DecodedInv
<1> QED BY FrontendInit, FrontendStep, <1>1, PTL DEF Spec

\* However it is cut, it becomes the same number of samples (push, flush).
THEOREM SamplesStayExact == Spec => []SamplesExact
<1>1. FrontendInv => SamplesExact
  BY DEF FrontendInv, SamplesInv
<1> QED BY FrontendInit, FrontendStep, <1>1, PTL DEF Spec

-----------------------------------------------------------------------------
\* The types that the invariant leaves open.
RestTypes == /\ head \in 0..received /\ remaining \in Nat \cup {NoFile}
             /\ kept \in 0..1 /\ skip \in 0..HalfLen

\* What the filter still discards, and what is left of a sample.
LEMMA PushTypes ==
    ASSUME NEW c \in Cells, NEW delay \in 0..HalfLen, NEW from, NEW n \in Nat,
           kept \in 0..1, Push(c, delay, from, n)
    PROVE  kept' \in 0..1 /\ skip' \in 0..HalfLen
<1>1. SampleBytes(c) \in {1, 2} /\ Scale(c) \in {1, 2}
  BY DEF SampleBytes, Scale
<1>2. kept' \in 0..1
  BY <1>1 DEF Push, Kept
<1>3. (kept + n) \div SampleBytes(c) \in Nat
  BY <1>1
<1>4. Scale(c) * ((kept + n) \div SampleBytes(c)) \in Nat
  BY <1>1, <1>3
<1>5. skip' = delay - Least(delay, Scale(c) * ((kept + n) \div SampleBytes(c)))
  BY DEF Push, Emit
<1>6. skip' \in 0..HalfLen
  BY <1>4, <1>5 DEF Least, HalfLen
<1> QED BY <1>2, <1>6

\* A piece's part of the data chunk.
LEMMA TakeTypes ==
    ASSUME NEW n \in Nat, NEW size \in Nat \cup {NoFile}
    PROVE  /\ Take(n, size) \in Nat
           /\ (IF size = NoFile THEN NoFile ELSE size - Take(n, size)) \in Nat \cup {NoFile}
BY FrontendAssumption DEF Take, Least

\* Every step keeps them.
LEMMA RestStep == FrontendInv /\ RestTypes /\ [Next]_vars => RestTypes'
<1> SUFFICES ASSUME FrontendInv, RestTypes, [Next]_vars PROVE RestTypes'
  OBVIOUS
<1>1. file \in Files /\ received \in Nat /\ Total \in Nat
  BY Layout DEF FrontendInv, IntakeInv
<1>2. CASE UNCHANGED vars
  BY <1>2 DEF vars, intake, frontend, RestTypes
<1>3. CASE Flush
  <2>1. Fresh(cell) \in {0, 20}
    BY DEF Fresh, HalfLen
  <2>2. skip' \in 0..HalfLen
    BY <1>3, <2>1 DEF Flush, Emit, Least, RestTypes, HalfLen
  <2> QED BY <1>3, <2>2 DEF Flush, intake, RestTypes
<1>4. ASSUME NEW n \in 0..Total, Audio(n) PROVE RestTypes'
  <2>1. cell \in Cells /\ n \in Nat /\ Take(n, remaining) \in Nat
    <3>1. cell \in Cells \cup {"none"} /\ cell # "none"
      BY <1>4, Zenon DEF Audio, FrontendInv, IntakeInv
    <3>2. remaining \in Nat \cup {NoFile} /\ n \in Nat
      BY <1>1 DEF RestTypes
    <3> QED BY <3>1, <3>2, TakeTypes
  <2>2. kept' \in 0..1 /\ skip' \in 0..HalfLen
    BY <1>4, <2>1, PushTypes DEF Audio, Payload, RestTypes
  <2>3. remaining' \in Nat \cup {NoFile}
    BY <1>4, <2>1, TakeTypes DEF Audio, Payload, RestTypes
  <2>4. head' \in 0..received'
    BY <1>1, <1>4 DEF Audio, Arrives, RestTypes
  <2> QED BY <2>2, <2>3, <2>4 DEF RestTypes
<1>5. ASSUME NEW n \in 0..Total, HeaderIncomplete(n) \/ HeaderRefused(n) PROVE RestTypes'
  <2>1. head = received
    BY <1>5 DEF HeaderIncomplete, HeaderRefused, Undecided, FrontendInv, IntakeInv,
                HeadBounded
  <2> QED BY <1>1, <1>5, <2>1
          DEF HeaderIncomplete, HeaderRefused, Undecided, Arrives, frontend, RestTypes
<1>6. ASSUME NEW n \in 0..Total, HeaderResolves(n) PROVE RestTypes'
  <2>1. /\ head = received /\ received' = received + n /\ n \in Nat /\ head' = 0
        /\ Sniff(head + n) = "format"
    BY <1>1, <1>6 DEF HeaderResolves, Undecided, Arrives, FrontendInv, IntakeInv,
                      HeadBounded
  <2>2. PICK i \in Deciders(head + n) :
            Payload(Format(i), Fresh(Format(i)), received - head + DataOffset(i),
                    head + n - DataOffset(i), file.size[i])
    BY <1>6 DEF HeaderResolves
  <2>3. /\ Format(i) \in Cells /\ file.size[i] \in Nat
        /\ head + n - DataOffset(i) \in Nat
    BY <1>1, <2>1, ResolvesFirstData, Layout
  <2>4. Take(head + n - DataOffset(i), file.size[i]) \in Nat
    BY <2>3, TakeTypes
  <2>5. Fresh(Format(i)) \in 0..HalfLen
    BY DEF Fresh, HalfLen
  <2>6. kept' \in 0..1 /\ skip' \in 0..HalfLen
    BY <2>2, <2>3, <2>4, <2>5, PushTypes DEF Payload, RestTypes
  <2>7. remaining' \in Nat \cup {NoFile}
    BY <2>2, <2>3, TakeTypes DEF Payload
  <2> QED BY <1>1, <2>1, <2>6, <2>7 DEF RestTypes
<1> QED BY <1>2, <1>3, <1>4, <1>5, <1>6 DEF Next

\* Every variable of an upload keeps its type: offsets within what was received,
\* less than a sample kept, no more of the delay than there was.
THEOREM FrontendTypes == Spec => []TypeOK
<1>1. Init => RestTypes
  BY DEF Init, RestTypes, Fresh, HalfLen
<1>2. FrontendInv /\ RestTypes => TypeOK
  <2> SUFFICES ASSUME FrontendInv, RestTypes PROVE TypeOK
    OBVIOUS
  <2>1. received \in 0..Total /\ emitted \in Nat
    BY Layout DEF FrontendInv, IntakeInv, SamplesInv
  <2>2. decoded \subseteq 0..received
    <3>1. cell # "none" => From \in Nat /\ Audible \in Nat /\ From + Audible <= received
      BY <2>1, Layout DEF FrontendInv, DecodedInv, Audible, From, Least
    <3> QED BY <2>1, <3>1 DEF FrontendInv, DecodedInv, OnlyDataDecoded
  <2> QED BY <2>1, <2>2 DEF TypeOK, Total, FrontendInv, IntakeInv, RestTypes
<1> QED BY FrontendInit, FrontendStep, RestStep, <1>1, <1>2, PTL DEF Spec
=============================================================================
