-------------------------- MODULE MCAudioFrontend --------------------------
\* Files for AudioFrontend: layouts that are accepted, refused, and longer than
\* max_riff_header_bytes.
EXTENDS AudioFrontend, Sequences

Fmt(c, size)     == [id |-> "fmt", size |-> size, cell |-> c]
Samples(size)      == [id |-> "data", size |-> size, cell |-> "unknown"]
List(size)        == [id |-> "other", size |-> size, cell |-> "unknown"]

File(chunks, magic, wave) ==
    LET n == Len(chunks)
        start[i \in 1..n + 1] ==
            IF i = 1 THEN 12
            ELSE start[i - 1] + 8 + chunks[i - 1].size + (chunks[i - 1].size % 2)
    IN [count |-> n, magic |-> magic, wave |-> wave, start |-> start,
        id    |-> [i \in 1..n |-> chunks[i].id],
        size  |-> [i \in 1..n |-> chunks[i].size],
        cell  |-> [i \in 1..n |-> chunks[i].cell]]

Layouts == {
    <<Fmt("pcm16k", 16), Samples(5), List(3)>>,
    <<List(3), Fmt("g711", 18), Samples(12), Samples(2)>>,
    <<Fmt("pcm8k", 16), List(7), Samples(27)>>,
    <<Fmt("unknown", 16), Fmt("pcm16k", 17), Samples(0), List(1)>>,
    <<List(20), Fmt("pcm16k", 16), Samples(2)>>,
    <<Fmt("pcm16k", 16), Fmt("unknown", 16), Samples(2)>>,
    <<Fmt("off matrix", 16), Samples(2)>>,
    <<Fmt("pcm16k", 14), Samples(2)>>,
    <<Samples(4), Fmt("pcm16k", 16)>>,
    <<List(4)>> }

McFiles == {File(c, 4, TRUE) : c \in Layouts}
             \cup {File(<<List(4)>>, m, w) : m \in {0, 3}, w \in BOOLEAN}
             \cup {File(<<List(4)>>, 4, FALSE)}
=============================================================================
