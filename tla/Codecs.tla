------------------------------- MODULE Codecs -------------------------------
\* What the decoder plug-ins answer to the three calls the engine makes:
\* Open, SetUnitIndex and DecodeUnit.  The plug-ins wrap libraries that are not
\* part of the repository; the model keeps, for each of them, what the wrapper
\* does with the library's answer: which position it records, which of the
\* caller's output parameters it writes, and what it tells at the end of the
\* file or when the library fails.
\*
\* A file is a number of units, some of them damaged.  A decoder is the wrapper
\* (index, the unit index it records) and the library below it (at, the unit it
\* delivers next).  DecodeUnit is given the caller's buffer and unit count: a
\* path that does not write them answers with what it was given.
\*
\* What the encoder plug-ins do with the four calls a conversion makes:
\* OpenOutput, Encode, Flush and CloseOutput.  Two plug-ins of the repository
\* export an encoder: lame, which keeps part of what it is given until it is
\* flushed, and lpcm, which writes through and completes the header of its file
\* when it is closed.
\*
\* An encoder is given whole units.  Its file has room for a number of them; what
\* is written beyond is lost, without the caller being told in time.
EXTENDS Integers, Sequences

CONSTANTS MaxRun,   \* the most units a library that delivers runs returns at once
          MaxHeld   \* the most units lame keeps back

-----------------------------------------------------------------------------
\* Decoders.

\* Plug-ins whose unit is a frame or a block of fixed size, delivered one by one.
Frames == {"mpg123", "alac", "fdk", "lpcm"}

\* Plug-ins whose unit is a sample or a tick, delivered in runs.
Samples == {"flac", "wavpack", "vorbis", "wma", "mac", "coreaudio", "opus"}

Kinds == Frames \cup Samples

Decoder == [kind : Kinds, count : Nat, bad : SUBSET Nat,
            at : Nat, index : Nat, open : BOOLEAN]

Closed(kind, count, bad) ==
    [kind |-> kind, count |-> count, bad |-> bad, at |-> 0, index |-> 0, open |-> FALSE]

Answer(d, buf, n) == [dec |-> d, buf |-> buf, count |-> n]

\* The library can deliver the unit it is at.
CanRead(d) == d.at < d.count /\ d.at \notin d.bad

Forward(d, n) == [d EXCEPT !.at = @ + n, !.index = @ + n]

\* The runs the library may deliver from where it is.
Runs(d) == {n \in 1 .. MaxRun :
              d.at + n <= d.count /\ (d.at .. d.at + n - 1) \cap d.bad = {}}

Units(d, n) == [i \in 1 .. n |-> d.at + i - 1]

Delivered(d) == {Answer(Forward(d, n), Units(d, n), n) : n \in Runs(d)}

-----------------------------------------------------------------------------
\* Open: the answers that may result.  A plug-in that fails after its library
\* has opened the file may leave it so; those that clean up answer as before.

Start(d, at) == [d EXCEPT !.open = TRUE, !.at = at, !.index = 0]
Opened(d) == [dec |-> d, ok |-> TRUE]
Failed(d) == [dec |-> d, ok |-> FALSE]

\* A file without frames is refused, and left open.
OpenMpg123(d) ==
    {Failed(d)} \cup {IF d.count = 0 THEN Failed(Start(d, 0)) ELSE Opened(Start(d, 0))}

\* The first frame is read to learn the format, and dropped.
OpenFlac(d) ==
    {Failed(d), Failed(Start(d, 0)), Opened(Start(d, IF d.count = 0 THEN 0 ELSE 1))}

OpenWavpack(d) == {Failed(d), Failed(Start(d, 0)), Opened(Start(d, 0))}
OpenVorbis(d)  == {Failed(d), Failed(Start(d, 0)), Opened(Start(d, 0))}
OpenAlac(d)    == {Failed(d), Failed(Start(d, 0)), Opened(Start(d, 0))}
OpenFdk(d)     == {Failed(d), Opened(Start(d, 0))}
OpenWma(d)     == {Failed(d), Failed(Start(d, 0)), Opened(Start(d, 0))}
OpenMac(d)     == {Failed(d), Opened(Start(d, 0))}
OpenLpcm(d)    == {Failed(d), Opened(Start(d, 0))}
OpenOpus(d)    == {Failed(d), Opened(Start(d, 0))}

\* A file without packets is refused, and left open.
OpenCoreaudio(d) ==
    {Failed(d), Failed(Start(d, 0))} \cup (IF d.count = 0 THEN {} ELSE {Opened(Start(d, 0))})

-----------------------------------------------------------------------------
\* SetUnitIndex: the decoders that may result.  A library asked to seek in a
\* damaged file may refuse, which only vorbis and wavpack look at.

At(d, i) == [d EXCEPT !.at = i, !.index = i]

SeekMpg123(d, i) == {IF i < d.count THEN At(d, i) ELSE d}

SeekFlac(d, i) == {IF i < d.count THEN At(d, i) ELSE [d EXCEPT !.index = i]}

SeekWavpack(d, i) ==
    (IF i < d.count THEN {At(d, i)} ELSE {d}) \cup (IF d.bad # {} THEN {d} ELSE {})

SeekVorbis(d, i) ==
    (IF i < d.count THEN {At(d, i)} ELSE {d}) \cup (IF d.bad # {} THEN {d} ELSE {})

SeekAlac(d, i) == {At(d, i)}

SeekFdk(d, i) == {At(d, i)}

SeekWma(d, i) == {IF i < d.count THEN At(d, i) ELSE d}

SeekMac(d, i) == {At(d, i)}

\* The packets are read by index; the library has no position of its own.
SeekCoreaudio(d, i) == {IF i < d.count THEN At(d, i) ELSE d}

SeekLpcm(d, i) == {IF i <= d.count THEN At(d, i) ELSE d}

\* The library is moved, the index the end is told by is not.
SeekOpus(d, i) == {IF i < d.count THEN [d EXCEPT !.at = i] ELSE d}

-----------------------------------------------------------------------------
\* DecodeUnit: the answers that may result.

\* A frame that cannot be decoded is a frame without data; past the end the
\* count is not written.
DecodeMpg123(d, buf, n) ==
    {IF d.index >= d.count THEN Answer(d, <<>>, n)
     ELSE Answer(Forward(d, 1), IF d.at \in d.bad THEN <<>> ELSE <<d.at>>, 1)}

\* No check of the end: what the callback did not deliver counts for nothing.
DecodeFlac(d, buf, n) ==
    IF CanRead(d) THEN Delivered(d) ELSE {Answer(d, <<>>, 0)}

DecodeWavpack(d, buf, n) ==
    IF d.index >= d.count THEN {Answer(d, <<>>, d.count)}
    ELSE IF CanRead(d) THEN Delivered(d) ELSE {Answer(d, <<>>, 0)}

\* Neither parameter is written at the end or on an error.
DecodeVorbis(d, buf, n) ==
    IF d.index < d.count /\ CanRead(d) THEN Delivered(d) ELSE {Answer(d, buf, n)}

DecodeAlac(d, buf, n) ==
    {IF CanRead(d) THEN Answer(Forward(d, 1), <<d.at>>, 1) ELSE Answer(d, buf, n)}

\* A sample that cannot be read or decoded is tried again at the next call.
DecodeFdk(d, buf, n) ==
    {IF CanRead(d) THEN Answer(Forward(d, 1), <<d.at>>, 1) ELSE Answer(d, buf, n)}

\* A packet that cannot be decoded counts, without data; the end counts for
\* the whole file.
DecodeWma(d, buf, n) ==
    IF d.index < d.count /\ d.at < d.count
    THEN IF CanRead(d) THEN Delivered(d) ELSE {Answer(Forward(d, 1), <<>>, 1)}
    ELSE {Answer([d EXCEPT !.index = d.count], <<>>, d.count)}

\* The end and any error count for the whole file.
DecodeMac(d, buf, n) ==
    IF d.index < d.count /\ CanRead(d) THEN Delivered(d)
    ELSE {Answer([d EXCEPT !.index = d.count], <<>>, d.count)}

\* The end, and a packet that cannot be read, count for nothing.
DecodeCoreaudio(d, buf, n) ==
    IF d.index < d.count /\ CanRead(d) THEN Delivered(d) ELSE {Answer(d, <<>>, 0)}

\* Any read counts for one block, and the index stays where the last seek put it.
DecodeLpcm(d, buf, n) ==
    {IF d.at < d.count THEN Answer([d EXCEPT !.at = @ + 1], <<d.at>>, 1)
     ELSE Answer(d, <<>>, 1)}

\* The end counts for nothing.
DecodeOpus(d, buf, n) ==
    IF d.index < d.count /\ CanRead(d) THEN Delivered(d) ELSE {Answer(d, <<>>, 0)}

-----------------------------------------------------------------------------
\* The interface the engine calls them through.

Open(d) ==
    CASE d.kind = "mpg123"  -> OpenMpg123(d)
      [] d.kind = "flac"    -> OpenFlac(d)
      [] d.kind = "wavpack" -> OpenWavpack(d)
      [] d.kind = "vorbis"  -> OpenVorbis(d)
      [] d.kind = "alac"    -> OpenAlac(d)
      [] d.kind = "fdk"     -> OpenFdk(d)
      [] d.kind = "wma"     -> OpenWma(d)
      [] d.kind = "mac"     -> OpenMac(d)
      [] d.kind = "lpcm"    -> OpenLpcm(d)
      [] d.kind = "opus"    -> OpenOpus(d)
      [] d.kind = "coreaudio" -> OpenCoreaudio(d)

SetUnitIndex(d, i) ==
    CASE d.kind = "mpg123"  -> SeekMpg123(d, i)
      [] d.kind = "flac"    -> SeekFlac(d, i)
      [] d.kind = "wavpack" -> SeekWavpack(d, i)
      [] d.kind = "vorbis"  -> SeekVorbis(d, i)
      [] d.kind = "alac"    -> SeekAlac(d, i)
      [] d.kind = "fdk"     -> SeekFdk(d, i)
      [] d.kind = "wma"     -> SeekWma(d, i)
      [] d.kind = "mac"     -> SeekMac(d, i)
      [] d.kind = "lpcm"    -> SeekLpcm(d, i)
      [] d.kind = "opus"    -> SeekOpus(d, i)
      [] d.kind = "coreaudio" -> SeekCoreaudio(d, i)

DecodeUnit(d, buf, n) ==
    CASE d.kind = "mpg123"  -> DecodeMpg123(d, buf, n)
      [] d.kind = "flac"    -> DecodeFlac(d, buf, n)
      [] d.kind = "wavpack" -> DecodeWavpack(d, buf, n)
      [] d.kind = "vorbis"  -> DecodeVorbis(d, buf, n)
      [] d.kind = "alac"    -> DecodeAlac(d, buf, n)
      [] d.kind = "fdk"     -> DecodeFdk(d, buf, n)
      [] d.kind = "wma"     -> DecodeWma(d, buf, n)
      [] d.kind = "mac"     -> DecodeMac(d, buf, n)
      [] d.kind = "lpcm"    -> DecodeLpcm(d, buf, n)
      [] d.kind = "opus"    -> DecodeOpus(d, buf, n)
      [] d.kind = "coreaudio" -> DecodeCoreaudio(d, buf, n)

Close(d) == [d EXCEPT !.open = FALSE]

-----------------------------------------------------------------------------
\* Encoders.

EncoderKinds == {"lame", "lpcm"}

Encoder == [kind : EncoderKinds, room : Nat, open : BOOLEAN,
            held : Seq(Nat), file : Seq(Nat), full : BOOLEAN, header : Nat]

NoOutput(kind, room) ==
    [kind |-> kind, room |-> room, open |-> FALSE, held |-> <<>>, file |-> <<>>,
     full |-> FALSE, header |-> 0]

\* The file takes the units there is room for.
Written(e, units) ==
    LET all == e.file \o units IN
      IF Len(all) <= e.room THEN [e EXCEPT !.file = all]
      ELSE [e EXCEPT !.file = SubSeq(all, 1, e.room), !.full = TRUE]

-----------------------------------------------------------------------------
\* OpenOutput: the answers that may result.  lame may fail after its file is open.
OpenOutputLame(e) ==
    {[enc |-> e, ok |-> FALSE], [enc |-> [e EXCEPT !.open = TRUE], ok |-> FALSE],
     [enc |-> [e EXCEPT !.open = TRUE], ok |-> TRUE]}

\* The header goes out with the lengths of an empty file.
OpenOutputLpcm(e) ==
    {[enc |-> e, ok |-> FALSE], [enc |-> [e EXCEPT !.open = TRUE, !.header = 0], ok |-> TRUE]}

\* Encode: the encoders that may result.
EncodeLame(e, units) ==
    LET all == e.held \o units IN
      {[Written(e, SubSeq(all, 1, Len(all) - n)) EXCEPT
          !.held = SubSeq(all, Len(all) - n + 1, Len(all))] :
         n \in {k \in 0 .. MaxHeld : k <= Len(all)}}

EncodeLpcm(e, units) == {Written(e, units)}

FlushLame(e) == [Written(e, e.held) EXCEPT !.held = <<>>]

CloseLame(e) == [e EXCEPT !.open = FALSE, !.held = <<>>]

\* The length is where the stream stands; a stream that failed writes nothing.
CloseLpcm(e) ==
    [e EXCEPT !.open = FALSE, !.header = IF e.full THEN @ ELSE Len(e.file)]

-----------------------------------------------------------------------------
\* The interface the engine calls them through.
OpenFile(e) == IF e.kind = "lame" THEN OpenOutputLame(e) ELSE OpenOutputLpcm(e)

Encode(e, units) == IF e.kind = "lame" THEN EncodeLame(e, units) ELSE EncodeLpcm(e, units)

Flush(e) == IF e.kind = "lame" THEN FlushLame(e) ELSE e

CloseOutput(e) == IF e.kind = "lame" THEN CloseLame(e) ELSE CloseLpcm(e)

=============================================================================
