---------------------------- MODULE MCConversion ----------------------------
EXTENDS Conversion

CONSTANTS t1, t2

\* Tracks of a sheet and whole files, intact and damaged, of every plug-in.
Ranges == {Whole} \cup {[has |-> TRUE, beg |-> r[1], end |-> r[2]] :
                           r \in {<<0, 2>>, <<1, 2>>, <<1, NoEnd>>, <<2, NoEnd>>}}

Length(k) == IF k \in Frames THEN 2 ELSE 4

Plenty == 9

\* A conversion to WAV, or to MP3.
Wav(k, count, bad, r) ==
    [kind |-> k, count |-> count, bad |-> bad, range |-> r, to |-> "lpcm", room |-> Plenty]
Mp3(k, count, bad, r) == [Wav(k, count, bad, r) EXCEPT !.to = "lame"]

Every == {Wav(k, Length(k), {}, r) : k \in Kinds, r \in Ranges}

Mp3s == {Mp3(k, Length(k), {}, r) :
           k \in {"mpg123", "vorbis"}, r \in {Whole, [has |-> TRUE, beg |-> 1, end |-> 2]}}

Damaged == {Wav(k, Length(k), {u}, Whole) : k \in Kinds, u \in {0, 1}}

Empty == {Wav(k, 0, {}, Whole) : k \in Kinds}

Full == {[Wav("flac", 4, {}, Whole) EXCEPT !.room = r] : r \in {0, 1}}
          \cup {[Mp3("flac", 4, {}, Whole) EXCEPT !.room = 1]}

Small == {Wav("lpcm", 1, {}, Whole)}

Orders == [t \in Task |-> IF t = t1 THEN Every \cup Damaged \cup Empty \cup Mp3s \cup Full ELSE Small]

=============================================================================
