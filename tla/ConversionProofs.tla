-------------------------- MODULE ConversionProofs --------------------------
(* Proofs about Conversion, for any number of conversions of any items, any   *)
(* plug-ins of those that Codecs has, runs of any length and               *)
(* any number of units kept back: ConversionInv and WholeRange always hold.   *)
(*                                                                            *)
(* IInv says of each conversion of an intact file that the library stands at  *)
(* the unit the loop is at, that the encoder was given the units from the     *)
(* range's first to that one, and how far behind the range the loop can have  *)
(* gone.  Three lemmas say of all eleven decoder plug-ins what that needs of  *)
(* them (Opening, Seeking, Decoding), three of both encoders (Outputting,     *)
(* Encoding, Completing); the steps of the worker use only those.             *)
EXTENDS Conversion, SequenceTheorems, FiniteSetTheorems, TLAPS

(* The file that a decoder is opened with.                                 *)
SameFile(d, i) == d.kind = i.kind /\ d.count = i.count /\ d.bad = i.bad

-----------------------------------------------------------------------------
(* A decoder that was moved is a decoder of the same file.                 *)
LEMMA Moving ==
  ASSUME NEW d \in Decoder, NEW x \in Nat, NEW y \in Nat
  PROVE  /\ [d EXCEPT !.at = x, !.index = y] \in Decoder
         /\ [d EXCEPT !.open = TRUE, !.at = x, !.index = y] \in Decoder
         /\ [d EXCEPT !.at = x] \in Decoder /\ [d EXCEPT !.index = y] \in Decoder
         /\ [d EXCEPT !.open = FALSE] \in Decoder
<1>1. [d EXCEPT !.at = x, !.index = y] \in Decoder
  BY Zenon DEF Decoder
<1>2. [d EXCEPT !.open = TRUE, !.at = x, !.index = y] \in Decoder
  BY Zenon DEF Decoder
<1>3. [d EXCEPT !.at = x] \in Decoder
  BY Zenon DEF Decoder
<1>4. [d EXCEPT !.index = y] \in Decoder
  BY Zenon DEF Decoder
<1>5. [d EXCEPT !.open = FALSE] \in Decoder
  BY Zenon DEF Decoder
<1> QED BY <1>1, <1>2, <1>3, <1>4, <1>5

(* Whatever Open answers, the decoder is of the same file, at its first    *)
(* unit as far as its wrapper knows.                                       *)
LEMMA Opening ==
  ASSUME NEW d \in Decoder, d.index = 0, NEW a \in Open(d)
  PROVE  a.dec \in Decoder /\ SameFile(a.dec, d) /\ a.dec.index = 0
<1> DEFINE Goal == a.dec \in Decoder /\ SameFile(a.dec, d) /\ a.dec.index = 0
<1>1. ASSUME NEW x \in {0, 1} PROVE Start(d, x) \in Decoder /\ SameFile(Start(d, x), d) /\ Start(d, x).index = 0
  <2>1. x \in Nat /\ 0 \in Nat
    BY <1>1
  <2>2. Start(d, x) \in Decoder
    BY <2>1, Moving DEF Start
  <2>3. SameFile(Start(d, x), d) /\ Start(d, x).index = 0
    BY DEF Start, Decoder, SameFile
  <2> QED BY <2>2, <2>3
<1>2. ASSUME NEW x \in {0, 1}, a = Failed(Start(d, x)) \/ a = Opened(Start(d, x)) PROVE Goal
  <2>1. a.dec = Start(d, x)
    BY <1>2 DEF Failed, Opened
  <2> QED BY <1>1, <2>1
<1>3. ASSUME a = Failed(d) PROVE Goal
  BY <1>3 DEF Failed, SameFile
<1>4. a = Failed(d) \/ \E x \in {0, 1} : a = Failed(Start(d, x)) \/ a = Opened(Start(d, x))
  BY DEF Open, OpenMpg123, OpenFlac, OpenWavpack, OpenVorbis, OpenAlac, OpenFdk, OpenWma, OpenMac, OpenLpcm,
         OpenOpus, OpenCoreaudio, Decoder, Kinds, Frames, Samples
<1> QED BY <1>2, <1>3, <1>4

(* In an intact file every plug-in finds a unit that is in it.             *)
LEMMA Seeking ==
  ASSUME NEW d \in Decoder, NEW i \in Nat, NEW e \in SetUnitIndex(d, i)
  PROVE  /\ e \in Decoder /\ SameFile(e, d)
         /\ d.bad = {} /\ d.index = 0 /\ i < d.count => e.at = i /\ e.index <= i
<1> DEFINE Library == [d EXCEPT !.at = i]
           Wrapper == [d EXCEPT !.index = i]
<1>1. e \in {d, At(d, i), Library, Wrapper}
  BY DEF SetUnitIndex, SeekMpg123, SeekFlac, SeekWavpack, SeekVorbis, SeekAlac, SeekFdk, SeekWma, SeekMac,
         SeekCoreaudio, SeekLpcm, SeekOpus, Decoder, Kinds, Frames, Samples
<1>2. ASSUME d.bad = {}, i < d.count PROVE e \in {At(d, i), Library}
  BY <1>2 DEF SetUnitIndex, SeekMpg123, SeekFlac, SeekWavpack, SeekVorbis, SeekAlac, SeekFdk, SeekWma, SeekMac,
         SeekCoreaudio, SeekLpcm, SeekOpus, Decoder, Kinds, Frames, Samples
<1>3. e \in Decoder /\ SameFile(e, d)
  <2>1. At(d, i) \in Decoder /\ Library \in Decoder /\ Wrapper \in Decoder
    BY Moving DEF At
  <2>2. SameFile(d, d) /\ SameFile(At(d, i), d) /\ SameFile(Library, d) /\ SameFile(Wrapper, d)
    BY DEF At, Decoder, SameFile
  <2> QED BY <1>1, <2>1, <2>2
<1>4. /\ At(d, i).at = i /\ At(d, i).index = i
      /\ Library.at = i /\ Library.index = d.index
  BY DEF At, Decoder
<1>5. ASSUME d.bad = {}, d.index = 0, i < d.count PROVE e.at = i /\ e.index <= i
  <2>1. e.at = i /\ (e.index = i \/ e.index = 0)
    BY <1>2, <1>4, <1>5
  <2> QED BY <2>1
<1> QED BY <1>3, <1>5

(* In an intact file every plug-in delivers, from where it is, a run of    *)
(* units that is as long as it counts.                                     *)
LEMMA Decoding ==
  ASSUME NEW d \in Decoder, NEW buf \in Seq(Nat), NEW n \in Nat, NEW a \in DecodeUnit(d, buf, n)
  PROVE  /\ a.dec \in Decoder /\ SameFile(a.dec, d) /\ a.buf \in Seq(Nat) /\ a.count \in Nat
         /\ d.bad = {} /\ d.index <= d.at /\ d.at < d.count =>
              \E m \in 1 .. MaxRun : /\ a.count = m /\ a.buf = Units(d, m)
                                     /\ a.dec.at = d.at + m /\ a.dec.index <= d.at + m
<1> USE ConversionAssumption
<1> DEFINE Typed == a.dec \in Decoder /\ SameFile(a.dec, d) /\ a.buf \in Seq(Nat) /\ a.count \in Nat
           Run(m) == a = Answer(Forward(d, m), Units(d, m), m)
           Next1 == [d EXCEPT !.at = @ + 1]
           End == [d EXCEPT !.index = d.count]
<1>1. \/ \E m \in 1 .. MaxRun : Run(m)
      \/ a \in {Answer(d, <<>>, n), Answer(d, <<>>, 0), Answer(d, <<>>, 1), Answer(d, <<>>, d.count), Answer(d, buf, n)}
      \/ a = Answer(Forward(d, 1), <<>>, 1)
      \/ a \in {Answer(Forward(d, 1), <<d.at>>, 1), Answer(Next1, <<d.at>>, 1)}
      \/ a = Answer(End, <<>>, d.count)
  BY DEF DecodeUnit, DecodeMpg123, DecodeFlac, DecodeWavpack, DecodeVorbis, DecodeAlac, DecodeFdk, DecodeWma,
         DecodeMac, DecodeCoreaudio, DecodeLpcm, DecodeOpus, Delivered, Runs, Decoder, Kinds, Frames, Samples
<1>2. ASSUME d.bad = {}, d.index <= d.at, d.at < d.count
      PROVE  \/ \E m \in 1 .. MaxRun : Run(m)
             \/ a \in {Answer(Forward(d, 1), <<d.at>>, 1), Answer(Next1, <<d.at>>, 1)}
  <2>1. CanRead(d) /\ d.index < d.count /\ d.at \notin d.bad
    BY <1>2 DEF CanRead, Decoder
  <2> QED
    BY <1>2, <2>1 DEF DecodeUnit, DecodeMpg123, DecodeFlac, DecodeWavpack, DecodeVorbis, DecodeAlac, DecodeFdk, DecodeWma,
         DecodeMac, DecodeCoreaudio, DecodeLpcm, DecodeOpus, Delivered, Runs, Decoder, Kinds, Frames, Samples
<1>3. ASSUME NEW m \in Nat PROVE Forward(d, m) \in Decoder /\ SameFile(Forward(d, m), d)
                                 /\ Forward(d, m).at = d.at + m /\ Forward(d, m).index = d.index + m
  <2>1. Forward(d, m) = [d EXCEPT !.at = d.at + m, !.index = d.index + m]
    BY DEF Forward
  <2>2. d.at + m \in Nat /\ d.index + m \in Nat
    BY DEF Decoder
  <2>3. Forward(d, m) \in Decoder
    BY <2>2, Zenon DEF Forward, Decoder
  <2> QED BY <2>1, <2>3 DEF SameFile, Decoder
<1>4. Next1 \in Decoder /\ SameFile(Next1, d) /\ Next1.at = d.at + 1 /\ Next1.index = d.index
  BY DEF Decoder, SameFile
<1>5. End \in Decoder /\ SameFile(End, d)
  BY DEF Decoder, SameFile
<1>6. ASSUME NEW m \in Nat PROVE Units(d, m) \in Seq(Nat)
  BY DEF Units, Decoder
<1>7. Units(d, 1) = <<d.at>> /\ <<d.at>> \in Seq(Nat) /\ d.count \in Nat /\ d.at \in Nat /\ d.index \in Nat
  BY DEF Units, Decoder
<1>8. SameFile(d, d)
  BY DEF SameFile
<1> HIDE DEF Next1, End
<1>9. Typed
  <2>1. ASSUME NEW e \in Decoder, SameFile(e, d), NEW u \in Seq(Nat), NEW k \in Nat, a = Answer(e, u, k) PROVE Typed
    BY <2>1 DEF Answer
  <2> HIDE DEF Typed
  <2>2. ASSUME NEW m \in 1 .. MaxRun, Run(m) PROVE Typed
    <3>1. m \in Nat
      OBVIOUS
    <3> QED BY <1>3, <1>6, <2>1, <2>2, <3>1
  <2>3. <<>> \in Seq(Nat) /\ 0 \in Nat /\ 1 \in Nat
    OBVIOUS
  <2>4. CASE a \in {Answer(d, <<>>, n), Answer(d, <<>>, 0), Answer(d, <<>>, 1), Answer(d, <<>>, d.count), Answer(d, buf, n)}
    BY <1>7, <1>8, <2>1, <2>3, <2>4
  <2>5. CASE a = Answer(Forward(d, 1), <<>>, 1) \/ a \in {Answer(Forward(d, 1), <<d.at>>, 1), Answer(Next1, <<d.at>>, 1)}
    BY <1>3, <1>4, <1>7, <2>1, <2>3, <2>5
  <2>6. CASE a = Answer(End, <<>>, d.count)
    BY <1>5, <1>7, <2>1, <2>3, <2>6
  <2> QED BY <1>1, <2>2, <2>4, <2>5, <2>6
<1>10. ASSUME d.bad = {}, d.index <= d.at, d.at < d.count
       PROVE  \E m \in 1 .. MaxRun : /\ a.count = m /\ a.buf = Units(d, m)
                                     /\ a.dec.at = d.at + m /\ a.dec.index <= d.at + m
  <2>1. ASSUME NEW e, NEW k \in 1 .. MaxRun, a = Answer(e, Units(d, k), k), e.at = d.at + k, e.index <= d.at + k
        PROVE  \E m \in 1 .. MaxRun : /\ a.count = m /\ a.buf = Units(d, m)
                                       /\ a.dec.at = d.at + m /\ a.dec.index <= d.at + m
    <3>1. a.count = k /\ a.buf = Units(d, k) /\ a.dec = e
      BY <2>1 DEF Answer
    <3> QED BY <2>1, <3>1
  <2>2. ASSUME NEW m \in 1 .. MaxRun, Run(m)
        PROVE  \E k \in 1 .. MaxRun : /\ a.count = k /\ a.buf = Units(d, k)
                                       /\ a.dec.at = d.at + k /\ a.dec.index <= d.at + k
    <3>1. m \in Nat
      OBVIOUS
    <3>2. Forward(d, m).at = d.at + m /\ Forward(d, m).index = d.index + m
      BY <1>3, <3>1
    <3>3. d.index + m <= d.at + m
      BY <1>7, <1>10, <3>1
    <3> QED BY <2>1, <2>2, <3>2, <3>3
  <2>3. 1 \in 1 .. MaxRun /\ 1 \in Nat
    BY DEF ConversionAssumption
  <2>4. /\ Forward(d, 1).at = d.at + 1 /\ Forward(d, 1).index <= d.at + 1
        /\ Next1.at = d.at + 1 /\ Next1.index <= d.at + 1
    <3>1. Forward(d, 1).at = d.at + 1 /\ Forward(d, 1).index = d.index + 1
      BY <1>3, <2>3
    <3>2. d.index + 1 <= d.at + 1 /\ d.index <= d.at + 1
      BY <1>7, <1>10
    <3> QED BY <1>4, <3>1, <3>2
  <2>5. ASSUME a \in {Answer(Forward(d, 1), <<d.at>>, 1), Answer(Next1, <<d.at>>, 1)}
        PROVE  \E m \in 1 .. MaxRun : /\ a.count = m /\ a.buf = Units(d, m)
                                       /\ a.dec.at = d.at + m /\ a.dec.index <= d.at + m
    <3>1. CASE a = Answer(Forward(d, 1), Units(d, 1), 1)
      BY <2>1, <2>3, <2>4, <3>1
    <3>2. CASE a = Answer(Next1, Units(d, 1), 1)
      BY <2>1, <2>3, <2>4, <3>2
    <3> QED BY <1>7, <2>5, <3>1, <3>2
  <2> QED BY <1>2, <1>10, <2>2, <2>5
<1> QED BY <1>9, <1>10

-----------------------------------------------------------------------------
(* Units one after the other.                                              *)
Consecutive(s, b) == \A k \in 1 .. Len(s) : s[k] = b + k - 1

(* What follows them goes on with the next.                                *)
LEMMA Joined ==
  ASSUME NEW s \in Seq(Nat), NEW t \in Seq(Nat), NEW b \in Nat
  PROVE  /\ s \o t \in Seq(Nat) /\ Len(s \o t) = Len(s) + Len(t)
         /\ Consecutive(s, b) => \A k \in 1 .. Len(s) : (s \o t)[k] = b + k - 1
         /\ Consecutive(s, b) /\ Consecutive(t, b + Len(s)) => Consecutive(s \o t, b)
<1>1. /\ s \o t \in Seq(Nat) /\ Len(s \o t) = Len(s) + Len(t)
      /\ \A k \in 1 .. Len(s) + Len(t) : (s \o t)[k] = IF k <= Len(s) THEN s[k] ELSE t[k - Len(s)]
  BY ConcatProperties
<1> DEFINE q == s \o t
<1>2. Len(s) \in Nat /\ Len(t) \in Nat
  OBVIOUS
<1> HIDE DEF q
<1>3. ASSUME Consecutive(s, b), NEW k \in 1 .. Len(s) PROVE q[k] = b + k - 1
  <2>1. q[k] = s[k]
    BY <1>1, <1>2 DEF q
  <2> QED BY <1>3, <2>1 DEF Consecutive
<1>4. ASSUME Consecutive(s, b), Consecutive(t, b + Len(s)) PROVE Consecutive(q, b)
  <2>1. Len(q) = Len(s) + Len(t)
    BY <1>1 DEF q
  <2> SUFFICES ASSUME NEW k \in 1 .. Len(s) + Len(t) PROVE q[k] = b + k - 1
    BY <2>1 DEF Consecutive
  <2>2. CASE k <= Len(s)
    BY <1>2, <1>3, <1>4, <2>2
  <2>3. CASE ~(k <= Len(s))
    <3>1. k - Len(s) \in 1 .. Len(t)
      BY <1>2, <2>3
    <3>2. q[k] = t[k - Len(s)]
      BY <1>1, <2>3 DEF q
    <3>3. t[k - Len(s)] = (b + Len(s)) + (k - Len(s)) - 1
      BY <1>4, <3>1 DEF Consecutive
    <3> QED BY <1>2, <3>2, <3>3
  <2> QED BY <2>2, <2>3
<1> QED BY <1>1, <1>3, <1>4 DEF q

(* A part of them, and what is behind it.                                  *)
LEMMA Cut ==
  ASSUME NEW s \in Seq(Nat), NEW m \in 0 .. Len(s), NEW b \in Nat
  PROVE  /\ SubSeq(s, 1, m) \in Seq(Nat) /\ Len(SubSeq(s, 1, m)) = m
         /\ SubSeq(s, m + 1, Len(s)) \in Seq(Nat) /\ Len(SubSeq(s, m + 1, Len(s))) = Len(s) - m
         /\ \A k \in 1 .. m : SubSeq(s, 1, m)[k] = s[k]
         /\ Consecutive(s, b) => /\ Consecutive(SubSeq(s, 1, m), b)
                                 /\ Consecutive(SubSeq(s, m + 1, Len(s)), b + m)
<1> DEFINE p == SubSeq(s, 1, m)
           q == SubSeq(s, m + 1, Len(s))
<1>1. m \in Nat /\ Len(s) \in Nat /\ m <= Len(s)
  OBVIOUS
<1>2. p \in Seq(Nat) /\ Len(p) = m /\ \A k \in 1 .. m : p[k] = s[k]
  OBVIOUS
<1>3. q \in Seq(Nat) /\ Len(q) = Len(s) - m /\ \A k \in 1 .. Len(s) - m : q[k] = s[m + k]
  OBVIOUS
<1> HIDE DEF p, q
<1>4. ASSUME Consecutive(s, b) PROVE Consecutive(p, b) /\ Consecutive(q, b + m)
  <2>1. ASSUME NEW k \in 1 .. m PROVE p[k] = b + k - 1
    BY <1>1, <1>2, <1>4 DEF Consecutive
  <2>2. ASSUME NEW k \in 1 .. Len(s) - m PROVE q[k] = (b + m) + k - 1
    <3>1. m + k \in 1 .. Len(s)
      BY <1>1
    <3>2. q[k] = s[m + k] /\ s[m + k] = b + (m + k) - 1
      BY <1>3, <1>4, <3>1 DEF Consecutive
    <3> QED BY <1>1, <3>2
  <2> QED BY <1>2, <1>3, <2>1, <2>2 DEF Consecutive
<1> QED BY <1>2, <1>3, <1>4 DEF p, q

-----------------------------------------------------------------------------
(* The encoders.                                                           *)

(* An encoder in any of its changes is an encoder.                         *)
LEMMA Changing ==
  ASSUME NEW e \in Encoder, NEW x \in Seq(Nat), NEW h \in Nat
  PROVE  /\ [e EXCEPT !.file = x] \in Encoder /\ [e EXCEPT !.held = x] \in Encoder
         /\ [e EXCEPT !.file = x, !.full = TRUE] \in Encoder
         /\ [e EXCEPT !.open = TRUE] \in Encoder /\ [e EXCEPT !.open = TRUE, !.header = h] \in Encoder
         /\ [e EXCEPT !.open = FALSE, !.held = x] \in Encoder
         /\ [e EXCEPT !.open = FALSE, !.header = h] \in Encoder
<1>1. [e EXCEPT !.file = x] \in Encoder /\ [e EXCEPT !.held = x] \in Encoder
  BY Zenon DEF Encoder
<1>2. [e EXCEPT !.file = x, !.full = TRUE] \in Encoder
  BY Zenon DEF Encoder
<1>3. [e EXCEPT !.open = TRUE] \in Encoder /\ [e EXCEPT !.open = TRUE, !.header = h] \in Encoder
  BY Zenon DEF Encoder
<1>4. [e EXCEPT !.open = FALSE, !.held = x] \in Encoder
  BY Zenon DEF Encoder
<1>5. [e EXCEPT !.open = FALSE, !.header = h] \in Encoder
  BY Zenon DEF Encoder
<1> QED BY <1>1, <1>2, <1>3, <1>4, <1>5

(* What is written follows what the file holds, as far as there is room.   *)
LEMMA Writing ==
  ASSUME NEW e \in Encoder, NEW u \in Seq(Nat), NEW b \in Nat, NEW w, w = Written(e, u)
  PROVE  /\ w \in Encoder /\ w.kind = e.kind /\ w.held = e.held
         /\ Consecutive(e.file, b) /\ (e.full => Len(e.file) = e.room)
               /\ (~e.full => Consecutive(u, b + Len(e.file))) =>
              /\ Consecutive(w.file, b) /\ (w.full => Len(w.file) = w.room)
              /\ ~w.full => ~e.full /\ Len(w.file) = Len(e.file) + Len(u)
<1> DEFINE a == e.file \o u
           v == SubSeq(a, 1, e.room)
<1>1. e.file \in Seq(Nat) /\ e.room \in Nat /\ Len(e.file) \in Nat /\ Len(u) \in Nat
  BY DEF Encoder
<1>2. /\ a \in Seq(Nat) /\ Len(a) = Len(e.file) + Len(u)
      /\ Consecutive(e.file, b) => \A k \in 1 .. Len(e.file) : a[k] = b + k - 1
      /\ Consecutive(e.file, b) /\ Consecutive(u, b + Len(e.file)) => Consecutive(a, b)
  BY <1>1, Joined
<1> HIDE DEF a
<1>3. CASE Len(a) <= e.room
  <2>1. w = [e EXCEPT !.file = a]
    BY <1>3 DEF Written, a
  <2>2. w \in Encoder
    BY <1>2, <2>1, Changing
  <2>3. w.kind = e.kind /\ w.held = e.held /\ w.file = a /\ w.room = e.room /\ w.full = e.full
    BY <2>1 DEF Encoder
  <2>4. ASSUME Consecutive(e.file, b), e.full, Len(e.file) = e.room
        PROVE  Consecutive(w.file, b) /\ Len(w.file) = w.room
    BY <1>1, <1>2, <1>3, <2>3, <2>4 DEF Consecutive
  <2>5. ASSUME Consecutive(e.file, b), ~e.full, Consecutive(u, b + Len(e.file))
        PROVE  Consecutive(w.file, b) /\ Len(w.file) = Len(e.file) + Len(u)
    BY <1>2, <2>3, <2>5
  <2> QED BY <2>2, <2>3, <2>4, <2>5
<1>4. CASE ~(Len(a) <= e.room)
  <2>1. w = [e EXCEPT !.file = v, !.full = TRUE]
    BY <1>4 DEF Written, a
  <2>2. /\ v \in Seq(Nat) /\ Len(v) = e.room /\ \A k \in 1 .. e.room : v[k] = a[k]
        /\ Consecutive(a, b) => Consecutive(v, b)
    <3>1. e.room \in 0 .. Len(a)
      BY <1>1, <1>2, <1>4
    <3> QED BY <1>2, <3>1, Cut
  <2> HIDE DEF v
  <2>3. w \in Encoder
    BY <2>1, <2>2, Changing
  <2>4. w.kind = e.kind /\ w.held = e.held /\ w.file = v /\ w.room = e.room
    BY <2>1 DEF Encoder
  <2>5. w.full
    BY <2>1 DEF Encoder
  <2>6. ASSUME Consecutive(e.file, b), e.full, Len(e.file) = e.room
        PROVE  Consecutive(w.file, b)
    BY <1>2, <2>2, <2>4, <2>6 DEF Consecutive
  <2>7. ASSUME Consecutive(e.file, b), ~e.full, Consecutive(u, b + Len(e.file))
        PROVE  Consecutive(w.file, b)
    BY <1>2, <2>2, <2>4, <2>7
  <2>8. Len(w.file) = w.room
    BY <2>2, <2>4
  <2> QED BY <2>3, <2>4, <2>5, <2>6, <2>7, <2>8
<1> QED BY <1>3, <1>4

(* The encoder has been given the n units from b on: those that its file   *)
(* does not hold are kept back, or the disk was full.                      *)
InPlace(e, b, n) ==
  /\ Consecutive(e.file, b)
  /\ e.full => Len(e.file) = e.room
  /\ ~e.full => Len(e.file) + Len(e.held) = n /\ Consecutive(e.held, b + Len(e.file))
  /\ e.kind # "lame" => e.held = <<>>

(* An encoder that is given the next units keeps them in place.            *)
LEMMA Encoding ==
  ASSUME NEW e \in Encoder, NEW u \in Seq(Nat), NEW f \in Encode(e, u), NEW b \in Nat, NEW n \in Nat
  PROVE  /\ f \in Encoder /\ f.kind = e.kind
         /\ InPlace(e, b, n) /\ Consecutive(u, b + n) => InPlace(f, b, n + Len(u))
<1>1. /\ e.held \in Seq(Nat) /\ e.file \in Seq(Nat) /\ Len(e.held) \in Nat /\ Len(e.file) \in Nat
      /\ Len(u) \in Nat
  BY DEF Encoder
<1>2. CASE e.kind = "lame"
  <2> DEFINE a == e.held \o u
  <2>1. a \in Seq(Nat) /\ Len(a) = Len(e.held) + Len(u)
    BY <1>1, Joined
  <2>2. PICK m \in 0 .. MaxHeld :
          m <= Len(a) /\ f = [Written(e, SubSeq(a, 1, Len(a) - m)) EXCEPT !.held = SubSeq(a, Len(a) - m + 1, Len(a))]
    BY <1>2 DEF Encode, EncodeLame
  <2> DEFINE j == Len(a) - m
             x == SubSeq(a, 1, j)
             y == SubSeq(a, j + 1, Len(a))
             w == Written(e, x)
             before == b + Len(e.file)
  <2>3. m \in Nat /\ j \in 0 .. Len(a) /\ before \in Nat
    <3>1. m \in Nat
      BY ConversionAssumption DEF ConversionAssumption
    <3>2. Len(a) \in Nat /\ m <= Len(a)
      BY <2>1, <2>2
    <3> QED BY <1>1, <3>1, <3>2
  <2>4. f = [w EXCEPT !.held = y]
    BY <2>2
  <2> HIDE DEF a, j
  <2>5. /\ x \in Seq(Nat) /\ Len(x) = j /\ y \in Seq(Nat) /\ Len(y) = Len(a) - j
        /\ Consecutive(a, before) => Consecutive(x, before) /\ Consecutive(y, before + j)
    BY <2>1, <2>3, Cut
  <2> HIDE DEF x, y
  <2>6. /\ w \in Encoder /\ w.kind = e.kind /\ w.held = e.held
        /\ Consecutive(e.file, b) /\ (e.full => Len(e.file) = e.room)
               /\ (~e.full => Consecutive(x, before)) =>
              /\ Consecutive(w.file, b) /\ (w.full => Len(w.file) = w.room)
              /\ ~w.full => ~e.full /\ Len(w.file) = Len(e.file) + Len(x)
    <3> DEFINE V == Written(e, x)
    <3>1. V = Written(e, x) /\ x \in Seq(Nat)
      BY <2>5
    <3> HIDE DEF V
    <3>2. /\ V \in Encoder /\ V.kind = e.kind /\ V.held = e.held
          /\ Consecutive(e.file, b) /\ (e.full => Len(e.file) = e.room)
               /\ (~e.full => Consecutive(x, b + Len(e.file))) =>
              /\ Consecutive(V.file, b) /\ (V.full => Len(V.file) = V.room)
              /\ ~V.full => ~e.full /\ Len(V.file) = Len(e.file) + Len(x)
      BY <3>1, Writing
    <3> QED BY <3>2 DEF V
  <2> HIDE DEF w
  <2>7. f \in Encoder
    BY <2>4, <2>5, <2>6, Changing
  <2>8. f.kind = w.kind /\ f.file = w.file /\ f.room = w.room /\ f.held = y
    BY <2>4, <2>6 DEF Encoder
  <2>9. f.full = w.full
    BY <2>4, <2>6 DEF Encoder
  <2>10. ASSUME InPlace(e, b, n), Consecutive(u, b + n) PROVE InPlace(f, b, n + Len(u))
    <3>1. Consecutive(e.file, b) /\ (e.full => Len(e.file) = e.room)
      BY <2>10 DEF InPlace
    <3>2. ASSUME ~e.full PROVE /\ n = Len(e.file) + Len(e.held) /\ Consecutive(a, before)
                               /\ Consecutive(x, before) /\ Consecutive(y, before + j)
      <4>1. n = Len(e.file) + Len(e.held) /\ Consecutive(e.held, before)
        BY <2>10, <3>2 DEF InPlace
      <4>2. b + n = before + Len(e.held)
        <5> DEFINE p == Len(e.file)
                   q == Len(e.held)
        <5>1. n = p + q /\ before = b + p /\ p \in Nat /\ q \in Nat
          BY <1>1, <4>1
        <5> HIDE DEF p, q, before
        <5>2. b + n = before + q
          BY <5>1
        <5> QED BY <5>2 DEF q
      <4>3. Consecutive(u, before + Len(e.held))
        BY <2>10, <4>2
      <4>4. Consecutive(a, before)
        BY <1>1, <2>3, <4>1, <4>3, Joined DEF a
      <4> QED BY <2>5, <4>1, <4>4
    <3>3. /\ Consecutive(w.file, b) /\ (w.full => Len(w.file) = w.room)
          /\ ~w.full => ~e.full /\ Len(w.file) = Len(e.file) + Len(x)
      BY <2>6, <3>1, <3>2
    <3>4. ASSUME ~f.full PROVE Len(f.file) + Len(f.held) = n + Len(u) /\ Consecutive(f.held, b + Len(f.file))
      <4>1. ~w.full
        BY <2>9, <3>4
      <4>2. n = Len(e.file) + Len(e.held) /\ Consecutive(y, before + j) /\ Len(w.file) = Len(e.file) + Len(x)
        BY <3>2, <3>3, <4>1
      <4>3. before + j = b + Len(f.file)
        BY <1>1, <2>1, <2>3, <2>5, <2>8, <4>2
      <4>4. Len(f.file) + Len(f.held) = n + Len(u)
        <5> DEFINE p == Len(e.file)
                   q == Len(e.held)
                   l == Len(u)
                   r == Len(a)
        <5>1. Len(f.file) = p + j /\ Len(f.held) = r - j /\ r = q + l /\ n = p + q
          BY <2>1, <2>5, <2>8, <4>2
        <5>2. p \in Nat /\ q \in Nat /\ l \in Nat /\ j \in Int
          BY <1>1, <2>1, <2>3
        <5> HIDE DEF p, q, l, r
        <5>3. (p + j) + (r - j) = n + l
          BY <5>1, <5>2
        <5> QED BY <5>1, <5>3 DEF l
      <4> QED BY <2>8, <4>2, <4>3, <4>4
    <3>5. Consecutive(f.file, b) /\ (f.full => Len(f.file) = f.room)
      BY <2>8, <2>9, <3>3
    <3>6. f.kind = "lame"
      BY <1>2, <2>6, <2>8
    <3> QED BY <3>4, <3>5, <3>6 DEF InPlace
  <2> QED BY <2>6, <2>7, <2>8, <2>10
<1>3. CASE e.kind # "lame"
  <2>1. f = Written(e, u)
    BY <1>3 DEF Encode, EncodeLpcm
  <2>2. /\ f \in Encoder /\ f.kind = e.kind /\ f.held = e.held
        /\ Consecutive(e.file, b) /\ (e.full => Len(e.file) = e.room)
               /\ (~e.full => Consecutive(u, b + Len(e.file))) =>
              /\ Consecutive(f.file, b) /\ (f.full => Len(f.file) = f.room)
              /\ ~f.full => ~e.full /\ Len(f.file) = Len(e.file) + Len(u)
    BY <2>1, Writing
  <2>3. ASSUME InPlace(e, b, n), Consecutive(u, b + n) PROVE InPlace(f, b, n + Len(u))
    <3>1. e.held = <<>> /\ Consecutive(e.file, b) /\ (e.full => Len(e.file) = e.room)
      BY <1>3, <2>3 DEF InPlace
    <3>2. ~e.full => n = Len(e.file)
      BY <1>1, <2>3, <3>1 DEF InPlace
    <3>3. ~e.full => Consecutive(u, b + Len(e.file))
      BY <2>3, <3>2
    <3>4. /\ Consecutive(f.file, b) /\ (f.full => Len(f.file) = f.room)
          /\ ~f.full => Len(f.file) = n + Len(u)
      BY <2>2, <3>1, <3>2, <3>3
    <3>5. Len(f.held) = 0 /\ f.held = <<>>
      BY <2>2, <3>1
    <3>6. ASSUME ~f.full PROVE Len(f.file) + Len(f.held) = n + Len(u)
      BY <1>1, <3>4, <3>5, <3>6
    <3>7. ASSUME NEW x PROVE Consecutive(f.held, x)
      BY <3>5 DEF Consecutive
    <3> QED BY <3>4, <3>5, <3>6, <3>7 DEF InPlace
  <2> QED BY <2>2, <2>3
<1> QED BY <1>2, <1>3

(* Flushed and closed: the file holds them all, and its header says so.    *)
LEMMA Completing ==
  ASSUME NEW e \in Encoder, NEW f, f = CloseOutput(Flush(e)), NEW b \in Nat, NEW n \in Nat
  PROVE  /\ f \in Encoder /\ f.kind = e.kind
         /\ f.kind = "lpcm" /\ ~f.full => f.header = Len(f.file)
         /\ InPlace(e, b, n) => Consecutive(f.file, b) /\ (~f.full => Len(f.file) = n)
<1>1. e.held \in Seq(Nat) /\ e.file \in Seq(Nat) /\ Len(e.held) \in Nat /\ Len(e.file) \in Nat /\ <<>> \in Seq(Nat)
  BY DEF Encoder
<1>2. CASE e.kind = "lame"
  <2> DEFINE w == Written(e, e.held)
             g == [w EXCEPT !.held = <<>>]
  <2>1. /\ w \in Encoder /\ w.kind = e.kind /\ w.held = e.held
        /\ Consecutive(e.file, b) /\ (e.full => Len(e.file) = e.room)
               /\ (~e.full => Consecutive(e.held, b + Len(e.file))) =>
              /\ Consecutive(w.file, b) /\ (w.full => Len(w.file) = w.room)
              /\ ~w.full => ~e.full /\ Len(w.file) = Len(e.file) + Len(e.held)
    <3> DEFINE x == e.held
               V == Written(e, x)
    <3>1. V = Written(e, x) /\ x \in Seq(Nat)
      BY <1>1
    <3> HIDE DEF V, x
    <3>2. /\ V \in Encoder /\ V.kind = e.kind /\ V.held = e.held
          /\ Consecutive(e.file, b) /\ (e.full => Len(e.file) = e.room)
               /\ (~e.full => Consecutive(x, b + Len(e.file))) =>
              /\ Consecutive(V.file, b) /\ (V.full => Len(V.file) = V.room)
              /\ ~V.full => ~e.full /\ Len(V.file) = Len(e.file) + Len(x)
      BY <3>1, Writing
    <3> QED BY <3>2 DEF V, x
  <2>2. g = Flush(e)
    BY <1>2 DEF Flush, FlushLame
  <2> HIDE DEF w
  <2>3. g \in Encoder /\ g.kind = "lame" /\ g.file = w.file
    BY <1>1, <1>2, <2>1, Changing DEF Encoder
  <2>4. g.full = w.full
    BY <2>1 DEF Encoder
  <2> HIDE DEF g
  <2>5. f = [g EXCEPT !.open = FALSE, !.held = <<>>]
    BY <2>2, <2>3 DEF CloseOutput, CloseLame
  <2>6. f \in Encoder
    BY <1>1, <2>3, <2>5, Zenon DEF Encoder
  <2>7. f.kind = "lame" /\ f.file = w.file
    BY <2>3, <2>5 DEF Encoder
  <2>8. f.full = w.full
    BY <2>3, <2>4, <2>5 DEF Encoder
  <2>9. InPlace(e, b, n) => Consecutive(w.file, b) /\ (~w.full => Len(w.file) = n)
    BY <2>1 DEF InPlace
  <2> QED BY <1>2, <2>6, <2>7, <2>8, <2>9
<1>3. CASE e.kind # "lame"
  <2>1. f = [e EXCEPT !.open = FALSE, !.header = IF e.full THEN e.header ELSE Len(e.file)]
    BY <1>3 DEF Flush, CloseOutput, CloseLpcm
  <2> DEFINE h == IF e.full THEN e.header ELSE Len(e.file)
  <2>2. h \in Nat
    BY <1>1 DEF Encoder
  <2>3. f = [e EXCEPT !.open = FALSE, !.header = h]
    BY <2>1
  <2> HIDE DEF h
  <2>4. f \in Encoder
    BY <2>2, <2>3, Zenon DEF Encoder
  <2>5. f.kind = e.kind /\ f.file = e.file /\ f.header = h
    BY <2>3 DEF Encoder
  <2>6. f.full = e.full
    BY <2>3 DEF Encoder
  <2>7. ~f.full => f.header = Len(f.file)
    BY <2>5, <2>6 DEF h
  <2>8. ASSUME InPlace(e, b, n) PROVE Consecutive(f.file, b) /\ (~f.full => Len(f.file) = n)
    <3>1. Consecutive(e.file, b) /\ e.held = <<>> /\ (~e.full => Len(e.file) + Len(e.held) = n)
      BY <1>3, <2>8 DEF InPlace
    <3>2. Len(e.held) = 0
      BY <3>1
    <3>3. ~e.full => Len(e.file) = n
      BY <1>1, <3>1, <3>2
    <3> QED BY <2>5, <2>6, <3>1, <3>3
  <2> QED BY <2>4, <2>5, <2>7, <2>8
<1> QED BY <1>2, <1>3

Blank(e) == e.file = <<>> /\ e.held = <<>> /\ ~e.full

(* An output that is opened is empty, whether it can be opened or not.     *)
LEMMA Outputting ==
  ASSUME NEW e \in Encoder, Blank(e), NEW a \in OpenFile(e)
  PROVE  a.enc \in Encoder /\ Blank(a.enc) /\ a.enc.kind = e.kind
<1> DEFINE x == [e EXCEPT !.open = TRUE]
           y == [e EXCEPT !.open = TRUE, !.header = 0]
<1>1. \/ a = [enc |-> e, ok |-> FALSE] \/ a = [enc |-> x, ok |-> FALSE] \/ a = [enc |-> x, ok |-> TRUE]
      \/ a = [enc |-> y, ok |-> TRUE]
  BY DEF OpenFile, OpenOutputLame, OpenOutputLpcm
<1>2. x \in Encoder /\ y \in Encoder
  <2>1. 0 \in Nat /\ <<>> \in Seq(Nat)
    OBVIOUS
  <2> QED BY <2>1, Zenon DEF Encoder
<1>3. x.kind = e.kind /\ y.kind = e.kind /\ x.file = e.file /\ y.file = e.file /\ x.held = e.held /\ y.held = e.held
  BY DEF Encoder
<1>4. x.full = e.full /\ y.full = e.full
  BY DEF Encoder
<1>5. Blank(x) /\ Blank(y)
  BY <1>3, <1>4 DEF Blank
<1> HIDE DEF x, y
<1>6. a.enc \in {e, x, y}
  BY <1>1
<1> QED BY <1>2, <1>3, <1>5, <1>6

-----------------------------------------------------------------------------
(* The range of an item.                                                   *)

(* It lies in the file; and it is what the user asked for, but for an open *)
(* end in frames.                                                          *)
LEMMA Ranges ==
  ASSUME NEW i \in Item
  PROVE  /\ UnitBeg(i) \in Nat /\ UnitEnd(i) \in Nat /\ LastUnit(i) \in Nat /\ i.count \in Nat
         /\ UnitBeg(i) <= i.count /\ UnitEnd(i) <= i.count
         /\ ~OpenEnded(i) => UnitEnd(i) = LastUnit(i)
<1>1. i.count \in Nat /\ i.range \in Extent
  BY DEF Item
<1>2. CASE i.range = Whole
  BY <1>1, <1>2 DEF UnitBeg, UnitEnd, LastUnit, Whole
<1>3. CASE i.range \in [has : {TRUE}, beg : Nat, end : Nat \cup {NoEnd}]
  <2>1. i.range.beg \in Nat /\ (i.range.end \in Nat \/ i.range.end = NoEnd)
    BY <1>3
  <2>2. i.range.has
    BY <1>3
  <2>3. ASSUME NEW k, NEW ms \in Nat PROVE UnitsOf(k, ms) \in Nat
    <3>1. ms \div 2 \in Nat /\ 2 * ms \in Nat
      OBVIOUS
    <3> QED BY <3>1 DEF UnitsOf
  <2>4. ASSUME NEW x \in Nat, NEW y \in Nat PROVE Least(x, y) \in Nat /\ Least(x, y) <= y
    BY DEF Least
  <2>5. UnitBeg(i) \in Nat /\ UnitBeg(i) <= i.count
    BY <1>1, <2>1, <2>2, <2>3, <2>4 DEF UnitBeg
  <2> DEFINE last == IF i.range.end # NoEnd THEN i.range.end ELSE i.count
  <2>6. last \in Nat
    BY <1>1, <2>1
  <2>7. UnitEnd(i) = Least(UnitsOf(i.kind, last), i.count)
    BY <2>2 DEF UnitEnd
  <2>8. UnitEnd(i) \in Nat /\ UnitEnd(i) <= i.count
    <3> HIDE DEF last
    <3> QED BY <1>1, <2>3, <2>4, <2>6, <2>7
  <2>9. CASE i.range.end # NoEnd
    <3>1. LastUnit(i) = UnitEnd(i)
      BY <2>2, <2>7, <2>9 DEF LastUnit
    <3> QED BY <1>1, <2>5, <2>8, <3>1
  <2>10. CASE i.range.end = NoEnd
    <3>1. LastUnit(i) = i.count
      BY <2>2, <2>10 DEF LastUnit
    <3>2. ASSUME ~OpenEnded(i) PROVE UnitEnd(i) = i.count
      <4>1. i.kind \notin Frames
        BY <2>2, <2>10, <3>2 DEF OpenEnded
      <4>2. UnitEnd(i) = Least(2 * i.count, i.count)
        BY <2>7, <2>10, <4>1 DEF UnitsOf
      <4> QED BY <1>1, <4>2 DEF Least
    <3> QED BY <1>1, <2>5, <2>8, <3>1, <3>2
  <2> QED BY <2>9, <2>10
<1> QED BY <1>1, <1>2, <1>3 DEF Extent

-----------------------------------------------------------------------------
(* The inductive invariant.                                                *)

Stage == {"none", "open", "output", "seek", "loop", "close", "finish", "exit", "joinable"}

Conv == [pc : Stage, item : Item, dec : Decoder, enc : Encoder, off : Nat, buf : Seq(Nat), cnt : Nat,
         failed : BOOLEAN, finished : BOOLEAN, canceled : BOOLEAN]

(* The worker came to its end by way of the loop.                          *)
Done(c) == c.pc \in {"finish", "exit", "joinable"} /\ ~c.failed

(* The worker on an intact file: while the loop is inside the range, the   *)
(* library is where the loop is, and the index by which a plug-in tells    *)
(* the end is not ahead of it; the encoder has been given what was decoded;*)
(* and the loop ends behind the range, by less than a run.                 *)
Intact(c) ==
  LET b == UnitBeg(c.item) z == UnitEnd(c.item) IN
  /\ Consecutive(c.enc.file, b)
  /\ c.pc \in {"loop", "close"} \/ Done(c) => c.off >= b /\ (c.off = b \/ c.off < z + MaxRun)
  /\ c.pc = "loop" /\ c.off < z => c.dec.at = c.off /\ c.dec.index <= c.off
  /\ c.pc \in {"loop", "close"} => InPlace(c.enc, b, c.off - b)
  /\ (c.pc = "close" \/ Done(c)) /\ ~c.canceled => c.off >= z
  /\ Done(c) /\ ~c.enc.full => Len(c.enc.file) = c.off - b

ConvInv(c) ==
  /\ SameFile(c.dec, c.item)
  /\ c.pc \in {"none", "open", "output", "seek"} => Blank(c.enc) /\ c.dec.index = 0
  /\ c.item.bad = {} => Intact(c)
  /\ Done(c) /\ c.enc.kind = "lpcm" /\ ~c.enc.full => c.enc.header = Len(c.enc.file)

(* A conversion that was not begun has no row; and the row that the dialog *)
(* is at is there, or was the last.                                        *)
ListInv ==
  /\ \A t \in Task : conv[t].pc = "none" => ~Contains(list, t)
  /\ ui.pc = "idle" => ui.i = 0
  /\ ui.pc = "join" => (\E k \in DOMAIN list : ui.task = {list[k]}) /\ ui.i \in 0 .. Len(list)
  /\ ui.pc = "update" => ui.task = {} /\ ui.i \in 1 .. Len(list) + 2

Typed ==
  /\ conv \in [Task -> Conv] /\ list \in Seq(Task) /\ IsInjective(list) /\ timer \in BOOLEAN
  /\ ui \in [pc : {"idle", "update", "join"}, task : SUBSET Task, i : Nat]

IInv == Typed /\ (\A t \in Task : ConvInv(conv[t])) /\ ListInv /\ HeldWhileRunning /\ TimerRuns

(* No more rows than conversions.                                          *)
LEMMA FewRows ==
  ASSUME list \in Seq(Task), IsInjective(list)
  PROVE  Cardinality(Task) \in Nat /\ Len(list) <= Cardinality(Task)
<1>1. IsFiniteSet(Task)
  BY ConversionAssumption DEF ConversionAssumption
<1> DEFINE n == Len(list)
<1>2. n \in Nat /\ list \in [1 .. n -> Task]
  OBVIOUS
<1>3. Cardinality(1 .. n) = n
  BY <1>2, FS_Interval
<1>4. list \in Injection(1 .. n, Task)
  BY <1>2 DEF Injection, IsInjective
<1>5. Cardinality(1 .. n) <= Cardinality(Task)
  BY <1>1, <1>4, FS_Injection
<1> QED BY <1>1, <1>3, <1>5, FS_CardinalityType

(* What the run checks follows.                                            *)
LEMMA IInvSays ==
  ASSUME IInv
  PROVE  ConversionInv /\ WholeRange
<1> USE DEF IInv
<1>1. TypeOK
  <2>1. ASSUME NEW t \in Task
        PROVE  /\ conv[t].pc \in Stage /\ conv[t].dec \in Decoder /\ conv[t].off \in Nat /\ conv[t].cnt \in Nat
               /\ conv[t].enc \in Encoder /\ conv[t].buf \in Seq(Nat)
               /\ {conv[t].failed, conv[t].finished, conv[t].canceled} \subseteq BOOLEAN
    <3>1. conv[t] \in Conv
      BY DEF Typed
    <3>2. conv[t].failed \in BOOLEAN /\ conv[t].finished \in BOOLEAN /\ conv[t].canceled \in BOOLEAN
      BY <3>1, Zenon DEF Conv
    <3> QED BY <3>1, <3>2 DEF Conv
  <2>2. ui.i \in 0 .. Cardinality(Task) + 2
    <3>1. Cardinality(Task) \in Nat /\ Len(list) <= Cardinality(Task) /\ Len(list) \in Nat /\ ui.i \in Nat
          /\ ui.pc \in {"idle", "update", "join"}
      BY FewRows DEF Typed
    <3> QED BY <3>1 DEF ListInv
  <2> QED BY <2>1, <2>2 DEF TypeOK, Typed, Stage
<1>2. ASSUME NEW t \in Task, conv[t].item.bad = {}, NEW k \in DOMAIN conv[t].enc.file
      PROVE  conv[t].enc.file[k] = UnitBeg(conv[t].item) + k - 1
  <2> DEFINE s == conv[t].enc.file
             b == UnitBeg(conv[t].item)
  <2>1. Consecutive(s, b)
    BY <1>2 DEF ConvInv, Intact
  <2>2. s \in Seq(Nat)
    BY DEF Typed, Conv, Encoder
  <2>3. k \in DOMAIN s
    BY <1>2
  <2> HIDE DEF s, b
  <2>4. s[k] = b + k - 1
    BY <2>1, <2>2, <2>3 DEF Consecutive
  <2> QED BY <2>4 DEF s, b
<1>3. ASSUME NEW t \in Task, Over(t), ~conv[t].failed, ~conv[t].enc.full
      PROVE  LET i == conv[t].item
                 e == conv[t].enc
                 last == UnitBeg(i) + Len(e.file)
             IN  /\ ~conv[t].canceled /\ i.bad = {} /\ ~OpenEnded(i) =>
                      last >= LastUnit(i) /\ (e.file # <<>> => last < LastUnit(i) + MaxRun)
                 /\ e.kind = "lpcm" => e.header = Len(e.file)
  <2> DEFINE c == conv[t]
             i == c.item
             n == Len(c.enc.file)
  <2>1. c \in Conv /\ ConvInv(c) /\ Done(c)
    BY <1>3 DEF Typed, Done, Over
  <2>2. i \in Item /\ c.off \in Nat /\ c.enc.file \in Seq(Nat) /\ n \in Nat
    BY <2>1 DEF Conv, Encoder
  <2>3. ASSUME ~c.canceled, i.bad = {}, ~OpenEnded(i)
        PROVE  UnitBeg(i) + n >= LastUnit(i) /\ (c.enc.file # <<>> => UnitBeg(i) + n < LastUnit(i) + MaxRun)
    <3>1. UnitBeg(i) \in Nat /\ UnitEnd(i) \in Nat /\ UnitEnd(i) = LastUnit(i)
      BY <2>2, <2>3, Ranges
    <3>2. Intact(c)
      BY <2>1, <2>3 DEF ConvInv
    <3>3. /\ n = c.off - UnitBeg(i) /\ c.off >= UnitEnd(i)
          /\ c.off = UnitBeg(i) \/ c.off < UnitEnd(i) + MaxRun
      BY <1>3, <2>1, <2>3, <3>2 DEF Intact
    <3>4. c.enc.file # <<>> => n # 0
      BY <2>2
    <3>5. MaxRun \in Nat
      BY ConversionAssumption DEF ConversionAssumption
    <3> HIDE DEF n
    <3> QED BY <2>2, <3>1, <3>3, <3>4, <3>5
  <2>4. c.enc.kind = "lpcm" => c.enc.header = n
    BY <1>3, <2>1 DEF ConvInv
  <2> QED BY <2>3, <2>4
<1>4. InOrder
  BY <1>2 DEF InOrder
<1>5. WholeRange
  BY <1>3 DEF WholeRange
<1> QED BY <1>1, <1>4, <1>5 DEF ConversionInv

-----------------------------------------------------------------------------
(* The steps of a worker.                                                  *)

(* One conversion that goes on keeps the invariant if its own state does.  *)
LEMMA Worked ==
  ASSUME IInv, NEW t \in Task, NEW c \in Conv, ConvInv(c), c.pc # "none",
         conv[t].pc \notin {"none", "joinable"},
         conv' = [conv EXCEPT ![t] = c], UNCHANGED <<list, timer, ui>>
  PROVE  IInv'
<1> USE DEF IInv
<1>1. /\ conv' \in [Task -> Conv] /\ conv'[t] = c
      /\ \A x \in Task \ {t} : conv'[x] = conv[x]
  BY DEF Typed
<1>2. Typed'
  BY <1>1 DEF Typed
<1>3. \A x \in Task : ConvInv(conv'[x])
  BY <1>1
<1>4. ListInv'
  BY <1>1 DEF ListInv, Contains
<1>5. HeldWhileRunning'
  BY <1>1 DEF HeldWhileRunning, Contains
<1>6. TimerRuns'
  BY DEF TimerRuns
<1> QED BY <1>2, <1>3, <1>4, <1>5, <1>6

(* What the invariant says of a conversion.                                *)
LEMMA Held ==
  ASSUME IInv, NEW t \in Task
  PROVE  /\ conv[t] \in Conv /\ ConvInv(conv[t])
         /\ conv[t].dec \in Decoder /\ conv[t].enc \in Encoder /\ conv[t].item \in Item
         /\ conv[t].off \in Nat /\ conv[t].cnt \in Nat /\ conv[t].buf \in Seq(Nat)
         /\ SameFile(conv[t].dec, conv[t].item)
         /\ UnitBeg(conv[t].item) \in Nat /\ UnitEnd(conv[t].item) \in Nat /\ MaxRun \in Nat
<1>1. conv[t] \in Conv
  BY DEF IInv, Typed
<1>2. ConvInv(conv[t])
  BY DEF IInv
<1>3. SameFile(conv[t].dec, conv[t].item)
  BY <1>2 DEF ConvInv
<1> QED BY <1>1, <1>2, <1>3, Ranges, ConversionAssumption DEF Conv, ConversionAssumption

(* Before the loop nothing was written.                                    *)
LEMMA Beginning ==
  ASSUME NEW c \in Conv, SameFile(c.dec, c.item), Blank(c.enc),
         c.pc \in {"none", "open", "output", "seek"} => c.dec.index = 0,
         c.pc \notin {"loop", "close"}, ~Done(c)
  PROVE  ConvInv(c)
<1> DEFINE b == UnitBeg(c.item)
<1>1. c.enc.file = <<>> /\ Len(<<>>) = 0
  BY DEF Blank
<1>2. Consecutive(c.enc.file, b)
  BY <1>1 DEF Consecutive
<1>3. Intact(c)
  BY <1>2 DEF Intact
<1> QED BY <1>3 DEF ConvInv

(* The decoder is opened, or the conversion fails with an empty output.    *)
LEMMA OpenDecoderStep ==
  ASSUME IInv, NEW t \in Task, OpenDecoder(t)
  PROVE  IInv'
<1> DEFINE d == conv[t]
<1>1. d \in Conv /\ ConvInv(d) /\ d.pc = "open" /\ Blank(d.enc) /\ d.dec.index = 0 /\ SameFile(d.dec, d.item)
      /\ d.dec \in Decoder
  BY Held DEF OpenDecoder, ConvInv
<1>2. PICK a \in Open(d.dec) :
        conv' = [conv EXCEPT ![t] = [@ EXCEPT !.dec = a.dec,
                   !.pc = IF a.ok THEN "output" ELSE "finish", !.failed = ~a.ok]]
  BY DEF OpenDecoder
<1> DEFINE p == IF a.ok THEN "output" ELSE "finish"
           x == a.dec
           c == [d EXCEPT !.dec = x, !.pc = p, !.failed = ~a.ok]
<1>3. conv' = [conv EXCEPT ![t] = c]
  BY <1>2, Zenon DEF IInv, Typed
<1>4. x \in Decoder /\ SameFile(x, d.dec) /\ x.index = 0
  BY <1>1, Opening
<1>5. p \in Stage /\ p \in {"output", "finish"}
  BY DEF Stage
<1>6. c \in Conv
  <2> HIDE DEF x, p
  <2> QED BY <1>1, <1>4, <1>5, Zenon DEF Conv
<1>7. c.pc = p /\ c.dec = x /\ c.enc = d.enc /\ c.item = d.item
  BY <1>1 DEF Conv
<1>8. c.failed = ~a.ok
  BY <1>1, Zenon DEF Conv
<1>9. ~Done(c)
  <2>1. CASE a.ok
    BY <1>7, <2>1 DEF Done
  <2>2. CASE ~a.ok
    <3>1. c.failed
      BY <1>8, <2>2, Zenon
    <3> QED BY <3>1, Zenon DEF Done
  <2> QED BY <2>1, <2>2
<1>10. SameFile(c.dec, c.item)
  BY <1>1, <1>4, <1>7 DEF SameFile
<1> HIDE DEF c, p, x
<1>11. ConvInv(c)
  BY <1>1, <1>4, <1>5, <1>6, <1>7, <1>9, <1>10, Beginning
<1> QED BY <1>1, <1>3, <1>5, <1>6, <1>7, <1>11, Worked DEF OpenDecoder

(* The output is opened, and still empty, or the conversion fails.         *)
LEMMA OpenOutputStep ==
  ASSUME IInv, NEW t \in Task, OpenOutput(t)
  PROVE  IInv'
<1> DEFINE d == conv[t]
<1>1. d \in Conv /\ ConvInv(d) /\ d.pc = "output" /\ Blank(d.enc) /\ d.dec.index = 0 /\ SameFile(d.dec, d.item)
      /\ d.enc \in Encoder
  BY Held DEF OpenOutput, ConvInv
<1>2. PICK a \in OpenFile(d.enc) :
        conv' = [conv EXCEPT ![t] = [@ EXCEPT !.enc = a.enc,
                   !.pc = IF a.ok THEN "seek" ELSE "finish", !.failed = ~a.ok]]
  BY DEF OpenOutput
<1> DEFINE p == IF a.ok THEN "seek" ELSE "finish"
           x == a.enc
           c == [d EXCEPT !.enc = x, !.pc = p, !.failed = ~a.ok]
<1>3. conv' = [conv EXCEPT ![t] = c]
  BY <1>2, Zenon DEF IInv, Typed
<1>4. x \in Encoder /\ Blank(x)
  BY <1>1, Outputting
<1>5. p \in Stage /\ p \in {"seek", "finish"}
  BY DEF Stage
<1>6. c \in Conv
  <2> HIDE DEF x, p
  <2> QED BY <1>1, <1>4, <1>5, Zenon DEF Conv
<1>7. c.pc = p /\ c.dec = d.dec /\ c.enc = x /\ c.item = d.item
  BY <1>1 DEF Conv
<1>8. c.failed = ~a.ok
  BY <1>1, Zenon DEF Conv
<1>9. ~Done(c)
  <2>1. CASE a.ok
    BY <1>7, <2>1 DEF Done
  <2>2. CASE ~a.ok
    <3>1. c.failed
      BY <1>8, <2>2, Zenon
    <3> QED BY <3>1, Zenon DEF Done
  <2> QED BY <2>1, <2>2
<1> HIDE DEF c, p, x
<1>11. ConvInv(c)
  BY <1>1, <1>4, <1>5, <1>6, <1>7, <1>9, Beginning
<1> QED BY <1>1, <1>3, <1>5, <1>6, <1>7, <1>11, Worked DEF OpenOutput

(* The loop begins at the range, with an empty output.                     *)
LEMMA SetRangeStep ==
  ASSUME IInv, NEW t \in Task, SetRange(t)
  PROVE  IInv'
<1> DEFINE d == conv[t]
           b == UnitBeg(d.item)
           z == UnitEnd(d.item)
<1>1. /\ d \in Conv /\ ConvInv(d) /\ d.pc = "seek" /\ Blank(d.enc) /\ d.dec.index = 0 /\ SameFile(d.dec, d.item)
      /\ d.dec \in Decoder /\ d.enc \in Encoder /\ d.item \in Item /\ b \in Nat /\ z \in Nat /\ MaxRun \in Nat
  BY Held DEF SetRange, ConvInv
<1>2. PICK x \in SetUnitIndex(d.dec, b) :
        conv' = [conv EXCEPT ![t] = [@ EXCEPT !.dec = x, !.off = b, !.pc = "loop"]]
  BY DEF SetRange
<1> DEFINE c == [d EXCEPT !.dec = x, !.off = b, !.pc = "loop"]
<1>3. conv' = [conv EXCEPT ![t] = c]
  BY <1>2, Zenon DEF IInv, Typed
<1>4. /\ x \in Decoder /\ SameFile(x, d.dec)
      /\ d.dec.bad = {} /\ b < d.dec.count => x.at = b /\ x.index <= b
  BY <1>1, Seeking
<1>5. z <= d.item.count /\ d.item.count \in Nat
  BY <1>1, Ranges
<1>6. c \in Conv
  <2>1. "loop" \in Stage
    BY DEF Stage
  <2> HIDE DEF b
  <2> QED BY <1>1, <1>4, <2>1, Zenon DEF Conv
<1>7. c.pc = "loop" /\ c.dec = x /\ c.enc = d.enc /\ c.item = d.item /\ c.off = b
  BY <1>1 DEF Conv
<1>8. SameFile(c.dec, c.item)
  BY <1>1, <1>4, <1>7 DEF SameFile
<1> HIDE DEF c
<1>9. /\ d.enc.file = <<>> /\ d.enc.held = <<>> /\ ~d.enc.full /\ Len(<<>>) = 0
      /\ \A y : Consecutive(<<>>, y)
  BY <1>1 DEF Blank, Consecutive
<1>10. InPlace(d.enc, b, 0)
  BY <1>9 DEF InPlace
<1>11. ASSUME c.item.bad = {} PROVE Intact(c)
  <2>1. b < z => x.at = b /\ x.index <= b
    <3>1. d.dec.bad = {} /\ d.dec.count = d.item.count
      BY <1>1, <1>7, <1>11 DEF SameFile
    <3> HIDE DEF b, z
    <3> QED BY <1>1, <1>4, <1>5, <3>1
  <2>2. ~Done(c)
    BY <1>7 DEF Done
  <2>3. b - b = 0
    BY <1>1
  <2> HIDE DEF b, z, d
  <2> QED BY <1>1, <1>7, <1>9, <1>10, <2>1, <2>2, <2>3 DEF Intact, b, z, InPlace
<1>12. ConvInv(c)
  <2>1. ~Done(c)
    BY <1>7 DEF Done
  <2> QED BY <1>7, <1>8, <1>11, <2>1 DEF ConvInv
<1> QED BY <1>1, <1>3, <1>6, <1>7, <1>12, Worked DEF SetRange

(* A turn of the loop moves the library, the loop and the output by as     *)
(* many units.                                                             *)
LEMMA TranscodeStep ==
  ASSUME IInv, NEW t \in Task, Transcode(t)
  PROVE  IInv'
<1> DEFINE d == conv[t]
           b == UnitBeg(d.item)
           z == UnitEnd(d.item)
<1>1. /\ d \in Conv /\ ConvInv(d) /\ d.pc = "loop" /\ d.off < z /\ SameFile(d.dec, d.item)
      /\ d.dec \in Decoder /\ d.enc \in Encoder /\ d.item \in Item /\ d.off \in Nat /\ d.cnt \in Nat
      /\ d.buf \in Seq(Nat) /\ b \in Nat /\ z \in Nat /\ MaxRun \in Nat
  BY Held DEF Transcode
<1>2. PICK a \in DecodeUnit(d.dec, d.buf, d.cnt) :
        \E e \in Encode(d.enc, a.buf) :
          conv' = [conv EXCEPT ![t] = [@ EXCEPT !.dec = a.dec, !.buf = a.buf,
                     !.cnt = a.count, !.enc = e, !.off = conv[t].off + a.count]]
  BY DEF Transcode
<1>3. PICK e \in Encode(d.enc, a.buf) :
        conv' = [conv EXCEPT ![t] = [@ EXCEPT !.dec = a.dec, !.buf = a.buf,
                   !.cnt = a.count, !.enc = e, !.off = conv[t].off + a.count]]
  BY <1>2
<1> DEFINE x == a.dec
           u == a.buf
           m == a.count
           next == d.off + m
           c == [d EXCEPT !.dec = x, !.buf = u, !.cnt = m, !.enc = e, !.off = next]
<1>4. conv' = [conv EXCEPT ![t] = c]
  BY <1>3, Zenon DEF IInv, Typed
<1>5. /\ x \in Decoder /\ SameFile(x, d.dec) /\ u \in Seq(Nat) /\ m \in Nat
      /\ d.dec.bad = {} /\ d.dec.index <= d.dec.at /\ d.dec.at < d.dec.count =>
           \E k \in 1 .. MaxRun : /\ m = k /\ u = Units(d.dec, k)
                                  /\ x.at = d.dec.at + k /\ x.index <= d.dec.at + k
  BY <1>1, Decoding
<1>6. next \in Nat
  BY <1>1, <1>5
<1> HIDE DEF next
<1>7. /\ e \in Encoder /\ e.kind = d.enc.kind
      /\ \A n \in Nat : InPlace(d.enc, b, n) /\ Consecutive(u, b + n) => InPlace(e, b, n + Len(u))
  BY <1>1, <1>5, Encoding
<1>8. c \in Conv
  <2> HIDE DEF x, u, m
  <2> QED BY <1>1, <1>5, <1>6, <1>7, Zenon DEF Conv
<1>9. c.pc = "loop" /\ c.dec = x /\ c.enc = e /\ c.item = d.item /\ c.off = next
  BY <1>1 DEF Conv
<1>10. SameFile(c.dec, c.item)
  BY <1>1, <1>5, <1>9 DEF SameFile
<1> HIDE DEF c
<1>11. ~Done(c)
  BY <1>9 DEF Done
<1>12. ASSUME c.item.bad = {} PROVE Intact(c)
  <2>1. /\ d.off >= b /\ d.dec.at = d.off /\ d.dec.index <= d.off /\ InPlace(d.enc, b, d.off - b)
    BY <1>1, <1>9, <1>12 DEF ConvInv, Intact
  <2>2. d.dec.at < d.dec.count /\ d.dec.bad = {} /\ d.dec.index <= d.dec.at
    <3>1. d.dec.bad = {} /\ d.dec.count = d.item.count
      BY <1>1, <1>9, <1>12 DEF SameFile
    <3>2. z <= d.item.count /\ d.item.count \in Nat
      BY <1>1, Ranges
    <3> HIDE DEF z
    <3> QED BY <1>1, <2>1, <3>1, <3>2
  <2>3. PICK k \in 1 .. MaxRun : m = k /\ u = Units(d.dec, k) /\ x.at = d.off + k /\ x.index <= d.off + k
    BY <1>5, <2>1, <2>2
  <2>4. k \in Nat /\ next = d.off + k
    BY <1>1, <2>3 DEF next
  <2>5. Len(u) = k /\ Consecutive(u, d.off)
    BY <2>1, <2>3, <2>4 DEF Units, Consecutive
  <2> DEFINE n == d.off - b
  <2>6. n \in Nat /\ b + n = d.off /\ next - b = n + k
    BY <1>1, <2>1, <2>4
  <2>7. InPlace(e, b, next - b)
    <3> HIDE DEF n
    <3>1. InPlace(d.enc, b, n)
      BY <2>1 DEF n
    <3>2. InPlace(e, b, n + Len(u))
      BY <1>7, <2>5, <2>6, <3>1
    <3> QED BY <2>5, <2>6, <3>2
  <2>8. next >= b /\ next < z + MaxRun
    <3> HIDE DEF b, z
    <3>1. k <= MaxRun /\ d.off \in Nat /\ d.off < z
      BY <1>1, <2>3
    <3> QED BY <1>1, <2>1, <2>4, <3>1
  <2>9. x.at = next /\ x.index <= next
    BY <2>3, <2>4
  <2> HIDE DEF b, z, d, x
  <2> QED BY <1>9, <1>11, <2>7, <2>8, <2>9 DEF Intact, b, z, InPlace
<1>13. ConvInv(c)
  BY <1>9, <1>10, <1>11, <1>12 DEF ConvInv
<1> QED BY <1>1, <1>4, <1>8, <1>9, <1>13, Worked DEF Transcode

(* The loop is left behind the range, or by a Cancel.                      *)
LEMMA LeaveLoopStep ==
  ASSUME IInv, NEW t \in Task, LeaveLoop(t)
  PROVE  IInv'
<1> DEFINE d == conv[t]
           b == UnitBeg(d.item)
           z == UnitEnd(d.item)
           c == [d EXCEPT !.pc = "close"]
<1>1. /\ d \in Conv /\ ConvInv(d) /\ d.pc = "loop" /\ (d.off >= z \/ d.canceled) /\ SameFile(d.dec, d.item)
  BY Held DEF LeaveLoop
<1>2. conv' = [conv EXCEPT ![t] = c]
  BY DEF LeaveLoop
<1>3. "close" \in Stage
  BY DEF Stage
<1>4. c \in Conv
  BY <1>1, <1>3, Zenon DEF Conv
<1>5. c.pc = "close" /\ c.dec = d.dec /\ c.enc = d.enc /\ c.item = d.item /\ c.off = d.off
  BY <1>1 DEF Conv
<1>6. c.canceled = d.canceled
  BY <1>1, Zenon DEF Conv
<1> HIDE DEF c
<1>7. ~Done(c)
  BY <1>5 DEF Done
<1>8. ASSUME c.item.bad = {} PROVE Intact(c)
  <2>1. /\ d.off >= b /\ (d.off = b \/ d.off < z + MaxRun) /\ InPlace(d.enc, b, d.off - b)
        /\ Consecutive(d.enc.file, b)
    BY <1>1, <1>5, <1>8 DEF ConvInv, Intact
  <2>2. ASSUME ~c.canceled PROVE c.off >= z
    <3>1. ~d.canceled
      BY <1>6, <2>2, Zenon
    <3> HIDE DEF z
    <3> QED BY <1>1, <1>5, <3>1
  <2> HIDE DEF b, z, d
  <2> QED BY <1>5, <1>7, <2>1, <2>2 DEF Intact, b, z
<1>9. ConvInv(c)
  BY <1>1, <1>5, <1>7, <1>8 DEF ConvInv
<1> QED BY <1>1, <1>2, <1>4, <1>5, <1>9, Worked DEF LeaveLoop

(* The encoder gives out what it kept back, and its header is completed.   *)
LEMMA CloseBothStep ==
  ASSUME IInv, NEW t \in Task, CloseBoth(t)
  PROVE  IInv'
<1> DEFINE d == conv[t]
           b == UnitBeg(d.item)
           z == UnitEnd(d.item)
           e == CloseOutput(Flush(d.enc))
           x == Close(d.dec)
           c == [d EXCEPT !.enc = e, !.dec = x, !.pc = "finish"]
<1>1. /\ d \in Conv /\ ConvInv(d) /\ d.pc = "close" /\ SameFile(d.dec, d.item) /\ d.off \in Nat
      /\ d.enc \in Encoder /\ d.dec \in Decoder /\ b \in Nat
  BY Held DEF CloseBoth
<1>2. conv' = [conv EXCEPT ![t] = c]
  BY DEF CloseBoth
<1>3. x \in Decoder /\ SameFile(x, d.dec)
  <2>1. x \in Decoder
    BY <1>1, Zenon DEF Close, Decoder
  <2> QED BY <1>1, <2>1 DEF Close, SameFile, Decoder
<1>4. e = CloseOutput(Flush(d.enc))
  OBVIOUS
<1> HIDE DEF x, e
<1>5. /\ e \in Encoder /\ e.kind = d.enc.kind
      /\ e.kind = "lpcm" /\ ~e.full => e.header = Len(e.file)
      /\ \A n \in Nat : InPlace(d.enc, b, n) => Consecutive(e.file, b) /\ (~e.full => Len(e.file) = n)
  <2> HIDE DEF b, d
  <2> QED BY <1>1, <1>4, Completing
<1>6. "finish" \in Stage
  BY DEF Stage
<1>7. c \in Conv
  BY <1>1, <1>3, <1>5, <1>6, Zenon DEF Conv
<1>8. c.pc = "finish" /\ c.dec = x /\ c.enc = e /\ c.item = d.item /\ c.off = d.off
  BY <1>1 DEF Conv
<1>9. c.canceled = d.canceled
  BY <1>1, Zenon DEF Conv
<1>10. SameFile(c.dec, c.item)
  BY <1>1, <1>3, <1>8 DEF SameFile
<1> HIDE DEF c
<1>11. ASSUME c.item.bad = {} PROVE Intact(c)
  <2>1. /\ d.off >= b /\ (d.off = b \/ d.off < z + MaxRun) /\ InPlace(d.enc, b, d.off - b)
        /\ ~d.canceled => d.off >= z
    BY <1>1, <1>8, <1>11 DEF ConvInv, Intact
  <2>2. d.off - b \in Nat
    <3> HIDE DEF b
    <3> QED BY <1>1, <2>1
  <2>3. Consecutive(e.file, b) /\ (~e.full => Len(e.file) = d.off - b)
    BY <1>5, <2>1, <2>2
  <2>4. ~c.canceled => d.off >= z
    BY <1>9, <2>1, Zenon
  <2> HIDE DEF b, z, d
  <2> QED BY <1>8, <2>1, <2>3, <2>4 DEF Intact, b, z
<1>12. ConvInv(c)
  BY <1>5, <1>8, <1>10, <1>11 DEF ConvInv
<1> QED BY <1>1, <1>2, <1>7, <1>8, <1>12, Worked DEF CloseBoth

(* Behind the loop nothing changes any more.                               *)
LEMMA Ending ==
  ASSUME NEW d \in Conv, ConvInv(d), NEW c \in Conv, c.pc \in {"finish", "exit", "joinable"}, Done(c) => Done(d),
         c.dec = d.dec, c.enc = d.enc, c.item = d.item, c.off = d.off, ~c.canceled => ~d.canceled
  PROVE  ConvInv(c)
<1>1. Intact(d) => Intact(c)
  BY DEF Intact, Done
<1> QED BY <1>1 DEF ConvInv, Done

(* m_Finished is set, and the thread ends.                                 *)
LEMMA FinishStep ==
  ASSUME IInv, NEW t \in Task, Finish(t) \/ Exit(t)
  PROVE  IInv'
<1> DEFINE d == conv[t]
           x == [d EXCEPT !.finished = TRUE, !.pc = "exit"]
           y == [d EXCEPT !.pc = "joinable"]
<1>1. d \in Conv /\ ConvInv(d)
  BY Held
<1>2. "exit" \in Stage /\ "joinable" \in Stage
  BY DEF Stage
<1>3. x \in Conv /\ y \in Conv
  BY <1>1, <1>2, Zenon DEF Conv
<1>4. /\ x.pc = "exit" /\ x.dec = d.dec /\ x.enc = d.enc /\ x.item = d.item /\ x.off = d.off
      /\ y.pc = "joinable" /\ y.dec = d.dec /\ y.enc = d.enc /\ y.item = d.item /\ y.off = d.off
  BY <1>1 DEF Conv
<1>5. x.canceled = d.canceled /\ y.canceled = d.canceled /\ x.failed = d.failed /\ y.failed = d.failed
  BY <1>1, Zenon DEF Conv
<1>6. CASE Finish(t)
  <2>1. d.pc = "finish" /\ conv' = [conv EXCEPT ![t] = x]
    BY <1>6 DEF Finish
  <2> HIDE DEF x
  <2>2. (Done(x) => Done(d)) /\ (~x.canceled => ~d.canceled)
    BY <1>5, <2>1, Zenon DEF Done
  <2>3. ConvInv(x)
    BY <1>1, <1>3, <1>4, <2>2, Ending
  <2> QED BY <1>3, <1>4, <1>6, <2>1, <2>3, Worked DEF Finish
<1>7. CASE Exit(t)
  <2>1. d.pc = "exit" /\ conv' = [conv EXCEPT ![t] = y]
    BY <1>7 DEF Exit
  <2> HIDE DEF y
  <2>2. (Done(y) => Done(d)) /\ (~y.canceled => ~d.canceled)
    BY <1>5, <2>1, Zenon DEF Done
  <2>3. ConvInv(y)
    BY <1>1, <1>3, <1>4, <2>2, Ending
  <2> QED BY <1>3, <1>4, <1>7, <2>1, <2>3, Worked DEF Exit
<1> QED BY <1>6, <1>7

-----------------------------------------------------------------------------
(* The dialog.                                                             *)

(* A row put in front of the others.                                       *)
LEMMA Adding ==
  ASSUME NEW s \in Seq(Task), IsInjective(s), NEW t \in Task, ~Contains(s, t), NEW q, q = <<t>> \o s
  PROVE  /\ q \in Seq(Task) /\ IsInjective(q) /\ q # <<>>
         /\ \A x : Contains(q, x) <=> x = t \/ Contains(s, x)
<1> DEFINE n == Len(s)
<1>1. n \in Nat /\ s \in [1 .. n -> Task]
  OBVIOUS
<1>2. /\ q \in Seq(Task) /\ Len(q) = 1 + n /\ q[1] = t
      /\ \A k \in 1 .. n : q[k + 1] = s[k]
  OBVIOUS
<1>3. \A k \in 1 .. n : s[k] # t
  BY DEF Contains
<1> HIDE DEF n
<1>4. \A k \in 2 .. 1 + n : k - 1 \in 1 .. n /\ q[k] = s[k - 1]
  <2> SUFFICES ASSUME NEW k \in 2 .. 1 + n PROVE k - 1 \in 1 .. n /\ q[k] = s[k - 1]
    OBVIOUS
  <2>1. k - 1 \in 1 .. n /\ (k - 1) + 1 = k
    BY <1>1
  <2>2. q[(k - 1) + 1] = s[k - 1]
    BY <1>2, <2>1
  <2> QED BY <2>1, <2>2
<1>5. ASSUME NEW j \in 1 .. 1 + n, NEW k \in 1 .. 1 + n, q[j] = q[k] PROVE j = k
  <2>1. CASE j = 1 \/ k = 1
    <3>1. (j = 1 \/ j \in 2 .. 1 + n) /\ (k = 1 \/ k \in 2 .. 1 + n)
      BY <1>1
    <3> QED BY <1>2, <1>3, <1>4, <1>5, <2>1, <3>1
  <2>2. CASE j # 1 /\ k # 1
    <3>1. j \in 2 .. 1 + n /\ k \in 2 .. 1 + n
      BY <1>1, <2>2
    <3>2. s[j - 1] = s[k - 1] /\ j - 1 \in 1 .. n /\ k - 1 \in 1 .. n
      BY <1>4, <1>5, <3>1
    <3>3. DOMAIN s = 1 .. n
      BY <1>1
    <3>4. j - 1 = k - 1
      BY <3>2, <3>3 DEF IsInjective
    <3> QED BY <3>1, <3>4
  <2> QED BY <2>1, <2>2
<1>6. DOMAIN q = 1 .. 1 + n
  BY <1>1, <1>2
<1>7. IsInjective(q)
  BY <1>5, <1>6 DEF IsInjective
<1>8. ASSUME NEW x PROVE Contains(q, x) <=> x = t \/ Contains(s, x)
  <2>1. ASSUME Contains(q, x) PROVE x = t \/ Contains(s, x)
    <3>1. PICK k \in 1 .. 1 + n : q[k] = x
      BY <1>2, <2>1 DEF Contains
    <3>2. k = 1 \/ k \in 2 .. 1 + n
      BY <1>1
    <3> QED BY <1>2, <1>4, <3>1, <3>2 DEF Contains, n
  <2>2. ASSUME x = t PROVE Contains(q, x)
    <3>1. 1 \in 1 .. 1 + n
      BY <1>1
    <3> QED BY <1>2, <2>2, <3>1 DEF Contains
  <2>3. ASSUME Contains(s, x) PROVE Contains(q, x)
    <3>1. PICK k \in 1 .. n : s[k] = x
      BY <2>3 DEF Contains, n
    <3>2. k + 1 \in 1 .. 1 + n
      BY <1>1
    <3> QED BY <1>2, <3>1, <3>2 DEF Contains
  <2> QED BY <2>1, <2>2, <2>3
<1>9. q # <<>>
  BY <1>1, <1>2
<1> QED BY <1>2, <1>7, <1>8, <1>9

(* A row taken out.                                                        *)
LEMMA Removing ==
  ASSUME NEW s \in Seq(Task), IsInjective(s), NEW k \in DOMAIN s, NEW q, q = RemoveAt(s, k)
  PROVE  /\ q \in Seq(Task) /\ IsInjective(q) /\ Len(q) = Len(s) - 1
         /\ \A x : Contains(q, x) <=> Contains(s, x) /\ x # s[k]
<1> DEFINE n == Len(s)
           up(j) == IF j < k THEN j ELSE j + 1
<1>1. n \in Nat /\ DOMAIN s = 1 .. n /\ k \in 1 .. n
  OBVIOUS
<1>2. q \in Seq(Task) /\ Len(q) = n - 1 /\ \A j \in 1 .. n - 1 : q[j] = s[up(j)]
  <2> DEFINE l == SubSeq(s, 1, k - 1)
             r == SubSeq(s, k + 1, Len(s))
  <2>1. l \in Seq(Task) /\ Len(l) = k - 1 /\ \A j \in 1 .. k - 1 : l[j] = s[j]
    BY <1>1
  <2>2. r \in Seq(Task) /\ Len(r) = n - k /\ \A j \in 1 .. n - k : r[j] = s[k + j]
    BY <1>1
  <2>3. q = l \o r
    BY DEF RemoveAt
  <2> HIDE DEF l, r, n
  <2>4. /\ q \in Seq(Task) /\ Len(q) = Len(l) + Len(r)
        /\ \A j \in 1 .. Len(l) + Len(r) : q[j] = IF j <= Len(l) THEN l[j] ELSE r[j - Len(l)]
    BY <2>1, <2>2, <2>3, ConcatProperties
  <2>5. Len(l) + Len(r) = n - 1
    BY <1>1, <2>1, <2>2
  <2> SUFFICES ASSUME NEW j \in 1 .. n - 1 PROVE q[j] = s[up(j)]
    BY <2>4, <2>5
  <2>6. CASE j < k
    <3>1. j \in 1 .. k - 1 /\ j <= k - 1 /\ up(j) = j
      BY <1>1, <2>6
    <3> QED BY <2>1, <2>4, <2>5, <3>1
  <2>7. CASE ~(j < k)
    <3>1. j - (k - 1) \in 1 .. n - k /\ ~(j <= k - 1) /\ up(j) = j + 1 /\ k + (j - (k - 1)) = j + 1
      BY <1>1, <2>7
    <3>2. q[j] = r[j - (k - 1)]
      BY <2>1, <2>4, <2>5, <3>1
    <3>3. r[j - (k - 1)] = s[k + (j - (k - 1))]
      BY <2>2, <3>1
    <3> QED BY <3>1, <3>2, <3>3
  <2> QED BY <2>6, <2>7
<1>3. DOMAIN q = 1 .. n - 1
  BY <1>1, <1>2
<1> HIDE DEF n
<1>4. \A j \in 1 .. n - 1 : up(j) \in 1 .. n /\ up(j) # k
  BY <1>1
<1>5. \A i, j \in 1 .. n - 1 : up(i) = up(j) => i = j
  BY <1>1
<1>6. \A i \in 1 .. n : i # k => \E j \in 1 .. n - 1 : up(j) = i
  <2> SUFFICES ASSUME NEW i \in 1 .. n, i # k PROVE \E j \in 1 .. n - 1 : up(j) = i
    OBVIOUS
  <2>1. CASE i < k
    <3>1. i \in 1 .. n - 1 /\ up(i) = i
      BY <1>1, <2>1
    <3> QED BY <3>1
  <2>2. CASE i > k
    <3>1. i - 1 \in 1 .. n - 1 /\ up(i - 1) = i
      BY <1>1, <2>2
    <3> QED BY <3>1
  <2> QED BY <1>1, <2>1, <2>2
<1> HIDE DEF up
<1>7. IsInjective(q)
  BY <1>1, <1>2, <1>3, <1>4, <1>5 DEF IsInjective
<1>8. ASSUME NEW x PROVE Contains(q, x) <=> Contains(s, x) /\ x # s[k]
  <2>1. Contains(s, x) <=> \E i \in 1 .. n : s[i] = x
    BY DEF Contains, n
  <2>2. Contains(q, x) <=> \E j \in 1 .. n - 1 : s[up(j)] = x
    BY <1>2 DEF Contains
  <2>3. \A i \in 1 .. n : s[i] = s[k] => i = k
    BY <1>1 DEF IsInjective
  <2>4. ASSUME NEW j \in 1 .. n - 1, s[up(j)] = x PROVE Contains(s, x) /\ x # s[k]
    BY <1>4, <2>1, <2>3, <2>4
  <2>5. ASSUME NEW i \in 1 .. n, s[i] = x, x # s[k] PROVE Contains(q, x)
    <3>1. i # k
      BY <2>5
    <3> QED BY <1>6, <2>2, <2>5, <3>1
  <2> QED BY <2>1, <2>2, <2>4, <2>5
<1> QED BY <1>2, <1>7, <1>8 DEF n

(* A new conversion gets a row and, if need be, the timer.                 *)
LEMMA AddTaskStep ==
  ASSUME IInv, NEW t \in Task, NEW i \in Chosen[t], AddTask(t, i)
  PROVE  IInv'
<1> USE DEF IInv
<1> DEFINE f == Fresh(i, "open")
           c == [f EXCEPT !.finished = FALSE]
<1>1. ui.pc = "idle" /\ conv[t].pc = "none" /\ conv' = [conv EXCEPT ![t] = c] /\ list' = <<t>> \o list
      /\ timer' = TRUE /\ UNCHANGED ui
  BY DEF AddTask
<1>2. i \in Item
  BY ConversionAssumption DEF ConversionAssumption
<1>3. list \in Seq(Task) /\ IsInjective(list) /\ ~Contains(list, t)
  BY <1>1 DEF Typed, ListInv
<1>4. /\ list' \in Seq(Task) /\ IsInjective(list') /\ list' # <<>>
      /\ \A x : Contains(list', x) <=> x = t \/ Contains(list, x)
  BY <1>1, <1>3, Adding
<1> DEFINE d == Closed(i.kind, i.count, i.bad)
           e == NoOutput(i.to, i.room)
<1>5. d \in Decoder /\ SameFile(d, i) /\ d.index = 0
  BY <1>2 DEF Closed, Decoder, Item, SameFile
<1>6. e \in Encoder /\ Blank(e)
  BY <1>2 DEF NoOutput, Encoder, Item, Blank
<1>7. f \in Conv
  <2>1. f = [pc |-> "open", item |-> i, dec |-> d, enc |-> e, off |-> 0, buf |-> <<>>, cnt |-> 0,
             failed |-> FALSE, finished |-> "open" = "none", canceled |-> FALSE]
    BY DEF Fresh
  <2>2. /\ "open" \in Stage /\ 0 \in Nat /\ <<>> \in Seq(Nat)
        /\ FALSE \in BOOLEAN /\ ("open" = "none") \in BOOLEAN
    BY DEF Stage
  <2> HIDE DEF d, e, f
  <2> QED BY <1>2, <1>5, <1>6, <2>1, <2>2, Zenon DEF Conv
<1>8. c \in Conv
  <2> HIDE DEF f
  <2> QED BY <1>7, Zenon DEF Conv
<1>9. c.pc = "open" /\ c.item = i /\ c.dec = d /\ c.enc = e
  <2>1. f.pc = "open" /\ f.item = i /\ f.dec = d /\ f.enc = e
    BY DEF Fresh
  <2> HIDE DEF d, e, f
  <2> QED BY <1>7, <2>1 DEF Conv
<1> HIDE DEF d, e
<1> HIDE DEF c
<1>10. ConvInv(c)
  BY <1>5, <1>6, <1>8, <1>9, Beginning DEF Done
<1>11. /\ conv' \in [Task -> Conv] /\ conv'[t] = c
       /\ \A x \in Task \ {t} : conv'[x] = conv[x]
  BY <1>1, <1>8 DEF Typed
<1>12. Typed'
  BY <1>1, <1>4, <1>11 DEF Typed
<1>13. ListInv'
  BY <1>1, <1>4, <1>9, <1>11 DEF ListInv
<1>14. HeldWhileRunning'
  BY <1>4, <1>11 DEF HeldWhileRunning
<1>15. TimerRuns'
  BY <1>1 DEF TimerRuns
<1>16. \A x \in Task : ConvInv(conv'[x])
  BY <1>10, <1>11
<1> QED BY <1>12, <1>13, <1>14, <1>15, <1>16

(* A Cancel only ends the loop.                                            *)
LEMMA Canceling ==
  ASSUME IInv, NEW t \in Task, conv' = Canceled(t)
  PROVE  /\ conv' \in [Task -> Conv]
         /\ \A x \in Task : ConvInv(conv'[x]) /\ conv'[x].pc = conv[x].pc
<1> DEFINE d == conv[t]
           c == [d EXCEPT !.canceled = TRUE]
<1>1. d \in Conv /\ ConvInv(d)
  BY Held
<1>2. conv' = [conv EXCEPT ![t] = c]
  BY DEF Canceled
<1>3. c \in Conv
  BY <1>1, Zenon DEF Conv
<1>4. c.pc = d.pc /\ c.dec = d.dec /\ c.enc = d.enc /\ c.item = d.item /\ c.off = d.off
  BY <1>1 DEF Conv
<1>5. c.canceled /\ c.failed = d.failed
  BY <1>1, Zenon DEF Conv
<1> HIDE DEF c
<1>6. Done(c) <=> Done(d)
  BY <1>4, <1>5, Zenon DEF Done
<1>7. Intact(d) => Intact(c)
  BY <1>4, <1>5, <1>6 DEF Intact
<1>8. ConvInv(c)
  BY <1>1, <1>4, <1>6, <1>7 DEF ConvInv
<1>9. conv' \in [Task -> Conv] /\ conv'[t] = c /\ \A x \in Task \ {t} : conv'[x] = conv[x]
  BY <1>2, <1>3 DEF IInv, Typed
<1> QED BY <1>4, <1>8, <1>9 DEF IInv

(* The dialog joins the conversion of a row that it shows.                 *)
LEMMA CancelStep ==
  ASSUME IInv, NEW k \in DOMAIN list, NEW i \in 0 .. Len(list), conv' = Canceled(list[k]),
         ui' = [pc |-> "join", task |-> {list[k]}, i |-> i], UNCHANGED <<list, timer>>
  PROVE  IInv'
<1> USE DEF IInv
<1>1. list[k] \in Task /\ i \in Nat
  BY DEF Typed
<1>2. /\ conv' \in [Task -> Conv]
      /\ \A x \in Task : ConvInv(conv'[x]) /\ conv'[x].pc = conv[x].pc
  BY <1>1, Canceling
<1>3. ui'.pc = "join" /\ ui'.task = {list[k]} /\ ui'.i = i
  OBVIOUS
<1>4. Typed'
  BY <1>1, <1>2 DEF Typed
<1>5. ListInv'
  BY <1>2, <1>3 DEF ListInv
<1>6. HeldWhileRunning'
  BY <1>2 DEF HeldWhileRunning
<1>7. TimerRuns'
  BY DEF TimerRuns
<1> QED BY <1>2, <1>4, <1>5, <1>6, <1>7

(* The button of a row.                                                    *)
LEMMA SlotCancelTaskStep ==
  ASSUME IInv, NEW t \in Task, SlotCancelTask(t)
  PROVE  IInv'
<1>1. list \in Seq(Task)
  BY DEF IInv, Typed
<1>2. PICK k \in 1 .. Len(list) : list[k] = t
  BY DEF SlotCancelTask, Contains
<1>3. k \in DOMAIN list /\ 0 \in 0 .. Len(list)
  BY <1>1
<1> QED BY <1>2, <1>3, CancelStep DEF SlotCancelTask

(* The steps of the dialog that touch no conversion.                       *)
LEMMA DialogStep ==
  ASSUME IInv, UNCHANGED <<conv, list>>,
         ui' \in [pc : {"idle", "update"}, task : {{}}, i : Nat],
         ui'.pc = "idle" => ui'.i = 0,
         ui'.pc = "update" => ui'.i \in 1 .. Len(list) + 2,
         timer' \in BOOLEAN, list # <<>> /\ timer => timer'
  PROVE  IInv'
<1> USE DEF IInv
<1>1. ui' \in [pc : {"idle", "update", "join"}, task : SUBSET Task, i : Nat] /\ ui'.pc # "join"
  OBVIOUS
<1>2. Typed'
  BY <1>1 DEF Typed
<1>3. ListInv'
  BY <1>1 DEF ListInv
<1>4. HeldWhileRunning'
  BY DEF HeldWhileRunning
<1>5. TimerRuns'
  BY DEF TimerRuns
<1>6. \A x \in Task : ConvInv(conv'[x])
  OBVIOUS
<1> QED BY <1>2, <1>3, <1>4, <1>5, <1>6

(* The timer's tick.                                                       *)
LEMMA SlotUpdateProgressStep ==
  ASSUME IInv, SlotUpdateProgress
  PROVE  IInv'
<1> DEFINE u == [pc |-> "update", task |-> {}, i |-> 1]
<1>1. ui' = u /\ timer' = timer /\ conv' = conv /\ list' = list
  BY DEF SlotUpdateProgress
<1>2. u \in [pc : {"idle", "update"}, task : {{}}, i : Nat] /\ u.pc = "update" /\ u.i = 1
  OBVIOUS
<1> HIDE DEF u
<1>3. 1 \in 1 .. Len(list) + 2 /\ timer \in BOOLEAN
  BY DEF IInv, Typed
<1> QED BY <1>1, <1>2, <1>3, DialogStep

(* A finished row is joined, another is passed.                            *)
LEMMA UpdateRowStep ==
  ASSUME IInv, UpdateRow
  PROVE  IInv'
<1> DEFINE k == ui.i
<1>1. /\ ui.pc = "update" /\ k <= Len(list) /\ k \in Nat /\ list \in Seq(Task) /\ UNCHANGED <<list, timer>>
      /\ k \in 1 .. Len(list) + 2 /\ timer \in BOOLEAN
      /\ ui \in [pc : {"idle", "update", "join"}, task : SUBSET Task, i : Nat]
  BY DEF UpdateRow, IInv, Typed, ListInv
<1>2. Len(list) \in Nat /\ k \in 1 .. Len(list) /\ k \in DOMAIN list
  BY <1>1
<1>3. CASE conv[list[k]].finished
  <2>1. conv' = Canceled(list[k]) /\ ui' = [ui EXCEPT !.pc = "join", !.task = {list[k]}]
    BY <1>3 DEF UpdateRow
  <2>2. ui' = [pc |-> "join", task |-> {list[k]}, i |-> k]
    BY <1>1, <2>1
  <2>3. k \in 0 .. Len(list)
    BY <1>2
  <2> HIDE DEF k
  <2> QED BY <1>1, <1>2, <2>1, <2>2, <2>3, CancelStep
<1>4. CASE ~conv[list[k]].finished
  <2>1. conv' = conv /\ ui' = [ui EXCEPT !.i = @ + 1]
    BY <1>4 DEF UpdateRow
  <2>2. ui.task = {}
    BY <1>1 DEF IInv, ListInv
  <2>3. ui' \in [pc : {"idle", "update"}, task : {{}}, i : Nat] /\ ui'.pc = "update" /\ ui'.i = k + 1
    BY <1>1, <2>1, <2>2
  <2>4. k + 1 \in 1 .. Len(list) + 2
    BY <1>2
  <2> HIDE DEF k
  <2> QED BY <1>1, <2>1, <2>3, <2>4, DialogStep
<1> QED BY <1>3, <1>4

(* The joined row goes; its thread has come to its end.                    *)
LEMMA JoinStep ==
  ASSUME IInv, Join
  PROVE  IInv'
<1> USE DEF IInv
<1>1. /\ ui.pc = "join" /\ (\A t \in ui.task : conv[t].pc = "joinable")
      /\ ui' = AfterRow(ui.i) /\ conv' = conv /\ timer' = timer
  BY DEF Join
<1>2. PICK k \in DOMAIN list : list[k] \in ui.task /\ list' = RemoveAt(list, k)
  BY DEF Join
<1>3. list \in Seq(Task) /\ IsInjective(list) /\ ui.i \in 0 .. Len(list) /\ Len(list) \in Nat
  BY <1>1 DEF Typed, ListInv
<1>4. /\ list' \in Seq(Task) /\ IsInjective(list') /\ Len(list') = Len(list) - 1
      /\ \A x : Contains(list', x) <=> Contains(list, x) /\ x # list[k]
  BY <1>2, <1>3, Removing
<1>5. conv[list[k]].pc = "joinable"
  BY <1>1, <1>2
<1>6. /\ ui' \in [pc : {"idle", "update", "join"}, task : SUBSET Task, i : Nat] /\ ui'.pc # "join"
      /\ ui'.pc = "idle" => ui'.i = 0
      /\ ui'.pc = "update" => ui'.task = {} /\ ui'.i \in 1 .. Len(list') + 2
  <2>1. CASE ui.i = 0
    BY <1>1, <2>1 DEF AfterRow, Idle
  <2>2. CASE ui.i # 0
    <3>1. ui' = [pc |-> "update", task |-> {}, i |-> ui.i + 1]
      BY <1>1, <2>2 DEF AfterRow
    <3>2. ui.i + 1 \in Nat /\ ui.i + 1 \in 1 .. Len(list') + 2
      BY <1>3, <1>4
    <3> QED BY <3>1, <3>2
  <2> QED BY <2>1, <2>2
<1>7. Typed'
  BY <1>1, <1>4, <1>6 DEF Typed
<1>8. ListInv'
  BY <1>1, <1>4, <1>6 DEF ListInv
<1>9. HeldWhileRunning'
  BY <1>1, <1>4, <1>5 DEF HeldWhileRunning
<1>10. TimerRuns'
  <2>1. list # <<>>
    BY <1>2, <1>3
  <2> QED BY <1>1, <2>1 DEF TimerRuns
<1>11. \A x \in Task : ConvInv(conv'[x])
  BY <1>1
<1> QED BY <1>7, <1>8, <1>9, <1>10, <1>11

(* The timer stops only when the last row has gone.                        *)
LEMMA EndUpdateStep ==
  ASSUME IInv, EndUpdate
  PROVE  IInv'
<1>1. /\ timer' = (timer /\ ~StopsTimer) /\ ui' = Idle /\ conv' = conv /\ list' = list
  BY DEF EndUpdate
<1>2. timer' \in BOOLEAN /\ (list # <<>> /\ timer => timer')
  BY <1>1, Zenon DEF StopsTimer
<1>3. Idle.pc = "idle" /\ Idle.i = 0 /\ ui' = [pc |-> "idle", task |-> {}, i |-> 0]
  BY <1>1 DEF Idle
<1> QED
  BY <1>1, <1>2, <1>3, DialogStep

-----------------------------------------------------------------------------
(* Nothing was begun, nothing is shown.                                    *)
LEMMA InitOk ==
  ASSUME Init
  PROVE  IInv
<1>1. Nothing \in Item
  BY DEF Nothing, Item, Kinds, Frames, Extent, Whole, EncoderKinds
<1> DEFINE d == Closed(Nothing.kind, Nothing.count, Nothing.bad)
           e == NoOutput(Nothing.to, Nothing.room)
           f == Fresh(Nothing, "none")
<1>2. d \in Decoder /\ SameFile(d, Nothing) /\ d.index = 0
  BY <1>1 DEF Closed, Decoder, Item, SameFile
<1>3. e \in Encoder /\ Blank(e)
  BY <1>1 DEF NoOutput, Encoder, Item, Blank
<1>4. f \in Conv
  <2>1. f = [pc |-> "none", item |-> Nothing, dec |-> d, enc |-> e, off |-> 0, buf |-> <<>>, cnt |-> 0,
             failed |-> FALSE, finished |-> "none" = "none", canceled |-> FALSE]
    BY DEF Fresh
  <2>2. /\ "none" \in Stage /\ 0 \in Nat /\ <<>> \in Seq(Nat)
        /\ FALSE \in BOOLEAN /\ ("none" = "none") \in BOOLEAN
    BY DEF Stage
  <2> HIDE DEF d, e, f
  <2> QED BY <1>1, <1>2, <1>3, <2>1, <2>2, Zenon DEF Conv
<1>5. f.pc = "none" /\ f.item = Nothing /\ f.dec = d /\ f.enc = e
  BY DEF Fresh
<1> HIDE DEF d, e, f
<1>6. ConvInv(f)
  BY <1>2, <1>3, <1>4, <1>5, Beginning DEF Done
<1>7. conv = [t \in Task |-> f] /\ list = <<>> /\ timer = FALSE /\ ui = Idle
  BY DEF Init, f
<1>8. Typed
  <2>1. conv \in [Task -> Conv]
    BY <1>4, <1>7
  <2>2. list \in Seq(Task) /\ IsInjective(list)
    BY <1>7 DEF IsInjective
  <2>3. timer \in BOOLEAN
    BY <1>7
  <2>4. ui \in [pc : {"idle", "update", "join"}, task : SUBSET Task, i : Nat]
    BY <1>7 DEF Idle
  <2> QED BY <2>1, <2>2, <2>3, <2>4 DEF Typed
<1>9. ListInv
  BY <1>7 DEF ListInv, Idle, Contains
<1>10. HeldWhileRunning /\ TimerRuns
  BY <1>5, <1>7 DEF HeldWhileRunning, TimerRuns
<1>11. \A t \in Task : ConvInv(conv[t])
  BY <1>6, <1>7
<1> QED BY <1>8, <1>9, <1>10, <1>11 DEF IInv

(* The invariant is inductive.                                             *)
THEOREM ConversionInvariance == Spec => []IInv
<1>1. Init => IInv
  BY InitOk
<1>2. IInv /\ [Next]_vars => IInv'
  <2> SUFFICES ASSUME IInv, [Next]_vars PROVE IInv'
    OBVIOUS
  <2>1. ASSUME NEW t \in Task, Worker(t) PROVE IInv'
    BY <2>1, OpenDecoderStep, OpenOutputStep, SetRangeStep, TranscodeStep, LeaveLoopStep, CloseBothStep, FinishStep
       DEF Worker
  <2>2. ASSUME NEW t \in Task, SlotCancelTask(t) PROVE IInv'
    BY <2>2, SlotCancelTaskStep
  <2>3. ASSUME NEW t \in Task, NEW i \in Chosen[t], AddTask(t, i) PROVE IInv'
    BY <2>3, AddTaskStep
  <2>4. CASE UiThread
    BY <2>4, SlotUpdateProgressStep, UpdateRowStep, JoinStep, EndUpdateStep DEF UiThread
  <2>5. CASE UNCHANGED vars
    BY <2>5 DEF vars, IInv, Typed, ListInv, HeldWhileRunning, TimerRuns
  <2> QED BY <2>1, <2>2, <2>3, <2>4, <2>5 DEF Next
<1> QED BY <1>1, <1>2, PTL DEF Spec

(* What stands in an output is the range in its order, the rows hold every *)
(* running thread, and the timer runs while there is a row.                *)
THEOREM AlwaysInOrder == Spec => []ConversionInv
<1>1. IInv => ConversionInv
  BY IInvSays
<1> QED BY <1>1, ConversionInvariance, PTL

(* The output of a conversion that came to its end by itself is the whole  *)
(* range, and less than a run beyond it; and a header tells its length.    *)
THEOREM AlwaysWhole == Spec => []WholeRange
<1>1. IInv => WholeRange
  BY IInvSays
<1> QED BY <1>1, ConversionInvariance, PTL

=============================================================================
