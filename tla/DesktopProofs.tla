---------------------------- MODULE DesktopProofs ----------------------------
(***************************************************************************)
(* What is true of the desktop player, from the device up to its window.   *)
(*                                                                         *)
(* The output plug-ins, for a ring of any size, Writes of any lengths and  *)
(* devices of any formats.  The two threads of the CoreAudio output share  *)
(* two indexes, of which each writes one.  What holds them together is     *)
(* Counted: from the place where the callback reads on, the memory has the *)
(* frames that follow the ones heard, as many as the indexes are apart,    *)
(* and those copied behind them before the index of the writer is moved.   *)
(*                                                                         *)
(* The window, for any files, any lists left by an earlier session and any *)
(* number of tabs.  What holds it together is what the files have while no *)
(* process runs (AgreeInv, KeptInv), and between the writing of the lists  *)
(* and of their number (ClosingInv).                                       *)
(***************************************************************************)
EXTENDS MCDesktop, SequenceTheorems, TLAPS

-----------------------------------------------------------------------------
(* Numbers.                                                                *)

(* An index or a difference of two, reduced once.                          *)
LEMMA ModNear ==
  ASSUME NEW m \in Nat \ {0}, NEW x \in Int, x >= -m, x < 2 * m
  PROVE  x % m = IF x < 0 THEN x + m ELSE IF x < m THEN x ELSE x - m
OBVIOUS

(* A place in the memory, from an index that is below twice its size.      *)
LEMMA PlaceFacts ==
  ASSUME NEW m \in Nat \ {0}, NEW x \in 0 .. 3 * m - 1
  PROVE  /\ x % m = IF x < m THEN x ELSE IF x < 2 * m THEN x - m ELSE x - 2 * m
         /\ x % m \in 0 .. m - 1
OBVIOUS

(* The places behind what there is to read are those behind the writer's   *)
(* index, are others than those to read, and differ, up to the size of the *)
(* memory.                                                                 *)
LEMMA PlacesApart ==
  ASSUME NEW m \in Nat \ {0}, NEW r \in 0 .. 2 * m - 1, NEW w \in 0 .. 2 * m - 1, NEW a \in 0 .. m,
         a = IF w >= r THEN w - r ELSE w - r + 2 * m,
         NEW n \in Nat, n <= m - a, NEW j \in 1 .. n
  PROVE  /\ (r + a + j - 1) % m = (w + j - 1) % m
         /\ \A k \in 1 .. a : (r + k - 1) % m # (w + j - 1) % m
         /\ \A i \in 1 .. n : (w + i - 1) % m = (w + j - 1) % m => i = j
<1>1. \A x \in 0 .. 3 * m - 1 : x % m = IF x < m THEN x ELSE IF x < 2 * m THEN x - m ELSE x - 2 * m
  BY PlaceFacts
<1>2. w + j - 1 \in 0 .. 3 * m - 1 /\ r + a + j - 1 \in 0 .. 3 * m - 1
  OBVIOUS
<1>3. (r + a + j - 1) % m = (w + j - 1) % m
  BY <1>1, <1>2
<1>4. ASSUME NEW k \in 1 .. a PROVE (r + k - 1) % m # (w + j - 1) % m
  <2>1. r + k - 1 \in 0 .. 3 * m - 1
    OBVIOUS
  <2>2. QED
    BY <1>1, <1>2, <2>1
<1>5. ASSUME NEW i \in 1 .. n, (w + i - 1) % m = (w + j - 1) % m PROVE i = j
  <2>1. w + i - 1 \in 0 .. 3 * m - 1
    OBVIOUS
  <2>2. QED
    BY <1>1, <1>2, <1>5, <2>1
<1>6. QED
  BY <1>3, <1>4, <1>5

-----------------------------------------------------------------------------
(* The ring.                                                               *)

N == RingSize

RingType ==
  /\ ring \in [size : {0, N}, masked : BOOLEAN, w : 0 .. 2 * N - 1, r : 0 .. 2 * N - 1, mem : [0 .. N - 1 -> Nat]]
  /\ (ring.masked => ring.size = N)
  /\ (~ring.masked => ring.w = 0 /\ ring.r = 0)

(* What the indexes say is there to read.                                  *)
LEMMA AvailableFacts ==
  ASSUME Sizes
  PROVE  RingType => ReadAvailable = IF ~ring.masked THEN 0
                                     ELSE IF ring.w >= ring.r THEN ring.w - ring.r ELSE ring.w - ring.r + 2 * N
<1> SUFFICES ASSUME RingType, ring.masked
             PROVE  ReadAvailable = IF ring.w >= ring.r THEN ring.w - ring.r ELSE ring.w - ring.r + 2 * N
  BY DEF ReadAvailable, Wrapped
<1>1. N \in Nat \ {0} /\ 2 * N \in Nat \ {0}
  BY DEF Sizes, N
<1>2. ring.w \in 0 .. 2 * N - 1 /\ ring.r \in 0 .. 2 * N - 1 /\ ring.size = N
  BY DEF RingType
<1>3. ring.w - ring.r \in Int /\ ring.w - ring.r >= -(2 * N) /\ ring.w - ring.r < 2 * (2 * N)
  BY <1>1, <1>2
<1>4. ReadAvailable = (ring.w - ring.r) % (2 * N)
  BY <1>2 DEF ReadAvailable, Wrapped
<1>5. (ring.w - ring.r) % (2 * N)
        = IF ring.w - ring.r < 0 THEN ring.w - ring.r + 2 * N
          ELSE IF ring.w - ring.r < 2 * N THEN ring.w - ring.r ELSE ring.w - ring.r - 2 * N
  BY <1>1, <1>3, ModNear
<1>6. QED
  BY <1>1, <1>2, <1>4, <1>5

RenderType ==
  /\ render \in [at : {"idle", "copy", "advance", "signal"}, n : 0 .. N]
  /\ (render.at = "idle" => render.n = 0)
  /\ (~ring.masked => render.n = 0)
  /\ (~unit => render.at = "idle")

Stages == {"idle", "copy", "advance", "wait", "asleep", "drop", "close", "open", "init", "mask", "loop"}

OutType ==
  /\ out \in [at : Stages, len : Nat, n : Nat]
  /\ unit \in BOOLEAN /\ grew \in BOOLEAN
  /\ sent \in 0 .. FrameBound /\ heard \in Seq(Nat)
  /\ (out.at \in {"copy", "advance"} => sent + out.len <= FrameBound)
  /\ (out.at \in {"init", "mask"} => unit /\ ~ring.masked)
  /\ (out.at \notin {"init", "mask"} => (unit <=> ring.masked))
  /\ (out.at = "open" => ~unit /\ ring = NoRing)
  /\ (out.at = "mask" => ring.size = N)

(* Neither thread takes more than there is.                                *)
Bounds ==
  ~Dropping =>
    /\ ReadAvailable \in 0 .. ring.size
    /\ (render.at \in {"copy", "advance"} => render.n <= ReadAvailable)
    /\ (out.at \in {"copy", "advance"} => out.n <= WriteAvailable)

Done == IF render.at = "advance" THEN render.n ELSE 0
Copied == IF out.at = "advance" THEN out.n ELSE 0

(* What is in the memory.                                                  *)
Counted ==
  unit /\ ~Dropping /\ ~grew =>
    /\ Done <= Len(heard)
    /\ heard = [k \in 1 .. Len(heard) |-> k]
    /\ sent = Len(heard) - Done + ReadAvailable
    /\ (out.at \in {"idle", "init", "mask"} => out.len <= N - ReadAvailable)
    /\ (out.at \in {"copy", "advance"} => out.n = out.len)
    /\ \A k \in 1 .. ReadAvailable + Copied : ring.mem[(ring.r + k - 1) % N] = Len(heard) - Done + k

RingInv == RingType /\ RenderType /\ OutType /\ Bounds /\ Counted

-----------------------------------------------------------------------------
(* The steps that leave the ring alone.                                    *)

(* What there is to read and to write stays the same.                      *)
LEMMA SameRing ==
  ASSUME ring' = ring
  PROVE  ReadAvailable' = ReadAvailable /\ WriteAvailable' = WriteAvailable /\ (RingType => RingType')
BY DEF ReadAvailable, WriteAvailable, Wrapped, RingType

(* Numbers in the ring.                                                    *)
LEMMA RingFacts ==
  ASSUME Sizes, RingInv
  PROVE  /\ N \in Nat \ {0} /\ Lengths \subseteq Nat /\ FrameBound \in Nat
         /\ ring.w \in 0 .. 2 * N - 1 /\ ring.r \in 0 .. 2 * N - 1 /\ ring.size \in {0, N}
         /\ ring.mem \in [0 .. N - 1 -> Nat] /\ ring.masked \in BOOLEAN
         /\ ReadAvailable = (IF ~ring.masked THEN 0
                             ELSE IF ring.w >= ring.r THEN ring.w - ring.r ELSE ring.w - ring.r + 2 * N)
         /\ ReadAvailable \in 0 .. 2 * N - 1
         /\ WriteAvailable = ring.size - ReadAvailable
         /\ render.n \in 0 .. N /\ out.len \in Nat /\ out.n \in Nat
         /\ sent \in 0 .. FrameBound /\ heard \in Seq(Nat) /\ Len(heard) \in Nat
<1>1. N \in Nat \ {0} /\ Lengths \subseteq Nat /\ FrameBound \in Nat
  BY DEF Sizes, N
<1>2. /\ ring.w \in 0 .. 2 * N - 1 /\ ring.r \in 0 .. 2 * N - 1 /\ ring.size \in {0, N}
      /\ ring.mem \in [0 .. N - 1 -> Nat] /\ ring.masked \in BOOLEAN
  BY DEF RingInv, RingType
<1>3. ReadAvailable = (IF ~ring.masked THEN 0
                       ELSE IF ring.w >= ring.r THEN ring.w - ring.r ELSE ring.w - ring.r + 2 * N)
  BY AvailableFacts DEF RingInv
<1>4. render.n \in 0 .. N /\ out.len \in Nat /\ out.n \in Nat
  BY DEF RingInv, RenderType, OutType
<1>5. sent \in 0 .. FrameBound /\ heard \in Seq(Nat) /\ Len(heard) \in Nat
  BY DEF RingInv, OutType
<1>6. ReadAvailable \in 0 .. 2 * N - 1
  BY <1>1, <1>2, <1>3
<1>7. WriteAvailable = ring.size - ReadAvailable
  BY DEF WriteAvailable
<1>8. QED
  BY <1>1, <1>2, <1>3, <1>4, <1>5, <1>6, <1>7

(* A Write begins.                                                         *)
LEMMA WriteRegionsStep ==
  ASSUME Sizes, RingInv, NEW len \in Lengths, WriteRegions(len)
  PROVE  RingInv'
<1>1. /\ ring' = ring /\ unit' = unit /\ render' = render /\ sent' = sent /\ heard' = heard
      /\ out.at = "idle" /\ out' = [at |-> "copy", len |-> len, n |-> Least(len, WriteAvailable)]
      /\ sent + len <= FrameBound /\ grew' = (grew \/ len > out.len)
  BY DEF WriteRegions
<1>2. ReadAvailable' = ReadAvailable /\ WriteAvailable' = WriteAvailable /\ RingType'
  BY <1>1, SameRing DEF RingInv
<1>3. len \in Nat /\ ~Dropping /\ ~Dropping' /\ Done' = Done /\ Copied' = 0 /\ Copied = 0
  BY <1>1, RingFacts DEF Dropping, Done, Copied
<1>4. ReadAvailable \in 0 .. ring.size /\ ring.size \in Nat /\ WriteAvailable \in Nat
  BY <1>3, RingFacts DEF RingInv, Bounds
<1>5. Least(len, WriteAvailable) \in Nat /\ Least(len, WriteAvailable) <= WriteAvailable
  BY <1>3, <1>4 DEF Least
<1>6. RenderType'
  BY <1>1 DEF RingInv, RenderType
<1>7. OutType'
  BY <1>1, <1>3, <1>5 DEF RingInv, OutType, Stages
<1>8. Bounds'
  BY <1>1, <1>2, <1>3, <1>5 DEF RingInv, Bounds
<1>9. Counted'
  <2> SUFFICES ASSUME unit', ~grew' PROVE Counted'
    BY DEF Counted
  <2>1. unit /\ ~grew /\ len <= out.len /\ ring.size = N
    BY <1>1, <1>3, RingFacts DEF RingInv, OutType, RingType
  <2>2. len <= WriteAvailable /\ out'.n = len /\ out'.len = len /\ out'.at = "copy"
    <3>1. out.len <= N - ReadAvailable
      BY <1>1, <1>3, <2>1 DEF RingInv, Counted
    <3>2. len <= WriteAvailable
      BY <1>3, <2>1, <3>1, RingFacts
    <3>3. Least(len, WriteAvailable) = len
      BY <1>3, <1>4, <3>2 DEF Least
    <3>4. QED
      BY <1>1, <3>2, <3>3
  <2>3. QED
    BY <1>1, <1>2, <1>3, <2>1, <2>2 DEF RingInv, Counted
<1>10. QED
  BY <1>2, <1>6, <1>7, <1>8, <1>9 DEF RingInv

(* The thread looks for room, or sleeps.                                   *)
LEMMA WaitStep ==
  ASSUME Sizes, RingInv, Wait
  PROVE  RingInv'
<1>1. /\ ring' = ring /\ unit' = unit /\ render' = render /\ sent' = sent /\ heard' = heard /\ grew' = grew
      /\ out.at = "wait" /\ out' = [out EXCEPT !.at = IF WriteAvailable >= out.len THEN "idle" ELSE "asleep"]
  BY DEF Wait
<1>2. ReadAvailable' = ReadAvailable /\ WriteAvailable' = WriteAvailable /\ RingType'
  BY <1>1, SameRing DEF RingInv
<1>3. /\ out'.at \in {"idle", "asleep"} /\ out'.len = out.len /\ out'.n = out.n
      /\ (out'.at = "idle" => WriteAvailable >= out.len)
  BY <1>1 DEF RingInv, OutType
<1>4. ~Dropping /\ ~Dropping' /\ Done' = Done /\ Copied' = 0 /\ Copied = 0
  BY <1>1, <1>3 DEF Dropping, Done, Copied
<1>5. RenderType'
  BY <1>1 DEF RingInv, RenderType
<1>6. OutType'
  BY <1>1, <1>3 DEF RingInv, OutType, Stages
<1>7. Bounds'
  BY <1>1, <1>2, <1>3, <1>4 DEF RingInv, Bounds
<1>8. Counted'
  <2> SUFFICES ASSUME unit', ~grew' PROVE Counted'
    BY DEF Counted
  <2>1. unit /\ ~grew /\ ring.size = N
    BY <1>1 DEF RingInv, OutType, RingType
  <2>2. out'.at = "idle" => out'.len <= N - ReadAvailable'
    BY <1>2, <1>3, <2>1, RingFacts
  <2>3. QED
    BY <1>1, <1>2, <1>3, <1>4, <2>1, <2>2 DEF RingInv, Counted
<1>9. QED
  BY <1>2, <1>5, <1>6, <1>7, <1>8 DEF RingInv

(* The callback is asked for something.                                    *)
LEMMA ReadRegionsStep ==
  ASSUME Sizes, RingInv, ReadRegions
  PROVE  RingInv'
<1>1. PICK count \in 1 .. N : render' = [at |-> "copy", n |-> Least(count, ReadAvailable)]
  BY DEF ReadRegions, N
<1>2. /\ ring' = ring /\ unit' = unit /\ out' = out /\ sent' = sent /\ heard' = heard /\ grew' = grew
      /\ unit /\ render.at = "idle"
  BY DEF ReadRegions
<1>3. ReadAvailable' = ReadAvailable /\ WriteAvailable' = WriteAvailable /\ RingType'
  BY <1>2, SameRing DEF RingInv
<1>4. Least(count, ReadAvailable) \in 0 .. N /\ Least(count, ReadAvailable) <= ReadAvailable
  BY RingFacts DEF Least
<1>5. render'.at = "copy" /\ render'.n \in 0 .. N /\ render'.n <= ReadAvailable
  BY <1>1, <1>4
<1>6. Done' = 0 /\ Done = 0 /\ Copied' = Copied /\ Dropping' = Dropping
  BY <1>2, <1>5 DEF Done, Copied, Dropping
<1>7. RenderType'
  <2>1. ~ring.masked => render'.n = 0
    BY <1>5, RingFacts
  <2>2. render' \in [at : {"idle", "copy", "advance", "signal"}, n : 0 .. N]
    BY <1>1, <1>4
  <2>3. QED
    BY <1>2, <1>5, <2>1, <2>2 DEF RenderType
<1>8. OutType'
  BY <1>2 DEF RingInv, OutType
<1>9. Bounds'
  BY <1>2, <1>3, <1>5, <1>6 DEF RingInv, Bounds
<1>10. Counted'
  BY <1>2, <1>3, <1>6 DEF RingInv, Counted
<1>11. QED
  BY <1>3, <1>7, <1>8, <1>9, <1>10 DEF RingInv

(* The callback has passed on what it took, and wakes the other thread.    *)
LEMMA SignalStep ==
  ASSUME Sizes, RingInv, Signal
  PROVE  RingInv'
<1>1. /\ ring' = ring /\ unit' = unit /\ sent' = sent /\ heard' = heard /\ grew' = grew
      /\ render.at = "signal" /\ render' = [at |-> "idle", n |-> 0]
      /\ out' = (IF out.at = "asleep" THEN [out EXCEPT !.at = "wait"] ELSE out)
  BY DEF Signal
<1>2. ReadAvailable' = ReadAvailable /\ WriteAvailable' = WriteAvailable /\ RingType'
  BY <1>1, SameRing DEF RingInv
<1>3. /\ out'.at = (IF out.at = "asleep" THEN "wait" ELSE out.at) /\ out'.len = out.len /\ out'.n = out.n
      /\ out' \in [at : Stages, len : Nat, n : Nat]
  BY <1>1 DEF RingInv, OutType, Stages
<1>4. Done' = 0 /\ Done = 0 /\ Copied' = Copied /\ Dropping' = Dropping
  BY <1>1, <1>3 DEF Done, Copied, Dropping
<1>5. RenderType'
  BY <1>1, RingFacts DEF RenderType
<1>6. OutType'
  BY <1>1, <1>3 DEF RingInv, OutType
<1>7. Bounds'
  BY <1>1, <1>2, <1>3, <1>4 DEF RingInv, Bounds
<1>8. Counted'
  BY <1>1, <1>2, <1>3, <1>4 DEF RingInv, Counted
<1>9. QED
  BY <1>2, <1>5, <1>6, <1>7, <1>8 DEF RingInv

-----------------------------------------------------------------------------
(* The steps that copy.                                                    *)

(* The callback takes the frames that follow those heard.                  *)
LEMMA ReadCopyStep ==
  ASSUME Sizes, RingInv, ReadCopy
  PROVE  RingInv'
<1> DEFINE n == render.n
           taken == [k \in 1 .. n |-> ring.mem[(ring.r + k - 1) % ring.size]]
<1>1. /\ ring' = ring /\ unit' = unit /\ out' = out /\ sent' = sent /\ grew' = grew
      /\ render.at = "copy" /\ render' = [render EXCEPT !.at = "advance"]
      /\ heard' = heard \o taken
  BY DEF ReadCopy, Places
<1> HIDE DEF n
<1>2. ReadAvailable' = ReadAvailable /\ WriteAvailable' = WriteAvailable /\ RingType'
  BY <1>1, SameRing DEF RingInv
<1>3. render' = [at |-> "advance", n |-> n] /\ n \in 0 .. N /\ (~ring.masked => n = 0)
  BY <1>1 DEF RingInv, RenderType, n
<1>4. Done' = n /\ Done = 0 /\ Copied' = Copied /\ Dropping' = Dropping
  BY <1>1, <1>3 DEF Done, Copied, Dropping
<1>5. \A k \in 1 .. n : ring.size = N /\ (ring.r + k - 1) % N \in 0 .. N - 1
  <2> TAKE k \in 1 .. n
  <2>1. ring.size = N
    BY <1>3 DEF RingInv, RingType
  <2>2. k \in 1 .. N /\ ring.r \in 0 .. 2 * N - 1 /\ N \in Nat \ {0}
    BY <1>3, RingFacts
  <2>3. ring.r + k - 1 \in 0 .. 3 * N - 1
    BY <2>2
  <2>4. QED
    BY <2>1, <2>2, <2>3, PlaceFacts
<1>6. taken \in Seq(Nat) /\ Len(taken) = n
  <2>1. \A k \in 1 .. n : ring.mem[(ring.r + k - 1) % ring.size] \in Nat
    BY <1>5, RingFacts
  <2>2. QED
    BY <1>3, <2>1
<1> HIDE DEF taken
<1>7. /\ heard' \in Seq(Nat) /\ Len(heard') = Len(heard) + n
      /\ \A k \in 1 .. Len(heard) + n :
           heard'[k] = IF k <= Len(heard) THEN heard[k] ELSE taken[k - Len(heard)]
  BY <1>1, <1>6, RingFacts, ConcatProperties
<1>8. RenderType'
  BY <1>1, <1>3 DEF RingInv, RenderType
<1>9. OutType'
  BY <1>1, <1>7 DEF RingInv, OutType
<1>10. Bounds'
  BY <1>1, <1>2, <1>3, <1>4 DEF RingInv, Bounds, n
<1>11. Counted'
  <2> SUFFICES ASSUME unit', ~Dropping', ~grew' PROVE Counted'
    BY DEF Counted
  <2>1. unit /\ ~Dropping /\ ~grew /\ Counted
    BY <1>1, <1>4 DEF RingInv
  <2>2. n <= ReadAvailable
    BY <1>1, <2>1 DEF RingInv, Bounds, n
  <2>3. \A k \in 1 .. n : taken[k] = Len(heard) + k
    <3> TAKE k \in 1 .. n
    <3>1. k \in 1 .. ReadAvailable + Copied
      <4>1. n \in Nat /\ k \in 1 .. n /\ Copied \in Nat /\ ReadAvailable \in Nat
        BY <1>3, RingFacts DEF Copied
      <4>2. QED
        BY <2>2, <4>1
    <3>2. ring.mem[(ring.r + k - 1) % N] = Len(heard) - 0 + k
      BY <1>4, <2>1, <3>1 DEF Counted
    <3>3. taken[k] = ring.mem[(ring.r + k - 1) % N]
      BY <1>5 DEF taken
    <3>4. QED
      BY <3>2, <3>3, RingFacts
  <2>4. \A k \in 1 .. Len(heard) + n : heard'[k] = k
    <3> TAKE k \in 1 .. Len(heard) + n
    <3>1. CASE k <= Len(heard)
      <4>1. heard[k] = k
        BY <2>1, <3>1, RingFacts DEF Counted
      <4>2. QED
        BY <1>7, <3>1, <4>1
    <3>2. CASE ~(k <= Len(heard))
      <4>1. k - Len(heard) \in 1 .. n /\ k \in Int
        BY <1>3, <3>2, RingFacts
      <4>2. taken[k - Len(heard)] = Len(heard) + (k - Len(heard))
        BY <2>3, <4>1
      <4>3. Len(heard) + (k - Len(heard)) = k
        BY <4>1, RingFacts
      <4>4. QED
        BY <1>7, <3>2, <4>2, <4>3
    <3>3. QED
      BY <3>1, <3>2
  <2>5. heard' = [k \in 1 .. Len(heard') |-> k]
    BY <1>7, <2>4
  <2>6. Len(heard') - Done' = Len(heard) - Done /\ Done' <= Len(heard')
    BY <1>3, <1>4, <1>7, RingFacts
  <2>7. QED
    BY <1>1, <1>2, <1>4, <2>1, <2>5, <2>6 DEF Counted
<1>12. QED
  BY <1>2, <1>8, <1>9, <1>10, <1>11 DEF RingInv

(* The thread puts its frames behind those that are there.                 *)
LEMMA WriteCopyStep ==
  ASSUME Sizes, RingInv, WriteCopy
  PROVE  RingInv'
<1> DEFINE n == out.n
           place == [k \in 1 .. n |-> (ring.w + k - 1) % ring.size]
           mem == [p \in 0 .. N - 1 |->
                     IF \E k \in 1 .. n : place[k] = p
                     THEN sent + (CHOOSE k \in 1 .. n : place[k] = p) ELSE ring.mem[p]]
<1>1. /\ unit' = unit /\ render' = render /\ sent' = sent /\ heard' = heard /\ grew' = grew
      /\ out.at = "copy" /\ out' = [out EXCEPT !.at = "advance"]
  BY DEF WriteCopy
<1>2. ring' = [ring EXCEPT !.mem = mem]
  <2>1. DOMAIN ring.mem = 0 .. N - 1 /\ DOMAIN place = 1 .. n
    BY RingFacts
  <2>2. Places(ring.w, out.n) = place
    BY DEF Places
  <2>3. QED
    BY <2>1, <2>2 DEF WriteCopy
<1>3. n \in Nat /\ sent \in Nat
  BY RingFacts
<1>4. mem \in [0 .. N - 1 -> Nat]
  <2>1. \A p \in 0 .. N - 1 : mem[p] \in Nat
    <3> TAKE p \in 0 .. N - 1
    <3>1. CASE \E k \in 1 .. n : place[k] = p
      <4>1. (CHOOSE k \in 1 .. n : place[k] = p) \in 1 .. n
        BY <3>1
      <4>2. QED
        BY <1>3, <3>1, <4>1
    <3>2. CASE ~(\E k \in 1 .. n : place[k] = p)
      BY <3>2, RingFacts
    <3>3. QED
      BY <3>1, <3>2
  <2>2. QED
    BY <2>1
<1> HIDE DEF n, mem
<1>5. /\ ring'.size = ring.size /\ ring'.masked = ring.masked /\ ring'.w = ring.w /\ ring'.r = ring.r
      /\ ring'.mem = mem /\ RingType'
  BY <1>2, <1>4 DEF RingInv, RingType
<1>6. ReadAvailable' = ReadAvailable /\ WriteAvailable' = WriteAvailable
  BY <1>5 DEF ReadAvailable, WriteAvailable, Wrapped
<1>7. out'.at = "advance" /\ out'.len = out.len /\ out'.n = n /\ out.n = n /\ out' \in [at : Stages, len : Nat, n : Nat]
  BY <1>1 DEF RingInv, OutType, Stages, n
<1>8. ~Dropping /\ ~Dropping' /\ Done' = Done /\ Copied = 0 /\ Copied' = n
  BY <1>1, <1>7 DEF Dropping, Done, Copied
<1>9. RenderType'
  BY <1>1, <1>5 DEF RingInv, RenderType
<1>10. OutType'
  BY <1>1, <1>5, <1>7 DEF RingInv, OutType
<1>11. Bounds'
  BY <1>1, <1>5, <1>6, <1>7, <1>8 DEF RingInv, Bounds
<1>12. Counted'
  <2> SUFFICES ASSUME unit', ~grew' PROVE Counted'
    BY DEF Counted
  <2>1. unit /\ ~grew /\ ring.masked /\ ring.size = N
    BY <1>1 DEF RingInv, OutType, RingType
  <2> DEFINE avail == ReadAvailable
             first == Len(heard) - Done
  <2>2. /\ N \in Nat \ {0} /\ ring.r \in 0 .. 2 * N - 1 /\ ring.w \in 0 .. 2 * N - 1
        /\ avail = (IF ring.w >= ring.r THEN ring.w - ring.r ELSE ring.w - ring.r + 2 * N)
        /\ avail \in 0 .. N /\ n <= N - avail
    <3>1. avail \in 0 .. N /\ n <= WriteAvailable
      BY <1>1, <1>7, <1>8, <2>1 DEF RingInv, Bounds
    <3>2. QED
      BY <2>1, <3>1, RingFacts
  <2>3. /\ sent = first + avail
        /\ \A k \in 1 .. avail + 0 : ring.mem[(ring.r + k - 1) % N] = first + k
        /\ n = out.len
    BY <1>1, <1>7, <1>8, <2>1 DEF RingInv, Counted
  <2>4. first \in Int
    BY RingFacts DEF RingInv, RenderType, Done
  <2> HIDE DEF avail, first
  <2>apart. ASSUME NEW j \in 1 .. n
            PROVE  /\ (ring.r + avail + j - 1) % N = (ring.w + j - 1) % N
                   /\ \A k \in 1 .. avail : (ring.r + k - 1) % N # (ring.w + j - 1) % N
                   /\ \A i \in 1 .. n : (ring.w + i - 1) % N = (ring.w + j - 1) % N => i = j
    <3> DEFINE r == ring.r
               w == ring.w
    <3>1. /\ N \in Nat \ {0} /\ r \in 0 .. 2 * N - 1 /\ w \in 0 .. 2 * N - 1 /\ avail \in 0 .. N
          /\ avail = (IF w >= r THEN w - r ELSE w - r + 2 * N) /\ n \in Nat /\ n <= N - avail /\ j \in 1 .. n
      BY <1>3, <2>2
    <3> HIDE DEF r, w, N
    <3>2. /\ (r + avail + j - 1) % N = (w + j - 1) % N
          /\ \A k \in 1 .. avail : (r + k - 1) % N # (w + j - 1) % N
          /\ \A i \in 1 .. n : (w + i - 1) % N = (w + j - 1) % N => i = j
      BY ONLY <3>1, PlacesApart
    <3>3. QED
      BY <3>2 DEF r, w
  <2>5. \A k \in 1 .. avail + n : mem[(ring.r + k - 1) % N] = first + k
    <3> TAKE k \in 1 .. avail + n
    <3>1. (ring.r + k - 1) % N \in 0 .. N - 1
      <4>1. k \in 1 .. N /\ ring.r + k - 1 \in 0 .. 3 * N - 1
        BY <1>3, <2>2
      <4>2. QED
        BY <2>2, <4>1, PlaceFacts
    <3>2. \A j \in 1 .. n : place[j] = (ring.w + j - 1) % N
      BY <2>1
    <3> HIDE DEF place
    <3>3. CASE k <= avail
      <4>1. k \in 1 .. avail
        BY <1>3, <2>2, <3>3
      <4>2. \A j \in 1 .. n : place[j] # (ring.r + k - 1) % N
        BY <2>apart, <3>2, <4>1
      <4>3. mem[(ring.r + k - 1) % N] = ring.mem[(ring.r + k - 1) % N]
        BY <3>1, <4>2 DEF mem
      <4>4. ring.mem[(ring.r + k - 1) % N] = first + k
        BY <2>2, <2>3, <4>1
      <4>5. QED
        BY <4>3, <4>4
    <3>4. CASE ~(k <= avail)
      <4> DEFINE j == k - avail
      <4>1. j \in 1 .. n /\ k \in Int /\ ring.r + k - 1 = ring.r + avail + j - 1
        BY <1>3, <2>2, <3>4
      <4> HIDE DEF j
      <4>2. (ring.r + avail + j - 1) % N = (ring.w + j - 1) % N
        BY <2>apart, <4>1
      <4>3. place[j] = (ring.r + k - 1) % N
        BY <3>2, <4>1, <4>2
      <4>4. \A i \in 1 .. n : (ring.w + i - 1) % N = (ring.w + j - 1) % N => i = j
        BY <2>apart, <4>1
      <4>5. \A i \in 1 .. n : place[i] = (ring.r + k - 1) % N => i = j
        BY <3>2, <4>1, <4>2, <4>4
      <4>6. (CHOOSE i \in 1 .. n : place[i] = (ring.r + k - 1) % N) = j
        BY <4>1, <4>3, <4>5
      <4>7. mem[(ring.r + k - 1) % N] = sent + j
        BY <3>1, <4>1, <4>3, <4>6 DEF mem
      <4>8. sent + j = first + k
        BY <2>2, <2>3, <2>4, <4>1 DEF j
      <4>9. QED
        BY <4>7, <4>8
    <3>5. QED
      BY <3>3, <3>4
  <2>6. ReadAvailable' = avail /\ Len(heard') - Done' = first /\ ring'.mem = mem /\ ring'.r = ring.r
    BY <1>1, <1>5, <1>6, <1>8 DEF avail, first
  <2>7. Done' <= Len(heard') /\ heard' = [k \in 1 .. Len(heard') |-> k]
    BY <1>1, <1>8, <2>1 DEF RingInv, Counted
  <2>8. QED
    BY <1>1, <1>7, <1>8, <2>3, <2>5, <2>6, <2>7 DEF Counted
<1>13. QED
  BY <1>5, <1>9, <1>10, <1>11, <1>12 DEF RingInv

-----------------------------------------------------------------------------
(* The steps that move an index.                                           *)

(* An index goes on by at most the size of the memory.                     *)
LEMMA WrappedFacts ==
  ASSUME Sizes, RingInv, ring.masked, NEW i \in 0 .. 2 * N - 1, NEW n \in 0 .. N
  PROVE  Wrapped(i + n) = IF i + n < 2 * N THEN i + n ELSE (i + n) - (2 * N)
<1>1. N \in Nat \ {0} /\ ring.size = N
  BY RingFacts DEF RingInv, RingType
<1>2. Wrapped(i + n) = (i + n) % (2 * N)
  BY <1>1 DEF Wrapped
<1> DEFINE m == 2 * N
           x == i + n
<1>3. m \in Nat \ {0} /\ x \in Int /\ x >= -m /\ x < 2 * m /\ ~(x < 0)
  BY <1>1
<1> HIDE DEF m, x
<1>4. x % m = IF x < 0 THEN x + m ELSE IF x < m THEN x ELSE x - m
  BY <1>3, ModNear
<1>5. x % m = IF x < m THEN x ELSE x - m
  BY <1>3, <1>4
<1>6. Wrapped(i + n) = IF x < m THEN x ELSE x - m
  <2>1. Wrapped(i + n) = x % m
    BY <1>2 DEF m, x
  <2>2. QED
    BY <1>5, <2>1
<1>7. QED
  BY <1>6, Zenon DEF m, x

(* The frames that were copied are there to read.                          *)
LEMMA AdvanceWriteStep ==
  ASSUME Sizes, RingInv, AdvanceWrite
  PROVE  RingInv'
<1> DEFINE n == out.n
           w == IF ring.masked THEN IF ring.w + n < 2 * N THEN ring.w + n ELSE (ring.w + n) - (2 * N) ELSE 0
<1>1. /\ unit' = unit /\ render' = render /\ sent' = sent + out.len /\ heard' = heard /\ grew' = grew
      /\ out.at = "advance" /\ out' = [out EXCEPT !.at = "wait"]
      /\ ring' = [ring EXCEPT !.w = Wrapped(ring.w + n)]
  BY DEF AdvanceWrite
<1>2. ~Dropping /\ ~Dropping' /\ Done' = Done /\ Copied = n /\ Copied' = 0
  <2>1. out'.at = "wait"
    BY <1>1 DEF RingInv, OutType
  <2>2. QED
    BY <1>1, <2>1 DEF Dropping, Done, Copied
<1>3. /\ n \in Nat /\ ReadAvailable \in 0 .. ring.size /\ n <= ring.size - ReadAvailable
      /\ n \in 0 .. N /\ ring.size \in {0, N} /\ N \in Nat \ {0}
  <2>1. ReadAvailable \in 0 .. ring.size /\ n <= WriteAvailable /\ n \in Nat
    BY <1>1, <1>2, RingFacts DEF RingInv, Bounds
  <2>2. QED
    BY <2>1, RingFacts
<1>4. Wrapped(ring.w + n) = w
  <2>1. CASE ring.masked
    <3>1. ring.w \in 0 .. 2 * N - 1 /\ n \in 0 .. N
      BY <1>3, RingFacts
    <3> DEFINE i == ring.w
    <3> HIDE DEF n, i
    <3>2. i \in 0 .. 2 * N - 1 /\ n \in 0 .. N
      BY <3>1 DEF i
    <3>3. Wrapped(i + n) = IF i + n < 2 * N THEN i + n ELSE (i + n) - (2 * N)
      BY <2>1, <3>2, WrappedFacts
    <3>4. QED
      BY <2>1, <3>3, Zenon DEF i
  <2>2. QED
    BY <2>1 DEF Wrapped
<1>5. w \in 0 .. 2 * N - 1 /\ (~ring.masked => w = 0)
  <2>1. ring.w \in 0 .. 2 * N - 1
    BY RingFacts
  <2> HIDE DEF n
  <2>2. QED
    BY <1>3, <2>1
<1>6. /\ ring'.size = ring.size /\ ring'.masked = ring.masked /\ ring'.w = w /\ ring'.r = ring.r
      /\ ring'.mem = ring.mem /\ RingType'
  <2> HIDE DEF w
  <2>1. QED
    BY <1>1, <1>4, <1>5 DEF RingInv, RingType
<1>7. ReadAvailable' = (IF ring.masked THEN ReadAvailable + n ELSE 0)
  <2>1. (RingType => ReadAvailable = IF ~ring.masked THEN 0
                       ELSE IF ring.w >= ring.r THEN ring.w - ring.r ELSE ring.w - ring.r + 2 * N)'
    BY AvailableFacts, PTL
  <2>2. ReadAvailable' = IF ~ring.masked THEN 0 ELSE IF w >= ring.r THEN w - ring.r ELSE w - ring.r + 2 * N
    BY <1>6, <2>1
  <2>3. /\ ring.w \in 0 .. 2 * N - 1 /\ ring.r \in 0 .. 2 * N - 1
        /\ (ring.masked => ReadAvailable = IF ring.w >= ring.r THEN ring.w - ring.r ELSE ring.w - ring.r + 2 * N)
        /\ (ring.masked => ring.size = N)
    BY RingFacts DEF RingInv, RingType
  <2> HIDE DEF n
  <2>4. CASE ring.masked
    <3> DEFINE x == ring.w
               y == ring.r
    <3>1. w = IF x + n < 2 * N THEN x + n ELSE (x + n) - (2 * N)
      BY <2>4, Zenon
    <3>2. /\ ReadAvailable' = (IF w >= y THEN w - y ELSE w - y + 2 * N) /\ x \in 0 .. 2 * N - 1 /\ y \in 0 .. 2 * N - 1
          /\ ReadAvailable = (IF x >= y THEN x - y ELSE x - y + 2 * N)
          /\ n <= N - ReadAvailable
      BY <1>3, <2>2, <2>3, <2>4
    <3> HIDE DEF w, x, y
    <3>3. ReadAvailable' = ReadAvailable + n
      BY <1>3, <3>1, <3>2
    <3>4. QED
      BY <2>4, <3>3
  <2>5. CASE ~ring.masked
    BY <2>2, <2>5
  <2>6. QED
    BY <2>4, <2>5
<1>8. out'.at = "wait" /\ out'.len = out.len /\ out' \in [at : Stages, len : Nat, n : Nat]
  BY <1>1 DEF RingInv, OutType, Stages
<1>9. sent' \in 0 .. FrameBound
  BY <1>1, RingFacts DEF RingInv, OutType
<1>10. RenderType'
  BY <1>1, <1>6 DEF RingInv, RenderType
<1>11. OutType'
  BY <1>1, <1>6, <1>8, <1>9 DEF RingInv, OutType
<1> HIDE DEF n, w
<1>12. Bounds'
  <2>1. ReadAvailable' \in 0 .. ring'.size /\ ReadAvailable <= ReadAvailable'
    BY <1>3, <1>6, <1>7, RingFacts
  <2>2. render'.at \in {"copy", "advance"} => render'.n <= ReadAvailable'
    <3>1. ASSUME render.at \in {"copy", "advance"} PROVE render.n <= ReadAvailable'
      BY <1>2, <1>3, <2>1, <3>1, RingFacts DEF RingInv, Bounds
    <3>2. QED
      BY <1>1, <3>1
  <2>3. QED
    BY <1>8, <2>1, <2>2 DEF Bounds
<1>13. Counted'
  <2> SUFFICES ASSUME unit', ~grew' PROVE Counted'
    BY DEF Counted
  <2>1. unit /\ ~grew /\ ring.masked
    BY <1>1 DEF RingInv, OutType
  <2>2. n = out.len /\ ReadAvailable' = ReadAvailable + n /\ ReadAvailable \in Nat
    BY <1>1, <1>2, <1>3, <1>7, <2>1, RingFacts DEF RingInv, Counted, n
  <2>3. /\ sent = Len(heard) - Done + ReadAvailable /\ Done <= Len(heard) /\ heard = [k \in 1 .. Len(heard) |-> k]
        /\ \A k \in 1 .. ReadAvailable + n : ring.mem[(ring.r + k - 1) % N] = Len(heard) - Done + k
    BY <1>2, <2>1 DEF RingInv, Counted
  <2>4. Done \in Nat /\ Len(heard) \in Nat
    BY RingFacts DEF Done
  <2>5. sent' = Len(heard') - Done' + ReadAvailable'
    BY <1>1, <1>2, <1>3, <2>2, <2>3, <2>4
  <2>6. \A k \in 1 .. ReadAvailable' + Copied' : ring'.mem[(ring'.r + k - 1) % N] = Len(heard') - Done' + k
    <3>1. ReadAvailable' + Copied' = ReadAvailable + n
      BY <1>2, <1>3, <2>2
    <3>2. QED
      BY <1>1, <1>2, <1>6, <2>3, <3>1
  <2>7. QED
    BY <1>1, <1>2, <1>8, <2>3, <2>5, <2>6 DEF Counted
<1>14. QED
  BY <1>6, <1>10, <1>11, <1>12, <1>13 DEF RingInv

(* What was taken has room again.                                          *)
LEMMA AdvanceReadStep ==
  ASSUME Sizes, RingInv, AdvanceRead
  PROVE  RingInv'
<1> DEFINE n == render.n
           r == IF ring.masked THEN IF ring.r + n < 2 * N THEN ring.r + n ELSE (ring.r + n) - (2 * N) ELSE 0
<1>1. /\ unit' = unit /\ out' = out /\ sent' = sent /\ heard' = heard /\ grew' = grew
      /\ render.at = "advance" /\ render' = [render EXCEPT !.at = "signal"]
      /\ ring' = [ring EXCEPT !.r = Wrapped(ring.r + n)]
  BY DEF AdvanceRead
<1>2. render' = [at |-> "signal", n |-> n] /\ n \in 0 .. N /\ (~ring.masked => n = 0) /\ N \in Nat \ {0}
  BY <1>1, RingFacts DEF RingInv, RenderType
<1>3. Dropping' = Dropping /\ Done = n /\ Done' = 0 /\ Copied' = Copied
  BY <1>1, <1>2 DEF Dropping, Done, Copied
<1>4. Wrapped(ring.r + n) = r
  <2>1. CASE ring.masked
    <3>1. ring.r \in 0 .. 2 * N - 1 /\ n \in 0 .. N
      BY <1>2, RingFacts
    <3> DEFINE i == ring.r
    <3> HIDE DEF n, i
    <3>2. i \in 0 .. 2 * N - 1 /\ n \in 0 .. N
      BY <3>1 DEF i
    <3>3. Wrapped(i + n) = IF i + n < 2 * N THEN i + n ELSE (i + n) - (2 * N)
      BY <2>1, <3>2, WrappedFacts
    <3>4. QED
      BY <2>1, <3>3, Zenon DEF i
  <2>2. QED
    BY <2>1 DEF Wrapped
<1>5. r \in 0 .. 2 * N - 1 /\ (~ring.masked => r = 0)
  <2>1. ring.r \in 0 .. 2 * N - 1
    BY RingFacts
  <2> HIDE DEF n
  <2>2. QED
    BY <1>2, <2>1
<1>6. /\ ring'.size = ring.size /\ ring'.masked = ring.masked /\ ring'.w = ring.w /\ ring'.r = r
      /\ ring'.mem = ring.mem /\ RingType'
  <2> HIDE DEF r
  <2>1. QED
    BY <1>1, <1>4, <1>5 DEF RingInv, RingType
<1>7. ~Dropping => ReadAvailable \in 0 .. ring.size /\ n <= ReadAvailable /\ ReadAvailable' = ReadAvailable - n
  <2> SUFFICES ASSUME ~Dropping
               PROVE  ReadAvailable \in 0 .. ring.size /\ n <= ReadAvailable /\ ReadAvailable' = ReadAvailable - n
    OBVIOUS
  <2>1. ReadAvailable \in 0 .. ring.size /\ n <= ReadAvailable
    BY <1>1 DEF RingInv, Bounds
  <2>2. (RingType => ReadAvailable = IF ~ring.masked THEN 0
                       ELSE IF ring.w >= ring.r THEN ring.w - ring.r ELSE ring.w - ring.r + 2 * N)'
    BY AvailableFacts, PTL
  <2>3. ReadAvailable' = IF ~ring.masked THEN 0 ELSE IF ring.w >= r THEN ring.w - r ELSE ring.w - r + 2 * N
    BY <1>6, <2>2
  <2>4. CASE ring.masked
    <3> DEFINE w == ring.w
               y == ring.r
    <3>1. r = IF y + n < 2 * N THEN y + n ELSE (y + n) - (2 * N)
      BY <2>4, Zenon
    <3>2. /\ ReadAvailable' = (IF w >= r THEN w - r ELSE w - r + 2 * N) /\ w \in 0 .. 2 * N - 1 /\ y \in 0 .. 2 * N - 1
          /\ ReadAvailable = (IF w >= y THEN w - y ELSE w - y + 2 * N)
      BY <2>3, <2>4, RingFacts
    <3> HIDE DEF n, r, w, y
    <3>3. ReadAvailable' = ReadAvailable - n
      BY <1>2, <2>1, <3>1, <3>2
    <3>4. QED
      BY <2>1, <3>3
  <2>5. CASE ~ring.masked
    BY <1>2, <2>1, <2>3, <2>5, RingFacts
  <2>6. QED
    BY <2>4, <2>5
<1>8. RenderType'
  BY <1>1, <1>2, <1>6 DEF RingInv, RenderType
<1>9. OutType'
  <2>1. out.at # "open"
    BY <1>1 DEF RingInv, OutType, RenderType
  <2>2. QED
    BY <1>1, <1>6, <2>1 DEF RingInv, OutType
<1>10. ring.r \in 0 .. 2 * N - 1 /\ out.n \in Nat /\ Copied \in Nat /\ Len(heard) \in Nat /\ ring.size \in {0, N}
  BY RingFacts DEF Copied
<1> HIDE DEF n
<1>11. Bounds'
  <2> SUFFICES ASSUME ~Dropping PROVE Bounds'
    BY <1>3 DEF Bounds
  <2>1. ReadAvailable' \in 0 .. ring.size /\ ReadAvailable' <= ReadAvailable
    BY <1>2, <1>7, <1>10
  <2>2. out.at \in {"copy", "advance"} => out.n <= ring.size - ReadAvailable'
    <3>1. out.at \in {"copy", "advance"} => out.n <= ring.size - ReadAvailable
      BY RingFacts DEF RingInv, Bounds
    <3>2. QED
      BY <1>2, <1>7, <1>10, <2>1, <3>1
  <2>3. QED
    BY <1>1, <1>2, <1>6, <2>1, <2>2 DEF Bounds, WriteAvailable
<1>12. Counted'
  <2> SUFFICES ASSUME unit', ~Dropping', ~grew' PROVE Counted'
    BY DEF Counted
  <2>1. unit /\ ~Dropping /\ ~grew
    BY <1>1, <1>3
  <2> DEFINE avail == ReadAvailable
             first == Len(heard) - n
  <2>2. /\ n <= Len(heard) /\ heard = [k \in 1 .. Len(heard) |-> k]
        /\ sent = Len(heard) - n + avail
        /\ (out.at \in {"idle", "init", "mask"} => out.len <= N - avail)
        /\ (out.at \in {"copy", "advance"} => out.n = out.len)
        /\ \A k \in 1 .. avail + Copied : ring.mem[(ring.r + k - 1) % N] = Len(heard) - n + k
    BY <1>3, <2>1 DEF RingInv, Counted
  <2>3. avail \in 0 .. ring.size /\ n <= avail /\ ReadAvailable' = avail - n
    BY <1>7, <2>1
  <2>4. Copied <= ring.size - avail
    <3>1. out.at = "advance" => out.n <= ring.size - avail
      BY <2>1, RingFacts DEF RingInv, Bounds
    <3>2. QED
      BY <1>2, <1>10, <2>3, <3>1 DEF Copied
  <2> HIDE DEF avail
  <2>5. \A k \in 1 .. ReadAvailable' + Copied : ring.mem[(r + k - 1) % N] = Len(heard) + k
    <3> TAKE k \in 1 .. ReadAvailable' + Copied
    <3> DEFINE x == ring.r + n + k - 1
    <3>1. n + k \in 1 .. avail + Copied /\ k \in 1 .. N /\ n + k <= N /\ k \in Int
      BY <1>2, <1>10, <2>3, <2>4
    <3>2. ring.masked
      <4> SUFFICES ASSUME ~ring.masked PROVE FALSE
        OBVIOUS
      <4>1. avail = 0 /\ out.at \in {"init", "mask"}
        BY <2>1, RingFacts DEF RingInv, OutType, avail
      <4>2. Copied = 0
        BY <4>1 DEF Copied
      <4>3. QED
        BY <1>2, <2>3, <3>1, <4>1, <4>2
    <3>3. ring.mem[(ring.r + (n + k) - 1) % N] = Len(heard) - n + (n + k)
      BY <2>2, <3>1
    <3>4. ring.r + (n + k) - 1 = x /\ Len(heard) - n + (n + k) = Len(heard) + k
      BY <1>2, <1>10, <3>1
    <3>5. r + k - 1 = IF ring.r + n < 2 * N THEN x ELSE x - 2 * N
      BY <1>2, <1>10, <3>1, <3>2
    <3>6. /\ x \in 0 .. 3 * N - 1
          /\ (ring.r + n >= 2 * N => x - 2 * N \in 0 .. N - 1 /\ x >= 2 * N)
      BY <1>2, <1>10, <3>1
    <3> HIDE DEF x, r
    <3>7. (r + k - 1) % N = x % N
      <4>1. CASE ring.r + n < 2 * N
        BY <3>5, <4>1
      <4>2. CASE ~(ring.r + n < 2 * N)
        <5> DEFINE y == x - 2 * N
        <5>0. /\ N \in Nat \ {0} /\ x \in 0 .. 3 * N - 1 /\ ~(x < N) /\ ~(x < 2 * N)
              /\ y \in 0 .. 3 * N - 1 /\ y < N
          BY <1>2, <1>10, <3>6, <4>2
        <5>1. x % N = y
          BY ONLY <5>0, PlaceFacts
        <5> HIDE DEF y
        <5>2. y % N = y
          BY ONLY <5>0, PlaceFacts
        <5>3. QED
          BY <3>5, <4>2, <5>1, <5>2 DEF y
      <4>3. QED
        BY <4>1, <4>2
    <3>8. QED
      BY <3>3, <3>4, <3>7
  <2>6. Len(heard') - Done' = Len(heard) /\ Done' <= Len(heard') /\ sent' = Len(heard) + ReadAvailable'
    BY <1>1, <1>2, <1>3, <1>10, <2>2, <2>3
  <2>7. out.at \in {"idle", "init", "mask"} => out.len <= N - ReadAvailable'
    <3>1. out.len \in Nat
      BY RingFacts
    <3>2. QED
      BY <1>2, <1>10, <2>2, <2>3, <3>1
  <2>8. QED
    BY <1>1, <1>3, <1>6, <2>2, <2>5, <2>6, <2>7 DEF Counted
<1>13. QED
  BY <1>6, <1>8, <1>9, <1>11, <1>12 DEF RingInv

-----------------------------------------------------------------------------
(* The steps of a Setup.                                                   *)

(* From the first reset of an index on nothing is said of the ring that is *)
(* going to be thrown away, but that it stays one.                         *)
LEMMA DropSteps ==
  ASSUME Sizes, RingInv, Drop \/ DropRest
  PROVE  RingInv'
<1>1. /\ unit' = unit /\ render' = render /\ sent' = sent /\ heard' = heard /\ grew' = grew
      /\ out.at \in {"idle", "drop"} /\ \E at \in {"drop", "close"} : out' = [out EXCEPT !.at = at]
      /\ (ring' = [ring EXCEPT !.r = 0] \/ ring' = [ring EXCEPT !.w = 0])
  BY DEF Drop, DropRest
<1>2. 0 \in 0 .. 2 * N - 1
  BY RingFacts
<1>3. RingType' /\ ring'.masked = ring.masked
  BY <1>1, <1>2 DEF RingInv, RingType
<1>4. out'.at \in {"drop", "close"} /\ out' \in [at : Stages, len : Nat, n : Nat]
  BY <1>1 DEF RingInv, OutType, Stages
<1>5. RenderType'
  BY <1>1, <1>3 DEF RingInv, RenderType
<1>6. OutType'
  BY <1>1, <1>3, <1>4 DEF RingInv, OutType
<1>7. Dropping'
  BY <1>4 DEF Dropping
<1>8. QED
  BY <1>3, <1>5, <1>6, <1>7 DEF RingInv, Bounds, Counted

(* A ring that is not there, or not masked yet, has nothing to read.       *)
Unmasked(size) == [size |-> size, masked |-> FALSE, w |-> 0, r |-> 0, mem |-> Silence]

LEMMA EmptyRing ==
  ASSUME Sizes, NEW size \in {0, N}, ring' = Unmasked(size)
  PROVE  RingType' /\ ReadAvailable' = 0 /\ ~ring'.masked /\ ring'.size = size /\ size \in Nat
<1>1. N \in Nat \ {0} /\ Silence \in [0 .. N - 1 -> Nat] /\ size \in Nat
  BY DEF Sizes, Silence, N
<1>2. ring' = [size |-> size, masked |-> FALSE, w |-> 0, r |-> 0, mem |-> Silence]
  BY DEF Unmasked
<1>3. ring'.size = size /\ ~ring'.masked /\ ring'.w = 0 /\ ring'.r = 0
  BY <1>2
<1>4. ring' \in [size : {0, N}, masked : BOOLEAN, w : 0 .. 2 * N - 1, r : 0 .. 2 * N - 1, mem : [0 .. N - 1 -> Nat]]
  <2>1. 0 \in 0 .. 2 * N - 1
    BY <1>1
  <2> DEFINE I == 0 .. 2 * N - 1
             M == [0 .. N - 1 -> Nat]
             Z == {0, N}
  <2>2. 0 \in I /\ Silence \in M /\ size \in Z
    BY <1>1, <2>1
  <2> HIDE DEF I, M, Z
  <2>3. ring' \in [size : Z, masked : BOOLEAN, w : I, r : I, mem : M]
    BY ONLY <1>2, <2>2, SMT
  <2>4. QED
    BY <2>3 DEF I, M, Z
<1>5. ReadAvailable' = 0
  BY <1>3 DEF ReadAvailable, Wrapped
<1>6. QED
  BY <1>1, <1>3, <1>4, <1>5 DEF RingType

(* No ring at all is one of size zero.                                     *)
LEMMA NoRingUnmasked == NoRing = Unmasked(0) /\ 0 \in {0, N}
BY DEF NoRing, Unmasked

(* The unit stops, and starts; the ring is there, and is masked.           *)
LEMMA StopStep ==
  ASSUME Sizes, RingInv, Stop
  PROVE  RingInv'
<1>1. /\ unit' = FALSE /\ render' = render /\ sent' = sent /\ heard' = heard /\ grew' = grew
      /\ out.at = "close" /\ render.at = "idle" /\ out' = [out EXCEPT !.at = "open"] /\ ring' = NoRing
  BY DEF Stop
<1>2. RingType' /\ ReadAvailable' = 0 /\ ~ring'.masked /\ ring'.size \in Nat
  <2>1. ring' = Unmasked(0) /\ 0 \in {0, N}
    BY <1>1, NoRingUnmasked
  <2>2. QED
    BY <2>1, EmptyRing
<1>3. out'.at = "open" /\ out' \in [at : Stages, len : Nat, n : Nat]
  BY <1>1 DEF RingInv, OutType, Stages
<1>4. RenderType'
  BY <1>1 DEF RingInv, RenderType
<1>5. OutType'
  BY <1>1, <1>2, <1>3 DEF RingInv, OutType
<1>6. Bounds'
  BY <1>1, <1>2, <1>3 DEF Bounds
<1>7. Counted'
  BY <1>1 DEF Counted
<1>8. QED
  BY <1>2, <1>4, <1>5, <1>6, <1>7 DEF RingInv

(* The unit starts, or does not, and the count begins again.               *)
LEMMA StartStep ==
  ASSUME Sizes, RingInv, Start
  PROVE  RingInv'
<1>1. /\ render' = render /\ ring' = ring /\ sent' = 0 /\ heard' = <<>> /\ grew' = FALSE /\ out.at = "open"
      /\ \/ unit' = TRUE /\ out' = [at |-> "init", len |-> N, n |-> 0]
         \/ unit' = FALSE /\ out' = [at |-> "idle", len |-> N, n |-> 0]
  BY DEF Start, N
<1>2. ring' = NoRing /\ render'.at = "idle" /\ N \in Nat \ {0} /\ FrameBound \in Nat
  BY <1>1, RingFacts DEF RingInv, OutType, RenderType
<1>3. RingType' /\ ReadAvailable' = 0 /\ ~ring'.masked /\ ring'.size \in Nat
  <2>1. ring' = Unmasked(0) /\ 0 \in {0, N}
    BY <1>2, NoRingUnmasked
  <2>2. QED
    BY <2>1, EmptyRing
<1>4. /\ unit' \in BOOLEAN /\ out'.len = N /\ out'.n = 0
      /\ (out'.at = "init" /\ unit') \/ (out'.at = "idle" /\ ~unit')
  <2>1. CASE unit' = TRUE /\ out' = [at |-> "init", len |-> N, n |-> 0]
    BY <2>1
  <2>2. CASE unit' = FALSE /\ out' = [at |-> "idle", len |-> N, n |-> 0]
    BY <2>2
  <2>3. QED
    BY <1>1, <2>1, <2>2
<1>5. RenderType'
  BY <1>1, <1>2, <1>3 DEF RingInv, RenderType
<1>6. OutType'
  <2>1. out' \in [at : Stages, len : Nat, n : Nat]
    BY <1>1, <1>2 DEF Stages
  <2>2. sent' \in 0 .. FrameBound /\ heard' \in Seq(Nat)
    BY <1>1, <1>2
  <2>3. grew' \in BOOLEAN
    BY <1>1
  <2>4. QED
    BY <1>3, <1>4, <2>1, <2>2, <2>3 DEF OutType
<1>7. Bounds'
  BY <1>2, <1>3, <1>4 DEF Bounds
<1>8. Counted'
  <2>1. Done' = 0 /\ Copied' = 0 /\ Len(heard') = 0
    BY <1>1, <1>2, <1>4 DEF Done, Copied
  <2>2. heard' = [k \in 1 .. 0 |-> k]
    BY <1>1
  <2>3. QED
    BY <1>1, <1>2, <1>3, <1>4, <2>1, <2>2 DEF Counted
<1>9. QED
  BY <1>3, <1>5, <1>6, <1>7, <1>8 DEF RingInv

(* The size is there before the masks are, and until then nothing to read. *)
LEMMA InitSizeStep ==
  ASSUME Sizes, RingInv, InitSize
  PROVE  RingInv'
<1>1. /\ unit' = unit /\ render' = render /\ sent' = sent /\ heard' = heard /\ grew' = grew
      /\ out.at = "init" /\ out' = [out EXCEPT !.at = "mask"] /\ ring' = Unmasked(N)
  BY DEF InitSize, NoRing, Unmasked, N
<1>2. RingType' /\ ReadAvailable' = 0 /\ ~ring'.masked /\ ring'.size = N /\ N \in Nat
  BY <1>1, EmptyRing
<1>3. out'.at = "mask" /\ out'.len = out.len /\ out' \in [at : Stages, len : Nat, n : Nat]
  BY <1>1 DEF RingInv, OutType, Stages
<1>4. unit /\ ~ring.masked /\ ~Dropping /\ Copied = 0 /\ Copied' = 0 /\ Done' = Done /\ ReadAvailable = 0
  BY <1>1, <1>3, RingFacts DEF RingInv, OutType, Dropping, Copied, Done
<1>5. RenderType'
  BY <1>1, <1>4 DEF RingInv, RenderType
<1>6. OutType'
  BY <1>1, <1>2, <1>3, <1>4 DEF RingInv, OutType
<1>7. Bounds'
  <2>1. render.at \in {"copy", "advance"} => render.n <= 0
    BY <1>4 DEF RingInv, Bounds
  <2>2. QED
    BY <1>1, <1>2, <1>3, <2>1 DEF Bounds
<1>8. Counted'
  <2> SUFFICES ASSUME unit', ~grew' PROVE Counted'
    BY DEF Counted
  <2>1. ~grew
    BY <1>1
  <2>2. QED
    BY <1>1, <1>2, <1>3, <1>4, <2>1 DEF RingInv, Counted
<1>9. QED
  BY <1>2, <1>5, <1>6, <1>7, <1>8 DEF RingInv

(* From the masks on the indexes count.                                    *)
LEMMA InitMasksStep ==
  ASSUME Sizes, RingInv, InitMasks
  PROVE  RingInv'
<1>1. /\ unit' = unit /\ render' = render /\ sent' = sent /\ heard' = heard /\ grew' = grew
      /\ out.at = "mask" /\ out' = [out EXCEPT !.at = "idle"] /\ ring' = [ring EXCEPT !.masked = TRUE]
  BY DEF InitMasks
<1>2. /\ ring'.size = N /\ ring'.masked /\ ring'.w = 0 /\ ring'.r = 0 /\ ring'.mem = ring.mem /\ RingType'
      /\ unit /\ ~ring.masked
  BY <1>1 DEF RingInv, RingType, OutType
<1>3. ReadAvailable' = 0 /\ ReadAvailable = 0 /\ N \in Nat
  <2>1. (RingType => ReadAvailable = IF ~ring.masked THEN 0
                       ELSE IF ring.w >= ring.r THEN ring.w - ring.r ELSE ring.w - ring.r + 2 * N)'
    BY AvailableFacts, PTL
  <2>2. QED
    BY <1>2, <2>1, RingFacts
<1>4. out'.at = "idle" /\ out'.len = out.len /\ out' \in [at : Stages, len : Nat, n : Nat]
  BY <1>1 DEF RingInv, OutType, Stages
<1>5. ~Dropping /\ Copied = 0 /\ Copied' = 0 /\ Done' = Done
  BY <1>1, <1>4 DEF Dropping, Copied, Done
<1>6. RenderType'
  BY <1>1, <1>2 DEF RingInv, RenderType
<1>7. OutType'
  BY <1>1, <1>2, <1>4 DEF RingInv, OutType
<1>8. Bounds'
  <2>1. render.at \in {"copy", "advance"} => render.n <= 0
    BY <1>3, <1>5 DEF RingInv, Bounds
  <2>2. QED
    BY <1>1, <1>2, <1>3, <1>4, <2>1 DEF Bounds
<1>9. Counted'
  <2> SUFFICES ASSUME unit', ~grew' PROVE Counted'
    BY DEF Counted
  <2>1. ~grew
    BY <1>1
  <2>2. QED
    BY <1>1, <1>2, <1>3, <1>4, <1>5, <2>1 DEF RingInv, Counted
<1>10. QED
  BY <1>2, <1>6, <1>7, <1>8, <1>9 DEF RingInv

-----------------------------------------------------------------------------
(* The plug-ins.                                                           *)

(* Only the plug-in for CoreAudio has the ring, and it has no loop.        *)
PlugInv ==
  /\ plug \in Kinds
  /\ (plug # "coreaudio" => /\ ring = NoRing /\ ~unit /\ render.at = "idle"
                            /\ out.at \in {"idle", "loop"})
  /\ (plug = "coreaudio" => out.at # "loop")

DeviceType ==
  /\ device \in [open : BOOLEAN, has : Format \cup {NoFormat}, started : BOOLEAN]
  /\ known \in Format \cup {NoFormat}
  /\ ready \in BOOLEAN /\ crashed \in BOOLEAN /\ failed \in BOOLEAN /\ overruled \in BOOLEAN

(* In the middle of a Write what is not left of it was taken.              *)
LoopInv ==
  out.at = "loop" => out.n <= sent /\ (~failed => heard = [k \in 1 .. sent - out.n |-> k])

(* ALSA is ready with a device only; OSS remembers the format it has got.  *)
FormatInv ==
  /\ FormatAsTold
  /\ (plug = "alsa" /\ ready => device.open)
  /\ (plug = "oss" /\ ~overruled /\ device.open /\ known # NoFormat => device.has = known)

PluginsInv == PlugInv /\ DeviceType /\ LoopInv /\ WrittenOnce /\ FormatInv
IInv == RingInv /\ PluginsInv

(* A step of the others leaves the ring that is not there alone.           *)
LEMMA PlainStep ==
  ASSUME Sizes, RingInv, PlugInv, plug # "coreaudio", UNCHANGED <<ring, unit, render, plug>>,
         grew' = grew, out' \in [at : Stages, len : Nat, n : Nat], out'.at \in {"idle", "loop"},
         sent' \in 0 .. FrameBound, heard' \in Seq(Nat)
  PROVE  RingInv' /\ PlugInv'
<1>1. ring' = Unmasked(0) /\ 0 \in {0, N}
  BY NoRingUnmasked DEF PlugInv
<1>2. RingType' /\ ReadAvailable' = 0 /\ ~ring'.masked /\ ring'.size = 0
  BY <1>1, EmptyRing
<1>3. ~unit' /\ ~unit /\ render'.at = "idle"
  BY DEF PlugInv
<1>4. RenderType'
  BY DEF RingInv, RenderType
<1>5. OutType'
  BY <1>2, <1>3 DEF RingInv, OutType
<1>6. Bounds'
  BY <1>2, <1>3 DEF Bounds
<1>7. Counted'
  BY <1>3 DEF Counted
<1>8. PlugInv'
  BY DEF PlugInv
<1>9. QED
  BY <1>2, <1>4, <1>5, <1>6, <1>7, <1>8 DEF RingInv

(* Of every answer but that of a device that is not there the types are    *)
(* those of the state.                                                     *)
AnswerType ==
  [device : [open : BOOLEAN, has : Format \cup {NoFormat}, started : BOOLEAN],
   known : Format \cup {NoFormat}, ok : BOOLEAN, overruled : BOOLEAN]

(* ALSA has got what was asked for, unless the rate overruled it.          *)
LEMMA AlsaAnswers ==
  ASSUME Formats, DeviceType, NEW f \in Format, NEW a \in SetupAlsa(f)
  PROVE  /\ a \in AnswerType /\ a.device.open = device.open
         /\ (a.ok /\ ~a.overruled => a.device.has = f)
<1> DEFINE H(g, ok) == HwParams(f, g, ok)
           Earlier(g, ok) == ok /\ H(g, ok).channels = f.channels
           After(g, ok) == IF H(g, ok).rate # f.rate THEN H(g, ok).rate > 1 ELSE Earlier(g, ok)
           Told(g, ok) == After(g, ok) /\ H(g, ok).bits = f.bits
           Over(g, ok) == H(g, ok).rate # f.rate
<1>1. PICK g \in Format, ok \in BOOLEAN :
        a = [device |-> [device EXCEPT !.has = IF ok THEN H(g, ok) ELSE NoFormat],
             known |-> IF ok THEN H(g, ok) ELSE known, ok |-> Told(g, ok), overruled |-> Over(g, ok)]
  BY DEF SetupAlsa, Answer
<1>2. /\ a.device = [device EXCEPT !.has = IF ok THEN H(g, ok) ELSE NoFormat]
      /\ a.known = IF ok THEN H(g, ok) ELSE known
      /\ a.ok = Told(g, ok) /\ a.overruled = Over(g, ok)
  BY <1>1
<1>3. f \in [channels : Nat, rate : Nat, bits : Nat] /\ g \in [channels : Nat, rate : Nat, bits : Nat]
  BY DEF Formats
<1>4. ok => H(g, ok) = [g EXCEPT !.bits = 16] /\ H(g, ok) \in Format
  BY <1>3 DEF Formats, HwParams
<1>5. a.device \in [open : BOOLEAN, has : Format \cup {NoFormat}, started : BOOLEAN] /\ a.device.open = device.open
  BY <1>2, <1>4 DEF DeviceType
<1>6. a.known \in Format \cup {NoFormat}
  BY <1>2, <1>4 DEF DeviceType
<1>7. Told(g, ok) \in BOOLEAN /\ Over(g, ok) \in BOOLEAN
  OBVIOUS
<1>8. a \in AnswerType
  BY <1>1, <1>2, <1>5, <1>6, <1>7 DEF AnswerType
<1>9. ASSUME Told(g, ok), ~Over(g, ok) PROVE a.device.has = f
  <2>1. ok /\ H(g, ok).channels = f.channels /\ H(g, ok).rate = f.rate /\ H(g, ok).bits = f.bits
    BY <1>9
  <2>2. H(g, ok) \in [channels : Nat, rate : Nat, bits : Nat]
    BY <1>4, <2>1 DEF Formats
  <2> DEFINE h == H(g, ok)
  <2>0. /\ h \in [channels : Nat, rate : Nat, bits : Nat] /\ f \in [channels : Nat, rate : Nat, bits : Nat]
        /\ h.channels = f.channels /\ h.rate = f.rate /\ h.bits = f.bits
    BY <1>3, <2>1, <2>2
  <2> HIDE DEF h
  <2>3. h = f
    BY ONLY <2>0
  <2>4. QED
    BY <1>2, <2>1, <2>3 DEF DeviceType, h
<1>10. QED
  BY <1>2, <1>5, <1>8, <1>9

(* OSS has got what was asked for, or has failed.                          *)
LEMMA OssAnswers ==
  ASSUME Formats, DeviceType, NEW f \in Format, NEW a \in SetupOss(f),
         ~overruled /\ device.open /\ known # NoFormat => device.has = known
  PROVE  /\ a \in AnswerType /\ (a.ok /\ ~a.overruled => a.device.has = f)
         /\ (~a.overruled /\ a.device.open /\ a.known # NoFormat => a.device.has = a.known)
<1>1. CASE device.open /\ known = f
  <2>1. a = [device |-> device, known |-> known, ok |-> TRUE, overruled |-> overruled]
    BY <1>1 DEF SetupOss, Answer
  <2>2. a.device = device /\ a.known = known /\ a.ok /\ a.overruled = overruled
    BY <2>1
  <2>3. a \in AnswerType
    BY <2>1 DEF DeviceType, AnswerType
  <2>4. QED
    BY <1>1, <2>2, <2>3 DEF Formats
<1>2. CASE a = Answer(Shut, known, FALSE, TRUE)
  <2>1. a = [device |-> Shut, known |-> known, ok |-> FALSE, overruled |-> TRUE]
    BY <1>2 DEF Answer
  <2>2. ~a.ok /\ a.overruled
    BY <2>1
  <2>3. a \in AnswerType
    BY <2>1 DEF DeviceType, AnswerType, Shut
  <2>4. QED
    BY <2>2, <2>3
<1>3. ASSUME NEW g \in Format,
             a = Answer([Opened EXCEPT !.has = g], IF g = f THEN f ELSE known, g = f, overruled \/ g # f)
      PROVE  /\ a \in AnswerType /\ (a.ok /\ ~a.overruled => a.device.has = f)
             /\ (~a.overruled /\ a.device.open /\ a.known # NoFormat => a.device.has = a.known)
  <2>1. a = [device |-> [open |-> TRUE, has |-> g, started |-> FALSE],
             known |-> IF g = f THEN f ELSE known, ok |-> (g = f), overruled |-> (overruled \/ g # f)]
    BY <1>3 DEF Answer, Opened, Shut
  <2>2. /\ a.device.has = g /\ a.known = (IF g = f THEN f ELSE known)
        /\ (a.ok <=> g = f) /\ (a.overruled <=> overruled \/ g # f)
    BY <2>1
  <2>3. (g = f) \in BOOLEAN /\ (overruled \/ g # f) \in BOOLEAN
    OBVIOUS
  <2>4. a \in AnswerType
    BY <2>1, <2>3 DEF DeviceType, AnswerType
  <2>5. QED
    BY <2>2, <2>4
<1>4. QED
  BY <1>1, <1>2, <1>3 DEF SetupOss

(* sndio answers that it has got what it was asked for.                    *)
LEMMA SndioAnswers ==
  ASSUME DeviceType, NEW f \in Format, NEW a \in SetupSndio(f)
  PROVE  a \in AnswerType
<1>1. CASE a = Answer(device, known, TRUE, overruled)
  <2>1. a = [device |-> device, known |-> known, ok |-> TRUE, overruled |-> overruled]
    BY <1>1 DEF Answer
  <2>2. QED
    BY <2>1 DEF DeviceType, AnswerType
<1>2. CASE a = Answer(Opened, known, FALSE, TRUE)
  <2>1. a = [device |-> [open |-> TRUE, has |-> NoFormat, started |-> FALSE], known |-> known, ok |-> FALSE, overruled |-> TRUE]
    BY <1>2 DEF Answer, Opened, Shut
  <2>2. QED
    BY <2>1 DEF DeviceType, AnswerType
<1>3. ASSUME NEW g \in Format, a = Answer([open |-> TRUE, has |-> g, started |-> TRUE], f, TRUE, overruled)
      PROVE  a \in AnswerType
  <2>1. a = [device |-> [open |-> TRUE, has |-> g, started |-> TRUE], known |-> f, ok |-> TRUE, overruled |-> overruled]
    BY <1>3 DEF Answer
  <2>2. QED
    BY <2>1 DEF DeviceType, AnswerType
<1>4. QED
  BY <1>1, <1>2, <1>3 DEF SetupSndio

-----------------------------------------------------------------------------
(* The steps of the plug-ins.                                              *)

(* A Setup of ALSA, OSS or sndio.                                          *)
LEMMA SetupStep ==
  ASSUME Sizes, Formats, IInv, NEW f \in Format, Setup(f)
  PROVE  IInv'
<1>1. /\ out.at = "idle" /\ plug # "coreaudio" /\ asked' = f /\ sent' = 0 /\ heard' = <<>> /\ ~failed'
      /\ UNCHANGED <<ring, unit, render, out, grew, plug>>
  BY DEF Setup, Request, idleRing
<1>2. RingInv' /\ PlugInv'
  <2>1. /\ out' \in [at : Stages, len : Nat, n : Nat] /\ out'.at \in {"idle", "loop"}
        /\ 0 \in 0 .. FrameBound /\ <<>> \in Seq(Nat)
    BY <1>1, RingFacts DEF IInv, RingInv, OutType
  <2>2. QED
    BY <1>1, <2>1, PlainStep DEF IInv, PluginsInv
<1>3. plug \in {"alsa", "oss", "sndio"}
  BY <1>1 DEF IInv, PluginsInv, PlugInv, Kinds
<1>4. failed' \in BOOLEAN
  BY DEF Setup
<1>5. LoopInv' /\ WrittenOnce'
  BY <1>1 DEF LoopInv, WrittenOnce
<1>6. ASSUME crashed' = TRUE, UNCHANGED <<device, known, ready, overruled>>,
             (plug = "sndio") \/ (plug = "alsa" /\ ~device.open)
      PROVE  DeviceType' /\ FormatInv'
  <2>1. DeviceType'
    BY <1>4, <1>6 DEF IInv, PluginsInv, DeviceType
  <2>2. FormatInv'
    BY <1>1, <1>6 DEF IInv, PluginsInv, FormatInv, FormatAsTold
  <2>3. QED
    BY <2>1, <2>2
<1>7. ASSUME NEW a \in Answers(f), plug = "alsa" => device.open,
             device' = a.device, known' = a.known, ready' = a.ok, overruled' = a.overruled, UNCHANGED crashed
      PROVE  DeviceType' /\ FormatInv'
  <2>1. /\ (plug = "alsa" => a \in SetupAlsa(f)) /\ (plug = "oss" => a \in SetupOss(f))
        /\ (plug = "sndio" => a \in SetupSndio(f))
    BY <1>3 DEF Answers
  <2>2. DeviceType /\ (plug = "oss" => (~overruled /\ device.open /\ known # NoFormat => device.has = known))
    BY DEF IInv, PluginsInv, FormatInv
  <2>3. a \in AnswerType
    BY <1>3, <2>1, <2>2, AlsaAnswers, OssAnswers, SndioAnswers
  <2>4. DeviceType'
    BY <1>4, <1>7, <2>2, <2>3 DEF DeviceType, AnswerType
  <2>5. plug \in {"alsa", "oss"} => (ready' /\ ~overruled' => device'.has = f)
    BY <1>7, <2>1, <2>2, AlsaAnswers, OssAnswers
  <2>6. plug = "alsa" => device'.open
    BY <1>7, <2>1, <2>2, AlsaAnswers
  <2>7. plug = "oss" => (~overruled' /\ device'.open /\ known' # NoFormat => device'.has = known')
    BY <1>7, <2>1, <2>2, OssAnswers
  <2>8. FormatInv'
    BY <1>1, <2>5, <2>6, <2>7 DEF FormatInv, FormatAsTold
  <2>9. QED
    BY <2>4, <2>8
<1>8. DeviceType' /\ FormatInv'
  BY <1>6, <1>7 DEF Setup
<1>9. QED
  BY <1>2, <1>5, <1>8 DEF IInv, PluginsInv

(* What a Write leaves alone.                                              *)
LEMMA WriteFrame ==
  ASSUME IInv, UNCHANGED <<plug, device, known, asked, ready, overruled>>,
         crashed' \in BOOLEAN, failed' \in BOOLEAN
  PROVE  DeviceType' /\ FormatInv'
BY DEF IInv, PluginsInv, DeviceType, FormatInv, FormatAsTold

(* The loop of ALSA or OSS begins.                                         *)
LEMMA BeginStep ==
  ASSUME Sizes, IInv, ~crashed, NEW len \in Lengths, Begin(len)
  PROVE  IInv'
<1>1. /\ out.at = "idle" /\ plug \in {"alsa", "oss"} /\ sent + len <= FrameBound /\ sent' = sent + len
      /\ out' = [at |-> "loop", len |-> len, n |-> len] /\ heard' = heard /\ failed' = failed
      /\ UNCHANGED <<ring, unit, render, grew, plug, device, known, asked, ready, overruled>>
  BY DEF Begin, idleRing
<1>2. len \in Nat /\ sent \in Nat /\ FrameBound \in Nat /\ heard \in Seq(Nat)
  BY RingFacts DEF IInv
<1>3. RingInv' /\ PlugInv'
  <2>1. /\ out' \in [at : Stages, len : Nat, n : Nat] /\ out'.at \in {"idle", "loop"}
        /\ sent' \in 0 .. FrameBound /\ heard' \in Seq(Nat) /\ plug # "coreaudio"
    BY <1>1, <1>2 DEF Stages
  <2>2. QED
    BY <1>1, <2>1, PlainStep DEF IInv, PluginsInv
<1>4. DeviceType' /\ FormatInv'
  <2>1. crashed' \in BOOLEAN
    BY DEF Begin
  <2>2. failed' \in BOOLEAN
    BY <1>1 DEF IInv, PluginsInv, DeviceType
  <2>3. QED
    BY <1>1, <2>1, <2>2, WriteFrame
<1>5. LoopInv'
  <2>1. ~failed => heard = [k \in 1 .. sent |-> k]
    BY <1>1 DEF IInv, PluginsInv, WrittenOnce
  <2>2. sent' - out'.n = sent /\ out'.n <= sent'
    BY <1>1, <1>2
  <2>3. QED
    BY <1>1, <2>1, <2>2 DEF LoopInv
<1>6. WrittenOnce'
  BY <1>1 DEF WrittenOnce
<1>7. QED
  BY <1>3, <1>4, <1>5, <1>6 DEF IInv, PluginsInv

(* Frames that follow those heard.                                         *)
LEMMA Appended ==
  ASSUME NEW m \in Nat, NEW k \in Nat, NEW h, h = [i \in 1 .. m |-> i]
  PROVE  h \o [i \in 1 .. k |-> m + i] = [i \in 1 .. m + k |-> i]
<1> DEFINE t == [i \in 1 .. k |-> m + i]
           u == [i \in 1 .. m + k |-> i]
<1>1. h \in Seq(Nat) /\ Len(h) = m /\ t \in Seq(Nat) /\ Len(t) = k
  OBVIOUS
<1>2. \A i \in 1 .. m : h[i] = i
  OBVIOUS
<1>3. \A i \in 1 .. k : t[i] = m + i
  OBVIOUS
<1>4. u \in Seq(Nat) /\ Len(u) = m + k /\ \A i \in 1 .. m + k : u[i] = i
  OBVIOUS
<1> HIDE DEF t, u
<1>5. /\ h \o t \in Seq(Nat) /\ Len(h \o t) = m + k
      /\ \A i \in 1 .. m + k : (h \o t)[i] = IF i <= m THEN h[i] ELSE t[i - m]
  <2>1. h \in Seq(Nat) /\ t \in Seq(Nat)
    BY <1>1
  <2>2. /\ h \o t \in Seq(Nat) /\ Len(h \o t) = Len(h) + Len(t)
        /\ \A i \in 1 .. Len(h) + Len(t) : (h \o t)[i] = IF i <= Len(h) THEN h[i] ELSE t[i - Len(h)]
    BY ONLY <2>1, ConcatProperties
  <2>3. QED
    BY <1>1, <2>2, Zenon
<1>6. \A i \in 1 .. m + k : (h \o t)[i] = i
  <2> TAKE i \in 1 .. m + k
  <2>1. CASE i <= m
    BY <1>2, <1>5, <2>1
  <2>2. CASE ~(i <= m)
    <3>1. i - m \in 1 .. k /\ m + (i - m) = i
      BY <2>2
    <3>2. QED
      BY <1>3, <1>5, <2>2, <3>1
  <2>3. QED
    BY <2>1, <2>2
<1>7. h \o t = u
  <2> DEFINE q == h \o t
  <2>1. q \in Seq(Nat) /\ u \in Seq(Nat) /\ Len(q) = Len(u) /\ \A i \in 1 .. Len(q) : q[i] = u[i]
    BY <1>4, <1>5, <1>6
  <2> HIDE DEF q
  <2>2. q = u
    BY <2>1, SeqEqual
  <2>3. QED
    BY <2>2 DEF q
<1>8. QED
  BY <1>7 DEF t, u

(* The device takes a part of what is left.                                *)
LEMMA WrittenStep ==
  ASSUME Sizes, IInv, ~crashed, Written
  PROVE  IInv'
<1>1. PICK k \in (IF plug = "oss" THEN 0 ELSE 1) .. out.n :
        /\ heard' = heard \o [i \in 1 .. k |-> sent - out.n + i]
        /\ out' = IF k = out.n THEN [out EXCEPT !.at = "idle", !.n = 0] ELSE [out EXCEPT !.n = @ - k]
  BY DEF Written, Takes
<1>2. /\ out.at = "loop" /\ sent' = sent /\ failed' = failed /\ crashed' = crashed
      /\ UNCHANGED <<ring, unit, render, grew, plug, device, known, asked, ready, overruled>>
  BY DEF Written, idleRing, pluginVars
<1>3. /\ out.n \in Nat /\ sent \in 0 .. FrameBound /\ FrameBound \in Nat /\ heard \in Seq(Nat)
      /\ out.n <= sent /\ plug # "coreaudio"
      /\ (~failed => heard = [i \in 1 .. sent - out.n |-> i])
  BY <1>2, RingFacts DEF IInv, PluginsInv, PlugInv, LoopInv
<1> DEFINE m == sent - out.n
<1>4. k \in Nat /\ k <= out.n /\ m \in Nat /\ m + k <= sent
  <2>1. k \in Int /\ k >= 0 /\ k <= out.n
    BY <1>1, <1>3
  <2>2. QED
    BY <1>3, <2>1
<1>5. /\ out' \in [at : Stages, len : Nat, n : Nat] /\ out'.at \in {"idle", "loop"}
      /\ (out'.at = "idle" => k = out.n) /\ (out'.at = "loop" => out'.n = out.n - k)
  <2>1. out \in [at : Stages, len : Nat, n : Nat]
    BY DEF IInv, RingInv, OutType
  <2>2. CASE k = out.n
    BY <1>1, <2>1, <2>2 DEF Stages
  <2>3. CASE k # out.n
    <3>1. out.n - k \in Nat /\ out' = [out EXCEPT !.n = out.n - k]
      BY <1>1, <1>3, <1>4, <2>3
    <3>2. QED
      BY <1>2, <2>1, <3>1
  <2>4. QED
    BY <2>2, <2>3
<1> HIDE DEF m
<1>6. heard' \in Seq(Nat)
  <2> DEFINE t == [i \in 1 .. k |-> m + i]
  <2>1. t \in Seq(Nat)
    BY <1>4
  <2>2. heard' = heard \o t
    BY <1>1 DEF m
  <2> HIDE DEF t
  <2>3. QED
    BY <1>3, <2>1, <2>2, ConcatProperties
<1>7. RingInv' /\ PlugInv'
  BY <1>2, <1>3, <1>5, <1>6, PlainStep DEF IInv, PluginsInv
<1>8. DeviceType' /\ FormatInv'
  <2>1. crashed' \in BOOLEAN
    BY <1>2 DEF IInv, PluginsInv, DeviceType
  <2>2. failed' \in BOOLEAN
    BY <1>2 DEF IInv, PluginsInv, DeviceType
  <2>3. QED
    BY <1>2, <2>1, <2>2, WriteFrame
<1>9. ~failed => heard' = [i \in 1 .. m + k |-> i]
  <2> SUFFICES ASSUME ~failed PROVE heard' = [i \in 1 .. m + k |-> i]
    OBVIOUS
  <2>1. heard = [i \in 1 .. m |-> i]
    BY <1>3 DEF m
  <2>2. heard' = heard \o [i \in 1 .. k |-> m + i]
    BY <1>1 DEF m
  <2>3. QED
    BY <1>4, <2>1, <2>2, Appended
<1>10. LoopInv'
  <2>1. out'.at = "loop" => sent' - out'.n = m + k /\ out'.n <= sent'
    BY <1>2, <1>3, <1>4, <1>5 DEF m
  <2>2. QED
    BY <1>2, <1>9, <2>1 DEF LoopInv
<1>11. WrittenOnce'
  <2>1. out'.at = "idle" => sent' = m + k
    BY <1>2, <1>3, <1>4, <1>5 DEF m
  <2>2. QED
    BY <1>2, <1>9, <2>1 DEF WrittenOnce
<1>12. QED
  BY <1>7, <1>8, <1>10, <1>11 DEF IInv, PluginsInv

(* ALSA or OSS gives up.                                                   *)
LEMMA GivenUpStep ==
  ASSUME Sizes, IInv, Suspended \/ OssError
  PROVE  IInv'
<1>1. /\ out.at = "loop" /\ sent' = sent /\ heard' = heard /\ failed' = TRUE /\ crashed' = crashed
      /\ out' = [out EXCEPT !.at = "idle", !.n = 0]
      /\ UNCHANGED <<ring, unit, render, grew, plug, device, known, asked, ready, overruled>>
  BY DEF Suspended, OssError, idleRing
<1>2. /\ out' \in [at : Stages, len : Nat, n : Nat] /\ out'.at = "idle"
      /\ sent' \in 0 .. FrameBound /\ heard' \in Seq(Nat) /\ plug # "coreaudio"
  BY <1>1 DEF IInv, RingInv, OutType, Stages, PluginsInv, PlugInv
<1>3. RingInv' /\ PlugInv'
  BY <1>1, <1>2, PlainStep DEF IInv, PluginsInv
<1>4. DeviceType' /\ FormatInv'
  <2>1. crashed' \in BOOLEAN
    BY <1>1 DEF IInv, PluginsInv, DeviceType
  <2>2. failed' \in BOOLEAN
    BY <1>1
  <2>3. QED
    BY <1>1, <2>1, <2>2, WriteFrame
<1>5. LoopInv' /\ WrittenOnce'
  BY <1>1, <1>2 DEF LoopInv, WrittenOnce
<1>6. QED
  BY <1>3, <1>4, <1>5 DEF IInv, PluginsInv

(* sndio takes all or some.                                                *)
LEMMA WriteSndioStep ==
  ASSUME Sizes, IInv, ~crashed, NEW len \in Lengths, WriteSndio(len)
  PROVE  IInv'
<1>1. PICK k \in 0 .. (IF device.started THEN len ELSE 0) :
        /\ heard' = heard \o [i \in 1 .. k |-> sent + i] /\ failed' = (failed \/ k < len)
  BY DEF WriteSndio
<1>2. /\ out.at = "idle" /\ plug = "sndio" /\ sent' = sent + len /\ sent + len <= FrameBound /\ crashed' = crashed
      /\ UNCHANGED <<ring, unit, render, out, grew, plug, device, known, asked, ready, overruled>>
  BY DEF WriteSndio, idleRing
<1>3. len \in Nat /\ sent \in Nat /\ FrameBound \in Nat /\ heard \in Seq(Nat)
  BY RingFacts DEF IInv
<1>4. k \in Nat /\ k <= len
  BY <1>1, <1>3
<1>5. heard' \in Seq(Nat)
  <2> DEFINE t == [i \in 1 .. k |-> sent + i]
  <2>1. t \in Seq(Nat)
    BY <1>3, <1>4
  <2>2. heard' = heard \o t
    BY <1>1
  <2> HIDE DEF t
  <2>3. QED
    BY <1>3, <2>1, <2>2, ConcatProperties
<1>6. RingInv' /\ PlugInv'
  <2>1. /\ out' \in [at : Stages, len : Nat, n : Nat] /\ out'.at \in {"idle", "loop"}
        /\ sent' \in 0 .. FrameBound /\ plug # "coreaudio"
    BY <1>2, <1>3 DEF IInv, RingInv, OutType
  <2>2. QED
    BY <1>2, <1>5, <2>1, PlainStep DEF IInv, PluginsInv
<1>7. DeviceType' /\ FormatInv'
  <2>1. crashed' \in BOOLEAN
    BY <1>2 DEF IInv, PluginsInv, DeviceType
  <2>2. failed' \in BOOLEAN
    BY <1>1
  <2>3. QED
    BY <1>2, <2>1, <2>2, WriteFrame
<1>8. LoopInv'
  BY <1>2 DEF LoopInv
<1>9. WrittenOnce'
  <2> SUFFICES ASSUME ~failed' PROVE heard' = [i \in 1 .. sent' |-> i]
    BY DEF WrittenOnce
  <2>0. ~failed /\ ~(k < len)
    BY <1>1, Zenon
  <2>1. ~failed /\ k = len
    BY <1>3, <1>4, <2>0
  <2>2. heard = [i \in 1 .. sent |-> i]
    BY <1>2, <2>1 DEF IInv, PluginsInv, WrittenOnce
  <2>3. heard' = [i \in 1 .. sent + k |-> i]
    BY <1>1, <1>3, <1>4, <2>2, Appended
  <2>4. QED
    BY <1>2, <2>1, <2>3
<1>10. QED
  BY <1>6, <1>7, <1>8, <1>9 DEF IInv, PluginsInv

(* The steps of CoreAudio leave the rest of the plug-in's state alone.     *)
LEMMA RingSteps ==
  ASSUME IInv, RingInv', plug = "coreaudio", plug' = plug, out'.at # "loop", UNCHANGED <<device, known>>,
         ready' \in BOOLEAN, crashed' \in BOOLEAN, failed' \in BOOLEAN, overruled' \in BOOLEAN
  PROVE  IInv'
<1>1. PlugInv' /\ DeviceType'
  BY DEF IInv, PluginsInv, PlugInv, DeviceType
<1>2. LoopInv' /\ WrittenOnce' /\ FormatInv'
  BY DEF LoopInv, WrittenOnce, FormatInv, FormatAsTold
<1>3. QED
  BY <1>1, <1>2 DEF IInv, PluginsInv

(* The two threads of CoreAudio, in the middle of a call.                  *)
LEMMA ThreadStep ==
  ASSUME Sizes, IInv, Caller \/ Callback, UNCHANGED pluginVars
  PROVE  IInv'
<1>1. RingInv
  BY DEF IInv
<1>2. plug = "coreaudio" /\ plug' = plug
  <2>1. plug' = plug
    BY DEF pluginVars
  <2> SUFFICES ASSUME plug # "coreaudio" PROVE FALSE
    BY <2>1
  <2>2. ~unit /\ render.at = "idle" /\ out.at \in {"idle", "loop"}
    BY DEF IInv, PluginsInv, PlugInv
  <2>3. ~Callback
    BY <2>2 DEF Callback, ReadRegions, ReadCopy, AdvanceRead, Signal
  <2>4. ~Caller
    BY <2>2 DEF Caller, WriteCopy, AdvanceWrite, Wait, DropRest, Stop, Start, InitSize, InitMasks
  <2>5. QED
    BY <2>3, <2>4
<1>3. /\ UNCHANGED <<device, known>> /\ ready' \in BOOLEAN /\ crashed' \in BOOLEAN /\ failed' \in BOOLEAN
      /\ overruled' \in BOOLEAN
  BY DEF pluginVars, IInv, PluginsInv, DeviceType
<1>4. out \in [at : Stages, len : Nat, n : Nat] /\ out.at # "loop"
  BY <1>2 DEF IInv, RingInv, OutType, PluginsInv, PlugInv
<1>5. CASE Callback
  <2>1. RingInv'
    BY <1>1, <1>5, ReadRegionsStep, ReadCopyStep, AdvanceReadStep, SignalStep DEF Callback
  <2>2. out'.at # "loop"
    BY <1>4, <1>5 DEF Callback, ReadRegions, ReadCopy, AdvanceRead, Signal
  <2>3. QED
    BY <1>2, <1>3, <2>1, <2>2, RingSteps
<1>6. CASE Caller
  <2>1. RingInv'
    BY <1>1, <1>6, WriteCopyStep, AdvanceWriteStep, WaitStep, DropSteps, StopStep, StartStep, InitSizeStep,
       InitMasksStep DEF Caller
  <2>2. out'.at # "loop"
    BY <1>4, <1>6 DEF Caller, WriteCopy, AdvanceWrite, Wait, DropRest, Stop, Start, InitSize, InitMasks
  <2>3. QED
    BY <1>2, <1>3, <2>1, <2>2, RingSteps
<1>7. QED
  BY <1>5, <1>6

(* CoreAudio's Setup and Write begin.                                      *)
LEMMA CoreaudioStep ==
  ASSUME Sizes, IInv, (\E f \in Format : SetupCoreaudio(f)) \/ (\E len \in Lengths : WriteCoreaudio(len))
  PROVE  IInv'
<1>1. RingInv
  BY DEF IInv
<1>2. out \in [at : Stages, len : Nat, n : Nat]
  BY DEF IInv, RingInv, OutType
<1>3. DeviceType
  BY DEF IInv, PluginsInv
<1>4. ASSUME NEW f \in Format, SetupCoreaudio(f) PROVE IInv'
  <2>1. /\ plug = "coreaudio" /\ plug' = plug /\ Drop /\ UNCHANGED <<device, known>> /\ ready' \in BOOLEAN
        /\ crashed' \in BOOLEAN /\ failed' \in BOOLEAN /\ overruled' \in BOOLEAN
    BY <1>3, <1>4 DEF SetupCoreaudio, DeviceType
  <2>2. out'.at # "loop"
    BY <1>2, <2>1 DEF Drop
  <2>3. RingInv'
    BY <1>1, <2>1, DropSteps
  <2>4. QED
    BY <2>1, <2>2, <2>3, RingSteps
<1>5. ASSUME NEW len \in Lengths, WriteCoreaudio(len) PROVE IInv'
  <2>1. /\ plug = "coreaudio" /\ plug' = plug /\ WriteRegions(len) /\ UNCHANGED <<device, known>> /\ ready' \in BOOLEAN
        /\ crashed' \in BOOLEAN /\ failed' \in BOOLEAN /\ overruled' \in BOOLEAN
    BY <1>3, <1>5 DEF WriteCoreaudio, DeviceType, pluginVars
  <2>2. out'.at # "loop"
    BY <2>1 DEF WriteRegions
  <2>3. RingInv'
    BY <1>1, <2>1, WriteRegionsStep
  <2>4. QED
    BY <2>1, <2>2, <2>3, RingSteps
<1>6. QED
  BY <1>4, <1>5

-----------------------------------------------------------------------------
(* The theorems.                                                           *)

(* As the player opens the plug-in.                                        *)
LEMMA InitIInv ==
  ASSUME Sizes, Formats, Init
  PROVE  IInv
<1>1. /\ ring = NoRing /\ unit = FALSE /\ render = [at |-> "idle", n |-> 0]
      /\ out = [at |-> "idle", len |-> N, n |-> 0] /\ sent = 0 /\ heard = <<>> /\ grew = FALSE
  BY DEF Init, InitRing, N
<1>2. N \in Nat \ {0} /\ FrameBound \in Nat
  BY DEF Sizes, N
<1>3. ring = [size |-> 0, masked |-> FALSE, w |-> 0, r |-> 0, mem |-> Silence]
  BY <1>1 DEF NoRing
<1>4. ring.size = 0 /\ ~ring.masked /\ ring.w = 0 /\ ring.r = 0
  BY <1>3
<1>5. RingType
  <2> DEFINE I == 0 .. 2 * N - 1
             M == [0 .. N - 1 -> Nat]
             Z == {0, N}
  <2>1. 0 \in I
    BY <1>2
  <2>2. Silence \in M /\ 0 \in Z
    BY DEF Silence, N
  <2> HIDE DEF I, M, Z
  <2>3. ring \in [size : Z, masked : BOOLEAN, w : I, r : I, mem : M]
    BY ONLY <1>3, <2>1, <2>2, SMT
  <2>4. ring \in [size : {0, N}, masked : BOOLEAN, w : 0 .. 2 * N - 1, r : 0 .. 2 * N - 1, mem : [0 .. N - 1 -> Nat]]
    BY <2>3 DEF I, M, Z
  <2>5. QED
    BY <1>4, <2>4 DEF RingType
<1>6. ReadAvailable = 0
  BY <1>4 DEF ReadAvailable, Wrapped
<1>7. RenderType
  BY <1>1, <1>2 DEF RenderType
<1>8. OutType
  <2>1. out \in [at : Stages, len : Nat, n : Nat] /\ out.at = "idle"
    BY <1>1, <1>2 DEF Stages
  <2>2. unit \in BOOLEAN /\ grew \in BOOLEAN /\ ~unit
    BY <1>1
  <2>3. sent \in 0 .. FrameBound /\ heard \in Seq(Nat)
    BY <1>1, <1>2
  <2>4. QED
    BY <1>4, <2>1, <2>2, <2>3 DEF OutType
<1>9. Bounds
  BY <1>1, <1>4, <1>6 DEF Bounds
<1>10. Counted
  BY <1>1 DEF Counted
<1>11. PlugInv
  BY <1>1 DEF Init, PlugInv
<1>12. DeviceType
  <2>1. device \in [open : BOOLEAN, has : Format \cup {NoFormat}, started : BOOLEAN]
    <3>1. device \in {Shut, Opened}
      BY DEF Init
    <3>2. Shut \in [open : BOOLEAN, has : Format \cup {NoFormat}, started : BOOLEAN]
      BY DEF Shut
    <3>3. CASE device = Shut
      BY <3>2, <3>3
    <3>4. CASE device = Opened
      BY <3>2, <3>4 DEF Opened
    <3>5. QED
      BY <3>1, <3>3, <3>4
  <2>2. crashed \in BOOLEAN
    BY DEF Init
  <2>3. known \in Format \cup {NoFormat} /\ ready \in BOOLEAN /\ failed \in BOOLEAN /\ overruled \in BOOLEAN
    BY DEF Init
  <2>4. QED
    BY <2>1, <2>2, <2>3 DEF DeviceType
<1>13. LoopInv /\ FormatInv
  BY <1>1 DEF Init, LoopInv, FormatInv, FormatAsTold
<1>14. WrittenOnce
  <2>1. heard = [k \in 1 .. 0 |-> k]
    BY <1>1
  <2>2. QED
    BY <1>1, <2>1 DEF WrittenOnce
<1>15. QED
  BY <1>5, <1>7, <1>8, <1>9, <1>10, <1>11, <1>12, <1>13, <1>14 DEF IInv, RingInv, PluginsInv

(* For every size of the ring, all lengths of Writes and all formats: the  *)
(* invariant of the output plug-ins, from the masks of the ring to what    *)
(* the device has been given.                                              *)
THEOREM OutputInvariance ==
  ASSUME Sizes, Formats
  PROVE  Spec => []IInv
<1>1. Init => IInv
  BY InitIInv
<1>2. IInv /\ [Next]_vars => IInv'
  <2> SUFFICES ASSUME IInv, [Next]_vars PROVE IInv'
    OBVIOUS
  <2>1. CASE UNCHANGED vars
    <3>1. RingInv'
      <4>1. UNCHANGED <<ring, unit, render, out, sent, heard, grew>>
        BY <2>1 DEF vars, ringVars
      <4>2. ReadAvailable' = ReadAvailable /\ WriteAvailable' = WriteAvailable /\ RingType'
        BY <4>1, SameRing DEF IInv, RingInv
      <4>3. RenderType' /\ OutType'
        BY <4>1 DEF IInv, RingInv, RenderType, OutType
      <4>4. Dropping' = Dropping /\ Done' = Done /\ Copied' = Copied
        BY <4>1 DEF Dropping, Done, Copied
      <4>5. Bounds'
        BY <4>1, <4>2, <4>4 DEF IInv, RingInv, Bounds
      <4>6. Counted'
        BY <4>1, <4>2, <4>4 DEF IInv, RingInv, Counted
      <4>7. QED
        BY <4>2, <4>3, <4>5, <4>6 DEF RingInv
    <3>2. PluginsInv'
      BY <2>1 DEF vars, ringVars, pluginVars, IInv, PluginsInv, PlugInv, DeviceType, LoopInv, WrittenOnce,
                  FormatInv, FormatAsTold
    <3>3. QED
      BY <3>1, <3>2 DEF IInv
  <2>2. CASE Next
    <3>1. ~crashed
      BY <2>2 DEF Next
    <3>2. ASSUME NEW f \in Format, Setup(f) PROVE IInv'
      BY <3>2, SetupStep
    <3>3. CASE (\E f \in Format : SetupCoreaudio(f)) \/ (\E len \in Lengths : WriteCoreaudio(len))
      BY <3>3, CoreaudioStep
    <3>4. ASSUME NEW len \in Lengths, Begin(len) PROVE IInv'
      BY <3>1, <3>4, BeginStep
    <3>5. ASSUME NEW len \in Lengths, WriteSndio(len) PROVE IInv'
      BY <3>1, <3>5, WriteSndioStep
    <3>6. CASE Written
      BY <3>1, <3>6, WrittenStep
    <3>7. CASE Suspended \/ OssError
      BY <3>7, GivenUpStep
    <3>8. CASE (Caller \/ Callback) /\ UNCHANGED pluginVars
      BY <3>8, ThreadStep
    <3>9. QED
      BY <2>2, <3>2, <3>3, <3>4, <3>5, <3>6, <3>7, <3>8 DEF Next, Write
  <2>3. QED
    BY <2>1, <2>2
<1>3. QED
  BY <1>1, <1>2, PTL DEF Spec

(* What was written is heard once and in order, though the two threads of  *)
(* CoreAudio share nothing but two indexes and the other devices take what *)
(* they like of a Write, and a Setup that answers Ok has given the device  *)
(* the format that it was asked for, but for the exceptions named in the   *)
(* properties.                                                             *)
THEOREM SoundIsKept ==
  ASSUME Sizes, Formats
  PROVE  Spec => []SoundInv
<1>1. IInv => SoundInv
  <2> SUFFICES ASSUME IInv PROVE SoundInv
    OBVIOUS
  <2>1. TypeOK
    <3>1. plug \in Kinds /\ device \in [open : BOOLEAN, has : Format \cup {NoFormat}, started : BOOLEAN]
      BY DEF IInv, PluginsInv, PlugInv, DeviceType
    <3>2. ready \in BOOLEAN /\ crashed \in BOOLEAN /\ failed \in BOOLEAN /\ overruled \in BOOLEAN
      BY DEF IInv, PluginsInv, DeviceType
    <3>3. grew \in BOOLEAN /\ unit \in BOOLEAN
      BY DEF IInv, RingInv, OutType
    <3>4. {ready, crashed, failed, overruled, grew, unit} \subseteq BOOLEAN
      BY <3>2, <3>3
    <3>5. sent \in 0 .. FrameBound /\ \A k \in DOMAIN heard : heard[k] \in Nat
      BY RingFacts DEF IInv
    <3>6. QED
      BY <3>1, <3>4, <3>5 DEF TypeOK
  <2>2. RingBounded
    BY DEF IInv, RingInv, Bounds, RingBounded
  <2>3. FormatAsTold /\ WrittenOnce
    BY DEF IInv, PluginsInv, FormatInv
  <2>4. NothingLost
    <3> SUFFICES ASSUME unit, ~Dropping, ~grew
                 PROVE  /\ heard = [k \in 1 .. Len(heard) |-> k]
                        /\ sent = Len(heard) + ReadAvailable - Done
      BY DEF NothingLost, Done
    <3>1. heard = [k \in 1 .. Len(heard) |-> k] /\ sent = Len(heard) - Done + ReadAvailable
      BY DEF IInv, RingInv, Counted
    <3>2. Len(heard) \in Nat /\ ReadAvailable \in Nat /\ Done \in Nat
      BY RingFacts DEF IInv, Done
    <3>3. QED
      BY <3>1, <3>2
  <2>5. QED
    BY <2>1, <2>2, <2>3, <2>4 DEF SoundInv, OutputInv
<1>2. QED
  BY <1>1, OutputInvariance, PTL

-----------------------------------------------------------------------------
(* The window.                                                             *)

RowType == [url : Url, tag : {0, 1}]
ListType == [rows : Seq(RowType), at : Int, mode : Mode]
MaybeUrl == Url \cup {NoUrl}

(* What the window has: every view's list, the tabs of those made.         *)
ViewTypes ==
  /\ views \in [View -> ListType] /\ made \in 0 .. MaxViews
  /\ tabs \in Seq(1 .. made) /\ Len(tabs) <= made
  /\ loading \in [view : View \cup {NoView}, url : MaybeUrl]
  /\ loading.view # NoView => loading.url \in Url

(* What plays, what shows it, and what is edited.                          *)
SoundTypes ==
  /\ usedView \in View \cup {NoView}
  /\ usedItem \in [url : MaybeUrl, holds : BOOLEAN]
  /\ player \in [status : {"Closed", "Playing", "Paused"}, url : MaybeUrl, over : BOOLEAN]
  /\ button \in {"play", "pause"} /\ timer \in BOOLEAN /\ trying \in BOOLEAN /\ again \in BOOLEAN
  /\ editor \in [url : MaybeUrl, tag : {0, 1}, text : {0, 1}, unsaved : BOOLEAN]
  /\ editor.unsaved => editor.url \in Url

SessionTypes ==
  /\ app \in {"up", "closing", "down"} /\ lost \in BOOLEAN /\ torn \in BOOLEAN
  /\ disk \in [tags : [Url -> {0, 1}], lists : Seq(ListType), tabCount : 0 .. MaxViews]

(* A list has its bound, and room for the row that is being loaded.        *)
Bounded(list) == Len(list.rows) <= MaxRows /\ list.at \in -1 .. MaxRows
BoundInv ==
  /\ \A v \in View : Bounded(views[v]) /\ (loading.view = v => Len(views[v].rows) < MaxRows)
  /\ \A i \in DOMAIN disk.lists : Bounded(disk.lists[i])

(* A view not made yet has no rows, so that a new tab has none.            *)
UnmadeInv == \A v \in View : v > made => views[v].rows = <<>>

(* As ShowsWhatPlays, in every state.                                      *)
ShowsInv ==
  player.status # "Closed" =>
    /\ button = (IF player.status = "Playing" THEN "pause" ELSE "play")
    /\ timer = (player.status = "Playing")
    /\ ~again => editor.url = player.url

(* The rows have the tags of their files; when no process runs, those of   *)
(* the lists with which the next session begins.                           *)
Agree(list) ==
  \A k \in DOMAIN list.rows :
    list.rows[k].url \notin elsewhere => list.rows[k].tag = disk.tags[list.rows[k].url]
AgreeInv ==
  /\ app # "down" => \A v \in Alive : Agree(views[v])
  /\ app = "down" => \A i \in 1 .. disk.tabCount : i \in DOMAIN disk.lists => Agree(disk.lists[i])

(* Between the lists and their number the files have the lists.            *)
ClosingInv ==
  app = "closing" =>
    /\ torn /\ closed = Lists(tabs)
    /\ \A i \in DOMAIN tabs : i \in DOMAIN disk.lists /\ disk.lists[i] = views[tabs[i]]

(* What the next session begins with is what the last one was closed with. *)
KeptInv == ~torn => closed = Restored

DownInv == app = "down" => player.status = "Closed" /\ loading.view = NoView

WindowInv ==
  /\ ViewTypes /\ SoundTypes /\ SessionTypes
  /\ BoundInv /\ UnmadeInv /\ ShowsInv /\ AgreeInv /\ ClosingInv /\ KeptInv /\ DownInv

-----------------------------------------------------------------------------
(* What is known of the constants.                                         *)
LEMMA Parameters ==
  MaxRows \in Nat /\ MaxViews \in Nat /\ View = 1 .. MaxViews /\ NoView \notin View /\ NoUrl \notin Url
BY DesktopAssumption DEF View, NoView

(* The views shown were made, and their rows have the types and the bound.  *)
LEMMA AliveFacts ==
  ASSUME WindowInv, NEW v \in Alive
  PROVE  /\ v \in View /\ v \in 1 .. made
         /\ views[v] \in ListType /\ Len(views[v].rows) \in 0 .. MaxRows
<1>1. v \in 1 .. made /\ v \in View
  BY Parameters DEF WindowInv, ViewTypes, Alive
<1>2. views[v] \in ListType
  BY <1>1 DEF WindowInv, ViewTypes
<1>3. Len(views[v].rows) \in Nat /\ Len(views[v].rows) <= MaxRows
  BY <1>1, <1>2 DEF WindowInv, BoundInv, Bounded, ListType
<1>4. QED
  BY <1>1, <1>2, <1>3, Parameters

(* What does not write a file keeps what the files are to have.            *)
LEMMA UpFrame ==
  ASSUME WindowInv, app = "up", Session, lost' \in BOOLEAN
  PROVE  SessionTypes' /\ ClosingInv' /\ KeptInv' /\ DownInv'
<1>1. app' = "up" /\ disk' = disk /\ closed' = closed /\ torn' = torn
  BY DEF Session
<1>2. SessionTypes'
  BY <1>1 DEF WindowInv, SessionTypes
<1>3. Restored' = Restored
  BY <1>1 DEF Restored
<1>4. QED
  BY <1>1, <1>2, <1>3 DEF WindowInv, ClosingInv, KeptInv, DownInv

(* A step that leaves the rows alone.                                      *)
LEMMA RowsFrame ==
  ASSUME WindowInv, app = "up", app' = app, disk' = disk,
         UNCHANGED <<tabs, made, loading, elsewhere>>, views' \in [View -> ListType],
         \A v \in View : views'[v].rows = views[v].rows /\ views'[v].at \in -1 .. MaxRows
  PROVE  ViewTypes' /\ BoundInv' /\ UnmadeInv' /\ AgreeInv'
<1>1. ViewTypes'
  BY DEF WindowInv, ViewTypes
<1>2. BoundInv'
  BY DEF WindowInv, BoundInv, Bounded
<1>3. UnmadeInv'
  BY DEF WindowInv, UnmadeInv
<1>4. Alive' = Alive /\ Alive \subseteq View
  BY Parameters DEF WindowInv, ViewTypes, Alive
<1>5. \A v \in View : Agree(views[v]) => Agree(views[v])'
  BY DEF Agree
<1>6. AgreeInv'
  BY <1>4, <1>5 DEF WindowInv, AgreeInv
<1>7. QED
  BY <1>1, <1>2, <1>3, <1>6

(* The lists as they are, in the form in which RowsFrame asks for them.     *)
LEMMA SameViews ==
  ASSUME WindowInv
  PROVE  /\ views \in [View -> ListType]
         /\ \A v \in View : views[v].rows = views[v].rows /\ views[v].at \in -1 .. MaxRows
BY DEF WindowInv, ViewTypes, BoundInv, Bounded

(* An item is opened, or not: button, timer and editor show it.            *)
LEMMA PlayStep ==
  ASSUME WindowInv, NEW v \in View, NEW row \in RowType, PlayMediaItem(v, row)
  PROVE  SoundTypes' /\ ShowsInv'
<1>1. row.url \in Url /\ row.tag \in {0, 1}
  BY DEF RowType
<1>2. usedView' \in View \cup {NoView} /\ usedItem' \in [url : MaybeUrl, holds : BOOLEAN] /\ again' \in BOOLEAN
  BY <1>1 DEF PlayMediaItem, MaybeUrl
<1>3. CASE /\ player' = [status |-> "Playing", url |-> row.url, over |-> FALSE]
           /\ timer' = TRUE /\ button' = "pause" /\ trying' = FALSE
           /\ editor' = LoadTag(row)
  <2>1. player' \in [status : {"Closed", "Playing", "Paused"}, url : MaybeUrl, over : BOOLEAN]
    BY <1>1, <1>3 DEF MaybeUrl
  <2>2. editor' \in [url : MaybeUrl, tag : {0, 1}, text : {0, 1}, unsaved : BOOLEAN] /\ editor'.url = row.url
    BY <1>1, <1>3 DEF MaybeUrl, LoadTag
  <2>3. QED
    BY <1>1, <1>2, <1>3, <2>1, <2>2 DEF SoundTypes, ShowsInv
<1>4. CASE /\ player' = Closed /\ trying' = TRUE
           /\ timer' = (timer /\ player.status \in {"Playing", "Closed"})
           /\ UNCHANGED <<button, editor>>
  <2>1. player' \in [status : {"Closed", "Playing", "Paused"}, url : MaybeUrl, over : BOOLEAN] /\ player'.status = "Closed"
    BY <1>4 DEF MaybeUrl, Closed
  <2>2. timer' \in BOOLEAN
    BY <1>4 DEF WindowInv, SoundTypes
  <2>3. QED
    BY <1>2, <1>4, <2>1, <2>2 DEF WindowInv, SoundTypes, ShowsInv
<1>5. QED
  BY <1>3, <1>4 DEF PlayMediaItem

(* A position in a list.                                                   *)
LEMMA OffsetFacts ==
  ASSUME NEW list \in ListType, NEW offset \in Int
  PROVE  OffsetToIndex(list, offset) \in -1 .. Len(list.rows) - 1
<1> DEFINE n == Len(list.rows)
           total == list.at + offset
           i == CASE list.mode = "Normal" -> total
                  [] list.mode = "Repeat" -> IF n = 0 THEN -1 ELSE (total % SizeModulus) % n
                  [] list.mode = "RepeatOne" -> list.at
<1>1. OffsetToIndex(list, offset) = IF i \in 0 .. n - 1 THEN i ELSE -1
  BY DEF OffsetToIndex
<1>2. n \in Nat
  BY DEF ListType
<1> HIDE DEF i, n
<1>3. (IF i \in 0 .. n - 1 THEN i ELSE -1) \in -1 .. n - 1
  BY <1>2
<1>4. QED
  BY <1>1, <1>3 DEF n

(* The next item that is in the list is played, if there is one.           *)
LEMMA AdvanceStep ==
  ASSUME WindowInv, NEW offset \in Int, app = "up", Session, Advance(offset)
  PROVE  WindowInv'
<1>1. CASE usedView \notin Alive
  <2>1. lost' \in BOOLEAN /\ UNCHANGED <<window, player, editor, loading, again, elsewhere>>
    BY <1>1 DEF Advance
  <2>2. SessionTypes' /\ ClosingInv' /\ KeptInv' /\ DownInv'
    BY <2>1, UpFrame
  <2>3. ViewTypes' /\ BoundInv' /\ UnmadeInv' /\ AgreeInv'
    BY <2>1, RowsFrame, SameViews DEF window, Session
  <2>4. SoundTypes' /\ ShowsInv'
    BY <2>1 DEF window, WindowInv, SoundTypes, ShowsInv
  <2>5. QED
    BY <2>2, <2>3, <2>4 DEF WindowInv
<1>2. CASE usedView \in Alive
  <2> DEFINE list == views[usedView]
             i == OffsetToIndex(list, offset)
  <2>1. usedView \in View /\ list \in ListType /\ Len(list.rows) \in 0 .. MaxRows
    BY <1>2, AliveFacts
  <2>2. i \in -1 .. Len(list.rows) - 1
    BY <2>1, OffsetFacts
  <2>3. CASE i >= 0
    <3>1. /\ views' = [views EXCEPT ![usedView].at = i]
          /\ PlayMediaItem(usedView, list.rows[i + 1])
          /\ lost' = lost
      BY <1>2, <2>3 DEF Advance
    <3>2. list.rows[i + 1] \in RowType
      BY <2>1, <2>2, <2>3 DEF ListType
    <3>3. SoundTypes' /\ ShowsInv'
      BY <2>1, <3>1, <3>2, PlayStep
    <3>4. /\ views' \in [View -> ListType]
          /\ \A v \in View : views'[v].rows = views[v].rows /\ views'[v].at \in -1 .. MaxRows
      BY <2>1, <2>2, <3>1, SameViews, Parameters DEF ListType
    <3>5. UNCHANGED <<tabs, made, loading, elsewhere>>
      BY <3>1 DEF PlayMediaItem
    <3>6. ViewTypes' /\ BoundInv' /\ UnmadeInv' /\ AgreeInv'
      BY <3>4, <3>5, RowsFrame DEF Session
    <3>7. SessionTypes' /\ ClosingInv' /\ KeptInv' /\ DownInv'
      BY <3>1, UpFrame DEF WindowInv, SessionTypes
    <3>8. QED
      BY <3>3, <3>6, <3>7 DEF WindowInv
  <2>4. CASE ~(i >= 0)
    <3>1. /\ trying' = FALSE
          /\ UNCHANGED <<lost, views, tabs, made, usedView, usedItem, button, timer, player, editor, loading, again, elsewhere>>
      BY <1>2, <2>4 DEF Advance
    <3>2. SessionTypes' /\ ClosingInv' /\ KeptInv' /\ DownInv'
      BY <3>1, UpFrame DEF WindowInv, SessionTypes
    <3>3. ViewTypes' /\ BoundInv' /\ UnmadeInv' /\ AgreeInv'
      BY <3>1, RowsFrame, SameViews DEF Session
    <3>4. SoundTypes' /\ ShowsInv'
      BY <3>1 DEF WindowInv, SoundTypes, ShowsInv
    <3>5. QED
      BY <3>2, <3>3, <3>4 DEF WindowInv
  <2>5. QED
    BY <2>3, <2>4
<1>3. QED
  BY <1>1, <1>2

(* A double click plays the row and makes it the current one.              *)
LEMMA DoubleClickStep ==
  ASSUME WindowInv, NEW v \in View, NEW k \in DOMAIN views[v].rows, DoubleClick(v, k)
  PROVE  WindowInv'
<1>1. /\ app = "up" /\ v \in Alive /\ Session /\ lost' = lost
      /\ views' = [views EXCEPT ![v].at = k - 1]
      /\ PlayMediaItem(v, views[v].rows[k])
  BY DEF DoubleClick, Event, Ready
<1>2. views[v] \in ListType /\ Len(views[v].rows) \in 0 .. MaxRows
  BY DEF WindowInv, ViewTypes, BoundInv, Bounded, ListType
<1>3. k \in 1 .. Len(views[v].rows) /\ views[v].rows[k] \in RowType
  BY <1>2 DEF ListType
<1>4. SoundTypes' /\ ShowsInv'
  BY <1>1, <1>3, PlayStep
<1>5. /\ views' \in [View -> ListType]
      /\ \A w \in View : views'[w].rows = views[w].rows /\ views'[w].at \in -1 .. MaxRows
  <2>1. k - 1 \in -1 .. MaxRows /\ k - 1 \in Int
    BY <1>2, <1>3, Parameters
  <2>2. QED
    BY <1>1, <1>2, <2>1, SameViews DEF ListType
<1>6. UNCHANGED <<tabs, made, loading, elsewhere>>
  BY <1>1 DEF PlayMediaItem
<1>7. ViewTypes' /\ BoundInv' /\ UnmadeInv' /\ AgreeInv'
  BY <1>1, <1>5, <1>6, RowsFrame DEF Session
<1>8. SessionTypes' /\ ClosingInv' /\ KeptInv' /\ DownInv'
  BY <1>1, UpFrame DEF WindowInv, SessionTypes
<1>9. QED
  BY <1>4, <1>7, <1>8 DEF WindowInv

(* Taking one entry out of a sequence leaves the others.                   *)
LEMMA RemoveFacts ==
  ASSUME NEW S, NEW s \in Seq(S), NEW k \in 1 .. Len(s)
  PROVE  /\ RemoveAt(s, k) \in Seq(S) /\ Len(RemoveAt(s, k)) = Len(s) - 1
         /\ \A j \in 1 .. Len(RemoveAt(s, k)) : \E i \in 1 .. Len(s) : RemoveAt(s, k)[j] = s[i]
<1> DEFINE a == SubSeq(s, 1, k - 1)
           b == SubSeq(s, k + 1, Len(s))
<1>1. a \in Seq(S) /\ Len(a) = k - 1 /\ \A i \in 1 .. k - 1 : a[i] = s[i]
  BY SubSeqProperties
<1>2. b \in Seq(S) /\ Len(b) = Len(s) - k /\ \A i \in 1 .. Len(s) - k : b[i] = s[k + i]
  BY SubSeqProperties
<1> HIDE DEF a, b
<1>3. /\ a \o b \in Seq(S) /\ Len(a \o b) = Len(a) + Len(b)
      /\ \A j \in 1 .. Len(a) + Len(b) : (a \o b)[j] = IF j <= Len(a) THEN a[j] ELSE b[j - Len(a)]
  BY <1>1, <1>2, ConcatProperties
<1>4. Len(a \o b) = Len(s) - 1
  BY <1>1, <1>2, <1>3
<1>5. \A j \in 1 .. Len(a \o b) : \E i \in 1 .. Len(s) : (a \o b)[j] = s[i]
  <2>1. SUFFICES ASSUME NEW j \in 1 .. Len(a \o b) PROVE \E i \in 1 .. Len(s) : (a \o b)[j] = s[i]
    OBVIOUS
  <2>2. CASE j <= k - 1
    <3>1. (a \o b)[j] = s[j] /\ j \in 1 .. Len(s)
      BY <1>1, <1>2, <1>3, <2>2
    <3>2. QED
      BY <3>1
  <2>3. CASE ~(j <= k - 1)
    <3>1. (a \o b)[j] = b[j - (k - 1)] /\ j - (k - 1) \in 1 .. Len(s) - k
      BY <1>1, <1>2, <1>3, <1>4, <2>3
    <3>2. b[j - (k - 1)] = s[k + (j - (k - 1))] /\ k + (j - (k - 1)) \in 1 .. Len(s)
      BY <1>2, <3>1
    <3>3. QED
      BY <3>1, <3>2
  <2>4. QED
    BY <2>2, <2>3
<1>6. RemoveAt(s, k) = a \o b
  BY DEF RemoveAt, a, b
<1>7. QED
  BY <1>3, <1>4, <1>5, <1>6

(* What is done to the tabs leaves what plays, but for the item in use.    *)
LEMMA PlayingFrame ==
  ASSUME WindowInv, UNCHANGED Playing, usedItem' \in [url : MaybeUrl, holds : BOOLEAN]
  PROVE  SoundTypes' /\ ShowsInv'
BY DEF Playing, WindowInv, SoundTypes, ShowsInv

(* An end of an item is no matter of the invariant.                        *)
LEMMA PlayOutStep ==
  ASSUME WindowInv, PlayOut
  PROVE  WindowInv'
<1>1. /\ app = "up" /\ Session /\ player' = [player EXCEPT !.over = TRUE]
      /\ UNCHANGED <<lost, window, editor, loading, again, elsewhere>>
  BY DEF PlayOut
<1>2. SessionTypes' /\ ClosingInv' /\ KeptInv' /\ DownInv'
  BY <1>1, UpFrame DEF WindowInv, SessionTypes
<1>3. ViewTypes' /\ BoundInv' /\ UnmadeInv' /\ AgreeInv'
  BY <1>1, RowsFrame, SameViews DEF window, Session
<1>4. SoundTypes' /\ ShowsInv'
  BY <1>1 DEF window, WindowInv, SoundTypes, ShowsInv
<1>5. QED
  BY <1>2, <1>3, <1>4 DEF WindowInv

(* An end on its way to the UI thread changes nothing that it speaks of.   *)
LEMMA Stutter ==
  ASSUME WindowInv,
         UNCHANGED <<app, lost, window, player, editor, loading, disk, again, elsewhere, closed, torn>>
  PROVE  WindowInv'
<1>1. UNCHANGED <<views, tabs, made, usedView, usedItem, trying, button, timer>>
  BY DEF window
<1>2. Alive' = Alive /\ Lists(tabs)' = Lists(tabs) /\ Restored' = Restored
  BY <1>1 DEF Alive, Lists, Restored
<1>3. \A list : Agree(list)' = Agree(list)
  BY DEF Agree
<1>4. ViewTypes' /\ SoundTypes'
  BY <1>1 DEF WindowInv, ViewTypes, SoundTypes
<1>5. SessionTypes' /\ BoundInv' /\ UnmadeInv' /\ ShowsInv'
  BY <1>1 DEF WindowInv, SessionTypes, BoundInv, UnmadeInv, ShowsInv
<1>6. AgreeInv'
  BY <1>1, <1>2, <1>3 DEF WindowInv, AgreeInv, Agree
<1>7. ClosingInv' /\ KeptInv' /\ DownInv'
  BY <1>1, <1>2 DEF WindowInv, ClosingInv, KeptInv, DownInv
<1>8. QED
  BY <1>4, <1>5, <1>6, <1>7 DEF WindowInv

(* The button plays, pauses or resumes, and shows it.                      *)
LEMMA SlotBtnPlayStep ==
  ASSUME WindowInv, SlotBtnPlay
  PROVE  WindowInv'
<1>1. /\ app = "up" /\ Session
      /\ UNCHANGED <<views, tabs, made, usedView, usedItem, trying, editor, loading, elsewhere>>
  BY DEF SlotBtnPlay, Event, Ready
<1>2. lost' \in BOOLEAN
  BY DEF SlotBtnPlay, WindowInv, SoundTypes, SessionTypes
<1>3. SessionTypes' /\ ClosingInv' /\ KeptInv' /\ DownInv'
  BY <1>1, <1>2, UpFrame
<1>4. ViewTypes' /\ BoundInv' /\ UnmadeInv' /\ AgreeInv'
  BY <1>1, RowsFrame, SameViews DEF Session
<1>5. SoundTypes' /\ ShowsInv'
  <2>1. CASE /\ usedItem.holds /\ player' = [status |-> "Playing", url |-> usedItem.url, over |-> FALSE]
             /\ timer' = TRUE /\ button' = "pause" /\ again' = TRUE
    <3>1. player' \in [status : {"Closed", "Playing", "Paused"}, url : MaybeUrl, over : BOOLEAN]
      BY <2>1 DEF WindowInv, SoundTypes
    <3>2. QED
      BY <1>1, <2>1, <3>1 DEF WindowInv, SoundTypes, ShowsInv
  <2>2. CASE UNCHANGED <<player, timer, button, again>>
    BY <1>1, <2>2 DEF WindowInv, SoundTypes, ShowsInv
  <2>3. CASE /\ player.status = "Playing" /\ player' = [player EXCEPT !.status = "Paused"]
             /\ timer' = FALSE /\ button' = "play" /\ UNCHANGED <<lost, again>>
    <3>1. /\ player' \in [status : {"Closed", "Playing", "Paused"}, url : MaybeUrl, over : BOOLEAN]
          /\ player'.status = "Paused" /\ player'.url = player.url
      BY <2>3 DEF WindowInv, SoundTypes
    <3>2. QED
      BY <1>1, <2>3, <3>1 DEF WindowInv, SoundTypes, ShowsInv
  <2>4. CASE /\ player.status = "Paused" /\ player' = [player EXCEPT !.status = "Playing"]
             /\ timer' = TRUE /\ button' = "pause" /\ UNCHANGED <<lost, again>>
    <3>1. /\ player' \in [status : {"Closed", "Playing", "Paused"}, url : MaybeUrl, over : BOOLEAN]
          /\ player'.status = "Playing" /\ player'.url = player.url
      BY <2>4 DEF WindowInv, SoundTypes
    <3>2. QED
      BY <1>1, <2>4, <3>1 DEF WindowInv, SoundTypes, ShowsInv
  <2>5. QED
    BY <2>1, <2>2, <2>3, <2>4 DEF SlotBtnPlay
<1>6. QED
  BY <1>3, <1>4, <1>5 DEF WindowInv

(* A tab more: its view has not been used, so that its list is empty.      *)
LEMMA NewTabStep ==
  ASSUME WindowInv, NewTab
  PROVE  WindowInv'
<1>1. /\ app = "up" /\ made < MaxViews /\ Session
      /\ made' = made + 1 /\ tabs' = Append(tabs, made + 1)
      /\ UNCHANGED <<lost, views, usedItem, loading, elsewhere>> /\ UNCHANGED Playing
  BY DEF NewTab, Event, Ready
<1>2. SessionTypes' /\ ClosingInv' /\ KeptInv' /\ DownInv'
  BY <1>1, UpFrame DEF WindowInv, SessionTypes
<1>3. SoundTypes' /\ ShowsInv'
  BY <1>1, PlayingFrame DEF WindowInv, SoundTypes
<1>4. made \in Nat /\ made + 1 \in View /\ tabs \in Seq(1 .. made) /\ Len(tabs) <= made
  BY <1>1, Parameters DEF WindowInv, ViewTypes
<1>5. tabs' \in Seq(1 .. made + 1) /\ Len(tabs') = Len(tabs) + 1
  <2>1. tabs \in Seq(1 .. made + 1)
    <3>1. 1 .. made \subseteq 1 .. made + 1
      BY <1>4
    <3>2. QED
      BY <1>4, <3>1
  <2>2. made + 1 \in 1 .. made + 1
    BY <1>4
  <2>3. QED
    BY <1>1, <2>1, <2>2
<1>6. ViewTypes'
  BY <1>1, <1>4, <1>5, Parameters DEF WindowInv, ViewTypes
<1>7. BoundInv' /\ UnmadeInv'
  BY <1>1, <1>4, Parameters DEF Session, WindowInv, BoundInv, Bounded, UnmadeInv
<1>8. Alive' \subseteq Alive \cup {made + 1}
  BY <1>1, <1>4, <1>5 DEF Alive
<1>9. views[made + 1].rows = <<>>
  BY <1>4 DEF WindowInv, UnmadeInv
<1>10. \A list : Agree(list)' = Agree(list)
  BY <1>1 DEF Session, Agree
<1>11. Agree(views[made + 1])
  BY <1>9 DEF Agree
<1>12. AgreeInv'
  <2>1. \A v \in Alive' : Agree(views[v])
    BY <1>1, <1>8, <1>11 DEF WindowInv, AgreeInv
  <2>2. QED
    BY <1>1, <2>1, <1>10 DEF Session, AgreeInv, Agree
<1>13. QED
  BY <1>2, <1>3, <1>6, <1>7, <1>12 DEF WindowInv

(* A tab less: the rest has its lists.                                     *)
LEMMA CloseTabStep ==
  ASSUME WindowInv, NEW i \in DOMAIN tabs, CloseTab(i)
  PROVE  WindowInv'
<1>1. /\ app = "up" /\ Session /\ tabs' = RemoveAt(tabs, i)
      /\ usedItem' = [usedItem EXCEPT !.holds = usedItem.holds /\ usedView # tabs[i]]
      /\ UNCHANGED <<lost, views, made, loading, elsewhere>> /\ UNCHANGED Playing
  BY DEF CloseTab, Event, Ready
<1>2. SessionTypes' /\ ClosingInv' /\ KeptInv' /\ DownInv'
  BY <1>1, UpFrame DEF WindowInv, SessionTypes
<1>3. usedItem' \in [url : MaybeUrl, holds : BOOLEAN]
  BY <1>1 DEF WindowInv, SoundTypes
<1>4. SoundTypes' /\ ShowsInv'
  BY <1>1, <1>3, PlayingFrame
<1>5. tabs \in Seq(1 .. made) /\ Len(tabs) <= made /\ i \in 1 .. Len(tabs) /\ Len(tabs) \in Nat /\ made \in Nat
  BY Parameters DEF WindowInv, ViewTypes
<1>6. /\ tabs' \in Seq(1 .. made) /\ Len(tabs') = Len(tabs) - 1
      /\ \A j \in 1 .. Len(tabs') : \E k \in 1 .. Len(tabs) : tabs'[j] = tabs[k]
  <2>1. /\ RemoveAt(tabs, i) \in Seq(1 .. made) /\ Len(RemoveAt(tabs, i)) = Len(tabs) - 1
        /\ \A j \in 1 .. Len(RemoveAt(tabs, i)) : \E k \in 1 .. Len(tabs) : RemoveAt(tabs, i)[j] = tabs[k]
    BY <1>5, RemoveFacts
  <2>2. QED
    BY <1>1, <2>1
<1>7. ViewTypes'
  BY <1>1, <1>5, <1>6 DEF WindowInv, ViewTypes
<1>8. BoundInv' /\ UnmadeInv'
  BY <1>1 DEF Session, WindowInv, BoundInv, Bounded, UnmadeInv
<1>9. Alive' \subseteq Alive
  <2>1. SUFFICES ASSUME NEW v \in Alive' PROVE v \in Alive
    OBVIOUS
  <2>2. PICK j \in 1 .. Len(tabs') : v = tabs'[j]
    BY <1>6 DEF Alive
  <2>3. PICK k \in 1 .. Len(tabs) : tabs'[j] = tabs[k]
    BY <1>6
  <2>4. QED
    BY <1>5, <2>2, <2>3 DEF Alive
<1>10. AgreeInv'
  BY <1>1, <1>9 DEF Session, WindowInv, AgreeInv, Agree
<1>11. QED
  BY <1>2, <1>4, <1>7, <1>8, <1>10 DEF WindowInv

(* One list becomes another, that fits its tab and agrees with the files.  *)
LEMMA ListStep ==
  ASSUME WindowInv, app = "up", app' = app, disk' = disk, UNCHANGED <<tabs, made, elsewhere>>,
         NEW v \in Alive, NEW list \in ListType, Bounded(list), Agree(list),
         views' = [views EXCEPT ![v] = list],
         loading' = loading \/ loading' = NotLoading,
         loading'.view = v => Len(list.rows) < MaxRows
  PROVE  ViewTypes' /\ BoundInv' /\ UnmadeInv' /\ AgreeInv'
<1>1. v \in View /\ v \in 1 .. made /\ made \in Nat
  BY AliveFacts DEF WindowInv, ViewTypes
<1>2. views' \in [View -> ListType] /\ views'[v] = list /\ \A w \in View \ {v} : views'[w] = views[w]
  BY <1>1 DEF WindowInv, ViewTypes
<1>3. /\ loading' \in [view : View \cup {NoView}, url : MaybeUrl]
      /\ loading'.view # NoView => loading'.url \in Url
      /\ \A w \in View : loading'.view = w => loading.view = w
  BY Parameters DEF WindowInv, ViewTypes, NotLoading, MaybeUrl
<1>4. ViewTypes'
  BY <1>2, <1>3 DEF WindowInv, ViewTypes
<1>5. BoundInv'
  BY <1>2, <1>3 DEF WindowInv, BoundInv, Bounded
<1>6. UnmadeInv'
  BY <1>1, <1>2, Parameters DEF WindowInv, UnmadeInv
<1>7. Alive' = Alive
  BY DEF Alive
<1>8. \A w \in Alive : Agree(views'[w])
  BY <1>2, AliveFacts DEF WindowInv, AgreeInv
<1>9. AgreeInv'
  BY <1>7, <1>8 DEF AgreeInv, Agree
<1>10. QED
  BY <1>4, <1>5, <1>6, <1>9

(* A row is taken out of a list.                                           *)
LEMMA RemoveRowStep ==
  ASSUME WindowInv, NEW v \in View, NEW k \in DOMAIN views[v].rows, RemoveRow(v, k)
  PROVE  WindowInv'
<1> DEFINE old == views[v]
           new == [old EXCEPT !.rows = RemoveAt(old.rows, k), !.at = IF Len(old.rows) = 1 THEN -1 ELSE old.at]
<1>1. /\ app = "up" /\ v \in Alive /\ Session
      /\ usedItem' \in {usedItem, IF v = usedView THEN [usedItem EXCEPT !.holds = FALSE] ELSE usedItem}
      /\ UNCHANGED <<lost, tabs, made, loading, elsewhere>> /\ UNCHANGED Playing
  BY DEF RemoveRow, Event, Ready
<1>2. views \in [View -> ListType] /\ old \in ListType /\ Bounded(old) /\ Agree(old)
  BY <1>1 DEF WindowInv, ViewTypes, BoundInv, AgreeInv
<1>3. views' = [views EXCEPT ![v] = new]
  BY <1>2 DEF RemoveRow, ListType
<1>4. old.rows \in Seq(RowType) /\ k \in 1 .. Len(old.rows) /\ Len(old.rows) <= MaxRows /\ Len(old.rows) \in Nat
  BY <1>2 DEF ListType, Bounded
<1>5. /\ RemoveAt(old.rows, k) \in Seq(RowType) /\ Len(RemoveAt(old.rows, k)) = Len(old.rows) - 1
      /\ \A j \in 1 .. Len(RemoveAt(old.rows, k)) : \E i \in 1 .. Len(old.rows) : RemoveAt(old.rows, k)[j] = old.rows[i]
  BY <1>4, RemoveFacts
<1>6. new \in ListType /\ new.rows = RemoveAt(old.rows, k)
  <2> DEFINE rows == RemoveAt(old.rows, k)
             at == IF Len(old.rows) = 1 THEN -1 ELSE old.at
  <2>1. rows \in Seq(RowType) /\ at \in Int
    BY <1>2, <1>5 DEF ListType
  <2>2. new = [old EXCEPT !.rows = rows, !.at = at]
    OBVIOUS
  <2> HIDE DEF rows, at, new
  <2>3. new \in ListType /\ new.rows = rows
    BY <1>2, <2>1, <2>2 DEF ListType
  <2>4. QED
    BY <2>3 DEF rows
<1>7. Bounded(new)
  BY <1>2, <1>4, <1>5, Parameters DEF Bounded, ListType
<1>8. Agree(new)
  <2>1. SUFFICES ASSUME NEW j \in DOMAIN new.rows, new.rows[j].url \notin elsewhere
                 PROVE  new.rows[j].tag = disk.tags[new.rows[j].url]
    BY DEF Agree
  <2>2. j \in 1 .. Len(RemoveAt(old.rows, k))
    BY <1>5, <1>6
  <2>3. PICK i \in 1 .. Len(old.rows) : new.rows[j] = old.rows[i]
    BY <1>5, <1>6, <2>2
  <2>4. i \in DOMAIN old.rows
    BY <1>4
  <2>5. QED
    BY <1>2, <2>1, <2>3, <2>4 DEF Agree
<1>9. loading'.view = v => Len(new.rows) < MaxRows
  BY <1>4, <1>5, <1>6, Parameters
<1>10. ViewTypes' /\ BoundInv' /\ UnmadeInv' /\ AgreeInv'
  <2> HIDE DEF new, old
  <2>1. QED
    BY <1>1, <1>3, <1>6, <1>7, <1>8, <1>9, ListStep DEF Session
<1>11. usedItem' \in [url : MaybeUrl, holds : BOOLEAN]
  BY <1>1 DEF WindowInv, SoundTypes
<1>12. SoundTypes' /\ ShowsInv'
  BY <1>1, <1>11, PlayingFrame
<1>13. SessionTypes' /\ ClosingInv' /\ KeptInv' /\ DownInv'
  BY <1>1, UpFrame DEF WindowInv, SessionTypes
<1>14. QED
  BY <1>10, <1>12, <1>13 DEF WindowInv

(* The mode of a list is no matter of its rows.                            *)
LEMMA SetModeStep ==
  ASSUME WindowInv, NEW v \in View, NEW m \in Mode, SetMode(v, m)
  PROVE  WindowInv'
<1>1. /\ app = "up" /\ Session /\ views' = [views EXCEPT ![v].mode = m]
      /\ UNCHANGED <<lost, tabs, made, usedItem, loading, elsewhere>> /\ UNCHANGED Playing
  BY DEF SetMode, Event, Ready
<1>2. /\ views' \in [View -> ListType]
      /\ \A w \in View : views'[w].rows = views[w].rows /\ views'[w].at \in -1 .. MaxRows
  BY <1>1, SameViews DEF ListType
<1>3. ViewTypes' /\ BoundInv' /\ UnmadeInv' /\ AgreeInv'
  BY <1>1, <1>2, RowsFrame DEF Session
<1>4. SoundTypes' /\ ShowsInv'
  BY <1>1, PlayingFrame DEF WindowInv, SoundTypes
<1>5. SessionTypes' /\ ClosingInv' /\ KeptInv' /\ DownInv'
  BY <1>1, UpFrame DEF WindowInv, SessionTypes
<1>6. QED
  BY <1>3, <1>4, <1>5 DEF WindowInv

(* A file is loaded into a list that has room for it.                      *)
LEMMA LoadStep ==
  ASSUME WindowInv, NEW v \in View, NEW u \in Url, Load(v, u)
  PROVE  WindowInv'
<1>1. /\ app = "up" /\ Session /\ Len(views[v].rows) < MaxRows
      /\ loading' = [view |-> v, url |-> u]
      /\ UNCHANGED <<lost, views, tabs, made, usedItem, elsewhere>> /\ UNCHANGED Playing
  BY DEF Load, Event, Ready
<1>2. ViewTypes'
  BY <1>1 DEF WindowInv, ViewTypes, MaybeUrl
<1>3. BoundInv' /\ UnmadeInv'
  BY <1>1 DEF Session, WindowInv, BoundInv, Bounded, UnmadeInv
<1>4. AgreeInv'
  BY <1>1 DEF Session, WindowInv, AgreeInv, Agree, Alive
<1>5. SoundTypes' /\ ShowsInv'
  BY <1>1, PlayingFrame DEF WindowInv, SoundTypes
<1>6. SessionTypes' /\ ClosingInv' /\ KeptInv' /\ DownInv'
  BY <1>1, UpFrame DEF WindowInv, SessionTypes
<1>7. QED
  BY <1>2, <1>3, <1>4, <1>5, <1>6 DEF WindowInv

(* The row comes, with the tag that its file has now.                      *)
LEMMA SlotListRowGotStep ==
  ASSUME WindowInv, SlotListRowGot
  PROVE  WindowInv'
<1>1. /\ app = "up" /\ Session /\ loading.view # NoView /\ loading' = NotLoading
      /\ lost' = (loading.view \notin Alive)
      /\ UNCHANGED <<tabs, made, usedItem, elsewhere>> /\ UNCHANGED Playing
  BY DEF SlotListRowGot, Ready
<1>2. SoundTypes' /\ ShowsInv'
  BY <1>1, PlayingFrame DEF WindowInv, SoundTypes
<1>3. SessionTypes' /\ ClosingInv' /\ KeptInv' /\ DownInv'
  <2>1. lost' \in BOOLEAN
    BY <1>1
  <2>2. QED
    BY <1>1, <2>1, UpFrame
<1>4. CASE loading.view \notin Alive
  <2>1. views' = views
    BY <1>4 DEF SlotListRowGot
  <2>2. ViewTypes'
    BY <1>1, <2>1 DEF WindowInv, ViewTypes, NotLoading, MaybeUrl
  <2>3. BoundInv' /\ UnmadeInv'
    BY <1>1, <2>1, Parameters DEF Session, WindowInv, BoundInv, Bounded, UnmadeInv, NotLoading
  <2>4. AgreeInv'
    BY <1>1, <2>1 DEF Session, WindowInv, AgreeInv, Agree, Alive
  <2>5. QED
    BY <1>2, <1>3, <2>2, <2>3, <2>4 DEF WindowInv
<1>5. CASE loading.view \in Alive
  <2> DEFINE v == loading.view
             old == views[v]
             row == Row(loading.url)
             new == [old EXCEPT !.rows = Append(old.rows, row)]
  <2>1. views \in [View -> ListType] /\ v \in View /\ old \in ListType /\ Bounded(old) /\ Agree(old) /\ Len(old.rows) < MaxRows
    BY <1>5, AliveFacts DEF WindowInv, ViewTypes, BoundInv, AgreeInv, SlotListRowGot, Ready
  <2>2. row \in RowType /\ row.url = loading.url /\ row.tag = disk.tags[loading.url]
    <3>1. loading.url \in Url /\ disk.tags \in [Url -> {0, 1}]
      BY <1>1 DEF WindowInv, ViewTypes, SessionTypes
    <3>2. QED
      BY <3>1 DEF Row, RowType
  <2>3. views' = [views EXCEPT ![v] = new]
    BY <1>5, <2>1 DEF SlotListRowGot, ListType
  <2> HIDE DEF row
  <2>4. /\ Append(old.rows, row) \in Seq(RowType) /\ Len(Append(old.rows, row)) = Len(old.rows) + 1
        /\ Len(old.rows) \in Nat
        /\ \A k \in 1 .. Len(old.rows) + 1 : Append(old.rows, row)[k] = IF k <= Len(old.rows) THEN old.rows[k] ELSE row
    BY <2>1, <2>2 DEF ListType
  <2>5. new \in ListType /\ new.rows = Append(old.rows, row) /\ new.at = old.at
    BY <2>1, <2>4 DEF ListType
  <2>6. Bounded(new)
    BY <2>1, <2>4, <2>5, Parameters DEF Bounded
  <2>7. Agree(new)
    <3>1. SUFFICES ASSUME NEW j \in DOMAIN new.rows, new.rows[j].url \notin elsewhere
                   PROVE  new.rows[j].tag = disk.tags[new.rows[j].url]
      BY DEF Agree
    <3>2. j \in 1 .. Len(old.rows) + 1
      BY <2>4, <2>5
    <3>3. CASE j <= Len(old.rows)
      <4>1. new.rows[j] = old.rows[j] /\ j \in DOMAIN old.rows
        BY <2>1, <2>4, <2>5, <3>2, <3>3 DEF ListType
      <4>2. QED
        BY <2>1, <3>1, <4>1 DEF Agree
    <3>4. CASE ~(j <= Len(old.rows))
      <4>1. new.rows[j] = row
        BY <2>4, <2>5, <3>2, <3>4
      <4>2. QED
        BY <2>2, <4>1
    <3>5. QED
      BY <3>3, <3>4
  <2>8. loading'.view = v => Len(new.rows) < MaxRows
    BY <1>1 DEF NotLoading
  <2>9. ViewTypes' /\ BoundInv' /\ UnmadeInv' /\ AgreeInv'
    <3> HIDE DEF new, old
    <3>1. QED
      BY <1>1, <1>5, <2>3, <2>5, <2>6, <2>7, <2>8, ListStep DEF Session
  <2>10. QED
    BY <1>2, <1>3, <2>9 DEF WindowInv
<1>6. QED
  BY <1>4, <1>5

(* What is typed, or undone, changes the table of the editor only.         *)
LEMMA EditorStep ==
  ASSUME WindowInv, SlotCellChanged \/ SlotBtnCancel
  PROVE  WindowInv'
<1>1. /\ app = "up" /\ Session /\ UNCHANGED <<lost, window, player, loading, again, elsewhere>>
  BY DEF SlotCellChanged, SlotBtnCancel, Event, Ready
<1>2. SessionTypes' /\ ClosingInv' /\ KeptInv' /\ DownInv'
  BY <1>1, UpFrame DEF WindowInv, SessionTypes
<1>3. ViewTypes' /\ BoundInv' /\ UnmadeInv' /\ AgreeInv'
  BY <1>1, RowsFrame, SameViews DEF window, Session
<1>4. editor \in [url : MaybeUrl, tag : {0, 1}, text : {0, 1}, unsaved : BOOLEAN] /\ (editor.unsaved => editor.url \in Url)
  BY DEF WindowInv, SoundTypes
<1>5. /\ editor' \in [url : MaybeUrl, tag : {0, 1}, text : {0, 1}, unsaved : BOOLEAN]
      /\ editor'.url = editor.url /\ (editor'.unsaved => editor'.url \in Url)
  <2>1. CASE SlotCellChanged
    <3>1. editor' = [editor EXCEPT !.text = 1 - editor.text, !.unsaved = TRUE] /\ editor.url # NoUrl
      BY <2>1 DEF SlotCellChanged
    <3>2. 1 - editor.text \in {0, 1}
      BY <1>4
    <3>3. QED
      BY <1>4, <3>1, <3>2 DEF MaybeUrl
  <2>2. CASE SlotBtnCancel
    <3>1. editor' = [editor EXCEPT !.text = editor.tag, !.unsaved = FALSE]
      BY <2>2 DEF SlotBtnCancel, Reverted
    <3>2. QED
      BY <1>4, <3>1
  <2>3. QED
    BY <2>1, <2>2
<1>6. SoundTypes' /\ ShowsInv'
  BY <1>1, <1>5 DEF window, WindowInv, SoundTypes, ShowsInv
<1>7. QED
  BY <1>2, <1>3, <1>6 DEF WindowInv

(* A tag is written into its file: the rows of the list in use get it, and *)
(* the file is noted if other lists have it too.                           *)
LEMMA SlotBtnSaveStep ==
  ASSUME WindowInv, SlotBtnSave
  PROVE  WindowInv'
<1>1. /\ app = "up" /\ editor.unsaved
      /\ UNCHANGED <<app, tabs, made, usedView, usedItem, trying, button, timer, player, loading, again, closed, torn>>
  BY DEF SlotBtnSave, Event, Ready
<1>2. /\ editor \in [url : MaybeUrl, tag : {0, 1}, text : {0, 1}, unsaved : BOOLEAN]
      /\ editor.url \in Url /\ editor.text \in {0, 1}
  BY <1>1 DEF WindowInv, SoundTypes
<1>3. /\ editor' \in [url : MaybeUrl, tag : {0, 1}, text : {0, 1}, unsaved : BOOLEAN]
      /\ editor'.url = editor.url /\ ~editor'.unsaved
  <2>1. editor' = [editor EXCEPT !.tag = editor.text, !.unsaved = FALSE] \/ editor' = [editor EXCEPT !.text = editor.tag, !.unsaved = FALSE]
    BY DEF SlotBtnSave, Reverted
  <2>2. QED
    BY <1>2, <2>1
<1>4. SoundTypes' /\ ShowsInv'
  BY <1>1, <1>3 DEF WindowInv, SoundTypes, ShowsInv
<1>5. CASE UNCHANGED <<disk, lost, views, elsewhere>>
  <2>1. SessionTypes' /\ ClosingInv' /\ KeptInv' /\ DownInv'
    BY <1>1, <1>5, UpFrame DEF Session, WindowInv, SessionTypes
  <2>2. ViewTypes' /\ BoundInv' /\ UnmadeInv' /\ AgreeInv'
    BY <1>1, <1>5, RowsFrame, SameViews
  <2>3. QED
    BY <1>4, <2>1, <2>2 DEF WindowInv
<1>6. CASE /\ disk' = [disk EXCEPT !.tags[editor.url] = editor.text]
           /\ lost' = (usedView \notin Alive)
           /\ IF usedView \in Alive THEN OnMediaItemUpdated ELSE UNCHANGED views
           /\ elsewhere' = elsewhere \cup (IF loading.url = editor.url
                \/ \E v \in Alive \ {usedView} : \E k \in DOMAIN views[v].rows : views[v].rows[k].url = editor.url
                THEN {editor.url} ELSE {})
  <2>1. /\ disk' \in [tags : [Url -> {0, 1}], lists : Seq(ListType), tabCount : 0 .. MaxViews]
        /\ disk'.lists = disk.lists /\ disk'.tabCount = disk.tabCount
        /\ disk'.tags[editor.url] = editor.text
        /\ \A u \in Url : u # editor.url => disk'.tags[u] = disk.tags[u]
    BY <1>2, <1>6 DEF WindowInv, SessionTypes
  <2>2. SessionTypes'
    <3>1. lost' \in BOOLEAN
      BY <1>6
    <3>2. QED
      BY <1>1, <2>1, <3>1 DEF WindowInv, SessionTypes
  <2>3. Restored' = Restored
    BY <2>1 DEF Restored
  <2>4. ClosingInv' /\ KeptInv' /\ DownInv'
    BY <1>1, <2>3 DEF WindowInv, ClosingInv, KeptInv, DownInv
  <2>5. elsewhere \subseteq elsewhere'
    BY <1>6
  <2>6. \A v \in Alive \ {usedView} : \A k \in DOMAIN views[v].rows :
          views[v].rows[k].url = editor.url => editor.url \in elsewhere'
    BY <1>6
  <2>7. Alive' = Alive
    BY <1>1 DEF Alive
  <2>8. \A v \in Alive : \A k \in DOMAIN views[v].rows : views[v].rows[k].url \in Url
    <3>1. SUFFICES ASSUME NEW v \in Alive, NEW k \in DOMAIN views[v].rows
                   PROVE  views[v].rows[k].url \in Url
      OBVIOUS
    <3>2. views[v].rows \in Seq(RowType)
      BY AliveFacts DEF ListType
    <3>3. views[v].rows[k] \in RowType
      BY <3>2
    <3>4. QED
      BY <3>3 DEF RowType
  <2>9. \A v \in Alive \ {usedView} : \A k \in DOMAIN views[v].rows :
          views[v].rows[k].url \notin elsewhere' => views[v].rows[k].tag = disk'.tags[views[v].rows[k].url]
    <3>1. SUFFICES ASSUME NEW v \in Alive \ {usedView}, NEW k \in DOMAIN views[v].rows, views[v].rows[k].url \notin elsewhere'
                   PROVE  views[v].rows[k].tag = disk'.tags[views[v].rows[k].url]
      OBVIOUS
    <3>2. views[v].rows[k].url # editor.url /\ views[v].rows[k].url \notin elsewhere
      BY <2>5, <2>6, <3>1
    <3>3. Agree(views[v])
      BY <1>1 DEF WindowInv, AgreeInv
    <3>4. QED
      BY <2>1, <2>8, <3>2, <3>3 DEF Agree
  <2>10. CASE usedView \notin Alive
    <3>1. views' = views
      BY <1>6, <2>10
    <3>2. ViewTypes' /\ BoundInv' /\ UnmadeInv'
      BY <1>1, <2>1, <3>1 DEF WindowInv, ViewTypes, BoundInv, Bounded, UnmadeInv
    <3>3. AgreeInv'
      BY <1>1, <2>7, <2>9, <2>10, <3>1 DEF AgreeInv, Agree
    <3>4. QED
      BY <1>4, <2>2, <2>4, <3>2, <3>3 DEF WindowInv
  <2>11. CASE usedView \in Alive
    <3> DEFINE old == views[usedView]
               rows == Updated(old.rows)
               new == [old EXCEPT !.rows = rows]
    <3>1. usedView \in View /\ old \in ListType /\ Bounded(old) /\ Agree(old) /\ old.rows \in Seq(RowType)
      BY <1>1, <2>11, AliveFacts DEF WindowInv, BoundInv, AgreeInv, ListType
    <3>2. views' = [views EXCEPT ![usedView].rows = rows]
      BY <1>6, <2>11 DEF OnMediaItemUpdated
    <3>3. DOMAIN rows = DOMAIN old.rows /\ rows \in Seq(RowType) /\ Len(rows) = Len(old.rows)
      <4>1. \A k \in 1 .. Len(old.rows) :
              (IF old.rows[k].url = editor.url THEN [old.rows[k] EXCEPT !.tag = editor.text] ELSE old.rows[k]) \in RowType
        <5>1. SUFFICES ASSUME NEW k \in 1 .. Len(old.rows)
                       PROVE  (IF old.rows[k].url = editor.url THEN [old.rows[k] EXCEPT !.tag = editor.text] ELSE old.rows[k]) \in RowType
          OBVIOUS
        <5>2. old.rows[k] \in RowType
          BY <3>1
        <5>3. [old.rows[k] EXCEPT !.tag = editor.text] \in RowType
          BY <1>2, <5>2 DEF RowType
        <5>4. QED
          BY <5>2, <5>3
      <4>2. DOMAIN old.rows = 1 .. Len(old.rows) /\ Len(old.rows) \in Nat
        BY <3>1
      <4>3. rows = [k \in 1 .. Len(old.rows) |->
               IF old.rows[k].url = editor.url THEN [old.rows[k] EXCEPT !.tag = editor.text] ELSE old.rows[k]]
        BY <4>2 DEF Updated
      <4> HIDE DEF rows
      <4>4. rows \in [1 .. Len(old.rows) -> RowType]
        BY <4>1, <4>3
      <4>5. QED
        BY <4>2, <4>4
    <3>4. \A k \in DOMAIN old.rows :
            rows[k] = IF old.rows[k].url = editor.url THEN [old.rows[k] EXCEPT !.tag = editor.text] ELSE old.rows[k]
      BY DEF Updated
    <3> HIDE DEF rows
    <3>5. /\ views' \in [View -> ListType] /\ views'[usedView].rows = rows /\ views'[usedView].at = old.at
          /\ \A v \in View \ {usedView} : views'[v] = views[v]
      BY <3>1, <3>2, <3>3 DEF WindowInv, ViewTypes, ListType
    <3>6. ViewTypes'
      BY <1>1, <3>5 DEF WindowInv, ViewTypes
    <3>7. BoundInv'
      BY <1>1, <2>1, <3>1, <3>3, <3>5 DEF WindowInv, BoundInv, Bounded
    <3>8. UnmadeInv'
      <4>1. usedView \in 1 .. made /\ made \in Nat
        BY <2>11, AliveFacts DEF WindowInv, ViewTypes
      <4>2. QED
        BY <1>1, <3>5, <4>1, Parameters DEF WindowInv, UnmadeInv
    <3>9. \A k \in DOMAIN rows : rows[k].url \notin elsewhere' => rows[k].tag = disk'.tags[rows[k].url]
      <4>1. SUFFICES ASSUME NEW k \in DOMAIN rows, rows[k].url \notin elsewhere'
                     PROVE  rows[k].tag = disk'.tags[rows[k].url]
        OBVIOUS
      <4>2. old.rows[k] \in RowType
        BY <3>1, <3>3
      <4>3. CASE old.rows[k].url = editor.url
        <5>1. rows[k] = [old.rows[k] EXCEPT !.tag = editor.text]
          BY <3>3, <3>4, <4>3
        <5>2. rows[k].url = editor.url /\ rows[k].tag = editor.text
          BY <4>2, <4>3, <5>1 DEF RowType
        <5>3. QED
          BY <2>1, <5>2
      <4>4. CASE old.rows[k].url # editor.url
        <5>1. rows[k] = old.rows[k]
          BY <3>3, <3>4, <4>4
        <5>2. old.rows[k].url \in Url /\ old.rows[k].url \notin elsewhere
          BY <2>5, <4>1, <4>2, <5>1 DEF RowType
        <5>3. QED
          BY <2>1, <3>1, <3>3, <4>4, <5>1, <5>2 DEF Agree
      <4>5. QED
        BY <4>3, <4>4
    <3>10. \A v \in Alive : \A k \in DOMAIN views'[v].rows :
             views'[v].rows[k].url \notin elsewhere' => views'[v].rows[k].tag = disk'.tags[views'[v].rows[k].url]
      <4>1. SUFFICES ASSUME NEW v \in Alive
                     PROVE  \A k \in DOMAIN views'[v].rows :
                              views'[v].rows[k].url \notin elsewhere' => views'[v].rows[k].tag = disk'.tags[views'[v].rows[k].url]
        OBVIOUS
      <4>2. CASE v = usedView
        BY <3>5, <3>9, <4>2
      <4>3. CASE v # usedView
        <5>1. views'[v] = views[v]
          BY <3>5, <4>3, AliveFacts
        <5>2. QED
          BY <2>9, <4>3, <5>1
      <4>4. QED
        BY <4>2, <4>3
    <3>11. AgreeInv'
      BY <1>1, <2>7, <3>10 DEF AgreeInv, Agree
    <3>12. QED
      BY <1>4, <2>2, <2>4, <3>6, <3>7, <3>8, <3>11 DEF WindowInv
  <2>12. QED
    BY <2>10, <2>11
<1>7. QED
  BY <1>5, <1>6 DEF SlotBtnSave

(* The empty list is a list.                                               *)
LEMMA EmptyFacts == Empty \in ListType /\ Bounded(Empty) /\ Empty.rows = <<>> /\ Agree(Empty)
<1>1. Empty \in ListType
  BY DEF Empty, ListType, Mode
<1>2. Bounded(Empty)
  BY Parameters DEF Empty, Bounded
<1>3. QED
  BY <1>1, <1>2 DEF Empty, Agree

(* A process that has ended has nothing left.                              *)
LEMMA GoneFacts ==
  ASSUME Gone, disk' = disk \/ disk' = [disk EXCEPT !.tabCount = Len(tabs)], WindowInv
  PROVE  ViewTypes' /\ SoundTypes' /\ BoundInv' /\ UnmadeInv' /\ ShowsInv' /\ ClosingInv' /\ DownInv'
<1>1. /\ app' = "down" /\ views' = [v \in View |-> Empty] /\ tabs' = <<>> /\ made' = 0
      /\ usedView' = NoView /\ usedItem' = NoItem /\ player' = Closed /\ trying' = FALSE /\ button' = "play"
      /\ timer' = FALSE /\ editor' = NoTag /\ loading' = NotLoading /\ again' = FALSE
  BY DEF Gone
<1>2. ViewTypes'
  BY <1>1, EmptyFacts, Parameters DEF ViewTypes, NotLoading, MaybeUrl
<1>3. SoundTypes'
  BY <1>1, Parameters DEF SoundTypes, NoItem, Closed, NoTag, MaybeUrl
<1>4. disk'.lists = disk.lists
  BY DEF WindowInv, SessionTypes
<1>5. BoundInv'
  BY <1>1, <1>4, EmptyFacts, Parameters DEF WindowInv, BoundInv, Bounded, NotLoading
<1>6. UnmadeInv'
  BY <1>1, EmptyFacts DEF UnmadeInv
<1>7. ShowsInv' /\ ClosingInv' /\ DownInv'
  BY <1>1 DEF ShowsInv, ClosingInv, DownInv, Closed, NotLoading
<1>8. QED
  BY <1>2, <1>3, <1>5, <1>6, <1>7

(* What the files say of a list is a list.                                 *)
LEMMA RestoredFacts ==
  ASSUME WindowInv
  PROVE  /\ DOMAIN Restored = 1 .. disk.tabCount /\ disk.tabCount \in 0 .. MaxViews
         /\ \A i \in 1 .. disk.tabCount : Restored[i] \in ListType /\ Bounded(Restored[i])
         /\ app = "down" => \A i \in 1 .. disk.tabCount : Agree(Restored[i])
<1>1. disk.lists \in Seq(ListType) /\ disk.tabCount \in 0 .. MaxViews
  BY DEF WindowInv, SessionTypes
<1>2. \A i \in DOMAIN disk.lists : disk.lists[i] \in ListType /\ Bounded(disk.lists[i])
  BY <1>1 DEF WindowInv, BoundInv
<1>3. DOMAIN Restored = 1 .. disk.tabCount
  BY DEF Restored
<1>4. \A i \in 1 .. disk.tabCount : Restored[i] = IF i \in DOMAIN disk.lists THEN disk.lists[i] ELSE Empty
  BY DEF Restored
<1>5. \A i \in 1 .. disk.tabCount : Restored[i] \in ListType /\ Bounded(Restored[i])
  BY <1>2, <1>4, EmptyFacts
<1>6. app = "down" => \A i \in 1 .. disk.tabCount : Agree(Restored[i])
  BY <1>4, EmptyFacts DEF WindowInv, AgreeInv
<1>7. QED
  BY <1>1, <1>3, <1>5, <1>6

(* A session begins with the lists that the files have.                    *)
LEMMA StartSessionStep ==
  ASSUME WindowInv, StartSession
  PROVE  WindowInv'
<1>1. /\ app = "down" /\ app' = "up" /\ made' = disk.tabCount
      /\ tabs' = [i \in 1 .. disk.tabCount |-> i]
      /\ views' = [v \in View |-> IF v \in DOMAIN Restored THEN Restored[v] ELSE Empty]
      /\ UNCHANGED <<lost, usedView, usedItem, trying, button, timer, player, editor, loading, disk, again, elsewhere, closed, torn>>
  BY DEF StartSession
<1>2. /\ DOMAIN Restored = 1 .. disk.tabCount /\ disk.tabCount \in 0 .. MaxViews
      /\ \A i \in 1 .. disk.tabCount : Restored[i] \in ListType /\ Bounded(Restored[i]) /\ Agree(Restored[i])
  BY <1>1, RestoredFacts
<1>3. /\ views' \in [View -> ListType]
      /\ \A v \in View : Bounded(views'[v])
      /\ \A v \in 1 .. disk.tabCount : v \in View /\ views'[v] = Restored[v]
      /\ \A v \in View : v > disk.tabCount => views'[v] = Empty
  <2>1. \A v \in View : (IF v \in DOMAIN Restored THEN Restored[v] ELSE Empty) \in ListType
    BY <1>2, EmptyFacts
  <2>2. \A v \in View : Bounded(IF v \in DOMAIN Restored THEN Restored[v] ELSE Empty)
    BY <1>2, EmptyFacts
  <2>3. \A v \in 1 .. disk.tabCount : v \in View /\ v \in DOMAIN Restored
    BY <1>2, Parameters
  <2>4. \A v \in View : v > disk.tabCount => v \notin DOMAIN Restored
    BY <1>2, Parameters
  <2>5. QED
    BY <1>1, <2>1, <2>2, <2>3, <2>4
<1>4. tabs' \in Seq(1 .. made') /\ Len(tabs') = made' /\ DOMAIN tabs' = 1 .. made' /\ \A i \in 1 .. made' : tabs'[i] = i
  BY <1>1, <1>2, Parameters
<1>5. loading.view = NoView /\ player.status = "Closed"
  BY <1>1 DEF WindowInv, DownInv
<1>6. ViewTypes'
  BY <1>1, <1>2, <1>3, <1>4, Parameters DEF WindowInv, ViewTypes
<1>7. SoundTypes' /\ ShowsInv'
  BY <1>1, <1>5 DEF WindowInv, SoundTypes, ShowsInv
<1>8. SessionTypes'
  BY <1>1 DEF WindowInv, SessionTypes
<1>9. BoundInv'
  BY <1>1, <1>3, <1>5, Parameters DEF WindowInv, BoundInv, Bounded
<1>10. UnmadeInv'
  BY <1>1, <1>3, EmptyFacts DEF UnmadeInv
<1>11. AgreeInv'
  <2>1. Alive' \subseteq 1 .. disk.tabCount
    BY <1>1, <1>4 DEF Alive
  <2>2. \A v \in Alive' : Agree(views'[v])
    BY <1>2, <1>3, <2>1
  <2>3. QED
    BY <1>1, <2>2 DEF AgreeInv, Agree
<1>12. Restored' = Restored
  BY <1>1 DEF Restored
<1>13. ClosingInv' /\ KeptInv' /\ DownInv'
  BY <1>1, <1>12 DEF WindowInv, ClosingInv, KeptInv, DownInv
<1>14. QED
  BY <1>6, <1>7, <1>8, <1>9, <1>10, <1>11, <1>13 DEF WindowInv

(* The lists are written as they are.                                      *)
LEMMA CloseEventStep ==
  ASSUME WindowInv, CloseEvent
  PROVE  WindowInv'
<1> DEFINE old == disk.lists
           n == IF Len(old) > Len(tabs) THEN Len(old) ELSE Len(tabs)
           new == [i \in 1 .. n |-> IF i \in DOMAIN tabs THEN views[tabs[i]] ELSE old[i]]
<1>1. /\ app = "up" /\ app' = "closing" /\ torn' = TRUE /\ closed' = Lists(tabs)
      /\ UNCHANGED <<lost, window, player, editor, loading, again, elsewhere>>
  BY DEF CloseEvent, Ready
<1>2. UNCHANGED <<views, tabs, made, usedView, usedItem, trying, button, timer>>
  BY <1>1 DEF window
<1>3. disk \in [tags : [Url -> {0, 1}], lists : Seq(ListType), tabCount : 0 .. MaxViews]
  BY DEF WindowInv, SessionTypes
<1>4. disk' = [disk EXCEPT !.lists = new]
  BY DEF CloseEvent
<1>5. old \in Seq(ListType) /\ tabs \in Seq(1 .. made) /\ made \in 0 .. MaxViews /\ Len(old) \in Nat /\ Len(tabs) \in Nat
  BY <1>3 DEF WindowInv, ViewTypes
<1>6. /\ n \in Nat /\ DOMAIN tabs = 1 .. Len(tabs) /\ DOMAIN old = 1 .. Len(old) /\ Len(tabs) <= n
      /\ \A i \in 1 .. n : i \in 1 .. Len(tabs) \/ i \in 1 .. Len(old)
  BY <1>5
<1>7. \A i \in DOMAIN tabs : tabs[i] \in Alive
  BY DEF Alive
<1>8. \A i \in DOMAIN tabs : views[tabs[i]] \in ListType /\ Bounded(views[tabs[i]])
  BY <1>7, AliveFacts DEF WindowInv, BoundInv
<1>9. \A i \in DOMAIN old : old[i] \in ListType /\ Bounded(old[i])
  BY <1>5 DEF WindowInv, BoundInv
<1> HIDE DEF n
<1>10. \A i \in 1 .. n : new[i] = (IF i \in DOMAIN tabs THEN views[tabs[i]] ELSE old[i])
  OBVIOUS
<1>11. \A i \in 1 .. n : new[i] \in ListType /\ Bounded(new[i])
  BY <1>6, <1>8, <1>9, <1>10
<1>12. DOMAIN new = 1 .. n
  OBVIOUS
<1>13. new \in Seq(ListType) 
  <2>1. new \in [1 .. n -> ListType]
    <3>1. new = [i \in 1 .. n |-> new[i]]
      BY <1>10
    <3> HIDE DEF new
    <3>2. QED
      BY <1>11, <3>1
  <2> HIDE DEF new
  <2>2. QED
    BY <1>6, <2>1
<1>14. \A i \in DOMAIN tabs : i \in DOMAIN new /\ new[i] = views[tabs[i]]
  <2>1. \A i \in DOMAIN tabs : i \in 1 .. n
    BY <1>5, <1>6
  <2>2. QED
    BY <1>10, <1>12, <2>1
<1> HIDE DEF new
<1>15. disk'.lists = new /\ disk'.tags = disk.tags /\ disk'.tabCount = disk.tabCount
  BY <1>3, <1>4
<1>16. SessionTypes'
  BY <1>1, <1>3, <1>4, <1>13 DEF WindowInv, SessionTypes
<1>17. ViewTypes' /\ SoundTypes' /\ UnmadeInv' /\ ShowsInv'
  BY <1>1, <1>2 DEF WindowInv, ViewTypes, SoundTypes, UnmadeInv, ShowsInv
<1>18. BoundInv'
  BY <1>1, <1>2, <1>11, <1>12, <1>15 DEF WindowInv, BoundInv, Bounded
<1>19. AgreeInv'
  <2>1. Alive' = Alive
    BY <1>2 DEF Alive
  <2>2. QED
    BY <1>1, <1>2, <1>15, <2>1 DEF WindowInv, AgreeInv, Agree
<1>20. ClosingInv'
  BY <1>1, <1>2, <1>14, <1>15 DEF ClosingInv, Lists
<1>21. KeptInv' /\ DownInv'
  BY <1>1 DEF KeptInv, DownInv
<1>22. QED
  BY <1>16, <1>17, <1>18, <1>19, <1>20, <1>21 DEF WindowInv

(* With their number, the next session begins as this one ended.           *)
LEMMA SaveEnvStep ==
  ASSUME WindowInv, SaveEnv
  PROVE  WindowInv'
<1>1. /\ app = "closing" /\ Gone /\ disk' = [disk EXCEPT !.tabCount = Len(tabs)]
      /\ torn' = FALSE /\ app' = "down" /\ lost' = FALSE
      /\ UNCHANGED <<elsewhere, closed>>
  BY DEF SaveEnv, Gone
<1>2. ViewTypes' /\ SoundTypes' /\ BoundInv' /\ UnmadeInv' /\ ShowsInv' /\ ClosingInv' /\ DownInv'
  BY <1>1, GoneFacts
<1>3. tabs \in Seq(1 .. made) /\ made \in 0 .. MaxViews /\ Len(tabs) <= made /\ Len(tabs) \in Nat /\ DOMAIN tabs = 1 .. Len(tabs)
  BY DEF WindowInv, ViewTypes
<1>4. Len(tabs) \in 0 .. MaxViews
  BY <1>3, Parameters
<1>5. SessionTypes'
  BY <1>1, <1>4 DEF WindowInv, SessionTypes
<1>6. disk'.lists = disk.lists /\ disk'.tags = disk.tags /\ disk'.tabCount = Len(tabs)
  BY <1>1 DEF WindowInv, SessionTypes
<1>7. closed = Lists(tabs) /\ \A i \in DOMAIN tabs : i \in DOMAIN disk.lists /\ disk.lists[i] = views[tabs[i]]
  BY <1>1 DEF WindowInv, ClosingInv
<1>8. KeptInv'
  <2>1. Restored' = [i \in 1 .. Len(tabs) |-> IF i \in DOMAIN disk.lists THEN disk.lists[i] ELSE Empty]
    BY <1>6 DEF Restored
  <2>2. Restored' = Lists(tabs)
    BY <1>3, <1>7, <2>1 DEF Lists
  <2>3. QED
    BY <1>1, <1>7, <2>2 DEF KeptInv
<1>9. AgreeInv'
  <2>1. \A i \in 1 .. Len(tabs) : Agree(disk.lists[i])
    BY <1>1, <1>3, <1>7 DEF WindowInv, AgreeInv, Alive
  <2>2. QED
    BY <1>1, <1>6, <2>1 DEF AgreeInv, Agree
<1>10. QED
  BY <1>2, <1>5, <1>8, <1>9 DEF WindowInv

(* The lists in the files are as old as they are; where their tags are not *)
(* those of the files now, that is noted.                                  *)
LEMMA KillStep ==
  ASSUME WindowInv, Kill
  PROVE  WindowInv'
<1>1. /\ app # "down" /\ Gone /\ app' = "down" /\ lost' = FALSE
      /\ elsewhere' = elsewhere \cup {u \in Url : Outdated(u)}
      /\ UNCHANGED <<disk, closed, torn>>
  BY DEF Kill, Gone
<1>2. ViewTypes' /\ SoundTypes' /\ BoundInv' /\ UnmadeInv' /\ ShowsInv' /\ ClosingInv' /\ DownInv'
  BY <1>1, GoneFacts
<1>3. SessionTypes'
  BY <1>1 DEF WindowInv, SessionTypes
<1>4. KeptInv'
  BY <1>1 DEF WindowInv, KeptInv, Restored
<1>5. ASSUME NEW i \in DOMAIN disk.lists, NEW k \in DOMAIN disk.lists[i].rows,
             disk.lists[i].rows[k].url \notin elsewhere'
      PROVE  disk.lists[i].rows[k].tag = disk.tags[disk.lists[i].rows[k].url]
  <2> DEFINE row == disk.lists[i].rows[k]
  <2>1. disk.lists[i] \in ListType
    BY DEF WindowInv, SessionTypes
  <2>2. disk.lists[i].rows \in Seq(RowType)
    BY <2>1 DEF ListType
  <2>3. row \in RowType
    BY <2>2
  <2>4. row.url \in Url
    BY <2>3 DEF RowType
  <2>5. ~Outdated(row.url)
    BY <1>1, <1>5, <2>4
  <2>6. row = Row(row.url)
    BY <2>5 DEF Outdated
  <2>7. QED
    BY <2>6 DEF Row
<1>6. AgreeInv'
  BY <1>1, <1>5 DEF AgreeInv, Agree
<1>7. QED
  BY <1>2, <1>3, <1>4, <1>6 DEF WindowInv

(* The application is started with what an earlier one left.               *)
LEMMA WindowInitially == WindowInit => WindowInv
<1> SUFFICES ASSUME WindowInit PROVE WindowInv
  OBVIOUS
<1>1. PICK ls \in Before : /\ disk = [tags |-> [u \in Url |-> 0], lists |-> ls, tabCount |-> Len(ls)]
                           /\ closed = ls
  BY DEF WindowInit
<1>2. /\ app = "down" /\ lost = FALSE /\ views = [v \in View |-> Empty] /\ tabs = <<>> /\ made = 0
      /\ usedView = NoView /\ usedItem = NoItem /\ player = Closed
      /\ trying = FALSE /\ button = "play" /\ timer = FALSE /\ editor = NoTag /\ loading = NotLoading
      /\ again = FALSE /\ elsewhere = {} /\ torn = FALSE
  BY DEF WindowInit
<1> DEFINE OldRow == [url : Url, tag : {0}]
           OldList == [rows : Seq(OldRow), at : Int, mode : {"Normal", "Repeat", "RepeatOne"}]
<1>3. /\ ls \in Seq(OldList) /\ Len(ls) <= MaxViews
      /\ \A i \in DOMAIN ls : Len(ls[i].rows) <= MaxRows /\ ls[i].at \in -1 .. MaxRows
  BY BeforeAssumption
<1>4. OldList \subseteq ListType
  <2>1. OldRow \subseteq RowType
    BY DEF RowType
  <2> HIDE DEF OldRow
  <2>2. Seq(OldRow) \subseteq Seq(RowType)
    BY <2>1
  <2>3. QED
    BY <2>2 DEF ListType, Mode
<1>5. ls \in Seq(ListType)
  <2> HIDE DEF OldList
  <2>1. QED
    BY <1>3, <1>4
<1>6. ViewTypes
  BY <1>2, EmptyFacts, Parameters DEF ViewTypes, NotLoading, MaybeUrl
<1>7. SoundTypes
  BY <1>2, Parameters DEF SoundTypes, NoItem, Closed, NoTag, MaybeUrl
<1>8. disk.lists = ls /\ disk.tabCount = Len(ls) /\ \A u \in Url : disk.tags[u] = 0
  BY <1>1
<1>9. SessionTypes
  <2>1. [u \in Url |-> 0] \in [Url -> {0, 1}]
    OBVIOUS
  <2>2. Len(ls) \in 0 .. MaxViews
    BY <1>3, <1>5, Parameters
  <2>3. QED
    BY <1>1, <1>2, <1>5, <2>1, <2>2 DEF SessionTypes
<1>10. BoundInv
  BY <1>2, <1>3, <1>8, EmptyFacts, Parameters DEF BoundInv, Bounded, NotLoading
<1>11. UnmadeInv /\ ShowsInv /\ ClosingInv /\ DownInv
  BY <1>2, EmptyFacts DEF UnmadeInv, ShowsInv, ClosingInv, DownInv, Closed, NotLoading
<1>12. AgreeInv
  <2>1. ASSUME NEW i \in DOMAIN ls, NEW k \in DOMAIN ls[i].rows
        PROVE  ls[i].rows[k].tag = disk.tags[ls[i].rows[k].url]
    <3>1. ls[i] \in OldList
      <4> HIDE DEF OldList
      <4>1. QED
        BY <1>3
    <3>2. ls[i].rows \in Seq(OldRow)
      BY <3>1
    <3>3. ls[i].rows[k] \in OldRow
      <4> HIDE DEF OldRow
      <4>1. QED
        BY <3>2
    <3>4. ls[i].rows[k].url \in Url /\ ls[i].rows[k].tag = 0
      BY <3>3
    <3>5. QED
      BY <1>8, <3>4
  <2>2. \A i \in DOMAIN disk.lists : Agree(disk.lists[i])
    BY <1>8, <2>1 DEF Agree
  <2>3. QED
    BY <1>2, <2>2 DEF AgreeInv
<1>13. KeptInv
  <2>1. DOMAIN ls = 1 .. Len(ls) /\ ls = [i \in 1 .. Len(ls) |-> ls[i]]
    BY <1>5
  <2>2. Restored = [i \in 1 .. Len(ls) |-> ls[i]]
    BY <1>8, <2>1 DEF Restored
  <2>3. QED
    BY <1>1, <2>1, <2>2 DEF KeptInv
<1>14. QED
  BY <1>6, <1>7, <1>9, <1>10, <1>11, <1>12, <1>13 DEF WindowInv

(* Every step of the window keeps the invariant.                           *)
LEMMA WindowStep == WindowInv /\ [WindowNext]_windowVars => WindowInv'
<1> SUFFICES ASSUME WindowInv, [WindowNext]_windowVars PROVE WindowInv'
  OBVIOUS
<1>1. CASE SlotBtnNext
  BY <1>1, AdvanceStep DEF SlotBtnNext, Event, Ready
<1>2. CASE SlotBtnPrev
  BY <1>2, AdvanceStep DEF SlotBtnPrev, Event, Ready
<1>3. CASE SlotBtnPlay
  BY <1>3, SlotBtnPlayStep
<1>4. CASE NewTab
  BY <1>4, NewTabStep
<1>5. CASE \E i \in DOMAIN tabs : CloseTab(i)
  BY <1>5, CloseTabStep
<1>6. ASSUME NEW v \in Alive, NEW k \in DOMAIN views[v].rows, DoubleClick(v, k) \/ RemoveRow(v, k)
      PROVE  WindowInv'
  BY <1>6, AliveFacts, DoubleClickStep, RemoveRowStep
<1>7. ASSUME NEW v \in Alive, NEW m \in Mode, SetMode(v, m)
      PROVE  WindowInv'
  BY <1>7, AliveFacts, SetModeStep
<1>8. ASSUME NEW v \in Alive, NEW u \in Url, Load(v, u)
      PROVE  WindowInv'
  BY <1>8, AliveFacts, LoadStep
<1>9. CASE SlotCellChanged \/ SlotBtnCancel
  BY <1>9, EditorStep
<1>10. CASE SlotBtnSave
  BY <1>10, SlotBtnSaveStep
<1>11. CASE CloseEvent
  BY <1>11, CloseEventStep
<1>12. CASE TryNext
  BY <1>12, AdvanceStep DEF TryNext
<1>13. CASE SlotUiPlayerFinished
  BY <1>13, AdvanceStep DEF SlotUiPlayerFinished, Ready
<1>14. CASE SlotListRowGot
  BY <1>14, SlotListRowGotStep
<1>15. CASE PlayOut
  BY <1>15, PlayOutStep
<1>16. CASE SlotPlayerFinished
  BY <1>16, Stutter DEF SlotPlayerFinished
<1>17. CASE StartSession
  BY <1>17, StartSessionStep
<1>18. CASE SaveEnv
  BY <1>18, SaveEnvStep
<1>19. CASE Kill
  BY <1>19, KillStep
<1>20. CASE UNCHANGED windowVars
  BY <1>20, Stutter DEF windowVars
<1>21. CASE User
  BY <1>1, <1>2, <1>3, <1>4, <1>5, <1>6, <1>7, <1>8, <1>9, <1>10, <1>11, <1>21 DEF User
<1>22. CASE UiThread
  BY <1>12, <1>13, <1>14, <1>22 DEF UiThread
<1>23. QED
  BY <1>15, <1>16, <1>17, <1>18, <1>19, <1>20, <1>21, <1>22 DEF WindowNext

(* What the window promises follows.                                       *)
LEMMA WindowImplied == WindowInv => DesktopInv
<1> SUFFICES ASSUME WindowInv PROVE DesktopInv
  OBVIOUS
<1>1. WindowTypeOK
  <2>1. app \in {"up", "closing", "down"} /\ {lost, trying, timer, again, torn} \subseteq BOOLEAN
    BY DEF WindowInv, SoundTypes, SessionTypes
  <2>2. tabs \in Seq(View) /\ usedView \in View \cup {NoView}
    <3>1. tabs \in Seq(1 .. made) /\ 1 .. made \subseteq View
      BY Parameters DEF WindowInv, ViewTypes
    <3>2. usedView \in View \cup {NoView}
      BY DEF WindowInv, SoundTypes
    <3>3. tabs \in Seq(View)
      <4> DEFINE S == 1 .. made
      <4>1. tabs \in Seq(S) /\ S \subseteq View
        BY <3>1
      <4> HIDE DEF S
      <4>2. QED
        BY <4>1
    <3>4. QED
      BY <3>2, <3>3
  <2>3. player.status \in {"Closed", "Playing", "Paused"} /\ button \in {"play", "pause"}
    BY DEF WindowInv, SoundTypes
  <2>4. \A v \in View : Len(views[v].rows) \in 0 .. MaxRows + 1 /\ views[v].at \in -1 .. MaxRows
    <3>1. SUFFICES ASSUME NEW v \in View
                   PROVE  Len(views[v].rows) \in 0 .. MaxRows + 1 /\ views[v].at \in -1 .. MaxRows
      OBVIOUS
    <3>2. views[v] \in ListType /\ Bounded(views[v])
      BY DEF WindowInv, ViewTypes, BoundInv
    <3>3. QED
      BY <3>2, Parameters DEF ListType, Bounded
  <2>5. QED
    BY <2>1, <2>2, <2>3, <2>4 DEF WindowTypeOK
<1>2. ShowsWhatPlays
  BY DEF WindowInv, ShowsInv, ShowsWhatPlays
<1>3. TagsAgree
  BY DEF WindowInv, AgreeInv, Agree, TagsAgree
<1>4. QED
  BY <1>1, <1>2, <1>3 DEF DesktopInv

(* A session begins as the one before ended.                               *)
LEMMA SessionStep == WindowInv => SessionKept
<1> SUFFICES ASSUME WindowInv, StartSession, ~torn
             PROVE  [i \in DOMAIN tabs' |-> views'[tabs'[i]]] = closed
  BY DEF SessionKept
<1>1. /\ tabs' = [i \in 1 .. disk.tabCount |-> i]
      /\ views' = [v \in View |-> IF v \in DOMAIN Restored THEN Restored[v] ELSE Empty]
  BY DEF StartSession
<1>2. DOMAIN Restored = 1 .. disk.tabCount /\ disk.tabCount \in 0 .. MaxViews /\ closed = Restored
  BY RestoredFacts DEF WindowInv, KeptInv
<1>3. \A i \in 1 .. disk.tabCount : tabs'[i] = i /\ i \in View /\ views'[i] = Restored[i]
  BY <1>1, <1>2, Parameters
<1>4. [i \in DOMAIN tabs' |-> views'[tabs'[i]]] = [i \in 1 .. disk.tabCount |-> Restored[i]]
  BY <1>1, <1>3
<1>5. Restored = [i \in 1 .. disk.tabCount |-> Restored[i]]
  BY DEF Restored
<1>6. QED
  BY <1>2, <1>4, <1>5

(* Whatever the user does, however often files fail to open, threads are   *)
(* late and the process is killed: what the window shows is what plays,    *)
(* the rows have the tags of the files, and a session begins as the last   *)
(* one ended, but for the exceptions named in the properties.              *)
THEOREM WindowIsSound == WindowSpec => []DesktopInv /\ SessionsKept
<1>1. WindowInit => WindowInv
  BY WindowInitially
<1>2. WindowInv /\ [WindowNext]_windowVars => WindowInv'
  BY WindowStep
<1>3. WindowInv => DesktopInv
  BY WindowImplied
<1>4. WindowInv /\ [WindowNext]_windowVars => [SessionKept]_windowVars
  BY SessionStep
<1>5. QED
  BY <1>1, <1>2, <1>3, <1>4, PTL DEF WindowSpec, SessionsKept

(* The player as a whole, from its window down to the device: both parts   *)
(* keep what they promise.                                                 *)
THEOREM DesktopIsSound ==
  DesktopSpec => [](DesktopInv /\ SoundInv) /\ SessionsKept
<1>1. DesktopInit => WindowInit /\ Init
  BY DEF DesktopInit
<1>2. [DesktopNext]_all => [WindowNext]_windowVars /\ [Next]_vars
  BY DEF DesktopNext, all, OfWindow, OfDevice
<1>3. DesktopSpec => WindowSpec /\ Spec
  BY <1>1, <1>2, PTL DEF DesktopSpec, WindowSpec, Spec
<1>4. Sizes /\ Formats
  BY DeviceAssumption
<1>5. Spec => []SoundInv
  BY <1>4, SoundIsKept
<1>6. WindowSpec => []DesktopInv /\ SessionsKept
  BY WindowIsSound
<1>7. QED
  BY <1>3, <1>5, <1>6, PTL
=============================================================================
