---------------------------- MODULE PlayerProofs ----------------------------
(***************************************************************************)
(* Proofs about Player, for every number of buffers, track length and      *)
(* batch.                                                                  *)
(***************************************************************************)
EXTENDS Player, FiniteSetTheorems, SequenceTheorems, WellFoundedInduction, TLAPS

-----------------------------------------------------------------------------
(* What the operations on a mailbox do to the buffers it holds.            *)

LEMMA AppendHeld ==
  ASSUME NEW S, NEW box \in Seq(S), NEW mail \in S
  PROVE  /\ Held(Append(box, mail)) = Held(box) \cup ({mail.buffer} \ {NoBuffer})
         /\ Distinct(box) /\ mail.buffer \notin Held(box)
              => Distinct(Append(box, mail))
<1> DEFINE new == Append(box, mail)
<1>1. /\ DOMAIN box = 1 .. Len(box) /\ Len(box) \in Nat
      /\ DOMAIN new = 1 .. Len(box) + 1
      /\ \A i \in 1 .. Len(box) : new[i] = box[i]
      /\ new[Len(box) + 1] = mail
  OBVIOUS
<1>2. Held(new) = Held(box) \cup ({mail.buffer} \ {NoBuffer})
  <2>1. DOMAIN new = DOMAIN box \cup {Len(box) + 1}
    BY <1>1
  <2> QED  BY <1>1, <2>1 DEF Held
<1>3. ASSUME Distinct(box), mail.buffer \notin Held(box) PROVE Distinct(new)
  <2> SUFFICES ASSUME NEW i \in DOMAIN new, NEW j \in DOMAIN new,
                      new[i].buffer = new[j].buffer, new[i].buffer # NoBuffer
               PROVE  i = j
    BY DEF Distinct
  <2>1. \A k \in 1 .. Len(box) : box[k].buffer # NoBuffer => box[k].buffer # mail.buffer
    BY <1>1, <1>3 DEF Held
  <2>2. CASE i \in 1 .. Len(box) /\ j \in 1 .. Len(box)
    BY <1>1, <1>3, <2>2 DEF Distinct
  <2>3. CASE i = Len(box) + 1 \/ j = Len(box) + 1
    BY <1>1, <2>1, <2>3
  <2> QED  BY <1>1, <2>2, <2>3
<1> QED  BY <1>2, <1>3

LEMMA PushFrontHeld ==
  ASSUME NEW S, NEW box \in Seq(S), NEW mail \in S, mail.buffer = NoBuffer
  PROVE  /\ PushFront(mail, box) \in Seq(S)
         /\ Len(PushFront(mail, box)) = Len(box) + 1
         /\ PushFront(mail, box)[1] = mail
         /\ \A i \in 1 .. Len(box) : PushFront(mail, box)[i + 1] = box[i]
         /\ Held(PushFront(mail, box)) = Held(box)
         /\ Distinct(box) => Distinct(PushFront(mail, box))
<1> DEFINE new == PushFront(mail, box)
<1>1. /\ new \in Seq(S)
      /\ DOMAIN box = 1 .. Len(box) /\ Len(box) \in Nat
      /\ DOMAIN new = 1 .. Len(box) + 1 /\ Len(new) = Len(box) + 1
      /\ new[1] = mail
      /\ \A i \in 1 .. Len(box) : new[i + 1] = box[i]
  BY DEF PushFront
<1>2. \A i \in DOMAIN new : i = 1 \/ (i - 1 \in 1 .. Len(box) /\ new[i] = box[i - 1])
  BY <1>1
<1>3. Held(new) = Held(box)
  <2>1. \A i \in DOMAIN box : i + 1 \in DOMAIN new /\ new[i + 1].buffer = box[i].buffer
    BY <1>1
  <2>2. \A i \in DOMAIN new : new[i].buffer = NoBuffer
                              \/ \E k \in DOMAIN box : new[i].buffer = box[k].buffer
    BY <1>1, <1>2
  <2> QED  BY <2>1, <2>2 DEF Held
<1>4. ASSUME Distinct(box) PROVE Distinct(new)
  <2> SUFFICES ASSUME NEW i \in DOMAIN new, NEW j \in DOMAIN new,
                      new[i].buffer = new[j].buffer, new[i].buffer # NoBuffer
               PROVE  i = j
    BY DEF Distinct
  <2>1. i # 1 /\ j # 1
    BY <1>1
  <2>2. i - 1 = j - 1
    BY <1>1, <1>2, <1>4, <2>1 DEF Distinct
  <2> QED  BY <1>1, <2>2
<1> QED  BY <1>1, <1>3, <1>4

LEMMA TailHeld ==
  ASSUME NEW S, NEW box \in Seq(S), box # <<>>
  PROVE  /\ Head(box) \in S /\ Tail(box) \in Seq(S)
         /\ Held(Tail(box)) \subseteq Held(box)
         /\ Held(box) = Held(Tail(box)) \cup ({Head(box).buffer} \ {NoBuffer})
         /\ Distinct(box) =>
              Distinct(Tail(box)) /\ Head(box).buffer \notin Held(Tail(box))
<1> DEFINE new == Tail(box)
<1>1. /\ DOMAIN box = 1 .. Len(box) /\ Len(box) \in Nat \ {0}
      /\ DOMAIN new = 1 .. Len(box) - 1
      /\ \A i \in 1 .. Len(box) - 1 : new[i] = box[i + 1]
      /\ Head(box) = box[1] /\ box[1] \in S /\ new \in Seq(S)
  OBVIOUS
<1>2. \A i \in DOMAIN box : i = 1 \/ (i - 1 \in DOMAIN new /\ new[i - 1] = box[i])
  BY <1>1
<1>3. \A i \in DOMAIN new : i + 1 \in DOMAIN box /\ new[i] = box[i + 1]
  BY <1>1
<1>4. Held(box) = Held(new) \cup ({Head(box).buffer} \ {NoBuffer})
  <2>1. 1 \in DOMAIN box
    BY <1>1
  <2>2. Held(new) \subseteq Held(box) /\ Head(box).buffer \in Held(box) \cup {NoBuffer}
    BY <1>1, <1>3, <2>1 DEF Held
  <2>3. ASSUME NEW b \in Held(box), b # Head(box).buffer PROVE b \in Held(new)
    <3>1. PICK i \in DOMAIN box : box[i].buffer = b /\ b # NoBuffer
      BY DEF Held
    <3>2. i # 1
      BY <1>1, <2>3, <3>1
    <3> QED  BY <1>2, <3>1, <3>2 DEF Held
  <2>4. NoBuffer \notin Held(box)
    BY DEF Held
  <2> QED  BY <2>2, <2>3, <2>4
<1>5. ASSUME Distinct(box)
      PROVE  Distinct(new) /\ Head(box).buffer \notin Held(new)
  <2>1. Distinct(new)
    <3> SUFFICES ASSUME NEW i \in DOMAIN new, NEW j \in DOMAIN new,
                        new[i].buffer = new[j].buffer, new[i].buffer # NoBuffer
                 PROVE  i = j
      BY DEF Distinct
    <3>1. i + 1 = j + 1
      BY <1>3, <1>5 DEF Distinct
    <3> QED  BY <1>1, <3>1
  <2>2. Head(box).buffer \notin Held(new)
    <3> SUFFICES ASSUME NEW i \in DOMAIN new, new[i].buffer = box[1].buffer,
                        new[i].buffer # NoBuffer
                 PROVE  FALSE
      BY <1>1 DEF Held
    <3>1. i + 1 = 1
      BY <1>1, <1>3, <1>5 DEF Distinct
    <3> QED  BY <1>1, <3>1
  <2> QED  BY <2>1, <2>2
<1> QED  BY <1>1, <1>4, <1>5

(* Pigeonhole: BufferCount distinct buffers are all of them.               *)
LEMMA AllBuffersBack ==
  ASSUME NEW box \in Seq(HomeMail),
         Distinct(box), Len(box) >= BufferCount
  PROVE  Held(box) = Buffer
<1> DEFINE f == [i \in 1 .. BufferCount |-> box[i].buffer]
<1>1. BufferCount \in Nat \ {0}
  BY BufferCountAssumption
<1>2. DOMAIN box = 1 .. Len(box) /\ Len(box) \in Nat
      /\ \A i \in DOMAIN box : box[i].buffer \in Buffer
  <2>1. \A i \in 1 .. Len(box) : box[i] \in HomeMail
    BY ElementOfSeq
  <2> QED  BY <2>1 DEF HomeMail
<1>3. f \in [1 .. BufferCount -> Buffer]
  BY <1>1, <1>2
<1>4. \A i, j \in 1 .. BufferCount : f[i] = f[j] => i = j
  BY <1>1, <1>2 DEF Distinct, Buffer, NoBuffer
<1>5. f \in Injection(1 .. BufferCount, Buffer)
  BY <1>3, <1>4 DEF Injection, IsInjective
<1>6. f \in Surjection(1 .. BufferCount, Buffer)
  BY <1>1, <1>5, FS_Injection, FS_Interval DEF Buffer
<1>7. \A b \in Buffer : \E i \in 1 .. BufferCount : f[i] = b
  BY <1>6 DEF Surjection
<1>8. 1 .. BufferCount \subseteq DOMAIN box
  BY <1>1, <1>2
<1>9. Held(box) \subseteq Buffer
  BY <1>2 DEF Held
<1>10. ASSUME NEW b \in Buffer PROVE b \in Held(box)
  <2>1. PICK i \in 1 .. BufferCount : box[i].buffer = b
    BY <1>7
  <2> QED  BY <1>8, <2>1 DEF Held, Buffer, NoBuffer
<1> QED  BY <1>9, <1>10

-----------------------------------------------------------------------------
(* Types.                                                                  *)

LEMMA MailTypes ==
  /\ \A a \in {"PROCEED", "SUSPEND", "QUIT"} :
       /\ Token(a) \in DecoderMail /\ Token(a) \in OutputMail
       /\ Token(a).buffer = NoBuffer
  /\ \A b \in Buffer :
       /\ Mail("DECODE", b) \in DecoderMail /\ Mail("OUTPUT", b) \in OutputMail
       /\ \A a \in {"NONE", "DECODE", "OUTPUT"} :
            Mail(a, b) \in HomeMail
       /\ Mail("DECODE", b).buffer = b /\ Mail("OUTPUT", b).buffer = b
BY DEF Token, Mail, DecoderMail, OutputMail, HomeMail, Tokens

LEMMA ControlTypes ==
  ASSUME TypeOK, CallShape, InFile, HandShape, Control
  PROVE  TypeOK'
<1> USE DEF control, range, codec, decoder, output, CallReady
<1>0. BufferCount \in Nat \ {0} /\ MaxUnit \in Nat
  BY BufferCountAssumption, MaxUnitAssumption
<1>1. ASSUME NEW n \in Unit, Open(n) PROVE TypeOK'
  <2>1. bufferMailbox' \in Seq(HomeMail)
    BY <1>0, <1>1, MailTypes DEF Open, Buffer
  <2>2. content' \in [Buffer -> [from : Nat, count : Nat]]
    BY <1>1 DEF Open
  <2> QED  BY <1>0, <1>1, <2>1, <2>2 DEF Open, TypeOK, Unit
<1>2. ASSUME NEW beg \in Unit, NEW end \in Unit, Play(beg, end) PROVE TypeOK'
  BY <1>0, <1>2, MailTypes DEF Play, TypeOK, Unit
<1>3. CASE Resume
  BY <1>3, MailTypes DEF Resume, TypeOK
<1>4. CASE ProceedDecoder
  BY <1>4, MailTypes DEF ProceedDecoder, TypeOK
<1>5. CASE HandOut
  <2>1. /\ Head(bufferMailbox) \in HomeMail
        /\ Tail(bufferMailbox) \in Seq(HomeMail)
    BY <1>5, TailHeld DEF HandOut, TypeOK
  <2>2. Head(bufferMailbox).buffer \in Buffer
    BY <2>1 DEF HomeMail
  <2> QED  BY <1>5, <2>1, <2>2, MailTypes DEF HandOut, TypeOK
<1>6. CASE HandOutDone \/ Pause \/ Paused \/ Close \/ Destroy \/ Closed
  <2>1. CASE HandOutDone \/ Pause \/ Paused
    BY <2>1 DEF HandOutDone, Pause, Paused, StartPausing, TypeOK
  <2>2. ASSUME NEW call \in {"Close", "Destroy"}, CloseDecoder(call) PROVE TypeOK'
    BY <1>0, <2>2 DEF CloseDecoder, TypeOK, Unit
  <2>3. ASSUME NEW call \in {"Close", "Destroy"}, StartPausing(call), UNCHANGED target
        PROVE  TypeOK'
    BY <2>3 DEF StartPausing, TypeOK
  <2> QED  BY <1>6, <2>1, <2>2, <2>3 DEF Closed, Close, Destroy
<1>7. CASE SuspendDecoder \/ SuspendOutput \/ QuitDecoder \/ QuitOutput
  <2>1. \A a \in {"SUSPEND", "QUIT"} :
          /\ PushFront(Token(a), decoderMailbox) \in Seq(DecoderMail)
          /\ PushFront(Token(a), outputMailbox) \in Seq(OutputMail)
    BY MailTypes, PushFrontHeld DEF TypeOK
  <2> QED  BY <1>7, <2>1 DEF SuspendDecoder, SuspendOutput, QuitDecoder, QuitOutput, TypeOK
<1>8. CASE Join
  BY <1>8 DEF Join, TypeOK
<1>9. ASSUME NEW unit \in Unit, SeekInPlace(unit) \/ SeekPlaying(unit) PROVE TypeOK'
  <2>1. ClampToRange(unit) \in Nat
    BY <1>0 DEF ClampToRange, TypeOK, Unit
  <2>2. CASE SeekInPlace(unit)
    BY <2>1, <2>2 DEF SeekInPlace, DoSeekUnit, TypeOK
  <2>3. CASE SeekPlaying(unit)
    BY <2>3 DEF SeekPlaying, StartPausing, TypeOK
  <2> QED  BY <1>9, <2>2, <2>3
<1>10. CASE SeekPaused
  BY <1>0, <1>10, MailTypes DEF SeekPaused, DoSeekUnit, ClampToRange, TypeOK, Unit
<1> QED
  BY <1>1, <1>2, <1>3, <1>4, <1>5, <1>6, <1>7, <1>8, <1>9, <1>10 DEF Control

LEMMA WorkerTypes ==
  ASSUME TypeOK, CallShape, InFile, HandShape, DecoderThread \/ OutputThread \/ Finished
  PROVE  TypeOK'
<1> USE DEF control, range, codec, decoder, output
<1>0. BufferCount \in Nat \ {0} /\ MaxUnit \in Nat /\ Batch \subseteq Nat \ {0}
  BY BufferCountAssumption, MaxUnitAssumption, BatchAssumption
<1>1. CASE DecoderTake
  <2>1. Head(decoderMailbox) \in DecoderMail /\ Tail(decoderMailbox) \in Seq(DecoderMail)
    BY <1>1, TailHeld DEF DecoderTake, TypeOK
  <2>2. Head(decoderMailbox).buffer \in Buffer \cup {NoBuffer}
    BY <2>1 DEF DecoderMail, Tokens
  <2> QED  BY <1>1, <2>1, <2>2 DEF DecoderTake, TypeOK
<1>2. CASE DecoderBounce
  BY <1>2, MailTypes DEF DecoderBounce, HandShape, TypeOK
<1>3. ASSUME NEW n \in Batch, Decode(n) PROVE TypeOK'
  <2> DEFINE units == IF codecPos + n > total THEN total - codecPos ELSE n
  <2>1. dBuf \in Buffer /\ Flowing
    BY <1>3 DEF Decode, HandShape, CallShape, AllHome, TypeOK
  <2>2. n \in Nat /\ units \in Nat
    BY <1>0, <1>3, <2>1 DEF Decode, InFile, Flowing, CallShape, TypeOK, Unit
  <2>3. content' \in [Buffer -> [from : Nat, count : Nat]]
    BY <1>3, <2>1, <2>2 DEF Decode, TypeOK
  <2> QED  BY <1>0, <1>3, <2>2, <2>3 DEF Decode, TypeOK, Unit
<1>4. CASE DecoderSend
  BY <1>4, MailTypes DEF DecoderSend, HandShape, TypeOK
<1>5. CASE OutputTake
  <2>1. Head(outputMailbox) \in OutputMail /\ Tail(outputMailbox) \in Seq(OutputMail)
    BY <1>5, TailHeld DEF OutputTake, TypeOK
  <2>2. Head(outputMailbox).buffer \in Buffer \cup {NoBuffer}
    BY <2>1 DEF OutputMail, Tokens
  <2> QED  BY <1>5, <2>1, <2>2 DEF OutputTake, TypeOK
<1>6. CASE OutputBounce
  BY <1>6, MailTypes DEF OutputBounce, HandShape, TypeOK
<1>7. CASE Write
  <2>1. oBuf \in Buffer /\ content[oBuf].count \in Nat
    BY <1>7 DEF Write, HandShape, TypeOK
  <2> QED  BY <1>7, <2>1 DEF Write, TypeOK
<1>8. CASE OutputSend
  BY <1>8, MailTypes DEF OutputSend, HandShape, TypeOK
<1>9. CASE Finished
  BY <1>9 DEF Finished, TypeOK
<1> QED
  BY <1>1, <1>2, <1>3, <1>4, <1>5, <1>6, <1>7, <1>8, <1>9 DEF DecoderThread, OutputThread

-----------------------------------------------------------------------------
(* Where the buffers are.                                                  *)

LEMMA MailShape ==
  /\ NoBuffer \notin Buffer
  /\ \A m \in DecoderMail : IF m.action = "DECODE" THEN m.buffer \in Buffer
                                                     ELSE m.buffer = NoBuffer
  /\ \A m \in OutputMail : IF m.action = "OUTPUT" THEN m.buffer \in Buffer
                                                    ELSE m.buffer = NoBuffer
BY BufferCountAssumption DEF DecoderMail, OutputMail, Tokens, Buffer, NoBuffer

(* A token does not change what a mailbox holds.                           *)
LEMMA TokenHeld ==
  ASSUME NEW S, NEW box \in Seq(S), NEW a, Token(a) \in S
  PROVE  /\ Held(Append(box, Token(a))) = Held(box)
         /\ Held(PushFront(Token(a), box)) = Held(box)
         /\ Distinct(box) => /\ Distinct(Append(box, Token(a)))
                             /\ Distinct(PushFront(Token(a), box))
<1>1. Token(a).buffer = NoBuffer /\ NoBuffer \notin Held(box)
  BY DEF Token, Held
<1>2. /\ Held(Append(box, Token(a))) = Held(box)
      /\ Distinct(box) => Distinct(Append(box, Token(a)))
  <2> DEFINE mail == Token(a)
  <2> HIDE DEF mail
  <2>1. mail \in S /\ mail.buffer = NoBuffer
    BY <1>1 DEF mail
  <2>2. /\ Held(Append(box, mail)) = Held(box) \cup ({mail.buffer} \ {NoBuffer})
        /\ Distinct(box) => Distinct(Append(box, mail))
    BY <1>1, <2>1, AppendHeld
  <2> QED  BY <2>1, <2>2 DEF mail
<1>3. /\ Held(PushFront(Token(a), box)) = Held(box)
      /\ Distinct(box) => Distinct(PushFront(Token(a), box))
  BY <1>1, PushFrontHeld
<1> QED  BY <1>2, <1>3

LEMMA OwnersKept ==
  ASSUME NoDuplicate, NoneLost, status' # "Closed" => status # "Closed",
         Held(decoderMailbox') = Held(decoderMailbox),
         Held(outputMailbox') = Held(outputMailbox),
         Held(bufferMailbox') = Held(bufferMailbox),
         Distinct(decoderMailbox) => Distinct(decoderMailbox'),
         Distinct(outputMailbox) => Distinct(outputMailbox'),
         Distinct(bufferMailbox) => Distinct(bufferMailbox'),
         UNCHANGED <<dBuf, oBuf>>
  PROVE  NoDuplicate' /\ NoneLost'
BY DEF NoDuplicate, NoneLost

LEMMA ControlOwners ==
  ASSUME SafeInv, Control
  PROVE  NoDuplicate' /\ NoneLost'
<1> USE DEF control, range, codec, decoder, output, CallReady
<1>0. /\ decoderMailbox \in Seq(DecoderMail) /\ outputMailbox \in Seq(OutputMail)
      /\ bufferMailbox \in Seq(HomeMail)
      /\ NoDuplicate /\ NoneLost
  BY DEF SafeInv, TypeOK
<1>1. ASSUME NEW n \in Unit, Open(n) PROVE NoDuplicate' /\ NoneLost'
  <2>1. AllHome
    BY <1>1 DEF Open, SafeInv, CallShape, Flowing
  <2>2. DOMAIN bufferMailbox' = Buffer /\ \A i \in Buffer : bufferMailbox'[i].buffer = i
    BY <1>1 DEF Open, Mail
  <2>3. Held(bufferMailbox') = Buffer /\ Distinct(bufferMailbox')
    BY <2>2, MailShape DEF Held, Distinct
  <2> QED  BY <1>0, <1>1, <2>1, <2>3, MailShape DEF Open, AllHome, NoDuplicate, NoneLost
<1>2. ASSUME UNCHANGED <<decoderMailbox, outputMailbox, bufferMailbox, dBuf, oBuf>>,
             status' # "Closed" => status # "Closed"
      PROVE  NoDuplicate' /\ NoneLost'
  BY <1>0, <1>2, OwnersKept
<1>3. ASSUME NEW a \in {"PROCEED", "SUSPEND", "QUIT"},
             \/ decoderMailbox' = Append(decoderMailbox, Token(a))
             \/ decoderMailbox' = PushFront(Token(a), decoderMailbox)
             \/ decoderMailbox' = decoderMailbox,
             \/ outputMailbox' = Append(outputMailbox, Token(a))
             \/ outputMailbox' = PushFront(Token(a), outputMailbox)
             \/ outputMailbox' = outputMailbox,
             UNCHANGED <<bufferMailbox, dBuf, oBuf>>,
             status' # "Closed" => status # "Closed"
      PROVE  NoDuplicate' /\ NoneLost'
  <2>1. /\ Held(decoderMailbox') = Held(decoderMailbox)
        /\ Distinct(decoderMailbox) => Distinct(decoderMailbox')
    <3>1. Token(a) \in DecoderMail
      BY MailTypes
    <3>2. /\ Held(Append(decoderMailbox, Token(a))) = Held(decoderMailbox)
          /\ Held(PushFront(Token(a), decoderMailbox)) = Held(decoderMailbox)
          /\ Distinct(decoderMailbox) => /\ Distinct(Append(decoderMailbox, Token(a)))
                                      /\ Distinct(PushFront(Token(a), decoderMailbox))
      BY <1>0, <3>1, TokenHeld
    <3>3. CASE decoderMailbox' = Append(decoderMailbox, Token(a))
      BY <3>2, <3>3
    <3>4. CASE decoderMailbox' = PushFront(Token(a), decoderMailbox)
      BY <3>2, <3>4
    <3> QED  BY <1>3, <3>3, <3>4
  <2>2. /\ Held(outputMailbox') = Held(outputMailbox)
        /\ Distinct(outputMailbox) => Distinct(outputMailbox')
    <3>1. Token(a) \in OutputMail
      BY MailTypes
    <3>2. /\ Held(Append(outputMailbox, Token(a))) = Held(outputMailbox)
          /\ Held(PushFront(Token(a), outputMailbox)) = Held(outputMailbox)
          /\ Distinct(outputMailbox) => /\ Distinct(Append(outputMailbox, Token(a)))
                                      /\ Distinct(PushFront(Token(a), outputMailbox))
      BY <1>0, <3>1, TokenHeld
    <3>3. CASE outputMailbox' = Append(outputMailbox, Token(a))
      BY <3>2, <3>3
    <3>4. CASE outputMailbox' = PushFront(Token(a), outputMailbox)
      BY <3>2, <3>4
    <3> QED  BY <1>3, <3>3, <3>4
  <2> QED  BY <1>0, <1>3, <2>1, <2>2, OwnersKept
<1>4. CASE HandOut
  <2> DEFINE b == Head(bufferMailbox).buffer
  <2>1. /\ b \in Buffer /\ b \in Held(bufferMailbox)
        /\ Held(bufferMailbox) = Held(bufferMailbox') \cup {b}
        /\ b \notin Held(bufferMailbox') /\ Distinct(bufferMailbox')
    <3>1. Head(bufferMailbox) \in HomeMail
      BY <1>0, <1>4, TailHeld DEF HandOut
    <3>2. b \in Buffer
      BY <3>1 DEF HomeMail
    <3> QED  BY <1>0, <1>4, <3>2, TailHeld, MailShape DEF HandOut, NoDuplicate
  <2>2. /\ Held(decoderMailbox') = Held(decoderMailbox) \cup {b}
        /\ Distinct(decoderMailbox')
    <3>1. Mail("DECODE", b) \in DecoderMail /\ Mail("DECODE", b).buffer = b /\ b # NoBuffer
      BY <2>1, MailTypes, MailShape
    <3>2. Distinct(decoderMailbox) /\ b \notin Held(decoderMailbox)
      BY <1>0, <2>1 DEF NoDuplicate
    <3>3. decoderMailbox' = Append(decoderMailbox, Mail("DECODE", b))
      BY <1>4 DEF HandOut
    <3> QED  BY <1>0, <3>1, <3>2, <3>3, AppendHeld
  <2>3. UNCHANGED <<status, outputMailbox, dBuf, oBuf>>
    BY <1>4 DEF HandOut
  <2>4. NoDuplicate'
    BY <1>0, <2>1, <2>2, <2>3 DEF NoDuplicate
  <2> QED  BY <1>0, <2>1, <2>2, <2>3, <2>4 DEF NoneLost
<1>5. CASE Join
  <2>1. AllHome /\ status = "Closed"
    BY <1>5 DEF Join, SafeInv, CallShape, Flowing
  <2>2. Held(bufferMailbox') = {} /\ Distinct(bufferMailbox')
    BY <1>5 DEF Join, Held, Distinct
  <2> QED  BY <1>0, <1>5, <2>1, <2>2 DEF Join, AllHome, NoDuplicate, NoneLost
<1>6. CASE \E beg, end \in Unit : Play(beg, end)
  BY <1>3, <1>6 DEF Play
<1>7. CASE Resume \/ SeekPaused
  BY <1>3, <1>7, <1>0 DEF Resume, SeekPaused, BuffersBack, SafeInv, CallShape
<1>8. CASE ProceedDecoder
  BY <1>3, <1>8 DEF ProceedDecoder
<1>9. CASE SuspendDecoder \/ SuspendOutput \/ QuitDecoder \/ QuitOutput
  BY <1>3, <1>9 DEF SuspendDecoder, SuspendOutput, QuitDecoder, QuitOutput
<1>10. CASE HandOutDone \/ Paused \/ Pause \/ Close \/ Destroy \/ Closed
            \/ \E unit \in Unit : SeekInPlace(unit) \/ SeekPlaying(unit)
  <2>1. UNCHANGED <<decoderMailbox, outputMailbox, bufferMailbox, dBuf, oBuf>>
    BY <1>10 DEF HandOutDone, Paused, Pause, Close, Destroy, Closed, SeekInPlace, SeekPlaying,
                 StartPausing, CloseDecoder
  <2>2. status' # "Closed" => status # "Closed"
    BY <1>10 DEF HandOutDone, Paused, Pause, Close, Destroy, Closed, SeekInPlace, SeekPlaying,
                 StartPausing, CloseDecoder, BuffersBack, SafeInv, CallShape
  <2> QED
    BY <1>2, <2>1, <2>2
<1> QED
  BY <1>1, <1>4, <1>5, <1>6, <1>7, <1>8, <1>9, <1>10 DEF Control

(* Taking a mail: a buffer it carries goes to the worker's hand.           *)
LEMMA TakeHeld ==
  ASSUME NEW S, NEW box \in Seq(S), box # <<>>, Distinct(box)
  PROVE  /\ Head(box) \in S
         /\ Head(box).buffer = NoBuffer =>
              Held(Tail(box)) = Held(box) /\ Distinct(Tail(box))
         /\ Head(box).buffer # NoBuffer =>
              /\ Head(box).buffer \in Held(box)
              /\ Held(Tail(box)) = Held(box) \ {Head(box).buffer}
              /\ Distinct(Tail(box))
<1>1. Held(box) = Held(Tail(box)) \cup ({Head(box).buffer} \ {NoBuffer})
  BY TailHeld
<1>2. Distinct(Tail(box)) /\ Head(box).buffer \notin Held(Tail(box)) /\ Head(box) \in S
  BY TailHeld
<1> QED  BY <1>1, <1>2

LEMMA WorkerOwners ==
  ASSUME SafeInv, DecoderThread \/ OutputThread \/ Finished
  PROVE  NoDuplicate' /\ NoneLost'
<1> USE DEF control, range, codec, decoder, output
<1>0. /\ decoderMailbox \in Seq(DecoderMail) /\ outputMailbox \in Seq(OutputMail)
      /\ bufferMailbox \in Seq(HomeMail)
      /\ NoDuplicate /\ NoneLost /\ HandShape
      /\ dBuf \in Buffer \cup {NoBuffer} /\ oBuf \in Buffer \cup {NoBuffer}
  BY DEF SafeInv, TypeOK
<1>00. Distinct(decoderMailbox) /\ Distinct(outputMailbox) /\ Distinct(bufferMailbox)
  BY <1>0 DEF NoDuplicate
<1>1. CASE DecoderTake
  <2> DEFINE mail == Head(decoderMailbox)
  <2>1. /\ decoderMailbox' = Tail(decoderMailbox) /\ decoderMailbox # <<>> /\ dPc = "take"
        /\ UNCHANGED <<status, outputMailbox, bufferMailbox, oBuf>>
        /\ mail.action # "DECODE" => UNCHANGED dBuf
        /\ mail.action = "DECODE" => dBuf' = mail.buffer
    BY <1>1 DEF DecoderTake
  <2>2. mail \in DecoderMail /\ dBuf = NoBuffer
    BY <1>0, <1>00, <2>1, TakeHeld DEF HandShape
  <2>3. CASE mail.action # "DECODE"
    <3>1. mail.buffer = NoBuffer /\ UNCHANGED dBuf
      BY <2>1, <2>2, <2>3, MailShape
    <3>2. Held(decoderMailbox') = Held(decoderMailbox) /\ Distinct(decoderMailbox')
      BY <1>0, <1>00, <2>1, <3>1, TakeHeld
    <3> QED  BY <1>0, <2>1, <3>1, <3>2, OwnersKept
  <2>4. CASE mail.action = "DECODE"
    <3>1. mail.buffer \in Buffer /\ mail.buffer # NoBuffer /\ dBuf' = mail.buffer
      BY <2>1, <2>2, <2>4, MailShape
    <3>2. /\ mail.buffer \in Held(decoderMailbox)
          /\ Held(decoderMailbox') = Held(decoderMailbox) \ {mail.buffer}
          /\ Distinct(decoderMailbox')
      BY <1>0, <1>00, <2>1, <3>1, TakeHeld
    <3>3. NoDuplicate'
      BY <1>0, <2>1, <3>1, <3>2 DEF NoDuplicate
    <3> QED  BY <1>0, <2>1, <2>2, <3>1, <3>2, <3>3, MailShape DEF NoneLost
  <2> QED  BY <2>3, <2>4
<1>2. CASE OutputTake
  <2> DEFINE mail == Head(outputMailbox)
  <2>1. /\ outputMailbox' = Tail(outputMailbox) /\ outputMailbox # <<>> /\ oPc = "take"
        /\ UNCHANGED <<status, decoderMailbox, bufferMailbox, dBuf>>
        /\ mail.action # "OUTPUT" => UNCHANGED oBuf
        /\ mail.action = "OUTPUT" => oBuf' = mail.buffer
    BY <1>2 DEF OutputTake
  <2>2. mail \in OutputMail /\ oBuf = NoBuffer
    BY <1>0, <1>00, <2>1, TakeHeld DEF HandShape
  <2>3. CASE mail.action # "OUTPUT"
    <3>1. mail.buffer = NoBuffer /\ UNCHANGED oBuf
      BY <2>1, <2>2, <2>3, MailShape
    <3>2. Held(outputMailbox') = Held(outputMailbox) /\ Distinct(outputMailbox')
      BY <1>0, <1>00, <2>1, <3>1, TakeHeld
    <3> QED  BY <1>0, <2>1, <3>1, <3>2, OwnersKept
  <2>4. CASE mail.action = "OUTPUT"
    <3>1. mail.buffer \in Buffer /\ mail.buffer # NoBuffer /\ oBuf' = mail.buffer
      BY <2>1, <2>2, <2>4, MailShape
    <3>2. /\ mail.buffer \in Held(outputMailbox)
          /\ Held(outputMailbox') = Held(outputMailbox) \ {mail.buffer}
          /\ Distinct(outputMailbox')
      BY <1>0, <1>00, <2>1, <3>1, TakeHeld
    <3>3. NoDuplicate'
      BY <1>0, <2>1, <3>1, <3>2 DEF NoDuplicate
    <3> QED  BY <1>0, <2>1, <2>2, <3>1, <3>2, <3>3, MailShape DEF NoneLost
  <2> QED  BY <2>3, <2>4
<1>3. CASE DecoderBounce
  <2>1. /\ bufferMailbox' = Append(bufferMailbox, Mail("DECODE", dBuf)) /\ dBuf' = NoBuffer
        /\ dBuf \in Buffer /\ UNCHANGED <<status, decoderMailbox, outputMailbox, oBuf>>
    BY <1>0, <1>3 DEF DecoderBounce, HandShape
  <2>2. Mail("DECODE", dBuf) \in HomeMail
        /\ Mail("DECODE", dBuf).buffer = dBuf /\ dBuf # NoBuffer
    BY <2>1, MailTypes, MailShape
  <2>3. dBuf \notin Held(bufferMailbox)
    BY <1>0 DEF NoDuplicate
  <2>4. Held(bufferMailbox') = Held(bufferMailbox) \cup {dBuf} /\ Distinct(bufferMailbox')
    BY <1>0, <1>00, <2>1, <2>2, <2>3, AppendHeld
  <2>5. NoDuplicate'
    <3>1. NoBuffer \notin Held(decoderMailbox') \cup Held(outputMailbox') \cup Held(bufferMailbox')
      BY DEF Held
    <3> QED  BY <1>0, <2>1, <2>2, <2>4, <3>1 DEF NoDuplicate
  <2> QED  BY <1>0, <2>1, <2>4, <2>5 DEF NoneLost
<1>4. CASE DecoderSend
  <2>1. /\ outputMailbox' = Append(outputMailbox, Mail("OUTPUT", dBuf)) /\ dBuf' = NoBuffer
        /\ dBuf \in Buffer /\ UNCHANGED <<status, decoderMailbox, bufferMailbox, oBuf>>
    BY <1>0, <1>4 DEF DecoderSend, HandShape
  <2>2. Mail("OUTPUT", dBuf) \in OutputMail
        /\ Mail("OUTPUT", dBuf).buffer = dBuf /\ dBuf # NoBuffer
    BY <2>1, MailTypes, MailShape
  <2>3. dBuf \notin Held(outputMailbox)
    BY <1>0 DEF NoDuplicate
  <2>4. Held(outputMailbox') = Held(outputMailbox) \cup {dBuf} /\ Distinct(outputMailbox')
    BY <1>0, <1>00, <2>1, <2>2, <2>3, AppendHeld
  <2>5. NoDuplicate'
    <3>1. NoBuffer \notin Held(decoderMailbox') \cup Held(outputMailbox') \cup Held(bufferMailbox')
      BY DEF Held
    <3> QED  BY <1>0, <2>1, <2>2, <2>4, <3>1 DEF NoDuplicate
  <2> QED  BY <1>0, <2>1, <2>4, <2>5 DEF NoneLost
<1>5. CASE OutputBounce
  <2>1. /\ bufferMailbox' = Append(bufferMailbox, Mail("OUTPUT", oBuf)) /\ oBuf' = NoBuffer
        /\ oBuf \in Buffer /\ UNCHANGED <<status, decoderMailbox, outputMailbox, dBuf>>
    BY <1>0, <1>5 DEF OutputBounce, HandShape
  <2>2. Mail("OUTPUT", oBuf) \in HomeMail
        /\ Mail("OUTPUT", oBuf).buffer = oBuf /\ oBuf # NoBuffer
    BY <2>1, MailTypes, MailShape
  <2>3. oBuf \notin Held(bufferMailbox)
    BY <1>0 DEF NoDuplicate
  <2>4. Held(bufferMailbox') = Held(bufferMailbox) \cup {oBuf} /\ Distinct(bufferMailbox')
    BY <1>0, <1>00, <2>1, <2>2, <2>3, AppendHeld
  <2>5. NoDuplicate'
    <3>1. NoBuffer \notin Held(decoderMailbox') \cup Held(outputMailbox') \cup Held(bufferMailbox')
      BY DEF Held
    <3> QED  BY <1>0, <2>1, <2>2, <2>4, <3>1 DEF NoDuplicate
  <2> QED  BY <1>0, <2>1, <2>4, <2>5 DEF NoneLost
<1>6. CASE OutputSend
  <2>1. /\ decoderMailbox' = Append(decoderMailbox, Mail("DECODE", oBuf)) /\ oBuf' = NoBuffer
        /\ oBuf \in Buffer /\ UNCHANGED <<status, outputMailbox, bufferMailbox, dBuf>>
    BY <1>0, <1>6 DEF OutputSend, HandShape
  <2>2. Mail("DECODE", oBuf) \in DecoderMail
        /\ Mail("DECODE", oBuf).buffer = oBuf /\ oBuf # NoBuffer
    BY <2>1, MailTypes, MailShape
  <2>3. oBuf \notin Held(decoderMailbox)
    BY <1>0 DEF NoDuplicate
  <2>4. Held(decoderMailbox') = Held(decoderMailbox) \cup {oBuf} /\ Distinct(decoderMailbox')
    BY <1>0, <1>00, <2>1, <2>2, <2>3, AppendHeld
  <2>5. NoDuplicate'
    <3>1. NoBuffer \notin Held(decoderMailbox') \cup Held(outputMailbox') \cup Held(bufferMailbox')
      BY DEF Held
    <3> QED  BY <1>0, <2>1, <2>2, <2>4, <3>1 DEF NoDuplicate
  <2> QED  BY <1>0, <2>1, <2>4, <2>5 DEF NoneLost
<1>7. CASE (\E n \in Batch : Decode(n)) \/ Write \/ Finished
  BY <1>0, <1>7, OwnersKept DEF Decode, Write, Finished
<1> QED
  BY <1>1, <1>2, <1>3, <1>4, <1>5, <1>6, <1>7 DEF DecoderThread, OutputThread

-----------------------------------------------------------------------------
(* What each call and each worker step leaves true of calls and hands.     *)

LEMMA HeldTypes ==
  ASSUME TypeOK
  PROVE  Held(decoderMailbox) \subseteq Buffer /\ Held(outputMailbox) \subseteq Buffer
<1>1. \A i \in DOMAIN decoderMailbox : decoderMailbox[i] \in DecoderMail
  BY ElementOfSeq DEF TypeOK
<1>2. \A i \in DOMAIN outputMailbox : outputMailbox[i] \in OutputMail
  BY ElementOfSeq DEF TypeOK
<1> QED  BY <1>1, <1>2, MailShape DEF Held

(* The wait of Pause is over only when every buffer is at home.            *)
LEMMA BackMeansHome ==
  ASSUME TypeOK, NoDuplicate, BuffersBack
  PROVE  AllHome
<1>1. Held(bufferMailbox) = Buffer
  BY AllBuffersBack DEF BuffersBack, TypeOK, NoDuplicate
<1> QED  BY <1>1, HeldTypes DEF AllHome, NoDuplicate, TypeOK

LEMMA TokensKeepHome ==
  ASSUME TypeOK, AllHome, Control, ~HandOut
  PROVE  AllHome'
<1> USE DEF control, range, codec, decoder, output, CallReady
<1>1. ASSUME NEW a \in {"PROCEED", "SUSPEND", "QUIT"}
      PROVE  /\ Held(Append(decoderMailbox, Token(a))) = Held(decoderMailbox)
             /\ Held(PushFront(Token(a), decoderMailbox)) = Held(decoderMailbox)
             /\ Held(Append(outputMailbox, Token(a))) = Held(outputMailbox)
             /\ Held(PushFront(Token(a), outputMailbox)) = Held(outputMailbox)
  <2>1. /\ decoderMailbox \in Seq(DecoderMail) /\ Token(a) \in DecoderMail
        /\ outputMailbox \in Seq(OutputMail) /\ Token(a) \in OutputMail
    BY MailTypes DEF TypeOK
  <2>2. /\ Held(Append(decoderMailbox, Token(a))) = Held(decoderMailbox)
        /\ Held(PushFront(Token(a), decoderMailbox)) = Held(decoderMailbox)
    BY <2>1, TokenHeld
  <2>3. /\ Held(Append(outputMailbox, Token(a))) = Held(outputMailbox)
        /\ Held(PushFront(Token(a), outputMailbox)) = Held(outputMailbox)
    BY <2>1, TokenHeld
  <2> QED  BY <2>2, <2>3
<1>2. UNCHANGED <<dBuf, oBuf>>
  BY DEF Control, Open, Play, Resume, ProceedDecoder, HandOut, HandOutDone, Pause,
     SuspendDecoder, SuspendOutput, Paused, SeekInPlace, SeekPlaying, SeekPaused, Close,
     Destroy, Closed, QuitDecoder, QuitOutput, Join, StartPausing, CloseDecoder
<1>3. \E a \in {"PROCEED", "SUSPEND", "QUIT"} :
        decoderMailbox' \in {decoderMailbox, Append(decoderMailbox, Token(a)),
                             PushFront(Token(a), decoderMailbox)}
  BY DEF Control, Open, Play, Resume, ProceedDecoder, HandOutDone, Pause,
     SuspendDecoder, SuspendOutput, Paused, SeekInPlace, SeekPlaying, SeekPaused, Close,
     Destroy, Closed, QuitDecoder, QuitOutput, Join, StartPausing, CloseDecoder
<1>4. \E a \in {"PROCEED", "SUSPEND", "QUIT"} :
        outputMailbox' \in {outputMailbox, Append(outputMailbox, Token(a)),
                            PushFront(Token(a), outputMailbox)}
  BY DEF Control, Open, Play, Resume, ProceedDecoder, HandOutDone, Pause,
     SuspendDecoder, SuspendOutput, Paused, SeekInPlace, SeekPlaying, SeekPaused, Close,
     Destroy, Closed, QuitDecoder, QuitOutput, Join, StartPausing, CloseDecoder
<1>5. Held(decoderMailbox') = {}
  BY <1>1, <1>3 DEF AllHome
<1>6. Held(outputMailbox') = {}
  BY <1>1, <1>4 DEF AllHome
<1> QED  BY <1>2, <1>5, <1>6 DEF AllHome

LEMMA ControlShapes ==
  ASSUME SafeInv, Control
  PROVE  CallShape' /\ InFile' /\ HandShape'
<1> USE DEF control, range, codec, decoder, output, CallReady
<1>0. TypeOK /\ CallShape /\ InFile /\ HandShape /\ NoDuplicate
  BY DEF SafeInv
<1>1. HandShape'
  BY <1>0 DEF Control, Open, Play, Resume, ProceedDecoder, HandOut, HandOutDone, Pause,
     SuspendDecoder, SuspendOutput, Paused, SeekInPlace, SeekPlaying, SeekPaused, Close,
     Destroy, Closed, QuitDecoder, QuitOutput, Join, StartPausing, CloseDecoder, HandShape
<1>2. Flowing /\ ~(Flowing') => BuffersBack
  BY DEF Control, Open, Play, Resume, ProceedDecoder, HandOut, HandOutDone, Pause,
     SuspendDecoder, SuspendOutput, Paused, SeekInPlace, SeekPlaying, SeekPaused, Close,
     Destroy, Closed, QuitDecoder, QuitOutput, Join, StartPausing, CloseDecoder, Flowing
<1>3. HandOut => Flowing'
  BY DEF HandOut, Flowing
<1>4. ~(Flowing') => AllHome'
  BY <1>0, <1>2, <1>3, BackMeansHome, TokensKeepHome DEF CallShape
<1>5. CallShape'
  <2>1. /\ (pc \in {"proceedDecoder", "handOut"} => status \in {"Stopped", "Paused"})'
        /\ (pc \in {"suspendDecoder", "suspendOutput", "waitBuffers"}
              => status = "Playing" \/ op \in {"Close", "Destroy"})'
        /\ (pc \in {"quitDecoder", "quitOutput", "join", "dead"} => status = "Closed")'
    BY <1>0 DEF Control, Open, Play, Resume, ProceedDecoder, HandOut, HandOutDone, Pause,
     SuspendDecoder, SuspendOutput, Paused, SeekInPlace, SeekPlaying, SeekPaused, Close,
     Destroy, Closed, QuitDecoder, QuitOutput, Join, StartPausing, CloseDecoder, CallShape
  <2> QED  BY <1>4, <2>1 DEF CallShape
<1>6. InFile'
  <2>1. CASE (\E n \in Unit : Open(n)) \/ Close \/ Destroy \/ Closed \/ QuitDecoder
             \/ QuitOutput \/ Join
    BY <1>0, <2>1 DEF Open, Close, Destroy, Closed, CloseDecoder, StartPausing, QuitDecoder,
       QuitOutput, Join, InFile, CallShape, Flowing
  <2>2. CASE \E beg, end \in Unit : Play(beg, end)
    BY <1>0, <2>2 DEF Play, InFile, Flowing
  <2>3. CASE Resume \/ ProceedDecoder \/ HandOut \/ HandOutDone
    BY <1>0, <2>3 DEF Resume, ProceedDecoder, HandOut, HandOutDone, InFile, Flowing
  <2>4. CASE Pause \/ SuspendDecoder \/ SuspendOutput \/ Paused
    BY <1>0, <2>4 DEF Pause, SuspendDecoder, SuspendOutput, Paused, StartPausing, BuffersBack,
       CallShape, InFile, Flowing
  <2>5. CASE SeekPaused
    BY <1>0, <2>5 DEF SeekPaused, DoSeekUnit, BuffersBack, CallShape, InFile, Flowing
  <2>6. CASE \E unit \in Unit : SeekInPlace(unit) \/ SeekPlaying(unit)
    BY <1>0, <2>6 DEF SeekInPlace, SeekPlaying, DoSeekUnit, StartPausing, InFile, Flowing
  <2> QED  BY <2>1, <2>2, <2>3, <2>4, <2>5, <2>6 DEF Control
<1> QED  BY <1>1, <1>5, <1>6

LEMMA WorkerShapes ==
  ASSUME SafeInv, DecoderThread \/ OutputThread \/ Finished
  PROVE  CallShape' /\ InFile' /\ HandShape'
<1> USE DEF control, range, codec, decoder, output
<1>0. TypeOK /\ CallShape /\ InFile /\ HandShape /\ NoDuplicate
  BY DEF SafeInv
<1>1. UNCHANGED <<status, pc, op, unitEnd, total>>
  BY DEF DecoderThread, OutputThread, DecoderTake, DecoderBounce, Decode, DecoderSend,
     OutputTake, OutputBounce, Write, OutputSend, Finished
<1>2. decoderMailbox # <<>> => Head(decoderMailbox) \in DecoderMail
  BY <1>0, TailHeld DEF TypeOK
<1>3. outputMailbox # <<>> => Head(outputMailbox) \in OutputMail
  BY <1>0, TailHeld DEF TypeOK
<1>4. HandShape'
  BY <1>0, <1>2, <1>3, MailShape DEF DecoderThread, OutputThread, DecoderTake, DecoderBounce,
     Decode, DecoderSend, OutputTake, OutputBounce, Write, OutputSend, Finished, HandShape
<1>5. AllHome => AllHome'
  <2> SUFFICES ASSUME AllHome PROVE AllHome'
    OBVIOUS
  <2>1. CASE DecoderTake
    <3>1. Held(decoderMailbox) = Held(Tail(decoderMailbox))
                                  \cup ({Head(decoderMailbox).buffer} \ {NoBuffer})
      BY <1>0, <2>1, TailHeld DEF DecoderTake, TypeOK
    <3>2. Head(decoderMailbox).action # "DECODE"
      BY <1>2, <2>1, <3>1, MailShape DEF DecoderTake, AllHome
    <3> QED  BY <2>1, <3>1, <3>2 DEF DecoderTake, AllHome
  <2>2. CASE OutputTake
    <3>1. Held(outputMailbox) = Held(Tail(outputMailbox))
                                 \cup ({Head(outputMailbox).buffer} \ {NoBuffer})
      BY <1>0, <2>2, TailHeld DEF OutputTake, TypeOK
    <3>2. Head(outputMailbox).action # "OUTPUT"
      BY <1>3, <2>2, <3>1, MailShape DEF OutputTake, AllHome
    <3> QED  BY <2>2, <3>1, <3>2 DEF OutputTake, AllHome
  <2>3. CASE DecoderBounce \/ (\E n \in Batch : Decode(n)) \/ DecoderSend
             \/ OutputBounce \/ Write \/ OutputSend
    BY <1>0, <2>3 DEF DecoderBounce, Decode, DecoderSend, OutputBounce, Write, OutputSend,
       HandShape, AllHome
  <2>4. CASE Finished
    BY <2>4 DEF Finished, AllHome
  <2> QED  BY <2>1, <2>2, <2>3, <2>4 DEF DecoderThread, OutputThread
<1>6. CallShape'
  BY <1>0, <1>1, <1>5 DEF CallShape, Flowing
<1>7. InFile'
  <2>1. Flowing => codecPos' = decoderIndex'
    BY <1>0 DEF InFile, DecoderThread, OutputThread, DecoderTake, DecoderBounce, Decode,
       DecoderSend, OutputTake, OutputBounce, Write, OutputSend, Finished
  <2> QED  BY <1>0, <1>1, <2>1 DEF InFile, Flowing
<1> QED  BY <1>4, <1>6, <1>7

LEMMA SafeInit == Init => SafeInv
<1> SUFFICES ASSUME Init PROVE SafeInv
  OBVIOUS
<1>1. TypeOK
  BY BufferCountAssumption, MaxUnitAssumption DEF Init, TypeOK, Unit
<1>2. Held(<<>>) = {} /\ Distinct(<<>>)
  BY DEF Held, Distinct
<1> QED
  BY <1>1, <1>2 DEF Init, SafeInv, CallShape, InFile, HandShape, NoDuplicate, NoneLost,
     AllHome, Flowing, NoBuffer

LEMMA SafeStep == SafeInv /\ [Next]_vars => SafeInv'
<1> SUFFICES ASSUME SafeInv, [Next]_vars PROVE SafeInv'
  OBVIOUS
<1>0. TypeOK /\ CallShape /\ InFile /\ HandShape
  BY DEF SafeInv
<1>1. CASE Control
  BY <1>0, <1>1, ControlTypes, ControlOwners, ControlShapes DEF SafeInv
<1>2. CASE DecoderThread \/ OutputThread \/ Finished
  BY <1>0, <1>2, WorkerTypes, WorkerOwners, WorkerShapes DEF SafeInv
<1>3. CASE UNCHANGED vars
  BY <1>3 DEF SafeInv, TypeOK, CallShape, InFile, HandShape, NoDuplicate, NoneLost, Flowing,
     AllHome, vars, control, range, codec, decoder, output
<1> QED  BY <1>1, <1>2, <1>3 DEF Next

-----------------------------------------------------------------------------

(* Every variable of the player keeps its type, whatever the interleaving  *)
(* of calls and workers: in particular a decoder that is asked for units   *)
(* is never past the end of its file.                                      *)
THEOREM TypeCorrect == Spec => []TypeOK
<1>1. SafeInv => TypeOK
  BY DEF SafeInv
<1> QED  BY <1>1, SafeInit, SafeStep, PTL DEF Spec

(* No buffer is ever in two places, and none of an open player is lost.    *)
THEOREM BuffersConserved == Spec => [](NoDuplicate /\ NoneLost)
<1>1. SafeInv => NoDuplicate /\ NoneLost
  BY DEF SafeInv
<1> QED  BY <1>1, SafeInit, SafeStep, PTL DEF Spec

(* When the control thread touches the indices, the codec or the buffers'  *)
(* memory, no worker has or will get a buffer: no lock is needed there.    *)
THEOREM ControlIsAlone == Spec => []WorkersAtRest
<1>1. SafeInv => WorkersAtRest
  <2> SUFFICES ASSUME SafeInv, ControlOwns PROVE AllHome
    BY DEF WorkersAtRest
  <2>1. TypeOK /\ CallShape /\ NoDuplicate
    BY DEF SafeInv
  <2> QED  BY <2>1, BackMeansHome DEF ControlOwns, CallShape, Flowing
<1> QED  BY <1>1, SafeInit, SafeStep, PTL DEF Spec

-----------------------------------------------------------------------------
(* The order of what is played.                                            *)

(* The mails of the output thread, one by one.                             *)
LEMMA OutputMails ==
  ASSUME TypeOK, NoDuplicate
  PROVE  /\ DOMAIN outputMailbox = 1 .. Len(outputMailbox) /\ Len(outputMailbox) \in Nat
         /\ \A i \in DOMAIN outputMailbox : IsOutput(i) =>
              /\ outputMailbox[i].buffer \in Buffer
              /\ outputMailbox[i].buffer \notin {dBuf, oBuf}
<1>1. outputMailbox \in Seq(OutputMail)
  BY DEF TypeOK
<1>2. DOMAIN outputMailbox = 1 .. Len(outputMailbox) /\ Len(outputMailbox) \in Nat
  BY <1>1
<1>3. ASSUME NEW i \in DOMAIN outputMailbox, IsOutput(i)
      PROVE  /\ outputMailbox[i].buffer \in Buffer
             /\ outputMailbox[i].buffer \notin {dBuf, oBuf}
  <2>1. outputMailbox[i] \in OutputMail
    BY <1>1, <1>2, ElementOfSeq
  <2>2. outputMailbox[i].buffer \in Buffer
    BY <1>3, <2>1, MailShape DEF IsOutput
  <2>3. outputMailbox[i].buffer \in Held(outputMailbox)
    BY <2>2, MailShape DEF Held
  <2> QED  BY <2>2, <2>3 DEF NoDuplicate
<1> QED  BY <1>2, <1>3

(* A step that leaves the pipeline from the decoder's end on alone.        *)
LEMMA ChainKept ==
  ASSUME Chained, dPc = "send" <=> dPc' = "send", dPc' = "send" => UNCHANGED dBuf,
         UNCHANGED <<unitEnd, decoderIndex, outputIndex, content, outputMailbox, output>>
  PROVE  Chained'
BY DEF Chained, DecoderEnd, Links, OutputHand, OutputEnd, MayPlay, IsOutput, First, End,
   AfterOutput, BeforeDecoder, output

LEMMA ChainStarts ==
  ASSUME SafeInv, ProceedDecoder
  PROVE  Chained'
<1>1. AllHome /\ HandShape /\ TypeOK /\ NoDuplicate
  BY DEF SafeInv, CallShape, Flowing, ProceedDecoder
<1>2. \A i \in DOMAIN outputMailbox : ~IsOutput(i)
  BY <1>1, OutputMails, MailShape DEF AllHome, Held
<1> QED
  BY <1>1, <1>2 DEF ProceedDecoder, HandShape, AllHome, Chained, DecoderEnd, Links,
     OutputHand, OutputEnd, MayPlay, IsOutput, AfterOutput, BeforeDecoder, output, decoder

LEMMA ChainSuspended ==
  ASSUME SafeInv, Chained, SuspendOutput
  PROVE  Chained'
<1> DEFINE n == Len(outputMailbox)
<1>1. TypeOK /\ NoDuplicate
  BY DEF SafeInv
<1>2. /\ Len(outputMailbox') = n + 1 /\ n \in Nat
      /\ DOMAIN outputMailbox = 1 .. n /\ DOMAIN outputMailbox' = 1 .. n + 1
      /\ outputMailbox'[1].action = "SUSPEND"
      /\ \A i \in 1 .. n : outputMailbox'[i + 1] = outputMailbox[i]
  <2>1. outputMailbox \in Seq(OutputMail) /\ Token("SUSPEND") \in OutputMail
        /\ Token("SUSPEND").buffer = NoBuffer
    BY <1>1, MailTypes DEF TypeOK
  <2>2. outputMailbox' = PushFront(Token("SUSPEND"), outputMailbox)
    BY DEF SuspendOutput
  <2> QED  BY <2>1, <2>2, PushFrontHeld DEF Token
<1>3. \A i \in 1 .. n + 1 : i = 1 \/ (i - 1 \in 1 .. n /\ outputMailbox'[i] = outputMailbox[i - 1])
  BY <1>2
<1>4. UNCHANGED <<unitEnd, decoderIndex, outputIndex, content, dPc, dBuf, oPc, oBuf, oStatus>>
  BY DEF SuspendOutput, range, decoder, output
<1>5. DecoderEnd'
  BY <1>4 DEF Chained, DecoderEnd, First, End
<1>6. Links'
  <2> SUFFICES ASSUME NEW i \in DOMAIN outputMailbox', outputMailbox'[i].action = "OUTPUT"
               PROVE  /\ content'[outputMailbox'[i].buffer].from < unitEnd'
                      /\ \A j \in DOMAIN outputMailbox' :
                           i < j => outputMailbox'[j].action = "OUTPUT"
                      /\ i + 1 \in DOMAIN outputMailbox' =>
                           First(outputMailbox[i + 1].buffer)'
                             = End(outputMailbox[i].buffer)'
                      /\ i + 1 \notin DOMAIN outputMailbox' =>
                           End(outputMailbox[i].buffer)' = BeforeDecoder'
    BY DEF Links, IsOutput, First
  <2> DEFINE k == i - 1
  <2>1. k \in 1 .. n /\ outputMailbox'[i] = outputMailbox[k] /\ IsOutput(k)
    BY <1>2, <1>3 DEF IsOutput
  <2>2. \A j \in DOMAIN outputMailbox' : i < j =>
          j - 1 \in 1 .. n /\ k < j - 1 /\ outputMailbox'[j] = outputMailbox[j - 1]
    BY <1>2, <1>3, <2>1
  <2>3. \A j \in DOMAIN outputMailbox' : i < j => outputMailbox'[j].action = "OUTPUT"
    BY <1>2, <2>1, <2>2 DEF Chained, Links, IsOutput
  <2>4. First(outputMailbox[k].buffer) < unitEnd
    BY <1>2, <2>1 DEF Chained, Links
  <2>5. CASE i + 1 \in DOMAIN outputMailbox'
    <3>1. k + 1 \in 1 .. n /\ outputMailbox'[i + 1] = outputMailbox[k + 1]
      BY <1>2, <2>1, <2>5
    <3>2. First(outputMailbox[k + 1].buffer) = End(outputMailbox[k].buffer)
      BY <1>2, <2>1, <3>1 DEF Chained, Links
    <3> QED  BY <1>4, <2>1, <2>3, <2>4, <2>5, <3>1, <3>2 DEF First, End
  <2>6. CASE i + 1 \notin DOMAIN outputMailbox'
    <3>1. k + 1 \notin 1 .. n
      BY <1>2, <2>1, <2>6
    <3>2. End(outputMailbox[k].buffer) = BeforeDecoder
      BY <1>2, <2>1, <3>1 DEF Chained, Links
    <3> QED  BY <1>4, <2>1, <2>3, <2>4, <2>6, <3>2 DEF First, End, BeforeDecoder
  <2> QED  BY <2>5, <2>6
<1>7. MayPlay' <=> MayPlay
  BY <1>2, <1>3, <1>4 DEF MayPlay
<1>8. OutputHand'
  <2>1. oBuf # NoBuffer =>
          \A i \in DOMAIN outputMailbox' : outputMailbox'[i].action # "PROCEED"
    BY <1>2, <1>3 DEF Chained, OutputHand
  <2>2. ASSUME oBuf' # NoBuffer, oPc' = "hold"
        PROVE  First(oBuf)' < unitEnd' /\ (MayPlay' => First(oBuf)' = outputIndex')
    <3>1. First(oBuf) < unitEnd /\ (MayPlay => First(oBuf) = outputIndex)
      BY <1>4, <2>2 DEF Chained, OutputHand
    <3>2. First(oBuf)' = First(oBuf)
      BY <1>4 DEF First
    <3> QED  BY <1>4, <1>7, <3>1, <3>2
  <2> QED  BY <1>4, <2>1, <2>2 DEF OutputHand
<1>9. OutputEnd'
  <2> SUFFICES ASSUME (MayPlay \/ oPc = "hold")'
               PROVE  /\ \A i \in DOMAIN outputMailbox' :
                           (/\ outputMailbox'[i].action = "OUTPUT"
                            /\ \A j \in DOMAIN outputMailbox' :
                                 j < i => outputMailbox'[j].action # "OUTPUT")
                             => First(outputMailbox[i].buffer)' = AfterOutput'
                      /\ (\A i \in DOMAIN outputMailbox' : outputMailbox'[i].action # "OUTPUT")
                           => AfterOutput' = BeforeDecoder'
    BY DEF OutputEnd, IsOutput
  <2>1. MayPlay \/ oPc = "hold"
    BY <1>4, <1>7
  <2>2. AfterOutput' = AfterOutput /\ BeforeDecoder' = BeforeDecoder
    BY <1>4 DEF AfterOutput, BeforeDecoder, First, End
  <2>3. ASSUME NEW i \in DOMAIN outputMailbox', outputMailbox'[i].action = "OUTPUT",
               \A j \in DOMAIN outputMailbox' : j < i => outputMailbox'[j].action # "OUTPUT"
        PROVE  First(outputMailbox[i].buffer)' = AfterOutput'
    <3> DEFINE k == i - 1
    <3>1. k \in 1 .. n /\ outputMailbox'[i] = outputMailbox[k] /\ IsOutput(k)
      BY <1>2, <1>3, <2>3 DEF IsOutput
    <3>2. \A j \in 1 .. n : j < k => ~IsOutput(j)
      <4> SUFFICES ASSUME NEW j \in 1 .. n, j < k PROVE ~IsOutput(j)
        OBVIOUS
      <4>1. j + 1 \in DOMAIN outputMailbox' /\ j + 1 < i
        BY <1>2
      <4> QED  BY <1>2, <2>3, <4>1 DEF IsOutput
    <3>3. First(outputMailbox[k].buffer) = AfterOutput
      BY <1>2, <2>1, <3>1, <3>2 DEF Chained, OutputEnd
    <3> QED  BY <1>4, <2>2, <3>1, <3>3 DEF First
  <2>4. ASSUME \A i \in DOMAIN outputMailbox' : outputMailbox'[i].action # "OUTPUT"
        PROVE  AfterOutput' = BeforeDecoder'
    <3>1. \A i \in 1 .. n : ~IsOutput(i)
      <4> SUFFICES ASSUME NEW i \in 1 .. n PROVE ~IsOutput(i)
        OBVIOUS
      <4>1. i + 1 \in DOMAIN outputMailbox'
        BY <1>2
      <4> QED  BY <1>2, <2>4, <4>1 DEF IsOutput
    <3> QED  BY <1>2, <2>1, <2>2, <3>1 DEF Chained, OutputEnd
  <2> QED  BY <2>3, <2>4
<1> QED  BY <1>5, <1>6, <1>8, <1>9 DEF Chained

LEMMA ChainDecoderIdle ==
  ASSUME SafeInv, Chained, DecoderTake \/ DecoderBounce
  PROVE  Chained'
<1>1. /\ dPc # "send" /\ dPc' # "send"
      /\ UNCHANGED <<unitEnd, decoderIndex, outputIndex, content, outputMailbox, output>>
  BY DEF DecoderTake, DecoderBounce, range
<1> QED  BY <1>1, ChainKept

(* Decoding fills the hand with the units that come next.                  *)
LEMMA ChainDecoded ==
  ASSUME SafeInv, Chained, NEW n \in Batch, Decode(n)
  PROVE  Chained'
<1> DEFINE units == IF codecPos + n > total THEN total - codecPos ELSE n
<1>0. TypeOK /\ NoDuplicate /\ HandShape /\ InFile /\ CallShape
  BY DEF SafeInv
<1>1. dBuf \in Buffer /\ codecPos = decoderIndex /\ oBuf # dBuf
  <2>1. dBuf \in Buffer /\ dBuf # NoBuffer
    BY <1>0, MailShape DEF Decode, HandShape, TypeOK
  <2>2. Flowing
    BY <1>0, <2>1 DEF CallShape, AllHome
  <2> QED  BY <1>0, <2>1, <2>2 DEF InFile, NoDuplicate
<1>2. /\ dPc = "hold" /\ dPc' = "send" /\ decoderIndex < unitEnd
      /\ decoderIndex' = decoderIndex + units
      /\ content' = [content EXCEPT ![dBuf] = [from |-> decoderIndex, count |-> units]]
      /\ UNCHANGED <<unitEnd, outputIndex, outputMailbox, dBuf, oPc, oBuf, oStatus>>
  BY <1>1 DEF Decode, range, output
<1>3. /\ content'[dBuf].from = decoderIndex /\ content'[dBuf].count = units
      /\ \A b \in Buffer : b # dBuf => content'[b] = content[b]
  BY <1>0, <1>1, <1>2 DEF TypeOK
<1>4. DecoderEnd'
  BY <1>2, <1>3 DEF DecoderEnd, First, End
<1>5. BeforeDecoder' = BeforeDecoder
  BY <1>2, <1>3 DEF BeforeDecoder, First
<1>6. \A i \in DOMAIN outputMailbox : IsOutput(i) =>
        /\ First(outputMailbox[i].buffer)' = First(outputMailbox[i].buffer)
        /\ End(outputMailbox[i].buffer)' = End(outputMailbox[i].buffer)
  BY <1>0, <1>2, <1>3, OutputMails DEF First, End
<1>7. oPc = "hold" => First(oBuf)' = First(oBuf) /\ End(oBuf)' = End(oBuf)
  BY <1>0, <1>1, <1>2, <1>3 DEF HandShape, TypeOK, First, End
<1>8. AfterOutput' = AfterOutput /\ (MayPlay' <=> MayPlay)
  BY <1>2, <1>7 DEF AfterOutput, MayPlay
<1>9. Links'
  <2> SUFFICES ASSUME NEW i \in DOMAIN outputMailbox, IsOutput(i)
               PROVE  /\ First(outputMailbox[i].buffer)' < unitEnd
                      /\ \A j \in DOMAIN outputMailbox : i < j => IsOutput(j)
                      /\ i + 1 \in DOMAIN outputMailbox =>
                           First(outputMailbox[i + 1].buffer)'
                             = End(outputMailbox[i].buffer)'
                      /\ i + 1 \notin DOMAIN outputMailbox =>
                           End(outputMailbox[i].buffer)' = BeforeDecoder'
    BY <1>2 DEF Links, IsOutput
  <2>1. i + 1 \in DOMAIN outputMailbox => IsOutput(i + 1)
    BY <1>0, OutputMails DEF Chained, Links
  <2> QED  BY <1>5, <1>6, <2>1 DEF Chained, Links
<1>10. OutputHand'
  BY <1>2, <1>7, <1>8 DEF Chained, OutputHand
<1>11. OutputEnd'
  <2>1. \A i \in DOMAIN outputMailbox : IsOutput(i)' <=> IsOutput(i)
    BY <1>2 DEF IsOutput
  <2> QED  BY <1>2, <1>5, <1>6, <1>8, <2>1 DEF Chained, OutputEnd
<1> QED  BY <1>4, <1>9, <1>10, <1>11 DEF Chained

LEMMA ChainSent ==
  ASSUME SafeInv, Chained, DecoderSend
  PROVE  Chained'
<1> DEFINE n == Len(outputMailbox)
<1>0. TypeOK /\ NoDuplicate /\ HandShape
  BY DEF SafeInv
<1>1. /\ dPc = "send" /\ dPc' = "take" /\ dBuf \in Buffer
      /\ UNCHANGED <<unitEnd, decoderIndex, outputIndex, content, oPc, oBuf, oStatus>>
  BY <1>0 DEF DecoderSend, HandShape, TypeOK, range, output
<1>2. /\ n \in Nat /\ DOMAIN outputMailbox = 1 .. n /\ DOMAIN outputMailbox' = 1 .. n + 1
      /\ outputMailbox'[n + 1].action = "OUTPUT" /\ outputMailbox'[n + 1].buffer = dBuf
      /\ \A i \in 1 .. n : outputMailbox'[i] = outputMailbox[i]
  <2>1. outputMailbox \in Seq(OutputMail) /\ Mail("OUTPUT", dBuf) \in OutputMail
    BY <1>0, <1>1, MailTypes DEF TypeOK
  <2>2. outputMailbox' = Append(outputMailbox, Mail("OUTPUT", dBuf))
    BY DEF DecoderSend
  <2> QED  BY <2>1, <2>2, AppendProperties DEF Mail
<1>3. /\ First(dBuf) = BeforeDecoder /\ End(dBuf) = decoderIndex /\ BeforeDecoder' = decoderIndex
      /\ First(dBuf) < unitEnd
  BY <1>1 DEF Chained, DecoderEnd, BeforeDecoder
<1>4. \A b : First(b)' = First(b) /\ End(b)' = End(b)
  BY <1>1 DEF First, End
<1>5. \A i \in 1 .. n : IsOutput(i)' <=> IsOutput(i)
  BY <1>2 DEF IsOutput
<1>6. \A i \in 1 .. n + 1 : i = n + 1 => IsOutput(i)'
  BY <1>2 DEF IsOutput
<1>7. DecoderEnd'
  BY <1>1 DEF DecoderEnd
<1>8. AfterOutput' = AfterOutput /\ (MayPlay' <=> MayPlay)
  <2>1. (\E i \in DOMAIN outputMailbox' : outputMailbox'[i].action = "PROCEED")
          <=> \E i \in DOMAIN outputMailbox : outputMailbox[i].action = "PROCEED"
    BY <1>2
  <2> QED  BY <1>1, <1>4, <2>1 DEF AfterOutput, MayPlay, First, End
<1>9. Links'
  <2> SUFFICES ASSUME NEW i \in 1 .. n + 1, IsOutput(i)'
               PROVE  /\ First(outputMailbox[i].buffer)' < unitEnd'
                      /\ \A j \in 1 .. n + 1 : i < j => IsOutput(j)'
                      /\ i + 1 \in 1 .. n + 1 =>
                           First(outputMailbox[i + 1].buffer)'
                             = End(outputMailbox[i].buffer)'
                      /\ i + 1 \notin 1 .. n + 1 =>
                           End(outputMailbox[i].buffer)' = BeforeDecoder'
    BY <1>2 DEF Links
  <2>1. CASE i = n + 1
    <3>1. First(outputMailbox[i].buffer)' = First(dBuf) /\ End(outputMailbox[i].buffer)' = End(dBuf)
      BY <1>1, <1>2, <2>1 DEF First, End
    <3> QED  BY <1>1, <1>2, <1>3, <2>1, <3>1
  <2>2. CASE i \in 1 .. n
    <3>1. /\ First(outputMailbox[i].buffer)' = First(outputMailbox[i].buffer)
          /\ End(outputMailbox[i].buffer)' = End(outputMailbox[i].buffer)
      BY <1>1, <1>2, <2>2 DEF First, End
    <3>2. /\ First(outputMailbox[i].buffer) < unitEnd
          /\ \A j \in 1 .. n : i < j => IsOutput(j)
      BY <1>2, <1>5, <2>2 DEF Chained, Links
    <3>3. \A j \in 1 .. n + 1 : i < j => IsOutput(j)'
      BY <1>2, <1>5, <1>6, <3>2
    <3>4. First(outputMailbox[i + 1].buffer)' = End(outputMailbox[i].buffer)'
      <4>1. CASE i = n
        <5>1. End(outputMailbox[i].buffer) = BeforeDecoder
          BY <1>2, <1>5, <2>2, <4>1 DEF Chained, Links
        <5>2. First(outputMailbox[i + 1].buffer)' = First(dBuf)
          BY <1>1, <1>2, <4>1 DEF First
        <5> QED  BY <1>3, <3>1, <5>1, <5>2
      <4>2. CASE i < n
        <5>1. i + 1 \in 1 .. n
          BY <1>2, <2>2, <4>2
        <5>2. First(outputMailbox[i + 1].buffer) = End(outputMailbox[i].buffer)
          BY <1>2, <1>5, <2>2, <5>1 DEF Chained, Links
        <5> QED  BY <1>1, <1>2, <3>1, <5>1, <5>2 DEF First
      <4>3. n \in Nat
        BY <1>2
      <4>4. i = n \/ i < n
        BY <2>2, <4>3
      <4> QED  BY <4>1, <4>2, <4>4
    <3>5. n \in Nat /\ ~(i + 1 \notin 1 .. n + 1)
      <4>1. n \in Nat
        BY <1>2
      <4> QED  BY <2>2, <4>1
    <3> QED  BY <1>1, <3>1, <3>2, <3>3, <3>4, <3>5
  <2> QED  BY <1>2, <2>1, <2>2
<1>10. OutputHand'
  <2>1. oBuf # NoBuffer =>
          \A i \in DOMAIN outputMailbox' : outputMailbox'[i].action # "PROCEED"
    BY <1>2 DEF Chained, OutputHand
  <2>2. First(oBuf)' = First(oBuf)
    BY <1>1 DEF First
  <2> QED  BY <1>1, <1>8, <2>1, <2>2 DEF Chained, OutputHand
<1>11. OutputEnd'
  <2> SUFFICES ASSUME (MayPlay \/ oPc = "hold")',
                      NEW i \in 1 .. n + 1, IsOutput(i)', \A j \in 1 .. n + 1 : j < i => ~IsOutput(j)'
               PROVE  First(outputMailbox[i].buffer)' = AfterOutput'
    <3>1. n + 1 \in 1 .. n + 1
      BY <1>2
    <3> QED  BY <1>2, <1>6, <3>1 DEF OutputEnd
  <2>1. MayPlay \/ oPc = "hold"
    BY <1>1, <1>8
  <2>2. CASE i = n + 1
    <3>1. \A j \in DOMAIN outputMailbox : ~IsOutput(j)
      BY <1>2, <1>5, <2>2
    <3>2. AfterOutput = BeforeDecoder
      BY <2>1, <3>1 DEF Chained, OutputEnd
    <3>3. First(outputMailbox[i].buffer)' = First(dBuf)
      BY <1>1, <1>2, <2>2 DEF First
    <3> QED  BY <1>3, <1>8, <3>2, <3>3
  <2>3. CASE i \in 1 .. n
    <3>1. First(outputMailbox[i].buffer) = AfterOutput
      BY <1>2, <1>5, <2>1, <2>3 DEF Chained, OutputEnd
    <3> QED  BY <1>1, <1>2, <1>8, <2>3, <3>1 DEF First
  <2> QED  BY <1>2, <2>2, <2>3
<1> QED  BY <1>7, <1>9, <1>10, <1>11 DEF Chained

LEMMA ChainTaken ==
  ASSUME SafeInv, Chained, OutputTake
  PROVE  Chained'
<1> DEFINE n == Len(outputMailbox)
           mail == outputMailbox[1]
<1>0. TypeOK /\ NoDuplicate /\ HandShape
  BY DEF SafeInv
<1>1. /\ oPc = "take" /\ oBuf = NoBuffer
      /\ UNCHANGED <<unitEnd, decoderIndex, outputIndex, content, dPc, dBuf>>
  BY <1>0 DEF OutputTake, HandShape, range, decoder
<1>2. /\ n \in Nat \ {0} /\ DOMAIN outputMailbox = 1 .. n /\ DOMAIN outputMailbox' = 1 .. n - 1
      /\ mail = Head(outputMailbox) /\ mail \in OutputMail
      /\ \A i \in 1 .. n - 1 : i + 1 \in 1 .. n /\ outputMailbox'[i] = outputMailbox[i + 1]
  <2>1. outputMailbox \in Seq(OutputMail) /\ outputMailbox # <<>>
        /\ outputMailbox' = Tail(outputMailbox)
    BY <1>0 DEF OutputTake, TypeOK
  <2> QED  BY <2>1
<1>3. \A i \in 2 .. n : i - 1 \in 1 .. n - 1 /\ outputMailbox'[i - 1] = outputMailbox[i]
  BY <1>2
<1>4. \A b : First(b)' = First(b) /\ End(b)' = End(b)
  BY <1>1 DEF First, End
<1>5. BeforeDecoder' = BeforeDecoder
  BY <1>1 DEF BeforeDecoder, First
<1>6. DecoderEnd'
  BY <1>1 DEF Chained, DecoderEnd, First, End
<1>7. Links'
  <2> SUFFICES ASSUME NEW i \in 1 .. n - 1, IsOutput(i)'
               PROVE  /\ First(outputMailbox[i].buffer)' < unitEnd'
                      /\ \A j \in 1 .. n - 1 : i < j => IsOutput(j)'
                      /\ i + 1 \in 1 .. n - 1 =>
                           First(outputMailbox[i + 1].buffer)'
                             = End(outputMailbox[i].buffer)'
                      /\ i + 1 \notin 1 .. n - 1 =>
                           End(outputMailbox[i].buffer)' = BeforeDecoder'
    BY <1>2 DEF Links
  <2>1. i + 1 \in 1 .. n /\ IsOutput(i + 1) /\ outputMailbox'[i] = outputMailbox[i + 1]
    BY <1>2 DEF IsOutput
  <2>2. \A j \in 1 .. n - 1 : i < j => IsOutput(j)'
    <3> SUFFICES ASSUME NEW j \in 1 .. n - 1, i < j PROVE IsOutput(j)'
      OBVIOUS
    <3>1. j + 1 \in 1 .. n /\ i + 1 < j + 1
      BY <1>2
    <3> QED  BY <1>2, <2>1, <3>1 DEF Chained, Links, IsOutput
  <2>3. /\ First(outputMailbox[i].buffer)' = First(outputMailbox[i + 1].buffer)
        /\ End(outputMailbox[i].buffer)' = End(outputMailbox[i + 1].buffer)
        /\ First(outputMailbox[i + 1].buffer) < unitEnd
    BY <1>1, <1>2, <2>1 DEF First, End, Chained, Links
  <2>4. CASE i + 1 \in 1 .. n - 1
    <3>1. i + 1 + 1 \in 1 .. n /\ outputMailbox'[i + 1] = outputMailbox[i + 1 + 1]
      BY <1>2, <2>4
    <3>2. First(outputMailbox[i + 1 + 1].buffer) = End(outputMailbox[i + 1].buffer)
      BY <1>2, <2>1, <3>1 DEF Chained, Links
    <3>3. First(outputMailbox[i + 1].buffer)' = First(outputMailbox[i + 1 + 1].buffer)
      BY <1>1, <3>1 DEF First
    <3> QED  BY <1>1, <2>2, <2>3, <2>4, <3>2, <3>3
  <2>5. CASE i + 1 \notin 1 .. n - 1
    <3>1. i + 1 + 1 \notin 1 .. n
      BY <1>2, <2>5
    <3>2. End(outputMailbox[i + 1].buffer) = BeforeDecoder
      BY <1>2, <2>1, <3>1 DEF Chained, Links
    <3> QED  BY <1>1, <1>5, <2>2, <2>3, <2>5, <3>2
  <2> QED  BY <2>4, <2>5
<1>8. CASE mail.action = "OUTPUT"
  <2>1. /\ oPc' = "hold" /\ oBuf' = mail.buffer /\ oStatus' = oStatus
        /\ IsOutput(1) /\ 1 \in DOMAIN outputMailbox
    BY <1>2, <1>8 DEF OutputTake, IsOutput
  <2>2. \A i \in 1 .. n : IsOutput(i)
    <3> SUFFICES ASSUME NEW i \in 1 .. n, i # 1 PROVE IsOutput(i)
      BY <2>1
    <3> QED  BY <1>2, <2>1 DEF Chained, Links
  <2>3. \A i \in 1 .. n - 1 : IsOutput(i)'
    BY <1>2, <2>2 DEF IsOutput
  <2>4. ASSUME MayPlay' PROVE MayPlay /\ First(mail.buffer) = outputIndex
    <3>1. oStatus = "RUNNING"
      BY <1>2, <2>1, <2>3, <2>4 DEF MayPlay, IsOutput
    <3>2. MayPlay
      BY <3>1 DEF MayPlay
    <3>3. \A j \in DOMAIN outputMailbox : j < 1 => ~IsOutput(j)
      BY <1>2
    <3>4. First(outputMailbox[1].buffer) = AfterOutput
      BY <2>1, <3>2, <3>3 DEF Chained, OutputEnd
    <3> QED  BY <1>1, <3>2, <3>4 DEF AfterOutput
  <2>5. OutputHand'
    <3>1. First(mail.buffer) < unitEnd
      BY <2>1 DEF Chained, Links
    <3>2. First(oBuf)' = First(mail.buffer)
      BY <1>1, <2>1 DEF First
    <3> QED  BY <1>1, <1>2, <2>1, <2>3, <2>4, <3>1, <3>2 DEF OutputHand, IsOutput
  <2>6. AfterOutput' = End(mail.buffer)
    BY <1>1, <2>1 DEF AfterOutput, End
  <2>7. OutputEnd'
    <3>1. ASSUME NEW i \in 1 .. n - 1, \A j \in 1 .. n - 1 : j < i => ~(IsOutput(j)')
          PROVE  First(outputMailbox[i].buffer)' = AfterOutput'
      <4>1. i = 1
        <5>1. 1 \in 1 .. n - 1
          BY <1>2
        <5> QED  BY <1>2, <2>3, <3>1, <5>1
      <4>2. 1 + 1 \in DOMAIN outputMailbox /\ outputMailbox'[i] = outputMailbox[1 + 1]
        BY <1>2, <4>1
      <4>3. First(outputMailbox[1 + 1].buffer) = End(outputMailbox[1].buffer)
        BY <2>1, <4>2 DEF Chained, Links
      <4> QED  BY <1>1, <2>6, <4>2, <4>3 DEF First
    <3>2. ASSUME \A i \in 1 .. n - 1 : ~(IsOutput(i)')
          PROVE  AfterOutput' = BeforeDecoder'
      <4>1. 1 + 1 \notin DOMAIN outputMailbox
        BY <1>2, <2>3, <3>2
      <4>2. End(outputMailbox[1].buffer) = BeforeDecoder
        BY <2>1, <4>1 DEF Chained, Links
      <4> QED  BY <1>5, <2>6, <4>2
    <3> QED  BY <1>2, <3>1, <3>2 DEF OutputEnd
  <2> QED  BY <1>6, <1>7, <2>5, <2>7 DEF Chained
<1>9. CASE mail.action # "OUTPUT"
  <2>1. /\ ~IsOutput(1) /\ 1 \in DOMAIN outputMailbox
        /\ oPc' # "hold" /\ oBuf' = NoBuffer
        /\ oStatus' = "RUNNING" => oStatus = "RUNNING" \/ mail.action = "PROCEED"
    BY <1>1, <1>2, <1>9 DEF OutputTake, IsOutput
  <2>2. MayPlay' => MayPlay
    BY <1>2, <2>1 DEF MayPlay
  <2>3. AfterOutput' = AfterOutput
    BY <1>1, <2>1 DEF AfterOutput
  <2>4. OutputHand'
    BY <2>1 DEF OutputHand
  <2>5. OutputEnd'
    <3> SUFFICES ASSUME MayPlay'
                 PROVE  /\ \A i \in 1 .. n - 1 :
                             (IsOutput(i)' /\ \A j \in 1 .. n - 1 : j < i => ~(IsOutput(j)'))
                               => First(outputMailbox[i].buffer)' = AfterOutput'
                        /\ (\A i \in 1 .. n - 1 : ~(IsOutput(i)'))
                             => AfterOutput' = BeforeDecoder'
      BY <1>2, <2>1 DEF OutputEnd
    <3>1. ASSUME NEW i \in 1 .. n - 1, IsOutput(i)', \A j \in 1 .. n - 1 : j < i => ~(IsOutput(j)')
          PROVE  First(outputMailbox[i].buffer)' = AfterOutput'
      <4>1. i + 1 \in 1 .. n /\ IsOutput(i + 1) /\ outputMailbox'[i] = outputMailbox[i + 1]
        BY <1>2, <3>1 DEF IsOutput
      <4>2. \A j \in 1 .. n : j < i + 1 => ~IsOutput(j)
        <5> SUFFICES ASSUME NEW j \in 1 .. n, j < i + 1, j # 1 PROVE ~IsOutput(j)
          BY <2>1
        <5>1. j - 1 \in 1 .. n - 1 /\ j - 1 < i /\ outputMailbox'[j - 1] = outputMailbox[j]
          BY <1>2, <1>3
        <5> QED  BY <3>1, <5>1 DEF IsOutput
      <4>3. First(outputMailbox[i + 1].buffer) = AfterOutput
        BY <1>2, <2>2, <4>1, <4>2 DEF Chained, OutputEnd
      <4> QED  BY <1>1, <2>3, <4>1, <4>3 DEF First
    <3>2. ASSUME \A i \in 1 .. n - 1 : ~(IsOutput(i)')
          PROVE  AfterOutput' = BeforeDecoder'
      <4>1. \A j \in 1 .. n : ~IsOutput(j)
        <5> SUFFICES ASSUME NEW j \in 1 .. n, j # 1 PROVE ~IsOutput(j)
          BY <2>1
        <5>1. j - 1 \in 1 .. n - 1 /\ outputMailbox'[j - 1] = outputMailbox[j]
          BY <1>2, <1>3
        <5> QED  BY <3>2, <5>1 DEF IsOutput
      <4>2. AfterOutput = BeforeDecoder
        BY <1>2, <2>2, <4>1 DEF Chained, OutputEnd
      <4> QED  BY <1>5, <2>3, <4>2
    <3> QED  BY <3>1, <3>2
  <2> QED  BY <1>6, <1>7, <2>4, <2>5 DEF Chained
<1> QED  BY <1>8, <1>9

(* A running output thread that bounced would break the chain: it never    *)
(* has a buffer in hand at the end of the range.                           *)
LEMMA ChainOutput ==
  ASSUME SafeInv, Chained, OutputBounce \/ Write \/ OutputSend
  PROVE  Chained'
<1>0. HandShape /\ TypeOK
  BY DEF SafeInv
<1>1. /\ UNCHANGED <<unitEnd, decoderIndex, content, outputMailbox, dPc, dBuf>>
      /\ oBuf # NoBuffer /\ oPc' # "hold" /\ oBuf' \in {oBuf, NoBuffer}
      /\ oStatus' = "RUNNING" => oStatus = "RUNNING"
  BY <1>0 DEF OutputBounce, Write, OutputSend, HandShape, range, decoder
<1>2. \A i \in DOMAIN outputMailbox : outputMailbox[i].action # "PROCEED"
  BY <1>1 DEF Chained, OutputHand
<1>3. UNCHANGED BeforeDecoder /\ \A b : UNCHANGED <<First(b), End(b)>>
  BY <1>1 DEF BeforeDecoder, First, End
<1>4. \A i \in DOMAIN outputMailbox : IsOutput(i)' <=> IsOutput(i)
  BY <1>1 DEF IsOutput
<1>5. DecoderEnd'
  BY <1>1 DEF Chained, DecoderEnd, First, End
<1>6. Links'
  BY <1>1 DEF Chained, Links, IsOutput, First, End, BeforeDecoder
<1>7. OutputHand'
  BY <1>1, <1>2 DEF OutputHand
<1>8. MayPlay' => oStatus = "RUNNING" /\ MayPlay
  BY <1>1, <1>2 DEF MayPlay
<1>9. oStatus = "RUNNING" => AfterOutput' = AfterOutput
  <2> SUFFICES ASSUME oStatus = "RUNNING" PROVE AfterOutput' = AfterOutput
    OBVIOUS
  <2>1. oPc = "hold" => First(oBuf) = outputIndex /\ First(oBuf) < unitEnd
    BY <1>1 DEF Chained, OutputHand, MayPlay
  <2>2. ~OutputBounce
    <3> SUFFICES ASSUME OutputBounce PROVE FALSE
      OBVIOUS
    <3>1. outputIndex >= unitEnd /\ outputIndex < unitEnd
      BY <2>1 DEF OutputBounce
    <3> QED  BY <1>0, <3>1 DEF TypeOK, Unit
  <2>3. CASE Write
    BY <1>1, <2>1, <2>3 DEF Write, AfterOutput, First, End
  <2>4. CASE OutputSend
    BY <1>1, <2>4 DEF OutputSend, AfterOutput
  <2> QED  BY <2>2, <2>3, <2>4
<1>10. OutputEnd'
  <2> SUFFICES ASSUME MayPlay'
               PROVE  /\ \A i \in DOMAIN outputMailbox :
                           (IsOutput(i)' /\ \A j \in DOMAIN outputMailbox : j < i => ~(IsOutput(j)'))
                             => First(outputMailbox[i].buffer)' = AfterOutput'
                      /\ (\A i \in DOMAIN outputMailbox : ~(IsOutput(i)'))
                           => AfterOutput' = BeforeDecoder'
    BY <1>1 DEF OutputEnd
  <2>1. MayPlay /\ AfterOutput' = AfterOutput
    BY <1>8, <1>9
  <2>2. \A i \in DOMAIN outputMailbox :
          First(outputMailbox[i].buffer)' = First(outputMailbox[i].buffer)
    BY <1>1 DEF First
  <2>3. /\ \A i \in DOMAIN outputMailbox :
             (IsOutput(i) /\ \A j \in DOMAIN outputMailbox : j < i => ~IsOutput(j))
               => First(outputMailbox[i].buffer) = AfterOutput
        /\ (\A i \in DOMAIN outputMailbox : ~IsOutput(i)) => AfterOutput = BeforeDecoder
    BY <2>1 DEF Chained, OutputEnd
  <2> QED  BY <1>3, <1>4, <2>1, <2>2, <2>3
<1> QED  BY <1>5, <1>6, <1>7, <1>10 DEF Chained

LEMMA OrderStep == PlayerInv /\ [Next]_vars => OrderInv'
<1> SUFFICES ASSUME SafeInv, OrderInv, [Next]_vars, Flowing' PROVE Chained'
  BY DEF PlayerInv, OrderInv
<1> USE DEF control, range, codec, decoder, output, CallReady
<1>1. CASE ProceedDecoder
  BY <1>1, ChainStarts
<1>2. CASE Control /\ ~ProceedDecoder
  <2>1. Chained
    BY <1>2 DEF Control, Open, Play, Resume, HandOut, HandOutDone, Pause, SuspendDecoder,
       SuspendOutput, Paused, SeekInPlace, SeekPlaying, SeekPaused, Close, Destroy, Closed,
       QuitDecoder, QuitOutput, Join, StartPausing, CloseDecoder, Flowing, OrderInv,
       SafeInv, CallShape
  <2>2. CASE SuspendOutput
    BY <2>1, <2>2, ChainSuspended
  <2>3. CASE ~SuspendOutput
    <3>1. UNCHANGED <<unitEnd, decoderIndex, outputIndex, content, outputMailbox, decoder, output>>
      BY <1>2, <2>3 DEF Control, Open, Play, Resume, HandOut, HandOutDone, Pause,
         SuspendDecoder, Paused, SeekInPlace, SeekPlaying, SeekPaused, Close, Destroy, Closed,
         QuitDecoder, QuitOutput, Join, StartPausing, CloseDecoder, Flowing, SafeInv, CallShape
    <3> QED  BY <2>1, <3>1, ChainKept
  <2> QED  BY <2>2, <2>3
<1>3. CASE DecoderThread \/ OutputThread
  <2>1. Chained
    BY <1>3 DEF DecoderThread, OutputThread, DecoderTake, DecoderBounce, Decode, DecoderSend,
       OutputTake, OutputBounce, Write, OutputSend, Flowing, OrderInv
  <2> QED
    BY <1>3, <2>1, ChainDecoderIdle, ChainDecoded, ChainSent, ChainTaken, ChainOutput
       DEF DecoderThread, OutputThread
<1>4. CASE Finished \/ UNCHANGED vars
  BY <1>4, ChainKept DEF Finished, vars, Flowing, OrderInv
<1> QED  BY <1>1, <1>2, <1>3, <1>4 DEF Next

(* The inductive invariant: whatever the calls and the threads interleave, *)
(* every buffer is in one place, every wait can be served, and the units   *)
(* between the decoder's index and the output's are under way in order.    *)
THEOREM PlayerInvariant == Spec => []PlayerInv
<1>1. Init => PlayerInv
  BY SafeInit DEF Init, PlayerInv, OrderInv, Flowing
<1>2. PlayerInv /\ [Next]_vars => PlayerInv'
  BY SafeStep, OrderStep DEF PlayerInv
<1> QED  BY <1>1, <1>2, PTL DEF Spec

-----------------------------------------------------------------------------

(* What the output thread is about to play is the unit at its index, for   *)
(* any number of buffers: pausing, resuming and seeking neither skip nor   *)
(* repeat a unit.                                                          *)
THEOREM OrderIsKept == Spec => []PlaysInOrder
<1>1. PlayerInv => PlaysInOrder
  <2> SUFFICES ASSUME PlayerInv, oPc = "hold", oStatus = "RUNNING"
               PROVE  content[oBuf].from = outputIndex
    BY DEF PlaysInOrder
  <2>1. oBuf # NoBuffer /\ MayPlay /\ Flowing
    BY DEF PlayerInv, SafeInv, HandShape, CallShape, AllHome, MayPlay
  <2> QED  BY <2>1 DEF PlayerInv, OrderInv, Chained, OutputHand, First
<1> QED  BY <1>1, PlayerInvariant, PTL

LEMMA LeastOf ==
  ASSUME NEW T, T \subseteq Nat, T # {}
  PROVE  \E i \in T : \A j \in T : ~(j < i)
<1>1. PICK i \in T : \A j \in T : <<j, i>> \notin OpToRel(<, Nat)
  BY NatLessThanWellFounded, WFMin
<1>2. \A j \in T : ~(j < i)
  BY <1>1 DEF OpToRel
<1> QED  BY <1>2

(* SigFinished is emitted only when everything decoded has been played.    *)
THEOREM FinishIsLast == Spec => FinishAfterLast
<1>1. PlayerInv /\ [Next]_vars => (finishers' > finishers => outputIndex' = decoderIndex)
  <2> SUFFICES ASSUME PlayerInv, [Next]_vars, finishers' > finishers
               PROVE  outputIndex' = decoderIndex
    OBVIOUS
  <2>0. TypeOK /\ HandShape /\ NoDuplicate
    BY DEF PlayerInv, SafeInv
  <2>1. Write /\ outputIndex' >= unitEnd
    BY <2>0 DEF Next, Control, Open, Play, Resume, ProceedDecoder, HandOut, HandOutDone, Pause,
       SuspendDecoder, SuspendOutput, Paused, SeekInPlace, SeekPlaying, SeekPaused, Close,
       Destroy, Closed, QuitDecoder, QuitOutput, Join, StartPausing, CloseDecoder,
       DecoderThread, OutputThread, DecoderTake, DecoderBounce, Decode, DecoderSend,
       OutputTake, OutputBounce, Write, OutputSend, Finished, TypeOK, vars
  <2>2. oPc = "hold" /\ oBuf # NoBuffer /\ MayPlay /\ Flowing
    BY <2>0, <2>1 DEF Write, HandShape, MayPlay, PlayerInv, SafeInv, CallShape, AllHome
  <2>3. Chained
    BY <2>2 DEF PlayerInv, OrderInv
  <2>4. outputIndex' = End(oBuf) /\ AfterOutput = End(oBuf)
    BY <2>1, <2>2, <2>3 DEF Write, Chained, OutputHand, First, End, AfterOutput
  <2>5. outputIndex' \in Nat /\ unitEnd \in Nat /\ decoderIndex \in Nat
    <3>1. oBuf \in Buffer /\ content[oBuf].count \in Nat
      BY <2>0, <2>2 DEF TypeOK
    <3> QED  BY <2>0, <2>1, <3>1 DEF Write, TypeOK, Unit
  <2>6. \A i \in DOMAIN outputMailbox : ~IsOutput(i)
    <3> DEFINE T == {i \in DOMAIN outputMailbox : IsOutput(i)}
    <3> SUFFICES ASSUME T # {} PROVE FALSE
      OBVIOUS
    <3>1. T \subseteq Nat
      BY <2>0 DEF TypeOK
    <3>2. PICK i \in T : \A j \in T : ~(j < i)
      BY <3>1, LeastOf
    <3>3. First(outputMailbox[i].buffer) = AfterOutput
      BY <2>2, <2>3, <3>2 DEF Chained, OutputEnd
    <3>4. First(outputMailbox[i].buffer) < unitEnd
      BY <2>3, <3>2 DEF Chained, Links
    <3> QED  BY <2>1, <2>4, <2>5, <3>3, <3>4
  <2>7. outputIndex' = BeforeDecoder
    BY <2>2, <2>3, <2>4, <2>6 DEF Chained, OutputEnd
  <2>8. dPc # "send"
    BY <2>1, <2>3, <2>5, <2>7 DEF Chained, DecoderEnd, BeforeDecoder
  <2> QED  BY <2>7, <2>8 DEF BeforeDecoder
<1> QED  BY <1>1, PlayerInvariant, PTL DEF FinishAfterLast, Spec

(* A player that is closed, stopped or paused holds still between calls:   *)
(* its workers change no index, no buffer and no position of the codec.    *)
THEOREM HeldStill == Spec => HoldsStill
<1>1. SafeInv /\ [Next]_vars =>
        (pc = "idle" /\ status # "Playing" /\ (DecoderThread \/ OutputThread)
           => UNCHANGED <<decoderIndex, outputIndex, codec, content, bufferMailbox>>)
  <2> SUFFICES ASSUME SafeInv, pc = "idle", status # "Playing", DecoderThread \/ OutputThread
               PROVE  UNCHANGED <<decoderIndex, outputIndex, codec, content, bufferMailbox>>
    OBVIOUS
  <2>1. dPc \notin {"hold", "send"} /\ oPc \notin {"hold", "send"}
    BY DEF SafeInv, CallShape, Flowing, AllHome, HandShape
  <2>2. DecoderTake \/ OutputTake
    BY <2>1 DEF DecoderThread, OutputThread, DecoderBounce, Decode, DecoderSend, OutputBounce,
       Write, OutputSend
  <2> QED  BY <2>2 DEF DecoderTake, OutputTake
<1> QED  BY <1>1, SafeInit, SafeStep, PTL DEF HoldsStill, Spec

-----------------------------------------------------------------------------
(* The player as its caller knows it.                                      *)

(* A call of the control thread is a call of Playback, at its first or its *)
(* last step; the steps between are invisible.                             *)
LEMMA ControlPromised ==
  ASSUME SafeInv, Control
  PROVE  Promise!Next \/ UNCHANGED Promise!vars
<1> USE DEF Promise!Next, Promise!vars
<1>1. TypeOK /\ CallShape
  BY DEF SafeInv
<1>2. ASSUME NEW n \in Unit, Open(n) PROVE Promise!Open
  BY <1>2 DEF Open, CallReady, Promise!Open, CallStatus
<1>3. ASSUME NEW beg \in Unit, NEW end \in Unit, Play(beg, end)
      PROVE  \E some \in BOOLEAN : Promise!Play(some)
  <2>1. Promise!Play(TRUE) \/ Promise!Play(FALSE)
    BY <1>3 DEF Play, CallReady, range, Promise!Play, CallStatus
  <2> QED  BY <2>1
<1>4. ASSUME Resume PROVE Promise!Resume
  BY <1>4 DEF Resume, CallReady, range, Promise!Resume, CallStatus
<1>5. ASSUME NEW unit \in Unit, SeekInPlace(unit)
      PROVE  Promise!Next \/ UNCHANGED Promise!vars
  <2>1. /\ status' = status /\ pc' = pc /\ pc = "idle" /\ finishers' = finishers
        /\ status \in {"Paused", "Stopped"}
    BY <1>5 DEF SeekInPlace, CallReady, control
  <2>2. CASE status = "Paused"
    <3>1. Promise!Seek(TRUE) \/ Promise!Seek(FALSE)
      BY <2>1, <2>2 DEF Promise!Seek, CallStatus
    <3> QED  BY <3>1
  <2>3. CASE status = "Stopped"
    BY <2>1, <2>3 DEF CallStatus
  <2> QED  BY <2>1, <2>2, <2>3
<1>6. ASSUME SeekPaused PROVE Promise!Next
  <2>1. status = "Playing"
    BY <1>1, <1>6 DEF SeekPaused, BuffersBack, CallShape
  <2>2. Promise!Seek(TRUE) \/ Promise!Seek(FALSE)
    BY <1>6, <2>1 DEF SeekPaused, BuffersBack, Promise!Seek, CallStatus
  <2> QED  BY <2>2
<1>7. ASSUME Paused PROVE Promise!Pause
  <2>1. status = "Playing"
    BY <1>1, <1>7 DEF Paused, BuffersBack, CallShape
  <2> QED  BY <1>7, <2>1 DEF Paused, BuffersBack, range, Promise!Pause, CallStatus
<1>8. ASSUME CloseDecoder("Close") \/ CloseDecoder("Destroy"),
             pc \in {"idle", "waitBuffers"}
      PROVE  Promise!Close \/ UNCHANGED Promise!vars
  <2>1. status' = "Closed" /\ pc' \in {"idle", "quitDecoder"} /\ finishers' = finishers
    BY <1>8 DEF CloseDecoder
  <2>2. CASE status = "Closed"
    BY <1>8, <2>1, <2>2 DEF CallStatus
  <2>3. CASE status # "Closed"
    BY <1>8, <2>1, <2>3 DEF Promise!Close, CallStatus
  <2> QED  BY <2>2, <2>3
<1>9. ASSUME NEW call, StartPausing(call), pc = "idle"
      PROVE  UNCHANGED Promise!vars
  BY <1>9 DEF StartPausing, range, CallStatus
<1>10. ASSUME ProceedDecoder \/ HandOut \/ HandOutDone \/ SuspendDecoder \/ SuspendOutput
                \/ QuitDecoder \/ QuitOutput \/ Join
       PROVE  UNCHANGED Promise!vars
  BY <1>10 DEF ProceedDecoder, HandOut, HandOutDone, SuspendDecoder, SuspendOutput,
     QuitDecoder, QuitOutput, Join, control, range, CallStatus
<1>11. Closed => CloseDecoder("Close") \/ CloseDecoder("Destroy")
  BY DEF Closed
<1> QED  BY <1>2, <1>3, <1>4, <1>5, <1>6, <1>7, <1>8, <1>9, <1>10, <1>11
         DEF Control, SeekPlaying, Pause, Close, Destroy, Closed, BuffersBack, CallReady

(* A worker's step is invisible, but for the one that plays the last unit. *)
LEMMA WorkersPromised ==
  ASSUME SafeInv, DecoderThread \/ OutputThread
  PROVE  Promise!PlayOut \/ UNCHANGED Promise!vars
<1>1. CASE DecoderThread
  BY <1>1 DEF DecoderThread, DecoderTake, DecoderBounce, Decode, DecoderSend, control, range,
     CallStatus, Promise!vars
<1>2. CASE OutputTake \/ OutputBounce \/ OutputSend
  BY <1>2 DEF OutputTake, OutputBounce, OutputSend, control, range, CallStatus, Promise!vars
<1>3. CASE Write
  <2>1. CallStatus = "Playing"
    BY <1>3 DEF Write, SafeInv, CallShape, HandShape, Flowing, AllHome, CallStatus
  <2>2. CallStatus' = CallStatus /\ unitEnd' = unitEnd /\ outputIndex < unitEnd
    BY <1>3 DEF Write, control, range, CallStatus
  <2>3. outputIndex' \in Nat /\ unitEnd \in Nat
    <3>1. oBuf \in Buffer
      BY <1>3 DEF Write, SafeInv, TypeOK, HandShape
    <3>2. content[oBuf].count \in Nat /\ outputIndex \in Nat /\ unitEnd \in Nat
      BY <3>1 DEF SafeInv, TypeOK, Unit
    <3> QED  BY <1>3, <3>2 DEF Write
  <2>4. CASE outputIndex' >= unitEnd
    BY <1>3, <2>1, <2>2, <2>3, <2>4 DEF Write, Promise!PlayOut
  <2>5. CASE ~(outputIndex' >= unitEnd)
    BY <1>3, <2>1, <2>2, <2>3, <2>5 DEF Write, Promise!vars
  <2> QED  BY <2>4, <2>5
<1> QED  BY <1>1, <1>2, <1>3 DEF OutputThread

(* The player implements Playback: threads, mailboxes and buffers keep the *)
(* promise that a finish is signalled exactly when a playing player comes  *)
(* to the end of its range.                                                *)
THEOREM KeepsPromise == Spec => ImplementsPlayback
<1>1. Init => Promise!Init
  BY DEF Init, Promise!Init, CallStatus
<1>2. SafeInv /\ [Next]_vars => [Promise!Next]_Promise!vars
  <2> SUFFICES ASSUME SafeInv, [Next]_vars
               PROVE  Promise!Next \/ UNCHANGED Promise!vars
    OBVIOUS
  <2>1. CASE Control
    BY <2>1, ControlPromised
  <2>2. CASE DecoderThread \/ OutputThread
    BY <2>2, WorkersPromised DEF Promise!Next
  <2>3. CASE Finished
    BY <2>3 DEF Finished, control, range, CallStatus, Promise!Next, Promise!Finished
  <2>4. CASE UNCHANGED vars
    BY <2>4 DEF vars, control, range, CallStatus, Promise!vars
  <2> QED  BY <2>1, <2>2, <2>3, <2>4 DEF Next
<1> QED  BY <1>1, <1>2, SafeInit, SafeStep, PTL DEF Spec, ImplementsPlayback, Promise!Spec
=============================================================================
