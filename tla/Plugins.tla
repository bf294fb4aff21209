------------------------------ MODULE Plugins ------------------------------
(***************************************************************************)
(* How plug-ins are found, and which of them is used for a file:           *)
(* PluginFinder.h, Plugin.h, and the tables of the player (PlayerImpl.h),  *)
(* of the converter (ConverterImpl.h), of the loader of media              *)
(* (MediaLoaderImpl.h) and of the tag editor (TagParserFactoryImpl.h).     *)
(*                                                                         *)
(* A directory lists its entries in an order of its own, and a table keeps *)
(* the first that claims a key.  So what is found for a file could depend  *)
(* on that order, and differ between those who ask.                        *)
(***************************************************************************)
EXTENDS Integers, Sequences, FiniteSets

CONSTANTS
  Plugin,       \* the plug-ins, as regular files
  Dir,          \* the directories
  Entries,      \* Entries[d]: what there is in directory d
  Root,         \* the one that is searched
  Type,         \* Type[p]: a set of "Decoder", "Encoder", "Output", "TagParser", "FormatProbe"
  SuffixesOf, Encodings,  \* what p says it is for
  Bad,          \* those whose interface cannot be made
  NoPlugin,
  File          \* files: [suffix, encoding]

VARIABLES
  fifo,       \* listings not gone through; the order within one is open
  probes, decoders, output,  \* of the player
  conv,       \* the decoders of the converter
  tags,       \* tag parsers of the loader
  parsers,    \* and of the tag editor's factory
  inUse,      \* the player's decoder, and for which file
  counts,     \* plug-ins that the application has counted: needed to start
  stage       \* "finding", "ready", "unloaded"

vars == <<fifo, probes, decoders, output, conv, tags, parsers, inUse, counts, stage>>

AllSuffix == UNION {SuffixesOf[p] : p \in Plugin}
AllEncoding == UNION {Encodings[p] : p \in Plugin}
Keys == ({"suffix"} \X AllSuffix) \cup ({"encoding"} \X AllEncoding)

Unclaimed(keys) == [k \in keys |-> NoPlugin]
Nothing == [plugin |-> NoPlugin, file |-> [suffix |-> "", encoding |-> ""]]

Init ==
  /\ fifo = <<{Root}>> /\ stage = "finding" /\ counts = {}
  /\ probes = Unclaimed(AllSuffix) /\ decoders = Unclaimed(Keys) /\ output = NoPlugin
  /\ conv = Unclaimed(AllSuffix) /\ tags = Unclaimed(AllSuffix) /\ parsers = Unclaimed(AllSuffix)
  /\ inUse = Nothing

-----------------------------------------------------------------------------
(* Finding.                                                                *)

(* The first that claims a key has it.                                     *)
Claimed(table, keys, p) ==
  [k \in DOMAIN table |-> IF k \in keys /\ table[k] = NoPlugin /\ p \notin Bad THEN p ELSE table[k]]

LoadFormatProbePlugin(p) == probes' = Claimed(probes, SuffixesOf[p], p)

(* Mutant of LoadDecoderPlugin: encodings are entered as suffixes.         *)
LoadDecoderPluginMixed(p) ==
  decoders' = Claimed(decoders, {"suffix"} \X (SuffixesOf[p] \cup Encodings[p]), p)

LoadDecoderPlugin(p) ==
  decoders' = Claimed(decoders, ({"suffix"} \X SuffixesOf[p]) \cup ({"encoding"} \X Encodings[p]), p)

LoadConverterDecoder(p) == conv' = Claimed(conv, SuffixesOf[p], p)

(* The last output is the one, whether it can be made or not.              *)
LoadOutputPlugin(p) == output' = p

LoadLoaderTagParser(p) == tags' = Claimed(tags, SuffixesOf[p], p)
LoadFactoryTagParser(p) == parsers' = Claimed(parsers, SuffixesOf[p], p)

(* The callbacks of the three applications: a plug-in may be of more than  *)
(* one type.                                                               *)
OnPlugin(p) ==
  /\ IF "FormatProbe" \in Type[p] THEN LoadFormatProbePlugin(p) ELSE UNCHANGED probes
  /\ IF "Decoder" \in Type[p] THEN LoadDecoderPlugin(p) /\ LoadConverterDecoder(p) ELSE UNCHANGED <<decoders, conv>>
  /\ IF "Output" \in Type[p] THEN LoadOutputPlugin(p) ELSE UNCHANGED output
  /\ IF "TagParser" \in Type[p] THEN LoadLoaderTagParser(p) /\ LoadFactoryTagParser(p) ELSE UNCHANGED <<tags, parsers>>
  /\ counts' = counts \cup Type[p]

(* An entry is taken from the oldest listing; a directory's own entries    *)
(* come last.                                                              *)
Rest(e) ==
  LET left == Head(fifo) \ {e} IN IF left = {} THEN Tail(fifo) ELSE <<left>> \o Tail(fifo)

Run ==
  /\ stage = "finding" /\ fifo # <<>>
  /\ \E e \in Head(fifo) :
       \/ /\ e \in Plugin
          /\ fifo' = Rest(e) /\ OnPlugin(e)
       \/ /\ e \in Dir
          /\ fifo' = IF Entries[e] = {} THEN Rest(e) ELSE Append(Rest(e), Entries[e])
          /\ UNCHANGED <<probes, decoders, output, conv, tags, parsers, counts>>
  /\ UNCHANGED <<inUse, stage>>

(* The service and the command line player do not start without a decoder  *)
(* and an output.                                                          *)
Found ==
  /\ stage = "finding" /\ fifo = <<>>
  /\ stage' = IF {"Decoder", "Output"} \subseteq counts THEN "ready" ELSE "unloaded"
  /\ UNCHANGED <<fifo, probes, decoders, output, conv, tags, parsers, inUse, counts>>

-----------------------------------------------------------------------------
(* Looking up.                                                             *)

Entry(table, k) == IF k \in DOMAIN table THEN table[k] ELSE NoPlugin

(* What the probe makes of a file's contents, if there is one for its      *)
(* suffix and it knows them.                                               *)
Detected(f) == IF Entry(probes, f.suffix) # NoPlugin /\ f.encoding \in {"aac", "alac"} THEN f.encoding ELSE ""

(* The player asks for the encoding first, then for the suffix.            *)
DecoderFor(f) ==
  LET byEncoding == Entry(decoders, <<"encoding", Detected(f)>>)
  IN IF byEncoding # NoPlugin THEN byEncoding ELSE Entry(decoders, <<"suffix", f.suffix>>)

(* The converter for the suffix only.                                      *)
ConverterFor(f) == Entry(conv, f.suffix)

(* Both tables of tag parsers have a parser for all other files.           *)
TagParserIn(table, f) == IF Entry(table, f.suffix) # NoPlugin THEN table[f.suffix] ELSE Entry(table, "*")

(* A decoder that is not for the encoding fails to open the file; so may   *)
(* any, and so does the setup of the output.                               *)
Open(f) ==
  /\ stage = "ready" /\ inUse = Nothing
  /\ DecoderFor(f) # NoPlugin /\ f.encoding \in Encodings[DecoderFor(f)] /\ output \notin Bad \cup {NoPlugin}
  /\ inUse' = [plugin |-> DecoderFor(f), file |-> f]
  /\ UNCHANGED <<fifo, probes, decoders, output, conv, tags, parsers, counts, stage>>

Close ==
  /\ inUse # Nothing /\ inUse' = Nothing
  /\ UNCHANGED <<fifo, probes, decoders, output, conv, tags, parsers, counts, stage>>

(* All tables are emptied when the application ends; the player closes     *)
(* what it has open.                                                       *)
UnloadPlugin ==
  /\ stage = "ready" /\ stage' = "unloaded"
  /\ probes' = Unclaimed(AllSuffix) /\ decoders' = Unclaimed(Keys) /\ output' = NoPlugin
  /\ conv' = Unclaimed(AllSuffix) /\ tags' = Unclaimed(AllSuffix) /\ parsers' = Unclaimed(AllSuffix)
  /\ inUse' = Nothing
  /\ UNCHANGED <<fifo, counts>>

Next == Run \/ Found \/ (\E f \in File : Open(f)) \/ Close \/ UnloadPlugin

Spec == Init /\ [][Next]_vars

-----------------------------------------------------------------------------
(* Properties.                                                             *)

Good(type) == {p \in Plugin \ Bad : type \in Type[p]}

(* Whatever the order of the listings, a file whose encoding is detected is*)
(* played by a decoder of that encoding if there is one, and any other by  *)
(* one that claims its suffix.                                             *)
RightDecoder ==
  stage = "ready" =>
    \A f \in File :
      LET able == {p \in Good("Decoder") : Detected(f) \in Encodings[p]}
          claiming == {p \in Good("Decoder") : f.suffix \in SuffixesOf[p]}
      IN IF able # {} THEN DecoderFor(f) \in able
         ELSE IF claiming # {} THEN DecoderFor(f) \in claiming ELSE DecoderFor(f) = NoPlugin

(* What a file is converted with is what it is played with, where one      *)
(* suffix stands for one encoding; an m4a file may be given to a decoder   *)
(* for the other kind.  The editor of tags uses the parser that read them. *)
SameForAll ==
  stage = "ready" =>
    \A f \in File :
      /\ (\A g \in File : g.suffix = f.suffix => g.encoding = f.encoding) /\ Detected(f) = ""
           => ConverterFor(f) = DecoderFor(f)
      /\ TagParserIn(tags, f) = TagParserIn(parsers, f)

PluginsInv == RightDecoder /\ SameForAll
=============================================================================
