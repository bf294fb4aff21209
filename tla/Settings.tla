------------------------------ MODULE Settings ------------------------------
(***************************************************************************)
(* A configuration (sdk/scx/Config.h): lines that are blank, a comment, or *)
(* a key and its value, built and edited in memory, written as text and    *)
(* read from text, as the terminal client does with its own at the start   *)
(* (apps/ncurses/AppEnv.cc).  A character is a short string; a blank and a *)
(* tab are one.                                                            *)
(***************************************************************************)
EXTENDS Integers, SequencesExt

CONSTANTS
  Keys, Texts,    \* keys, and texts of comments and values
  LineBound       \* lines of a configuration

VARIABLES
  lines,     \* m_lines
  newline    \* newline_

settings == <<lines, newline>>

LF == <<"lf">>
CRLF == <<"cr", "lf">>
Space == <<"space">>
CommentSign == <<"#">>
Delimiter == <<"=">>

Blank == [type |-> "blank"]
Comment(w) == [type |-> "comment", comment |-> w]
KeyValue(k, w) == [type |-> "keyvalue", key |-> k, value |-> w]

Line == {Blank} \cup {Comment(w) : w \in Texts} \cup {KeyValue(k, w) : k \in Keys, w \in Texts}

-----------------------------------------------------------------------------
(* Writing and measuring.                                                  *)
LineText(l) ==
  CASE l.type = "blank" -> <<>>
    [] l.type = "comment" -> CommentSign \o Space \o l.comment
    [] l.type = "keyvalue" -> l.key \o Delimiter \o l.value

TextOf(ls, nl) == FoldLeft(LAMBDA text, l : text \o LineText(l) \o nl, <<>>, ls)

CountBytes(ls, nl) ==
  FoldLeft(
    LAMBDA n, l :
      n + Len(nl) +
        CASE l.type = "blank" -> 0
          [] l.type = "comment" -> Len(CommentSign) + Len(Space) + Len(l.comment)
          [] l.type = "keyvalue" -> Len(l.key) + Len(Delimiter) + Len(l.value),
    0, ls)

-----------------------------------------------------------------------------
(* Reading.                                                                *)
Trim(text) ==
  LET kept == {i \in DOMAIN text : text[i] # Space[1]}
  IN IF kept = {} THEN <<>> ELSE SubSeq(text, Min(kept), Max(kept))

(* The lines that end in one of the two newlines, whichever comes first; a *)
(* last line without one is left out.                                      *)
Split(text) ==
  LET Starts(begin, nl) == {i \in begin .. Len(text) - Len(nl) + 1 : SubSeq(text, i, i + Len(nl) - 1) = nl}
      from[begin \in 1 .. Len(text) + 1] ==
        LET found == {<<i, Len(LF)>> : i \in Starts(begin, LF)}
                       \cup {<<i, Len(CRLF)>> : i \in Starts(begin, CRLF)}
            first == CHOOSE f \in found : \A g \in found : f[1] <= g[1]
        IN IF found = {} THEN <<>>
           ELSE <<SubSeq(text, begin, first[1] - 1)>> \o from[first[1] + first[2]]
  IN from[1]

Malformed == [type |-> "malformed"]

(* Mutant of Parsed: the last delimiter is the one.                        *)
ParsedLast(line) ==
  LET text == Trim(line)
      places == {i \in DOMAIN text : text[i] = Delimiter[1]}
  IN IF text = <<>> THEN Blank
     ELSE IF IsPrefix(CommentSign, text) THEN Comment(Trim(Tail(text)))
     ELSE IF places = {} THEN Malformed
     ELSE KeyValue(Trim(SubSeq(text, 1, Max(places) - 1)),
                   Trim(SubSeq(text, Max(places) + Len(CommentSign), Len(text))))

Parsed(line) ==
  LET text == Trim(line)
      places == {i \in DOMAIN text : text[i] = Delimiter[1]}
  IN IF text = <<>> THEN Blank
     ELSE IF IsPrefix(CommentSign, text) THEN Comment(Trim(Tail(text)))
     ELSE IF places = {} THEN Malformed
     ELSE KeyValue(Trim(SubSeq(text, 1, Min(places) - 1)),
                   Trim(SubSeq(text, Min(places) + Len(CommentSign), Len(text))))

(* A malformed line throws.                                                *)
Parse(text) == LET split == Split(text) IN [k \in DOMAIN split |-> Parsed(split[k])]

Throws(text) == \E k \in DOMAIN Parse(text) : Parse(text)[k] = Malformed

-----------------------------------------------------------------------------
(* Asking.                                                                 *)
OfType(ls, type) == SelectSeq(ls, LAMBDA l : l.type = type)

CountLines(ls, type) == Len(OfType(ls, type))

HasKey(ls, k) == \E i \in DOMAIN ls : ls[i].type = "keyvalue" /\ ls[i].key = k

KeysOf(ls) == LET kv == OfType(ls, "keyvalue") IN [i \in DOMAIN kv |-> kv[i].key]

(* config[key] is the value in the first line with the key.                *)
At(ls, k) == Min({i \in DOMAIN ls : ls[i].type = "keyvalue" /\ ls[i].key = k})

Value(ls, k) == ls[At(ls, k)].value

-----------------------------------------------------------------------------
Init == lines = <<>> /\ newline \in {LF, CRLF}

Concat(line) ==
  /\ Len(lines) < LineBound /\ lines' = Append(lines, line) /\ UNCHANGED newline

SetValue(k, w) ==
  /\ HasKey(lines, k) /\ lines' = [lines EXCEPT ![At(lines, k)].value = w]
  /\ UNCHANGED newline

RemoveLine(i) == lines' = RemoveAt(lines, i) /\ UNCHANGED newline

RemoveKeyValue(k) ==
  /\ lines' = SelectSeq(lines, LAMBDA l : ~(l.type = "keyvalue" /\ l.key = k))
  /\ UNCHANGED newline

StripLines(type) == lines' = SelectSeq(lines, LAMBDA l : l.type # type) /\ UNCHANGED newline

Clear == lines' = <<>> /\ UNCHANGED newline

(* Written to a file and read again by the next start.                     *)
Reload == lines' = Parse(TextOf(lines, newline)) /\ UNCHANGED newline

Next ==
  \/ \E line \in Line : Concat(line)
  \/ \E k \in Keys : RemoveKeyValue(k) \/ \E w \in Texts : SetValue(k, w)
  \/ \E i \in DOMAIN lines : RemoveLine(i)
  \/ \E type \in {"blank", "comment", "keyvalue"} : StripLines(type)
  \/ Clear \/ Reload

Spec == Init /\ [][Next]_settings

-----------------------------------------------------------------------------
(* With blanks before and after every line and around every delimiter.     *)
Sloppy(l) ==
  IF l.type = "keyvalue" THEN Space \o l.key \o Space \o Delimiter \o Space \o l.value \o Space
  ELSE Space \o LineText(l) \o Space

SloppyText(ls, nl) == FoldLeft(LAMBDA text, l : text \o Sloppy(l) \o nl, <<>>, ls)

(* What is read is what was written, whatever was edited before, in either *)
(* newline and with any blanks around; of a file of which only the first   *)
(* bytes were written, the first lines are read, each whole or not at all, *)
(* and none throws; the size that is announced is the size of the text; and*)
(* the keys that are listed are those that have a value.                   *)
SettingsInv ==
  LET text == TextOf(lines, newline)
  IN /\ CountBytes(lines, newline) = Len(text)
     /\ Parse(text) = lines /\ Parse(SloppyText(lines, newline)) = lines
     /\ \A n \in 0 .. Len(text) :
          LET cut == SubSeq(text, 1, n)
          IN IsPrefix(Parse(cut), lines) /\ ~Throws(cut)
     /\ \A k \in Keys :
          HasKey(lines, k) = (k \in ToSet(KeysOf(lines)))
     /\ CountLines(lines, "blank") + CountLines(lines, "comment") + CountLines(lines, "keyvalue") = Len(lines)

=============================================================================
