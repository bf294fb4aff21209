---------------------------- MODULE PartsProofs ----------------------------
(***************************************************************************)
(* What the run of MCParts checks of the loading of files, LoadingInv, of  *)
(* the handlers of events, HandlersInv, and of the terminal, TerminalInv,  *)
(* for all loaders, sheets, plug-ins, directories, files, slots, lists,    *)
(* encoders, heights and names: the inductive invariants of the loader of  *)
(* media, of the finder of plug-ins, of the editor of tags, of a signal, of*)
(* the command line player, of the dialogs before a conversion, of the     *)
(* layers of the screen, of the view of a list, of the explorer and of the *)
(* order of names, and their proofs.                                       *)
(***************************************************************************)
EXTENDS MCParts, SequenceTheorems, FiniteSetTheorems, TLAPS

-----------------------------------------------------------------------------
(* The loader of media.                                                    *)

Texts ==
  {Blank} \cup {TagOf[f].title : f \in Audio} \cup {TagOf[f].artist : f \in Audio}
    \cup UNION {UNION {{Sheet[s][i].title, Sheet[s][i].artist} : i \in DOMAIN Sheet[s]} : s \in DOMAIN Sheet}
Row == [url : Audio, title : Texts, artist : Texts, duration : {-1, 0, 1}]

MediaTypes ==
  /\ locked \in BOOLEAN /\ crashed \in BOOLEAN /\ mingled \in [Loader -> BOOLEAN]
  /\ self \in [ref : Audio \cup {Blank}, tag : Audio \cup {Blank}]
  /\ pc \in [Loader -> M!Steps \cup {"idle"}] /\ loaded \in [Loader -> Seq(Row)]
  /\ reading \in [Loader -> Nat \ {0}] /\ loading \in [Loader -> M!Path \cup {Blank}]

(* The parser is closed when nobody loads.  Who loads and has not met      *)
(* another loads alone; under the mutex, all do.                           *)
AloneInv ==
  /\ self.ref = Blank => self = M!Closed
  /\ M!Loading = {} => self = M!Closed
  /\ \A t \in M!Loading : ~mingled[t] => M!Loading = {t}
  /\ locked => \A t \in Loader : ~mingled[t]

(* A list has the tracks of what was asked for.                            *)
Asked(t) == M!TryUnpack(loading[t])

AskedInv ==
  \A t \in Loader :
    /\ loading[t] # Blank =>
         /\ Len(loaded[t]) = Len(Asked(t))
         /\ \A i \in 1 .. Len(loaded[t]) : loaded[t][i].url = Asked(t)[i].url
    /\ pc[t] # "idle" => loading[t] # Blank /\ reading[t] <= Len(loaded[t])

(* The item that is loaded, and the parser, as far as the loader has come. *)
TagIn(f) == IF TagOf[f] = Untagged THEN [title |-> Blank, artist |-> Blank] ELSE TagOf[f]
TitleOwn(i, s) == i.title = (IF s.title # Blank THEN s.title ELSE TagIn(i.url).title)
ArtistOwn(i, s) == i.artist = (IF s.artist # Blank THEN s.artist ELSE TagIn(i.url).artist)

ItemInv(at, i, s) ==
  /\ at = "open" => i = s /\ self = M!Closed
  /\ at = "title" => i = s /\ self.tag = i.url /\ TagOf[i.url] # Untagged
  /\ at = "artist" => TitleOwn(i, s) /\ i.artist = s.artist /\ self.tag = i.url /\ TagOf[i.url] # Untagged
  /\ at = "duration" =>
       TitleOwn(i, s) /\ ArtistOwn(i, s) /\ self.tag = (IF TagOf[i.url] = Untagged THEN Blank ELSE i.url)
  /\ at = "close" => M!Own(i, s)
  /\ at # "open" => self.ref = i.url

(* Those before it have their tags, those after it what the sheet says.    *)
OwnList(t) ==
  ~mingled[t] =>
    /\ pc[t] = "idle" /\ loading[t] # Blank => \A i \in 1 .. Len(loaded[t]) : M!Own(loaded[t][i], Asked(t)[i])
    /\ pc[t] # "idle" =>
         /\ \A i \in 1 .. Len(loaded[t]) :
              /\ i < reading[t] => M!Own(loaded[t][i], Asked(t)[i])
              /\ i > reading[t] => loaded[t][i] = Asked(t)[i]
         /\ ItemInv(pc[t], loaded[t][reading[t]], Asked(t)[reading[t]])

ListInv == \A t \in Loader : OwnList(t)

MediaInv == MediaTypes /\ AloneInv /\ AskedInv /\ ListInv

(* What is unpacked from a path is a list of tracks of files (TryUnpack).  *)
LEMMA Unpacked == \A p \in M!Path : M!TryUnpack(p) \in Seq(Row)
<1> SUFFICES ASSUME NEW p \in M!Path PROVE M!TryUnpack(p) \in Seq(Row)
  OBVIOUS
<1>1. CASE p \in Audio
  <2>1. [url |-> p, title |-> Blank, artist |-> Blank, duration |-> -1] \in Row
    BY <1>1 DEF Row, Texts
  <2> QED BY <1>1, <2>1 DEF M!TryUnpack
<1>2. CASE p \notin Audio
  <2>1. p \in DOMAIN Sheet
    BY <1>2 DEF M!Path
  <2>2. Len(Sheet[p]) \in Nat /\ DOMAIN Sheet[p] = 1 .. Len(Sheet[p])
    BY <2>1, MediaAssumption
  <2> DEFINE R(i) == [url |-> Sheet[p][i].url, title |-> Sheet[p][i].title, artist |-> Sheet[p][i].artist, duration |-> -1]
  <2>3. ASSUME NEW i \in DOMAIN Sheet[p] PROVE R(i) \in Row
    <3>1. Sheet[p][i].url \in Audio
      BY <2>1, MediaAssumption
    <3>2. Sheet[p][i].title \in Texts /\ Sheet[p][i].artist \in Texts
      BY <2>1 DEF Texts
    <3> QED BY <3>1, <3>2 DEF Row
  <2>4. M!TryUnpack(p) = [i \in 1 .. Len(Sheet[p]) |-> R(i)]
    BY <1>2, <2>2 DEF M!TryUnpack, M!DumpFile
  <2> HIDE DEF R
  <2> QED BY <2>2, <2>3, <2>4
<1> QED BY <1>1, <1>2

(* A tag and a file without one, as the property sees them (Own).          *)
LEMMA OwnIs ==
  ASSUME NEW i, NEW s
  PROVE  M!Own(i, s) <=>
           /\ TitleOwn(i, s) /\ ArtistOwn(i, s)
           /\ i.duration = (IF TagOf[i.url] = Untagged THEN 0 ELSE 1)
BY DEF M!Own, TitleOwn, ArtistOwn, TagIn

(* In the beginning nobody has loaded (Init).                              *)
LEMMA MediaStarts == M!Init => MediaInv
<1> SUFFICES ASSUME M!Init PROVE MediaInv
  OBVIOUS
<1> USE DEF M!Init
<1>1. MediaTypes
  <2>1. <<>> \in Seq(Row)
    OBVIOUS
  <2>2. loaded \in [Loader -> Seq(Row)] /\ reading \in [Loader -> Nat \ {0}]
    BY <2>1
  <2>3. pc \in [Loader -> M!Steps \cup {"idle"}] /\ loading \in [Loader -> M!Path \cup {Blank}]
    OBVIOUS
  <2>4. mingled \in [Loader -> BOOLEAN] /\ crashed \in BOOLEAN /\ locked \in BOOLEAN
    OBVIOUS
  <2>5. self \in [ref : Audio \cup {Blank}, tag : Audio \cup {Blank}]
    BY DEF M!Closed
  <2> QED BY <2>2, <2>3, <2>4, <2>5 DEF MediaTypes
<1>2. AloneInv
  BY DEF AloneInv, M!Loading, M!Steps
<1>3. AskedInv /\ ListInv
  BY DEF AskedInv, ListInv, OwnList
<1> QED BY <1>1, <1>2, <1>3 DEF MediaInv

(* A loader begins (Start).                                                *)
LEMMA StartKeeps ==
  ASSUME MediaInv, NEW t \in Loader, NEW p \in M!Path, M!Start(t, p)
  PROVE  MediaInv'
<1> USE DEF MediaInv
<1> DEFINE S == M!TryUnpack(p)
<1>1. S \in Seq(Row) /\ p # Blank
  BY Unpacked, MediaAssumption DEF M!Path
<1>2. /\ pc[t] = "idle" /\ (locked => M!Loading \ {t} = {})
      /\ loading' = [loading EXCEPT ![t] = p] /\ crashed' = (p \in Damaged)
      /\ loaded' = [loaded EXCEPT ![t] = S] /\ reading' = [reading EXCEPT ![t] = 1]
      /\ pc' = [pc EXCEPT ![t] = IF S = <<>> THEN "idle" ELSE "open"]
      /\ mingled' = [u \in Loader |-> IF u = t THEN M!Loading # {} ELSE mingled[u] \/ u \in M!Loading]
      /\ UNCHANGED <<locked, self>>
  BY DEF M!Start, M!MayStart
<1> HIDE DEF S
<1>3. MediaTypes'
  <2>1. loaded' \in [Loader -> Seq(Row)] /\ reading' \in [Loader -> Nat \ {0}]
    BY <1>1, <1>2 DEF MediaTypes
  <2>2. pc' \in [Loader -> M!Steps \cup {"idle"}] /\ loading' \in [Loader -> M!Path \cup {Blank}]
    BY <1>2 DEF MediaTypes, M!Steps
  <2>3. mingled' \in [Loader -> BOOLEAN]
    BY <1>2, Zenon DEF MediaTypes
  <2>4. crashed' \in BOOLEAN /\ locked' \in BOOLEAN
    BY <1>2 DEF MediaTypes
  <2>5. self' \in [ref : Audio \cup {Blank}, tag : Audio \cup {Blank}]
    BY <1>2 DEF MediaTypes
  <2> QED BY <2>1, <2>2, <2>3, <2>4, <2>5 DEF MediaTypes, M!Path, M!Steps, Row, Texts
<1>4. t \notin M!Loading /\ (M!Loading' = IF S = <<>> THEN M!Loading ELSE M!Loading \cup {t})
  BY <1>1, <1>2 DEF M!Loading, M!Steps, MediaTypes
<1>5. AloneInv'
  <2>1. (self.ref = Blank => self = M!Closed)'
    BY <1>2 DEF AloneInv, M!Closed
  <2>2. (M!Loading = {} => self = M!Closed)'
    BY <1>2, <1>4 DEF AloneInv, M!Closed
  <2>3. ASSUME NEW u \in M!Loading', ~mingled'[u] PROVE M!Loading' = {u}
    <3>1. CASE u = t
      BY <1>2, <1>4, <2>3, <3>1 DEF M!Loading
    <3>2. CASE u # t
      BY <1>2, <1>4, <2>3, <3>2 DEF M!Loading
    <3> QED BY <3>1, <3>2
  <2>4. ASSUME locked', NEW u \in Loader PROVE ~mingled'[u]
    <3>1. M!Loading = {}
      BY <1>2, <1>4, <2>4
    <3> QED BY <1>2, <2>4, <3>1 DEF AloneInv
  <2> QED BY <2>1, <2>2, <2>3, <2>4 DEF AloneInv
<1>6. ASSUME NEW u \in Loader, u # t
      PROVE  /\ pc'[u] = pc[u] /\ loading'[u] = loading[u] /\ loaded'[u] = loaded[u] /\ reading'[u] = reading[u]
             /\ ~mingled'[u] => ~mingled[u] /\ pc[u] = "idle"
  BY <1>2, <1>6 DEF MediaTypes, M!Loading
<1>7. /\ pc'[t] = (IF S = <<>> THEN "idle" ELSE "open") /\ loading'[t] = p /\ loaded'[t] = S /\ reading'[t] = 1
      /\ ~mingled'[t] => self' = M!Closed
  BY <1>2 DEF MediaTypes, AloneInv
<1>8. Asked(t)' = S
  BY <1>7 DEF Asked, S, M!TryUnpack, M!DumpFile
<1>9. ASSUME NEW u \in Loader, u # t PROVE Asked(u)' = Asked(u)
  BY <1>6, <1>9 DEF Asked, M!TryUnpack, M!DumpFile
<1>10. AskedInv'
  <2> SUFFICES ASSUME NEW u \in Loader
               PROVE (/\ loading[u] # Blank =>
                          /\ Len(loaded[u]) = Len(Asked(u))
                          /\ \A i \in 1 .. Len(loaded[u]) : loaded[u][i].url = Asked(u)[i].url
                      /\ pc[u] # "idle" => loading[u] # Blank /\ reading[u] <= Len(loaded[u]))'
    BY DEF AskedInv
  <2>1. CASE u = t
    <3>1. S # <<>> => 1 <= Len(S)
      BY <1>1
    <3> QED BY <1>1, <1>7, <1>8, <2>1, <3>1
  <2>2. CASE u # t
    BY <1>6, <1>9, <2>2 DEF AskedInv
  <2> QED BY <2>1, <2>2
<1>11. ASSUME NEW u \in Loader, u # t, ~mingled'[u]
       PROVE (/\ pc[u] = "idle" /\ loading[u] # Blank => \A i \in 1 .. Len(loaded[u]) : M!Own(loaded[u][i], Asked(u)[i])
              /\ pc[u] = "idle")'
  BY <1>6, <1>9, <1>11 DEF ListInv, OwnList, M!Own
<1>12. ASSUME ~mingled'[t], S = <<>>
       PROVE (pc[t] = "idle" /\ \A i \in 1 .. Len(loaded[t]) : M!Own(loaded[t][i], Asked(t)[i]))'
  BY <1>7, <1>12
<1>13. ASSUME ~mingled'[t], S # <<>>
       PROVE (/\ pc[t] # "idle"
              /\ \A i \in 1 .. Len(loaded[t]) :
                    /\ i < reading[t] => M!Own(loaded[t][i], Asked(t)[i])
                    /\ i > reading[t] => loaded[t][i] = Asked(t)[i]
              /\ ItemInv(pc[t], loaded[t][reading[t]], Asked(t)[reading[t]]))'
  <2>1. pc'[t] = "open" /\ loaded'[t] = Asked(t)' /\ reading'[t] = 1 /\ self' = M!Closed
    BY <1>7, <1>8, <1>13
  <2>2. ItemInv(pc[t], loaded[t][reading[t]], Asked(t)[reading[t]])'
    BY <2>1 DEF ItemInv, M!Closed
  <2>3. \A i \in 1 .. Len(loaded'[t]) : ~(i < 1)
    BY <1>1, <1>7
  <2> QED BY <2>1, <2>2, <2>3
<1>14. ListInv'
  BY <1>11, <1>12, <1>13 DEF ListInv, OwnList
<1> QED BY <1>3, <1>5, <1>10, <1>14

(* A step of a loader that has begun: the others are not in it, or have met*)
(* it; so what it leaves has only to be right for itself.                  *)
LEMMA LoaderSteps ==
  ASSUME MediaInv, NEW t \in Loader, pc[t] # "idle",
         NEW to \in M!Steps \cup {"idle"}, pc' = [pc EXCEPT ![t] = to],
         UNCHANGED <<locked, loading, mingled, crashed>>,
         loaded' \in [Loader -> Seq(Row)], reading' \in [Loader -> Nat \ {0}],
         \A u \in Loader \ {t} : loaded'[u] = loaded[u] /\ reading'[u] = reading[u],
         Len(loaded'[t]) = Len(loaded[t]),
         \A i \in 1 .. Len(loaded[t]) : loaded'[t][i].url = loaded[t][i].url,
         self' \in [ref : Audio \cup {Blank}, tag : Audio \cup {Blank}],
         self'.ref = Blank \/ to = "idle" => self' = M!Closed,
         to # "idle" => reading'[t] <= Len(loaded[t]),
         OwnList(t)'
  PROVE  MediaInv'
<1> USE DEF MediaInv
<1>1. MediaTypes'
  BY DEF MediaTypes
<1>2. t \in M!Loading
  BY DEF MediaTypes, M!Loading
<1>3. \A u \in Loader \ {t} : pc'[u] = pc[u]
  BY DEF MediaTypes
<1>4. M!Loading' = (IF to = "idle" THEN M!Loading \ {t} ELSE M!Loading)
  BY <1>2 DEF M!Loading, M!Steps, MediaTypes
<1>5. AloneInv'
  <2>1. (self.ref = Blank => self = M!Closed)'
    BY DEF M!Closed
  <2>2. (M!Loading = {} => self = M!Closed)'
    BY <1>2, <1>4 DEF M!Closed
  <2>3. (\A u \in M!Loading : ~mingled[u] => M!Loading = {u})'
    BY <1>2, <1>4 DEF AloneInv
  <2>4. (locked => \A u \in Loader : ~mingled[u])'
    BY DEF AloneInv
  <2> QED BY <2>1, <2>2, <2>3, <2>4 DEF AloneInv
<1>6. ASSUME NEW u \in Loader PROVE Asked(u)' = Asked(u)
  BY DEF Asked, M!TryUnpack, M!DumpFile
<1>7. AskedInv'
  <2> SUFFICES ASSUME NEW u \in Loader
               PROVE (/\ loading[u] # Blank =>
                          /\ Len(loaded[u]) = Len(Asked(u))
                          /\ \A i \in 1 .. Len(loaded[u]) : loaded[u][i].url = Asked(u)[i].url
                      /\ pc[u] # "idle" => loading[u] # Blank /\ reading[u] <= Len(loaded[u]))'
    BY DEF AskedInv
  <2>1. CASE u = t
    <3>1. pc'[t] = to
      BY DEF MediaTypes
    <3>2. loading[t] # Blank
      BY DEF AskedInv
    <3> QED BY <1>6, <2>1, <3>1, <3>2 DEF AskedInv
  <2>2. CASE u # t
    BY <1>3, <1>6, <2>2 DEF AskedInv
  <2> QED BY <2>1, <2>2
<1>8. ASSUME NEW u \in Loader, u # t PROVE OwnList(u)'
  <2>1. ~mingled[u] => pc[u] = "idle"
    BY <1>2, <1>8 DEF AloneInv, M!Loading, MediaTypes
  <2>2. OwnList(u)
    BY DEF ListInv
  <2> QED BY <1>3, <1>6, <1>8, <2>1, <2>2 DEF OwnList, M!Own
<1>9. ListInv'
  BY <1>8 DEF ListInv
<1> QED BY <1>1, <1>5, <1>7, <1>9

(* Its step within an item (OpenItem, FillTitle, FillArtist, FillDuration).*)
LEMMA ItemSteps ==
  ASSUME MediaInv, NEW t \in Loader, pc[t] # "idle",
         NEW to \in M!Steps, pc' = [pc EXCEPT ![t] = to],
         UNCHANGED <<locked, loading, mingled, crashed, reading>>,
         NEW i \in Row, loaded' = [loaded EXCEPT ![t][reading[t]] = i], i.url = loaded[t][reading[t]].url,
         self' \in [ref : Audio \cup {Blank}, tag : Audio \cup {Blank}],
         self'.ref = Blank => self' = M!Closed,
         ~mingled[t] => ItemInv(to, i, Asked(t)[reading[t]])'
  PROVE  MediaInv'
<1> USE DEF MediaInv
<1> DEFINE l == loaded[t]
           n == reading[t]
<1>1. l \in Seq(Row) /\ n \in 1 .. Len(l)
  BY DEF MediaTypes, AskedInv
<1>2. /\ loaded' \in [Loader -> Seq(Row)] /\ \A u \in Loader \ {t} : loaded'[u] = loaded[u]
      /\ Len(loaded'[t]) = Len(l) /\ loaded'[t][n] = i
      /\ \A k \in 1 .. Len(l) : k # n => loaded'[t][k] = l[k]
  <2>1. [l EXCEPT ![n] = i] \in Seq(Row) /\ Len([l EXCEPT ![n] = i]) = Len(l)
    BY <1>1
  <2>2. loaded' = [loaded EXCEPT ![t] = [l EXCEPT ![n] = i]]
    OBVIOUS
  <2>3. loaded'[t] = [l EXCEPT ![n] = i]
    BY <2>2 DEF MediaTypes
  <2> HIDE DEF l, n
  <2>4. loaded' \in [Loader -> Seq(Row)]
    BY <2>1, <2>2 DEF MediaTypes
  <2>5. \A u \in Loader \ {t} : loaded'[u] = loaded[u]
    BY <2>2 DEF MediaTypes
  <2>6. [l EXCEPT ![n] = i][n] = i /\ \A k \in 1 .. Len(l) : k # n => [l EXCEPT ![n] = i][k] = l[k]
    BY <1>1
  <2> QED BY <2>1, <2>3, <2>4, <2>5, <2>6
<1>3. \A k \in 1 .. Len(l) : loaded'[t][k].url = l[k].url
  BY <1>2
<1>4. pc'[t] = to /\ to # "idle"
  BY DEF MediaTypes, M!Steps
<1>5. OwnList(t)'
  <2>1. Asked(t)' = Asked(t)
    BY DEF Asked, M!TryUnpack, M!DumpFile
  <2> SUFFICES ASSUME ~mingled[t]
               PROVE (/\ \A k \in 1 .. Len(loaded[t]) :
                            /\ k < reading[t] => M!Own(loaded[t][k], Asked(t)[k])
                            /\ k > reading[t] => loaded[t][k] = Asked(t)[k]
                      /\ ItemInv(pc[t], loaded[t][reading[t]], Asked(t)[reading[t]]))'
    BY <1>4 DEF OwnList
  <2>2. ItemInv(pc[t], loaded[t][reading[t]], Asked(t)[reading[t]])'
    BY <1>2, <1>4, <2>1 DEF ItemInv, TitleOwn, ArtistOwn, TagIn, M!Own, M!Closed
  <2>3. \A k \in 1 .. Len(l) :
           /\ k < n => M!Own(l[k], Asked(t)[k])
           /\ k > n => l[k] = Asked(t)[k]
    BY DEF ListInv, OwnList
  <2>4. (\A k \in 1 .. Len(loaded[t]) :
            /\ k < reading[t] => M!Own(loaded[t][k], Asked(t)[k])
            /\ k > reading[t] => loaded[t][k] = Asked(t)[k])'
    BY <1>1, <1>2, <2>1, <2>3 DEF M!Own
  <2> QED BY <2>2, <2>4
<1>6. reading'[t] <= Len(loaded[t]) /\ reading' \in [Loader -> Nat \ {0}]
  BY DEF MediaTypes, AskedInv
<1> QED BY <1>1, <1>2, <1>3, <1>4, <1>5, <1>6, LoaderSteps

(* The item of the loader and its file, before a step of it.               *)
LEMMA ItemIs ==
  ASSUME MediaInv, NEW t \in Loader, pc[t] # "idle"
  PROVE  \E i \in Row : \E s :
           /\ i = M!ItemOf(t) /\ i = loaded[t][reading[t]] /\ s = Asked(t)[reading[t]]
           /\ i.url \in Audio /\ i.url # Blank
           /\ ~mingled[t] => ItemInv(pc[t], i, s)
<1>1. reading[t] \in 1 .. Len(loaded[t]) /\ loaded[t] \in Seq(Row)
  BY DEF MediaInv, MediaTypes, AskedInv
<1>2. loaded[t][reading[t]] \in Row
  BY <1>1
<1>3. loaded[t][reading[t]].url \in Audio
  BY <1>2 DEF Row
<1>4. loaded[t][reading[t]].url # Blank
  BY <1>3, MediaAssumption
<1>5. ~mingled[t] => ItemInv(pc[t], loaded[t][reading[t]], Asked(t)[reading[t]])
  BY DEF MediaInv, ListInv, OwnList
<1> QED BY <1>2, <1>3, <1>4, <1>5 DEF M!ItemOf

(* What was asked for does not change while it is loaded.                  *)
LEMMA AskedStays ==
  ASSUME NEW t \in Loader, UNCHANGED <<loading, reading>>
  PROVE  Asked(t)' = Asked(t) /\ (Asked(t)[reading[t]])' = Asked(t)[reading[t]]
BY DEF Asked, M!TryUnpack, M!DumpFile

(* The file is opened (OpenItem): what was open before is forgotten.       *)
LEMMA OpenKeeps ==
  ASSUME MediaInv, NEW t \in Loader, M!OpenItem(t)
  PROVE  MediaInv'
<1>1. /\ pc[t] = "open" /\ pc[t] # "idle" /\ self' = M!Opened(M!ItemOf(t).url)
      /\ pc' = [pc EXCEPT ![t] = IF M!Opened(M!ItemOf(t).url).tag # Blank THEN "title" ELSE "duration"]
      /\ UNCHANGED <<locked, loading, mingled, crashed, reading, loaded>>
  BY DEF M!OpenItem, M!Go, M!Rest
<1>2. PICK i \in Row : \E s :
        /\ i = M!ItemOf(t) /\ i = loaded[t][reading[t]] /\ s = Asked(t)[reading[t]]
        /\ i.url \in Audio /\ i.url # Blank
        /\ ~mingled[t] => ItemInv("open", i, s)
  BY <1>1, ItemIs
<1>3. PICK s : s = Asked(t)[reading[t]] /\ (~mingled[t] => ItemInv("open", i, s))
  BY <1>2
<1>4. self' = [ref |-> i.url, tag |-> IF TagOf[i.url] = Untagged THEN self.tag ELSE i.url]
  BY <1>1, <1>2 DEF M!Opened
<1>5. self' \in [ref : Audio \cup {Blank}, tag : Audio \cup {Blank}] /\ self'.ref # Blank /\ self'.ref = i.url
  BY <1>2, <1>4 DEF MediaInv, MediaTypes
<1>6. PICK to \in M!Steps : to = (IF self'.tag # Blank THEN "title" ELSE "duration")
  BY DEF M!Steps
<1>7. pc' = [pc EXCEPT ![t] = to]
  BY <1>1, <1>2, <1>6
<1>8. loaded' = [loaded EXCEPT ![t][reading[t]] = i]
  BY <1>1, <1>2 DEF MediaInv, MediaTypes, AskedInv
<1>9. (Asked(t)[reading[t]])' = s
  BY <1>1, <1>3, AskedStays
<1>10. ASSUME ~mingled[t] PROVE ItemInv(to, i, s)'
  <2>1. i = s /\ self = M!Closed
    BY <1>3, <1>10 DEF ItemInv
  <2>2. self'.tag = IF TagOf[i.url] = Untagged THEN Blank ELSE i.url
    BY <1>4, <2>1 DEF M!Closed
  <2>3. CASE TagOf[i.url] = Untagged
    <3>1. to = "duration"
      BY <1>6, <2>2, <2>3
    <3>2. TitleOwn(i, s) /\ ArtistOwn(i, s)
      BY <2>1, <2>3 DEF TitleOwn, ArtistOwn, TagIn
    <3> QED BY <1>5, <2>2, <2>3, <3>1, <3>2 DEF ItemInv, TitleOwn, ArtistOwn
  <2>4. CASE TagOf[i.url] # Untagged
    <3>1. to = "title"
      BY <1>2, <1>6, <2>2, <2>4
    <3> QED BY <1>5, <2>1, <2>2, <2>4, <3>1 DEF ItemInv
  <2> QED BY <2>3, <2>4
<1>11. ~mingled[t] => ItemInv(to, i, Asked(t)[reading[t]])'
  BY <1>9, <1>10 DEF ItemInv, M!Closed, TitleOwn, ArtistOwn, TagIn, M!Own
<1>12. i.url = loaded[t][reading[t]].url /\ (self'.ref = Blank => self' = M!Closed)
  BY <1>2, <1>5
<1> QED BY <1>1, <1>5, <1>7, <1>8, <1>11, <1>12, ItemSteps

(* What the parser says of the file that it has open (Title, Artist).      *)
LEMMA ParserSays ==
  ASSUME MediaInv
  PROVE  /\ M!Title \in Texts /\ M!Artist \in Texts
         /\ \A f \in Audio : self.tag = f /\ TagOf[f] # Untagged =>
              M!Title = TagIn(f).title /\ M!Artist = TagIn(f).artist
<1>1. self.tag \in Audio \cup {Blank} /\ Blank \notin Audio
  BY MediaAssumption DEF MediaInv, MediaTypes
<1>2. M!Title \in Texts /\ M!Artist \in Texts
  BY <1>1 DEF M!Title, M!Artist, Texts
<1> QED BY <1>1, <1>2 DEF M!Title, M!Artist, TagIn

(* The title is filled in where the sheet had none (FillTitle).            *)
LEMMA TitleKeeps ==
  ASSUME MediaInv, NEW t \in Loader, M!FillTitle(t)
  PROVE  MediaInv'
<1>1. /\ pc[t] = "title" /\ pc[t] # "idle" /\ pc' = [pc EXCEPT ![t] = "artist"]
      /\ UNCHANGED <<locked, loading, mingled, crashed, reading, self>>
      /\ loaded' = [loaded EXCEPT ![t][reading[t]] =
            IF M!ItemOf(t).title = Blank THEN [M!ItemOf(t) EXCEPT !.title = M!Title] ELSE M!ItemOf(t)]
  BY DEF M!FillTitle, M!Go, M!Rest, M!Fill
<1>2. PICK i \in Row : \E s :
        /\ i = M!ItemOf(t) /\ i = loaded[t][reading[t]] /\ s = Asked(t)[reading[t]]
        /\ i.url \in Audio /\ i.url # Blank
        /\ ~mingled[t] => ItemInv("title", i, s)
  BY <1>1, ItemIs
<1>3. PICK s : s = Asked(t)[reading[t]] /\ (~mingled[t] => ItemInv("title", i, s))
  BY <1>2
<1>4. M!Title \in Texts /\ (self.tag = i.url /\ TagOf[i.url] # Untagged => M!Title = TagIn(i.url).title)
  BY <1>2, ParserSays
<1>5. PICK j \in Row : j = IF i.title = Blank THEN [i EXCEPT !.title = M!Title] ELSE i
  BY <1>2, <1>4 DEF Row
<1>6. /\ j.url = i.url /\ j.artist = i.artist
      /\ j.title = (IF i.title = Blank THEN M!Title ELSE i.title)
  BY <1>5 DEF Row
<1>7. loaded' = [loaded EXCEPT ![t][reading[t]] = j]
  BY <1>1, <1>2, <1>5
<1>8. (Asked(t)[reading[t]])' = s
  BY <1>1, <1>3, AskedStays
<1>9. ASSUME ~mingled[t] PROVE ItemInv("artist", j, s)'
  <2>1. i = s /\ self.tag = i.url /\ TagOf[i.url] # Untagged /\ self.ref = i.url
    BY <1>3, <1>9 DEF ItemInv
  <2>2. TitleOwn(j, s)
    BY <1>4, <1>6, <2>1 DEF TitleOwn
  <2> QED BY <1>1, <1>6, <2>1, <2>2 DEF ItemInv, TitleOwn
<1>10. ~mingled[t] => ItemInv("artist", j, Asked(t)[reading[t]])'
  BY <1>8, <1>9 DEF ItemInv, TitleOwn
<1>11. /\ j.url = loaded[t][reading[t]].url /\ (self'.ref = Blank => self' = M!Closed)
       /\ self' \in [ref : Audio \cup {Blank}, tag : Audio \cup {Blank}]
  BY <1>1, <1>2, <1>6 DEF MediaInv, MediaTypes, AloneInv
<1>12. "artist" \in M!Steps
  BY DEF M!Steps
<1> QED BY <1>1, <1>7, <1>10, <1>11, <1>12, ItemSteps

(* And the artist (FillArtist).                                            *)
LEMMA ArtistKeeps ==
  ASSUME MediaInv, NEW t \in Loader, M!FillArtist(t)
  PROVE  MediaInv'
<1>1. /\ pc[t] = "artist" /\ pc[t] # "idle" /\ pc' = [pc EXCEPT ![t] = "duration"]
      /\ UNCHANGED <<locked, loading, mingled, crashed, reading, self>>
      /\ loaded' = [loaded EXCEPT ![t][reading[t]] =
            IF M!ItemOf(t).artist = Blank THEN [M!ItemOf(t) EXCEPT !.artist = M!Artist] ELSE M!ItemOf(t)]
  BY DEF M!FillArtist, M!Go, M!Rest, M!Fill
<1>2. PICK i \in Row : \E s :
        /\ i = M!ItemOf(t) /\ i = loaded[t][reading[t]] /\ s = Asked(t)[reading[t]]
        /\ i.url \in Audio /\ i.url # Blank
        /\ ~mingled[t] => ItemInv("artist", i, s)
  BY <1>1, ItemIs
<1>3. PICK s : s = Asked(t)[reading[t]] /\ (~mingled[t] => ItemInv("artist", i, s))
  BY <1>2
<1>4. M!Artist \in Texts /\ (self.tag = i.url /\ TagOf[i.url] # Untagged => M!Artist = TagIn(i.url).artist)
  BY <1>2, ParserSays
<1>5. PICK j \in Row : j = IF i.artist = Blank THEN [i EXCEPT !.artist = M!Artist] ELSE i
  BY <1>2, <1>4 DEF Row
<1>6. /\ j.url = i.url /\ j.title = i.title
      /\ j.artist = (IF i.artist = Blank THEN M!Artist ELSE i.artist)
  BY <1>5 DEF Row
<1>7. loaded' = [loaded EXCEPT ![t][reading[t]] = j]
  BY <1>1, <1>2, <1>5
<1>8. (Asked(t)[reading[t]])' = s
  BY <1>1, <1>3, AskedStays
<1>9. ASSUME ~mingled[t] PROVE ItemInv("duration", j, s)'
  <2>1. /\ TitleOwn(i, s) /\ i.artist = s.artist
        /\ self.tag = i.url /\ TagOf[i.url] # Untagged /\ self.ref = i.url
    BY <1>3, <1>9 DEF ItemInv
  <2>2. ArtistOwn(j, s)
    BY <1>4, <1>6, <2>1 DEF ArtistOwn
  <2>3. TitleOwn(j, s)
    BY <1>6, <2>1 DEF TitleOwn
  <2> QED BY <1>1, <1>6, <2>1, <2>2, <2>3 DEF ItemInv, TitleOwn, ArtistOwn
<1>10. ~mingled[t] => ItemInv("duration", j, Asked(t)[reading[t]])'
  BY <1>8, <1>9 DEF ItemInv, TitleOwn, ArtistOwn
<1>11. /\ j.url = loaded[t][reading[t]].url /\ (self'.ref = Blank => self' = M!Closed)
       /\ self' \in [ref : Audio \cup {Blank}, tag : Audio \cup {Blank}]
  BY <1>1, <1>2, <1>6 DEF MediaInv, MediaTypes, AloneInv
<1>12. "duration" \in M!Steps
  BY DEF M!Steps
<1> QED BY <1>1, <1>7, <1>10, <1>11, <1>12, ItemSteps

(* And the duration (FillDuration): the item has what is its own.          *)
LEMMA DurationKeeps ==
  ASSUME MediaInv, NEW t \in Loader, M!FillDuration(t)
  PROVE  MediaInv'
<1>1. /\ pc[t] = "duration" /\ pc[t] # "idle" /\ pc' = [pc EXCEPT ![t] = "close"]
      /\ UNCHANGED <<locked, loading, mingled, crashed, reading, self>>
      /\ loaded' = [loaded EXCEPT ![t][reading[t]] =
            [M!ItemOf(t) EXCEPT !.duration = IF self.tag = Blank THEN 0 ELSE 1]]
  BY DEF M!FillDuration, M!Go, M!Rest, M!Fill
<1>2. PICK i \in Row : \E s :
        /\ i = M!ItemOf(t) /\ i = loaded[t][reading[t]] /\ s = Asked(t)[reading[t]]
        /\ i.url \in Audio /\ i.url # Blank
        /\ ~mingled[t] => ItemInv("duration", i, s)
  BY <1>1, ItemIs
<1>3. PICK s : s = Asked(t)[reading[t]] /\ (~mingled[t] => ItemInv("duration", i, s))
  BY <1>2
<1>5. PICK j \in Row : j = [i EXCEPT !.duration = IF self.tag = Blank THEN 0 ELSE 1]
  BY <1>2 DEF Row
<1>6. /\ j.url = i.url /\ j.title = i.title /\ j.artist = i.artist
      /\ j.duration = (IF self.tag = Blank THEN 0 ELSE 1)
  BY <1>5 DEF Row
<1>7. loaded' = [loaded EXCEPT ![t][reading[t]] = j]
  BY <1>1, <1>2, <1>5
<1>8. (Asked(t)[reading[t]])' = s
  BY <1>1, <1>3, AskedStays
<1>9. ASSUME ~mingled[t] PROVE ItemInv("close", j, s)'
  <2>1. /\ TitleOwn(i, s) /\ ArtistOwn(i, s) /\ self.ref = i.url
        /\ self.tag = (IF TagOf[i.url] = Untagged THEN Blank ELSE i.url)
    BY <1>3, <1>9 DEF ItemInv
  <2>2. TitleOwn(j, s) /\ ArtistOwn(j, s)
    BY <1>6, <2>1 DEF ArtistOwn, TitleOwn
  <2>3. j.duration = (IF TagOf[j.url] = Untagged THEN 0 ELSE 1)
    BY <1>2, <1>6, <2>1
  <2>4. M!Own(j, s)
    BY <2>2, <2>3, OwnIs
  <2>5. M!Own(j, s)'
    BY <2>4 DEF M!Own
  <2> QED BY <1>1, <1>6, <2>1, <2>5 DEF ItemInv
<1>10. ~mingled[t] => ItemInv("close", j, Asked(t)[reading[t]])'
  BY <1>8, <1>9 DEF ItemInv, M!Own
<1>11. /\ j.url = loaded[t][reading[t]].url /\ (self'.ref = Blank => self' = M!Closed)
       /\ self' \in [ref : Audio \cup {Blank}, tag : Audio \cup {Blank}]
  BY <1>1, <1>2, <1>6 DEF MediaInv, MediaTypes, AloneInv
<1>12. "close" \in M!Steps
  BY DEF M!Steps
<1> QED BY <1>1, <1>7, <1>10, <1>11, <1>12, ItemSteps

(* The parser is closed, and the next item is opened or the list returned  *)
(* (CloseItem).                                                            *)
LEMMA CloseKeeps ==
  ASSUME MediaInv, NEW t \in Loader, M!CloseItem(t)
  PROVE  MediaInv'
<1> DEFINE l == loaded[t]
           n == reading[t]
<1>1. /\ pc[t] = "close" /\ pc[t] # "idle" /\ pc' = [pc EXCEPT ![t] = IF n < Len(l) THEN "open" ELSE "idle"]
      /\ UNCHANGED <<locked, loading, mingled, crashed, loaded>>
      /\ reading' = [reading EXCEPT ![t] = IF n < Len(l) THEN n + 1 ELSE n]
      /\ self' = (IF self.ref = Blank THEN self ELSE M!Closed)
  BY DEF M!CloseItem, M!Go, M!CloseParser
<1>2. self' = M!Closed /\ self' \in [ref : Audio \cup {Blank}, tag : Audio \cup {Blank}]
  BY <1>1 DEF MediaInv, MediaTypes, AloneInv, M!Closed
<1>3. n \in 1 .. Len(l) /\ l \in Seq(Row)
  BY <1>1 DEF MediaInv, MediaTypes, AskedInv
<1>4. PICK to \in M!Steps \cup {"idle"} : to = IF n < Len(l) THEN "open" ELSE "idle"
  BY DEF M!Steps
<1>5. /\ pc' = [pc EXCEPT ![t] = to] /\ pc'[t] = to
      /\ reading'[t] = (IF n < Len(l) THEN n + 1 ELSE n)
      /\ reading' \in [Loader -> Nat \ {0}] /\ \A u \in Loader \ {t} : reading'[u] = reading[u]
  BY <1>1, <1>3, <1>4 DEF MediaInv, MediaTypes
<1>6. to # "idle" => reading'[t] <= Len(l)
  BY <1>3, <1>4, <1>5
<1>7. Asked(t)' = Asked(t)
  BY <1>1 DEF Asked, M!TryUnpack, M!DumpFile
<1>8. OwnList(t)'
  <2> SUFFICES ASSUME ~mingled[t] PROVE OwnList(t)'
    BY <1>1 DEF OwnList
  <2>1. M!Own(l[n], Asked(t)[n])
    BY <1>1 DEF MediaInv, ListInv, OwnList, ItemInv
  <2>2. \A k \in 1 .. Len(l) : (k < n => M!Own(l[k], Asked(t)[k])) /\ (k > n => l[k] = Asked(t)[k])
    BY <1>1 DEF MediaInv, ListInv, OwnList
  <2> HIDE DEF l, n
  <2>3. \A k \in 1 .. Len(l) : k <= n => M!Own(l[k], Asked(t)[k])
    BY <1>3, <2>1, <2>2
  <2>4. l' = l
    BY <1>1 DEF l
  <2>5. \A k \in 1 .. Len(l) : k <= n => M!Own(l'[k], Asked(t)'[k])
    BY <1>7, <2>3, <2>4 DEF M!Own
  <2>6. CASE n < Len(l)
    <3>1. pc'[t] = "open" /\ reading'[t] = n + 1
      BY <1>4, <1>5, <2>6
    <3>2. l[n + 1] = Asked(t)[n + 1]
      BY <1>3, <2>2, <2>6
    <3>3. ItemInv(pc[t], loaded[t][reading[t]], Asked(t)[reading[t]])'
      BY <1>2, <1>7, <2>4, <3>1, <3>2 DEF ItemInv, M!Closed, l
    <3>4. (\A k \in 1 .. Len(loaded[t]) :
             /\ k < reading[t] => M!Own(loaded[t][k], Asked(t)[k])
             /\ k > reading[t] => loaded[t][k] = Asked(t)[k])'
      BY <1>3, <1>7, <2>2, <2>4, <2>5, <3>1 DEF l
    <3> QED BY <3>1, <3>3, <3>4 DEF OwnList
  <2>7. CASE ~(n < Len(l))
    <3>1. pc'[t] = "idle" /\ n = Len(l)
      BY <1>3, <1>4, <1>5, <2>7
    <3>2. (\A k \in 1 .. Len(loaded[t]) : M!Own(loaded[t][k], Asked(t)[k]))'
      BY <1>3, <1>7, <2>4, <2>5, <3>1 DEF l
    <3> QED BY <3>1, <3>2 DEF OwnList
  <2> QED BY <2>6, <2>7
<1>9. loaded' \in [Loader -> Seq(Row)] /\ loaded' = loaded
  BY <1>1 DEF MediaInv, MediaTypes
<1> QED BY <1>1, <1>2, <1>5, <1>6, <1>8, <1>9, LoaderSteps

(* Every step of the loader keeps its invariant (Next).                    *)
LEMMA MediaSteps == MediaInv /\ M!Next => MediaInv'
BY StartKeeps, OpenKeeps, TitleKeeps, ArtistKeeps, DurationKeeps, CloseKeeps DEF M!Next

(* Which says what the property does.                                      *)
LEMMA MediaHolds == MediaInv => M!TagsOfFile
<1> SUFFICES ASSUME MediaInv PROVE M!TagsOfFile
  OBVIOUS
<1>1. ASSUME NEW t \in Loader, pc[t] = "idle", loading[t] # Blank, ~mingled[t], NEW i \in DOMAIN loaded[t]
      PROVE  M!Own(loaded[t][i], M!TryUnpack(loading[t])[i])
  BY <1>1 DEF MediaInv, MediaTypes, ListInv, OwnList, Asked
<1> QED BY <1>1 DEF M!TagsOfFile, MediaInv, AloneInv

-----------------------------------------------------------------------------
(* The finder of plug-ins.                                                 *)

Owners == Plugin \cup {NoPlugin}
KeysOf(p) == ({"suffix"} \X SuffixesOf[p]) \cup ({"encoding"} \X Encodings[p])

FinderTypes ==
  /\ fifo \in Seq(SUBSET (Plugin \cup Dir)) /\ stage \in {"finding", "ready", "unloaded"}
  /\ decoders \in [P!Keys -> Owners] /\ conv \in [P!AllSuffix -> Owners]
  /\ tags \in [P!AllSuffix -> Owners] /\ parsers \in [P!AllSuffix -> Owners]

(* The tables of different parts of the program agree where they have the  *)
(* same keys; and who has a key has claimed it.                            *)
TablesInv ==
  /\ tags = parsers
  /\ \A x \in P!AllSuffix : conv[x] = decoders[<<"suffix", x>>]
  /\ \A k \in P!Keys : decoders[k] # NoPlugin => decoders[k] \in P!Good("Decoder") /\ k \in KeysOf(decoders[k])

(* Entries that have not been gone through.                                *)
Pending(listings) == UNION {listings[j] : j \in 1 .. Len(listings)}

(* A decoder has all its keys, or others have them, unless it is still to  *)
(* be found: on the way to it, something is pending.                       *)
Placed(p) == \A k \in KeysOf(p) : decoders[k] # NoPlugin

FoundInv ==
  stage # "unloaded" =>
    \A p \in P!Good("Decoder") : Placed(p) \/ \A way \in Ways(p) : Pending(fifo) \cap way # {}

FinderInv == FinderTypes /\ TablesInv /\ FoundInv /\ (stage = "ready" => fifo = <<>>)

(* In the beginning the directory is to be gone through, and nothing found *)
(* (Init).                                                                 *)
LEMMA FinderStarts == P!Init => FinderInv
<1> SUFFICES ASSUME P!Init PROVE FinderInv
  OBVIOUS
<1>1. /\ fifo = <<{Root}>> /\ stage = "finding" /\ decoders = P!Unclaimed(P!Keys)
      /\ conv = P!Unclaimed(P!AllSuffix) /\ tags = P!Unclaimed(P!AllSuffix) /\ parsers = P!Unclaimed(P!AllSuffix)
  BY DEF P!Init
<1>2. FinderTypes
  <2>1. {Root} \in SUBSET (Plugin \cup Dir)
    BY PluginsAssumption
  <2>2. fifo \in Seq(SUBSET (Plugin \cup Dir))
    BY <1>1, <2>1
  <2> QED BY <1>1, <2>2 DEF FinderTypes, P!Unclaimed, Owners
<1>3. TablesInv
  BY <1>1 DEF TablesInv, P!Unclaimed, P!Keys
<1>4. FoundInv
  <2>1. Root \in Pending(fifo)
    <3>1. Len(fifo) = 1 /\ fifo[1] = {Root}
      BY <1>1
    <3> QED BY <3>1 DEF Pending
  <2> QED BY <2>1 DEF FoundInv, Ways
<1> QED BY <1>1, <1>2, <1>3, <1>4 DEF FinderInv

(* The tables of one plug-in's claims (Claimed).                           *)
LEMMA ClaimedIs ==
  ASSUME NEW keys, NEW owner \in [keys -> Owners], NEW claims, NEW p \in Plugin
  PROVE  /\ P!Claimed(owner, claims, p) \in [keys -> Owners]
         /\ \A k \in keys : P!Claimed(owner, claims, p)[k] =
              (IF k \in claims /\ owner[k] = NoPlugin /\ p \notin Bad THEN p ELSE owner[k])
BY DEF P!Claimed, Owners

(* A plug-in is found: the tables stay in step (OnPlugin).                 *)
LEMMA TablesFollow ==
  ASSUME FinderTypes, TablesInv, NEW p \in Plugin, P!OnPlugin(p)
  PROVE  /\ TablesInv'
         /\ decoders' \in [P!Keys -> Owners] /\ conv' \in [P!AllSuffix -> Owners]
         /\ tags' \in [P!AllSuffix -> Owners] /\ parsers' \in [P!AllSuffix -> Owners]
         /\ \A k \in P!Keys : decoders[k] # NoPlugin => decoders'[k] # NoPlugin
         /\ p \in P!Good("Decoder") => \A k \in KeysOf(p) : decoders'[k] # NoPlugin
<1>1. SuffixesOf[p] \subseteq P!AllSuffix /\ KeysOf(p) \subseteq P!Keys
  BY DEF P!AllSuffix, P!AllEncoding, P!Keys, KeysOf
<1>2. NoPlugin \notin Plugin
  BY PluginsAssumption
<1>3. tags' = parsers' /\ tags' \in [P!AllSuffix -> Owners]
  <2>1. CASE "TagParser" \in Type[p]
    BY <2>1, ClaimedIs DEF P!OnPlugin, P!LoadLoaderTagParser, P!LoadFactoryTagParser, FinderTypes, TablesInv
  <2>2. CASE "TagParser" \notin Type[p]
    BY <2>2 DEF P!OnPlugin, FinderTypes, TablesInv
  <2> QED BY <2>1, <2>2
<1>4. CASE "Decoder" \in Type[p]
  <2>1. decoders' = P!Claimed(decoders, KeysOf(p), p) /\ conv' = P!Claimed(conv, SuffixesOf[p], p)
    BY <1>4 DEF P!OnPlugin, P!LoadDecoderPlugin, P!LoadConverterDecoder, KeysOf
  <2>2. /\ decoders' \in [P!Keys -> Owners]
        /\ \A k \in P!Keys : decoders'[k] =
             (IF k \in KeysOf(p) /\ decoders[k] = NoPlugin /\ p \notin Bad THEN p ELSE decoders[k])
    BY <2>1, ClaimedIs DEF FinderTypes
  <2>3. /\ conv' \in [P!AllSuffix -> Owners]
        /\ \A x \in P!AllSuffix : conv'[x] =
             (IF x \in SuffixesOf[p] /\ conv[x] = NoPlugin /\ p \notin Bad THEN p ELSE conv[x])
    BY <2>1, ClaimedIs DEF FinderTypes
  <2>4. \A x \in P!AllSuffix : <<"suffix", x>> \in P!Keys /\ (<<"suffix", x>> \in KeysOf(p) <=> x \in SuffixesOf[p])
    BY DEF P!Keys, KeysOf
  <2>5. \A x \in P!AllSuffix : conv'[x] = decoders'[<<"suffix", x>>]
    BY <2>2, <2>3, <2>4 DEF TablesInv
  <2>6. p \notin Bad => p \in P!Good("Decoder")
    BY <1>4 DEF P!Good
  <2>7. \A k \in P!Keys : decoders'[k] # NoPlugin => decoders'[k] \in P!Good("Decoder") /\ k \in KeysOf(decoders'[k])
    BY <2>2, <2>6 DEF TablesInv
  <2>8. TablesInv'
    BY <1>3, <2>5, <2>7 DEF TablesInv, P!AllSuffix, P!Keys, P!AllEncoding, P!Good, KeysOf
  <2>9. p \in P!Good("Decoder") => \A k \in KeysOf(p) : decoders'[k] # NoPlugin
    BY <1>1, <1>2, <2>2 DEF P!Good
  <2> QED BY <1>2, <1>3, <2>2, <2>3, <2>8, <2>9
<1>5. CASE "Decoder" \notin Type[p]
  <2>1. decoders' = decoders /\ conv' = conv
    BY <1>5 DEF P!OnPlugin
  <2>2. p \notin P!Good("Decoder")
    BY <1>5 DEF P!Good
  <2>3. TablesInv'
    BY <1>3, <2>1 DEF TablesInv, P!AllSuffix, P!Keys, P!AllEncoding, P!Good, KeysOf
  <2> QED BY <1>3, <2>1, <2>2, <2>3 DEF FinderTypes
<1> QED BY <1>4, <1>5

(* What is left of the listings has all entries but the one taken (Rest).  *)
LEMMA RestIs ==
  ASSUME FinderTypes, fifo # <<>>, NEW e
  PROVE  /\ P!Rest(e) \in Seq(SUBSET (Plugin \cup Dir))
         /\ Pending(fifo) \ {e} \subseteq Pending(P!Rest(e))
<1> DEFINE S == SUBSET (Plugin \cup Dir)
           head == Head(fifo) \ {e}
<1>1. fifo \in Seq(S) /\ Head(fifo) \in S /\ Tail(fifo) \in Seq(S) /\ Head(fifo) = fifo[1]
  BY DEF FinderTypes
<1>2. head \in S
  BY <1>1
<1>3. P!Rest(e) = (IF head = {} THEN Tail(fifo) ELSE <<head>> \o Tail(fifo))
  BY DEF P!Rest
<1>4. ASSUME NEW x \in Pending(fifo) \ {e} PROVE x \in head \/ \E j \in 1 .. Len(Tail(fifo)) : x \in Tail(fifo)[j]
  <2>1. PICK j \in 1 .. Len(fifo) : x \in fifo[j]
    BY <1>4 DEF Pending
  <2>2. CASE j = 1
    BY <1>1, <1>4, <2>1, <2>2
  <2>3. CASE j # 1
    <3> HIDE DEF S, head
    <3>1. j - 1 \in 1 .. Len(Tail(fifo)) /\ Tail(fifo)[j - 1] = fifo[j]
      BY <1>1, <2>3
    <3> QED BY <2>1, <3>1
  <2> QED BY <2>2, <2>3
<1> HIDE DEF S, head
<1>5. CASE head = {}
  <2>1. P!Rest(e) = Tail(fifo)
    BY <1>3, <1>5
  <2>2. Pending(fifo) \ {e} \subseteq Pending(Tail(fifo))
    BY <1>4, <1>5 DEF Pending
  <2> QED BY <1>1, <2>1, <2>2 DEF S
<1>6. CASE head # {}
  <2> DEFINE new == <<head>> \o Tail(fifo)
  <2>1. new \in Seq(S) /\ Len(new) = 1 + Len(Tail(fifo)) /\ new[1] = head
        /\ \A j \in 1 .. Len(Tail(fifo)) : new[j + 1] = Tail(fifo)[j]
    BY <1>1, <1>2
  <2>2. Len(Tail(fifo)) \in Nat
    BY <1>1
  <2> HIDE DEF new
  <2>3. ASSUME NEW x \in Pending(fifo) \ {e} PROVE x \in Pending(new)
    <3>1. CASE x \in head
      BY <2>1, <2>2, <3>1 DEF Pending
    <3>2. CASE x \notin head
      <4>1. PICK j \in 1 .. Len(Tail(fifo)) : x \in Tail(fifo)[j]
        BY <1>4, <3>2
      <4>2. j + 1 \in 1 .. Len(new) /\ x \in new[j + 1]
        BY <2>1, <2>2, <4>1
      <4> QED BY <4>2 DEF Pending
    <3> QED BY <3>1, <3>2
  <2> QED BY <1>3, <1>6, <2>1, <2>3 DEF new, S
<1> QED BY <1>5, <1>6

(* A listing is put behind the others.                                     *)
LEMMA AppendIs ==
  ASSUME NEW S, NEW listings \in Seq(S), NEW new \in S
  PROVE  Append(listings, new) \in Seq(S) /\ Pending(listings) \cup new \subseteq Pending(Append(listings, new))
<1> DEFINE more == Append(listings, new)
<1>1. /\ more \in Seq(S) /\ Len(more) = Len(listings) + 1 /\ Len(listings) \in Nat /\ more[Len(listings) + 1] = new
      /\ \A j \in 1 .. Len(listings) : more[j] = listings[j]
  OBVIOUS
<1> HIDE DEF more
<1>2. Pending(listings) \cup new \subseteq Pending(more)
  BY <1>1 DEF Pending
<1> QED BY <1>1, <1>2 DEF more

(* An entry is gone through (Run).                                         *)
LEMMA RunKeeps ==
  ASSUME FinderInv, P!Run
  PROVE  FinderInv'
<1> USE DEF FinderInv
<1>1. stage = "finding" /\ stage' = stage /\ fifo # <<>>
  BY DEF P!Run
<1>2. PICK e \in Head(fifo) :
        \/ e \in Plugin /\ fifo' = P!Rest(e) /\ P!OnPlugin(e)
        \/ /\ e \in Dir /\ fifo' = IF Entries[e] = {} THEN P!Rest(e) ELSE Append(P!Rest(e), Entries[e])
           /\ UNCHANGED <<probes, decoders, output, conv, tags, parsers, counts>>
  BY DEF P!Run
<1>3. P!Rest(e) \in Seq(SUBSET (Plugin \cup Dir)) /\ Pending(fifo) \ {e} \subseteq Pending(P!Rest(e))
  BY <1>1, RestIs
<1>4. CASE e \in Plugin /\ fifo' = P!Rest(e) /\ P!OnPlugin(e)
  <2>1. /\ TablesInv'
        /\ decoders' \in [P!Keys -> Owners] /\ conv' \in [P!AllSuffix -> Owners]
        /\ tags' \in [P!AllSuffix -> Owners] /\ parsers' \in [P!AllSuffix -> Owners]
        /\ \A k \in P!Keys : decoders[k] # NoPlugin => decoders'[k] # NoPlugin
        /\ e \in P!Good("Decoder") => \A k \in KeysOf(e) : decoders'[k] # NoPlugin
    BY <1>4, TablesFollow
  <2>2. FinderTypes'
    BY <1>1, <1>3, <1>4, <2>1 DEF FinderTypes, P!Keys, P!AllSuffix, P!AllEncoding, Owners
  <2>3. ASSUME NEW p \in P!Good("Decoder")
        PROVE  Placed(p)' \/ \A way \in Ways(p) : Pending(fifo') \cap way # {}
    <3>1. KeysOf(p) \subseteq P!Keys
      BY DEF P!Good, KeysOf, P!Keys, P!AllSuffix, P!AllEncoding
    <3>2. CASE Placed(p)
      BY <2>1, <3>1, <3>2 DEF Placed, KeysOf
    <3>3. CASE p = e
      BY <2>1, <3>3 DEF Placed, KeysOf
    <3>4. CASE ~Placed(p) /\ p # e
      <4> SUFFICES ASSUME NEW way \in Ways(p) PROVE Pending(fifo') \cap way # {}
        OBVIOUS
      <4>1. PICK x \in Pending(fifo) : x \in way
        BY <1>1, <3>4 DEF FoundInv
      <4>2. x # e
        BY <1>4, <3>4, <4>1, PluginsAssumption DEF Ways
      <4> QED BY <1>3, <1>4, <4>1, <4>2
    <3> QED BY <3>2, <3>3, <3>4
  <2>4. FoundInv'
    BY <2>3 DEF FoundInv, P!Good, Placed, Ways
  <2> QED BY <1>1, <2>1, <2>2, <2>4
<1>5. CASE /\ e \in Dir /\ fifo' = IF Entries[e] = {} THEN P!Rest(e) ELSE Append(P!Rest(e), Entries[e])
           /\ UNCHANGED <<probes, decoders, output, conv, tags, parsers, counts>>
  <2>1. Entries[e] \in SUBSET (Plugin \cup Dir)
    BY <1>5, PluginsAssumption
  <2>2. fifo' \in Seq(SUBSET (Plugin \cup Dir)) /\ (Pending(fifo) \ {e}) \cup Entries[e] \subseteq Pending(fifo')
    <3>1. CASE Entries[e] = {}
      BY <1>3, <1>5, <3>1
    <3>2. CASE Entries[e] # {}
      <4> DEFINE S == SUBSET (Plugin \cup Dir)
      <4> HIDE DEF S
      <4>1. P!Rest(e) \in Seq(S) /\ Entries[e] \in S
        BY <1>3, <2>1 DEF S
      <4>2. Append(P!Rest(e), Entries[e]) \in Seq(S)
            /\ Pending(P!Rest(e)) \cup Entries[e] \subseteq Pending(Append(P!Rest(e), Entries[e]))
        BY <4>1, AppendIs
      <4>3. fifo' = Append(P!Rest(e), Entries[e])
        BY <1>5, <3>2
      <4> QED BY <1>3, <4>2, <4>3 DEF S
    <3> QED BY <3>1, <3>2
  <2>3. FinderTypes' /\ TablesInv'
    BY <1>1, <1>5, <2>2 DEF FinderTypes, TablesInv, P!Keys, P!AllSuffix, P!AllEncoding, Owners, P!Good, KeysOf
  <2>4. ASSUME NEW p \in P!Good("Decoder"), ~Placed(p), NEW way \in Ways(p)
        PROVE  Pending(fifo') \cap way # {}
    <3>1. PICK x \in Pending(fifo) : x \in way
      BY <1>1, <2>4 DEF FoundInv
    <3>2. CASE x # e
      BY <2>2, <3>1, <3>2
    <3>3. CASE x = e
      <4>1. p \in Plugin /\ e # p
        BY <1>5, PluginsAssumption DEF P!Good
      <4>2. Entries[e] \cap way # {}
        BY <3>1, <3>3, <4>1 DEF Ways
      <4> QED BY <2>2, <4>2
    <3> QED BY <3>2, <3>3
  <2>5. FoundInv'
    BY <1>5, <2>4 DEF FoundInv, P!Good, Placed, Ways, KeysOf
  <2> QED BY <1>1, <2>3, <2>5
<1> QED BY <1>2, <1>4, <1>5

(* The others leave the tables alone, or empty them all (Found, Open,      *)
(* Close, UnloadPlugin).                                                   *)
LEMMA FinderSteps ==
  ASSUME FinderInv, P!Next
  PROVE  FinderInv'
<1> USE DEF FinderInv
<1>1. CASE P!Run
  BY <1>1, RunKeeps
<1>2. CASE P!Found
  <2>1. UNCHANGED <<fifo, probes, decoders, output, conv, tags, parsers, inUse, counts>>
        /\ fifo = <<>> /\ stage = "finding" /\ stage' \in {"ready", "unloaded"}
    BY <1>2 DEF P!Found
  <2>2. FinderTypes' /\ TablesInv' /\ FoundInv'
    BY <2>1 DEF FinderTypes, TablesInv, FoundInv, Placed, P!Keys, P!AllSuffix, P!AllEncoding, Owners, P!Good, KeysOf, Ways, Pending
  <2> QED BY <2>1, <2>2
<1>3. CASE (\E f \in File : P!Open(f)) \/ P!Close
  <2>1. UNCHANGED <<fifo, probes, decoders, output, conv, tags, parsers, counts, stage>>
    BY <1>3 DEF P!Open, P!Close
  <2>2. FinderTypes'
    BY <2>1 DEF FinderTypes, P!Keys, P!AllSuffix, P!AllEncoding, Owners
  <2>3. TablesInv'
    BY <2>1 DEF TablesInv, P!Keys, P!AllSuffix, P!AllEncoding, P!Good, KeysOf
  <2>4. FoundInv'
    BY <2>1 DEF FoundInv, Placed, P!Good, KeysOf, Ways, Pending
  <2> QED BY <2>1, <2>2, <2>3, <2>4
<1>4. CASE P!UnloadPlugin
  <2>1. /\ stage' = "unloaded" /\ fifo' = fifo /\ decoders' = P!Unclaimed(P!Keys)
        /\ conv' = P!Unclaimed(P!AllSuffix) /\ tags' = P!Unclaimed(P!AllSuffix) /\ parsers' = P!Unclaimed(P!AllSuffix)
    BY <1>4 DEF P!UnloadPlugin
  <2>2. FinderTypes'
    BY <2>1 DEF FinderTypes, P!Unclaimed, P!Keys, P!AllSuffix, P!AllEncoding, Owners
  <2>3. TablesInv'
    BY <2>1 DEF TablesInv, P!Unclaimed, P!Keys, P!AllSuffix, P!AllEncoding
  <2> QED BY <2>1, <2>2, <2>3 DEF FoundInv
<1> QED BY <1>1, <1>2, <1>3, <1>4 DEF P!Next

(* Once all has been gone through, what is found for a file is right and   *)
(* the same for all.                                                       *)
LEMMA FinderHolds == FinderInv => P!PluginsInv
<1> SUFFICES ASSUME FinderInv, stage = "ready", NEW f \in File
             PROVE  /\ LET able == {p \in P!Good("Decoder") : P!Detected(f) \in Encodings[p]}
                           claiming == {p \in P!Good("Decoder") : f.suffix \in SuffixesOf[p]}
                       IN IF able # {} THEN P!DecoderFor(f) \in able
                          ELSE IF claiming # {} THEN P!DecoderFor(f) \in claiming ELSE P!DecoderFor(f) = NoPlugin
                    /\ P!Detected(f) = "" => P!ConverterFor(f) = P!DecoderFor(f)
                    /\ P!TagParserIn(tags, f) = P!TagParserIn(parsers, f)
  BY DEF P!PluginsInv, P!RightDecoder, P!SameForAll
<1> DEFINE enc == P!Detected(f)
           able == {p \in P!Good("Decoder") : enc \in Encodings[p]}
           claiming == {p \in P!Good("Decoder") : f.suffix \in SuffixesOf[p]}
           byEncoding == P!Entry(decoders, <<"encoding", enc>>)
           bySuffix == P!Entry(decoders, <<"suffix", f.suffix>>)
<1>1. P!DecoderFor(f) = IF byEncoding # NoPlugin THEN byEncoding ELSE bySuffix
  BY DEF P!DecoderFor
<1>2. \A p \in P!Good("Decoder") : \A k \in KeysOf(p) : decoders[k] # NoPlugin
  <2> SUFFICES ASSUME NEW p \in P!Good("Decoder") PROVE Placed(p)
    BY DEF Placed
  <2>1. fifo = <<>> /\ Pending(fifo) = {}
    BY DEF FinderInv, Pending
  <2>2. PICK way : way \in Ways(p)
    BY PluginsAssumption DEF P!Good
  <2> QED BY <2>1, <2>2 DEF FinderInv, FoundInv
<1>3. \A k \in P!Keys : decoders[k] # NoPlugin => decoders[k] \in P!Good("Decoder") /\ k \in KeysOf(decoders[k])
  BY DEF FinderInv, TablesInv
<1>4. DOMAIN decoders = P!Keys /\ DOMAIN conv = P!AllSuffix
  BY DEF FinderInv, FinderTypes
<1> HIDE DEF enc
<1>5. ASSUME NEW p \in able PROVE byEncoding \in able
  <2>1. <<"encoding", enc>> \in KeysOf(p) /\ <<"encoding", enc>> \in P!Keys
    BY DEF KeysOf, P!Keys, P!AllEncoding, P!Good
  <2>2. decoders[<<"encoding", enc>>] \in P!Good("Decoder") /\ <<"encoding", enc>> \in KeysOf(decoders[<<"encoding", enc>>])
    BY <1>2, <1>3, <2>1
  <2>3. enc \in Encodings[decoders[<<"encoding", enc>>]]
    BY <2>2 DEF KeysOf
  <2> QED BY <1>4, <2>1, <2>2, <2>3 DEF P!Entry
<1>6. byEncoding # NoPlugin => byEncoding \in able
  <2> SUFFICES ASSUME byEncoding # NoPlugin PROVE byEncoding \in able
    OBVIOUS
  <2>1. <<"encoding", enc>> \in P!Keys /\ byEncoding = decoders[<<"encoding", enc>>]
    BY <1>4 DEF P!Entry
  <2>2. byEncoding \in P!Good("Decoder") /\ <<"encoding", enc>> \in KeysOf(byEncoding)
    BY <1>3, <2>1
  <2> QED BY <2>2 DEF KeysOf
<1>7. ASSUME NEW p \in claiming PROVE bySuffix \in claiming
  <2>1. <<"suffix", f.suffix>> \in KeysOf(p) /\ <<"suffix", f.suffix>> \in P!Keys
    BY DEF KeysOf, P!Keys, P!AllSuffix, P!Good
  <2>2. decoders[<<"suffix", f.suffix>>] \in P!Good("Decoder") /\ <<"suffix", f.suffix>> \in KeysOf(decoders[<<"suffix", f.suffix>>])
    BY <1>2, <1>3, <2>1
  <2>3. f.suffix \in SuffixesOf[decoders[<<"suffix", f.suffix>>]]
    BY <2>2 DEF KeysOf
  <2> QED BY <1>4, <2>1, <2>2, <2>3 DEF P!Entry
<1>8. bySuffix # NoPlugin => bySuffix \in claiming
  <2> SUFFICES ASSUME bySuffix # NoPlugin PROVE bySuffix \in claiming
    OBVIOUS
  <2>1. <<"suffix", f.suffix>> \in P!Keys /\ bySuffix = decoders[<<"suffix", f.suffix>>]
    BY <1>4 DEF P!Entry
  <2>2. bySuffix \in P!Good("Decoder") /\ <<"suffix", f.suffix>> \in KeysOf(bySuffix)
    BY <1>3, <2>1
  <2> QED BY <2>2 DEF KeysOf
<1>9. \A p \in P!Good("Decoder") : p # NoPlugin
  BY PluginsAssumption DEF P!Good
<1>10. enc = "" => able = {}
  BY PluginsAssumption DEF P!Good
<1>11. P!ConverterFor(f) = bySuffix
  <2>1. f.suffix \in P!AllSuffix <=> <<"suffix", f.suffix>> \in P!Keys
    BY DEF P!Keys
  <2>2. f.suffix \in P!AllSuffix => conv[f.suffix] = decoders[<<"suffix", f.suffix>>]
    BY DEF FinderInv, TablesInv
  <2> QED BY <1>4, <2>1, <2>2 DEF P!ConverterFor, P!Entry
<1> HIDE DEF able, claiming, byEncoding, bySuffix
<1>12. IF able # {} THEN P!DecoderFor(f) \in able
       ELSE IF claiming # {} THEN P!DecoderFor(f) \in claiming ELSE P!DecoderFor(f) = NoPlugin
  <2>1. NoPlugin \notin able
    BY <1>9 DEF able
  <2> QED BY <1>1, <1>5, <1>6, <1>7, <1>8, <2>1
<1>13. enc = "" => P!ConverterFor(f) = P!DecoderFor(f)
  BY <1>1, <1>6, <1>10, <1>11
<1>14. P!TagParserIn(tags, f) = P!TagParserIn(parsers, f)
  BY DEF FinderInv, TablesInv
<1> QED BY <1>12, <1>13, <1>14 DEF enc, able, claiming

-----------------------------------------------------------------------------
(* The editor of tags.                                                     *)

PicType == [front : BOOLEAN, pic : Picture]

TagsTypes ==
  /\ disk \in [Song -> [tag : T!Tag, pics : Seq(PicType)]] /\ rows \in [Song -> T!Tag]
  /\ mem \in [song : Song \cup {NoSong}, tag : T!Tag, pics : Seq(PicType)]
  /\ item \in [song : Song \cup {NoSong}, tag : T!Tag]
  /\ text \in T!Tag /\ unsaved \in SUBSET Field

(* The item that is shown is the one whose parser is kept; without one     *)
(* there is nothing to save.                                               *)
EditedInv ==
  /\ item.song = mem.song
  /\ mem.song = NoSong => mem = T!NoFile /\ unsaved = {}

(* A file that had only front covers has only such, and not more, and so   *)
(* has what the parser read of it.                                         *)
CoversOnly(pics, f) ==
  /\ \A i \in 1 .. Len(pics) : pics[i].front
  /\ Len(pics) <= (IF Pictures[f] = <<>> THEN 1 ELSE Len(Pictures[f]))

FrontInv ==
  \A f \in Song :
    T!FrontOnly(f) =>
      /\ CoversOnly(disk[f].pics, f)
      /\ mem.song = f => CoversOnly(mem.pics, f)

(* What is shown is the first picture of the file.                         *)
ShownInv == mem.song \in Song /\ T!FrontOnly(mem.song) /\ mem.song \notin restored => shown = T!DumpCover(disk[mem.song].pics)

EditorInv == TagsTypes /\ EditedInv /\ T!CopiesAgree /\ FrontInv /\ ShownInv

(* What a file has at first is as the invariant says.                      *)
LEMMA PicturesAre ==
  \A f \in Song : Pictures[f] \in Seq(PicType) /\ (T!FrontOnly(f) => CoversOnly(Pictures[f], f))
<1> SUFFICES ASSUME NEW f \in Song PROVE Pictures[f] \in Seq(PicType) /\ (T!FrontOnly(f) => CoversOnly(Pictures[f], f))
  OBVIOUS
<1>1. Pictures[f] \in Seq(PicType)
  BY TagsAssumption DEF PicType
<1>2. Pictures[f] = <<>> => Len(Pictures[f]) = 0
  OBVIOUS
<1> QED BY <1>1, <1>2 DEF CoversOnly, T!FrontOnly

(* In the beginning nothing is shown (Init).                               *)
LEMMA EditorStarts == T!Init => EditorInv
<1> SUFFICES ASSUME T!Init PROVE EditorInv
  OBVIOUS
<1>1. PICK t \in T!Tag : disk = [f \in Song |-> [tag |-> t, pics |-> Pictures[f]]] /\ rows = [f \in Song |-> t]
  BY DEF T!Init
<1>2. T!NoTag \in T!Tag
  BY <1>1 DEF T!NoTag
<1>3. /\ mem = T!NoFile /\ item = [song |-> NoSong, tag |-> T!NoTag] /\ text = T!NoTag /\ unsaved = {}
  BY DEF T!Init
<1>4. mem.song = NoSong /\ mem.tag = T!NoTag /\ mem.pics = <<>> /\ item.song = NoSong /\ item.tag = T!NoTag
  BY <1>3 DEF T!NoFile
<1>5. TagsTypes
  <2>1. <<>> \in Seq(PicType)
    OBVIOUS
  <2>2. mem \in [song : Song \cup {NoSong}, tag : T!Tag, pics : Seq(PicType)]
    BY <1>2, <1>3, <2>1 DEF T!NoFile
  <2>3. disk \in [Song -> [tag : T!Tag, pics : Seq(PicType)]] /\ rows \in [Song -> T!Tag]
    BY <1>1, PicturesAre
  <2> QED BY <1>2, <1>3, <2>2, <2>3 DEF TagsTypes
<1>6. EditedInv /\ T!CopiesAgree
  BY <1>1, <1>3, <1>4, TagsAssumption DEF EditedInv, T!CopiesAgree
<1>7. FrontInv /\ ShownInv
  BY <1>1, <1>4, PicturesAre, TagsAssumption DEF FrontInv, ShownInv
<1> QED BY <1>5, <1>6, <1>7 DEF EditorInv

(* The k-th of a finite set of numbers exists.                             *)
LEMMA KthExists ==
  ASSUME NEW S \in SUBSET Nat, IsFiniteSet(S), NEW k \in 1 .. Cardinality(S)
  PROVE  \E i \in S : Cardinality({j \in S : j <= i}) = k
<1> DEFINE Upto(i) == {j \in S : j <= i}
           n == Cardinality(S)
           rank == [i \in S |-> Cardinality(Upto(i))]
<1>1. n \in Nat
  BY FS_CardinalityType
<1>2. ASSUME NEW i \in S PROVE IsFiniteSet(Upto(i)) /\ Cardinality(Upto(i)) \in 1 .. n
  <2>1. Upto(i) \in SUBSET S /\ i \in Upto(i)
    OBVIOUS
  <2> HIDE DEF Upto
  <2>2. IsFiniteSet(Upto(i)) /\ Cardinality(Upto(i)) <= n
    BY <2>1, FS_Subset
  <2>3. Cardinality(Upto(i)) \in Nat /\ Cardinality(Upto(i)) # 0
    BY <2>1, <2>2, FS_CardinalityType, FS_EmptySet
  <2> QED BY <1>1, <2>2, <2>3
<1>3. ASSUME NEW a \in S, NEW b \in S, a < b PROVE Cardinality(Upto(a)) # Cardinality(Upto(b))
  <2>1. a \in Nat /\ b \in Nat /\ \A j \in S : j \in Nat
    OBVIOUS
  <2>2. \A j \in S : j <= a => j <= b
    BY <1>3, <2>1
  <2>3. b <= b /\ ~(b <= a)
    BY <1>3, <2>1
  <2>4. Upto(a) \in SUBSET Upto(b)
    BY <2>2
  <2>5. b \in Upto(b) /\ b \notin Upto(a)
    BY <2>3
  <2>6. IsFiniteSet(Upto(b))
    BY <1>2
  <2> HIDE DEF Upto
  <2> QED BY <2>4, <2>5, <2>6, FS_Subset
<1> HIDE DEF Upto, n
<1>4. rank \in [S -> 1 .. n]
  BY <1>2
<1>5. ASSUME NEW a \in S, NEW b \in S, rank[a] = rank[b] PROVE a = b
  <2>1. ~(a < b) /\ ~(b < a)
    BY <1>3, <1>5
  <2> QED BY <2>1
<1>6. rank \in Injection(S, 1 .. n)
  BY <1>4, <1>5 DEF Injection, IsInjective
<1>7. IsFiniteSet(1 .. n) /\ Cardinality(1 .. n) = n
  BY <1>1, FS_Interval
<1>8. rank \in Surjection(S, 1 .. n)
  BY <1>6, <1>7, FS_Injection DEF n
<1>9. PICK i \in S : rank[i] = k
  BY <1>8 DEF Surjection, n
<1> QED BY <1>9 DEF Upto

(* A cover is stored as the only front cover (StoreCoverArt): of pictures  *)
(* that were all front covers it alone is left.                            *)
LEMMA OnlyCover ==
  ASSUME NEW pics \in Seq(PicType), NEW c \in Picture
  PROVE  /\ T!StoreID3v2Cover(pics, c) \in Seq(PicType) /\ T!StoreMp4Cover(c) \in Seq(PicType)
         /\ T!StoreMp4Cover(c) = <<[front |-> TRUE, pic |-> c]>>
         /\ (\A i \in 1 .. Len(pics) : pics[i].front) =>
              T!StoreID3v2Cover(pics, c) = <<[front |-> TRUE, pic |-> c]>>
<1> DEFINE others == {i \in DOMAIN pics : ~pics[i].front}
           nth(k) == CHOOSE i \in others : Cardinality({j \in others : j <= i}) = k
           n == Cardinality(others)
<1>1. [front |-> TRUE, pic |-> c] \in PicType
  BY DEF PicType
<1>2. T!NotFront(pics) = [k \in 1 .. n |-> pics[nth(k)]]
  BY DEF T!NotFront, T!Cardinality, Cardinality
<1>3. others \in SUBSET Nat /\ IsFiniteSet(others) /\ others \in SUBSET (1 .. Len(pics))
  <2>1. IsFiniteSet(1 .. Len(pics)) /\ others \in SUBSET (1 .. Len(pics))
    BY FS_Interval
  <2> QED BY <2>1, FS_Subset
<1>4. n \in Nat
  BY <1>3, FS_CardinalityType
<1> HIDE DEF others
<1>5. ASSUME NEW k \in 1 .. n PROVE pics[nth(k)] \in PicType
  <2>1. \E i \in others : Cardinality({j \in others : j <= i}) = k
    BY <1>3, KthExists
  <2>2. nth(k) \in others
    BY <2>1
  <2> HIDE DEF nth
  <2>3. nth(k) \in 1 .. Len(pics)
    BY <1>3, <2>2
  <2> QED BY <2>3, ElementOfSeq
<1> HIDE DEF n, nth
<1>6. T!NotFront(pics) \in Seq(PicType)
  BY <1>2, <1>4, <1>5
<1>7. T!StoreID3v2Cover(pics, c) \in Seq(PicType)
  BY <1>1, <1>6 DEF T!StoreID3v2Cover
<1>8. T!StoreMp4Cover(c) \in Seq(PicType) /\ T!StoreMp4Cover(c) = <<[front |-> TRUE, pic |-> c]>>
  BY <1>1 DEF T!StoreMp4Cover
<1>9. ASSUME \A i \in 1 .. Len(pics) : pics[i].front
      PROVE  T!StoreID3v2Cover(pics, c) = <<[front |-> TRUE, pic |-> c]>>
  <2>1. others = {}
    BY <1>9 DEF others
  <2>2. n = 0
    BY <2>1, FS_EmptySet DEF n
  <2>3. T!NotFront(pics) = <<>>
    BY <1>2, <2>2
  <2> QED BY <1>1, <2>3 DEF T!StoreID3v2Cover
<1> QED BY <1>7, <1>8, <1>9

(* The item that begins to play (LoadMediaItem).                           *)
LEMMA LoadItemKeeps ==
  ASSUME EditorInv, NEW f \in Song, T!LoadMediaItem(f)
  PROVE  EditorInv'
<1> USE DEF EditorInv
<1>1. /\ mem' = [song |-> f, tag |-> disk[f].tag, pics |-> disk[f].pics]
      /\ item' = [song |-> f, tag |-> rows[f]] /\ text' = rows[f] /\ unsaved' = {}
      /\ shown' = T!DumpCover(disk[f].pics) /\ UNCHANGED <<disk, rows, failed, restored>>
  BY DEF T!LoadMediaItem
<1>2. disk[f].tag \in T!Tag /\ disk[f].pics \in Seq(PicType) /\ rows[f] \in T!Tag
  BY DEF TagsTypes
<1>3. mem'.song = f /\ mem'.tag = disk[f].tag /\ mem'.pics = disk[f].pics /\ item'.song = f /\ item'.tag = rows[f]
  BY <1>1
<1>4. TagsTypes'
  BY <1>1, <1>2 DEF TagsTypes
<1>5. EditedInv' /\ T!CopiesAgree'
  BY <1>1, <1>3, TagsAssumption DEF EditedInv, T!CopiesAgree
<1>6. FrontInv' /\ ShownInv'
  BY <1>1, <1>3 DEF FrontInv, ShownInv, CoversOnly, T!FrontOnly, T!DumpCover
<1> QED BY <1>4, <1>5, <1>6

(* A field is edited, or what was edited taken back (SlotCellChanged,      *)
(* SlotBtnCancel).                                                         *)
LEMMA CellKeeps ==
  ASSUME EditorInv, (\E x \in Field, v \in Value : T!SlotCellChanged(x, v)) \/ T!SlotBtnCancel
  PROVE  EditorInv'
<1> USE DEF EditorInv
<1>1. UNCHANGED <<disk, mem, item, shown, rows, failed, restored>>
  BY DEF T!SlotCellChanged, T!SlotBtnCancel
<1>2. FrontInv' /\ ShownInv'
  BY <1>1 DEF FrontInv, ShownInv, CoversOnly, T!FrontOnly, T!DumpCover
<1>3. CASE \E x \in Field, v \in Value : T!SlotCellChanged(x, v)
  <2>1. PICK x \in Field, v \in Value : T!SlotCellChanged(x, v)
    BY <1>3
  <2>2. text' = [text EXCEPT ![x] = v] /\ unsaved' = unsaved \cup {x} /\ mem # T!NoFile
    BY <2>1 DEF T!SlotCellChanged
  <2>3. TagsTypes'
    BY <1>1, <2>2 DEF TagsTypes, T!Tag
  <2>4. EditedInv'
    BY <1>1, <2>2 DEF EditedInv, T!NoFile, T!NoTag, T!Tag
  <2>5. T!CopiesAgree'
    BY <1>1, <2>2 DEF T!CopiesAgree, TagsTypes, T!Tag
  <2> QED BY <1>2, <2>3, <2>4, <2>5
<1>4. CASE T!SlotBtnCancel
  <2>1. text' = item.tag /\ unsaved' = {}
    BY <1>4 DEF T!SlotBtnCancel
  <2>2. TagsTypes'
    BY <1>1, <2>1 DEF TagsTypes, T!Tag
  <2>3. EditedInv'
    BY <1>1, <2>1 DEF EditedInv, T!NoFile, T!NoTag, T!Tag
  <2>4. T!CopiesAgree'
    BY <1>1, <2>1 DEF T!CopiesAgree
  <2> QED BY <1>2, <2>2, <2>3, <2>4
<1> QED BY <1>3, <1>4

(* The edited fields are saved, or the save fails (SlotBtnSave).           *)
LEMMA SaveKeeps ==
  ASSUME EditorInv, T!SlotBtnSave
  PROVE  EditorInv'
<1> USE DEF EditorInv
<1>1. PICK f \in Song : f = mem.song /\ f = item.song
  BY DEF T!SlotBtnSave, EditedInv, TagsTypes
<1>2. unsaved # {} /\ unsaved' = {} /\ shown' = shown /\ mem' = [mem EXCEPT !.tag = T!With(@)]
  BY DEF T!SlotBtnSave
<1>3. \A tag \in T!Tag : T!With(tag) \in T!Tag
  BY DEF T!With, T!Tag, TagsTypes
<1>4. mem' \in [song : Song \cup {NoSong}, tag : T!Tag, pics : Seq(PicType)]
      /\ mem'.song = f /\ mem'.tag = T!With(mem.tag) /\ mem'.pics = mem.pics
  BY <1>1, <1>2, <1>3 DEF TagsTypes
<1>5. CASE /\ disk' = [disk EXCEPT ![mem.song] = [tag |-> T!With(mem.tag), pics |-> mem.pics]]
           /\ item' = [item EXCEPT !.tag = T!With(@)]
           /\ rows' = [rows EXCEPT ![item.song] = T!With(item.tag)]
           /\ restored' = (IF disk[mem.song].pics = mem.pics THEN restored ELSE restored \cup {mem.song})
           /\ UNCHANGED <<text, failed>>
  <2>1. /\ item' \in [song : Song \cup {NoSong}, tag : T!Tag] /\ item'.song = f /\ item'.tag = T!With(item.tag)
        /\ mem.tag \in T!Tag /\ mem.pics \in Seq(PicType) /\ item.tag \in T!Tag
    BY <1>1, <1>3, <1>5 DEF TagsTypes
  <2>2. /\ disk' \in [Song -> [tag : T!Tag, pics : Seq(PicType)]] /\ rows' \in [Song -> T!Tag]
        /\ disk'[f].tag = T!With(mem.tag) /\ disk'[f].pics = mem.pics /\ rows'[f] = T!With(item.tag)
        /\ \A g \in Song \ {f} : disk'[g] = disk[g] /\ rows'[g] = rows[g]
    BY <1>1, <1>3, <1>5, <2>1 DEF TagsTypes
  <2>3. TagsTypes'
    BY <1>2, <1>4, <1>5, <2>1, <2>2 DEF TagsTypes
  <2>4. EditedInv'
    BY <1>1, <1>4, <2>1, TagsAssumption DEF EditedInv
  <2>5. \A x \in Field : text[x] = T!With(item.tag)[x]
    BY DEF T!With, T!CopiesAgree
  <2>6. T!CopiesAgree'
    <3>1. \A x \in Field \ unsaved' : text'[x] = item'.tag[x]
      BY <1>5, <2>1, <2>5
    <3>2. ASSUME NEW g \in Song \ failed'
          PROVE  (/\ rows[g] = disk[g].tag
                  /\ mem.song = g => mem.tag = disk[g].tag /\ item.tag = disk[g].tag)'
      <4>1. rows[g] = disk[g].tag /\ (mem.song = g => mem.tag = disk[g].tag /\ item.tag = disk[g].tag)
        BY <1>5 DEF T!CopiesAgree
      <4>2. CASE g = f
        BY <1>1, <1>4, <2>1, <2>2, <4>1, <4>2
      <4>3. CASE g # f
        BY <1>4, <2>2, <4>1, <4>3
      <4> QED BY <4>2, <4>3
    <3> QED BY <3>1, <3>2 DEF T!CopiesAgree
  <2>7. FrontInv'
    BY <1>1, <1>4, <2>2 DEF FrontInv, CoversOnly, T!FrontOnly
  <2>8. ShownInv'
    BY <1>1, <1>2, <1>4, <1>5, <2>2 DEF ShownInv, T!FrontOnly, T!DumpCover
  <2> QED BY <2>3, <2>4, <2>6, <2>7, <2>8
<1>6. CASE text' = item.tag /\ failed' = failed \cup {mem.song} /\ UNCHANGED <<disk, item, rows, restored>>
  <2>1. TagsTypes'
    BY <1>2, <1>4, <1>6 DEF TagsTypes
  <2>2. EditedInv'
    BY <1>1, <1>4, <1>6, TagsAssumption DEF EditedInv
  <2>3. T!CopiesAgree'
    BY <1>1, <1>4, <1>6 DEF T!CopiesAgree
  <2>4. FrontInv' /\ ShownInv'
    BY <1>1, <1>2, <1>4, <1>6 DEF FrontInv, ShownInv, CoversOnly, T!FrontOnly, T!DumpCover
  <2> QED BY <2>1, <2>2, <2>3, <2>4
<1> QED BY <1>5, <1>6 DEF T!SlotBtnSave

(* A cover is stored (SlotChangeCoverArt).                                 *)
LEMMA CoverKeeps ==
  ASSUME EditorInv, NEW c \in Picture, T!SlotChangeCoverArt(c)
  PROVE  EditorInv'
<1> USE DEF EditorInv
<1>1. /\ mem # T!NoFile /\ disk' = T!StoreCoverArt(mem.song, c) /\ shown' = c
      /\ restored' = restored \ {mem.song} /\ UNCHANGED <<mem, item, text, unsaved, rows, failed>>
  BY DEF T!SlotChangeCoverArt
<1>2. PICK f \in Song : f = mem.song
  BY <1>1 DEF EditedInv, TagsTypes
<1>3. disk[f].pics \in Seq(PicType) /\ disk[f].tag \in T!Tag
  BY DEF TagsTypes
<1> DEFINE new == IF f \in Mp3 THEN T!StoreID3v2Cover(disk[f].pics, c) ELSE T!StoreMp4Cover(c)
<1>4. /\ new \in Seq(PicType)
      /\ (\A i \in 1 .. Len(disk[f].pics) : disk[f].pics[i].front) => new = <<[front |-> TRUE, pic |-> c]>>
  BY <1>3, OnlyCover
<1>5. disk' = [disk EXCEPT ![f].pics = new]
  BY <1>1, <1>2 DEF T!StoreCoverArt
<1> HIDE DEF new
<1>6. /\ disk' \in [Song -> [tag : T!Tag, pics : Seq(PicType)]]
      /\ disk'[f].tag = disk[f].tag /\ disk'[f].pics = new
      /\ \A g \in Song \ {f} : disk'[g] = disk[g]
  BY <1>3, <1>4, <1>5 DEF TagsTypes
<1>7. TagsTypes'
  BY <1>1, <1>6 DEF TagsTypes
<1>8. EditedInv'
  BY <1>1 DEF EditedInv, T!NoFile, T!NoTag, T!Tag
<1>9. T!CopiesAgree'
  BY <1>1, <1>6 DEF T!CopiesAgree
<1>10. T!FrontOnly(f) => new = <<[front |-> TRUE, pic |-> c]>>
  BY <1>4 DEF FrontInv, CoversOnly
<1>11. T!FrontOnly(f) => CoversOnly(new, f)
  <2>1. SUFFICES ASSUME T!FrontOnly(f) PROVE CoversOnly(new, f)
    OBVIOUS
  <2>2. Len(new) = 1 /\ \A i \in 1 .. Len(new) : new[i].front
    <3> DEFINE cover == [front |-> TRUE, pic |-> c]
    <3>1. cover.front /\ new = <<cover>>
      BY <1>10, <2>1
    <3> HIDE DEF cover
    <3>2. Len(new) = 1 /\ new[1] = cover
      BY <3>1
    <3>3. \A i \in 1 .. 1 : i = 1
      OBVIOUS
    <3> QED BY <3>1, <3>2, <3>3
  <2>3. Pictures[f] # <<>> => Len(Pictures[f]) >= 1
    <3>1. Pictures[f] \in Seq(PicType)
      BY PicturesAre
    <3> QED BY <3>1
  <2> QED BY <2>2, <2>3 DEF CoversOnly
<1>12. FrontInv'
  <2> SUFFICES ASSUME NEW g \in Song, T!FrontOnly(g)
               PROVE (CoversOnly(disk[g].pics, g) /\ (mem.song = g => CoversOnly(mem.pics, g)))'
    BY DEF FrontInv, T!FrontOnly
  <2>1. CoversOnly(disk[g].pics, g) /\ (mem.song = g => CoversOnly(mem.pics, g))
    BY DEF FrontInv
  <2>2. disk'[g].pics = IF g = f THEN new ELSE disk[g].pics
    BY <1>6
  <2> QED BY <1>1, <1>11, <2>1, <2>2 DEF CoversOnly
<1>13. ShownInv'
  <2> SUFFICES ASSUME T!FrontOnly(f) PROVE c = T!DumpCover(new)
    BY <1>1, <1>2, <1>6 DEF ShownInv, T!FrontOnly, T!DumpCover
  <2>1. new # <<>> /\ Head(new) = [front |-> TRUE, pic |-> c]
    BY <1>10
  <2> QED BY <2>1 DEF T!DumpCover
<1> QED BY <1>7, <1>8, <1>9, <1>12, <1>13

(* A list loads the file (LoadRow): one of which a save has failed.        *)
LEMMA RowKeeps ==
  ASSUME EditorInv, NEW f \in Song, T!LoadRow(f)
  PROVE  EditorInv'
<1> USE DEF EditorInv
<1>1. /\ rows[f] # disk[f].tag /\ rows' = [rows EXCEPT ![f] = disk[f].tag]
      /\ UNCHANGED <<disk, mem, item, text, unsaved, shown, failed, restored>>
  BY DEF T!LoadRow
<1>2. f \in failed
  BY <1>1 DEF T!CopiesAgree
<1>3. TagsTypes'
  BY <1>1 DEF TagsTypes
<1>4. EditedInv'
  BY <1>1 DEF EditedInv, T!NoFile, T!NoTag, T!Tag
<1>5. T!CopiesAgree'
  BY <1>1, <1>2 DEF T!CopiesAgree, TagsTypes
<1>6. FrontInv' /\ ShownInv'
  BY <1>1 DEF FrontInv, ShownInv, CoversOnly, T!FrontOnly, T!DumpCover
<1> QED BY <1>3, <1>4, <1>5, <1>6

(* Every step of the editor keeps its invariant (Next).                    *)
LEMMA EditorSteps == EditorInv /\ T!Next => EditorInv'
BY LoadItemKeeps, CellKeeps, SaveKeeps, CoverKeeps, RowKeeps DEF T!Next

(* Which says what the property does.                                      *)
LEMMA EditorHolds == EditorInv => T!TagsInv
<1> SUFFICES ASSUME EditorInv, mem # T!NoFile, T!FrontOnly(mem.song), mem.song \notin restored
             PROVE  /\ shown = T!DumpCover(disk[mem.song].pics)
                    /\ T!Cardinality({i \in DOMAIN disk[mem.song].pics : disk[mem.song].pics[i].front})
                         <= (IF Pictures[mem.song] = <<>> THEN 1 ELSE Len(Pictures[mem.song]))
  BY DEF EditorInv, T!TagsInv, T!CoverShown
<1>1. mem.song \in Song
  BY DEF EditorInv, EditedInv, TagsTypes
<1>2. shown = T!DumpCover(disk[mem.song].pics)
  BY <1>1 DEF EditorInv, ShownInv
<1> DEFINE pics == disk[mem.song].pics
           fronts == {i \in DOMAIN pics : pics[i].front}
           most == IF Pictures[mem.song] = <<>> THEN 1 ELSE Len(Pictures[mem.song])
<1>3. pics \in Seq(PicType)
  BY <1>1 DEF EditorInv, TagsTypes
<1>4. Len(pics) <= most /\ most \in Nat
  BY <1>1, PicturesAre DEF EditorInv, FrontInv, CoversOnly
<1>5. fronts \in SUBSET (1 .. Len(pics))
  BY <1>3
<1> HIDE DEF pics, fronts, most
<1>6. Len(pics) \in Nat /\ IsFiniteSet(1 .. Len(pics)) /\ Cardinality(1 .. Len(pics)) = Len(pics)
  <2>1. Len(pics) \in Nat
    BY <1>3
  <2> QED BY <2>1, FS_Interval
<1>7. Cardinality(fronts) <= Len(pics) /\ Cardinality(fronts) \in Nat
  BY <1>5, <1>6, FS_Subset, FS_CardinalityType
<1>8. Cardinality(fronts) <= most
  BY <1>3, <1>4, <1>7
<1> QED BY <1>2, <1>8 DEF T!Cardinality, Cardinality, pics, fronts, most

-----------------------------------------------------------------------------
(* A signal.                                                               *)

Slot == [id : Address, fn : G!Function, obj : {t.obj : t \in Target}]

SignalTypes ==
  /\ guarded \in BOOLEAN /\ erased \in BOOLEAN /\ astray \in BOOLEAN
  /\ slots \in Seq(Slot) /\ called \in Seq(Slot)
  /\ emitting \in [at : {"off", "test", "element", "slot"}, i : Nat]
  /\ emitting.at = "off" => emitting = G!Idle

Distinct(s) == \A j, k \in 1 .. Len(s) : s[j].id = s[k].id => j = k

(* The slots that were called are the first ones, as many as the emission  *)
(* has gone past, unless one has been taken out since.                     *)
CalledInv ==
  /\ emitting.at = "off" => called = <<>> /\ ~erased
  /\ erased => called = <<>>
  /\ Len(called) <= Len(slots) /\ \A k \in 1 .. Len(called) : called[k] = slots[k]
  /\ emitting.at \in {"test", "element"} /\ ~erased => Len(called) = emitting.i - 1
  /\ emitting.at = "slot" /\ ~erased => Len(called) = emitting.i
  /\ emitting.at \in {"element", "slot"} /\ ~erased => emitting.i \in 1 .. Len(slots)
  /\ guarded => ~erased /\ ~astray

SignalInv == SignalTypes /\ Distinct(slots) /\ G!NobodyGone /\ CalledInv

(* What is left of a sequence are others of its members, in other places   *)
(* (Without).                                                              *)
LEMMA WithoutIs ==
  ASSUME NEW S, NEW s \in Seq(S), NEW fits
  PROVE  /\ G!Without(s, fits) \in Seq(S)
         /\ \E was \in [1 .. Len(G!Without(s, fits)) -> 1 .. Len(s)] :
              \A n \in 1 .. Len(G!Without(s, fits)) :
                /\ G!Without(s, fits)[n] = s[was[n]] /\ s[was[n]] \notin fits
                /\ \A m \in 1 .. Len(G!Without(s, fits)) : was[m] = was[n] => m = n
<1> DEFINE kept == {k \in DOMAIN s : s[k] \notin fits}
           upto(k) == {j \in kept : j <= k}
           size == Cardinality(kept)
           nth(n) == CHOOSE k \in kept : Cardinality(upto(k)) = n
           new == G!Without(s, fits)
<1>1. new = [n \in 1 .. size |-> s[nth(n)]]
  BY DEF G!Without, G!Cardinality, Cardinality
<1>2. kept \in SUBSET (1 .. Len(s)) /\ kept \in SUBSET Nat /\ IsFiniteSet(kept)
  <2>1. IsFiniteSet(1 .. Len(s)) /\ kept \in SUBSET (1 .. Len(s))
    BY FS_Interval
  <2> QED BY <2>1, FS_Subset
<1>3. size \in Nat
  BY <1>2, FS_CardinalityType
<1>4. \A k \in kept : s[k] \notin fits
  OBVIOUS
<1> HIDE DEF kept
<1>5. ASSUME NEW n \in 1 .. size PROVE nth(n) \in kept /\ Cardinality(upto(nth(n))) = n
  <2>1. \E k \in kept : Cardinality(upto(k)) = n
    BY <1>2, KthExists
  <2> HIDE DEF upto
  <2> QED BY <2>1
<1> HIDE DEF size, nth, upto, new
<1>6. ASSUME NEW n \in 1 .. size PROVE nth(n) \in 1 .. Len(s) /\ s[nth(n)] \in S /\ s[nth(n)] \notin fits
  <2>1. nth(n) \in 1 .. Len(s)
    BY <1>2, <1>5
  <2>2. s[nth(n)] \in S
    BY <2>1, ElementOfSeq
  <2> QED BY <1>4, <1>5, <2>1, <2>2
<1>7. new \in Seq(S) /\ Len(new) = size /\ \A n \in 1 .. size : new[n] = s[nth(n)]
  <2>1. new \in [1 .. size -> S]
    BY <1>1, <1>6
  <2>2. new \in Seq(S) /\ Len(new) = size
    BY <1>3, <2>1
  <2> QED BY <1>1, <2>2
<1>8. ASSUME NEW n \in 1 .. size, NEW m \in 1 .. size, nth(m) = nth(n) PROVE m = n
  BY <1>5, <1>8
<1> DEFINE was == [n \in 1 .. size |-> nth(n)]
<1>9. was \in [1 .. size -> 1 .. Len(s)]
  BY <1>6
<1>10. \A n \in 1 .. size : /\ new[n] = s[was[n]] /\ s[was[n]] \notin fits
                            /\ \A m \in 1 .. size : was[m] = was[n] => m = n
  BY <1>6, <1>7, <1>8
<1> HIDE DEF was
<1> QED BY <1>7, <1>9, <1>10 DEF new

(* In the beginning nothing is connected (Init).                           *)
LEMMA SignalStarts == G!Init => SignalInv
<1> SUFFICES ASSUME G!Init PROVE SignalInv
  OBVIOUS
<1>1. /\ guarded \in BOOLEAN /\ slots = <<>> /\ emitting = [at |-> "off", i |-> 0]
      /\ called = <<>> /\ erased = FALSE /\ astray = FALSE
  BY DEF G!Init, G!Idle
<1>2. <<>> \in Seq(Slot) /\ Len(<<>>) = 0
  OBVIOUS
<1>3. SignalTypes
  BY <1>1, <1>2 DEF SignalTypes, G!Idle
<1>4. Distinct(slots) /\ G!NobodyGone /\ CalledInv
  BY <1>1, <1>2 DEF Distinct, G!NobodyGone, G!Range, CalledInv
<1> QED BY <1>3, <1>4 DEF SignalInv

(* A slot is connected (Connect): its id is that of no other.              *)
LEMMA ConnectKeeps ==
  ASSUME SignalInv, NEW t \in Target, G!Connect(t)
  PROVE  SignalInv'
<1> USE DEF SignalInv
<1> DEFINE free == CHOOSE id \in Address : id \notin G!Ids(slots)
           slot == [id |-> free, fn |-> t.fn, obj |-> t.obj]
<1>1. /\ G!MayUse /\ Address \ G!Ids(slots) # {} /\ slots' = Append(slots, slot) /\ left' = left \ {t.obj}
      /\ UNCHANGED <<guarded, emitting, emits, called, erased, astray>>
  BY DEF G!Connect
<1>2. free \in Address /\ free \notin G!Ids(slots)
  BY <1>1
<1> HIDE DEF free
<1>3. slot \in Slot
  BY <1>2 DEF Slot, G!Function
<1>4. \A k \in 1 .. Len(slots) : slots[k].id # free
  BY <1>2 DEF G!Ids, G!Range, SignalTypes
<1>5. slot.id = free /\ slot.obj = t.obj
  OBVIOUS
<1> HIDE DEF slot
<1>6. /\ slots' \in Seq(Slot) /\ Len(slots') = Len(slots) + 1 /\ slots'[Len(slots) + 1] = slot /\ Len(slots) \in Nat
      /\ \A k \in 1 .. Len(slots) : slots'[k] = slots[k]
  BY <1>1, <1>3 DEF SignalTypes
<1>7. SignalTypes'
  BY <1>1, <1>6 DEF SignalTypes, G!Idle, Slot, G!Function
<1>8. Distinct(slots)'
  BY <1>4, <1>5, <1>6 DEF Distinct
<1>9. G!NobodyGone'
  <2>1. ASSUME NEW k \in 1 .. Len(slots') PROVE slots'[k].obj \notin left'
    <3>1. CASE k = Len(slots) + 1
      BY <1>1, <1>5, <1>6, <3>1
    <3>2. CASE k # Len(slots) + 1
      <4>1. k \in 1 .. Len(slots) /\ slots'[k] = slots[k]
        BY <1>6, <3>2
      <4>2. slots[k].obj \notin left
        BY <4>1 DEF G!NobodyGone, G!Range, SignalTypes
      <4> QED BY <1>1, <4>1, <4>2
    <3> QED BY <3>1, <3>2
  <2>2. DOMAIN slots' = 1 .. Len(slots')
    BY <1>6
  <2> QED BY <2>1, <2>2 DEF G!NobodyGone, G!Range
<1>10. CalledInv'
  BY <1>1, <1>6 DEF CalledInv, SignalTypes
<1> QED BY <1>7, <1>8, <1>9, <1>10

(* Slots are taken out (Erase).                                            *)
LEMMA EraseKeeps ==
  ASSUME SignalInv, NEW fits, G!Erase(fits), NEW obj,
         \/ left' = left
         \/ left' = left \cup {obj} /\ \A k \in 1 .. Len(slots) : slots[k].obj = obj => slots[k] \in fits
  PROVE  SignalInv'
<1> USE DEF SignalInv
<1>1. /\ G!MayUse /\ slots' = G!Without(slots, fits) /\ erased' = (erased \/ emitting # G!Idle) /\ called' = <<>>
      /\ astray' = (emitting.at = "slot" /\ ~erased /\ slots[emitting.i] \in fits)
      /\ UNCHANGED <<guarded, emitting, emits>>
  BY DEF G!Erase
<1>2. slots \in Seq(Slot)
  BY DEF SignalTypes
<1>3. slots' \in Seq(Slot)
  BY <1>1, <1>2, WithoutIs
<1>4. PICK was \in [1 .. Len(slots') -> 1 .. Len(slots)] :
        \A n \in 1 .. Len(slots') :
          /\ slots'[n] = slots[was[n]] /\ slots[was[n]] \notin fits
          /\ \A m \in 1 .. Len(slots') : was[m] = was[n] => m = n
  BY <1>1, <1>2, WithoutIs
<1>5. SignalTypes'
  <2>1. <<>> \in Seq(Slot)
    OBVIOUS
  <2>2. erased' \in BOOLEAN /\ astray' \in BOOLEAN
    BY <1>1
  <2> QED BY <1>1, <1>3, <2>1, <2>2 DEF SignalTypes, G!Idle, Slot, G!Function
<1>6. Distinct(slots)'
  BY <1>4 DEF Distinct
<1>7. G!NobodyGone'
  <2>1. ASSUME NEW n \in 1 .. Len(slots') PROVE slots'[n].obj \notin left'
    <3>1. was[n] \in 1 .. Len(slots) /\ slots'[n] = slots[was[n]] /\ slots[was[n]] \notin fits
      BY <1>4
    <3>2. slots[was[n]].obj \notin left
      BY <1>2, <3>1 DEF G!NobodyGone, G!Range
    <3> QED BY <3>1, <3>2
  <2>2. DOMAIN slots' = 1 .. Len(slots')
    BY <1>3
  <2> QED BY <2>1, <2>2 DEF G!NobodyGone, G!Range
<1>8. CalledInv'
  <2>1. Len(called') = 0 /\ Len(slots') \in Nat
    BY <1>1, <1>3
  <2>2. emitting.at # "off" => erased'
    <3>1. ASSUME emitting.at # "off" PROVE emitting # G!Idle
      BY <3>1 DEF G!Idle
    <3>2. emitting # G!Idle => erased'
      BY <1>1
    <3> QED BY <3>1, <3>2
  <2>3. emitting.at = "off" => ~erased' /\ ~astray'
    BY <1>1 DEF SignalTypes, CalledInv
  <2>4. guarded => emitting.at = "off"
    BY <1>1 DEF G!MayUse, G!Idle
  <2> QED BY <1>1, <2>1, <2>2, <2>3, <2>4 DEF CalledInv
<1> QED BY <1>5, <1>6, <1>7, <1>8

(* A slot, a function or an object is disconnected, or all are             *)
(* (DisconnectId and the others).                                          *)
LEMMA DisconnectKeeps ==
  ASSUME SignalInv,
         \/ \E id \in Address : G!DisconnectId(id)
         \/ \E fn \in G!Function : G!DisconnectFunction(fn) \/ \E obj \in G!Object : G!DisconnectMember(fn, obj)
         \/ \E obj \in G!Object : G!DisconnectObject(obj)
         \/ G!Clear
  PROVE  SignalInv'
<1>1. CASE \E obj \in G!Object : G!DisconnectObject(obj)
  <2>1. PICK obj \in G!Object : G!DisconnectObject(obj)
    BY <1>1
  <2> DEFINE fits == {slot \in G!Range(slots) : slot.obj = obj}
  <2>2. G!Erase(fits) /\ left' = left \cup {obj}
    BY <2>1 DEF G!DisconnectObject
  <2>3. \A k \in 1 .. Len(slots) : slots[k].obj = obj => slots[k] \in fits
    BY DEF G!Range, SignalInv, SignalTypes
  <2> HIDE DEF fits
  <2> QED BY <2>2, <2>3, EraseKeeps
<1>2. CASE ~\E obj \in G!Object : G!DisconnectObject(obj)
  <2>1. PICK fits : G!Erase(fits) /\ left' = left
    BY <1>2 DEF G!DisconnectId, G!DisconnectFunction, G!DisconnectMember, G!Clear
  <2> QED BY <2>1, EraseKeeps
<1> QED BY <1>1, <1>2

(* The loop of an emission (Emit, Test, Invoke, Return).                   *)
LEMMA LoopKeeps ==
  ASSUME SignalInv, ~astray, G!Emit \/ G!Test \/ G!Invoke \/ G!Return
  PROVE  SignalInv'
<1> USE DEF SignalInv
<1>1. slots' = slots /\ guarded' = guarded /\ left' = left
  BY DEF G!Emit, G!Test, G!Invoke, G!Return
<1>2. Distinct(slots)' /\ G!NobodyGone'
  BY <1>1 DEF Distinct, G!NobodyGone, G!Range
<1>3. emitting.i \in Nat /\ Len(slots) \in Nat /\ Len(called) \in Nat
  BY DEF SignalTypes
<1>4. CASE G!Emit
  <2>1. emitting' = [at |-> "test", i |-> 1] /\ emitting.at = "off" /\ UNCHANGED <<called, erased, astray>>
    BY <1>4 DEF G!Emit, G!Idle
  <2>2. emitting'.at = "test" /\ emitting'.i = 1
    BY <2>1
  <2>3. SignalTypes'
    BY <1>1, <2>1 DEF SignalTypes, Slot, G!Function
  <2>4. Len(called) = 0
    BY <2>1 DEF CalledInv
  <2>5. CalledInv'
    BY <1>1, <2>1, <2>2, <2>4 DEF CalledInv
  <2> QED BY <1>2, <2>3, <2>5
<1>5. CASE G!Test
  <2>1. emitting.at = "test" /\ astray' = astray
    BY <1>5 DEF G!Test
  <2>2. CASE emitting.i <= Len(slots)
    <3>1. emitting' = [emitting EXCEPT !.at = "element"] /\ UNCHANGED <<called, erased>>
      BY <1>5, <2>2 DEF G!Test
    <3>2. emitting'.at = "element" /\ emitting'.i = emitting.i
          /\ emitting' \in [at : {"off", "test", "element", "slot"}, i : Nat]
      BY <3>1 DEF SignalTypes
    <3>3. SignalTypes'
      BY <1>1, <2>1, <3>1, <3>2 DEF SignalTypes, Slot, G!Function
    <3>4. CalledInv'
      BY <1>1, <1>3, <2>1, <2>2, <3>1, <3>2 DEF CalledInv
    <3> QED BY <1>2, <3>3, <3>4
  <2>3. CASE ~(emitting.i <= Len(slots))
    <3>1. emitting' = G!Idle /\ called' = <<>> /\ erased' = FALSE
      BY <1>5, <2>3 DEF G!Test
    <3>2. emitting'.at = "off" /\ emitting' \in [at : {"off", "test", "element", "slot"}, i : Nat]
      BY <3>1 DEF G!Idle
    <3>3. <<>> \in Seq(Slot) /\ Len(<<>>) = 0
      OBVIOUS
    <3>4. SignalTypes'
      BY <1>1, <2>1, <3>1, <3>2, <3>3 DEF SignalTypes, Slot, G!Function, G!Idle
    <3>5. CalledInv'
      BY <1>1, <1>3, <2>1, <3>1, <3>2, <3>3 DEF CalledInv
    <3> QED BY <1>2, <3>4, <3>5
  <2> QED BY <2>2, <2>3
<1>6. CASE G!Invoke
  <2>1. emitting.at = "element" /\ erased' = erased
    BY <1>6 DEF G!Invoke
  <2>2. CASE emitting.i <= Len(slots)
    <3>1. emitting' = [emitting EXCEPT !.at = "slot"] /\ astray' = astray
          /\ called' = (IF erased THEN <<>> ELSE Append(called, slots[emitting.i]))
      BY <1>6, <2>2 DEF G!Invoke
    <3>2. emitting'.at = "slot" /\ emitting'.i = emitting.i
          /\ emitting' \in [at : {"off", "test", "element", "slot"}, i : Nat]
      BY <3>1 DEF SignalTypes
    <3>3. CASE erased
      <4>1. called' = <<>> /\ <<>> \in Seq(Slot) /\ Len(<<>>) = 0
        BY <3>1, <3>3
      <4>2. SignalTypes'
        BY <1>1, <2>1, <3>1, <3>2, <4>1 DEF SignalTypes, Slot, G!Function
      <4>3. CalledInv'
        BY <1>1, <1>3, <2>1, <3>1, <3>2, <3>3, <4>1 DEF CalledInv
      <4> QED BY <1>2, <4>2, <4>3
    <3>4. CASE ~erased
      <4>1. emitting.i \in 1 .. Len(slots) /\ Len(called) = emitting.i - 1
        BY <2>1, <3>4 DEF CalledInv
      <4>2. slots[emitting.i] \in Slot
        BY <4>1 DEF SignalTypes
      <4>3. called' = Append(called, slots[emitting.i])
        BY <3>1, <3>4
      <4>4. /\ called' \in Seq(Slot) /\ Len(called') = emitting.i /\ called'[emitting.i] = slots[emitting.i]
            /\ \A k \in 1 .. Len(called) : called'[k] = called[k]
        BY <1>3, <4>1, <4>2, <4>3 DEF SignalTypes
      <4>5. SignalTypes'
        BY <1>1, <2>1, <3>1, <3>2, <4>4 DEF SignalTypes, Slot, G!Function
      <4>6. \A k \in 1 .. Len(called') : called'[k] = slots[k]
        BY <1>3, <4>1, <4>4 DEF CalledInv
      <4>7. CalledInv'
        BY <1>1, <1>3, <2>1, <3>1, <3>2, <3>4, <4>1, <4>4, <4>6 DEF CalledInv
      <4> QED BY <1>2, <4>5, <4>7
    <3> QED BY <3>3, <3>4
  <2>3. CASE ~(emitting.i <= Len(slots))
    <3>1. astray' = TRUE /\ UNCHANGED <<emitting, called>>
      BY <1>6, <2>3 DEF G!Invoke
    <3>2. SignalTypes'
      BY <1>1, <2>1, <3>1 DEF SignalTypes, Slot, G!Function, G!Idle
    <3>3. erased
      BY <1>3, <2>1, <2>3 DEF CalledInv
    <3>4. CalledInv'
      BY <1>1, <2>1, <3>1, <3>3 DEF CalledInv
    <3> QED BY <1>2, <3>2, <3>4
  <2> QED BY <2>2, <2>3
<1>7. CASE G!Return
  <2>1. emitting.at = "slot" /\ emitting' = [at |-> "test", i |-> emitting.i + 1] /\ UNCHANGED <<called, erased, astray>>
    BY <1>7 DEF G!Return
  <2>2. emitting'.at = "test" /\ emitting'.i = emitting.i + 1
        /\ emitting' \in [at : {"off", "test", "element", "slot"}, i : Nat]
    BY <1>3, <2>1
  <2>3. SignalTypes'
    BY <1>1, <2>1, <2>2 DEF SignalTypes, Slot, G!Function
  <2>4. CalledInv'
    BY <1>1, <1>3, <2>1, <2>2 DEF CalledInv
  <2> QED BY <1>2, <2>3, <2>4
<1> QED BY <1>4, <1>5, <1>6, <1>7

(* Every step of the signal keeps its invariant (Next).                    *)
LEMMA SignalSteps == SignalInv /\ G!Next => SignalInv'
BY ConnectKeeps, DisconnectKeeps, LoopKeeps DEF G!Next

(* Which says what the property does.                                      *)
LEMMA SignalHolds == SignalInv => G!SlotsInv
<1> SUFFICES ASSUME SignalInv PROVE G!SlotsInv
  OBVIOUS
<1>1. slots \in Seq(Slot) /\ called \in Seq(Slot) /\ Len(slots) \in Nat /\ Len(called) \in Nat
  BY DEF SignalInv, SignalTypes
<1>2. called = SubSeq(slots, 1, Len(called))
  <2> DEFINE first == SubSeq(slots, 1, Len(called))
  <2>1. Len(called) <= Len(slots) /\ \A k \in 1 .. Len(called) : called[k] = slots[k]
    BY DEF SignalInv, CalledInv
  <2>2. first \in Seq(Slot) /\ Len(first) = Len(called) /\ \A k \in 1 .. Len(called) : first[k] = slots[k]
    BY <1>1, <2>1
  <2> HIDE DEF first
  <2>3. called = first
    BY <1>1, <2>1, <2>2, SeqEqual
  <2> QED BY <2>3 DEF first
<1>3. G!EachInTurn
  BY <1>2 DEF G!EachInTurn, G!Idle, SignalInv, CalledInv
<1>4. Cardinality(G!Ids(slots)) = Len(slots)
  <2> DEFINE n == Len(slots)
             ids == G!Ids(slots)
             idOf == [k \in 1 .. n |-> slots[k].id]
  <2>1. ids = {slots[k].id : k \in 1 .. n}
    BY <1>1 DEF G!Ids, G!Range
  <2>2. idOf \in [1 .. n -> ids]
    BY <2>1
  <2>3. \A j, k \in 1 .. n : idOf[j] = idOf[k] => j = k
    BY DEF SignalInv, Distinct
  <2>4. \A x \in ids : \E k \in 1 .. n : idOf[k] = x
    BY <2>1
  <2> HIDE DEF ids, idOf
  <2>5. idOf \in Bijection(1 .. n, ids)
    BY <2>2, <2>3, <2>4 DEF Bijection, Injection, Surjection, IsInjective
  <2>6. IsFiniteSet(1 .. n) /\ Cardinality(1 .. n) = n
    <3>1. n \in Nat /\ 1 \in Int
      BY <1>1
    <3> HIDE DEF n
    <3>2. n \in Int /\ 1 \in Int /\ n - 1 + 1 = n /\ (1 > n => n = 0)
      BY <3>1
    <3>3. IsFiniteSet(1 .. n) /\ Cardinality(1 .. n) = IF 1 > n THEN 0 ELSE n - 1 + 1
      BY <3>1, <3>2, FS_Interval
    <3> QED BY <3>2, <3>3
  <2>7. ExistsBijection(1 .. n, ids)
    BY <2>5 DEF ExistsBijection
  <2>8. Cardinality(ids) = n
    BY <2>6, <2>7, FS_Bijection
  <2> QED BY <2>8 DEF ids
<1> QED BY <1>3, <1>4 DEF G!SlotsInv, SignalInv, G!Cardinality, Cardinality

-----------------------------------------------------------------------------
(* The command line player.                                                *)

(* The place in a list of n of the m-th item that is played.               *)
Place(m, n) == IF m = 0 THEN 0 ELSE ((m - 1) % n) + 1

(* A quotient and a remainder are the only ones.                           *)
LEMMA Remainder ==
  ASSUME NEW n \in Nat, n # 0, NEW q \in Nat, NEW r \in 0 .. n - 1
  PROVE  (q * n + r) % n = r
OBVIOUS

LEMMA Quotient ==
  ASSUME NEW a \in Nat, NEW n \in Nat, n # 0
  PROVE  a \div n \in Nat /\ a % n \in 0 .. n - 1 /\ a = (a \div n) * n + (a % n)
OBVIOUS

(* One after the last is the first (Choose).                               *)
LEMMA PlaceIs ==
  ASSUME NEW m \in Nat, NEW n \in Nat, n # 0
  PROVE  /\ Place(m, n) \in 0 .. n /\ (m # 0 => Place(m, n) \in 1 .. n)
         /\ (m <= n => Place(m, n) = m)
         /\ Place(m + 1, n) = (Place(m, n) % n) + 1
<1>1. CASE m = 0
  BY <1>1 DEF Place
<1>2. CASE m # 0
  <2> DEFINE a == m - 1
             q == a \div n
             r == a % n
  <2>1. a \in Nat /\ m = a + 1
    BY <1>2
  <2>2. Place(m, n) = r + 1 /\ Place(m + 1, n) = ((a + 1) % n) + 1
    BY <1>2, <2>1 DEF Place
  <2> HIDE DEF a
  <2>3. q \in Nat /\ r \in 0 .. n - 1 /\ a = q * n + r
    BY <2>1, Quotient
  <2>4. m <= n => r = a
    BY <2>1
  <2> HIDE DEF q, r
  <2>5. (a + 1) % n = (r + 1) % n
    <3>1. CASE r + 1 = n
      <4>1. q + 1 \in Nat /\ 0 \in 0 .. n - 1 /\ a + 1 = (q + 1) * n + 0
        BY <2>1, <2>3, <3>1
      <4>2. (a + 1) % n = 0
        BY <4>1, Remainder
      <4>3. n = 1 * n + 0 /\ (1 * n + 0) % n = 0
        BY <4>1, Remainder
      <4> QED BY <3>1, <4>2, <4>3
    <3>2. CASE r + 1 # n
      <4>1. r + 1 \in 0 .. n - 1 /\ a + 1 = q * n + (r + 1)
        BY <2>1, <2>3, <3>2
      <4>2. (a + 1) % n = r + 1
        BY <2>3, <4>1, Remainder
      <4>3. (r + 1) % n = r + 1
        BY <4>1
      <4> QED BY <4>2, <4>3
    <3> QED BY <3>1, <3>2
  <2> QED BY <1>2, <2>1, <2>2, <2>3, <2>4, <2>5
<1> QED BY <1>1, <1>2

Choosing == {"slot", "play"}

CliTypes ==
  /\ main \in {"first", "first play", "poll", "clear", "reset", "exit", "gone"}
  /\ context = (main \notin {"exit", "gone"}) /\ playerQuit \in BOOLEAN /\ unset \in BOOLEAN /\ fault \in BOOLEAN
  /\ listed \in Seq(Track) /\ Len(listed) # 0 /\ played \in Seq(Track)
  /\ order = (IF main \in {"reset", "exit", "gone"} THEN <<>> ELSE listed)
  /\ finishers \in [C!Thread -> {"none", "slot", "play", "after"}]

(* One chooses what comes next or plays it, or an item is played.          *)
OneChooses ==
  /\ \A t, u \in C!Thread : finishers[t] \in Choosing /\ finishers[u] \in Choosing => t = u
  /\ (main \in {"first", "first play"} \/ playing # C!Silent) => \A t \in C!Thread : finishers[t] \notin Choosing
  /\ main \in {"first", "first play"} => playing = C!Silent

(* Who sets playerQuit is the last to choose, and all has been played.     *)
QuitInv ==
  /\ playerQuit /\ ~unset =>
       /\ ~C!Repeating /\ Len(played) = Len(listed) /\ main \notin {"first", "first play"}
       /\ playing = C!Silent /\ \A t \in C!Thread : finishers[t] \notin Choosing
  /\ main \in {"clear", "reset", "exit", "gone"} /\ ~unset => playerQuit
  /\ main = "gone" => ~fault /\ \A t \in C!Thread : finishers[t] = "none"

(* One has chosen, and has not played yet.                                 *)
Chosen == main = "first play" \/ \E t \in C!Thread : finishers[t] = "play"
Ahead == Len(played) + IF Chosen THEN 1 ELSE 0

PlaceInv ==
  order # <<>> /\ ~fault =>
    position = Place(Ahead, Len(listed)) /\ (~C!Repeating => Ahead <= Len(listed))

PlayInv == CliTypes /\ OneChooses /\ QuitInv /\ PlaceInv /\ C!InOrder /\ C!NoFault

(* The list that is in memory.                                             *)
LEMMA ListedIs ==
  ASSUME CliTypes
  PROVE  /\ Len(listed) \in Nat /\ Len(listed) >= 1 /\ Len(played) \in Nat /\ listed # <<>>
         /\ order # <<>> => order = listed
         /\ order # <<>> <=> main \notin {"reset", "exit", "gone"}
<1>1. listed \in Seq(Track) /\ played \in Seq(Track) /\ Len(listed) # 0
      /\ order = (IF main \in {"reset", "exit", "gone"} THEN <<>> ELSE listed)
  BY DEF CliTypes
<1>2. Len(listed) \in Nat /\ Len(listed) >= 1 /\ Len(played) \in Nat
  BY <1>1
<1>3. listed # <<>>
  BY <1>1
<1> QED BY <1>1, <1>2, <1>3

(* What the threads are doing.                                             *)
LEMMA ThreadsAre ==
  ASSUME CliTypes, NEW t \in C!Thread, NEW v \in {"none", "slot", "play", "after"},
         finishers' = [finishers EXCEPT ![t] = v]
  PROVE  /\ finishers' \in [C!Thread -> {"none", "slot", "play", "after"}]
         /\ finishers'[t] = v /\ \A u \in C!Thread : u # t => finishers'[u] = finishers[u]
BY DEF CliTypes

(* In the beginning the first item is to be chosen (Init).                 *)
LEMMA PlayStarts == C!Init => PlayInv
<1> SUFFICES ASSUME C!Init PROVE PlayInv
  OBVIOUS
<1>1. PICK tracks \in (SUBSET Track) \ {{}} : order \in C!Bijection(1 .. Cardinality(tracks), tracks)
  BY DEF C!Init, C!Cardinality, Cardinality
<1>2. IsFiniteSet(tracks) /\ Cardinality(tracks) \in Nat /\ Cardinality(tracks) # 0
  <2>1. IsFiniteSet(tracks)
    BY <1>1, CliAssumption, FS_Subset
  <2>2. Cardinality(tracks) \in Nat
    BY <2>1, FS_CardinalityType
  <2>3. Cardinality(tracks) # 0
    <3>1. tracks # {}
      BY <1>1
    <3> QED BY <2>1, <3>1, FS_EmptySet
  <2> QED BY <2>1, <2>2, <2>3
<1>3. order \in [1 .. Cardinality(tracks) -> tracks]
  BY <1>1 DEF C!Bijection, C!Injection, C!Surjection, C!Cardinality, Cardinality
<1>4. order \in Seq(Track) /\ Len(order) = Cardinality(tracks)
  <2> HIDE DEF PlayInv
  <2>1. order \in [1 .. Cardinality(tracks) -> Track]
    BY <1>1, <1>3
  <2> QED BY <1>2, <2>1
<1>5. /\ main = "first" /\ context = TRUE /\ playerQuit \in BOOLEAN /\ unset = playerQuit
      /\ position = 0 /\ playing = C!Silent /\ finishers = [t \in C!Thread |-> "none"]
      /\ listed = order /\ played = <<>> /\ fault = FALSE
  BY DEF C!Init
<1>6. CliTypes
  <2>1. <<>> \in Seq(Track)
    OBVIOUS
  <2>2. finishers \in [C!Thread -> {"none", "slot", "play", "after"}]
    BY <1>5
  <2>3. main \in {"first", "first play", "poll", "clear", "reset", "exit", "gone"}
        /\ order = (IF main \in {"reset", "exit", "gone"} THEN <<>> ELSE listed)
    BY <1>5
  <2>4. listed \in Seq(Track) /\ Len(listed) # 0 /\ played \in Seq(Track)
    BY <1>2, <1>4, <1>5, <2>1
  <2>5. context = (main \notin {"exit", "gone"}) /\ playerQuit \in BOOLEAN /\ unset \in BOOLEAN /\ fault \in BOOLEAN
    BY <1>5
  <2> QED BY <2>2, <2>3, <2>4, <2>5 DEF CliTypes
<1>7. OneChooses /\ QuitInv
  BY <1>5 DEF OneChooses, QuitInv, Choosing
<1>8. Ahead = 0
  BY <1>5 DEF Ahead, Chosen
<1>9. PlaceInv
  BY <1>2, <1>4, <1>5, <1>8 DEF PlaceInv, Place
<1>10. C!InOrder /\ C!NoFault
  BY <1>5 DEF C!InOrder, C!NoFault
<1> QED BY <1>6, <1>7, <1>9, <1>10 DEF PlayInv


(* What comes next is chosen, when there is more (HasNext, Choose).        *)
LEMMA ChooseIs ==
  ASSUME CliTypes, PlaceInv, order # <<>>, ~fault, ~Chosen, C!HasNext, C!Choose, Chosen',
         UNCHANGED <<order, listed, played, repeat, fault>>
  PROVE  PlaceInv'
<1> DEFINE n == Len(listed)
           m == Len(played)
<1>1. n \in Nat /\ n >= 1 /\ m \in Nat /\ order = listed
  BY ListedIs
<1>2. Ahead = m /\ Ahead' = m + 1
  BY DEF Ahead
<1>3. position = Place(m, n) /\ (~C!Repeating => m <= n)
  BY <1>2 DEF PlaceInv
<1>4. position' = (position % n) + 1 /\ (~C!Repeating => position < n)
  BY <1>1 DEF C!Choose, C!HasNext
<1>5. n' = n /\ C!Repeating' = C!Repeating
  BY DEF C!Repeating
<1> HIDE DEF n, m
<1>6. position' = Place(m + 1, n)
  BY <1>1, <1>3, <1>4, PlaceIs
<1>7. ~C!Repeating => m + 1 <= n
  BY <1>1, <1>3, <1>4, PlaceIs
<1>8. Ahead' = m + 1 /\ Len(listed)' = n
  BY <1>2, <1>5 DEF n
<1>9. (position = Place(Ahead, Len(listed)) /\ (~C!Repeating => Ahead <= Len(listed)))'
  BY <1>5, <1>6, <1>7, <1>8 DEF Place
<1> QED BY <1>9 DEF PlaceInv

(* When there is no more, all has been played (HasNext).                   *)
LEMMA LastIs ==
  ASSUME CliTypes, PlaceInv, order # <<>>, ~fault, ~Chosen, ~C!HasNext
  PROVE  ~C!Repeating /\ Len(played) = Len(listed)
<1>1. Len(listed) \in Nat /\ Len(listed) >= 1 /\ Len(played) \in Nat /\ order = listed
  BY ListedIs
<1>2. Ahead = Len(played)
  BY <1>1 DEF Ahead
<1>3. position = Place(Len(played), Len(listed)) /\ (~C!Repeating => Len(played) <= Len(listed))
  BY <1>2 DEF PlaceInv
<1>4. ~C!Repeating /\ ~(position < Len(listed))
  BY <1>1 DEF C!HasNext
<1>5. Len(listed) # 0 /\ Len(played) <= Len(listed)
  BY <1>1, <1>3, <1>4
<1>6. position = Len(played)
  BY <1>1, <1>3, <1>5, PlaceIs
<1> QED BY <1>1, <1>4, <1>5, <1>6

(* What was chosen is played, if it can be opened (PlayNext).              *)
LEMMA PlayNextIs ==
  ASSUME CliTypes, PlaceInv, C!InOrder, order # <<>>, ~fault, Chosen, ~Chosen', C!PlayNext,
         UNCHANGED <<order, listed, position, repeat>>
  PROVE  /\ PlaceInv' /\ C!InOrder' /\ played' \in Seq(Track) /\ fault' \in BOOLEAN
         /\ (fault' => order[position] \in Unopenable)
<1> DEFINE n == Len(listed)
           m == Len(played)
<1> DEFINE Plays == Seq(Track)
<1>0. listed \in Plays /\ played \in Plays /\ fault \in BOOLEAN
  BY DEF CliTypes
<1>1. n \in Nat /\ n >= 1 /\ m \in Nat /\ order = listed
  BY ListedIs
<1>2. Ahead = m + 1
  BY DEF Ahead
<1>3. position = Place(m + 1, n) /\ (~C!Repeating => m + 1 <= n)
  BY <1>2 DEF PlaceInv
<1>4. position \in 1 .. n
  <2> HIDE DEF n, m
  <2>1. m + 1 \in Nat /\ m + 1 # 0 /\ n # 0
    BY <1>1
  <2> QED BY <1>1, <1>3, <2>1, PlaceIs
<1>5. position = (m % n) + 1
  BY <1>1, <1>3 DEF Place
<1>6. CASE order[position] \in Unopenable
  <2>1. fault' = TRUE /\ played' = played
    BY <1>6 DEF C!PlayNext
  <2>2. PlaceInv'
    BY <2>1 DEF PlaceInv
  <2>3. C!InOrder'
    BY <2>1 DEF C!InOrder
  <2> QED BY <1>0, <1>6, <2>1, <2>2, <2>3
<1>7. CASE order[position] \notin Unopenable
  <2>1. played' = Append(played, listed[position]) /\ fault' = fault
    BY <1>1, <1>7 DEF C!PlayNext
  <2>2. listed[position] \in Track
    BY <1>0, <1>4, ElementOfSeq
  <2>3. /\ played' \in Seq(Track) /\ Len(played') = m + 1 /\ played'[m + 1] = listed[position]
        /\ \A k \in 1 .. m : played'[k] = played[k]
    BY <1>0, <2>1, <2>2
  <2>4. \A k \in 1 .. m : played[k] = listed[((k - 1) % n) + 1]
    <3>1. DOMAIN played = 1 .. m
      BY <1>0
    <3> QED BY <3>1 DEF C!InOrder
  <2>5. DOMAIN played' = 1 .. m + 1
    BY <2>3
  <2>6. ASSUME NEW k \in 1 .. m + 1 PROVE played'[k] = listed[((k - 1) % n) + 1]
    <3>1. CASE k = m + 1
      <4>1. k - 1 = m
        BY <1>1, <3>1
      <4> QED BY <1>5, <2>3, <3>1, <4>1
    <3>2. CASE k # m + 1
      <4>1. k \in 1 .. m
        BY <1>1, <3>2
      <4> QED BY <2>3, <2>4, <4>1
    <3> QED BY <3>1, <3>2
  <2>7. C!InOrder'
    BY <2>5, <2>6 DEF C!InOrder
  <2>8. Ahead' = m + 1
    BY <1>1, <2>3 DEF Ahead
  <2>9. n' = n /\ C!Repeating' = C!Repeating /\ position' = position
    BY DEF C!Repeating
  <2>10. (position = Place(Ahead, Len(listed)) /\ (~C!Repeating => Ahead <= Len(listed)))'
    BY <1>3, <2>8, <2>9 DEF Place
  <2>11. PlaceInv'
    BY <2>10 DEF PlaceInv
  <2> QED BY <1>0, <2>1, <2>3, <2>7, <2>11
<1> QED BY <1>6, <1>7

(* Nothing is chosen and nothing played in the other steps.                *)
LEMMA PlaceStays ==
  ASSUME PlaceInv, ~fault, Chosen' <=> Chosen,
         fault' \/ order' = <<>> \/ UNCHANGED <<order, listed, played, position, repeat>>
  PROVE  PlaceInv'
<1>1. CASE fault' \/ order' = <<>>
  BY <1>1 DEF PlaceInv
<1>2. CASE UNCHANGED <<order, listed, played, position, repeat>>
  <2>1. Ahead' = Ahead /\ C!Repeating' = C!Repeating
    BY <1>2 DEF Ahead, C!Repeating
  <2>2. order # <<>> => (position = Place(Ahead, Len(listed)) /\ (~C!Repeating => Ahead <= Len(listed)))'
    BY <1>2, <2>1 DEF PlaceInv, Place
  <2> QED BY <1>2, <2>2 DEF PlaceInv
<1> QED BY <1>1, <1>2

(* Main chooses the first item (FirstFinished).                            *)
LEMMA FirstKeeps ==
  ASSUME PlayInv, ~fault, C!FirstFinished
  PROVE  PlayInv'
<1> SUFFICES CliTypes' /\ OneChooses' /\ QuitInv' /\ PlaceInv' /\ C!InOrder' /\ C!NoFault'
  BY DEF PlayInv
<1>0. CliTypes /\ OneChooses /\ QuitInv /\ PlaceInv /\ C!InOrder /\ C!NoFault
  BY DEF PlayInv
<1> USE <1>0
<1>1. /\ main = "first"
      /\ UNCHANGED <<context, repeat, order, playing, finishers, played, listed, unset, fault>>
      /\ \/ C!HasNext /\ C!Choose /\ main' = "first play" /\ playerQuit' = playerQuit
         \/ ~C!HasNext /\ playerQuit' = TRUE /\ main' = "poll" /\ position' = position
  BY DEF C!FirstFinished
<1>2. order # <<>> /\ order' # <<>>
  BY <1>1, ListedIs
<1>3. \A t \in C!Thread : finishers[t] \notin Choosing
  BY <1>1 DEF OneChooses
<1>4. ~Chosen /\ playing = C!Silent
  BY <1>1, <1>3 DEF Chosen, Choosing, OneChooses
<1>5. C!InOrder' /\ C!NoFault'
  BY <1>1 DEF C!InOrder, C!NoFault
<1>6. CliTypes'
  BY <1>1 DEF CliTypes
<1>7. OneChooses'
  BY <1>1, <1>3, <1>4 DEF OneChooses
<1>8. CASE C!HasNext /\ C!Choose /\ main' = "first play" /\ playerQuit' = playerQuit
  <2>1. Chosen'
    BY <1>8 DEF Chosen
  <2>2. PlaceInv'
    BY <1>1, <1>2, <1>4, <1>8, <2>1, ChooseIs
  <2>3. QuitInv'
    BY <1>1, <1>8 DEF QuitInv
  <2> QED BY <1>5, <1>6, <1>7, <2>2, <2>3
<1>9. CASE ~C!HasNext /\ playerQuit' = TRUE /\ main' = "poll" /\ position' = position
  <2>1. ~Chosen'
    BY <1>1, <1>3, <1>9 DEF Chosen, Choosing
  <2>2. PlaceInv'
    BY <1>1, <1>4, <2>1, <1>9, PlaceStays
  <2>3. ~C!Repeating /\ Len(played) = Len(listed)
    BY <1>2, <1>4, <1>9, LastIs
  <2>4. C!Repeating' = C!Repeating
    BY <1>1 DEF C!Repeating
  <2>5. QuitInv'
    BY <1>1, <1>3, <1>4, <1>9, <2>3, <2>4 DEF QuitInv
  <2> QED BY <1>5, <1>6, <1>7, <2>2, <2>5
<1> QED BY <1>1, <1>8, <1>9

(* And plays it (FirstPlay).                                               *)
LEMMA FirstPlayKeeps ==
  ASSUME PlayInv, ~fault, C!FirstPlay
  PROVE  PlayInv'
<1> SUFFICES CliTypes' /\ OneChooses' /\ QuitInv' /\ PlaceInv' /\ C!InOrder' /\ C!NoFault'
  BY DEF PlayInv
<1>0. CliTypes /\ OneChooses /\ QuitInv /\ PlaceInv /\ C!InOrder /\ C!NoFault
  BY DEF PlayInv
<1> USE <1>0
<1>1. /\ main = "first play" /\ main' = "poll" /\ C!PlayNext
      /\ UNCHANGED <<context, playerQuit, repeat, order, position, finishers, listed, unset>>
  BY DEF C!FirstPlay
<1>2. order # <<>> /\ order' # <<>>
  BY <1>1, ListedIs
<1>3. \A t \in C!Thread : finishers[t] \notin Choosing
  BY <1>1 DEF OneChooses
<1>4. Chosen /\ ~Chosen'
  BY <1>1, <1>3 DEF Chosen, Choosing
<1>5. /\ PlaceInv' /\ C!InOrder' /\ played' \in Seq(Track) /\ fault' \in BOOLEAN
      /\ fault' => order[position] \in Unopenable
  BY <1>1, <1>2, <1>4, PlayNextIs
<1>6. C!NoFault'
  BY <1>1, <1>5 DEF C!NoFault
<1>7. CliTypes'
  BY <1>1, <1>5 DEF CliTypes
<1>8. OneChooses'
  BY <1>1, <1>3 DEF OneChooses
<1>9. QuitInv'
  BY <1>1 DEF QuitInv
<1> QED BY <1>5, <1>6, <1>7, <1>8, <1>9

(* An item ends, and a thread is made (SigFinished).                       *)
LEMMA EndKeeps ==
  ASSUME PlayInv, ~fault, NEW t \in C!Thread, C!SigFinished(t)
  PROVE  PlayInv'
<1> SUFFICES CliTypes' /\ OneChooses' /\ QuitInv' /\ PlaceInv' /\ C!InOrder' /\ C!NoFault'
  BY DEF PlayInv
<1>0. CliTypes /\ OneChooses /\ QuitInv /\ PlaceInv /\ C!InOrder /\ C!NoFault
  BY DEF PlayInv
<1> USE <1>0
<1>1. /\ playing # C!Silent /\ finishers[t] = "none" /\ context /\ playing' = C!Silent
      /\ finishers' = [finishers EXCEPT ![t] = "slot"]
      /\ UNCHANGED <<main, context, playerQuit, repeat, order, position, played, listed, unset, fault>>
  BY DEF C!SigFinished
<1>2. /\ finishers' \in [C!Thread -> {"none", "slot", "play", "after"}]
      /\ finishers'[t] = "slot" /\ \A u \in C!Thread : u # t => finishers'[u] = finishers[u]
  BY <1>1, ThreadsAre
<1>3. (\A u \in C!Thread : finishers[u] \notin Choosing) /\ main \notin {"first", "first play"}
  BY <1>1 DEF OneChooses
<1>4. ~Chosen /\ ~Chosen'
  BY <1>1, <1>2, <1>3 DEF Chosen, Choosing
<1>5. PlaceInv'
  BY <1>1, <1>4, PlaceStays
<1>6. CliTypes'
  BY <1>1, <1>2 DEF CliTypes
<1>7. OneChooses'
  BY <1>1, <1>2, <1>3 DEF OneChooses
<1>8. main # "gone"
  BY <1>1 DEF CliTypes
<1>9. ~(playerQuit /\ ~unset)
  BY <1>1 DEF QuitInv
<1>10. QuitInv'
  BY <1>1, <1>8, <1>9 DEF QuitInv
<1>11. C!InOrder' /\ C!NoFault'
  BY <1>1 DEF C!InOrder, C!NoFault
<1> QED BY <1>5, <1>6, <1>7, <1>10, <1>11

(* A thread chooses what comes next (OnFinished).                          *)
LEMMA FinishedKeeps ==
  ASSUME PlayInv, ~fault, NEW t \in C!Thread, C!OnFinished(t)
  PROVE  PlayInv'
<1> SUFFICES CliTypes' /\ OneChooses' /\ QuitInv' /\ PlaceInv' /\ C!InOrder' /\ C!NoFault'
  BY DEF PlayInv
<1>0. CliTypes /\ OneChooses /\ QuitInv /\ PlaceInv /\ C!InOrder /\ C!NoFault
  BY DEF PlayInv
<1> USE <1>0
<1>1. finishers[t] = "slot" /\ UNCHANGED <<main, context, repeat, order, playing, played, listed, unset>>
  BY DEF C!OnFinished
<1>2. C!InOrder'
  BY <1>1 DEF C!InOrder
<1>3. /\ main \notin {"first", "first play", "gone"} /\ playing = C!Silent /\ ~(playerQuit /\ ~unset)
      /\ \A u \in C!Thread : u # t => finishers[u] \notin Choosing
  BY <1>1 DEF OneChooses, QuitInv, Choosing
<1>4. ~Chosen
  BY <1>1, <1>3 DEF Chosen, Choosing
<1>5. CASE ~context \/ order = <<>>
  <2>1. fault' = TRUE /\ UNCHANGED <<playerQuit, position, finishers>>
    BY <1>5 DEF C!OnFinished
  <2>2. ~context \/ unset
    <3>1. order = <<>> => main \in {"reset", "exit", "gone"}
      BY ListedIs
    <3> QED BY <1>3, <1>5, <3>1 DEF QuitInv
  <2>3. C!NoFault'
    BY <1>1, <2>2 DEF C!NoFault
  <2>4. CliTypes'
    BY <1>1, <2>1 DEF CliTypes
  <2>5. OneChooses' /\ PlaceInv'
    BY <1>1, <2>1 DEF OneChooses, PlaceInv
  <2>6. QuitInv'
    BY <1>1, <1>3, <2>1 DEF QuitInv
  <2> QED BY <1>2, <2>3, <2>4, <2>5, <2>6
<1>6. CASE context /\ order # <<>>
  <2>1. /\ fault' = fault
        /\ \/ /\ C!HasNext /\ C!Choose /\ finishers' = [finishers EXCEPT ![t] = "play"]
              /\ playerQuit' = playerQuit
           \/ /\ ~C!HasNext /\ playerQuit' = TRUE /\ finishers' = [finishers EXCEPT ![t] = "after"]
              /\ position' = position
    BY <1>6 DEF C!OnFinished
  <2>2. C!NoFault'
    BY <2>1 DEF C!NoFault
  <2>3. CASE C!HasNext /\ C!Choose /\ finishers' = [finishers EXCEPT ![t] = "play"] /\ playerQuit' = playerQuit
    <3>1. /\ finishers' \in [C!Thread -> {"none", "slot", "play", "after"}]
          /\ finishers'[t] = "play" /\ \A u \in C!Thread : u # t => finishers'[u] = finishers[u]
      BY <2>3, ThreadsAre
    <3>2. Chosen'
      BY <3>1 DEF Chosen
    <3>3. PlaceInv'
      BY <1>1, <1>4, <1>6, <2>1, <2>3, <3>2, ChooseIs
    <3>4. CliTypes'
      BY <1>1, <2>1, <2>3, <3>1 DEF CliTypes
    <3>5. OneChooses'
      BY <1>1, <1>3, <3>1 DEF OneChooses
    <3>6. QuitInv'
      BY <1>1, <1>3, <2>3 DEF QuitInv
    <3> QED BY <1>2, <2>2, <3>3, <3>4, <3>5, <3>6
  <2>4. CASE ~C!HasNext /\ playerQuit' = TRUE /\ finishers' = [finishers EXCEPT ![t] = "after"] /\ position' = position
    <3>1. /\ finishers' \in [C!Thread -> {"none", "slot", "play", "after"}]
          /\ finishers'[t] = "after" /\ \A u \in C!Thread : u # t => finishers'[u] = finishers[u]
      BY <2>4, ThreadsAre
    <3>2. \A u \in C!Thread : finishers'[u] \notin Choosing
      BY <1>3, <3>1 DEF Choosing
    <3>3. ~Chosen'
      BY <1>1, <1>3, <3>2 DEF Chosen, Choosing
    <3>4. PlaceInv'
      BY <1>1, <1>4, <2>1, <2>4, <3>3, PlaceStays
    <3>5. ~C!Repeating /\ Len(played) = Len(listed)
      BY <1>4, <1>6, <2>4, LastIs
    <3>6. CliTypes'
      BY <1>1, <2>1, <2>4, <3>1 DEF CliTypes
    <3>7. OneChooses'
      BY <1>1, <1>3, <3>2 DEF OneChooses
    <3>8. C!Repeating' = C!Repeating
      BY <1>1 DEF C!Repeating
    <3>9. QuitInv'
      BY <1>1, <1>3, <2>4, <3>2, <3>5, <3>8 DEF QuitInv
    <3> QED BY <1>2, <2>2, <3>4, <3>6, <3>7, <3>9
  <2> QED BY <2>1, <2>3, <2>4
<1> QED BY <1>5, <1>6

(* And plays it (OnFinishedPlay).                                          *)
LEMMA ThreadPlayKeeps ==
  ASSUME PlayInv, ~fault, NEW t \in C!Thread, C!OnFinishedPlay(t)
  PROVE  PlayInv'
<1> SUFFICES CliTypes' /\ OneChooses' /\ QuitInv' /\ PlaceInv' /\ C!InOrder' /\ C!NoFault'
  BY DEF PlayInv
<1>0. CliTypes /\ OneChooses /\ QuitInv /\ PlaceInv /\ C!InOrder /\ C!NoFault
  BY DEF PlayInv
<1> USE <1>0
<1>1. /\ finishers[t] = "play" /\ finishers' = [finishers EXCEPT ![t] = "after"]
      /\ UNCHANGED <<main, context, playerQuit, repeat, order, position, listed, unset>>
  BY DEF C!OnFinishedPlay
<1>2. /\ finishers' \in [C!Thread -> {"none", "slot", "play", "after"}]
      /\ finishers'[t] = "after" /\ \A u \in C!Thread : u # t => finishers'[u] = finishers[u]
  BY <1>1, ThreadsAre
<1>3. /\ main \notin {"first", "first play", "gone"} /\ playing = C!Silent /\ ~(playerQuit /\ ~unset)
      /\ \A u \in C!Thread : u # t => finishers[u] \notin Choosing
  BY <1>1 DEF OneChooses, QuitInv, Choosing
<1>4. \A u \in C!Thread : finishers'[u] \notin Choosing
  BY <1>2, <1>3 DEF Choosing
<1>5. Chosen /\ ~Chosen'
  BY <1>1, <1>3, <1>4 DEF Chosen, Choosing
<1>6. OneChooses'
  BY <1>1, <1>3, <1>4 DEF OneChooses
<1>7. QuitInv'
  BY <1>1, <1>3 DEF QuitInv
<1>8. CASE ~context \/ order = <<>>
  <2>1. fault' = TRUE /\ UNCHANGED <<playing, played>>
    BY <1>8 DEF C!OnFinishedPlay
  <2>2. ~context \/ unset
    <3>1. order = <<>> => main \in {"reset", "exit", "gone"}
      BY ListedIs
    <3> QED BY <1>3, <1>8, <3>1 DEF QuitInv
  <2>3. C!NoFault' /\ C!InOrder'
    BY <1>1, <2>1, <2>2 DEF C!NoFault, C!InOrder
  <2>4. CliTypes'
    BY <1>1, <1>2, <2>1 DEF CliTypes
  <2>5. PlaceInv'
    BY <2>1 DEF PlaceInv
  <2> QED BY <1>6, <1>7, <2>3, <2>4, <2>5
<1>9. CASE context /\ order # <<>>
  <2>1. C!PlayNext
    BY <1>9 DEF C!OnFinishedPlay
  <2>2. /\ PlaceInv' /\ C!InOrder' /\ played' \in Seq(Track) /\ fault' \in BOOLEAN
        /\ fault' => order[position] \in Unopenable
    BY <1>1, <1>5, <1>9, <2>1, PlayNextIs
  <2>3. C!NoFault'
    BY <1>1, <2>2 DEF C!NoFault
  <2>4. CliTypes'
    BY <1>1, <1>2, <2>2 DEF CliTypes
  <2> QED BY <1>6, <1>7, <2>2, <2>3, <2>4
<1> QED BY <1>8, <1>9

(* A thread is back in the emission (Emitted).                             *)
LEMMA EmittedKeeps ==
  ASSUME PlayInv, ~fault, NEW t \in C!Thread, C!Emitted(t)
  PROVE  PlayInv'
<1> SUFFICES CliTypes' /\ OneChooses' /\ QuitInv' /\ PlaceInv' /\ C!InOrder' /\ C!NoFault'
  BY DEF PlayInv
<1>0. CliTypes /\ OneChooses /\ QuitInv /\ PlaceInv /\ C!InOrder /\ C!NoFault
  BY DEF PlayInv
<1> USE <1>0
<1>1. /\ finishers[t] = "after" /\ finishers' = [finishers EXCEPT ![t] = "none"] /\ fault' = ~context
      /\ UNCHANGED <<main, context, playerQuit, repeat, order, position, playing, played, listed, unset>>
  BY DEF C!Emitted
<1>2. /\ finishers' \in [C!Thread -> {"none", "slot", "play", "after"}]
      /\ finishers'[t] = "none" /\ \A u \in C!Thread : u # t => finishers'[u] = finishers[u]
  BY <1>1, ThreadsAre
<1>3. Chosen' <=> Chosen
  BY <1>1, <1>2 DEF Chosen
<1>4. \A u \in C!Thread : finishers'[u] \in Choosing => finishers[u] \in Choosing
  BY <1>1, <1>2 DEF Choosing
<1>5. PlaceInv'
  BY <1>1, <1>3, PlaceStays
<1>6. CliTypes'
  BY <1>1, <1>2 DEF CliTypes
<1>7. OneChooses'
  BY <1>1, <1>4 DEF OneChooses
<1>8. C!Repeating' = C!Repeating /\ main # "gone"
  BY <1>1 DEF C!Repeating, QuitInv
<1>9. QuitInv'
  BY <1>1, <1>4, <1>8 DEF QuitInv
<1>10. C!InOrder' /\ C!NoFault'
  BY <1>1 DEF C!InOrder, C!NoFault
<1> QED BY <1>5, <1>6, <1>7, <1>9, <1>10

(* Main ends the program (Poll, ClearPlaylist, Reset, Exit).               *)
LEMMA MainKeeps ==
  ASSUME PlayInv, ~fault, C!Poll \/ C!ClearPlaylist \/ C!Reset \/ C!Exit
  PROVE  PlayInv'
<1> SUFFICES CliTypes' /\ OneChooses' /\ QuitInv' /\ PlaceInv' /\ C!InOrder' /\ C!NoFault'
  BY DEF PlayInv
<1>0. CliTypes /\ OneChooses /\ QuitInv /\ PlaceInv /\ C!InOrder /\ C!NoFault
  BY DEF PlayInv
<1> USE <1>0
<1>1. /\ main \in {"poll", "clear", "reset", "exit"} /\ main' \in {"clear", "reset", "exit", "gone"}
      /\ main = "poll" => playerQuit
      /\ UNCHANGED <<playerQuit, repeat, played, listed, unset, fault>>
  BY DEF C!Poll, C!ClearPlaylist, C!Reset, C!Exit
<1>2. /\ order' = (IF main' \in {"reset", "exit", "gone"} THEN <<>> ELSE listed)
      /\ context' = (main' \notin {"exit", "gone"})
  BY DEF C!Poll, C!ClearPlaylist, C!Reset, C!Exit, CliTypes
<1>3. playing' = playing \/ playing' = C!Silent
  BY DEF C!Poll, C!ClearPlaylist, C!Reset, C!Exit
<1>4. (finishers' = finishers /\ main' # "gone") \/ finishers' = [t \in C!Thread |-> "none"]
  BY DEF C!Poll, C!ClearPlaylist, C!Reset, C!Exit
<1>5. \A t \in C!Thread : finishers'[t] = finishers[t] \/ finishers'[t] = "none"
  BY <1>4
<1>6. CliTypes'
  BY <1>1, <1>2, <1>4 DEF CliTypes
<1>7. OneChooses'
  BY <1>1, <1>3, <1>5 DEF OneChooses, Choosing
<1>8. C!Repeating' = C!Repeating
  BY <1>1 DEF C!Repeating
<1>9. QuitInv'
  BY <1>1, <1>3, <1>4, <1>5, <1>8 DEF QuitInv, Choosing
<1>10. PlaceInv'
  <2>1. CASE order' = <<>>
    BY <2>1 DEF PlaceInv
  <2>2. CASE order' # <<>>
    <3>1. C!Poll
      BY <1>1, <1>2, <2>2 DEF C!ClearPlaylist, C!Reset, C!Exit
    <3>2. UNCHANGED <<order, listed, played, position, repeat, finishers, fault>> /\ main = "poll" /\ main' = "clear"
      BY <3>1 DEF C!Poll
    <3>3. Chosen' <=> Chosen
      BY <3>2 DEF Chosen
    <3> QED BY <3>2, <3>3, PlaceStays
  <2> QED BY <2>1, <2>2
<1>11. C!InOrder' /\ C!NoFault'
  BY <1>1 DEF C!InOrder, C!NoFault
<1> QED BY <1>6, <1>7, <1>9, <1>10, <1>11

(* Every step of the player keeps its invariant (Next).                    *)
LEMMA PlaySteps == PlayInv /\ C!Next => PlayInv'
BY FirstKeeps, FirstPlayKeeps, EndKeeps, FinishedKeeps, ThreadPlayKeeps, EmittedKeeps, MainKeeps DEF C!Next

(* Which says what the property does.                                      *)
LEMMA PlayHolds == PlayInv => C!CliInv
<1> SUFFICES ASSUME PlayInv PROVE C!CliInv
  OBVIOUS
<1> USE DEF PlayInv
<1>1. C!PlaysTheList
  <2> SUFFICES ASSUME main = "gone", ~unset PROVE ~C!Repeating /\ played = listed
    BY DEF C!PlaysTheList
  <2>1. ~C!Repeating /\ Len(played) = Len(listed)
    BY DEF QuitInv
  <2> DEFINE Plays == Seq(Track)
  <2>2. listed \in Plays /\ played \in Plays /\ Len(listed) \in Nat
    BY DEF CliTypes
  <2>3. \A k \in 1 .. Len(played) : played[k] = listed[k]
    <3> SUFFICES ASSUME NEW k \in 1 .. Len(played) PROVE played[k] = listed[k]
      OBVIOUS
    <3>1. played[k] = listed[((k - 1) % Len(listed)) + 1]
      <4>1. k \in DOMAIN played
        BY <2>2
      <4> QED BY <4>1 DEF C!InOrder
    <3>2. (k - 1) % Len(listed) = k - 1
      BY <2>1, <2>2
    <3> QED BY <2>1, <2>2, <3>1, <3>2
  <2>4. played = listed
    BY <2>1, <2>2, <2>3, SeqEqual
  <2> QED BY <2>1, <2>4
<1>2. \A t, u \in C!Thread : {finishers[t], finishers[u]} \subseteq {"slot", "play"} => t = u
  BY DEF OneChooses, Choosing
<1> QED BY <1>1, <1>2 DEF C!CliInv

-----------------------------------------------------------------------------
(* The dialogs before a conversion.                                        *)

(* The widgets of an option.                                               *)
Boxes(o) == IF O!OptionType[o] = "RangedInt" THEN {"slider", "box"} ELSE {"box"}

(* While the options are shown, the conversion is of what was chosen, and  *)
(* its values are those that are shown.                                    *)
Agree(u, e, shows) ==
  /\ DOMAIN u = O!OptionsOf(e) /\ DOMAIN shows = O!OptionsOf(e)
  /\ \A o \in O!OptionsOf(e) :
       DOMAIN shows[o] = Boxes(o) /\ \A w \in Boxes(o) : shows[o][w] = u[o]

DialogInv ==
  dialog = "options" =>
    \E e, u : /\ conversion = [item |-> chosen.item, encoder |-> e, user |-> u]
              /\ e = encoderNames[chosen.row] /\ Agree(u, e, widgets)

(* The task has its own copies of both.                                    *)
OpenedWith(e, u) ==
  IF e = "lame"
  THEN [quality |-> u["quality"], brate |-> Rates[u["bit_rate"] + 1],
        gain |-> u["replay_gain"], audio |-> "default"]
  ELSE [audio |-> "decoder"]

TaskOf(st) ==
  \E i, e, u, p, shows :
    /\ task = [state |-> st, item |-> i, encoder |-> e, user |-> u, params |-> p,
               agreed |-> [item |-> i, encoder |-> e, shown |-> shows]]
    /\ Agree(u, e, shows)
    /\ st = "opened" => p = OpenedWith(e, u)

TaskInv == task = O!NoTask \/ TaskOf("started") \/ TaskOf("opened")

DialogsInv == DialogInv /\ TaskInv

(* A task that is one is of this form.                                     *)
LEMMA TaskIs ==
  ASSUME TaskInv, task.state # "none"
  PROVE  TaskOf(task.state)
<1>1. task # O!NoTask
  <2>1. O!NoTask.state = "none"
    BY DEF O!NoTask
  <2> QED BY <2>1
<1>2. PICK st : TaskOf(st)
  BY <1>1 DEF TaskInv
<1>3. task.state = st
  BY <1>2 DEF TaskOf
<1> QED BY <1>2, <1>3

(* In the beginning no dialog is open (Init).                              *)
LEMMA DialogsStart == O!Init => DialogsInv
BY DEF O!Init, DialogsInv, DialogInv, TaskInv, TaskOf

(* The options are shown as they are (CreateConversion).                   *)
LEMMA CreateKeeps ==
  ASSUME DialogsInv, O!CreateConversion
  PROVE  DialogsInv'
<1> DEFINE e == encoderNames[chosen.row]
<1>1. TaskInv'
  BY DEF O!CreateConversion, DialogsInv, TaskInv, TaskOf
<1>2. DialogInv'
  <2>1. CASE chosen.item \in Foreign
    BY <2>1 DEF O!CreateConversion, DialogInv
  <2>2. CASE chosen.item \notin Foreign
    <3>1. /\ conversion' = [item |-> chosen.item, encoder |-> e, user |-> O!Created(e)]
          /\ widgets' = [o \in O!OptionsOf(e) |-> O!Widget(o)]
          /\ chosen' = chosen /\ encoderNames' = encoderNames
      BY <2>2 DEF O!CreateConversion, O!BindWidgetAndOption
    <3>2. DOMAIN O!Created(e) = O!OptionsOf(e) /\ \A o \in O!OptionsOf(e) : O!Created(e)[o] = Standard[o]
      BY DEF O!Created
    <3>3. DOMAIN widgets' = O!OptionsOf(e) /\ \A o \in O!OptionsOf(e) : widgets'[o] = O!Widget(o)
      BY <3>1
    <3>4. \A o : DOMAIN O!Widget(o) = Boxes(o) /\ \A w \in Boxes(o) : O!Widget(o)[w] = Standard[o]
      BY DEF O!Widget, Boxes
    <3>5. Agree(O!Created(e), e, widgets')
      BY <3>2, <3>3, <3>4 DEF Agree
    <3> DEFINE u == O!Created(e)
    <3>6. conversion' = [item |-> chosen'.item, encoder |-> e, user |-> u]
          /\ e = encoderNames'[chosen'.row] /\ Agree(u, e, widgets')
      BY <3>1, <3>5
    <3> HIDE DEF e, u
    <3>7. \E f, v : conversion' = [item |-> chosen'.item, encoder |-> f, user |-> v]
          /\ f = encoderNames'[chosen'.row] /\ Agree(v, f, widgets')
      BY <3>6
    <3> QED BY <3>7 DEF DialogInv, Agree, O!OptionsOf, Boxes
  <2> QED BY <2>1, <2>2
<1> QED BY <1>1, <1>2 DEF DialogsInv

(* What is set in a widget is set in the conversion (SetWidget).           *)
LEMMA WidgetKeeps ==
  ASSUME DialogsInv, NEW o, NEW val, O!SetWidget(o, val)
  PROVE  DialogsInv'
<1>1. TaskInv'
  BY DEF O!SetWidget, DialogsInv, TaskInv, TaskOf
<1>2. /\ dialog = "options" /\ o \in DOMAIN widgets
      /\ widgets' = [widgets EXCEPT ![o] = [w \in DOMAIN widgets[o] |-> val]]
      /\ conversion' = [conversion EXCEPT !.user[o] = val]
      /\ UNCHANGED <<encoderNames, dialog, chosen, task>>
  BY DEF O!SetWidget, O!SlotIntValChanged
<1>3. PICK e, u : /\ conversion = [item |-> chosen.item, encoder |-> e, user |-> u]
                  /\ e = encoderNames[chosen.row] /\ Agree(u, e, widgets)
  BY <1>2 DEF DialogsInv, DialogInv
<1>4. PICK v : v = [u EXCEPT ![o] = val]
  OBVIOUS
<1>5. DOMAIN v = O!OptionsOf(e) /\ o \in O!OptionsOf(e)
      /\ \A q \in O!OptionsOf(e) : v[q] = IF q = o THEN val ELSE u[q]
  BY <1>2, <1>3, <1>4 DEF Agree
<1>6. conversion' = [item |-> chosen.item, encoder |-> e, user |-> v]
  BY <1>2, <1>3, <1>4
<1>7. DOMAIN widgets' = O!OptionsOf(e)
      /\ \A q \in O!OptionsOf(e) : widgets'[q] = IF q = o THEN [w \in Boxes(o) |-> val] ELSE widgets[q]
  BY <1>2, <1>3 DEF Agree
<1>8. Agree(v, e, widgets')
  BY <1>3, <1>5, <1>7 DEF Agree
<1>9. \E f, x : conversion' = [item |-> chosen'.item, encoder |-> f, user |-> x]
          /\ f = encoderNames'[chosen'.row] /\ Agree(x, f, widgets')
  BY <1>2, <1>3, <1>6, <1>8
<1>10. DialogInv'
  BY <1>9 DEF DialogInv, Agree, O!OptionsOf, Boxes
<1> QED BY <1>1, <1>10 DEF DialogsInv

(* The conversion is started (AddTask).                                    *)
LEMMA AddKeeps ==
  ASSUME DialogsInv, O!AddTask
  PROVE  DialogsInv'
<1>1. dialog = "options" /\ dialog' = "none"
  BY DEF O!AddTask
<1>2. DialogInv'
  BY <1>1 DEF DialogInv
<1>3. CASE task' = task
  BY <1>2, <1>3 DEF DialogsInv, TaskInv, TaskOf
<1>4. CASE task' # task
  <2>1. task' = [state |-> "started", item |-> conversion.item, encoder |-> conversion.encoder,
                 user |-> conversion.user, params |-> <<>>,
                 agreed |-> [item |-> chosen.item, encoder |-> encoderNames[chosen.row], shown |-> widgets]]
    BY <1>4 DEF O!AddTask
  <2>2. PICK e, u : /\ conversion = [item |-> chosen.item, encoder |-> e, user |-> u]
                    /\ e = encoderNames[chosen.row] /\ Agree(u, e, widgets)
    BY <1>1 DEF DialogsInv, DialogInv
  <2>3. PICK i, shows : i = chosen.item /\ shows = widgets
    OBVIOUS
  <2>4. task' = [state |-> "started", item |-> i, encoder |-> e, user |-> u, params |-> <<>>,
                 agreed |-> [item |-> i, encoder |-> e, shown |-> shows]]
    BY <2>1, <2>2, <2>3
  <2>5. Agree(u, e, shows)
    BY <2>2, <2>3
  <2>6. TaskInv'
    BY <2>4, <2>5 DEF TaskInv, TaskOf, Agree, O!OptionsOf, Boxes
  <2> QED BY <1>2, <2>6 DEF DialogsInv
<1> QED BY <1>3, <1>4

(* Its output is opened (OpenOutput).                                      *)
LEMMA OutputKeeps ==
  ASSUME DialogsInv, O!OpenOutput
  PROVE  DialogsInv'
<1>1. task.state = "started" /\ UNCHANGED <<encoderNames, dialog, chosen, conversion, widgets>>
  BY DEF O!OpenOutput
<1>2. DialogInv'
  BY <1>1 DEF DialogsInv, DialogInv
<1>3. PICK i, e, u, p, shows :
       /\ task = [state |-> "started", item |-> i, encoder |-> e, user |-> u, params |-> p,
                  agreed |-> [item |-> i, encoder |-> e, shown |-> shows]]
       /\ Agree(u, e, shows)
  BY <1>1, TaskIs DEF DialogsInv, TaskOf
<1>4. PICK q : q = OpenedWith(e, u)
  OBVIOUS
<1>5. task' = [state |-> "opened", item |-> i, encoder |-> e, user |-> u, params |-> q,
               agreed |-> [item |-> i, encoder |-> e, shown |-> shows]]
  BY <1>3, <1>4 DEF O!OpenOutput, OpenedWith, O!Lame
<1>6. q = OpenedWith(e, u)'
  BY <1>4 DEF OpenedWith
<1>7. Agree(u, e, shows)'
  BY <1>3 DEF Agree, O!OptionsOf, Boxes
<1>8. TaskInv'
  BY <1>5, <1>6, <1>7 DEF TaskInv, TaskOf
<1> QED BY <1>2, <1>8 DEF DialogsInv

(* Every step of the dialogs keeps their invariant (Next).                 *)
LEMMA DialogsStep == DialogsInv /\ O!Next => DialogsInv'
<1> SUFFICES ASSUME DialogsInv, O!Next PROVE DialogsInv'
  OBVIOUS
<1>1. CASE \E i \in Song : O!SlotConvert(i)
  BY <1>1 DEF DialogsInv, DialogInv, TaskInv, TaskOf, O!SlotConvert
<1>2. CASE \E k \in DOMAIN encoderNames : O!SelectEncoder(k)
  BY <1>2 DEF DialogsInv, DialogInv, TaskInv, TaskOf, O!SelectEncoder
<1>3. CASE O!Cancel
  BY <1>3 DEF DialogsInv, DialogInv, TaskInv, TaskOf, O!Cancel
<1> QED BY <1>1, <1>2, <1>3, WidgetKeeps, CreateKeeps, AddKeeps, OutputKeeps DEF O!Next

(* Which says what the property does.                                      *)
LEMMA DialogsHold == DialogsInv => O!OptionsInv
<1> SUFFICES ASSUME DialogsInv PROVE O!OptionsInv
  OBVIOUS
<1>1. O!ShowsOptions
  <2> SUFFICES ASSUME dialog = "options"
               PROVE  /\ DOMAIN widgets = O!OptionsOf(conversion.encoder)
                      /\ \A o \in DOMAIN widgets : \A w \in DOMAIN widgets[o] : widgets[o][w] = conversion.user[o]
    BY DEF O!ShowsOptions
  <2>1. PICK e, u : /\ conversion = [item |-> chosen.item, encoder |-> e, user |-> u]
                    /\ Agree(u, e, widgets)
    BY DEF DialogsInv, DialogInv
  <2>2. conversion.encoder = e /\ conversion.user = u
    BY <2>1
  <2> QED BY <2>1, <2>2 DEF Agree
<1>2. O!DoneAsAgreed
  <2> SUFFICES ASSUME task.state = "opened" PROVE O!DoneAsAgreed
    BY DEF O!DoneAsAgreed
  <2>1. PICK i, e, u, p, shows :
       /\ task = [state |-> "opened", item |-> i, encoder |-> e, user |-> u, params |-> p,
                  agreed |-> [item |-> i, encoder |-> e, shown |-> shows]]
       /\ Agree(u, e, shows) /\ p = OpenedWith(e, u)
    BY TaskIs DEF DialogsInv, TaskOf
  <2>2. task.item = i /\ task.encoder = e /\ task.params = p /\ task.agreed.item = i
        /\ task.agreed.encoder = e /\ task.agreed.shown = shows
    BY <2>1
  <2>3. CASE e = "lame"
    <3>1. O!OptionsOf(e) = {"quality", "bit_rate", "replay_gain"}
      BY <2>3 DEF O!OptionsOf, O!Option, O!Lame
    <3>2. shows["quality"].slider = u["quality"] /\ shows["bit_rate"].box = u["bit_rate"]
          /\ shows["replay_gain"].box = u["replay_gain"]
      BY <2>1, <3>1 DEF Agree, Boxes, O!OptionType
    <3>3. p.quality = u["quality"] /\ p.brate = Rates[u["bit_rate"] + 1] /\ p.gain = u["replay_gain"]
      BY <2>1, <2>3 DEF OpenedWith
    <3> QED BY <2>2, <3>2, <3>3 DEF O!DoneAsAgreed
  <2>4. CASE e # "lame"
    BY <2>2, <2>4 DEF O!DoneAsAgreed, O!Lame
  <2> QED BY <2>3, <2>4
<1> QED BY <1>1, <1>2 DEF O!OptionsInv

-----------------------------------------------------------------------------
(* Induction.                                                              *)

(* A set of numbers that is not empty has a smallest one.                  *)
LEMMA SmallestOf ==
  ASSUME NEW U, U \subseteq Nat, U # {}
  PROVE  \E n \in U : \A m \in U : n <= m
<1> DEFINE R == OpToRel(<, Nat)
<1>1. \E n \in U : \A m \in U : ~(<<m, n>> \in R)
  BY NatLessThanWellFounded, WFMin
<1>2. \A m, n \in Nat : <<m, n>> \in R <=> m < n
  BY DEF OpToRel
<1> HIDE DEF R
<1>3. PICK n \in U : \A m \in U : ~(<<m, n>> \in R)
  BY <1>1
<1>4. \A m \in U : m \in Nat /\ n \in Nat /\ ~(m < n)
  BY <1>2, <1>3
<1>5. \A m \in U : n <= m
  BY <1>4
<1> QED BY <1>5

(* A set that has 0 and the successors of its members has all numbers.     *)
LEMMA AllNumbers ==
  ASSUME NEW S, 0 \in S, \A n \in Nat : n \in S => n + 1 \in S
  PROVE  Nat \subseteq S
<1> DEFINE U == Nat \ S
<1>1. SUFFICES ASSUME U # {} PROVE FALSE
  OBVIOUS
<1>2. PICK n \in U : \A m \in U : n <= m
  BY <1>1, SmallestOf
<1>3. n \in Nat /\ n # 0 /\ n \notin S
  BY <1>2
<1>4. n - 1 \in Nat /\ ~(n <= n - 1) /\ (n - 1) + 1 = n
  BY <1>3
<1>5. n - 1 \in S
  BY <1>2, <1>4
<1> QED BY <1>3, <1>4, <1>5

(* A step can be taken so many times: what the definition of Paged needs.  *)
Steps(f, W, base, step, n) == f \in [0 .. n -> W] /\ f[0] = base /\ \A k \in 1 .. n : f[k] = step[f[k - 1]]

LEMMA Repeated ==
  ASSUME NEW W, NEW base \in W, NEW step \in [W -> W], NEW most \in Nat
  PROVE  \E f : Steps(f, W, base, step, most)
<1> DEFINE Fits(n, f) == f \in [0 .. n -> W] /\ f[0] = base /\ \A k \in 1 .. n : f[k] = step[f[k - 1]]
           S == {n \in Nat : \E f : Fits(n, f)}
<1>1. 0 \in S
  <2>1. Fits(0, [k \in 0 .. 0 |-> base])
    OBVIOUS
  <2> QED BY <2>1
<1>2. ASSUME NEW n \in Nat, n \in S PROVE n + 1 \in S
  <2>1. PICK f : Fits(n, f)
    BY <1>2
  <2> DEFINE g == [k \in 0 .. n + 1 |-> IF k = n + 1 THEN step[f[n]] ELSE f[k]]
  <2>2. f[n] \in W /\ step[f[n]] \in W
    BY <2>1
  <2>3. g \in [0 .. n + 1 -> W] /\ g[0] = base
    BY <2>1, <2>2
  <2>4. ASSUME NEW k \in 1 .. n + 1 PROVE g[k] = step[g[k - 1]]
    BY <2>1
  <2>5. Fits(n + 1, g)
    BY <2>3, <2>4
  <2> HIDE DEF Fits, g
  <2>6. n + 1 \in Nat
    OBVIOUS
  <2> QED BY <2>5, <2>6
<1> HIDE DEF S
<1>3. most \in S
  BY <1>1, <1>2, AllNumbers
<1> QED BY <1>3 DEF S, Steps
-----------------------------------------------------------------------------
(* The window over a list.                                                 *)

Win == [beg : Int, sel : Int]

(* One of a list of n: the selected item is one of it and not above.       *)
Within(n) == {w \in Win : 0 <= w.beg /\ w.beg <= w.sel /\ w.sel < n}

(* And it is drawn.                                                        *)
SeenIn(n, h) == {w \in Within(n) : L!Seen(w, n, h)}

(* The lesser of two and the greater.                                      *)
LEMMA LesserIs ==
  ASSUME NEW a \in Int, NEW b \in Int
  PROVE  L!Min({a, b}) = (IF a <= b THEN a ELSE b) /\ L!Max({a, b}) = (IF a >= b THEN a ELSE b)
<1>1. L!Min({a, b}) = (IF a <= b THEN a ELSE b)
  <2>1. \E x \in {a, b} : \A y \in {a, b} : x <= y
    OBVIOUS
  <2>2. L!Min({a, b}) \in {a, b} /\ \A y \in {a, b} : L!Min({a, b}) <= y
    BY <2>1 DEF L!Min
  <2> QED BY <2>2
<1>2. L!Max({a, b}) = (IF a >= b THEN a ELSE b)
  <2>1. \E x \in {a, b} : \A y \in {a, b} : x >= y
    OBVIOUS
  <2>2. L!Max({a, b}) \in {a, b} /\ \A y \in {a, b} : L!Max({a, b}) >= y
    BY <2>1 DEF L!Max
  <2> QED BY <2>2
<1> QED BY <1>1, <1>2

(* What is seen.                                                           *)
LEMMA SeenIs ==
  ASSUME NEW w \in Win, NEW n \in Int, NEW h \in Int
  PROVE  L!Seen(w, n, h) <=> w.beg <= w.sel /\ w.sel < w.beg + (h - 3) /\ w.sel < n
<1>1. w.beg \in Int /\ w.sel \in Int /\ w.beg + (h - 3) \in Int
  BY DEF Win
<1>2. L!Min({w.beg + (h - 3), n}) = IF w.beg + (h - 3) <= n THEN w.beg + (h - 3) ELSE n
  BY <1>1, LesserIs
<1> QED BY <1>1, <1>2 DEF L!Seen, L!Lines

(* One line down and one up (ScrollDown, ScrollUp).                        *)
LEMMA LineIs ==
  ASSUME NEW w \in Win, NEW n \in Int, NEW h \in Nat, h >= 5
  PROVE  /\ L!ScrollDown(w, n, h) \in Win /\ L!ScrollUp(w, n, h) \in Win
         /\ w \in Within(n) => L!ScrollDown(w, n, h) \in Within(n) /\ L!ScrollUp(w, n, h) \in Within(n)
         /\ w \in SeenIn(n, h) => L!ScrollDown(w, n, h) \in SeenIn(n, h) /\ L!ScrollUp(w, n, h) \in SeenIn(n, h)
<1>1. PICK b, s : b = w.beg /\ s = w.sel
  OBVIOUS
<1>2. b \in Int /\ s \in Int
  BY <1>1 DEF Win
<1>3. PICK mid : mid = (h - 2) \div 2
  OBVIOUS
<1>4. mid \in Int /\ mid <= h - 4 /\ mid >= 1
  BY <1>3
<1>5. PICK s1, b1 : /\ s1 = (IF s < n - 1 THEN s + 1 ELSE s)
                    /\ b1 = (IF s1 > mid /\ b < n - (h - 3) THEN b + 1 ELSE b)
  OBVIOUS
<1>6. L!ScrollDown(w, n, h) = [beg |-> b1, sel |-> s1]
  BY <1>1, <1>3, <1>5 DEF L!ScrollDown, L!Lines, L!Middle
<1>7. PICK s2, b2 : /\ s2 = (IF s > 0 THEN s - 1 ELSE s)
                    /\ b2 = (IF s2 < b + mid /\ b > 0 THEN b - 1 ELSE b)
  OBVIOUS
<1>8. L!ScrollUp(w, n, h) = [beg |-> b2, sel |-> s2]
  BY <1>1, <1>3, <1>7 DEF L!ScrollUp, L!Lines, L!Middle
<1>9. b1 \in Int /\ s1 \in Int /\ b2 \in Int /\ s2 \in Int
  BY <1>2, <1>5, <1>7
<1>10. [beg |-> b1, sel |-> s1] \in Win /\ [beg |-> b2, sel |-> s2] \in Win
  BY <1>9 DEF Win
<1>11. ASSUME 0 <= b, b <= s, s < n
       PROVE  0 <= b1 /\ b1 <= s1 /\ s1 < n /\ 0 <= b2 /\ b2 <= s2 /\ s2 < n
  BY <1>2, <1>4, <1>5, <1>7, <1>11
<1>12. ASSUME 0 <= b, b <= s, s < n, s < b + (h - 3)
       PROVE  s1 < b1 + (h - 3) /\ s2 < b2 + (h - 3)
  BY <1>2, <1>4, <1>5, <1>7, <1>12
<1>13. w \in Within(n) => [beg |-> b1, sel |-> s1] \in Within(n) /\ [beg |-> b2, sel |-> s2] \in Within(n)
  BY <1>1, <1>10, <1>11 DEF Within
<1>14. w \in SeenIn(n, h) => [beg |-> b1, sel |-> s1] \in SeenIn(n, h) /\ [beg |-> b2, sel |-> s2] \in SeenIn(n, h)
  <2> SUFFICES ASSUME w \in SeenIn(n, h)
               PROVE  [beg |-> b1, sel |-> s1] \in SeenIn(n, h) /\ [beg |-> b2, sel |-> s2] \in SeenIn(n, h)
    OBVIOUS
  <2>1. 0 <= b /\ b <= s /\ s < n /\ s < b + (h - 3) /\ w \in Within(n)
    BY <1>1, SeenIs DEF SeenIn, Within
  <2>2. s1 < b1 + (h - 3) /\ s2 < b2 + (h - 3) /\ b1 <= s1 /\ s1 < n /\ b2 <= s2 /\ s2 < n
    BY <2>1, <1>11, <1>12
  <2>3. L!Seen([beg |-> b1, sel |-> s1], n, h) /\ L!Seen([beg |-> b2, sel |-> s2], n, h)
    BY <1>10, <2>2, SeenIs
  <2> QED BY <1>13, <2>1, <2>3 DEF SeenIn
<1> QED BY <1>6, <1>8, <1>10, <1>13, <1>14

(* Half a page keeps what a line keeps (Paged).                            *)
LEMMA PagedIs ==
  ASSUME NEW W, NEW w \in W, NEW key, NEW n \in Int, NEW h \in Nat, h >= 5,
         \A x \in W : L!ScrollDown(x, n, h) \in W /\ L!ScrollUp(x, n, h) \in W
  PROVE  L!Paged(key, w, n, h) \in W
<1> DEFINE Step(x) == IF key = "page down" THEN L!ScrollDown(x, n, h) ELSE L!ScrollUp(x, n, h)
           most == L!Lines(h) \div 2
           IsAfter(f) == f = [k \in 0 .. most |-> IF k = 0 THEN w ELSE Step(f[k - 1])]
           after == CHOOSE f : IsAfter(f)
<1>1. L!Paged(key, w, n, h) = after[most]
  BY DEF L!Paged
<1>2. most \in Nat
  BY DEF L!Lines
<1>3. \A x \in W : Step(x) \in W
  OBVIOUS
<1> DEFINE step == [x \in W |-> Step(x)]
<1>4. step \in [W -> W]
  BY <1>3
<1> HIDE DEF most, Step
<1>5. PICK f \in [0 .. most -> W] : f[0] = w /\ \A k \in 1 .. most : f[k] = step[f[k - 1]]
  <2>1. PICK s : s = step
    OBVIOUS
  <2>2. s \in [W -> W]
    BY <1>4, <2>1
  <2> HIDE DEF step, IsAfter, after
  <2>3. \E f : Steps(f, W, w, s, most)
    BY <1>2, <2>2, Repeated
  <2> QED BY <2>1, <2>3 DEF Steps
<1>6. IsAfter(f)
  <2>1. ASSUME NEW k \in 0 .. most PROVE f[k] = IF k = 0 THEN w ELSE Step(f[k - 1])
    <3>1. CASE k = 0
      BY <1>5, <3>1
    <3>2. CASE k # 0
      <4>1. k \in 1 .. most /\ k - 1 \in 0 .. most
        BY <1>2, <3>2
      <4>2. f[k - 1] \in W
        BY <1>5, <4>1
      <4> QED BY <1>5, <3>2, <4>1, <4>2
    <3> QED BY <3>1, <3>2
  <2>2. f = [k \in 0 .. most |-> f[k]]
    BY <1>5
  <2> QED BY <2>1, <2>2
<1>7. IsAfter(after)
  <2> HIDE DEF IsAfter
  <2> QED BY <1>6
<1> HIDE DEF after
<1> DEFINE S == {k \in Nat : k <= most => after[k] \in W}
<1>8. 0 \in S
  BY <1>2, <1>7
<1>9. ASSUME NEW k \in Nat, k \in S PROVE k + 1 \in S
  <2>1. CASE k + 1 <= most
    <3>1. after[k] \in W /\ k + 1 \in 0 .. most /\ k + 1 # 0 /\ (k + 1) - 1 = k
      BY <1>2, <1>9, <2>1
    <3>2. after[k + 1] = Step(after[k])
      BY <1>7, <3>1
    <3> QED BY <1>3, <3>1, <3>2
  <2>2. CASE ~(k + 1 <= most)
    BY <2>2
  <2> QED BY <2>1, <2>2
<1> HIDE DEF S
<1>10. most \in S
  BY <1>2, <1>8, <1>9, AllNumbers
<1> QED BY <1>1, <1>2, <1>10 DEF S

(* What a key makes of a window (Scrolled).                                *)
LEMMA ScrolledIs ==
  ASSUME NEW w \in Win, NEW n \in Nat, n > 0, NEW h \in Nat, h >= 5, NEW key
  PROVE  /\ L!Scrolled(key, w, n, h) \in Win
         /\ w \in Within(n) \/ key \in {"home", "end"} => L!Scrolled(key, w, n, h) \in Within(n)
         /\ w \in SeenIn(n, h) => L!Scrolled(key, w, n, h) \in SeenIn(n, h)
<1>1. L!Start \in Win /\ L!Start \in Within(n)
  BY DEF L!Start, Win, Within
<1>2. L!Start.beg = 0 /\ L!Start.sel = 0
  BY DEF L!Start
<1>3. L!Start \in SeenIn(n, h)
  <2>1. L!Seen(L!Start, n, h)
    BY <1>1, <1>2, SeenIs
  <2> QED BY <1>1, <2>1 DEF SeenIn
<1>4. PICK b : b = IF n - (h - 3) >= 0 THEN n - (h - 3) ELSE 0
  OBVIOUS
<1>5. b \in Int /\ 0 <= b /\ b <= n - 1 /\ n - 1 < b + (h - 3) /\ n - 1 < n
  BY <1>4
<1>6. L!ScrollEnd(w, n, h) = [beg |-> b, sel |-> n - 1]
  <2>1. n - (h - 3) \in Int /\ 0 \in Int
    OBVIOUS
  <2>2. L!Max({n - (h - 3), 0}) = b
    BY <1>4, <2>1, LesserIs
  <2> QED BY <2>2 DEF L!ScrollEnd, L!Lines
<1>7. [beg |-> b, sel |-> n - 1] \in Win /\ [beg |-> b, sel |-> n - 1] \in Within(n)
  BY <1>5 DEF Win, Within
<1>8. [beg |-> b, sel |-> n - 1] \in SeenIn(n, h)
  <2>1. L!Seen([beg |-> b, sel |-> n - 1], n, h)
    BY <1>5, <1>7, SeenIs
  <2> QED BY <1>7, <2>1 DEF SeenIn
<1>9. \A x \in Win : L!ScrollDown(x, n, h) \in Win /\ L!ScrollUp(x, n, h) \in Win
  BY LineIs
<1>10. \A x \in Within(n) : L!ScrollDown(x, n, h) \in Within(n) /\ L!ScrollUp(x, n, h) \in Within(n)
  <2>1. \A x \in Within(n) : x \in Win
    BY DEF Within
  <2> QED BY <2>1, LineIs
<1>11. \A x \in SeenIn(n, h) : L!ScrollDown(x, n, h) \in SeenIn(n, h) /\ L!ScrollUp(x, n, h) \in SeenIn(n, h)
  <2>1. \A x \in SeenIn(n, h) : x \in Win
    BY DEF SeenIn, Within
  <2> QED BY <2>1, LineIs
<1>12. /\ L!Paged(key, w, n, h) \in Win
       /\ w \in Within(n) => L!Paged(key, w, n, h) \in Within(n)
       /\ w \in SeenIn(n, h) => L!Paged(key, w, n, h) \in SeenIn(n, h)
  <2> HIDE DEF Win, Within, SeenIn
  <2>1. L!Paged(key, w, n, h) \in Win
    BY <1>9, PagedIs
  <2>2. ASSUME w \in Within(n) PROVE L!Paged(key, w, n, h) \in Within(n)
    BY <1>10, <2>2, PagedIs
  <2>3. ASSUME w \in SeenIn(n, h) PROVE L!Paged(key, w, n, h) \in SeenIn(n, h)
    BY <1>11, <2>3, PagedIs
  <2> QED BY <2>1, <2>2, <2>3
<1>13. L!Scrolled(key, w, n, h) \in
         {L!ScrollDown(w, n, h), L!ScrollUp(w, n, h), L!Start, L!ScrollEnd(w, n, h), L!Paged(key, w, n, h)}
  BY DEF L!Scrolled
<1>14. key \in {"home", "end"} => L!Scrolled(key, w, n, h) \in {L!Start, L!ScrollEnd(w, n, h)}
  BY DEF L!Scrolled
<1> QED BY <1>1, <1>3, <1>6, <1>7, <1>8, <1>9, <1>10, <1>11, <1>12, <1>13, <1>14
-----------------------------------------------------------------------------
(* The view of a list.                                                     *)

(* The selected item is one of the list, and not above the window, unless  *)
(* it went up by itself.                                                   *)
Kept(w, n) == IF n = 0 THEN w = L!Start ELSE w \in Within(n)

ViewInv ==
  /\ count \in Nat /\ window \in Win /\ height \in Heights /\ lifted \in BOOLEAN
  /\ ~lifted => Kept(window, count)
  /\ L!SelectedSeen

(* A height that a view has.                                               *)
LEMMA HeightIs == \A h \in Heights : h \in Nat /\ h >= 5
BY HeightsAssumption

(* Once redrawn, the selected item is above the window's end or not in the *)
(* list; one that is in the list is seen (Redrawn).                        *)
LEMMA RedrawnIs ==
  ASSUME NEW w \in Win, NEW n \in Nat, NEW h \in Nat, h >= 5
  PROVE  /\ L!Redrawn(w, n, h) \in Win
         /\ n = 0 => L!Redrawn(w, n, h) = w
         /\ n > 0 => L!Redrawn(w, n, h).sel < L!Redrawn(w, n, h).beg + L!Lines(h) \/ L!Redrawn(w, n, h).sel >= n
         /\ w \in Within(n) => L!Redrawn(w, n, h) \in SeenIn(n, h)
<1>1. PICK b, s : b = w.beg /\ s = w.sel
  OBVIOUS
<1>2. b \in Int /\ s \in Int /\ w = [beg |-> b, sel |-> s]
  BY <1>1 DEF Win
<1>3. PICK mid : mid = (h - 2) \div 2
  OBVIOUS
<1>4. mid \in Int /\ mid <= h - 4 /\ mid >= 1
  BY <1>3
<1>5. PICK most : most = (IF n - (h - 3) >= 0 THEN n - (h - 3) ELSE 0)
  OBVIOUS
<1>6. PICK b1 : b1 = (IF s <= mid THEN 0 ELSE IF s <= most THEN s ELSE most)
  OBVIOUS
<1>7. most \in Int /\ b1 \in Int /\ b + (h - 3) \in Int
  BY <1>2, <1>5, <1>6
<1>8. PICK brim : brim = (IF b + (h - 3) <= n THEN b + (h - 3) ELSE n)
  OBVIOUS
<1>9. L!Min({b + (h - 3), n}) = brim /\ L!Max({n - (h - 3), 0}) = most /\ L!Min({s, most}) = (IF s <= most THEN s ELSE most)
  <2>1. n - (h - 3) \in Int /\ 0 \in Int /\ n \in Int
    OBVIOUS
  <2>2. L!Min({b + (h - 3), n}) = brim
    BY <1>7, <1>8, <2>1, LesserIs
  <2>3. L!Max({n - (h - 3), 0}) = most
    BY <1>5, <2>1, LesserIs
  <2>4. L!Min({s, most}) = (IF s <= most THEN s ELSE most)
    BY <1>2, <1>7, LesserIs
  <2> QED BY <2>2, <2>3, <2>4
<1>10. L!Redrawn(w, n, h) = IF n = 0 \/ s < brim THEN w ELSE [beg |-> b1, sel |-> s]
  <2>1. L!Redrawn(w, n, h) =
          IF n = 0 \/ s < L!Min({b + (h - 3), n}) THEN w
          ELSE [beg |-> IF s <= mid THEN 0 ELSE L!Min({s, L!Max({n - (h - 3), 0})}), sel |-> s]
    BY <1>1, <1>2, <1>3 DEF L!Redrawn, L!Lines, L!Middle
  <2> QED BY <1>6, <1>9, <2>1
<1>11. [beg |-> b1, sel |-> s] \in Win
  BY <1>2, <1>7 DEF Win
<1>12. ASSUME n > 0, ~(s < brim) PROVE s < b1 + (h - 3) \/ s >= n
  BY <1>2, <1>4, <1>5, <1>6, <1>8, <1>12
<1>13. ASSUME s < brim PROVE s < b + (h - 3) /\ s < n
  BY <1>2, <1>8, <1>13
<1>14. n > 0 => L!Redrawn(w, n, h).sel < L!Redrawn(w, n, h).beg + L!Lines(h) \/ L!Redrawn(w, n, h).sel >= n
  BY <1>1, <1>10, <1>12, <1>13 DEF L!Lines
<1>15. ASSUME w \in Within(n) PROVE L!Redrawn(w, n, h) \in SeenIn(n, h)
  <2>1. 0 <= b /\ b <= s /\ s < n
    BY <1>1, <1>15 DEF Within
  <2>2. CASE s < brim
    <3>1. L!Seen(w, n, h)
      BY <1>1, <1>13, <2>1, <2>2, SeenIs
    <3> QED BY <1>10, <1>15, <2>2, <3>1 DEF SeenIn
  <2>3. CASE ~(s < brim)
    <3>1. s < b1 + (h - 3) /\ 0 <= b1 /\ b1 <= s
      BY <1>2, <1>4, <1>5, <1>6, <1>8, <1>12, <2>1, <2>3
    <3>2. L!Seen([beg |-> b1, sel |-> s], n, h)
      BY <1>11, <2>1, <3>1, SeenIs
    <3>3. [beg |-> b1, sel |-> s] \in Within(n)
      BY <1>11, <2>1, <3>1 DEF Within
    <3>4. n # 0
      BY <1>2, <2>1
    <3> QED BY <1>10, <2>3, <3>2, <3>3, <3>4 DEF SeenIn
  <2> QED BY <2>2, <2>3
<1> QED BY <1>10, <1>11, <1>14, <1>15

(* In the beginning the list is empty (Init).                              *)
LEMMA ViewStarts == L!Init => ViewInv
<1> SUFFICES ASSUME L!Init PROVE ViewInv
  OBVIOUS
<1>1. count = 0 /\ window = L!Start /\ height \in Heights /\ fresh = FALSE /\ lifted = FALSE
  BY DEF L!Init
<1>2. window \in Win
  BY <1>1 DEF L!Start, Win
<1>3. L!SelectedSeen
  BY <1>1 DEF L!SelectedSeen
<1> QED BY <1>1, <1>2, <1>3 DEF ViewInv, Kept

(* A list that is drawn shows what is selected (Refresh, InjectKey).       *)
LEMMA ViewDraws ==
  ASSUME ViewInv, UNCHANGED <<count, height>>, NEW w \in Win, window' = L!Redrawn(w, count, height),
         lifted' \in BOOLEAN, ~lifted' => Kept(w, count)
  PROVE  ViewInv'
<1>1. count \in Nat /\ height \in Nat /\ height >= 5 /\ count' = count /\ height' = height /\ height \in Heights
  BY HeightIs DEF ViewInv
<1>2. PICK n, h, v : n = count /\ h = height /\ v = L!Redrawn(w, count, height)
  OBVIOUS
<1>3. /\ v \in Win /\ (n = 0 => v = w)
      /\ n > 0 => v.sel < v.beg + L!Lines(h) \/ v.sel >= n
      /\ w \in Within(n) => v \in SeenIn(n, h)
  BY <1>1, <1>2, RedrawnIs
<1>4. window' = v /\ count' = n /\ height' = h
  BY <1>1, <1>2
<1>5. n > 0 /\ ~lifted' => v \in SeenIn(n, h)
  <2>1. n > 0 /\ ~lifted' => w \in Within(n)
    BY <1>1, <1>2 DEF Kept
  <2> QED BY <1>3, <2>1
<1>6. L!SelectedSeen'
  <2>1. n > 0 /\ ~lifted' => L!Seen(v, n, h)
    BY <1>5 DEF SeenIn
  <2> QED BY <1>3, <1>4, <2>1 DEF L!SelectedSeen
<1>7. ~lifted' => Kept(v, n)
  <2>1. CASE n = 0
    BY <1>2, <1>3, <2>1 DEF Kept
  <2>2. CASE n # 0
    <3>1. n > 0
      BY <1>1, <1>2, <2>2
    <3> QED BY <1>5, <2>2, <3>1 DEF Kept, SeenIn
  <2> QED BY <2>1, <2>2
<1>8. window' \in Win /\ count' \in Nat /\ height' \in Heights
  BY <1>1, <1>2, <1>3, <1>4
<1>9. (~lifted => Kept(window, count))'
  BY <1>4, <1>7 DEF Kept, Within, L!Start
<1> QED BY <1>6, <1>8, <1>9 DEF ViewInv

(* Every step of the view keeps its invariant (Next).                      *)
LEMMA ViewSteps == ViewInv /\ L!Next => ViewInv'
<1> SUFFICES ASSUME ViewInv, L!Next PROVE ViewInv'
  OBVIOUS
<1>0. /\ count \in Nat /\ window \in Win /\ height \in Heights /\ lifted \in BOOLEAN
      /\ height \in Nat /\ height >= 5
  BY HeightIs DEF ViewInv
<1>a. ~lifted => Kept(window, count)
  BY DEF ViewInv
<1>1. CASE L!Refresh
  <2>1. UNCHANGED <<count, height>> /\ lifted' = lifted /\ window' = L!Redrawn(window, count, height)
    BY <1>1 DEF L!Refresh
  <2> QED BY <1>0, <1>a, <2>1, ViewDraws
<1>2. CASE \E key \in L!ScrollKey : L!InjectKey(key)
  <2>1. PICK key \in L!ScrollKey : L!InjectKey(key)
    BY <1>2
  <2>2. PICK w : w = L!Scrolled(key, window, count, height)
    OBVIOUS
  <2>3. /\ UNCHANGED <<count, height>> /\ count > 0
        /\ window' = L!Redrawn(w, count, height)
    BY <2>1, <2>2 DEF L!InjectKey
  <2>4. lifted' = (lifted /\ key \notin {"home", "end"})
    BY <2>1 DEF L!InjectKey
  <2>5. w \in Win /\ (window \in Within(count) \/ key \in {"home", "end"} => w \in Within(count))
    BY <1>0, <2>2, <2>3, ScrolledIs
  <2>6. ~lifted' => Kept(w, count)
    <3>1. count # 0
      BY <1>0, <2>3
    <3>2. ~lifted => window \in Within(count)
      BY <1>a, <3>1 DEF Kept
    <3>3. ~lifted' => ~lifted \/ key \in {"home", "end"}
      BY <2>4
    <3> QED BY <2>5, <3>1, <3>2, <3>3 DEF Kept
  <2>7. lifted' \in BOOLEAN
    BY <2>4
  <2> QED BY <2>3, <2>5, <2>6, <2>7, ViewDraws
<1>3. CASE L!SlotClear
  <2>1. count' = 0 /\ window' = L!Start /\ lifted' = FALSE /\ height' = height /\ fresh' = FALSE
    BY <1>3 DEF L!SlotClear
  <2>2. window' \in Win
    BY <2>1 DEF L!Start, Win
  <2>3. (~lifted => Kept(window, count))'
    BY <2>1 DEF Kept, L!Start
  <2> QED BY <1>0, <2>1, <2>2, <2>3 DEF ViewInv, L!SelectedSeen
<1>4. CASE \E h \in Heights : L!Resize(h)
  <2>1. PICK h \in Heights : L!Resize(h)
    BY <1>4
  <2>2. count' = count /\ window' = window /\ lifted' = lifted /\ height' = h /\ fresh' = FALSE
    BY <2>1 DEF L!Resize
  <2>3. (~lifted => Kept(window, count))'
    BY <1>a, <2>2 DEF Kept, Within, L!Start
  <2> QED BY <1>0, <2>2, <2>3 DEF ViewInv, L!SelectedSeen
<1>5. CASE \E n \in 1 .. 2 : L!SlotAppend(n)
  <2>1. PICK n \in 1 .. 2 : L!SlotAppend(n)
    BY <1>5
  <2>2. count' = count + n /\ window' = window /\ lifted' = lifted /\ height' = height /\ fresh' = FALSE
    BY <2>1 DEF L!SlotAppend
  <2>3. (~lifted => Kept(window, count))'
    <3> SUFFICES ASSUME ~lifted PROVE Kept(window', count')
      BY <2>2 DEF Kept, Within, L!Start
    <3>1. count' > 0 /\ count' >= count /\ count' \in Nat
      BY <1>0, <2>2
    <3>2. CASE count = 0
      <4>1. window = L!Start
        BY <1>a, <3>2 DEF Kept
      <4> QED BY <2>2, <3>1, <4>1 DEF Kept, Within, Win, L!Start
    <3>3. CASE count # 0
      <4>1. window \in Within(count)
        BY <1>a, <3>3 DEF Kept
      <4>2. window.sel \in Int
        BY <1>0 DEF Win
      <4> QED BY <1>0, <2>2, <3>1, <4>1, <4>2 DEF Kept, Within
    <3> QED BY <3>2, <3>3
  <2>4. count' \in Nat
    BY <1>0, <2>2
  <2> QED BY <1>0, <2>2, <2>3, <2>4 DEF ViewInv, L!SelectedSeen
<1>6. CASE \E pos \in 0 .. MaxItems : L!SlotSelect(pos)
  <2>1. PICK pos \in 0 .. MaxItems : L!SlotSelect(pos)
    BY <1>6
  <2>2. /\ count' = count /\ lifted' = TRUE /\ height' = height /\ fresh' = FALSE
        /\ window' = [window EXCEPT !.sel = pos]
    BY <2>1 DEF L!SlotSelect
  <2>3. window' \in Win
    BY <1>0, <2>2 DEF Win
  <2> QED BY <1>0, <2>2, <2>3 DEF ViewInv, L!SelectedSeen
<1>7. CASE \E pos \in 0 .. MaxItems : L!SlotRemove(pos)
  <2>1. PICK pos \in 0 .. MaxItems : L!SlotRemove(pos)
    BY <1>7
  <2>2. /\ count' = count - 1 /\ lifted' = TRUE /\ height' = height /\ fresh' = FALSE /\ pos < count
        /\ window' = [window EXCEPT !.sel = IF count' > 0 /\ @ >= count' - 1 THEN count' - 1 ELSE @]
    BY <2>1 DEF L!SlotRemove
  <2>3. count' \in Nat
    BY <1>0, <2>2
  <2>4. window' \in Win
    BY <1>0, <2>2, <2>3 DEF Win
  <2> QED BY <1>0, <2>2, <2>3, <2>4 DEF ViewInv, L!SelectedSeen
<1>8. CASE \E pos \in 0 .. MaxItems, direct \in {-1, 1} : L!SlotMove(pos, direct)
  <2>1. PICK pos \in 0 .. MaxItems, direct \in {-1, 1} : L!SlotMove(pos, direct)
    BY <1>8
  <2>2. PICK to : to = IF direct > 0 THEN pos + 1 ELSE pos - 1
    OBVIOUS
  <2>3. /\ count' = count /\ height' = height /\ fresh' = FALSE /\ to \in 0 .. count - 1
        /\ window' = [window EXCEPT !.sel = to]
    BY <2>1, <2>2 DEF L!SlotMove
  <2>4. lifted' = (lifted \/ to < window.sel)
    BY <2>1, <2>2 DEF L!SlotMove
  <2>5. window' \in Win
    BY <1>0, <2>3 DEF Win
  <2>6. (~lifted => Kept(window, count))'
    <3> SUFFICES ASSUME ~lifted, ~(to < window.sel) PROVE Kept(window', count')
      BY <2>3, <2>4 DEF Kept, Within, L!Start
    <3>1. count # 0
      BY <1>0, <2>3
    <3>2. window \in Within(count) /\ window.sel \in Int /\ window.beg \in Int
      BY <1>0, <1>a, <3>1 DEF Kept, Win
    <3>3. window'.sel = to /\ window'.beg = window.beg
      BY <1>0, <2>3 DEF Win
    <3>4. window' \in Within(count)
      <4>1. to \in Int /\ 0 <= window.beg /\ window.beg <= window.sel /\ to < count /\ window.beg <= to
        BY <1>0, <2>3, <3>2 DEF Within
      <4> QED BY <2>5, <3>3, <4>1 DEF Within
    <3> QED BY <2>3, <3>1, <3>4 DEF Kept
  <2>7. lifted' \in BOOLEAN
    BY <2>4
  <2> QED BY <1>0, <2>3, <2>5, <2>6, <2>7 DEF ViewInv, L!SelectedSeen
<1> QED BY <1>1, <1>2, <1>3, <1>4, <1>5, <1>6, <1>7, <1>8 DEF L!Next
-----------------------------------------------------------------------------
(* The layers of the screen.                                               *)

Layer == [mask : SUBSET {"playlist", "status", "explorer", "help"}, views : SUBSET V!View, focused : Seq(V!View)]
HelpLayer == [mask |-> {"help"}, views |-> {V!Help}, focused |-> <<V!Help>>]

(* The bottom layer, with the explorer and without, while n is chosen.     *)
Bottom(l, n) ==
  \/ l.mask = V!Base /\ l.views = {n, V!Status} /\ l.focused = <<n>>
  \/ /\ l.mask = V!Base \cup {"explorer"} /\ l.views = {n, V!Status, V!Explorer}
     /\ Len(l.focused) = 2 /\ V!Last(l.focused) \in {n, V!Explorer}

(* What the layers are, and, unless a switch was made under the help, which*)
(* view has the keys.                                                      *)
Stacked(ls) ==
  \/ \E b \in Layer : ls = <<b>> /\ V!Help \notin b.views
  \/ \E b, t \in Layer : ls = <<b, t>> /\ V!Help \notin b.views /\ V!Help \in t.views
Ordered(ls, n, has) ==
  \/ \E b \in Layer : ls = <<b>> /\ Bottom(b, n) /\ has = {V!Last(b.focused)}
  \/ \E b \in Layer : ls = <<b, HelpLayer>> /\ Bottom(b, n) /\ has = {}

LayoutInv ==
  /\ iPlaylist \in V!List /\ switchPlaylistTo \in V!List \cup {V!None} /\ blind \in BOOLEAN
  /\ Stacked(layers) /\ visible = V!Top(layers).views
  /\ ~blind => Ordered(layers, iPlaylist, hasFocus) /\ visible \subseteq placed

(* What is seen is drawn, or will be.                                      *)
DrawnInv ==
  /\ lengths \in [V!List -> Int] /\ drawn \in [V!List -> Int] /\ needRefresh \in [V!List -> Nat]
  /\ V!DrawnOrDue

(* The views are all different.                                            *)
LEMMA ViewsDiffer ==
  /\ 1 \in V!List /\ 0 \in V!List
  /\ V!Help \notin V!List /\ V!Status \notin V!List /\ V!Explorer \notin V!List /\ V!None \notin V!List
  /\ V!Help # V!Status /\ V!Help # V!Explorer /\ V!Status # V!Explorer
  /\ V!Base # {"help"} /\ V!Base \cup {"explorer"} # {"help"} /\ V!Base # V!Base \cup {"explorer"}
  /\ "explorer" \notin V!Base
<1>1. 1 \in V!List /\ 0 \in V!List
  BY ListsAssumption DEF V!List
<1>2. V!Help \notin V!List /\ V!Status \notin V!List /\ V!Explorer \notin V!List /\ V!None \notin V!List
  BY ListsAssumption DEF V!List, V!Help, V!Status, V!Explorer, V!None
<1>3. V!Help # V!Status /\ V!Help # V!Explorer /\ V!Status # V!Explorer
  BY DEF V!Help, V!Status, V!Explorer
<1>4. V!Base # {"help"} /\ V!Base \cup {"explorer"} # {"help"} /\ V!Base # V!Base \cup {"explorer"} /\ "explorer" \notin V!Base
  BY DEF V!Base
<1> QED BY <1>1, <1>2, <1>3, <1>4

(* A sequence without its last element.                                    *)
LEMMA FrontOf ==
  ASSUME NEW Z, NEW r \in Seq(Z)
  PROVE  /\ SubSeq(r, 1, Len(r) - 1) \in Seq(Z)
         /\ Len(SubSeq(r, 1, Len(r) - 1)) = IF r = <<>> THEN 0 ELSE Len(r) - 1
         /\ \A k \in 1 .. Len(r) - 1 : SubSeq(r, 1, Len(r) - 1)[k] = r[k]
<1>1. Len(r) \in Nat /\ Len(r) - 1 \in Int /\ 1 \in Int /\ (r = <<>> <=> Len(r) = 0)
  BY LenProperties, EmptySeq
<1>2. \A k \in 1 .. Len(r) - 1 : r[k] \in Z
  BY <1>1, ElementOfSeq
<1>3. /\ SubSeq(r, 1, Len(r) - 1) \in Seq(Z)
      /\ Len(SubSeq(r, 1, Len(r) - 1)) = IF 1 <= Len(r) - 1 THEN (Len(r) - 1) - 1 + 1 ELSE 0
      /\ \A k \in 1 .. (Len(r) - 1) - 1 + 1 : SubSeq(r, 1, Len(r) - 1)[k] = r[1 + k - 1]
  BY <1>1, <1>2, SubSeqProperties
<1>4. Len(SubSeq(r, 1, Len(r) - 1)) = IF r = <<>> THEN 0 ELSE Len(r) - 1
  BY <1>1, <1>3
<1>5. \A k \in 1 .. Len(r) - 1 : SubSeq(r, 1, Len(r) - 1)[k] = r[k]
  BY <1>1, <1>3
<1> QED BY <1>3, <1>4, <1>5

(* One layer or two.                                                       *)
LEMMA LayersAre ==
  ASSUME NEW b, NEW t
  PROVE  /\ Len(<<b>>) = 1 /\ <<b>>[1] = b /\ V!Top(<<b>>) = b
         /\ Len(<<b, t>>) = 2 /\ <<b, t>>[1] = b /\ <<b, t>>[2] = t /\ V!Top(<<b, t>>) = t
         /\ Append(<<b>>, t) = <<b, t>> /\ V!Front(<<b, t>>) = <<b>>
<1>1. /\ Len(<<b>>) = 1 /\ <<b>>[1] = b
      /\ Len(<<b, t>>) = 2 /\ <<b, t>>[1] = b /\ <<b, t>>[2] = t
  OBVIOUS
<1> DEFINE Z == {b, t}
<1>3. <<b>> \in Seq(Z) /\ <<b, t>> \in Seq(Z) /\ b \in Z /\ t \in Z
  OBVIOUS
<1> HIDE DEF Z
<1>4. Append(<<b>>, t) = <<b, t>>
  <2>1. /\ Append(<<b>>, t) \in Seq(Z) /\ Len(Append(<<b>>, t)) = Len(<<b>>) + 1
        /\ \A k \in 1 .. Len(<<b>>) : Append(<<b>>, t)[k] = <<b>>[k]
        /\ Append(<<b>>, t)[Len(<<b>>) + 1] = t
    BY <1>3, AppendProperties
  <2>2. Len(Append(<<b>>, t)) = 2 /\ Append(<<b>>, t)[1] = b /\ Append(<<b>>, t)[2] = t
    BY <1>1, <2>1
  <2>3. \A k \in 1 .. 2 : Append(<<b>>, t)[k] = <<b, t>>[k]
    BY <1>1, <2>2
  <2> QED BY <1>1, <1>3, <2>1, <2>2, <2>3, SeqEqual
<1>5. SubSeq(<<b, t>>, 1, Len(<<b, t>>) - 1) = <<b>>
  <2> DEFINE r == SubSeq(<<b, t>>, 1, Len(<<b, t>>) - 1)
  <2>1. r \in Seq(Z) /\ Len(r) = 1 /\ r[1] = b
    BY <1>1, <1>3, FrontOf
  <2> HIDE DEF r
  <2>2. Len(r) = Len(<<b>>) /\ \A k \in 1 .. Len(r) : r[k] = <<b>>[k]
    BY <1>1, <2>1
  <2>3. r = <<b>>
    BY <1>3, <2>1, <2>2, SeqEqual
  <2> QED BY <2>3 DEF r
<1>6. V!Front(<<b, t>>) = <<b>>
  BY <1>5 DEF V!Front
<1>7. V!Top(<<b>>) = b /\ V!Top(<<b, t>>) = t
  BY <1>1 DEF V!Top
<1> QED BY <1>1, <1>4, <1>6, <1>7

(* The one layer becomes another.                                          *)
LEMMA LayerIs ==
  ASSUME NEW b, NEW c
  PROVE  Len(<<b>>) = 1 /\ <<b>>[1] = b /\ V!Top(<<b>>) = b /\ [<<b>> EXCEPT ![1] = c] = <<c>>
BY DEF V!Top

(* The views that had the keys: the last of them is changed.               *)
LEMMA FocusIs ==
  ASSUME NEW Z, NEW s \in Seq(Z), NEW x \in Z
  PROVE  /\ V!Front(s) \in Seq(Z) /\ Append(s, x) \in Seq(Z) /\ V!Last(Append(s, x)) = x
         /\ Append(V!Front(s), x) \in Seq(Z) /\ V!Last(Append(V!Front(s), x)) = x
         /\ Len(s) >= 1 => Len(Append(V!Front(s), x)) = Len(s)
         /\ Len(s) = 1 => Append(V!Front(s), x) = <<x>>
         /\ Len(s) = 2 => Append(V!Front(V!Front(s)), x) = <<x>>
         /\ V!Last(<<x>>) = x
<1>1. Len(s) \in Nat
  OBVIOUS
<1>2. ASSUME NEW r \in Seq(Z) PROVE V!Front(r) \in Seq(Z) /\ (Len(r) >= 1 => Len(V!Front(r)) = Len(r) - 1)
  <2>1. Len(r) \in Nat /\ (r = <<>> => Len(r) = 0)
    OBVIOUS
  <2>2. V!Front(r) \in Seq(Z) /\ Len(V!Front(r)) = IF r = <<>> THEN 0 ELSE Len(r) - 1
    BY FrontOf DEF V!Front
  <2> QED BY <2>1, <2>2
<1>3. ASSUME NEW r \in Seq(Z) PROVE Append(r, x) \in Seq(Z) /\ V!Last(Append(r, x)) = x /\ Len(Append(r, x)) = Len(r) + 1
  BY DEF V!Last
<1>4. ASSUME NEW r \in Seq(Z), Len(r) = 0 PROVE Append(r, x) = <<x>>
  <2>1. r = <<>>
    BY <1>4
  <2> QED BY <2>1
<1>5. V!Last(<<x>>) = x
  BY DEF V!Last
<1>6. V!Front(s) \in Seq(Z) /\ (Len(s) >= 1 => Len(V!Front(s)) = Len(s) - 1)
  BY <1>2
<1>7. V!Front(V!Front(s)) \in Seq(Z) /\ (Len(V!Front(s)) >= 1 => Len(V!Front(V!Front(s))) = Len(V!Front(s)) - 1)
  BY <1>2, <1>6
<1>8. Len(s) = 1 => Len(V!Front(s)) = 0
  BY <1>6
<1>9. Len(s) = 2 => Len(V!Front(V!Front(s))) = 0
  <2> SUFFICES ASSUME Len(s) = 2 PROVE Len(V!Front(V!Front(s))) = 0
    OBVIOUS
  <2>1. Len(V!Front(s)) = 1
    BY <1>6
  <2> QED BY <1>7, <2>1
<1>10. /\ Append(s, x) \in Seq(Z) /\ V!Last(Append(s, x)) = x
       /\ Append(V!Front(s), x) \in Seq(Z) /\ V!Last(Append(V!Front(s), x)) = x
  BY <1>3, <1>6
<1>11. Len(s) >= 1 => Len(Append(V!Front(s), x)) = Len(s)
  BY <1>1, <1>3, <1>6
<1>12. Len(s) = 1 => Append(V!Front(s), x) = <<x>>
  BY <1>4, <1>6, <1>8
<1>13. Len(s) = 2 => Append(V!Front(V!Front(s)), x) = <<x>>
  BY <1>4, <1>7, <1>9
<1> QED BY <1>5, <1>6, <1>10, <1>11, <1>12, <1>13

(* Who has the keys is among the views of its layer.                       *)
LEMMA OrderedIs ==
  ASSUME NEW ls, NEW n \in V!List, NEW has, Ordered(ls, n, has)
  PROVE  /\ Stacked(ls) /\ V!Top(ls).views \subseteq V!LaidOut(V!Top(ls).mask, n)
         /\ ls[1].views \cap V!List = {n}
         /\ Len(ls) = 1 => has = {V!Last(V!Top(ls).focused)} /\ V!Last(V!Top(ls).focused) \in V!Top(ls).views
<1>1. PICK b \in Layer : Bottom(b, n) /\ ((ls = <<b>> /\ has = {V!Last(b.focused)}) \/ (ls = <<b, HelpLayer>> /\ has = {}))
  BY DEF Ordered
<1>2. b.views \subseteq V!LaidOut(b.mask, n) /\ b.views \cap V!List = {n} /\ V!Help \notin b.views
  BY <1>1, ViewsDiffer DEF Bottom, V!LaidOut
<1>3. V!Last(b.focused) \in b.views
  <2>1. V!Last(<<n>>) = n
    BY DEF V!Last
  <2> QED BY <1>1, <2>1 DEF Bottom
<1>4. CASE ls = <<b>>
  <2>1. V!Top(ls) = b /\ ls[1] = b /\ Len(ls) = 1
    BY <1>4, LayersAre
  <2>2. Stacked(ls)
    BY <1>2, <1>4 DEF Stacked
  <2>3. has = {V!Last(b.focused)}
    <3>1. <<b>> # <<b, HelpLayer>>
      <4>1. Len(<<b>>) # Len(<<b, HelpLayer>>)
        BY LayersAre
      <4> QED BY <4>1
    <3> QED BY <1>1, <1>4, <3>1
  <2> QED BY <1>2, <1>3, <2>1, <2>2, <2>3
<1>5. CASE ls = <<b, HelpLayer>>
  <2>1. V!Top(ls) = HelpLayer /\ ls[1] = b /\ Len(ls) = 2
    BY <1>5, LayersAre
  <2>2. HelpLayer \in Layer
    BY DEF HelpLayer, Layer, V!View
  <2>3. Stacked(ls)
    BY <1>2, <1>5, <2>2 DEF Stacked, HelpLayer
  <2>4. HelpLayer.views \subseteq V!LaidOut(HelpLayer.mask, n)
    BY DEF HelpLayer, V!LaidOut
  <2> QED BY <1>2, <2>1, <2>3, <2>4
<1> QED BY <1>1, <1>4, <1>5
(* The views of the top layer, refreshed, are drawn as they are.           *)
LEMMA RefreshIs ==
  ASSUME DrawnInv, NEW those, V!Refreshed(those), lengths' = lengths,
         \A l \in V!List \cap visible' : l \in those \/ (l \in visible /\ ~(l \in those))
  PROVE  DrawnInv'
<1>0. lengths \in [V!List -> Int] /\ drawn \in [V!List -> Int] /\ needRefresh \in [V!List -> Nat]
  BY DEF DrawnInv
<1>1. /\ drawn' = [l \in V!List |-> IF l \notin visible' THEN 0 ELSE IF l \in those THEN lengths[l] ELSE drawn[l]]
      /\ needRefresh' = [l \in V!List |-> IF l \in those /\ needRefresh[l] > 0 THEN needRefresh[l] - 1 ELSE needRefresh[l]]
  BY DEF V!Refreshed
<1>2. V!List' = V!List
  BY DEF V!List
<1>3. drawn' \in [V!List -> Int]
  BY <1>0, <1>1
<1>4. needRefresh' \in [V!List -> Nat]
  BY <1>0, <1>1
<1>5. ASSUME NEW l \in V!List, l \in visible'
      PROVE  drawn'[l] = lengths'[l] \/ needRefresh'[l] > 0
  <2>1. CASE l \in those
    BY <1>1, <1>5, <2>1
  <2>2. CASE l \notin those
    <3>1. l \in visible /\ drawn'[l] = drawn[l] /\ needRefresh'[l] = needRefresh[l]
      BY <1>1, <1>5, <2>2
    <3>2. drawn[l] = lengths[l] \/ needRefresh[l] > 0
      BY <1>5, <3>1 DEF DrawnInv, V!DrawnOrDue
    <3> QED BY <3>1, <3>2
  <2> QED BY <2>1, <2>2
<1> QED BY <1>0, <1>2, <1>3, <1>4, <1>5 DEF DrawnInv, V!DrawnOrDue

(* The layers become others, whose top is seen, drawn, and laid out if it  *)
(* is of views that are (UpdateTopLayout).                                 *)
LEMMA UpdateIs ==
  ASSUME LayoutInv, DrawnInv, lengths' = lengths, NEW ls, Stacked(ls), NEW vis, vis \subseteq V!Top(ls).views,
         NEW n \in V!List, V!UpdateTopLayout(ls, vis, n), switchPlaylistTo' \in V!List \cup {V!None}, blind' \in BOOLEAN,
         ~blind' => Ordered(ls, n, hasFocus')
  PROVE  LayoutInv' /\ DrawnInv'
<1>1. /\ layers' = ls /\ visible' = vis \cup V!Top(ls).views /\ iPlaylist' = n
      /\ V!Refreshed(V!Top(ls).views)
  BY DEF V!UpdateTopLayout
<1>2. visible' = V!Top(ls).views
  BY <1>1
<1>3. placed' = visible' \cap (V!LaidOut(V!Top(ls).mask, n) \cup
                               IF V!Top(ls).mask = V!Top(layers).mask THEN placed \cap vis ELSE {})
  BY DEF V!UpdateTopLayout
<1>4. DrawnInv'
  BY <1>1, <1>2, RefreshIs
<1>5. ASSUME ~blind' PROVE visible' \subseteq placed'
  <2>1. V!Top(ls).views \subseteq V!LaidOut(V!Top(ls).mask, n)
    BY <1>5, OrderedIs
  <2> QED BY <1>2, <1>3, <2>1
<1>6. Stacked(layers)'
  BY <1>1 DEF Stacked, Layer, V!View, V!List, V!Help, V!Explorer, V!Status
<1>7. ~blind' => Ordered(layers, iPlaylist, hasFocus)'
  BY <1>1 DEF Ordered, Layer, V!View, V!List, V!Help, V!Explorer, V!Status, Bottom, HelpLayer, V!Last, V!Base
<1>8. (visible = V!Top(layers).views)'
  BY <1>1, <1>2 DEF V!Top
<1>9. iPlaylist' \in V!List' /\ switchPlaylistTo' \in (V!List \cup {V!None})'
  BY <1>1 DEF V!List, V!None
<1> QED BY <1>4, <1>5, <1>6, <1>7, <1>8, <1>9 DEF LayoutInv

(* Another list is chosen (SwitchPlaylist).                                *)
LEMMA SwitchIs ==
  ASSUME LayoutInv, DrawnInv, lengths' = lengths, NEW n \in V!List, V!SwitchPlaylist(n),
         switchPlaylistTo' \in V!List \cup {V!None}
  PROVE  LayoutInv' /\ DrawnInv'
<1>1. CASE n = iPlaylist
  <2>1. UNCHANGED <<layers, visible, hasFocus, iPlaylist, placed, drawn, needRefresh, blind>>
    BY <1>1 DEF V!SwitchPlaylist, V!screen
  <2>2. LayoutInv'
    BY <2>1 DEF LayoutInv, Stacked, Ordered, Layer, V!View, V!List, V!Help, V!Explorer, V!Status, V!None,
       Bottom, HelpLayer, V!Last, V!Base, V!Top
  <2>3. DrawnInv'
    BY <2>1 DEF DrawnInv, V!DrawnOrDue, V!List
  <2> QED BY <2>2, <2>3
<1>2. CASE n # iPlaylist
  <2>1. PICK top, new, ls :
          /\ top = V!Top(layers) /\ new = V!Chosen(top, n)
          /\ ls = [layers EXCEPT ![Len(layers)] = new]
    OBVIOUS
  <2>2. /\ V!UpdateTopLayout(ls, visible \ {iPlaylist}, n)
        /\ hasFocus' = IF iPlaylist \in hasFocus THEN (hasFocus \ {iPlaylist}) \cup {n} ELSE hasFocus
        /\ blind' = (blind \/ Len(layers) > 1)
    BY <1>2, <2>1 DEF V!SwitchPlaylist, V!Top
  <2>3. iPlaylist \in V!List /\ Stacked(layers) /\ visible = top.views /\ blind \in BOOLEAN
    BY <2>1 DEF LayoutInv
  <2>4. ASSUME NEW l \in Layer
        PROVE  /\ V!Chosen(l, n) \in Layer /\ V!Chosen(l, n).mask = l.mask
               /\ V!Chosen(l, n).views = (l.views \ {iPlaylist}) \cup {n}
               /\ V!Chosen(l, n).focused = IF iPlaylist \in hasFocus THEN Append(V!Front(l.focused), n) ELSE l.focused
    <3>1. PICK m, w, f : l = [mask |-> m, views |-> w, focused |-> f]
      BY DEF Layer
    <3>2. m \in SUBSET {"playlist", "status", "explorer", "help"} /\ w \in SUBSET V!View /\ f \in Seq(V!View)
      BY <3>1 DEF Layer
    <3>3. n \in V!View
      BY DEF V!View
    <3>4. PICK g : g = IF iPlaylist \in hasFocus THEN Append(V!Front(f), n) ELSE f
      OBVIOUS
    <3>5. g \in Seq(V!View)
      BY <3>2, <3>3, <3>4, FocusIs
    <3>6. PICK v : v = (w \ {iPlaylist}) \cup {n}
      OBVIOUS
    <3>7. V!Chosen(l, n) = [mask |-> m, views |-> v, focused |-> g]
      <4>1. V!Chosen(l, n) = [l EXCEPT !.views = v, !.focused = g]
        <5>1. l.views = w /\ l.focused = f
          BY <3>1
        <5>2. CASE iPlaylist \in hasFocus
          BY <3>4, <3>6, <5>1, <5>2 DEF V!Chosen
        <5>3. CASE iPlaylist \notin hasFocus
          BY <3>4, <3>6, <5>1, <5>3 DEF V!Chosen
        <5> QED BY <5>2, <5>3
      <4> QED BY <3>1, <4>1
    <3>8. v \in SUBSET V!View
      BY <3>2, <3>3, <3>6
    <3>9. V!Chosen(l, n) \in Layer
      BY <3>2, <3>5, <3>7, <3>8 DEF Layer
    <3>10. V!Chosen(l, n).mask = m /\ V!Chosen(l, n).views = v /\ V!Chosen(l, n).focused = g
      BY <3>7
    <3>11. l.mask = m /\ l.views = w /\ l.focused = f
      BY <3>1
    <3> QED BY <3>4, <3>6, <3>9, <3>10, <3>11
  <2>5. /\ Stacked(ls) /\ V!Top(ls) = new /\ new.views = (top.views \ {iPlaylist}) \cup {n}
        /\ \A b : layers = <<b>> => ls = <<new>> /\ top = b
        /\ layers[1] \in Layer
    <3>1. CASE \E b \in Layer : layers = <<b>> /\ V!Help \notin b.views
      <4>1. PICK b \in Layer : layers = <<b>> /\ V!Help \notin b.views
        BY <3>1
      <4>2. top = b /\ ls = <<new>> /\ layers[1] = b
        <5>1. Len(<<b>>) = 1 /\ <<b>>[1] = b /\ V!Top(<<b>>) = b /\ [<<b>> EXCEPT ![1] = new] = <<new>>
          BY LayerIs
        <5>2. ls = [<<b>> EXCEPT ![Len(<<b>>)] = new]
          BY <2>1, <4>1
        <5> QED BY <2>1, <4>1, <5>1, <5>2
      <4>3. new \in Layer /\ new.views = (b.views \ {iPlaylist}) \cup {n}
        BY <2>1, <2>4, <4>2
      <4>4. V!Help \notin new.views
        BY <4>1, <4>3, ViewsDiffer
      <4>5. \A c : layers = <<c>> => c = b
        BY <4>2
      <4> QED BY <4>1, <4>2, <4>3, <4>4, <4>5, LayersAre DEF Stacked
    <3>2. CASE \E b, t \in Layer : layers = <<b, t>> /\ V!Help \notin b.views /\ V!Help \in t.views
      <4>1. PICK b \in Layer, t \in Layer : layers = <<b, t>> /\ V!Help \notin b.views /\ V!Help \in t.views
        BY <3>2
      <4>2. top = t /\ ls = <<b, new>> /\ layers[1] = b /\ Len(layers) = 2
        <5>1. Len(<<b, t>>) = 2 /\ <<b, t>>[1] = b /\ V!Top(<<b, t>>) = t
          BY LayersAre
        <5>2. ls = [<<b, t>> EXCEPT ![Len(<<b, t>>)] = new]
          BY <2>1, <4>1
        <5>3. [<<b, t>> EXCEPT ![2] = new] = <<b, new>>
          OBVIOUS
        <5> QED BY <2>1, <4>1, <5>1, <5>2, <5>3
      <4>3. new \in Layer /\ new.views = (t.views \ {iPlaylist}) \cup {n}
        BY <2>1, <2>4, <4>2
      <4>4. V!Help \in new.views
        BY <2>3, <4>1, <4>3, ViewsDiffer
      <4>5. \A c : layers # <<c>>
        BY <4>2, LayersAre
      <4>6. Stacked(ls)
        BY <4>1, <4>2, <4>3, <4>4 DEF Stacked
      <4>7. V!Top(ls) = new
        BY <4>2, LayersAre
      <4> QED BY <4>2, <4>3, <4>5, <4>6, <4>7
    <3> QED BY <2>3, <3>1, <3>2 DEF Stacked
  <2>6. visible \ {iPlaylist} \subseteq V!Top(ls).views
    BY <2>3, <2>5
  <2>7. blind' \in BOOLEAN
    BY <2>2, <2>3
  <2>8. ASSUME ~blind' PROVE Ordered(ls, n, hasFocus')
    <3>1. ~blind /\ ~(Len(layers) > 1)
      BY <2>2, <2>3, <2>8
    <3>2. Ordered(layers, iPlaylist, hasFocus)
      BY <3>1 DEF LayoutInv
    <3>3. PICK b \in Layer : layers = <<b>> /\ Bottom(b, iPlaylist) /\ hasFocus = {V!Last(b.focused)}
      <4>1. ASSUME NEW b PROVE Len(<<b, HelpLayer>>) = 2 /\ 2 > 1
        BY LayersAre
      <4> QED BY <3>1, <3>2, <4>1 DEF Ordered
    <3>4. ls = <<new>> /\ top = b
      BY <2>5, <3>3
    <3>5. /\ new \in Layer /\ new.mask = b.mask /\ new.views = (b.views \ {iPlaylist}) \cup {n}
          /\ new.focused = IF iPlaylist \in hasFocus THEN Append(V!Front(b.focused), n) ELSE b.focused
      BY <2>1, <2>4, <3>4
    <3>6. /\ b.focused \in Seq(V!View) /\ n \in V!View
      BY DEF Layer, V!View
    <3>7. Bottom(new, n) /\ hasFocus' = {V!Last(new.focused)}
      <4>1. CASE b.focused = <<iPlaylist>> /\ b.mask = V!Base /\ b.views = {iPlaylist, V!Status}
        <5>1. V!Last(b.focused) = iPlaylist /\ Len(b.focused) = 1
          BY <4>1 DEF V!Last
        <5>2. hasFocus = {iPlaylist} /\ hasFocus' = {n} /\ new.focused = Append(V!Front(b.focused), n)
          BY <2>2, <3>3, <3>5, <5>1
        <5>3. new.focused = <<n>> /\ V!Last(new.focused) = n
          <6>1. PICK f : f = b.focused
            OBVIOUS
          <6>2. f \in Seq(V!View) /\ Len(f) = 1 /\ new.focused = Append(V!Front(f), n)
            BY <3>6, <5>1, <5>2, <6>1
          <6>3. Append(V!Front(f), n) = <<n>> /\ V!Last(Append(V!Front(f), n)) = n
            BY <3>6, <6>2, FocusIs
          <6> QED BY <6>2, <6>3
        <5>4. new.views = {n, V!Status}
          BY <2>3, <3>5, <4>1, ViewsDiffer
        <5> QED BY <3>5, <4>1, <5>2, <5>3, <5>4 DEF Bottom
      <4>2. CASE /\ b.mask = V!Base \cup {"explorer"} /\ b.views = {iPlaylist, V!Status, V!Explorer}
                 /\ Len(b.focused) = 2 /\ V!Last(b.focused) \in {iPlaylist, V!Explorer}
        <5>1. new.views = {n, V!Status, V!Explorer}
          BY <2>3, <3>5, <4>2, ViewsDiffer
        <5>2. CASE V!Last(b.focused) = iPlaylist
          <6>1. hasFocus' = {n} /\ new.focused = Append(V!Front(b.focused), n)
            BY <2>2, <3>3, <3>5, <5>2
          <6>2. Len(new.focused) = 2 /\ V!Last(new.focused) = n
            <7>1. PICK f : f = b.focused
              OBVIOUS
            <7>2. f \in Seq(V!View) /\ Len(f) = 2 /\ Len(f) >= 1 /\ new.focused = Append(V!Front(f), n)
              <8>1. Len(f) = 2
                BY <4>2, <7>1
              <8>2. f \in Seq(V!View) /\ new.focused = Append(V!Front(f), n)
                BY <3>6, <6>1, <7>1
              <8> QED BY <8>1, <8>2
            <7>3. Len(Append(V!Front(f), n)) = Len(f) /\ V!Last(Append(V!Front(f), n)) = n
              BY <3>6, <7>2, FocusIs
            <7> QED BY <7>2, <7>3
          <6> QED BY <3>5, <4>2, <5>1, <6>1, <6>2 DEF Bottom
        <5>3. CASE V!Last(b.focused) = V!Explorer
          <6>1. iPlaylist \notin hasFocus
            BY <2>3, <3>3, <5>3, ViewsDiffer
          <6>2. hasFocus' = hasFocus /\ new.focused = b.focused
            BY <2>2, <3>5, <6>1
          <6> QED BY <3>3, <3>5, <4>2, <5>1, <5>3, <6>2 DEF Bottom
        <5> QED BY <4>2, <5>2, <5>3
      <4> QED BY <3>3, <4>1, <4>2 DEF Bottom
    <3> QED BY <3>4, <3>5, <3>7 DEF Ordered
  <2> QED BY <2>2, <2>5, <2>6, <2>7, <2>8, UpdateIs
<1> QED BY <1>1, <1>2
(* What leaves the screen alone (SlotReqUserOpen, Other, Handle ...).      *)
LEMMA LayoutSame ==
  ASSUME LayoutInv, UNCHANGED <<layers, visible, hasFocus, iPlaylist, placed, blind>>,
         switchPlaylistTo' \in V!List \cup {V!None}
  PROVE  LayoutInv'
BY DEF LayoutInv, Stacked, Ordered, Layer, V!View, V!List, V!Help, V!Explorer, V!Status, V!None,
   Bottom, HelpLayer, V!Last, V!Base, V!Top

(* What is drawn, too.                                                     *)
LEMMA DrawnSame ==
  ASSUME DrawnInv, UNCHANGED <<visible, drawn, lengths, needRefresh>>
  PROVE  DrawnInv'
BY DEF DrawnInv, V!DrawnOrDue, V!List

(* The one layer there is (ShowOrHideExplorer, SwitchFocus).               *)
LEMMA OneLayer ==
  ASSUME LayoutInv, Len(layers) = 1
  PROVE  \E b \in Layer : /\ layers = <<b>> /\ V!Help \notin b.views /\ visible = b.views
                          /\ V!Focused = V!Last(b.focused) /\ layers[1] = b /\ V!Top(layers) = b
                          /\ ~blind => Bottom(b, iPlaylist) /\ hasFocus = {V!Last(b.focused)}
<1>1. \A b, t : Len(<<b, t>>) # 1
  BY LayersAre
<1>2. PICK b \in Layer : layers = <<b>> /\ V!Help \notin b.views
  BY <1>1 DEF LayoutInv, Stacked
<1>3. V!Top(layers) = b /\ layers[1] = b
  BY <1>2, LayerIs
<1>4. visible = b.views /\ V!Focused = V!Last(b.focused)
  BY <1>3 DEF LayoutInv, V!Focused
<1>5. ASSUME ~blind PROVE Bottom(b, iPlaylist) /\ hasFocus = {V!Last(b.focused)}
  <2>1. Ordered(layers, iPlaylist, hasFocus)
    BY <1>5 DEF LayoutInv
  <2>2. PICK c \in Layer : layers = <<c>> /\ Bottom(c, iPlaylist) /\ hasFocus = {V!Last(c.focused)}
    BY <1>1, <2>1 DEF Ordered
  <2>3. c = b
    <3>1. layers[1] = c
      BY <2>2, LayerIs
    <3> QED BY <1>3, <3>1
  <2> QED BY <2>2, <2>3
<1> QED BY <1>2, <1>3, <1>4, <1>5

(* The help is shown or hidden (ShowOrHideHelp).                           *)
LEMMA HelpIs ==
  ASSUME LayoutInv, DrawnInv, V!ShowOrHideHelp
  PROVE  LayoutInv' /\ DrawnInv'
<1>0. /\ switchPlaylistTo' = switchPlaylistTo /\ blind' = blind /\ lengths' = lengths
      /\ iPlaylist \in V!List /\ switchPlaylistTo \in V!List \cup {V!None} /\ blind \in BOOLEAN
      /\ Stacked(layers) /\ visible = V!Top(layers).views
  BY DEF V!ShowOrHideHelp, V!Key, V!UiThread, LayoutInv
<1>1. visible \ V!Top(layers).views = {}
  BY <1>0
<1>2. CASE V!Help \in visible
  <2>1. V!UpdateTopLayout(V!Front(layers), {}, iPlaylist) /\ hasFocus' = hasFocus \cup {V!Last(layers[1].focused)}
    BY <1>1, <1>2 DEF V!ShowOrHideHelp
  <2>2. PICK b \in Layer, t \in Layer : layers = <<b, t>> /\ V!Help \notin b.views /\ V!Help \in t.views
    <3>1. ASSUME NEW b \in Layer, layers = <<b>>, V!Help \notin b.views PROVE FALSE
      BY <1>0, <1>2, <3>1, LayerIs
    <3> QED BY <1>0, <3>1 DEF Stacked
  <2>3. V!Front(layers) = <<b>> /\ layers[1] = b /\ Len(layers) = 2
    BY <2>2, LayersAre
  <2>4. Stacked(<<b>>)
    BY <2>2 DEF Stacked
  <2>5. ASSUME ~blind PROVE Ordered(<<b>>, iPlaylist, hasFocus')
    <3>1. Ordered(layers, iPlaylist, hasFocus)
      BY <2>5 DEF LayoutInv
    <3>2. PICK c \in Layer : layers = <<c, HelpLayer>> /\ Bottom(c, iPlaylist) /\ hasFocus = {}
      <4>1. \A c : Len(<<c>>) = 1 /\ 1 # 2
        BY LayerIs
      <4> QED BY <2>3, <3>1, <4>1 DEF Ordered
    <3>3. c = b
      BY <2>3, <3>2, LayersAre
    <3>4. hasFocus' = {V!Last(b.focused)}
      BY <2>1, <2>3, <3>2
    <3> QED BY <3>2, <3>3, <3>4 DEF Ordered
  <2>6. V!UpdateTopLayout(<<b>>, {}, iPlaylist)
    BY <2>1, <2>3
  <2> QED BY <1>0, <2>4, <2>5, <2>6, UpdateIs
<1>3. CASE V!Help \notin visible
  <2>1. /\ V!UpdateTopLayout(Append(layers, HelpLayer), {}, iPlaylist)
        /\ hasFocus' = hasFocus \ {V!Focused}
    BY <1>1, <1>3 DEF V!ShowOrHideHelp, HelpLayer
  <2>2. Len(layers) = 1
    <3>1. ASSUME NEW b \in Layer, NEW t \in Layer, layers = <<b, t>>, V!Help \in t.views PROVE FALSE
      <4>1. V!Top(<<b, t>>) = t
        BY LayersAre
      <4>2. visible = t.views
        BY <1>0, <3>1, <4>1
      <4> QED BY <1>3, <3>1, <4>2
    <3>2. \E b \in Layer : layers = <<b>>
      BY <1>0, <3>1 DEF Stacked
    <3> QED BY <3>2, LayerIs
  <2>3. PICK b \in Layer : /\ layers = <<b>> /\ V!Help \notin b.views /\ V!Focused = V!Last(b.focused)
                           /\ ~blind => Bottom(b, iPlaylist) /\ hasFocus = {V!Last(b.focused)}
    BY <2>2, OneLayer
  <2>4. Append(layers, HelpLayer) = <<b, HelpLayer>>
    BY <2>3, LayersAre
  <2>5. Stacked(<<b, HelpLayer>>)
    <3>1. HelpLayer \in Layer
      BY DEF HelpLayer, Layer, V!View
    <3> QED BY <2>3, <3>1 DEF Stacked, HelpLayer
  <2>6. ASSUME ~blind PROVE Ordered(<<b, HelpLayer>>, iPlaylist, hasFocus')
    BY <2>1, <2>3, <2>6 DEF Ordered
  <2>7. V!UpdateTopLayout(<<b, HelpLayer>>, {}, iPlaylist)
    BY <2>1, <2>4
  <2> QED BY <1>0, <2>5, <2>6, <2>7, UpdateIs
<1> QED BY <1>2, <1>3

(* The explorer is shown or hidden (ShowOrHideExplorer).                   *)
LEMMA ExplorerIs ==
  ASSUME LayoutInv, DrawnInv, V!ShowOrHideExplorer
  PROVE  LayoutInv' /\ DrawnInv'
<1>0. /\ switchPlaylistTo' = switchPlaylistTo /\ blind' = blind /\ lengths' = lengths /\ Len(layers) = 1
      /\ iPlaylist \in V!List /\ switchPlaylistTo \in V!List \cup {V!None} /\ blind \in BOOLEAN
  BY DEF V!ShowOrHideExplorer, V!Key, V!UiThread, LayoutInv
<1>1. PICK b \in Layer : /\ layers = <<b>> /\ V!Help \notin b.views /\ visible = b.views
                         /\ V!Focused = V!Last(b.focused) /\ layers[1] = b
                         /\ ~blind => Bottom(b, iPlaylist) /\ hasFocus = {V!Last(b.focused)}
  BY <1>0, OneLayer
<1>2. PICK m, w, f : m = b.mask /\ w = b.views /\ f = b.focused
  OBVIOUS
<1>3. m \in SUBSET {"playlist", "status", "explorer", "help"} /\ w \in SUBSET V!View /\ f \in Seq(V!View)
  BY <1>2 DEF Layer
<1>4. iPlaylist \in V!View /\ V!Explorer \in V!View
  BY <1>0 DEF V!View
<1>5. CASE V!Explorer \in visible
  <2>1. PICK g : g = Append(V!Front(V!Front(f)), iPlaylist)
    OBVIOUS
  <2>2. PICK new : new = [mask |-> m \ {"explorer"}, views |-> w \ {V!Explorer}, focused |-> g]
    OBVIOUS
  <2>3. /\ hasFocus' = (hasFocus \ {V!Focused}) \cup {iPlaylist}
        /\ V!UpdateTopLayout(<<new>>, visible \ {V!Explorer}, iPlaylist)
    BY <1>1, <1>2, <1>5, <2>1, <2>2 DEF V!ShowOrHideExplorer
  <2>4. g \in Seq(V!View) /\ V!Last(g) = iPlaylist /\ (Len(f) = 2 => g = <<iPlaylist>>)
    <3>1. V!Front(f) \in Seq(V!View)
      BY <1>3, <1>4, FocusIs
    <3>2. g \in Seq(V!View) /\ V!Last(g) = iPlaylist
      BY <1>4, <2>1, <3>1, FocusIs
    <3>3. Len(f) = 2 => g = <<iPlaylist>>
      BY <1>3, <1>4, <2>1, FocusIs
    <3> QED BY <3>2, <3>3
  <2>5. new \in Layer /\ new.views = w \ {V!Explorer} /\ new.mask = m \ {"explorer"} /\ new.focused = g
    BY <1>3, <2>2, <2>4 DEF Layer
  <2>6. Stacked(<<new>>)
    BY <1>1, <1>2, <2>5 DEF Stacked
  <2>7. visible \ {V!Explorer} \subseteq V!Top(<<new>>).views
    BY <1>1, <1>2, <2>5, LayerIs
  <2>8. ASSUME ~blind PROVE Ordered(<<new>>, iPlaylist, hasFocus')
    <3>1. /\ m = V!Base \cup {"explorer"} /\ w = {iPlaylist, V!Status, V!Explorer} /\ Len(f) = 2
      BY <1>0, <1>1, <1>2, <1>5, <2>8, ViewsDiffer DEF Bottom
    <3>2. new.mask = V!Base /\ new.views = {iPlaylist, V!Status} /\ new.focused = <<iPlaylist>>
      <4>1. (V!Base \cup {"explorer"}) \ {"explorer"} = V!Base
        BY ViewsDiffer
      <4>2. {iPlaylist, V!Status, V!Explorer} \ {V!Explorer} = {iPlaylist, V!Status}
        BY <1>0, ViewsDiffer
      <4> QED BY <2>4, <2>5, <3>1, <4>1, <4>2
    <3>3. hasFocus' = {V!Last(new.focused)}
      BY <1>1, <2>3, <2>4, <2>5, <2>8
    <3> QED BY <2>5, <3>2, <3>3 DEF Ordered, Bottom
  <2> QED BY <1>0, <2>3, <2>6, <2>7, <2>8, UpdateIs
<1>6. CASE V!Explorer \notin visible
  <2>1. PICK g : g = Append(f, V!Explorer)
    OBVIOUS
  <2>2. PICK new : new = [mask |-> m \cup {"explorer"}, views |-> w \cup {V!Explorer}, focused |-> g]
    OBVIOUS
  <2>3. /\ hasFocus' = (hasFocus \ {V!Focused}) \cup {V!Explorer}
        /\ V!UpdateTopLayout(<<new>>, visible, iPlaylist)
    BY <1>1, <1>2, <1>6, <2>1, <2>2 DEF V!ShowOrHideExplorer
  <2>4. g \in Seq(V!View) /\ V!Last(g) = V!Explorer
    <3>1. f \in Seq(V!View) /\ V!Explorer \in V!View
      BY <1>3, <1>4
    <3>2. Append(f, V!Explorer) \in Seq(V!View) /\ V!Last(Append(f, V!Explorer)) = V!Explorer
      BY <3>1, FocusIs
    <3> QED BY <2>1, <3>2
  <2>5. new \in Layer /\ new.views = w \cup {V!Explorer} /\ new.mask = m \cup {"explorer"} /\ new.focused = g
    BY <1>3, <1>4, <2>2, <2>4 DEF Layer
  <2>6. Stacked(<<new>>)
    BY <1>1, <1>2, <2>5, ViewsDiffer DEF Stacked
  <2>7. visible \subseteq V!Top(<<new>>).views
    BY <1>1, <1>2, <2>5, LayerIs
  <2>8. ASSUME ~blind PROVE Ordered(<<new>>, iPlaylist, hasFocus')
    <3>1. m = V!Base /\ w = {iPlaylist, V!Status} /\ f = <<iPlaylist>>
      BY <1>1, <1>2, <1>6, <2>8 DEF Bottom
    <3>2. Len(g) = 2
      BY <2>1, <3>1
    <3>3. new.mask = V!Base \cup {"explorer"} /\ new.views = {iPlaylist, V!Status, V!Explorer}
      BY <2>5, <3>1
    <3>4. hasFocus' = {V!Last(new.focused)}
      BY <1>1, <2>3, <2>4, <2>5, <2>8
    <3> QED BY <2>4, <2>5, <3>2, <3>3, <3>4 DEF Ordered, Bottom
  <2> QED BY <1>0, <2>3, <2>6, <2>7, <2>8, UpdateIs
<1> QED BY <1>5, <1>6

(* The other view takes the keys (SwitchFocus).                            *)
LEMMA TabIs ==
  ASSUME LayoutInv, DrawnInv, V!SwitchFocus
  PROVE  LayoutInv' /\ DrawnInv'
<1>0. /\ switchPlaylistTo' = switchPlaylistTo /\ blind' = blind /\ lengths' = lengths /\ Len(layers) = 1
      /\ iPlaylist' = iPlaylist /\ placed' = placed /\ visible' = visible /\ V!Refreshed({iPlaylist})
      /\ iPlaylist \in V!List /\ switchPlaylistTo \in V!List \cup {V!None} /\ blind \in BOOLEAN
      /\ V!Explorer \in visible
  BY DEF V!SwitchFocus, V!Key, V!UiThread, LayoutInv
<1>1. PICK b \in Layer : /\ layers = <<b>> /\ V!Help \notin b.views /\ visible = b.views
                         /\ V!Focused = V!Last(b.focused) /\ layers[1] = b
                         /\ ~blind => Bottom(b, iPlaylist) /\ hasFocus = {V!Last(b.focused)}
  BY <1>0, OneLayer
<1>2. PICK m, w, f, n : m = b.mask /\ w = b.views /\ f = b.focused /\ n = iPlaylist
  OBVIOUS
<1>3. m \in SUBSET {"playlist", "status", "explorer", "help"} /\ w \in SUBSET V!View /\ f \in Seq(V!View)
      /\ b = [mask |-> m, views |-> w, focused |-> f]
  BY <1>2 DEF Layer
<1>4. PICK other : other = IF V!Focused = V!Explorer THEN iPlaylist ELSE V!Explorer
  OBVIOUS
<1>5. other \in V!View /\ other \in {n, V!Explorer}
  BY <1>0, <1>2, <1>4 DEF V!View
<1>6. PICK g : g = Append(V!Front(f), other)
  OBVIOUS
<1>7. g \in Seq(V!View) /\ V!Last(g) = other
  BY <1>3, <1>5, <1>6, FocusIs
<1>8. PICK new : new = [mask |-> m, views |-> w, focused |-> g]
  OBVIOUS
<1>9. layers' = <<new>> /\ hasFocus' = (hasFocus \ {V!Focused}) \cup {other}
  <2>1. /\ layers' = [layers EXCEPT ![1].focused = Append(V!Front(@), other)]
        /\ hasFocus' = (hasFocus \ {V!Focused}) \cup {other}
    BY <1>4 DEF V!SwitchFocus
  <2>2. layers' = [layers EXCEPT ![1] = [layers[1] EXCEPT !.focused = Append(V!Front(layers[1].focused), other)]]
    BY <2>1
  <2>3. [layers[1] EXCEPT !.focused = Append(V!Front(layers[1].focused), other)] = new
    <3>1. layers[1] = b /\ layers[1].focused = f /\ Append(V!Front(layers[1].focused), other) = g
      BY <1>1, <1>2, <1>6
    <3>2. [b EXCEPT !.focused = g] = new
      BY <1>3, <1>8
    <3> QED BY <3>1, <3>2
  <2>4. layers' = [<<b>> EXCEPT ![1] = new]
    BY <1>1, <2>2, <2>3
  <2> QED BY <2>1, <2>4, LayerIs
<1>10. new \in Layer /\ new.mask = m /\ new.views = w /\ new.focused = g
  BY <1>3, <1>7, <1>8 DEF Layer
<1>11. DrawnInv'
  BY <1>0, RefreshIs
<1>12. Stacked(layers)'
  <2>1. Stacked(<<new>>)
    BY <1>1, <1>2, <1>10 DEF Stacked
  <2> QED BY <1>9, <2>1 DEF Stacked, Layer, V!View, V!List, V!Help, V!Explorer, V!Status
<1>13. visible' = V!Top(layers').views
  BY <1>0, <1>1, <1>2, <1>9, <1>10, LayerIs
<1>14. ASSUME ~blind PROVE Ordered(<<new>>, n, hasFocus')
  <2>1. m = V!Base \cup {"explorer"} /\ w = {n, V!Status, V!Explorer} /\ Len(f) = 2
    BY <1>0, <1>1, <1>2, <1>14, ViewsDiffer DEF Bottom
  <2>2. Len(g) = 2
    <3>1. Len(f) >= 1
      BY <2>1
    <3>2. f \in Seq(V!View)
      BY <1>3
    <3>3. Len(Append(V!Front(f), other)) = Len(f)
      BY <1>5, <3>1, <3>2, FocusIs
    <3> QED BY <1>6, <2>1, <3>3
  <2>3. hasFocus' = {V!Last(new.focused)}
    BY <1>1, <1>7, <1>9, <1>10, <1>14
  <2>4. Bottom(new, n)
    BY <1>5, <1>7, <1>10, <2>1, <2>2 DEF Bottom
  <2> QED BY <1>10, <2>3, <2>4 DEF Ordered
<1>15. (~blind => Ordered(layers, iPlaylist, hasFocus))'
  <2>1. layers' = <<new>> /\ iPlaylist' = n
    BY <1>0, <1>2, <1>9
  <2> QED BY <1>0, <1>14, <2>1 DEF Ordered, Layer, V!View, V!List, V!Help, V!Explorer, V!Status, Bottom, HelpLayer, V!Last, V!Base
<1>16. ~blind' => visible' \subseteq placed'
  BY <1>0 DEF LayoutInv
<1>17. iPlaylist' \in V!List' /\ switchPlaylistTo' \in (V!List \cup {V!None})'
  BY <1>0 DEF V!List, V!None
<1>18. (visible = V!Top(layers).views)'
  BY <1>13 DEF V!Top
<1> QED BY <1>0, <1>11, <1>12, <1>15, <1>16, <1>17, <1>18 DEF LayoutInv

(* The terminal's size changes (OnResize).                                 *)
LEMMA ResizeIs ==
  ASSUME LayoutInv, DrawnInv, V!OnResize
  PROVE  LayoutInv' /\ DrawnInv'
<1>0. /\ switchPlaylistTo' = switchPlaylistTo /\ blind' = blind /\ lengths' = lengths /\ layers' = layers
      /\ hasFocus' = hasFocus /\ iPlaylist' = iPlaylist /\ visible' = visible \cup V!Top(layers).views
      /\ V!Refreshed(V!Top(layers).views) /\ placed' = visible' \cap V!LaidOut(V!Top(layers).mask, iPlaylist)
      /\ iPlaylist \in V!List /\ switchPlaylistTo \in V!List \cup {V!None} /\ blind \in BOOLEAN
  BY DEF V!OnResize, V!Key, V!UiThread, LayoutInv
<1>1. visible = V!Top(layers).views /\ visible' = visible
  BY <1>0 DEF LayoutInv
<1>2. DrawnInv'
  BY <1>0, <1>1, RefreshIs
<1>3. ~blind' => visible' \subseteq placed'
  <2>1. ~blind => visible \subseteq V!LaidOut(V!Top(layers).mask, iPlaylist)
    <3>1. ~blind => Ordered(layers, iPlaylist, hasFocus)
      BY DEF LayoutInv
    <3> QED BY <1>0, <1>1, <3>1, OrderedIs
  <2> QED BY <1>0, <1>1, <2>1
<1>4. (Stacked(layers) /\ (~blind => Ordered(layers, iPlaylist, hasFocus)) /\ visible = V!Top(layers).views)'
  BY <1>0, <1>1 DEF LayoutInv, Stacked, Ordered, Layer, V!View, V!List, V!Help, V!Explorer, V!Status,
     Bottom, HelpLayer, V!Last, V!Base, V!Top
<1>5. iPlaylist' \in V!List' /\ switchPlaylistTo' \in (V!List \cup {V!None})'
  BY <1>0 DEF V!List, V!None
<1> QED BY <1>0, <1>2, <1>3, <1>4, <1>5 DEF LayoutInv
-----------------------------------------------------------------------------
(* The lists chosen here and by the server.                                *)

Message == [op : {"Switch", "Sync", "Append"}, list : V!List]

(* The last switch on its way is to n; none is.                            *)
LastSwitch(c, n) ==
  \E k \in 1 .. Len(c) : /\ c[k].op = "Switch" /\ c[k].list = n
                         /\ \A j \in 1 .. Len(c) : j > k => c[j].op # "Switch"
NoSwitch(c) == \A k \in 1 .. Len(c) : c[k].op # "Switch"

(* The server has the client's choice, or will have.                       *)
Agreed(c, at, n) == LastSwitch(c, n) \/ (NoSwitch(c) /\ at = n)

(* Or the client asks, or will ask, for the list that the server has, and  *)
(* is told to switch to it.                                                *)
Asks(c, at) == \E k \in 1 .. Len(c) : c[k].op = "Sync" /\ c[k].list = at
Told(s) == \E k \in 1 .. Len(s) : s[k].op = "Switch"
Coming(c, s, at, asked) ==
  /\ NoSwitch(c) /\ \A k \in 1 .. Len(s) : s[k].op = "Switch" => s[k].list = at
  /\ asked <= at \/ Asks(c, at) \/ Told(s)

KnowsInv ==
  /\ selected \in V!List /\ link \in -1 .. PlaylistCount
  /\ c2s \in Seq(Message) /\ s2c \in Seq(Message)
  /\ link = -1 => c2s = <<>> /\ s2c = <<>>
  /\ link = -1 \/ Agreed(c2s, selected, iPlaylist) \/ Coming(c2s, s2c, selected, link)

(* A message more.                                                         *)
LEMMA MessageMore ==
  ASSUME NEW c \in Seq(Message), NEW x \in Message, NEW n, NEW at
  PROVE  /\ Append(c, x) \in Seq(Message)
         /\ x.op = "Switch" /\ x.list = n => LastSwitch(Append(c, x), n) /\ Told(Append(c, x))
         /\ x.op # "Switch" /\ LastSwitch(c, n) => LastSwitch(Append(c, x), n)
         /\ x.op # "Switch" /\ NoSwitch(c) => NoSwitch(Append(c, x))
         /\ Asks(c, at) => Asks(Append(c, x), at)
         /\ x.op = "Sync" /\ x.list = at => Asks(Append(c, x), at)
         /\ Told(c) => Told(Append(c, x))
         /\ (\A k \in 1 .. Len(c) : c[k].op = "Switch" => c[k].list = at) /\ (x.op = "Switch" => x.list = at)
              => \A k \in 1 .. Len(Append(c, x)) : Append(c, x)[k].op = "Switch" => Append(c, x)[k].list = at
<1>1. Len(c) \in Nat
  BY LenProperties
<1>2. /\ Append(c, x) \in Seq(Message) /\ Len(Append(c, x)) = Len(c) + 1
      /\ (\A k \in 1 .. Len(c) : Append(c, x)[k] = c[k]) /\ Append(c, x)[Len(c) + 1] = x
  BY AppendProperties
<1> PICK d : d = Append(c, x)
  OBVIOUS
<1>3. d \in Seq(Message)
  BY <1>2
<1>4. Len(d) = Len(c) + 1 /\ (\A k \in 1 .. Len(c) : d[k] = c[k] /\ k \in 1 .. Len(d)) /\ d[Len(c) + 1] = x
      /\ Len(c) + 1 \in 1 .. Len(d) /\ \A k \in 1 .. Len(d) : k \in 1 .. Len(c) \/ k = Len(c) + 1
  BY <1>1, <1>2
<1>5. ASSUME x.op = "Switch", x.list = n PROVE LastSwitch(d, n) /\ Told(d)
  <2>1. \A j \in 1 .. Len(d) : ~(j > Len(c) + 1)
    BY <1>1, <1>4
  <2> QED BY <1>4, <1>5, <2>1 DEF LastSwitch, Told
<1>6. ASSUME x.op # "Switch", LastSwitch(c, n) PROVE LastSwitch(d, n)
  BY <1>4, <1>6 DEF LastSwitch
<1>7. ASSUME x.op # "Switch", NoSwitch(c) PROVE NoSwitch(d)
  BY <1>4, <1>7 DEF NoSwitch
<1>8. (Asks(c, at) => Asks(d, at)) /\ (Told(c) => Told(d))
  BY <1>4 DEF Asks, Told
<1>9. x.op = "Sync" /\ x.list = at => Asks(d, at)
  BY <1>4 DEF Asks
<1>10. (\A k \in 1 .. Len(c) : c[k].op = "Switch" => c[k].list = at) /\ (x.op = "Switch" => x.list = at)
         => \A k \in 1 .. Len(d) : d[k].op = "Switch" => d[k].list = at
  BY <1>4
<1> QED BY <1>3, <1>5, <1>6, <1>7, <1>8, <1>9, <1>10

(* One less.                                                               *)
LEMMA MessageLess ==
  ASSUME NEW c \in Seq(Message), c # <<>>, NEW n, NEW at
  PROVE  /\ Head(c) \in Message /\ Tail(c) \in Seq(Message)
         /\ LastSwitch(c, n) => LastSwitch(Tail(c), n) \/ (NoSwitch(Tail(c)) /\ Head(c).op = "Switch" /\ Head(c).list = n)
         /\ NoSwitch(c) => NoSwitch(Tail(c)) /\ Head(c).op # "Switch"
         /\ Asks(c, at) => Asks(Tail(c), at) \/ (Head(c).op = "Sync" /\ Head(c).list = at)
         /\ Told(c) => Told(Tail(c)) \/ Head(c).op = "Switch"
         /\ (\A k \in 1 .. Len(c) : c[k].op = "Switch" => c[k].list = at)
              => /\ Head(c).op = "Switch" => Head(c).list = at
                 /\ \A k \in 1 .. Len(Tail(c)) : Tail(c)[k].op = "Switch" => Tail(c)[k].list = at
<1>1. Len(c) \in Nat /\ Len(c) # 0
  BY EmptySeq, LenProperties
<1>2. /\ Tail(c) \in Seq(Message) /\ Len(Tail(c)) = Len(c) - 1
      /\ \A k \in 1 .. Len(Tail(c)) : Tail(c)[k] = c[k + 1]
  BY HeadTailProperties
<1> PICK d, x : d = Tail(c) /\ x = Head(c)
  OBVIOUS
<1>3. d \in Seq(Message) /\ x \in Message
  BY <1>2, HeadTailProperties
<1>4. x = c[1] /\ 1 \in 1 .. Len(c)
  BY <1>1
<1>5. /\ \A k \in 1 .. Len(d) : d[k] = c[k + 1] /\ k + 1 \in 1 .. Len(c)
      /\ \A k \in 1 .. Len(c) : k = 1 \/ (k - 1 \in 1 .. Len(d) /\ c[k] = d[k - 1])
  BY <1>1, <1>2
<1>6. ASSUME LastSwitch(c, n) PROVE LastSwitch(d, n) \/ (NoSwitch(d) /\ x.op = "Switch" /\ x.list = n)
  <2>1. PICK k \in 1 .. Len(c) : /\ c[k].op = "Switch" /\ c[k].list = n
                                 /\ \A j \in 1 .. Len(c) : j > k => c[j].op # "Switch"
    BY <1>6 DEF LastSwitch
  <2>2. CASE k = 1
    <3>1. ASSUME NEW j \in 1 .. Len(d) PROVE d[j].op # "Switch"
      <4>1. j + 1 \in 1 .. Len(c) /\ j + 1 > k /\ d[j] = c[j + 1]
        BY <1>5, <2>2
      <4> QED BY <2>1, <4>1
    <3> QED BY <1>4, <2>1, <2>2, <3>1 DEF NoSwitch
  <2>3. CASE k # 1
    <3>1. k - 1 \in 1 .. Len(d) /\ c[k] = d[k - 1]
      BY <1>5, <2>3
    <3>2. ASSUME NEW j \in 1 .. Len(d), j > k - 1 PROVE d[j].op # "Switch"
      <4>1. j + 1 \in 1 .. Len(c) /\ j + 1 > k /\ d[j] = c[j + 1]
        BY <1>5, <3>2
      <4> QED BY <2>1, <4>1
    <3> QED BY <2>1, <3>1, <3>2 DEF LastSwitch
  <2> QED BY <2>2, <2>3
<1>7. NoSwitch(c) => NoSwitch(d) /\ x.op # "Switch"
  BY <1>4, <1>5 DEF NoSwitch
<1>8. Asks(c, at) => Asks(d, at) \/ (x.op = "Sync" /\ x.list = at)
  BY <1>4, <1>5 DEF Asks
<1>9. Told(c) => Told(d) \/ x.op = "Switch"
  BY <1>4, <1>5 DEF Told
<1>10. (\A k \in 1 .. Len(c) : c[k].op = "Switch" => c[k].list = at)
         => (x.op = "Switch" => x.list = at) /\ \A k \in 1 .. Len(d) : d[k].op = "Switch" => d[k].list = at
  BY <1>4, <1>5
<1> QED BY <1>3, <1>6, <1>7, <1>8, <1>9, <1>10

(* The client chooses, and says so if there is a connection                *)
(* (SwitchPlaylist).                                                       *)
LEMMA ChoiceIs ==
  ASSUME KnowsInv, LayoutInv, NEW n \in V!List, V!SwitchPlaylist(n), UNCHANGED <<selected, link>>,
         NEW s \in Seq(Message), s2c' = s, link = -1 => s = <<>>,
         s = s2c \/ (s2c # <<>> /\ s = Tail(s2c) /\ (Head(s2c).op = "Switch" => Head(s2c).list = n))
  PROVE  KnowsInv'
<1>0. /\ selected \in V!List /\ link \in -1 .. PlaylistCount /\ c2s \in Seq(Message) /\ s2c \in Seq(Message)
      /\ link = -1 => c2s = <<>> /\ s2c = <<>>
      /\ link = -1 \/ Agreed(c2s, selected, iPlaylist) \/ Coming(c2s, s2c, selected, link)
      /\ selected' = selected /\ link' = link /\ iPlaylist \in V!List
  BY DEF KnowsInv, LayoutInv
<1>1. V!List' = V!List /\ Message' = Message
  BY DEF V!List, Message
<1>2. CASE n = iPlaylist
  <2>1. c2s' = c2s /\ iPlaylist' = iPlaylist
    BY <1>2 DEF V!SwitchPlaylist, V!screen
  <2>2. CASE s = s2c
    BY <1>0, <1>1, <2>1, <2>2 DEF KnowsInv, Agreed, Coming, LastSwitch, NoSwitch, Asks, Told
  <2>3. CASE s2c # <<>> /\ s = Tail(s2c) /\ (Head(s2c).op = "Switch" => Head(s2c).list = n)
    <3>1. Coming(c2s, s2c, selected, link) => Agreed(c2s, selected, iPlaylist) \/ Coming(c2s, s, selected, link)
      <4> SUFFICES ASSUME Coming(c2s, s2c, selected, link)
                   PROVE  Agreed(c2s, selected, iPlaylist) \/ Coming(c2s, s, selected, link)
        OBVIOUS
      <4>1. CASE Head(s2c).op = "Switch"
        <5>1. selected = n
          BY <1>0, <2>3, <4>1, MessageLess DEF Coming
        <5> QED BY <1>2, <5>1 DEF Coming, Agreed
      <4>2. CASE Head(s2c).op # "Switch"
        BY <1>0, <2>3, <4>2, MessageLess DEF Coming
      <4> QED BY <4>1, <4>2
    <3>2. link = -1 \/ Agreed(c2s, selected, iPlaylist) \/ Coming(c2s, s, selected, link)
      BY <1>0, <3>1
    <3> QED BY <1>0, <1>1, <2>1, <3>2 DEF KnowsInv, Agreed, Coming, LastSwitch, NoSwitch, Asks, Told
  <2> QED BY <2>2, <2>3
<1>3. CASE n # iPlaylist
  <2>1. iPlaylist' = n /\ c2s' = IF link = -1 THEN c2s ELSE Append(c2s, [op |-> "Switch", list |-> n])
    BY <1>3 DEF V!SwitchPlaylist, V!UpdateTopLayout, V!Send
  <2>2. CASE link = -1
    BY <1>0, <1>1, <2>1, <2>2 DEF KnowsInv
  <2>3. CASE link # -1
    <3>1. PICK x : x = [op |-> "Switch", list |-> n]
      OBVIOUS
    <3>2. x \in Message /\ x.op = "Switch" /\ x.list = n
      BY <3>1 DEF Message
    <3>3. PICK d : d = Append(c2s, x)
      OBVIOUS
    <3>4. d \in Seq(Message) /\ LastSwitch(d, n)
      BY <1>0, <3>2, <3>3, MessageMore
    <3>5. c2s' = d
      BY <2>1, <2>3, <3>1, <3>3
    <3>6. Agreed(d, selected, n)
      BY <3>4 DEF Agreed
    <3>7. Agreed(c2s, selected, iPlaylist)'
      BY <1>0, <2>1, <3>5, <3>6 DEF Agreed, LastSwitch, NoSwitch
    <3> QED BY <1>0, <1>1, <2>3, <3>4, <3>5, <3>7 DEF KnowsInv
  <2> QED BY <2>2, <2>3
<1> QED BY <1>2, <1>3

(* The choice stays, and so do the messages.                               *)
LEMMA KnowsSame ==
  ASSUME KnowsInv, UNCHANGED <<iPlaylist, selected, link, c2s, s2c>>
  PROVE  KnowsInv'
BY DEF KnowsInv, Agreed, Coming, LastSwitch, NoSwitch, Asks, Told, Message, V!List
(* The screen at the beginning (Init).                                     *)
LEMMA ScreenStarts ==
  ASSUME V!Init
  PROVE  LayoutInv /\ DrawnInv /\ KnowsInv
<1>0. /\ layers = <<[mask |-> V!Base, views |-> {1, V!Status}, focused |-> <<1>>]>>
      /\ visible = {1, V!Status} /\ hasFocus = {1} /\ iPlaylist = 1 /\ switchPlaylistTo = V!None
      /\ placed = visible /\ blind = FALSE
      /\ lengths = [l \in V!List |-> 0] /\ drawn = lengths /\ needRefresh = lengths
      /\ selected \in V!List /\ link = -1 /\ c2s = <<>> /\ s2c = <<>>
  BY DEF V!Init
<1>1. PICK b : b = [mask |-> V!Base, views |-> {1, V!Status}, focused |-> <<1>>]
  OBVIOUS
<1>2. b.mask = V!Base /\ b.views = {1, V!Status} /\ b.focused = <<1>>
  BY <1>1
<1>3. b \in Layer
  <2>1. 1 \in V!View /\ V!Status \in V!View
    BY ViewsDiffer DEF V!View
  <2>2. <<1>> \in Seq(V!View)
    BY <2>1
  <2>3. V!Base \in SUBSET {"playlist", "status", "explorer", "help"} /\ {1, V!Status} \in SUBSET V!View
    BY <2>1 DEF V!Base
  <2> QED BY <1>1, <2>2, <2>3 DEF Layer
<1>4. layers = <<b>> /\ V!Top(layers) = b
  <2>1. layers = <<b>>
    BY <1>0, <1>1
  <2> QED BY <2>1, LayerIs
<1>5. V!Help \notin b.views
  BY <1>2, ViewsDiffer
<1>6. V!Last(b.focused) = 1
  BY <1>2 DEF V!Last
<1>7. Ordered(layers, iPlaylist, hasFocus)
  BY <1>0, <1>2, <1>3, <1>4, <1>6 DEF Ordered, Bottom
<1>8. LayoutInv
  BY <1>0, <1>2, <1>3, <1>4, <1>5, <1>7, ViewsDiffer DEF LayoutInv, Stacked
<1>9. DrawnInv
  BY <1>0 DEF DrawnInv, V!DrawnOrDue
<1>10. KnowsInv
  <2>1. <<>> \in Seq(Message)
    OBVIOUS
  <2>2. -1 \in -1 .. PlaylistCount
    BY ListsAssumption
  <2> QED BY <1>0, <2>1, <2>2 DEF KnowsInv
<1> QED BY <1>8, <1>9, <1>10
(* A request to append, or for a list, is sent: the client's choice stays. *)
LEMMA AskIs ==
  ASSUME KnowsInv, link # -1, NEW x \in Message, x.op # "Switch", c2s' = Append(c2s, x),
         UNCHANGED <<iPlaylist, selected, s2c>>,
         link' = link \/ (x.op = "Sync" /\ x.list = link /\ link' = link + 1 /\ link < PlaylistCount)
  PROVE  KnowsInv'
<1>0. /\ selected \in V!List /\ link \in -1 .. PlaylistCount /\ c2s \in Seq(Message) /\ s2c \in Seq(Message)
      /\ Agreed(c2s, selected, iPlaylist) \/ Coming(c2s, s2c, selected, link)
      /\ selected \in Int /\ link \in Int /\ PlaylistCount \in Int
  BY ListsAssumption DEF KnowsInv, V!List
<1>1. V!List' = V!List /\ Message' = Message
  BY DEF V!List, Message
<1>2. PICK d, at, n : d = Append(c2s, x) /\ at = selected /\ n = iPlaylist
  OBVIOUS
<1>3. d \in Seq(Message)
  BY <1>0, <1>2, MessageMore
<1>4. link' \in -1 .. PlaylistCount /\ link' # -1
  BY <1>0
<1>5. Agreed(c2s, at, n) => Agreed(d, at, n)
  BY <1>0, <1>2, MessageMore DEF Agreed
<1>6. Coming(c2s, s2c, at, link) => Coming(d, s2c, at, link')
  <2> SUFFICES ASSUME Coming(c2s, s2c, at, link) PROVE Coming(d, s2c, at, link')
    OBVIOUS
  <2>1. NoSwitch(d) /\ (Asks(c2s, at) => Asks(d, at))
    BY <1>0, <1>2, MessageMore DEF Coming
  <2>2. x.op = "Sync" /\ x.list = at => Asks(d, at)
    BY <1>0, <1>2, MessageMore
  <2>3. link <= at => link' <= at \/ Asks(d, at)
    BY <1>0, <1>2, <2>2
  <2> QED BY <2>1, <2>3 DEF Coming
<1>7. (Agreed(c2s, selected, iPlaylist) \/ Coming(c2s, s2c, selected, link))'
  BY <1>0, <1>2, <1>5, <1>6 DEF Agreed, Coming, LastSwitch, NoSwitch, Asks, Told
<1> QED BY <1>0, <1>1, <1>2, <1>3, <1>4, <1>7 DEF KnowsInv

(* News of an item comes or is taken.                                      *)
LEMMA NewsIs ==
  ASSUME KnowsInv, link # -1, UNCHANGED <<iPlaylist, selected, link, c2s>>,
         \/ \E x \in Message : x.op # "Switch" /\ s2c' = Append(s2c, x)
         \/ s2c # <<>> /\ Head(s2c).op # "Switch" /\ s2c' = Tail(s2c)
  PROVE  KnowsInv'
<1>0. /\ selected \in V!List /\ link \in -1 .. PlaylistCount /\ c2s \in Seq(Message) /\ s2c \in Seq(Message)
      /\ Agreed(c2s, selected, iPlaylist) \/ Coming(c2s, s2c, selected, link)
  BY DEF KnowsInv
<1>1. V!List' = V!List /\ Message' = Message
  BY DEF V!List, Message
<1>2. PICK s, at : s = s2c' /\ at = selected
  OBVIOUS
<1>3. /\ s \in Seq(Message) /\ (Told(s2c) => Told(s))
      /\ (\A k \in 1 .. Len(s2c) : s2c[k].op = "Switch" => s2c[k].list = at)
           => \A k \in 1 .. Len(s) : s[k].op = "Switch" => s[k].list = at
  <2>1. CASE \E x \in Message : x.op # "Switch" /\ s2c' = Append(s2c, x)
    <3>1. PICK x \in Message : x.op # "Switch" /\ s = Append(s2c, x)
      BY <1>2, <2>1
    <3> QED BY <1>0, <3>1, MessageMore
  <2>2. CASE s2c # <<>> /\ Head(s2c).op # "Switch" /\ s2c' = Tail(s2c)
    BY <1>0, <1>2, <2>2, MessageLess
  <2> QED BY <2>1, <2>2
<1>4. Coming(c2s, s2c, at, link) => Coming(c2s, s, at, link)
  BY <1>3 DEF Coming
<1>5. (Agreed(c2s, selected, iPlaylist) \/ Coming(c2s, s2c, selected, link))'
  BY <1>0, <1>2, <1>4 DEF Agreed, Coming, LastSwitch, NoSwitch, Asks, Told
<1> QED BY <1>0, <1>1, <1>2, <1>3, <1>5 DEF KnowsInv

(* The server takes a request (Handle).                                    *)
LEMMA TakenIs ==
  ASSUME KnowsInv, V!Handle
  PROVE  KnowsInv'
<1>0. /\ selected \in V!List /\ link \in -1 .. PlaylistCount /\ c2s \in Seq(Message) /\ s2c \in Seq(Message)
      /\ link = -1 => c2s = <<>> /\ s2c = <<>>
      /\ link = -1 \/ Agreed(c2s, selected, iPlaylist) \/ Coming(c2s, s2c, selected, link)
  BY DEF KnowsInv
<1>1. V!List' = V!List /\ Message' = Message
  BY DEF V!List, Message
<1>2. c2s # <<>> /\ c2s' = Tail(c2s) /\ link' = link /\ iPlaylist' = iPlaylist
  BY DEF V!Handle, V!screen
<1>3. link # -1
  BY <1>0, <1>2
<1>4. PICK m, d, n : m = Head(c2s) /\ d = Tail(c2s) /\ n = iPlaylist
  OBVIOUS
<1>5. /\ m \in Message /\ d \in Seq(Message)
      /\ LastSwitch(c2s, n) => LastSwitch(d, n) \/ (NoSwitch(d) /\ m.op = "Switch" /\ m.list = n)
      /\ NoSwitch(c2s) => NoSwitch(d) /\ m.op # "Switch"
  BY <1>0, <1>2, <1>4, MessageLess
<1>6. m.op \in {"Switch", "Sync", "Append"} /\ m.list \in V!List
  BY <1>5 DEF Message
<1>7. PICK at, s : at = selected' /\ s = s2c'
  OBVIOUS
<1>8. /\ at = IF m.op = "Switch" THEN m.list ELSE selected
      /\ s = IF m.op = "Sync" /\ m.list = selected THEN Append(s2c, [op |-> "Switch", list |-> selected])
             ELSE IF m.op = "Append" /\ V!Room THEN Append(s2c, m) ELSE s2c
  BY <1>4, <1>7 DEF V!Handle
<1>9. at \in V!List
  BY <1>0, <1>6, <1>8
<1>10. Agreed(c2s, selected, n) => Agreed(d, at, n)
  BY <1>5, <1>8 DEF Agreed
<1>11. s \in Seq(Message) /\ (Coming(c2s, s2c, selected, link) => Coming(d, s, at, link))
  <2>1. NoSwitch(c2s) => at = selected
    BY <1>5, <1>8
  <2>2. Asks(c2s, selected) => Asks(d, selected) \/ (m.op = "Sync" /\ m.list = selected)
    BY <1>0, <1>2, <1>4, MessageLess
  <2>3. CASE m.op = "Sync" /\ m.list = selected
    <3>1. PICK x : x = [op |-> "Switch", list |-> selected]
      OBVIOUS
    <3>2. x \in Message /\ x.op = "Switch" /\ x.list = selected /\ s = Append(s2c, x)
      BY <1>0, <1>8, <2>3, <3>1 DEF Message
    <3>3. s \in Seq(Message)
      BY <1>0, <3>2, MessageMore
    <3>4. Told(s)
      BY <1>0, <3>2, MessageMore
    <3>5. (\A k \in 1 .. Len(s2c) : s2c[k].op = "Switch" => s2c[k].list = selected)
             => \A k \in 1 .. Len(s) : s[k].op = "Switch" => s[k].list = selected
      BY <1>0, <3>2, MessageMore
    <3> QED BY <1>5, <2>1, <3>3, <3>4, <3>5 DEF Coming
  <2>4. CASE ~(m.op = "Sync" /\ m.list = selected) /\ m.op = "Append" /\ V!Room
    <3>1. s = Append(s2c, m)
      BY <1>8, <2>4
    <3>2. s \in Seq(Message)
      BY <1>0, <1>5, <3>1, MessageMore
    <3>3. /\ Told(s2c) => Told(s)
          /\ (\A k \in 1 .. Len(s2c) : s2c[k].op = "Switch" => s2c[k].list = selected)
             => \A k \in 1 .. Len(s) : s[k].op = "Switch" => s[k].list = selected
      BY <1>0, <1>5, <2>4, <3>1, MessageMore
    <3> QED BY <1>5, <2>1, <2>2, <2>4, <3>2, <3>3 DEF Coming
  <2>5. CASE ~(m.op = "Sync" /\ m.list = selected) /\ ~(m.op = "Append" /\ V!Room)
    <3>1. s = s2c
      BY <1>8, <2>5
    <3> QED BY <1>0, <1>5, <2>1, <2>2, <2>5, <3>1 DEF Coming
  <2> QED BY <2>3, <2>4, <2>5
<1>12. (Agreed(c2s, selected, iPlaylist) \/ Coming(c2s, s2c, selected, link))'
  BY <1>0, <1>2, <1>3, <1>4, <1>7, <1>10, <1>11 DEF Agreed, Coming, LastSwitch, NoSwitch, Asks, Told
<1> QED BY <1>0, <1>1, <1>2, <1>3, <1>4, <1>5, <1>7, <1>9, <1>11, <1>12 DEF KnowsInv

(* The connection is made, and each list asked for (SlotConnected).        *)
LEMMA ConnectedIs ==
  ASSUME KnowsInv, V!SlotConnected
  PROVE  KnowsInv'
<1>0. /\ selected \in V!List /\ link \in -1 .. PlaylistCount /\ c2s \in Seq(Message) /\ s2c \in Seq(Message)
      /\ link = -1 => c2s = <<>> /\ s2c = <<>>
      /\ PlaylistCount \in Nat /\ PlaylistCount > 1
  BY ListsAssumption DEF KnowsInv
<1>1. /\ link < PlaylistCount /\ link' = link + 1
      /\ c2s' = IF link = -1 THEN c2s ELSE Append(c2s, [op |-> "Sync", list |-> link])
      /\ UNCHANGED <<iPlaylist, selected, s2c>>
  BY DEF V!SlotConnected, V!screen
<1>2. CASE link = -1
  <2>1. c2s' = <<>> /\ s2c' = <<>> /\ link' = 0 /\ selected' = selected
    BY <1>0, <1>1, <1>2
  <2>2. Coming(<<>>, <<>>, selected, 0)
    <3>1. Len(<<>>) = 0 /\ 0 <= selected
      BY <1>0 DEF V!List
    <3> QED BY <3>1 DEF Coming, NoSwitch
  <2>3. Coming(c2s, s2c, selected, link)'
    BY <2>1, <2>2 DEF Coming, NoSwitch, Asks, Told
  <2>4. c2s' \in Seq(Message)' /\ s2c' \in Seq(Message)' /\ selected' \in V!List' /\ link' \in (-1 .. PlaylistCount)'
    BY <1>0, <2>1 DEF V!List
  <2> QED BY <2>1, <2>3, <2>4 DEF KnowsInv
<1>3. CASE link # -1
  <2>1. PICK x : x = [op |-> "Sync", list |-> link]
    OBVIOUS
  <2>2. x \in Message /\ x.op = "Sync" /\ x.list = link /\ c2s' = Append(c2s, x)
    BY <1>0, <1>1, <1>3, <2>1 DEF Message, V!List
  <2> QED BY <1>1, <1>3, <2>2, AskIs
<1> QED BY <1>2, <1>3

(* What is seen is drawn or will be, whatever is received (SlotAppend).    *)
LEMMA ReceivedIs ==
  ASSUME KnowsInv, LayoutInv, DrawnInv, V!SlotAppend
  PROVE  LayoutInv' /\ DrawnInv' /\ KnowsInv'
<1>0. s2c # <<>> /\ Head(s2c).op = "Append" /\ s2c' = Tail(s2c)
  BY DEF V!SlotAppend, V!Received
<1>1. PICK l : l = Head(s2c).list
  OBVIOUS
<1>2. /\ lengths' = [lengths EXCEPT ![l] = lengths[l] + 1]
      /\ needRefresh' = [needRefresh EXCEPT ![l] = IF l \in visible THEN needRefresh[l] + 1 ELSE needRefresh[l]]
      /\ UNCHANGED <<layers, visible, hasFocus, iPlaylist, placed, drawn, switchPlaylistTo, selected, link, c2s, blind>>
  BY <1>1 DEF V!SlotAppend
<1>3. LayoutInv'
  <2>1. switchPlaylistTo' \in V!List \cup {V!None}
    BY <1>2 DEF LayoutInv
  <2> QED BY <1>2, <2>1, LayoutSame
<1>4. KnowsInv'
  <2>1. link # -1
    BY <1>0 DEF KnowsInv
  <2> QED BY <1>0, <1>2, <2>1, NewsIs
<1>5. DrawnInv'
  <2>1. lengths \in [V!List -> Int] /\ drawn \in [V!List -> Int] /\ needRefresh \in [V!List -> Nat]
    BY DEF DrawnInv
  <2>2. V!List' = V!List
    BY DEF V!List
  <2>6. l \in V!List
    <3>1. Head(s2c) \in Message
      <4>1. s2c \in Seq(Message)
        BY DEF KnowsInv
      <4> QED BY <1>0, <4>1, MessageLess
    <3> QED BY <1>1, <3>1 DEF Message
  <2>3. lengths' \in [V!List -> Int]
    <3>1. lengths[l] + 1 \in Int
      BY <1>1, <2>1, <2>6
    <3> QED BY <1>2, <2>1, <3>1
  <2>4. needRefresh' \in [V!List -> Nat]
    <3>1. (IF l \in visible THEN needRefresh[l] + 1 ELSE needRefresh[l]) \in Nat
      BY <1>1, <2>1, <2>6
    <3> QED BY <1>2, <2>1, <3>1
  <2>5. ASSUME NEW k \in V!List, k \in visible PROVE drawn'[k] = lengths'[k] \/ needRefresh'[k] > 0
    <3>1. CASE k = l
      BY <1>2, <2>1, <2>5, <3>1
    <3>2. CASE k # l
      BY <1>2, <2>1, <2>5, <3>2 DEF DrawnInv, V!DrawnOrDue
    <3> QED BY <3>1, <3>2
  <2> QED BY <1>2, <2>1, <2>2, <2>3, <2>4, <2>5 DEF DrawnInv, V!DrawnOrDue
<1> QED BY <1>3, <1>4, <1>5

(* No step of the client or the server breaks what holds of the screen.    *)
LEMMA ScreenSteps ==
  ASSUME LayoutInv, DrawnInv, KnowsInv, V!Next
  PROVE  LayoutInv' /\ DrawnInv' /\ KnowsInv'
<1>0. /\ iPlaylist \in V!List /\ switchPlaylistTo \in V!List \cup {V!None}
      /\ s2c \in Seq(Message) /\ c2s \in Seq(Message) /\ link \in -1 .. PlaylistCount
      /\ link = -1 => c2s = <<>> /\ s2c = <<>>
  BY DEF LayoutInv, KnowsInv
<1>1. CASE V!SyncRefresh
  <2>1. lengths' = lengths /\ selected' = selected /\ link' = link /\ s2c' = s2c
    BY <1>1 DEF V!SyncRefresh, V!UiThread
  <2>2. CASE switchPlaylistTo # V!None
    <3>1. PICK n \in V!List : n = switchPlaylistTo
      BY <1>0, <2>2
    <3>2. V!SwitchPlaylist(n) /\ switchPlaylistTo' = V!None
      BY <1>1, <2>2, <3>1 DEF V!SyncRefresh
    <3>3. LayoutInv' /\ DrawnInv'
      BY <2>1, <3>2, SwitchIs
    <3>4. PICK s : s = s2c
      OBVIOUS
    <3>5. KnowsInv'
      BY <1>0, <2>1, <3>2, <3>4, ChoiceIs
    <3> QED BY <3>3, <3>5
  <2>3. CASE switchPlaylistTo = V!None
    <3>1. PICK those : those = {l \in V!List \cap V!Top(layers).views : needRefresh[l] > 0}
      OBVIOUS
    <3>2. /\ visible' = visible /\ V!Refreshed(those)
          /\ UNCHANGED <<layers, hasFocus, iPlaylist, placed, c2s, blind, switchPlaylistTo>>
      BY <1>1, <2>3, <3>1 DEF V!SyncRefresh
    <3>3. DrawnInv'
      BY <2>1, <3>2, RefreshIs
    <3>4. LayoutInv'
      BY <1>0, <3>2, LayoutSame
    <3>5. KnowsInv'
      BY <2>1, <3>2, KnowsSame
    <3> QED BY <3>3, <3>4, <3>5
  <2> QED BY <2>2, <2>3
<1>2. CASE V!SlotReqUserOpen
  <2>1. /\ c2s' = IF link = -1 THEN c2s ELSE Append(c2s, [op |-> "Append", list |-> iPlaylist])
        /\ UNCHANGED <<layers, visible, hasFocus, iPlaylist, placed, drawn, needRefresh, switchPlaylistTo, blind>>
        /\ UNCHANGED <<lengths, selected, link, s2c>>
    BY <1>2 DEF V!SlotReqUserOpen, V!Key, V!UiThread, V!Send, V!screen
  <2>2. LayoutInv' /\ DrawnInv'
    BY <1>0, <2>1, LayoutSame, DrawnSame
  <2>3. CASE link = -1
    BY <2>1, <2>2, <2>3, KnowsSame
  <2>4. CASE link # -1
    <3>1. PICK x : x = [op |-> "Append", list |-> iPlaylist]
      OBVIOUS
    <3>2. x \in Message /\ x.op # "Switch" /\ c2s' = Append(c2s, x)
      BY <1>0, <2>1, <2>4, <3>1 DEF Message
    <3> QED BY <2>1, <2>2, <2>4, <3>2, AskIs
  <2> QED BY <2>3, <2>4
<1>3. CASE V!ShowOrHideExplorer \/ V!ShowOrHideHelp \/ V!SwitchFocus \/ V!OnResize
  <2>1. LayoutInv' /\ DrawnInv'
    BY <1>3, ExplorerIs, HelpIs, TabIs, ResizeIs
  <2>2. UNCHANGED <<selected, link, c2s, s2c>> /\ iPlaylist' = iPlaylist
    BY <1>3 DEF V!ShowOrHideExplorer, V!ShowOrHideHelp, V!SwitchFocus, V!OnResize, V!Key, V!UiThread, V!UpdateTopLayout
  <2> QED BY <2>1, <2>2, KnowsSame
<1>4. ASSUME NEW n \in V!List, V!DigitKey(n) PROVE LayoutInv' /\ DrawnInv' /\ KnowsInv'
  <2>1. /\ V!SwitchPlaylist(n) /\ switchPlaylistTo' = switchPlaylistTo
        /\ UNCHANGED <<lengths, selected, link, s2c>>
    BY <1>4 DEF V!DigitKey, V!Key, V!UiThread
  <2>2. LayoutInv' /\ DrawnInv'
    BY <1>0, <2>1, SwitchIs
  <2>3. PICK s : s = s2c
    OBVIOUS
  <2>4. KnowsInv'
    BY <1>0, <2>1, <2>3, ChoiceIs
  <2> QED BY <2>2, <2>4
<1>5. ASSUME NEW l \in V!List, V!Other(l) PROVE LayoutInv' /\ DrawnInv' /\ KnowsInv'
  <2>1. /\ link # -1 /\ s2c' = Append(s2c, [op |-> "Append", list |-> l])
        /\ UNCHANGED <<layers, visible, hasFocus, iPlaylist, placed, drawn, needRefresh, switchPlaylistTo, blind>>
        /\ UNCHANGED <<lengths, selected, link, c2s>>
    BY <1>5 DEF V!Other, V!screen
  <2>2. LayoutInv' /\ DrawnInv'
    BY <1>0, <2>1, LayoutSame, DrawnSame
  <2>3. PICK x : x = [op |-> "Append", list |-> l]
    OBVIOUS
  <2>4. x \in Message /\ x.op # "Switch" /\ s2c' = Append(s2c, x)
    BY <2>1, <2>3 DEF Message
  <2> QED BY <2>1, <2>2, <2>4, NewsIs
<1>6. ASSUME NEW step \in {-1, 1}, V!SlotSwitchPlaylist(step) PROVE LayoutInv' /\ DrawnInv' /\ KnowsInv'
  <2>1. /\ switchPlaylistTo' = IF iPlaylist + step \in V!List THEN iPlaylist + step ELSE iPlaylist
        /\ UNCHANGED <<layers, visible, hasFocus, iPlaylist, placed, drawn, needRefresh, blind>>
        /\ UNCHANGED <<lengths, selected, link, s2c, c2s>>
    BY <1>6 DEF V!SlotSwitchPlaylist, V!Key, V!UiThread, V!screen
  <2>2. switchPlaylistTo' \in V!List \cup {V!None}
    BY <1>0, <2>1
  <2> QED BY <2>1, <2>2, LayoutSame, DrawnSame, KnowsSame
<1>7. CASE V!SlotConnected
  <2>1. /\ UNCHANGED <<layers, visible, hasFocus, iPlaylist, placed, drawn, needRefresh, switchPlaylistTo, blind>>
        /\ lengths' = lengths
    BY <1>7 DEF V!SlotConnected, V!screen
  <2> QED BY <1>0, <1>7, <2>1, LayoutSame, DrawnSame, ConnectedIs
<1>8. CASE V!SlotAppend
  BY <1>8, ReceivedIs
<1>9. CASE V!SlotSwitch
  <2>1. PICK n, s : n = Head(s2c).list /\ s = Tail(s2c)
    OBVIOUS
  <2>2. /\ s2c # <<>> /\ Head(s2c).op = "Switch" /\ s2c' = s /\ V!SwitchPlaylist(n)
        /\ UNCHANGED <<switchPlaylistTo, lengths, selected, link>>
    BY <1>9, <2>1 DEF V!SlotSwitch, V!Received
  <2>3. s \in Seq(Message) /\ n \in V!List
    <3>1. Head(s2c) \in Message /\ s \in Seq(Message)
      BY <1>0, <2>1, <2>2, MessageLess
    <3> QED BY <2>1, <3>1 DEF Message
  <2>4. LayoutInv' /\ DrawnInv'
    BY <1>0, <2>2, <2>3, SwitchIs
  <2>5. link # -1
    BY <1>0, <2>2
  <2>6. KnowsInv'
    BY <2>1, <2>2, <2>3, <2>5, ChoiceIs
  <2> QED BY <2>4, <2>6
<1>10. CASE V!Handle
  <2>1. /\ UNCHANGED <<layers, visible, hasFocus, iPlaylist, placed, drawn, needRefresh, switchPlaylistTo, blind>>
        /\ lengths' = lengths
    BY <1>10 DEF V!Handle, V!screen
  <2> QED BY <1>0, <1>10, <2>1, LayoutSame, DrawnSame, TakenIs
<1> QED BY <1>1, <1>2, <1>3, <1>4, <1>5, <1>6, <1>7, <1>8, <1>9, <1>10 DEF V!Next

(* What the screen promises (ScreenInv).                                   *)
LEMMA ScreenHolds ==
  ASSUME LayoutInv, DrawnInv, KnowsInv
  PROVE  V!ScreenInv
<1>1. V!TopShown /\ V!DrawnOrDue
  BY DEF LayoutInv, DrawnInv, V!TopShown
<1>2. V!ChosenSeen
  <2> SUFFICES ASSUME ~blind
               PROVE  /\ layers[1].views \cap V!List = {iPlaylist}
                      /\ Len(layers) = 1 => hasFocus = {V!Focused} /\ V!Focused \in visible
                      /\ visible \subseteq placed
    BY DEF V!ChosenSeen
  <2>1. /\ iPlaylist \in V!List /\ Ordered(layers, iPlaylist, hasFocus)
        /\ visible = V!Top(layers).views /\ visible \subseteq placed
    BY DEF LayoutInv
  <2>2. /\ layers[1].views \cap V!List = {iPlaylist}
        /\ Len(layers) = 1 => /\ hasFocus = {V!Last(V!Top(layers).focused)}
                              /\ V!Last(V!Top(layers).focused) \in V!Top(layers).views
    BY <2>1, OrderedIs
  <2> QED BY <2>1, <2>2 DEF V!Focused
<1>3. V!ServerKnows
  <2> SUFFICES ASSUME link = PlaylistCount, c2s = <<>>, s2c = <<>> PROVE selected = iPlaylist
    BY DEF V!ServerKnows
  <2>1. ~LastSwitch(<<>>, iPlaylist) /\ ~Asks(<<>>, selected) /\ ~Told(<<>>)
    BY DEF LastSwitch, Asks, Told
  <2>2. ~(link <= selected) /\ link # -1
    BY ListsAssumption DEF KnowsInv, V!List
  <2> QED BY <2>1, <2>2 DEF KnowsInv, Agreed, Coming
<1> QED BY <1>1, <1>2, <1>3 DEF V!ScreenInv
-----------------------------------------------------------------------------
(* The explorer.                                                           *)

ItemOf == [name : Called, isDir : BOOLEAN]

(* With an entry, the directory that it is in is there.                    *)
Closed(d) == d \subseteq Paths /\ \A e \in d : Len(e) > 1 => SubSeq(e, 1, Len(e) - 1) \in d

(* A set of numbers up to n that is not empty has a largest one.           *)
LEMMA LargestOf ==
  ASSUME NEW n \in Nat, NEW U, U \subseteq 1 .. n, U # {}
  PROVE  X!Max(U) \in U
<1> DEFINE D == {n - i : i \in U}
<1>0. \A i \in U : i \in Int /\ 1 <= i /\ i <= n
  OBVIOUS
<1>1. D \subseteq Nat /\ D # {}
  <2>1. PICK i : i \in U
    OBVIOUS
  <2>2. n - i \in D
    BY <2>1
  <2>3. \A j \in U : n - j \in Nat
    BY <1>0
  <2> QED BY <2>2, <2>3
<1>2. PICK d \in D : \A m \in D : d <= m
  <2> HIDE DEF D
  <2> QED BY <1>1, SmallestOf
<1>3. PICK x \in U : d = n - x
  BY <1>2
<1>4. \A y \in U : x >= y
  <2>1. ASSUME NEW y \in U PROVE x >= y
    <3>1. n - y \in D /\ n - x <= n - y
      BY <1>2, <1>3
    <3> QED BY <1>0, <3>1
  <2> QED BY <2>1
<1> QED BY <1>4 DEF X!Max

(* The rest of a sequence.                                                 *)
LEMMA EndOf ==
  ASSUME NEW Z, NEW p \in Seq(Z), NEW m \in 1 .. Len(p)
  PROVE  SubSeq(p, m + 1, Len(p)) \in Seq(Z)
<1>1. Len(p) \in Int /\ m \in Int /\ 1 <= m /\ m + 1 \in Int
  BY LenProperties
<1>2. ASSUME NEW k \in m + 1 .. Len(p) PROVE p[k] \in Z
  <2>1. k \in 1 .. Len(p)
    BY <1>1
  <2> QED BY <2>1, ElementOfSeq
<1> QED BY <1>1, <1>2, SubSeqProperties

(* A path without links.                                                   *)
LEMMA RealIs ==
  ASSUME NEW p \in Seq(Called)
  PROVE  /\ X!RealPath(p) \in Seq(Called)
         /\ (\A i \in 1 .. Len(p) : p[i] \notin DOMAIN Link) => X!RealPath(p) = p
<1> PICK links : links = {i \in DOMAIN p : p[i] \in DOMAIN Link}
  OBVIOUS
<1>1. Len(p) \in Nat /\ DOMAIN p = 1 .. Len(p)
  BY LenProperties
<1>2. CASE links = {}
  BY <1>2 DEF X!RealPath
<1>3. CASE links # {}
  <2> PICK m : m = X!Max(links)
    OBVIOUS
  <2>1. m \in links
    BY <1>1, <1>3, LargestOf
  <2>2. m \in 1 .. Len(p) /\ p[m] \in DOMAIN Link
    BY <1>1, <2>1
  <2>3. X!RealPath(p) = Link[p[m]] \o SubSeq(p, m + 1, Len(p))
    BY <1>3 DEF X!RealPath
  <2>4. Link[p[m]] \in Seq(Called)
    BY <2>2, ExplorerAssumption
  <2>5. SubSeq(p, m + 1, Len(p)) \in Seq(Called)
    BY <2>2, EndOf
  <2>6. Link[p[m]] \o SubSeq(p, m + 1, Len(p)) \in Seq(Called)
    BY <2>4, <2>5, ConcatProperties
  <2> QED BY <1>1, <2>2, <2>3, <2>6
<1> QED BY <1>2, <1>3

(* The directory above one that is there, and has been come to without a   *)
(* link, is there.                                                         *)
LEMMA UpIs ==
  ASSUME NEW p \in Seq(Called), Closed(entries), X!IsDir(p), X!RealPath(p) = p
  PROVE  /\ X!IsDir(X!Parent(p)) /\ X!Parent(p) \in Seq(Called)
         /\ X!Parent(p) = IF p = <<>> THEN <<>> ELSE SubSeq(p, 1, Len(p) - 1)
<1>1. X!Parent(p) = IF p = <<>> THEN <<>> ELSE SubSeq(p, 1, Len(p) - 1)
  BY DEF X!Parent, X!Front
<1>2. X!IsDir(<<>>) /\ <<>> \in Seq(Called)
  <2>1. <<>> \in Seq(Called) /\ \A i \in 1 .. Len(<<>>) : <<>>[i] \notin DOMAIN Link
    BY EmptySeq
  <2>2. X!RealPath(<<>>) = <<>>
    BY <2>1, RealIs
  <2> QED BY <2>1, <2>2 DEF X!IsDir
<1>3. CASE p # <<>>
  <2> PICK q : q = SubSeq(p, 1, Len(p) - 1)
    OBVIOUS
  <2>1. Len(p) \in Nat /\ Len(p) # 0
    BY <1>3, EmptySeq, LenProperties
  <2>2. q \in Seq(Called) /\ Len(q) = Len(p) - 1 /\ \A k \in 1 .. Len(p) - 1 : q[k] = p[k]
    BY <1>3, FrontOf
  <2>3. p \in entries /\ p \in Paths
    BY <1>3 DEF X!IsDir, Closed
  <2>4. Above(p)
    BY <2>3, ExplorerAssumption
  <2>5. \A i \in 1 .. Len(q) : q[i] \in Folder /\ q[i] \notin DOMAIN Link
    BY <2>2, <2>4 DEF Above
  <2>6. X!RealPath(q) = q
    BY <2>2, <2>5, RealIs
  <2>7. CASE Len(q) = 0
    <3>1. q = <<>>
      BY <2>2, <2>7, EmptySeq
    <3> QED BY <1>1, <1>2, <1>3, <3>1
  <2>8. CASE Len(q) # 0
    <3>1. q \in entries
      BY <2>1, <2>2, <2>3, <2>8 DEF Closed
    <3>2. q[Len(q)] \in Folder
      BY <2>1, <2>2, <2>5, <2>8
    <3>3. X!IsDir(q)
      BY <2>6, <3>1, <3>2 DEF X!IsDir, X!Last
    <3> QED BY <1>1, <1>3, <2>2, <3>3
  <2> QED BY <2>7, <2>8
<1> QED BY <1>1, <1>2, <1>3

(* Names at places of the order.                                           *)
LEMMA SortedIs ==
  ASSUME NEW S, S \subseteq 1 .. Len(Order)
  PROVE  X!Sorted(S) \in Seq(Called)
<1> DEFINE n == Cardinality(S)
           nth(k) == CHOOSE i \in S : Cardinality({j \in S : j <= i}) = k
<1>1. X!Sorted(S) = [k \in 1 .. n |-> Order[nth(k)]]
  BY DEF X!Sorted, X!Cardinality, Cardinality
<1>2. Len(Order) \in Nat
  BY ExplorerAssumption
<1>3. IsFiniteSet(S) /\ S \in SUBSET Nat
  <2>1. IsFiniteSet(1 .. Len(Order)) /\ 1 .. Len(Order) \subseteq Nat
    BY <1>2, FS_Interval
  <2> QED BY <2>1, FS_Subset
<1>4. n \in Nat
  BY <1>3, FS_CardinalityType
<1>5. ASSUME NEW k \in 1 .. n PROVE Order[nth(k)] \in Called
  <2>1. \E i \in S : Cardinality({j \in S : j <= i}) = k
    BY <1>3, KthExists
  <2>2. nth(k) \in S
    BY <2>1
  <2> QED BY <2>2 DEF Called
<1> HIDE DEF n, nth
<1> QED BY <1>1, <1>4, <1>5

(* What is listed of a directory.                                          *)
LEMMA ListingIs ==
  ASSUME NEW p, NEW dots, NEW known
  PROVE  LET s == X!Listing(p, dots, known) IN
         s \in Seq(ItemOf) /\ \A k \in 1 .. Len(s) : s[k].isDir = X!IsDir(Append(p, s[k].name))
<1> DEFINE Item1(n) == [name |-> n, isDir |-> X!IsDir(Append(p, n))]
           Shown(n) == /\ Append(X!RealPath(p), n) \in entries
                       /\ dots => n \notin Dotted
                       /\ known => Item1(n).isDir \/ n \notin Unknown \cup Folder
           in == {k \in DOMAIN Order : Shown(Order[k])}
           dirs == {k \in in : Item1(Order[k]).isDir}
           s == X!Sorted(dirs) \o X!Sorted(in \ dirs)
<1>1. X!Listing(p, dots, known) = [k \in DOMAIN s |-> Item1(s[k])]
  BY DEF X!Listing
<1>2. dirs \subseteq 1 .. Len(Order) /\ in \ dirs \subseteq 1 .. Len(Order)
  BY ExplorerAssumption
<1> HIDE DEF in, dirs
<1>3. s \in Seq(Called)
  <2>1. X!Sorted(dirs) \in Seq(Called) /\ X!Sorted(in \ dirs) \in Seq(Called)
    BY <1>2, SortedIs
  <2> QED BY <2>1, ConcatProperties
<1> HIDE DEF s
<1>4. Len(s) \in Nat /\ DOMAIN s = 1 .. Len(s) /\ \A k \in 1 .. Len(s) : s[k] \in Called
  BY <1>3, LenProperties, ElementOfSeq
<1>5. \A n : X!IsDir(Append(p, n)) \in BOOLEAN
  BY DEF X!IsDir
<1>6. \A k \in 1 .. Len(s) : Item1(s[k]) \in ItemOf
  BY <1>4, <1>5 DEF ItemOf
<1> DEFINE t == [k \in DOMAIN s |-> Item1(s[k])]
<1>7. t \in Seq(ItemOf) /\ Len(t) = Len(s)
  <2> HIDE DEF Item1
  <2> QED BY <1>4, <1>6
<1>8. \A k \in 1 .. Len(t) : t[k].isDir = X!IsDir(Append(p, t[k].name))
  BY <1>4, <1>7
<1> QED BY <1>1, <1>7, <1>8
(* A window of the explorer's, whose selected item may have gone; one that *)
(* fits n items, and, unless the height has changed, shows the selected.   *)
Loose == {w \in Win : 0 <= w.sel}
Fits(w, n, resized, h) == w \in Within(n) /\ (~resized => w \in SeenIn(n, h))

(* What is listed of each path is read.  Of p it is the items, and the     *)
(* window on top of the stack fits them; and each below it fits what is    *)
(* listed of a directory on the way to p, and has the next of that way     *)
(* selected.                                                               *)
Tidy(read, p, its, st, resized, h) ==
  /\ its = read[p] /\ Len(st) <= Len(p) + 1
  /\ its # <<>> => Fits(st[Len(st)], Len(its), resized, h)
  /\ \A k \in 1 .. Len(st) - 1 :
       LET depth == Len(p) - Len(st) + k
           there == read[SubSeq(p, 1, depth)] IN
       Fits(st[k], Len(there), resized, h) /\ there[st[k].sel + 1].name = p[depth + 1]

(* What holds of the explorer.                                             *)
Lists == [p \in Seq(Called) |-> X!Listing(p, hideDot, hideUnknown)]
ExploredInv ==
  /\ Closed(entries) /\ folder \in Seq(Called) /\ fileItems \in Seq(ItemOf)
  /\ stack \in Seq(Loose) /\ Len(stack) >= 1 /\ lines \in Heights
  /\ ~stale => ~lost /\ X!IsDir(folder) /\ Tidy(Lists, folder, fileItems, stack, sized, lines)
(* The beginning of a path.                                                *)
LEMMA BeginningOf ==
  ASSUME NEW Z, NEW p \in Seq(Z), NEW d \in 0 .. Len(p)
  PROVE  /\ SubSeq(p, 1, d) \in Seq(Z) /\ Len(SubSeq(p, 1, d)) = d
         /\ \A k \in 1 .. d : SubSeq(p, 1, d)[k] = p[k]
<1>1. Len(p) \in Nat /\ d \in Int /\ 1 \in Int /\ d \in Nat /\ d <= Len(p)
  BY LenProperties
<1>2. ASSUME NEW k \in 1 .. d PROVE p[k] \in Z
  <2>1. k \in 1 .. Len(p)
    BY <1>1
  <2> QED BY <2>1, ElementOfSeq
<1>3. /\ SubSeq(p, 1, d) \in Seq(Z)
      /\ Len(SubSeq(p, 1, d)) = IF 1 <= d THEN d - 1 + 1 ELSE 0
      /\ \A k \in 1 .. d - 1 + 1 : SubSeq(p, 1, d)[k] = p[1 + k - 1]
  BY <1>1, <1>2, SubSeqProperties
<1>4. Len(SubSeq(p, 1, d)) = d
  BY <1>1, <1>3
<1>5. \A k \in 1 .. d : SubSeq(p, 1, d)[k] = p[k]
  BY <1>1, <1>3
<1> QED BY <1>3, <1>4, <1>5

(* Of two that have a beginning in common.                                 *)
LEMMA SameBeginning ==
  ASSUME NEW Z, NEW p \in Seq(Z), NEW q \in Seq(Z), NEW d \in 0 .. Len(p), d <= Len(q),
         \A k \in 1 .. d : q[k] = p[k]
  PROVE  SubSeq(q, 1, d) = SubSeq(p, 1, d)
<1>1. Len(p) \in Nat /\ Len(q) \in Nat
  BY LenProperties
<1>2. d \in 0 .. Len(q)
  BY <1>1
<1>3. SubSeq(p, 1, d) \in Seq(Z) /\ Len(SubSeq(p, 1, d)) = d /\ \A k \in 1 .. d : SubSeq(p, 1, d)[k] = p[k]
  BY BeginningOf
<1>4. SubSeq(q, 1, d) \in Seq(Z) /\ Len(SubSeq(q, 1, d)) = d /\ \A k \in 1 .. d : SubSeq(q, 1, d)[k] = q[k]
  BY <1>2, BeginningOf
<1>5. \A k \in 1 .. Len(SubSeq(q, 1, d)) : SubSeq(q, 1, d)[k] = SubSeq(p, 1, d)[k]
  BY <1>3, <1>4
<1> QED BY <1>3, <1>4, <1>5, SeqEqual

(* The whole is its own beginning.                                         *)
LEMMA WholeIs ==
  ASSUME NEW Z, NEW p \in Seq(Z)
  PROVE  SubSeq(p, 1, Len(p)) = p
<1>1. Len(p) \in 0 .. Len(p)
  BY LenProperties
<1>2. /\ SubSeq(p, 1, Len(p)) \in Seq(Z) /\ Len(SubSeq(p, 1, Len(p))) = Len(p)
      /\ \A k \in 1 .. Len(p) : SubSeq(p, 1, Len(p))[k] = p[k]
  BY <1>1, BeginningOf
<1>3. \A k \in 1 .. Len(SubSeq(p, 1, Len(p))) : SubSeq(p, 1, Len(p))[k] = p[k]
  BY <1>2
<1> QED BY <1>2, <1>3, SeqEqual

(* The window of a directory that has just been entered.                   *)
LEMMA StartFits ==
  ASSUME NEW n \in Nat, n > 0, NEW h \in Nat, h >= 5, NEW resized
  PROVE  Fits(X!Start, n, resized, h) /\ X!Start \in Loose
<1> DEFINE w == [beg |-> 0, sel |-> 0]
<1>1. w.beg = 0 /\ w.sel = 0
  OBVIOUS
<1>2. w \in Win /\ w \in Within(n) /\ w \in Loose
  BY DEF Win, Within, Loose
<1>3. X!Start = w
  BY DEF X!Start
<1> HIDE DEF w
<1>4. L!Seen(w, n, h)
  BY <1>1, <1>2, SeenIs
<1> QED BY <1>2, <1>3, <1>4 DEF Fits, SeenIn

(* And of one that is empty.                                               *)
LEMMA StartLoose == X!Start \in Loose
BY DEF X!Start, Loose, Win

(* A window that is scrolled (Scrolled).                                   *)
LEMMA ScrolledFits ==
  ASSUME NEW w \in Loose, NEW n \in Nat, n > 0, NEW h \in Nat, h >= 5, NEW key, NEW resized
  PROVE  /\ X!Scrolled(key, w, n, h) \in Loose
         /\ Fits(w, n, resized, h) => Fits(X!Scrolled(key, w, n, h), n, resized, h)
<1>1. X!Scrolled(key, w, n, h) = L!Scrolled(key, w, n, h)
  BY DEF X!Scrolled, L!Scrolled, X!ScrollDown, L!ScrollDown, X!ScrollUp, L!ScrollUp, X!Start, L!Start,
     X!ScrollEnd, L!ScrollEnd, X!Paged, L!Paged, X!Lines, L!Lines, X!Middle, L!Middle, X!Max, L!Max
<1>2. w \in Win
  BY DEF Loose
<1>3. Fits(w, n, resized, h) => Fits(L!Scrolled(key, w, n, h), n, resized, h)
  BY <1>2, ScrolledIs DEF Fits
<1>4. ASSUME NEW x \in Loose PROVE L!ScrollDown(x, n, h) \in Loose /\ L!ScrollUp(x, n, h) \in Loose
  <2>1. x \in Win /\ x.sel \in Int /\ 0 <= x.sel
    BY DEF Loose, Win
  <2>2. L!ScrollDown(x, n, h) \in Win /\ L!ScrollUp(x, n, h) \in Win
    BY <2>1, LineIs
  <2>3. L!ScrollDown(x, n, h).sel = (IF x.sel < n - 1 THEN x.sel + 1 ELSE x.sel)
    BY DEF L!ScrollDown
  <2>4. L!ScrollUp(x, n, h).sel = (IF x.sel > 0 THEN x.sel - 1 ELSE x.sel)
    BY DEF L!ScrollUp
  <2>5. 0 <= L!ScrollDown(x, n, h).sel /\ 0 <= L!ScrollUp(x, n, h).sel
    BY <2>1, <2>3, <2>4
  <2> QED BY <2>2, <2>5 DEF Loose
<1>5. L!Paged(key, w, n, h) \in Loose
  <2> HIDE DEF Loose
  <2> QED BY <1>4, PagedIs
<1>6. key \in {"home", "end"} => L!Scrolled(key, w, n, h) \in Loose
  <2>1. key \in {"home", "end"} => L!Scrolled(key, w, n, h) \in Within(n)
    BY <1>2, ScrolledIs
  <2> QED BY <2>1 DEF Within, Loose, Win
<1>7. key \notin {"home", "end"} => L!Scrolled(key, w, n, h) \in {L!ScrollDown(w, n, h), L!ScrollUp(w, n, h), L!Paged(key, w, n, h)}
  BY DEF L!Scrolled
<1> QED BY <1>1, <1>3, <1>4, <1>5, <1>6, <1>7

(* The directory above (CdUp).                                             *)
LEMMA TidyUp ==
  ASSUME NEW read \in [Seq(Called) -> Seq(ItemOf)], NEW p \in Seq(Called), NEW its,
         NEW st \in Seq(Loose), Len(st) >= 1, NEW resized, NEW h \in Nat, h >= 5, Tidy(read, p, its, st, resized, h),
         NEW q \in Seq(Called), q = IF p = <<>> THEN <<>> ELSE SubSeq(p, 1, Len(p) - 1)
  PROVE  Tidy(read, q, read[q], IF Len(st) > 1 THEN X!Front(st) ELSE <<X!Start>>, resized, h)
<1>1. /\ Len(p) \in Nat /\ Len(st) \in Nat /\ Len(q) \in Nat /\ Len(st) <= Len(p) + 1
      /\ p = <<>> <=> Len(p) = 0
  BY LenProperties, EmptySeq DEF Tidy
<1>2. CASE Len(st) > 1
  <2> PICK r : r = X!Front(st)
    OBVIOUS
  <2>1. r \in Seq(Loose) /\ Len(r) = Len(st) - 1 /\ \A k \in 1 .. Len(st) - 1 : r[k] = st[k]
    <3>1. st # <<>>
      BY <1>2, EmptySeq
    <3> QED BY <3>1, FrontOf DEF X!Front
  <2>2. p # <<>> /\ q = SubSeq(p, 1, Len(p) - 1) /\ Len(q) = Len(p) - 1 /\ \A k \in 1 .. Len(p) - 1 : q[k] = p[k]
    <3>1. p # <<>>
      BY <1>1, <1>2
    <3> QED BY <3>1, FrontOf
  <2>3. ASSUME NEW k \in 1 .. Len(st) - 1
        PROVE  LET depth == Len(p) - Len(st) + k
                   there == read[SubSeq(p, 1, depth)] IN
               Fits(st[k], Len(there), resized, h) /\ there[st[k].sel + 1].name = p[depth + 1]
    BY DEF Tidy
  <2>4. Fits(r[Len(r)], Len(read[q]), resized, h)
    <3>1. Len(st) - 1 \in 1 .. Len(st) - 1 /\ Len(p) - Len(st) + (Len(st) - 1) = Len(p) - 1
      BY <1>1, <1>2
    <3>2. Fits(st[Len(st) - 1], Len(read[SubSeq(p, 1, Len(p) - 1)]), resized, h)
      BY <2>3, <3>1
    <3>3. r[Len(r)] = st[Len(st) - 1]
      BY <2>1, <3>1
    <3> QED BY <2>2, <3>2, <3>3
  <2>5. ASSUME NEW k \in 1 .. Len(r) - 1
        PROVE  LET depth == Len(q) - Len(r) + k
                   there == read[SubSeq(q, 1, depth)] IN
               Fits(r[k], Len(there), resized, h) /\ there[r[k].sel + 1].name = q[depth + 1]
    <3> PICK d : d = Len(p) - Len(st) + k
      OBVIOUS
    <3>1. /\ k \in 1 .. Len(st) - 1 /\ d = Len(q) - Len(r) + k /\ d \in 0 .. Len(p) /\ d <= Len(q)
          /\ d + 1 \in 1 .. Len(p) - 1 /\ \A j \in 1 .. d : j \in 1 .. Len(p) - 1
      BY <1>1, <2>1, <2>2
    <3>2. SubSeq(q, 1, d) = SubSeq(p, 1, d)
      <4>1. \A j \in 1 .. d : q[j] = p[j]
        BY <2>2, <3>1
      <4> QED BY <3>1, <4>1, SameBeginning
    <3>3. q[d + 1] = p[d + 1] /\ r[k] = st[k]
      BY <2>1, <2>2, <3>1
    <3>4. Fits(st[k], Len(read[SubSeq(p, 1, d)]), resized, h) /\ read[SubSeq(p, 1, d)][st[k].sel + 1].name = p[d + 1]
      BY <2>3, <3>1
    <3> QED BY <3>1, <3>2, <3>3, <3>4
  <2>6. Len(r) <= Len(q) + 1
    BY <1>1, <2>1, <2>2
  <2>7. Tidy(read, q, read[q], r, resized, h)
    BY <2>4, <2>5, <2>6 DEF Tidy
  <2> QED BY <1>2, <2>7
<1>3. CASE ~(Len(st) > 1)
  <2> PICK w : w = X!Start
    OBVIOUS
  <2>1. Len(<<w>>) = 1 /\ <<w>>[1] = w
    OBVIOUS
  <2>2. read[q] # <<>> => Fits(w, Len(read[q]), resized, h)
    <3>1. read[q] \in Seq(ItemOf)
      OBVIOUS
    <3>2. Len(read[q]) \in Nat /\ (read[q] # <<>> => Len(read[q]) > 0)
      BY <3>1, LenProperties, EmptySeq
    <3> QED BY <3>2, StartFits
  <2>3. Tidy(read, q, read[q], <<w>>, resized, h)
    <3>1. \A k \in 1 .. Len(<<w>>) - 1 : FALSE
      BY <2>1
    <3>2. Len(<<w>>) <= Len(q) + 1
      BY <1>1, <2>1
    <3> QED BY <2>1, <2>2, <3>1, <3>2 DEF Tidy
  <2> QED BY <1>3, <2>3
<1> QED BY <1>2, <1>3

(* One of its directories (CdIn).                                          *)
LEMMA TidyIn ==
  ASSUME NEW read \in [Seq(Called) -> Seq(ItemOf)], NEW p \in Seq(Called), NEW its,
         NEW st \in Seq(Loose), Len(st) >= 1, NEW resized, NEW h \in Nat, h >= 5, Tidy(read, p, its, st, resized, h),
         its # <<>>, NEW x \in Called, x = its[st[Len(st)].sel + 1].name
  PROVE  Tidy(read, Append(p, x), read[Append(p, x)], Append(st, X!Start), resized, h)
<1>1. Len(p) \in Nat /\ Len(st) \in Nat /\ Len(st) <= Len(p) + 1
  BY LenProperties DEF Tidy
<1> PICK w : w = X!Start
  OBVIOUS
<1>2. w \in Loose
  BY StartLoose
<1> PICK q, r : q = Append(p, x) /\ r = Append(st, w)
  OBVIOUS
<1>3. q \in Seq(Called) /\ Len(q) = Len(p) + 1 /\ q[Len(p) + 1] = x /\ \A k \in 1 .. Len(p) : q[k] = p[k]
  BY AppendProperties
<1>4. r \in Seq(Loose) /\ Len(r) = Len(st) + 1 /\ r[Len(st) + 1] = w /\ \A k \in 1 .. Len(st) : r[k] = st[k]
  BY <1>2, AppendProperties
<1>5. read[q] # <<>> => Fits(r[Len(r)], Len(read[q]), resized, h)
  <2>1. read[q] \in Seq(ItemOf)
    BY <1>3
  <2>2. Len(read[q]) \in Nat /\ (read[q] # <<>> => Len(read[q]) > 0)
    BY <2>1, LenProperties, EmptySeq
  <2> QED BY <1>4, <2>2, StartFits
<1>6. ASSUME NEW k \in 1 .. Len(r) - 1
      PROVE  LET depth == Len(q) - Len(r) + k
                 there == read[SubSeq(q, 1, depth)] IN
             Fits(r[k], Len(there), resized, h) /\ there[r[k].sel + 1].name = q[depth + 1]
  <2> PICK d : d = Len(p) - Len(st) + k
    OBVIOUS
  <2>1. /\ k \in 1 .. Len(st) /\ d = Len(q) - Len(r) + k /\ d \in 0 .. Len(p) /\ d <= Len(q)
        /\ \A j \in 1 .. d : j \in 1 .. Len(p)
    BY <1>1, <1>3, <1>4
  <2>2. SubSeq(q, 1, d) = SubSeq(p, 1, d) /\ r[k] = st[k]
    <3>1. \A j \in 1 .. d : q[j] = p[j]
      BY <1>3, <2>1
    <3>2. SubSeq(q, 1, d) = SubSeq(p, 1, d)
      BY <1>3, <2>1, <3>1, SameBeginning
    <3> QED BY <1>4, <2>1, <3>2
  <2>3. CASE k = Len(st)
    <3>1. d = Len(p)
      BY <1>1, <2>3
    <3>2. SubSeq(q, 1, d) = p
      BY <2>2, <3>1, WholeIs
    <3>3. read[p] = its /\ Fits(st[Len(st)], Len(its), resized, h)
      BY DEF Tidy
    <3> QED BY <1>3, <2>1, <2>2, <2>3, <3>1, <3>2, <3>3
  <2>4. CASE k # Len(st)
    <3>1. k \in 1 .. Len(st) - 1 /\ d + 1 \in 1 .. Len(p)
      BY <1>1, <2>1, <2>4
    <3>2. Fits(st[k], Len(read[SubSeq(p, 1, d)]), resized, h) /\ read[SubSeq(p, 1, d)][st[k].sel + 1].name = p[d + 1]
      BY <3>1 DEF Tidy
    <3>3. q[d + 1] = p[d + 1]
      BY <1>3, <3>1
    <3> QED BY <2>1, <2>2, <3>2, <3>3
  <2> QED BY <2>3, <2>4
<1>7. Len(r) <= Len(q) + 1
  BY <1>1, <1>3, <1>4
<1>8. Tidy(read, q, read[q], r, resized, h)
  BY <1>5, <1>6, <1>7 DEF Tidy
<1> QED BY <1>8

(* The window on top becomes another that fits (ScrollBy).                 *)
LEMMA TidyScroll ==
  ASSUME NEW read, NEW p \in Seq(Called), NEW its,
         NEW st \in Seq(Loose), Len(st) >= 1, NEW resized, NEW h, Tidy(read, p, its, st, resized, h),
         NEW w \in Loose, its # <<>> => Fits(w, Len(its), resized, h)
  PROVE  Tidy(read, p, its, Append(X!Front(st), w), resized, h)
<1> PICK r : r = Append(X!Front(st), w)
  OBVIOUS
<1>1. Len(p) \in Nat /\ Len(st) \in Nat
  BY LenProperties
<1>2. r \in Seq(Loose) /\ Len(r) = Len(st) /\ r[Len(st)] = w /\ \A k \in 1 .. Len(st) - 1 : r[k] = st[k]
  <2> PICK f : f = X!Front(st)
    OBVIOUS
  <2>1. st # <<>>
    BY <1>1, EmptySeq
  <2>2. f \in Seq(Loose) /\ Len(f) = Len(st) - 1 /\ \A k \in 1 .. Len(st) - 1 : f[k] = st[k]
    BY <2>1, FrontOf DEF X!Front
  <2>3. /\ Append(f, w) \in Seq(Loose) /\ Len(Append(f, w)) = Len(f) + 1 /\ Append(f, w)[Len(f) + 1] = w
        /\ \A k \in 1 .. Len(f) : Append(f, w)[k] = f[k]
    BY <2>2, AppendProperties
  <2>4. r = Append(f, w) /\ Len(f) + 1 = Len(st)
    BY <1>1, <2>2
  <2> QED BY <2>2, <2>3, <2>4
<1>3. ASSUME NEW k \in 1 .. Len(r) - 1
      PROVE  LET depth == Len(p) - Len(r) + k
                 there == read[SubSeq(p, 1, depth)] IN
             Fits(r[k], Len(there), resized, h) /\ there[r[k].sel + 1].name = p[depth + 1]
  <2>1. k \in 1 .. Len(st) - 1 /\ Len(p) - Len(r) + k = Len(p) - Len(st) + k /\ r[k] = st[k]
    BY <1>2
  <2> QED BY <2>1 DEF Tidy
<1>4. its = read[p] /\ Len(r) <= Len(p) + 1 /\ (its # <<>> => Fits(r[Len(r)], Len(its), resized, h))
  BY <1>2 DEF Tidy
<1> QED BY <1>3, <1>4 DEF Tidy

(* The height changes (Resize).                                            *)
LEMMA TidyResized ==
  ASSUME NEW read, NEW p, NEW its, NEW st, NEW resized, NEW h, NEW h2, Tidy(read, p, its, st, resized, h)
  PROVE  Tidy(read, p, its, st, TRUE, h2)
<1>1. \A w, n : Fits(w, n, resized, h) => Fits(w, n, TRUE, h2)
  BY DEF Fits
<1> QED BY <1>1 DEF Tidy
(* What is listed, of a disk; and while the disk stays.                     *)
DirOn(d, p) == X!RealPath(p) = <<>> \/ (X!RealPath(p) \in d /\ X!Last(p) \in Folder)
ListOn(d, p, noDot, noUnknown) ==
  LET item1(n) == [name |-> n, isDir |-> DirOn(d, Append(p, n))]
      shown1(n) ==
        /\ Append(X!RealPath(p), n) \in d
        /\ noDot => n \notin Dotted
        /\ noUnknown => item1(n).isDir \/ n \notin Unknown \cup Folder
      in == {k \in DOMAIN Order : shown1(Order[k])}
      dirs == {k \in in : item1(Order[k]).isDir}
      its == X!Sorted(dirs) \o X!Sorted(in \ dirs) IN
  [k \in DOMAIN its |-> item1(its[k])]

LEMMA ListsAre ==
  /\ Lists \in [Seq(Called) -> Seq(ItemOf)]
  /\ entries' = entries => Lists' = [p \in Seq(Called) |-> X!Listing(p, hideDot', hideUnknown')]
<1>1. Lists \in [Seq(Called) -> Seq(ItemOf)]
  BY ListingIs DEF Lists
<1>2. ASSUME entries' = entries PROVE Lists' = [p \in Seq(Called) |-> X!Listing(p, hideDot', hideUnknown')]
  <2>1. \A p, a, b : X!Listing(p, a, b) = ListOn(entries, p, a, b)
    BY DEF ListOn, DirOn, X!Listing, X!IsDir
  <2>2. Lists' = [p \in Seq(Called) |-> ListOn(entries', p, hideDot', hideUnknown')]
    BY DEF Lists, ListOn, DirOn, X!Listing, X!IsDir
  <2> QED BY <1>2, <2>1, <2>2
<1> QED BY <1>1, <1>2

(* The disk changes, and nothing that is on it is without its directory    *)
(* (Change).                                                               *)
LEMMA ClosedStays ==
  ASSUME Closed(entries), NEW e \in Paths, X!Change(e)
  PROVE  Closed(entries')
<1>1. /\ entries' = IF e \in entries THEN {f \in entries : ~X!IsPrefix(e, f)} ELSE entries \cup {e}
      /\ SubSeq(e, 1, Len(e) - 1) = <<>> \/ SubSeq(e, 1, Len(e) - 1) \in entries
  BY DEF X!Change, X!Front
<1>2. e \in Seq(Called) /\ \A f \in entries : f \in Seq(Called)
  BY ExplorerAssumption DEF Closed
<1>3. CASE e \in entries
  <2>1. ASSUME NEW f \in entries', Len(f) > 1 PROVE SubSeq(f, 1, Len(f) - 1) \in entries'
    <3> PICK g : g = SubSeq(f, 1, Len(f) - 1)
      OBVIOUS
    <3>1. f \in entries /\ ~X!IsPrefix(e, f) /\ f \in Seq(Called)
      BY <1>1, <1>2, <1>3
    <3>2. g \in entries
      BY <2>1, <3>1 DEF Closed
    <3>3. Len(e) \in Nat /\ Len(f) \in Nat
      BY <1>2, <3>1, LenProperties
    <3>4. Len(f) - 1 \in 0 .. Len(f)
      BY <2>1, <3>3
    <3>5. g \in Seq(Called) /\ Len(g) = Len(f) - 1 /\ \A k \in 1 .. Len(f) - 1 : g[k] = f[k]
      BY <3>1, <3>4, BeginningOf
    <3>6. ASSUME X!IsPrefix(e, g) PROVE FALSE
      <4>1. Len(e) <= Len(g) /\ SubSeq(g, 1, Len(e)) = e
        BY <3>6 DEF X!IsPrefix
      <4>2. Len(e) \in 0 .. Len(f) /\ Len(e) <= Len(g) /\ \A k \in 1 .. Len(e) : k \in 1 .. Len(f) - 1
        BY <3>3, <3>5, <4>1
      <4>3. \A k \in 1 .. Len(e) : g[k] = f[k]
        BY <3>5, <4>2
      <4>4. SubSeq(g, 1, Len(e)) = SubSeq(f, 1, Len(e))
        BY <3>1, <3>5, <4>2, <4>3, SameBeginning
      <4>5. Len(e) <= Len(f) /\ SubSeq(f, 1, Len(e)) = e
        BY <3>3, <4>1, <4>2, <4>4
      <4> QED BY <3>1, <4>5 DEF X!IsPrefix
    <3> QED BY <1>1, <1>3, <3>2, <3>6
  <2>2. entries' \subseteq Paths
    BY <1>1, <1>3 DEF Closed
  <2> QED BY <2>1, <2>2 DEF Closed
<1>4. CASE e \notin entries
  <2>1. entries' = entries \cup {e}
    BY <1>1, <1>4
  <2>2. ASSUME Len(e) > 1 PROVE SubSeq(e, 1, Len(e) - 1) \in entries
    <3> PICK g : g = SubSeq(e, 1, Len(e) - 1)
      OBVIOUS
    <3> PICK n : n = Len(e)
      OBVIOUS
    <3>0. e \in Seq(Called) /\ Len(e) \in Nat /\ e # <<>> /\ n > 1
      BY <1>2, <2>2, LenProperties, EmptySeq
    <3>1. Len(g) = n - 1 /\ n \in Nat
      BY <3>0, FrontOf
    <3>2. g # <<>>
      <4>1. Len(g) # 0
        BY <3>0, <3>1
      <4> QED BY <4>1, EmptySeq
    <3> QED BY <1>1, <3>2
  <2> QED BY <2>1, <2>2 DEF Closed
<1> QED BY <1>3, <1>4

(* The explorer begins in a directory that is there (Init).                *)
LEMMA ExplorerStarts ==
  ASSUME X!Init
  PROVE  ExploredInv
<1>0. /\ entries = Paths /\ folder = Home /\ hideDot = TRUE /\ hideUnknown = FALSE
      /\ fileItems = X!Listing(Home, TRUE, FALSE)
      /\ stack = <<X!Start>> /\ lines \in Heights /\ stale = FALSE /\ sized = FALSE /\ lost = FALSE
  BY DEF X!Init
<1>1. Home \in Seq(Called) /\ Home \in Paths /\ Above(Home) /\ Home[Len(Home)] \in Folder \ DOMAIN Link
  BY ExplorerAssumption
<1>2. Closed(entries)
  <2>1. ASSUME NEW e \in Paths, Len(e) > 1 PROVE SubSeq(e, 1, Len(e) - 1) \in Paths
    <3>1. Len(e) \in Nat /\ Above(e)
      <4>1. e \in Seq(Called) /\ Above(e)
        BY ExplorerAssumption
      <4> QED BY <4>1, LenProperties
    <3>2. Len(e) - 1 \in 1 .. Len(e) - 1
      BY <2>1, <3>1
    <3> QED BY <3>1, <3>2 DEF Above
  <2> QED BY <1>0, <2>1 DEF Closed
<1>3. X!IsDir(folder)
  <2>1. Len(Home) \in Nat
    BY <1>1, LenProperties
  <2>2. \A i \in 1 .. Len(Home) : i = Len(Home) \/ i \in 1 .. Len(Home) - 1
    BY <2>1
  <2>3. \A i \in 1 .. Len(Home) : Home[i] \notin DOMAIN Link
    BY <1>1, <2>2 DEF Above
  <2>4. X!RealPath(Home) = Home
    BY <1>1, <2>3, RealIs
  <2> QED BY <1>0, <1>1, <2>4 DEF X!IsDir, X!Last
<1> PICK w, its, h : w = X!Start /\ its = fileItems /\ h = lines
  OBVIOUS
<1>4. its \in Seq(ItemOf) /\ w \in Loose /\ h \in Nat /\ h >= 5
  BY <1>0, ListingIs, StartLoose, HeightsAssumption
<1>5. its = Lists[Home]
  BY <1>0, <1>1 DEF Lists
<1>6. Len(<<w>>) = 1 /\ <<w>>[1] = w /\ <<w>> \in Seq(Loose)
  BY <1>4
<1>7. Tidy(Lists, Home, its, <<w>>, sized, h)
  <2>1. Len(its) \in Nat /\ (its # <<>> => Len(its) > 0) /\ Len(Home) \in Nat
    BY <1>1, <1>4, LenProperties, EmptySeq
  <2>2. its # <<>> => Fits(w, Len(its), sized, h)
    BY <1>4, <2>1, StartFits
  <2>3. \A k \in 1 .. Len(<<w>>) - 1 : FALSE
    BY <1>6
  <2>4. Len(<<w>>) <= Len(Home) + 1
    BY <1>6, <2>1
  <2> QED BY <1>5, <1>6, <2>2, <2>3, <2>4 DEF Tidy
<1>8. folder = Home /\ stack = <<w>> /\ Len(stack) >= 1 /\ stack \in Seq(Loose)
  <2>1. folder = Home /\ stack = <<w>>
    BY <1>0
  <2> QED BY <1>6, <2>1
<1>9. ~lost /\ Tidy(Lists, folder, fileItems, stack, sized, lines)
  BY <1>0, <1>7, <1>8
<1> QED BY <1>0, <1>1, <1>2, <1>3, <1>4, <1>8, <1>9 DEF ExploredInv
(* The explorer's steps.  What the disk lists is the same unless it        *)
(* changes; the steps say what becomes of the path and of the windows.     *)
LEMMA ExplorerMoves ==
  ASSUME ExploredInv, entries' = entries, NEW p \in Seq(Called), folder' = p,
         NEW its, fileItems' = its, NEW st \in Seq(Loose), Len(st) >= 1, stack' = st,
         NEW read, read = [q \in Seq(Called) |-> X!Listing(q, hideDot', hideUnknown')],
         its \in Seq(ItemOf), lines' \in Heights,
         ~stale' => ~lost' /\ X!IsDir(p) /\ Tidy(read, p, its, st, sized', lines')
  PROVE  ExploredInv'
<1>1. Lists' = read
  BY ListsAre
<1>2. X!IsDir(p) => X!IsDir(folder)'
  BY DEF X!IsDir
<1>3. (~stale => ~lost /\ X!IsDir(folder) /\ Tidy(Lists, folder, fileItems, stack, sized, lines))'
  <2>1. Tidy(Lists, folder, fileItems, stack, sized, lines)' <=> Tidy(read, p, its, st, sized', lines')
    BY <1>1
  <2> QED BY <1>2, <2>1
<1>4. Closed(entries)'
  BY DEF ExploredInv, Closed
<1>5. (folder \in Seq(Called) /\ fileItems \in Seq(ItemOf) /\ stack \in Seq(Loose) /\ Len(stack) >= 1 /\ lines \in Heights)'
  BY DEF ItemOf, Called, Loose, Win
<1> QED BY <1>3, <1>4, <1>5 DEF ExploredInv

(* Each step of the explorer keeps its invariant (Next).                   *)
LEMMA ExplorerSteps ==
  ASSUME ExploredInv, X!Next
  PROVE  ExploredInv'
<1>0. /\ Closed(entries) /\ folder \in Seq(Called) /\ fileItems \in Seq(ItemOf)
      /\ stack \in Seq(Loose) /\ Len(stack) >= 1 /\ lines \in Heights /\ lines \in Nat /\ lines >= 5
      /\ ~stale => ~lost /\ X!IsDir(folder) /\ Tidy(Lists, folder, fileItems, stack, sized, lines)
      /\ ~lost
  BY HeightsAssumption DEF ExploredInv, X!Next
<1> PICK p, its, st, h : p = folder /\ its = fileItems /\ st = stack /\ h = lines
  OBVIOUS
<1>1. /\ p \in Seq(Called) /\ its \in Seq(ItemOf) /\ st \in Seq(Loose) /\ Len(st) >= 1
      /\ h \in Nat /\ h >= 5
      /\ ~stale => X!IsDir(p) /\ Tidy(Lists, p, its, st, sized, h)
  BY <1>0
<1> PICK read : read = Lists
  OBVIOUS
<1>2. read \in [Seq(Called) -> Seq(ItemOf)]
  BY ListsAre
<1>3. read = [q \in Seq(Called) |-> X!Listing(q, hideDot, hideUnknown)]
  BY DEF Lists
<1>4. st[Len(st)] \in Loose
  <2>1. Len(st) \in 1 .. Len(st)
    BY <1>1, LenProperties
  <2> QED BY <1>1, <2>1, ElementOfSeq
<1> PICK w, n : w = st[Len(st)] /\ n = Len(its)
  OBVIOUS
<1>5. w \in Loose /\ w.sel \in Nat /\ n \in Nat /\ (its # <<>> => n > 0)
  BY <1>1, <1>4, LenProperties, EmptySeq DEF Loose, Win
<1>6. X!Window = w /\ X!Count = n /\ X!Selected = its[w.sel + 1] /\ (X!NotThere <=> w.sel >= n)
  BY DEF X!Window, X!Last, X!Count, X!Selected, X!NotThere
<1>7. ~stale /\ its # <<>> => ~(w.sel >= n)
  <2> SUFFICES ASSUME ~stale, its # <<>> PROVE ~(w.sel >= n)
    OBVIOUS
  <2>1. Fits(w, n, sized, h)
    BY <1>1 DEF Tidy
  <2>2. w.sel < n
    BY <2>1 DEF Fits, Within
  <2> QED BY <1>5, <2>2
<1>8. ASSUME NEW k \in 1 .. n
      PROVE  its[k].name \in Called /\ (~stale => its[k].isDir = X!IsDir(Append(p, its[k].name)))
  <2>1. its[k] \in ItemOf
    BY <1>1, ElementOfSeq
  <2>2. ASSUME ~stale PROVE its[k].isDir = X!IsDir(Append(p, its[k].name))
    <3>1. its = X!Listing(p, hideDot, hideUnknown)
      BY <1>1, <1>3, <2>2 DEF Tidy
    <3> QED BY <3>1, ListingIs
  <2> QED BY <2>1, <2>2 DEF ItemOf
<1>9. ASSUME X!Astray, stale PROVE ExploredInv'
  <2>1. UNCHANGED <<entries, folder, fileItems, stack, lines, stale, hideDot, hideUnknown>>
    BY <1>9 DEF X!Astray
  <2> QED BY <1>0, <1>1, <1>3, <1>9, <2>1, ExplorerMoves
<1>10. CASE X!CdUp
  <2>1. CASE ~X!IsDir(p)
    BY <1>1, <1>9, <1>10, <2>1 DEF X!CdUp
  <2>2. CASE X!IsDir(p)
    <3> PICK q, t : q = X!Parent(p) /\ t = IF Len(st) > 1 THEN X!Front(st) ELSE <<X!Start>>
      OBVIOUS
    <3>1. /\ stack' = t /\ stale' = (stale \/ X!RealPath(p) # p) /\ folder' = q
          /\ fileItems' = X!Listing(q, hideDot, hideUnknown)
          /\ UNCHANGED <<entries, lines, changes, sized, lost, hideDot, hideUnknown>>
      BY <1>10, <2>2 DEF X!CdUp, X!Build
    <3>2. q \in Seq(Called)
      <4>1. X!RealPath(p) \in Seq(Called)
        BY <1>1, RealIs
      <4>2. <<>> \in Seq(Called)
        OBVIOUS
      <4> QED BY <4>1, <4>2, FrontOf DEF X!Parent, X!Front
    <3>3. t \in Seq(Loose) /\ Len(t) >= 1
      <4>1. CASE Len(st) > 1
        <5>1. st # <<>> /\ Len(st) \in Nat
          BY <1>1, <4>1, EmptySeq, LenProperties
        <5>2. X!Front(st) \in Seq(Loose) /\ Len(X!Front(st)) = Len(st) - 1
          BY <1>1, <5>1, FrontOf DEF X!Front
        <5> QED BY <4>1, <5>1, <5>2
      <4>2. CASE ~(Len(st) > 1)
        <5>1. X!Start \in Loose
          BY StartLoose
        <5>2. <<X!Start>> \in Seq(Loose) /\ Len(<<X!Start>>) = 1
          BY <5>1
        <5> QED BY <4>2, <5>2
      <4> QED BY <4>1, <4>2
    <3>4. fileItems' = read[q] /\ read[q] \in Seq(ItemOf)
      BY <1>2, <1>3, <3>1, <3>2
    <3>5. ASSUME ~stale' PROVE ~lost' /\ X!IsDir(q) /\ Tidy(read, q, read[q], t, sized', lines')
      <4>1. ~stale /\ X!RealPath(p) = p
        BY <3>1, <3>5
      <4>2. X!IsDir(q) /\ q = IF p = <<>> THEN <<>> ELSE SubSeq(p, 1, Len(p) - 1)
        BY <1>0, <1>1, <2>2, <4>1, UpIs
      <4>3. Tidy(read, p, its, st, sized, h)
        BY <1>1, <4>1
      <4>4. Tidy(read, q, read[q], t, sized, h)
        BY <1>1, <1>2, <3>2, <4>2, <4>3, TidyUp
      <4> QED BY <1>0, <3>1, <4>2, <4>4
    <3>6. read = [a \in Seq(Called) |-> X!Listing(a, hideDot', hideUnknown')]
      BY <1>3, <3>1
    <3>7. lines' \in Heights
      BY <1>0, <3>1
    <3> QED BY <3>1, <3>2, <3>3, <3>4, <3>5, <3>6, <3>7, ExplorerMoves
  <2> QED BY <2>1, <2>2
<1>11. CASE X!CdIn
  <2>0. its # <<>>
    BY <1>11 DEF X!CdIn
  <2>1. CASE w.sel >= n \/ (its[w.sel + 1].isDir /\ ~X!IsDir(Append(p, its[w.sel + 1].name)))
    <3>1. X!Astray
      BY <1>6, <1>11, <2>1 DEF X!CdIn
    <3>2. stale
      <4> SUFFICES ASSUME ~stale PROVE FALSE
        OBVIOUS
      <4>1. ~(w.sel >= n) /\ w.sel + 1 \in 1 .. n
        BY <1>5, <1>7, <2>0
      <4> QED BY <1>8, <2>1, <4>1
    <3> QED BY <1>9, <3>1, <3>2
  <2>2. CASE ~(w.sel >= n \/ (its[w.sel + 1].isDir /\ ~X!IsDir(Append(p, its[w.sel + 1].name))))
    <3>1. w.sel + 1 \in 1 .. n
      BY <1>5, <2>2
    <3> PICK x : x = its[w.sel + 1].name
      OBVIOUS
    <3>2. x \in Called
      BY <1>8, <3>1
    <3> PICK q, t : q = Append(p, x) /\ t = Append(st, X!Start)
      OBVIOUS
    <3>3. /\ stack' = t /\ folder' = q /\ fileItems' = X!Listing(q, hideDot, hideUnknown) /\ X!IsDir(q)
          /\ UNCHANGED <<entries, lines, changes, sized, lost, hideDot, hideUnknown, stale>>
      BY <1>6, <1>11, <2>2 DEF X!CdIn, X!Build
    <3>4. q \in Seq(Called) /\ t \in Seq(Loose) /\ Len(t) >= 1
      <4>1. X!Start \in Loose
        BY StartLoose
      <4>2. q \in Seq(Called) /\ t \in Seq(Loose) /\ Len(t) = Len(st) + 1 /\ Len(st) \in Nat
        BY <1>1, <3>2, <4>1, AppendProperties, LenProperties
      <4> QED BY <4>2
    <3>5. fileItems' = read[q] /\ read[q] \in Seq(ItemOf)
      BY <1>2, <1>3, <3>3, <3>4
    <3>6. ASSUME ~stale' PROVE ~lost' /\ X!IsDir(q) /\ Tidy(read, q, read[q], t, sized', lines')
      <4>1. Tidy(read, p, its, st, sized, h)
        BY <1>1, <3>3, <3>6
      <4>2. Tidy(read, q, read[q], t, sized, h)
        BY <1>1, <1>2, <2>0, <3>2, <4>1, TidyIn
      <4> QED BY <1>0, <3>3, <4>2
    <3>7. read = [a \in Seq(Called) |-> X!Listing(a, hideDot', hideUnknown')]
      BY <1>3, <3>3
    <3>8. lines' \in Heights
      BY <1>0, <3>3
    <3> QED BY <3>3, <3>4, <3>5, <3>6, <3>7, <3>8, ExplorerMoves
  <2> QED BY <2>1, <2>2
<1>12. CASE X!SigUserOpen
  <2>1. its # <<>> /\ w.sel >= n /\ X!Astray
    BY <1>6, <1>12 DEF X!SigUserOpen
  <2> QED BY <1>7, <1>9, <2>1
<1>13. ASSUME NEW key, X!ScrollBy(key) PROVE ExploredInv'
  <2> PICK v : v = X!Scrolled(key, w, n, h)
    OBVIOUS
  <2> PICK t : t = Append(X!Front(st), v)
    OBVIOUS
  <2>1. /\ its # <<>> /\ stack' = t
        /\ UNCHANGED <<entries, folder, fileItems, hideDot, hideUnknown, lines, changes, stale, sized, lost>>
    BY <1>6, <1>13 DEF X!ScrollBy
  <2>2. v \in Loose /\ (Fits(w, n, sized, h) => Fits(v, n, sized, h))
    BY <1>1, <1>5, <2>1, ScrolledFits
  <2>3. t \in Seq(Loose) /\ Len(t) >= 1
    <3>1. st # <<>>
      BY <1>1, EmptySeq
    <3> PICK f : f = X!Front(st)
      OBVIOUS
    <3>2. f \in Seq(Loose)
      BY <1>1, <3>1, FrontOf DEF X!Front
    <3>3. Append(f, v) \in Seq(Loose) /\ Len(Append(f, v)) = Len(f) + 1 /\ Len(f) \in Nat
      BY <2>2, <3>2, AppendProperties, LenProperties
    <3> QED BY <3>3
  <2>4. ASSUME ~stale' PROVE ~lost' /\ X!IsDir(p) /\ Tidy(read, p, its, t, sized', lines')
    <3>1. X!IsDir(p) /\ Tidy(read, p, its, st, sized, h)
      BY <1>1, <2>1, <2>4
    <3>2. Fits(w, n, sized, h)
      BY <2>1, <3>1 DEF Tidy
    <3>3. Tidy(read, p, its, t, sized, h)
      BY <1>1, <2>2, <3>1, <3>2, TidyScroll
    <3> QED BY <1>0, <2>1, <3>1, <3>3
  <2>5. read = [a \in Seq(Called) |-> X!Listing(a, hideDot', hideUnknown')]
    BY <1>3, <2>1
  <2> QED BY <1>0, <1>1, <2>1, <2>3, <2>4, <2>5, ExplorerMoves
<1>14. ASSUME NEW noDot, NEW noUnknown, X!Rebuild(noDot, noUnknown) PROVE ExploredInv'
  <2>1. CASE ~X!IsDir(p)
    BY <1>1, <1>9, <1>14, <2>1 DEF X!Rebuild
  <2>2. CASE X!IsDir(p)
    <3> PICK v : v = X!Start
      OBVIOUS
    <3> PICK t, new : t = <<v>> /\ new = X!Listing(p, noDot, noUnknown)
      OBVIOUS
    <3>1. /\ hideDot' = noDot /\ hideUnknown' = noUnknown /\ stack' = t /\ stale' = FALSE
          /\ folder' = p /\ fileItems' = new
          /\ UNCHANGED <<entries, lines, changes, sized, lost>>
      BY <1>14, <2>2 DEF X!Rebuild, X!Build
    <3>2. v \in Loose
      BY StartLoose
    <3>3. t \in Seq(Loose) /\ Len(t) = 1 /\ t[1] = v
      BY <3>2
    <3>4. new \in Seq(ItemOf)
      BY ListingIs
    <3> PICK now : now = [a \in Seq(Called) |-> X!Listing(a, hideDot', hideUnknown')]
      OBVIOUS
    <3>5. now[p] = new
      BY <1>1, <3>1
    <3>6. Tidy(now, p, new, t, sized, h)
      <4>1. Len(p) \in Nat /\ Len(new) \in Nat /\ (new # <<>> => Len(new) > 0)
        BY <1>1, <3>4, LenProperties, EmptySeq
      <4>2. new # <<>> => Fits(v, Len(new), sized, h)
        BY <1>1, <4>1, StartFits
      <4>3. \A k \in 1 .. Len(t) - 1 : FALSE
        BY <3>3
      <4>4. Len(t) <= Len(p) + 1
        BY <3>3, <4>1
      <4> QED BY <3>3, <3>5, <4>2, <4>3, <4>4 DEF Tidy
    <3>7. ~lost' /\ Tidy(now, p, new, t, sized', lines') /\ lines' \in Heights /\ Len(t) >= 1
      BY <1>0, <3>1, <3>3, <3>6
    <3> QED BY <1>1, <2>2, <3>1, <3>3, <3>4, <3>7, ExplorerMoves
  <2> QED BY <2>1, <2>2
<1>15. ASSUME NEW g \in Heights, X!Resize(g) PROVE ExploredInv'
  <2>1. /\ lines' = g /\ sized' = TRUE
        /\ UNCHANGED <<entries, folder, fileItems, stack, hideDot, hideUnknown, changes, stale, lost>>
    BY <1>15 DEF X!Resize
  <2>2. ASSUME ~stale' PROVE ~lost' /\ X!IsDir(p) /\ Tidy(read, p, its, st, sized', lines')
    <3>1. X!IsDir(p) /\ Tidy(read, p, its, st, sized, h)
      BY <1>1, <2>1, <2>2
    <3>2. Tidy(read, p, its, st, TRUE, g)
      BY <3>1, TidyResized
    <3> QED BY <1>0, <2>1, <3>1, <3>2
  <2>3. read = [a \in Seq(Called) |-> X!Listing(a, hideDot', hideUnknown')]
    BY <1>3, <2>1
  <2> QED BY <1>1, <2>1, <2>2, <2>3, ExplorerMoves
<1>16. ASSUME NEW e \in Paths, X!Change(e) PROVE ExploredInv'
  <2>1. Closed(entries')
    BY <1>0, <1>16, ClosedStays
  <2>2. stale' = TRUE /\ UNCHANGED <<folder, fileItems, stack, lines>>
    BY <1>16 DEF X!Change
  <2>3. (folder \in Seq(Called) /\ fileItems \in Seq(ItemOf) /\ stack \in Seq(Loose) /\ Len(stack) >= 1 /\ lines \in Heights)'
    BY <1>0, <2>2 DEF ItemOf, Called, Loose, Win
  <2> QED BY <2>1, <2>2, <2>3 DEF ExploredInv, Closed
<1> QED BY <1>10, <1>11, <1>12, <1>13, <1>14, <1>15, <1>16 DEF X!Next

(* What the explorer promises (ExplorerInv).                               *)
LEMMA ExplorerHolds ==
  ASSUME ExploredInv
  PROVE  X!ExplorerInv
<1>1. lost => stale
  BY DEF ExploredInv
<1>2. ASSUME ~stale
      PROVE  /\ fileItems = X!Listing(folder, hideDot, hideUnknown)
             /\ fileItems # <<>> => ~X!NotThere /\ (~sized => X!Seen(X!Window, X!Count, lines))
             /\ \A k \in 1 .. Len(stack) - 1 :
                  LET depth == Len(folder) - Len(stack) + k IN
                  X!Listing(SubSeq(folder, 1, depth), hideDot, hideUnknown)[stack[k].sel + 1].name = folder[depth + 1]
  <2>1. /\ Tidy(Lists, folder, fileItems, stack, sized, lines) /\ folder \in Seq(Called)
        /\ fileItems \in Seq(ItemOf) /\ stack \in Seq(Loose)
    BY <1>2 DEF ExploredInv
  <2>2. fileItems = X!Listing(folder, hideDot, hideUnknown)
    BY <2>1 DEF Tidy, Lists
  <2>3. ASSUME fileItems # <<>> PROVE ~X!NotThere /\ (~sized => X!Seen(X!Window, X!Count, lines))
    <3> PICK w, n : w = stack[Len(stack)] /\ n = Len(fileItems)
      OBVIOUS
    <3>1. Fits(w, n, sized, lines) /\ n \in Nat
      BY <2>1, <2>3, LenProperties DEF Tidy
    <3>2. w.sel \in Int /\ w.sel < n
      BY <3>1 DEF Fits, Within, Win
    <3>3. X!Window = w /\ X!Count = n /\ (X!NotThere <=> w.sel >= n)
      BY DEF X!Window, X!Last, X!Count, X!NotThere
    <3>4. L!Seen(w, n, lines) <=> X!Seen(w, n, lines)
      BY DEF L!Seen, X!Seen, L!Lines, X!Lines, L!Min, X!Min
    <3> QED BY <3>1, <3>2, <3>3, <3>4 DEF Fits, SeenIn
  <2>4. ASSUME NEW k \in 1 .. Len(stack) - 1
        PROVE  LET depth == Len(folder) - Len(stack) + k IN
               X!Listing(SubSeq(folder, 1, depth), hideDot, hideUnknown)[stack[k].sel + 1].name = folder[depth + 1]
    <3> PICK d : d = Len(folder) - Len(stack) + k
      OBVIOUS
    <3>1. Len(folder) \in Nat /\ Len(stack) \in Nat /\ Len(stack) <= Len(folder) + 1
      BY <2>1, LenProperties DEF Tidy
    <3>2. d \in 0 .. Len(folder)
      BY <3>1
    <3>3. SubSeq(folder, 1, d) \in Seq(Called)
      BY <2>1, <3>2, BeginningOf
    <3>4. Lists[SubSeq(folder, 1, d)][stack[k].sel + 1].name = folder[d + 1]
      BY <2>1 DEF Tidy
    <3> QED BY <3>3, <3>4 DEF Lists
  <2> QED BY <2>2, <2>3, <2>4
<1> QED BY <1>1, <1>2 DEF X!ExplorerInv, X!ListsWhatIsThere, X!WayUp
-----------------------------------------------------------------------------
(* The order of names.                                                     *)

(* What tells two characters apart, and so a place among all.              *)
Val(c) == IF c.bytes = 1 THEN c.key ELSE TABLE_SIZE + K!Sound(c)

(* Names whose characters have a place.                                    *)
PlacedName == {s \in Seq(Char) : K!Placed(s)}

(* The order: the first place where two names differ tells, or where the   *)
(* one before has ended.                                                   *)
Lex(a, b) ==
  \E k \in 1 .. Len(b) : /\ \A j \in 1 .. k - 1 : j <= Len(a) /\ Val(a[j]) = Val(b[j])
                         /\ k > Len(a) \/ Val(a[k]) < Val(b[k])
Alike(a, b) == Len(a) = Len(b) /\ \A j \in 1 .. Len(a) : Val(a[j]) = Val(b[j])

(* Two characters that have a place.                                       *)
LEMMA CharIs ==
  ASSUME NEW c \in Char, NEW d \in Char,
         c.bytes > 1 => K!InTable(c) /\ K!Sound(c) # K!Silent,
         d.bytes > 1 => K!InTable(d) /\ K!Sound(d) # K!Silent
  PROVE  /\ Val(c) \in Nat /\ K!InTable(c) /\ K!InTable(d)
         /\ K!GoesOn(c, d) <=> Val(c) = Val(d)
         /\ Val(c) # Val(d) =>
              ((IF c.bytes = 1 /\ d.bytes = 1 /\ c # d THEN c.key < d.key
                ELSE IF c.bytes = 1 /\ d.bytes > 1 THEN TRUE
                ELSE K!Sound(c) < K!Sound(d)) <=> Val(c) < Val(d))
<1>1. ASSUME NEW e \in Char, e.bytes > 1 => K!InTable(e) /\ K!Sound(e) # K!Silent
      PROVE  /\ e.bytes \in Nat /\ e.bytes >= 1 /\ e.key \in Nat /\ K!Sound(e) \in Nat /\ K!InTable(e)
             /\ e.bytes = 1 => e.key < TABLE_SIZE /\ K!Sound(e) = 0
             /\ e.bytes > 1 => K!Sound(e) > 0
             /\ e = [bytes |-> e.bytes, key |-> e.key]
  <2>1. e \in [bytes : Nat \ {0}, key : Nat]
    BY CharAssumption
  <2>2. e.bytes \in Nat /\ e.bytes >= 1 /\ e.key \in Nat /\ e = [bytes |-> e.bytes, key |-> e.key]
    BY <2>1
  <2>3. K!Sound(e) \in Nat
    BY CharAssumption DEF K!Sound, K!Silent
  <2>4. e.bytes = 1 => e.key < TABLE_SIZE /\ K!Sound(e) = 0
    BY CharAssumption DEF K!Sound, K!Silent
  <2>5. K!InTable(e)
    BY <1>1, <2>2, <2>4 DEF K!InTable
  <2>6. e.bytes > 1 => K!Sound(e) > 0
    BY <1>1, <2>3 DEF K!Silent
  <2> QED BY <2>2, <2>3, <2>4, <2>5, <2>6
<1> PICK cb, ck, cs, db, dk, ds :
      cb = c.bytes /\ ck = c.key /\ cs = K!Sound(c) /\ db = d.bytes /\ dk = d.key /\ ds = K!Sound(d)
  OBVIOUS
<1>2. /\ cb \in Nat /\ cb >= 1 /\ ck \in Nat /\ cs \in Nat /\ (cb = 1 => ck < TABLE_SIZE /\ cs = 0) /\ (cb > 1 => cs > 0)
      /\ db \in Nat /\ db >= 1 /\ dk \in Nat /\ ds \in Nat /\ (db = 1 => dk < TABLE_SIZE /\ ds = 0) /\ (db > 1 => ds > 0)
      /\ TABLE_SIZE \in Nat
  BY <1>1, CharAssumption
<1>3. c = [bytes |-> cb, key |-> ck] /\ d = [bytes |-> db, key |-> dk] /\ K!InTable(c) /\ K!InTable(d)
  BY <1>1
<1>4. (c = d) <=> (cb = db /\ ck = dk)
  BY <1>3
<1>5. c = d => cs = ds
  OBVIOUS
<1> PICK vc, vd : vc = Val(c) /\ vd = Val(d)
  OBVIOUS
<1>6. vc = (IF cb = 1 THEN ck ELSE TABLE_SIZE + cs) /\ vd = (IF db = 1 THEN dk ELSE TABLE_SIZE + ds)
  BY DEF Val
<1>7. vc \in Nat /\ vd \in Nat
  BY <1>2, <1>6
<1>8. K!GoesOn(c, d) <=> (cb = 1 => c = d) /\ cs = ds
  BY <1>3 DEF K!GoesOn
<1>9. (cb = 1 => c = d) /\ cs = ds <=> vc = vd
  BY <1>2, <1>4, <1>5, <1>6
<1>10. vc # vd => ((IF cb = 1 /\ db = 1 /\ c # d THEN ck < dk ELSE IF cb = 1 /\ db > 1 THEN TRUE ELSE cs < ds) <=> vc < vd)
  BY <1>2, <1>4, <1>6
<1> QED BY <1>3, <1>7, <1>8, <1>9, <1>10

(* Numbers can be added up: what the definition of Bytes needs.            *)
Sums(f, n, g) == f \in [0 .. n -> Nat] /\ f[0] = 0 /\ \A k \in 1 .. n : f[k] = f[k - 1] + g[k]

LEMMA Summed ==
  ASSUME NEW most \in Nat, NEW g \in [1 .. most -> Nat]
  PROVE  \E f : Sums(f, most, g)
<1> DEFINE S == {n \in Nat : n <= most => \E f : Sums(f, n, g)}
<1>1. 0 \in S
  <2>1. Sums([k \in 0 .. 0 |-> 0], 0, g)
    BY DEF Sums
  <2> QED BY <2>1
<1>2. ASSUME NEW n \in Nat, n \in S PROVE n + 1 \in S
  <2> SUFFICES ASSUME n + 1 <= most PROVE \E f : Sums(f, n + 1, g)
    OBVIOUS
  <2>1. PICK f : Sums(f, n, g)
    BY <1>2
  <2>2. g[n + 1] \in Nat /\ f \in [0 .. n -> Nat] /\ f[0] = 0 /\ \A k \in 1 .. n : f[k] = f[k - 1] + g[k]
    BY <2>1 DEF Sums
  <2> PICK more : more = f[n] + g[n + 1]
    OBVIOUS
  <2>3. more \in Nat
    BY <2>2
  <2> DEFINE h == [k \in 0 .. n + 1 |-> IF k = n + 1 THEN more ELSE f[k]]
  <2>4. h \in [0 .. n + 1 -> Nat] /\ h[0] = 0
    BY <2>2, <2>3
  <2>5. ASSUME NEW k \in 1 .. n + 1 PROVE h[k] = h[k - 1] + g[k]
    BY <2>2
  <2>6. Sums(h, n + 1, g)
    <3> HIDE DEF h
    <3> QED BY <2>4, <2>5 DEF Sums
  <2> QED BY <2>6
<1> HIDE DEF S
<1>3. most \in S
  BY <1>1, <1>2, AllNumbers
<1> QED BY <1>3 DEF S

(* No character is without bytes.                                          *)
LEMMA BytesAre ==
  ASSUME NEW s \in Seq(Char)
  PROVE  K!Bytes(s) \in Nat /\ (K!Bytes(s) = 0 <=> Len(s) = 0)
<1> PICK n : n = Len(s)
  OBVIOUS
<1>1. n \in Nat
  BY LenProperties
<1> PICK g : g = [k \in 1 .. n |-> s[k].bytes]
  OBVIOUS
<1>2. g \in [1 .. n -> Nat] /\ \A k \in 1 .. n : g[k] >= 1 /\ g[k] = s[k].bytes
  <2>1. ASSUME NEW k \in 1 .. n PROVE s[k].bytes \in Nat /\ s[k].bytes >= 1
    <3>1. s[k] \in Char
      BY ElementOfSeq
    <3> QED BY <3>1, CharAssumption
  <2> QED BY <2>1
<1> DEFINE IsSum(f) == f = [k \in 0 .. Len(s) |-> IF k = 0 THEN 0 ELSE f[k - 1] + s[k].bytes]
           upTo == CHOOSE f : IsSum(f)
<1>3. K!Bytes(s) = upTo[Len(s)]
  BY DEF K!Bytes
<1>4. PICK f : Sums(f, n, g)
  BY <1>1, <1>2, Summed
<1>5. IsSum(f)
  <2>1. ASSUME NEW k \in 0 .. n PROVE f[k] = IF k = 0 THEN 0 ELSE f[k - 1] + s[k].bytes
    BY <1>1, <1>2, <1>4 DEF Sums
  <2>2. f = [k \in 0 .. n |-> f[k]]
    BY <1>4 DEF Sums
  <2> QED BY <2>1, <2>2
<1>6. IsSum(upTo)
  <2> HIDE DEF IsSum
  <2> QED BY <1>5
<1> HIDE DEF upTo
<1>7. upTo[0] = 0 /\ \A k \in 1 .. n : upTo[k] = upTo[k - 1] + g[k]
  BY <1>1, <1>2, <1>6
<1> HIDE DEF IsSum
<1> DEFINE S == {k \in Nat : k <= n => upTo[k] \in Nat /\ upTo[k] >= k}
<1>8. 0 \in S
  BY <1>7
<1>9. ASSUME NEW k \in Nat, k \in S PROVE k + 1 \in S
  <2> SUFFICES ASSUME k + 1 <= n PROVE upTo[k + 1] \in Nat /\ upTo[k + 1] >= k + 1
    OBVIOUS
  <2>1. k + 1 \in 1 .. n /\ (k + 1) - 1 = k /\ upTo[k] \in Nat /\ upTo[k] >= k
    BY <1>1, <1>9
  <2>2. upTo[k + 1] = upTo[k] + g[k + 1] /\ g[k + 1] \in Nat /\ g[k + 1] >= 1
    BY <1>2, <1>7, <2>1
  <2> QED BY <2>1, <2>2
<1> HIDE DEF S
<1>10. n \in S
  BY <1>1, <1>8, <1>9, AllNumbers
<1>11. upTo[n] \in Nat /\ upTo[n] >= n
  BY <1>1, <1>10 DEF S
<1>12. n = 0 => upTo[n] = 0
  BY <1>7
<1> QED BY <1>1, <1>3, <1>11, <1>12

(* Where two names differ first.                                           *)
FirstOf(a, b, k) ==
  /\ k \in 1 .. Len(a) + 1
  /\ ~(k <= Len(a) /\ k <= Len(b) /\ Val(a[k]) = Val(b[k]))
  /\ \A j \in 1 .. k - 1 : j <= Len(a) /\ j <= Len(b) /\ Val(a[j]) = Val(b[j])

LEMMA FirstIs ==
  ASSUME NEW a \in Seq(Char), NEW b \in Seq(Char)
  PROVE  \E k : FirstOf(a, b, k)
<1> DEFINE Same(k) == k <= Len(a) /\ k <= Len(b) /\ Val(a[k]) = Val(b[k])
           U == {k \in 1 .. Len(a) + 1 : ~Same(k)}
<1>1. Len(a) \in Nat /\ Len(b) \in Nat
  BY LenProperties
<1>2. U \subseteq Nat /\ U # {}
  <2>1. Len(a) + 1 \in U
    BY <1>1
  <2>2. U \subseteq Nat
    BY <1>1
  <2> QED BY <2>1, <2>2
<1>3. PICK k \in U : \A m \in U : k <= m
  <2> HIDE DEF U
  <2> QED BY <1>2, SmallestOf
<1>4. ASSUME NEW j \in 1 .. k - 1 PROVE Same(j)
  <2>1. k \in 1 .. Len(a) + 1 /\ j \in 1 .. Len(a) + 1 /\ ~(k <= j)
    BY <1>1
  <2> HIDE DEF Same
  <2> QED BY <1>3, <2>1
<1> QED BY <1>3, <1>4 DEF FirstOf

(* It decides.                                                             *)
LEMMA LexIs ==
  ASSUME NEW a \in Seq(Char), NEW b \in Seq(Char), NEW k, FirstOf(a, b, k),
         \A j \in 1 .. Len(a) : Val(a[j]) \in Nat, \A j \in 1 .. Len(b) : Val(b[j]) \in Nat
  PROVE  /\ Lex(a, b) <=> k <= Len(b) /\ (k > Len(a) \/ Val(a[k]) < Val(b[k]))
         /\ Alike(a, b) <=> k > Len(a) /\ k > Len(b)
<1>1. Len(a) \in Nat /\ Len(b) \in Nat
  BY LenProperties
<1>2. /\ k \in 1 .. Len(a) + 1 /\ ~(k <= Len(a) /\ k <= Len(b) /\ Val(a[k]) = Val(b[k]))
      /\ \A j \in 1 .. k - 1 : j <= Len(a) /\ j <= Len(b) /\ Val(a[j]) = Val(b[j])
  BY DEF FirstOf
<1>3. ASSUME k <= Len(b), k > Len(a) \/ Val(a[k]) < Val(b[k]) PROVE Lex(a, b)
  BY <1>1, <1>2, <1>3 DEF Lex
<1>4. ASSUME Lex(a, b) PROVE k <= Len(b) /\ (k > Len(a) \/ Val(a[k]) < Val(b[k]))
  <2>1. PICK i \in 1 .. Len(b) : /\ \A j \in 1 .. i - 1 : j <= Len(a) /\ Val(a[j]) = Val(b[j])
                                 /\ i > Len(a) \/ Val(a[i]) < Val(b[i])
    BY <1>4 DEF Lex
  <2>2. CASE i < k
    <3>1. i \in 1 .. k - 1
      BY <1>2, <2>2
    <3>2. i <= Len(a) /\ Val(a[i]) = Val(b[i]) /\ Val(b[i]) \in Nat
      BY <1>2, <3>1
    <3> QED BY <1>1, <2>1, <3>2
  <2>3. CASE i = k
    BY <2>1, <2>3
  <2>4. CASE k < i
    <3>1. k \in 1 .. i - 1 /\ k <= Len(b)
      BY <1>1, <1>2, <2>4
    <3> QED BY <1>2, <2>1, <3>1
  <2> QED BY <1>1, <1>2, <2>2, <2>3, <2>4
<1>5. ASSUME k > Len(a), k > Len(b) PROVE Alike(a, b)
  <2>1. k = Len(a) + 1
    BY <1>1, <1>2, <1>5
  <2>2. Len(a) = Len(b)
    <3>1. CASE Len(a) = 0
      BY <1>1, <1>5, <2>1, <3>1
    <3>2. CASE Len(a) # 0
      <4>1. Len(a) \in 1 .. k - 1
        BY <1>1, <2>1, <3>2
      <4> QED BY <1>1, <1>2, <1>5, <2>1, <4>1
    <3> QED BY <3>1, <3>2
  <2>3. ASSUME NEW j \in 1 .. Len(a) PROVE Val(a[j]) = Val(b[j])
    <3>1. j \in 1 .. k - 1
      BY <1>1, <2>1
    <3> QED BY <1>2, <3>1
  <2> QED BY <2>2, <2>3 DEF Alike
<1>6. ASSUME Alike(a, b) PROVE k > Len(a) /\ k > Len(b)
  <2>1. Len(a) = Len(b) /\ \A j \in 1 .. Len(a) : Val(a[j]) = Val(b[j])
    BY <1>6 DEF Alike
  <2>2. ASSUME k <= Len(a) PROVE FALSE
    <3>1. k \in 1 .. Len(a)
      BY <1>1, <1>2, <2>2
    <3> QED BY <1>2, <2>1, <2>2, <3>1
  <2> QED BY <1>1, <1>2, <2>1, <2>2
<1> QED BY <1>3, <1>4, <1>5, <1>6
(* The characters of such names.                                           *)
LEMMA PlacedAre ==
  ASSUME NEW s \in PlacedName
  PROVE  /\ s \in Seq(Char) /\ Len(s) \in Nat
         /\ \A k \in 1 .. Len(s) :
              s[k] \in Char /\ Val(s[k]) \in Nat /\ (s[k].bytes > 1 => K!InTable(s[k]) /\ K!Sound(s[k]) # K!Silent)
<1>1. s \in Seq(Char) /\ K!Placed(s)
  BY DEF PlacedName
<1>2. Len(s) \in Nat /\ DOMAIN s = 1 .. Len(s)
  BY <1>1, LenProperties
<1>3. ASSUME NEW k \in 1 .. Len(s)
      PROVE  s[k] \in Char /\ Val(s[k]) \in Nat /\ (s[k].bytes > 1 => K!InTable(s[k]) /\ K!Sound(s[k]) # K!Silent)
  <2>1. s[k] \in Char
    BY <1>1, ElementOfSeq
  <2>2. s[k].bytes > 1 => K!InTable(s[k]) /\ K!Sound(s[k]) # K!Silent
    BY <1>1, <1>2 DEF K!Placed
  <2> PICK c : c = s[k]
    OBVIOUS
  <2>3. Val(c) \in Nat
    BY <2>1, <2>2, CharIs
  <2> QED BY <2>1, <2>2, <2>3
<1> QED BY <1>1, <1>2, <1>3

(* What is left of a name has bytes if it has characters.                  *)
LEMMA LeftOf ==
  ASSUME NEW s \in Seq(Char), NEW k \in Nat, k >= 1
  PROVE  K!Bytes(SubSeq(s, k, Len(s))) \in Nat /\ (K!Bytes(SubSeq(s, k, Len(s))) = 0 <=> k > Len(s))
<1>1. Len(s) \in Nat
  BY LenProperties
<1>2. \A i \in k .. Len(s) : s[i] \in Char
  <2>1. ASSUME NEW i \in k .. Len(s) PROVE s[i] \in Char
    <3>1. i \in 1 .. Len(s)
      BY <1>1
    <3> QED BY <3>1, ElementOfSeq
  <2> QED BY <2>1
<1> PICK r : r = SubSeq(s, k, Len(s))
  OBVIOUS
<1>3. r \in Seq(Char) /\ (Len(r) = 0 <=> k > Len(s))
  BY <1>1, <1>2
<1>4. K!Bytes(r) \in Nat /\ (K!Bytes(r) = 0 <=> Len(r) = 0)
  BY <1>3, BytesAre
<1> QED BY <1>3, <1>4

(* The comparison of the code is that order.                               *)
LEMMA CmpIs ==
  ASSUME NEW a \in PlacedName, NEW b \in PlacedName
  PROVE  K!CmpUtf8(a, b) <=> Lex(a, b)
<1>1. /\ a \in Seq(Char) /\ Len(a) \in Nat
      /\ \A k \in 1 .. Len(a) :
           a[k] \in Char /\ Val(a[k]) \in Nat /\ (a[k].bytes > 1 => K!InTable(a[k]) /\ K!Sound(a[k]) # K!Silent)
  BY PlacedAre
<1>2. /\ b \in Seq(Char) /\ Len(b) \in Nat
      /\ \A k \in 1 .. Len(b) :
           b[k] \in Char /\ Val(b[k]) \in Nat /\ (b[k].bytes > 1 => K!InTable(b[k]) /\ K!Sound(b[k]) # K!Silent)
  BY PlacedAre
<1> DEFINE ended(k) == k > Len(a) \/ k > Len(b)
           next(k) == ~ended(k) /\ K!GoesOn(a[k], b[k])
           IsFirst(k) == ~next(k) /\ \A j \in 1 .. k - 1 : next(j)
           first == CHOOSE k \in 1 .. Len(a) + 1 : IsFirst(k)
<1>3. ASSUME NEW j \in Nat, j >= 1 PROVE next(j) <=> j <= Len(a) /\ j <= Len(b) /\ Val(a[j]) = Val(b[j])
  <2>1. CASE ended(j)
    <3>1. ~next(j)
      BY <2>1
    <3>2. ~(j <= Len(a) /\ j <= Len(b))
      BY <1>1, <1>2, <2>1
    <3> QED BY <3>1, <3>2
  <2>2. CASE ~ended(j)
    <3>0. Len(a) \in Nat /\ Len(b) \in Nat
      BY <1>1, <1>2
    <3>1. j \in 1 .. Len(a) /\ j \in 1 .. Len(b)
      BY <1>3, <2>2, <3>0
    <3> PICK c, d : c = a[j] /\ d = b[j]
      OBVIOUS
    <3>2. /\ c \in Char /\ (c.bytes > 1 => K!InTable(c) /\ K!Sound(c) # K!Silent)
          /\ d \in Char /\ (d.bytes > 1 => K!InTable(d) /\ K!Sound(d) # K!Silent)
      BY <1>1, <1>2, <3>1
    <3>3. K!GoesOn(c, d) <=> Val(c) = Val(d)
      BY <3>2, CharIs
    <3> QED BY <2>2, <3>1, <3>3
  <2> QED BY <2>1, <2>2
<1>4. ASSUME NEW k \in 1 .. Len(a) + 1 PROVE IsFirst(k) <=> FirstOf(a, b, k)
  <2>1. k \in Nat /\ k >= 1 /\ \A j \in 1 .. k - 1 : j \in Nat /\ j >= 1
    BY <1>1
  <2> HIDE DEF next
  <2> QED BY <1>3, <2>1 DEF FirstOf
<1>5. \E k \in 1 .. Len(a) + 1 : IsFirst(k)
  <2>1. PICK k : FirstOf(a, b, k)
    BY <1>1, <1>2, FirstIs
  <2>2. k \in 1 .. Len(a) + 1
    BY <2>1 DEF FirstOf
  <2> HIDE DEF IsFirst
  <2> QED BY <1>4, <2>1, <2>2
<1>6. first \in 1 .. Len(a) + 1 /\ IsFirst(first)
  <2> HIDE DEF IsFirst
  <2> QED BY <1>5
<1>7. K!CmpUtf8(a, b) <=>
        IF ended(first) THEN K!Shorter(SubSeq(a, first, Len(a)), SubSeq(b, first, Len(b)))
        ELSE IF a[first].bytes = 1 /\ b[first].bytes = 1 /\ a[first] # b[first] THEN a[first].key < b[first].key
        ELSE IF a[first].bytes = 1 /\ b[first].bytes > 1 THEN TRUE
        ELSE IF K!InTable(a[first]) # K!InTable(b[first]) THEN K!InTable(b[first])
        ELSE IF ~K!InTable(a[first]) THEN K!Coll(SubSeq(a, first, Len(a)), SubSeq(b, first, Len(b)))
        ELSE K!Sound(a[first]) < K!Sound(b[first])
  BY DEF K!CmpUtf8
<1> HIDE DEF first
<1> PICK k : k = first
  OBVIOUS
<1>8. FirstOf(a, b, k) /\ k \in Nat /\ k >= 1
  <2> HIDE DEF IsFirst
  <2> QED BY <1>1, <1>4, <1>6
<1>9. Lex(a, b) <=> k <= Len(b) /\ (k > Len(a) \/ Val(a[k]) < Val(b[k]))
  BY <1>1, <1>2, <1>8, LexIs
<1>10. CASE ended(k)
  <2> PICK ra, rb : ra = K!Bytes(SubSeq(a, k, Len(a))) /\ rb = K!Bytes(SubSeq(b, k, Len(b)))
    OBVIOUS
  <2>1. ra \in Nat /\ (ra = 0 <=> k > Len(a))
    BY <1>1, <1>8, LeftOf
  <2>2. rb \in Nat /\ (rb = 0 <=> k > Len(b))
    BY <1>2, <1>8, LeftOf
  <2>3. K!CmpUtf8(a, b) <=> ra < rb
    <3>1. K!CmpUtf8(a, b) <=> K!Shorter(SubSeq(a, k, Len(a)), SubSeq(b, k, Len(b)))
      BY <1>7, <1>10
    <3> QED BY <3>1 DEF K!Shorter
  <2>4. ra < rb <=> k <= Len(b) /\ (k > Len(a) \/ Val(a[k]) < Val(b[k]))
    <3>1. k > Len(a) \/ k > Len(b)
      BY <1>10
    <3>2. CASE k > Len(a)
      BY <1>1, <1>2, <1>8, <2>1, <2>2, <3>2
    <3>3. CASE ~(k > Len(a))
      BY <1>1, <1>2, <1>8, <2>1, <2>2, <3>1, <3>3
    <3> QED BY <3>2, <3>3
  <2> QED BY <1>9, <2>3, <2>4
<1>11. CASE ~ended(k)
  <2> PICK c, d : c = a[k] /\ d = b[k]
    OBVIOUS
  <2>1. k \in 1 .. Len(a) /\ k \in 1 .. Len(b)
    BY <1>1, <1>2, <1>8, <1>11
  <2>2. /\ c \in Char /\ (c.bytes > 1 => K!InTable(c) /\ K!Sound(c) # K!Silent)
        /\ d \in Char /\ (d.bytes > 1 => K!InTable(d) /\ K!Sound(d) # K!Silent)
    BY <1>1, <1>2, <2>1
  <2>3. Val(c) # Val(d)
    BY <1>8, <2>1 DEF FirstOf
  <2>4. /\ K!InTable(c) /\ K!InTable(d)
        /\ Val(c) # Val(d) =>
             ((IF c.bytes = 1 /\ d.bytes = 1 /\ c # d THEN c.key < d.key
               ELSE IF c.bytes = 1 /\ d.bytes > 1 THEN TRUE
               ELSE K!Sound(c) < K!Sound(d)) <=> Val(c) < Val(d))
    BY <2>2, CharIs
  <2>5. ~(K!InTable(c) # K!InTable(d))
    BY <2>4 DEF K!InTable
  <2>6. K!CmpUtf8(a, b) <=>
          IF c.bytes = 1 /\ d.bytes = 1 /\ c # d THEN c.key < d.key
          ELSE IF c.bytes = 1 /\ d.bytes > 1 THEN TRUE
          ELSE K!Sound(c) < K!Sound(d)
    BY <1>7, <1>11, <2>4, <2>5
  <2>7. Lex(a, b) <=> Val(c) < Val(d)
    BY <1>1, <1>2, <1>8, <1>9, <2>1
  <2> QED BY <2>3, <2>4, <2>6, <2>7
<1> QED BY <1>10, <1>11

(* Such an order is one: of two names at most one comes first, and it goes *)
(* on from name to name.                                                   *)
LEMMA LexOrders ==
  ASSUME NEW a \in PlacedName, NEW b \in PlacedName, NEW c \in PlacedName
  PROVE  /\ ~(Lex(a, b) /\ Lex(b, a))
         /\ Alike(a, b) <=> ~Lex(a, b) /\ ~Lex(b, a)
         /\ Lex(a, b) /\ Lex(b, c) => Lex(a, c)
         /\ Alike(a, b) /\ Alike(b, c) => Alike(a, c)
<1>1. /\ a \in Seq(Char) /\ Len(a) \in Nat /\ (\A k \in 1 .. Len(a) : Val(a[k]) \in Nat)
      /\ b \in Seq(Char) /\ Len(b) \in Nat /\ (\A k \in 1 .. Len(b) : Val(b[k]) \in Nat)
      /\ c \in Seq(Char) /\ Len(c) \in Nat /\ (\A k \in 1 .. Len(c) : Val(c[k]) \in Nat)
  BY PlacedAre
<1>2. ~(Lex(a, b) /\ Lex(b, a)) /\ (Alike(a, b) <=> ~Lex(a, b) /\ ~Lex(b, a))
  <2>1. PICK k : FirstOf(a, b, k)
    BY <1>1, FirstIs
  <2>2. FirstOf(b, a, k) /\ k \in 1 .. Len(a) + 1
    <3>1. k \in 1 .. Len(a) + 1 /\ \A j \in 1 .. k - 1 : j <= Len(a) /\ j <= Len(b) /\ Val(a[j]) = Val(b[j])
      BY <2>1 DEF FirstOf
    <3>2. k \in 1 .. Len(b) + 1
      <4>1. CASE k = 1
        BY <1>1, <4>1
      <4>2. CASE k # 1
        <5>1. k - 1 \in 1 .. k - 1 /\ k \in Nat
          BY <1>1, <3>1, <4>2
        <5> QED BY <1>1, <3>1, <5>1
      <4> QED BY <4>1, <4>2
    <3> QED BY <2>1, <3>1, <3>2 DEF FirstOf
  <2>3. /\ Lex(a, b) <=> k <= Len(b) /\ (k > Len(a) \/ Val(a[k]) < Val(b[k]))
        /\ Alike(a, b) <=> k > Len(a) /\ k > Len(b)
    BY <1>1, <2>1, LexIs
  <2>4. Lex(b, a) <=> k <= Len(a) /\ (k > Len(b) \/ Val(b[k]) < Val(a[k]))
    BY <1>1, <2>2, LexIs
  <2>5. k \in Nat /\ k >= 1 /\ ~(k <= Len(a) /\ k <= Len(b) /\ Val(a[k]) = Val(b[k]))
    BY <1>1, <2>1, <2>2 DEF FirstOf
  <2>6. k <= Len(a) => Val(a[k]) \in Nat
    BY <1>1, <2>5
  <2>7. k <= Len(b) => Val(b[k]) \in Nat
    BY <1>1, <2>5
  <2> QED BY <1>1, <2>3, <2>4, <2>5, <2>6, <2>7
<1>3. ASSUME Lex(a, b), Lex(b, c) PROVE Lex(a, c)
  <2>1. PICK i \in 1 .. Len(b) : /\ \A j \in 1 .. i - 1 : j <= Len(a) /\ Val(a[j]) = Val(b[j])
                                 /\ i > Len(a) \/ Val(a[i]) < Val(b[i])
    BY <1>3 DEF Lex
  <2>2. PICK k \in 1 .. Len(c) : /\ \A j \in 1 .. k - 1 : j <= Len(b) /\ Val(b[j]) = Val(c[j])
                                 /\ k > Len(b) \/ Val(b[k]) < Val(c[k])
    BY <1>3 DEF Lex
  <2>3. CASE i < k
    <3>1. i \in 1 .. k - 1 /\ i \in 1 .. Len(c)
      BY <1>1, <2>3
    <3>2. Val(b[i]) = Val(c[i])
      BY <2>2, <3>1
    <3>3. ASSUME NEW j \in 1 .. i - 1 PROVE j <= Len(a) /\ Val(a[j]) = Val(c[j])
      <4>1. j \in 1 .. k - 1
        BY <1>1, <2>3
      <4> QED BY <2>1, <2>2, <4>1
    <3>4. i > Len(a) \/ Val(a[i]) < Val(c[i])
      BY <2>1, <3>2
    <3> QED BY <3>1, <3>3, <3>4 DEF Lex
  <2>4. CASE ~(i < k)
    <3>1. k \in 1 .. i /\ k <= Len(b) /\ k \in 1 .. Len(b)
      BY <1>1, <2>4
    <3>2. Val(b[k]) < Val(c[k])
      BY <1>1, <2>2, <3>1
    <3>3. ASSUME NEW j \in 1 .. k - 1 PROVE j <= Len(a) /\ Val(a[j]) = Val(c[j])
      <4>1. j \in 1 .. i - 1
        BY <1>1, <2>4
      <4> QED BY <2>1, <2>2, <4>1
    <3>4. k > Len(a) \/ Val(a[k]) < Val(c[k])
      <4>1. CASE k = i
        <5>1. k > Len(a) \/ (k \in 1 .. Len(a) /\ Val(a[k]) < Val(b[k]))
          BY <1>1, <2>1, <4>1
        <5>2. k \in 1 .. Len(a) => Val(a[k]) \in Nat
          BY <1>1
        <5>3. Val(b[k]) \in Nat /\ Val(c[k]) \in Nat
          BY <1>1, <3>1
        <5> QED BY <3>2, <5>1, <5>2, <5>3
      <4>2. CASE k # i
        <5>1. k \in 1 .. i - 1
          BY <1>1, <3>1, <4>2
        <5> QED BY <2>1, <3>2, <5>1
      <4> QED BY <4>1, <4>2
    <3> QED BY <3>3, <3>4 DEF Lex
  <2> QED BY <1>1, <2>3, <2>4
<1>4. ASSUME Alike(a, b), Alike(b, c) PROVE Alike(a, c)
  BY <1>4 DEF Alike
<1> QED BY <1>2, <1>3, <1>4
(* A name is put before the first that comes later.                        *)
PutAt(r, s, n, i) ==
  /\ r[i] = n
  /\ \A j \in 1 .. i - 1 : r[j] = s[j] /\ ~K!CmpUtf8(n, s[j])
  /\ \A j \in i .. Len(s) : r[j + 1] = s[j]
  /\ i <= Len(s) => K!CmpUtf8(n, s[i])

LEMMA InsertedIs ==
  ASSUME NEW W, NEW s \in Seq(W), NEW n \in W
  PROVE  /\ K!Inserted(s, n) \in Seq(W) /\ Len(K!Inserted(s, n)) = Len(s) + 1
         /\ \E i \in 1 .. Len(s) + 1 : PutAt(K!Inserted(s, n), s, n, i)
<1> DEFINE later == {k \in DOMAIN s : K!CmpUtf8(n, s[k])}
<1>1. Len(s) \in Nat /\ DOMAIN s = 1 .. Len(s)
  BY LenProperties
<1> PICK r : r = K!Inserted(s, n)
  OBVIOUS
<1>2. CASE later = {}
  <2>1. r = Append(s, n)
    BY <1>2 DEF K!Inserted
  <2>2. r \in Seq(W) /\ Len(r) = Len(s) + 1 /\ r[Len(s) + 1] = n /\ \A j \in 1 .. Len(s) : r[j] = s[j]
    BY <1>1, <2>1
  <2>3. \A j \in 1 .. Len(s) : ~K!CmpUtf8(n, s[j])
    BY <1>1, <1>2
  <2>4. Len(s) + 1 \in 1 .. Len(s) + 1 /\ (Len(s) + 1) - 1 = Len(s) /\ (Len(s) + 1) .. Len(s) = {} /\ ~(Len(s) + 1 <= Len(s))
    BY <1>1
  <2> HIDE DEF later
  <2>5. PutAt(r, s, n, Len(s) + 1)
    BY <2>2, <2>3, <2>4 DEF PutAt
  <2> QED BY <2>2, <2>4, <2>5
<1>3. CASE later # {}
  <2> DEFINE i == CHOOSE k \in later : \A j \in later : k <= j
  <2>1. r = SubSeq(s, 1, i - 1) \o <<n>> \o SubSeq(s, i, Len(s))
    BY <1>3 DEF K!Inserted
  <2>2. i \in later /\ \A j \in later : i <= j
    <3>1. later \subseteq Nat
      BY <1>1
    <3> HIDE DEF later
    <3>2. \E k \in later : \A j \in later : k <= j
      BY <1>3, <3>1, SmallestOf
    <3> QED BY <3>2
  <2> HIDE DEF i
  <2>3. i \in 1 .. Len(s)
    BY <1>1, <2>2
  <2>4. K!CmpUtf8(n, s[i])
    BY <2>2
  <2>5. ASSUME NEW j \in 1 .. i - 1 PROVE ~K!CmpUtf8(n, s[j])
    <3>1. j \in 1 .. Len(s) /\ ~(i <= j)
      BY <1>1, <2>3
    <3>2. j \notin later
      <4> HIDE DEF later
      <4> QED BY <2>2, <3>1
    <3> QED BY <1>1, <3>1, <3>2
  <2> HIDE DEF later
  <2>6. r = SubSeq(s, 1, i - 1) \o <<n>> \o SubSeq(s, i, Len(s))
    BY <2>1
  <2> PICK p, q : p = SubSeq(s, 1, i - 1) /\ q = SubSeq(s, i, Len(s))
    OBVIOUS
  <2>7. p \in Seq(W) /\ Len(p) = i - 1 /\ \A j \in 1 .. i - 1 : p[j] = s[j]
    <3>1. \A j \in 1 .. i - 1 : s[j] \in W
      <4>1. \A j \in 1 .. i - 1 : j \in 1 .. Len(s)
        BY <1>1, <2>3
      <4> QED BY <4>1, ElementOfSeq
    <3>2. p \in Seq(W) /\ Len(p) = IF 1 <= i - 1 THEN (i - 1) - 1 + 1 ELSE 0
      BY <1>1, <2>3, <3>1, SubSeqProperties
    <3>3. Len(p) = i - 1
      BY <1>1, <2>3, <3>2
    <3>4. ASSUME NEW j \in 1 .. i - 1 PROVE p[j] = s[j]
      BY <1>1, <2>3
    <3> QED BY <3>2, <3>3, <3>4
  <2>8. q \in Seq(W) /\ Len(q) = Len(s) - i + 1 /\ \A j \in 1 .. Len(s) - i + 1 : q[j] = s[i + j - 1]
    <3>1. \A j \in i .. Len(s) : s[j] \in W
      <4>1. \A j \in i .. Len(s) : j \in 1 .. Len(s)
        BY <1>1, <2>3
      <4> QED BY <4>1, ElementOfSeq
    <3>2. q \in Seq(W)
      BY <1>1, <2>3, <3>1
    <3>3. Len(q) = Len(s) - i + 1
      BY <1>1, <2>3
    <3>4. ASSUME NEW j \in 1 .. Len(s) - i + 1 PROVE q[j] = s[i + j - 1]
      BY <1>1, <2>3
    <3> QED BY <3>2, <3>3, <3>4
  <2> PICK m : m = p \o <<n>>
    OBVIOUS
  <2>9. m \in Seq(W) /\ Len(m) = i /\ m[i] = n /\ \A j \in 1 .. i - 1 : m[j] = p[j]
    BY <1>1, <2>3, <2>7
  <2>10. r = m \o q
    BY <2>6
  <2>15. /\ r \in Seq(W) /\ Len(r) = Len(m) + Len(q)
         /\ \A j \in 1 .. Len(m) + Len(q) : r[j] = IF j <= Len(m) THEN m[j] ELSE q[j - Len(m)]
    <3>1. m \in Seq(W) /\ q \in Seq(W)
      BY <2>8, <2>9
    <3>2. /\ m \o q \in Seq(W) /\ Len(m \o q) = Len(m) + Len(q)
          /\ \A j \in 1 .. Len(m) + Len(q) : (m \o q)[j] = IF j <= Len(m) THEN m[j] ELSE q[j - Len(m)]
      BY <3>1, ConcatProperties
    <3> QED BY <2>10, <3>2
  <2>16. Len(m) + Len(q) = Len(s) + 1 /\ i \in Nat
    BY <1>1, <2>3, <2>8, <2>9
  <2>17. /\ \A j \in 1 .. i : r[j] = m[j]
         /\ \A j \in i + 1 .. Len(s) + 1 : r[j] = q[j - i]
    <3> PICK t, u : t = Len(m) + Len(q) /\ u = Len(m)
      OBVIOUS
    <3>1. t = Len(s) + 1 /\ u = i /\ i \in 1 .. Len(s)
      BY <2>3, <2>9, <2>16
    <3>2. \A j \in 1 .. t : r[j] = IF j <= u THEN m[j] ELSE q[j - u]
      BY <2>15
    <3>3. \A j \in 1 .. i : j \in 1 .. t /\ j <= u
      BY <1>1, <3>1
    <3>4. \A j \in i + 1 .. Len(s) + 1 : j \in 1 .. t /\ ~(j <= u)
      BY <1>1, <3>1
    <3> QED BY <3>1, <3>2, <3>3, <3>4
  <2>11. r \in Seq(W) /\ Len(r) = Len(s) + 1 /\ r[i] = n
    BY <1>1, <2>3, <2>9, <2>15, <2>16, <2>17
  <2>12. ASSUME NEW j \in 1 .. i - 1 PROVE r[j] = s[j]
    <3>1. j \in 1 .. i
      BY <2>16
    <3> QED BY <2>7, <2>9, <2>17, <3>1
  <2>13. ASSUME NEW j \in i .. Len(s) PROVE r[j + 1] = s[j]
    <3>1. j + 1 - i \in 1 .. Len(s) - i + 1 /\ j \in Nat
      BY <1>1, <2>3
    <3>2. r[j + 1] = q[j + 1 - i]
      <4>1. j + 1 \in i + 1 .. Len(s) + 1
        BY <1>1, <2>16
      <4>2. r[j + 1] = q[(j + 1) - i]
        BY <2>17, <4>1
      <4>3. (j + 1) - i = j + 1 - i
        BY <1>1, <2>3
      <4> QED BY <4>2, <4>3
    <3>3. q[j + 1 - i] = s[i + (j + 1 - i) - 1]
      BY <2>8, <3>1
    <3>4. i + (j + 1 - i) - 1 = j
      BY <1>1, <2>3
    <3> QED BY <3>2, <3>3, <3>4
  <2>14. i \in 1 .. Len(s) + 1
    BY <1>1, <2>3
  <2>18. PutAt(r, s, n, i)
    BY <2>4, <2>5, <2>11, <2>12, <2>13 DEF PutAt
  <2> QED BY <2>11, <2>14, <2>18
<1> QED BY <1>2, <1>3

(* Names in order: none comes before the one it follows.                   *)
InOrder(s) == \A j \in 1 .. Len(s) - 1 : ~K!CmpUtf8(s[j + 1], s[j])

LEMMA StaysInOrder ==
  ASSUME NEW s, s \in Seq(PlacedName), InOrder(s), NEW n \in PlacedName
  PROVE  K!Inserted(s, n) \in Seq(PlacedName) /\ InOrder(K!Inserted(s, n))
<1> PICK r : r = K!Inserted(s, n)
  OBVIOUS
<1>1. r \in Seq(PlacedName) /\ Len(r) = Len(s) + 1 /\ Len(s) \in Nat
  BY InsertedIs, LenProperties
<1>2. PICK i \in 1 .. Len(s) + 1 :
        /\ r[i] = n
        /\ \A j \in 1 .. i - 1 : r[j] = s[j] /\ ~K!CmpUtf8(n, s[j])
        /\ \A j \in i .. Len(s) : r[j + 1] = s[j]
        /\ i <= Len(s) => K!CmpUtf8(n, s[i])
  <2>1. \E i \in 1 .. Len(s) + 1 : PutAt(K!Inserted(s, n), s, n, i)
    BY InsertedIs
  <2> QED BY <2>1 DEF PutAt
<1>3. ASSUME NEW j \in 1 .. Len(r) - 1 PROVE ~K!CmpUtf8(r[j + 1], r[j])
  <2>1. j \in 1 .. Len(s) /\ j + 1 \in 1 .. Len(r) /\ i \in Nat
    BY <1>1
  <2>2. CASE j + 1 < i
    <3>1. j \in 1 .. i - 1 /\ j + 1 \in 1 .. i - 1 /\ j \in 1 .. Len(s) - 1
      BY <1>1, <2>1, <2>2
    <3>2. r[j] = s[j] /\ r[j + 1] = s[j + 1]
      BY <1>2, <3>1
    <3> QED BY <3>1, <3>2 DEF InOrder
  <2>3. CASE j + 1 = i
    <3>1. j \in 1 .. i - 1
      BY <2>1, <2>3
    <3> QED BY <1>2, <2>3, <3>1
  <2>4. CASE j = i
    <3>1. j \in i .. Len(s) /\ i <= Len(s)
      BY <2>1, <2>4
    <3>2. r[j] = n /\ r[j + 1] = s[i] /\ K!CmpUtf8(n, s[i])
      BY <1>2, <2>4, <3>1
    <3>3. s[i] \in PlacedName
      BY <2>1, <2>4, ElementOfSeq
    <3>4. K!CmpUtf8(n, s[i]) <=> Lex(n, s[i])
      BY <3>3, CmpIs
    <3>5. K!CmpUtf8(s[i], n) <=> Lex(s[i], n)
      BY <3>3, CmpIs
    <3>6. ~(Lex(n, s[i]) /\ Lex(s[i], n))
      BY <3>3, LexOrders
    <3> QED BY <3>2, <3>4, <3>5, <3>6
  <2>5. CASE j > i
    <3>1. j \in i .. Len(s) /\ j - 1 \in i .. Len(s) /\ (j - 1) + 1 = j /\ j - 1 \in 1 .. Len(s) - 1
      BY <1>1, <2>1, <2>5
    <3>2. r[j + 1] = s[(j - 1) + 1] /\ r[j] = s[j - 1]
      BY <1>2, <3>1
    <3> QED BY <3>1, <3>2 DEF InOrder
  <2> QED BY <2>1, <2>2, <2>3, <2>4, <2>5
<1>4. InOrder(r)
  BY <1>3 DEF InOrder
<1> QED BY <1>1, <1>4

(* Three names, and they are in order once they have been sorted.          *)
CollInv ==
  /\ names \in Seq(Seq(Char)) /\ Len(names) = 3
  /\ sorted \in BOOLEAN
  /\ sorted /\ (\A i \in 1 .. 3 : K!Placed(names[i])) => InOrder(names)

(* What may have been told to be sorted is.                                *)
LEMMA CollationStarts == K!Init => CollInv
<1> SUFFICES ASSUME K!Init PROVE CollInv
  OBVIOUS
<1>1. names \in [1 .. 3 -> K!Name] /\ sorted = FALSE
  BY DEF K!Init
<1>2. K!Name \subseteq Seq(Char)
  <2>1. MaxLength \in Nat
    BY CharAssumption
  <2>2. ASSUME NEW n \in K!Name PROVE n \in Seq(Char)
    <3>1. PICK k \in 0 .. MaxLength : n \in [1 .. k -> Char]
      BY DEF K!Name
    <3>2. k \in Nat
      BY <2>1
    <3> QED BY <3>1, <3>2
  <2> QED BY <2>2
<1>3. names \in [1 .. 3 -> Seq(Char)]
  BY <1>1, <1>2
<1>4. names \in Seq(Seq(Char)) /\ Len(names) = 3
  <2> DEFINE S == Seq(Char)
  <2> HIDE DEF S
  <2>1. names \in [1 .. 3 -> S]
    BY <1>3 DEF S
  <2>3. names \in Seq(S)
    <3>1. 3 \in Nat
      OBVIOUS
    <3> QED BY <2>1, <3>1, SeqDef
  <2>4. Len(names) \in Nat /\ 1 .. Len(names) = 1 .. 3
    BY <2>1, <2>3, LenProperties
  <2>2. names \in Seq(S) /\ Len(names) = 3
    <3> PICK n : n = Len(names)
      OBVIOUS
    <3>1. n \in Nat /\ 1 .. n = 1 .. 3
      BY <2>4
    <3>2. n = 3
      <4>1. 3 \in 1 .. 3 /\ n + 1 \notin 1 .. n
        BY <3>1
      <4>2. 3 \in 1 .. n /\ n + 1 \notin 1 .. 3
        BY <3>1, <4>1
      <4> QED BY <3>1, <4>2
    <3> QED BY <2>3, <3>2
  <2> QED BY <2>2 DEF S
<1> QED BY <1>1, <1>4 DEF CollInv

(* Sorting puts them in order.                                             *)
LEMMA CollationSteps == CollInv /\ K!Next => CollInv'
<1> SUFFICES ASSUME CollInv, K!Next PROVE CollInv'
  OBVIOUS
<1>1. sorted' = TRUE /\ names' = K!Inserted(K!Inserted(<<names[1]>>, names[2]), names[3])
  BY DEF K!Next, K!Sort
<1>2. names \in Seq(Seq(Char)) /\ Len(names) = 3
  BY DEF CollInv
<1> DEFINE S == Seq(Char)
<1> HIDE DEF S
<1>3. names[1] \in S /\ names[2] \in S /\ names[3] \in S
  BY <1>2, ElementOfSeq DEF S
<1> PICK a, b, c : a = names[1] /\ b = names[2] /\ c = names[3]
  OBVIOUS
<1> PICK one : one = <<a>>
  OBVIOUS
<1> PICK two : two = K!Inserted(one, b)
  OBVIOUS
<1> PICK all3 : all3 = K!Inserted(two, c)
  OBVIOUS
<1>4. names' = all3
  BY <1>1
<1>5. one \in Seq(S) /\ Len(one) = 1 /\ one[1] = a
  BY <1>3
<1>a. b \in S /\ c \in S
  BY <1>3
<1>b. /\ two \in Seq(S) /\ Len(two) = Len(one) + 1
      /\ \E i \in 1 .. Len(one) + 1 : PutAt(two, one, b, i)
  <2>1. one \in Seq(S) /\ b \in S
    BY <1>5, <1>a
  <2>2. /\ K!Inserted(one, b) \in Seq(S) /\ Len(K!Inserted(one, b)) = Len(one) + 1
        /\ \E i \in 1 .. Len(one) + 1 : PutAt(K!Inserted(one, b), one, b, i)
    BY <2>1, InsertedIs
  <2> QED BY <2>2
<1>6. two \in Seq(S) /\ Len(two) = 2
  BY <1>5, <1>b
<1>c. /\ all3 \in Seq(S) /\ Len(all3) = Len(two) + 1
      /\ \E i \in 1 .. Len(two) + 1 : PutAt(all3, two, c, i)
  <2>1. two \in Seq(S) /\ c \in S
    BY <1>6, <1>a
  <2>2. /\ K!Inserted(two, c) \in Seq(S) /\ Len(K!Inserted(two, c)) = Len(two) + 1
        /\ \E i \in 1 .. Len(two) + 1 : PutAt(K!Inserted(two, c), two, c, i)
    BY <2>1, InsertedIs
  <2> QED BY <2>2
<1>7. all3 \in Seq(S) /\ Len(all3) = 3
  <2>1. Len(all3) = Len(two) + 1 /\ Len(two) = 2
    BY <1>6, <1>c
  <2>2. 2 + 1 = 3
    OBVIOUS
  <2>3. Len(all3) = 3
    BY <2>1, <2>2
  <2> QED BY <1>c, <2>3
<1>8. ASSUME \A i \in 1 .. 3 : K!Placed(all3[i]) PROVE InOrder(all3)
  <2>1. \E i \in 1 .. 2 :
          /\ two[i] = b
          /\ \A j \in 1 .. i - 1 : two[j] = one[j]
          /\ \A j \in i .. 1 : two[j + 1] = one[j]
    BY <1>5, <1>b DEF PutAt
  <2>2. \E i \in 1 .. 3 :
          /\ all3[i] = c
          /\ \A j \in 1 .. i - 1 : all3[j] = two[j]
          /\ \A j \in i .. 2 : all3[j + 1] = two[j]
    BY <1>6, <1>c DEF PutAt
  <2>3. \E k \in 1 .. 3 : all3[k] = c
    BY <2>2
  <2>4. ASSUME NEW m \in 1 .. 2 PROVE \E k \in 1 .. 3 : all3[k] = two[m]
    BY <2>2
  <2>5. \E k \in 1 .. 2 : two[k] = b
    BY <2>1
  <2>6. \E k \in 1 .. 2 : two[k] = a
    BY <1>5, <2>1
  <2>7. K!Placed(a) /\ K!Placed(b) /\ K!Placed(c)
    BY <1>8, <2>3, <2>4, <2>5, <2>6
  <2>8. a \in PlacedName /\ b \in PlacedName /\ c \in PlacedName
    BY <1>3, <2>7 DEF PlacedName, S
  <2>9. one \in Seq(PlacedName) /\ InOrder(one)
    BY <2>8 DEF InOrder
  <2>10. two \in Seq(PlacedName) /\ InOrder(two)
    BY <2>8, <2>9, StaysInOrder
  <2> QED BY <2>8, <2>10, StaysInOrder
<1>9. (\A i \in 1 .. 3 : K!Placed(all3[i])) => InOrder(all3)
  BY <1>8
<1>10. (names \in Seq(Seq(Char)) /\ Len(names) = 3)'
  BY <1>4, <1>7 DEF S
<1>11. (sorted \in BOOLEAN)'
  BY <1>1
<1>12. (sorted /\ (\A i \in 1 .. 3 : K!Placed(names[i])) => InOrder(names))'
  BY <1>4, <1>9 DEF InOrder
<1> QED BY <1>10, <1>11, <1>12 DEF CollInv

(* Then the order is one, and they are in it.                              *)
LEMMA CollationHolds == CollInv => K!CollateInv
<1> SUFFICES ASSUME CollInv, \A i \in 1 .. 3 : K!Placed(names[i])
             PROVE  LET lt(i, j) == K!CmpUtf8(names[i], names[j])
                        same(i, j) == ~lt(i, j) /\ ~lt(j, i) IN
                    /\ \A i, j \in 1 .. 3 : ~(lt(i, j) /\ lt(j, i))
                    /\ lt(1, 2) /\ lt(2, 3) => lt(1, 3)
                    /\ same(1, 2) /\ same(2, 3) => same(1, 3)
                    /\ sorted => ~lt(2, 1) /\ ~lt(3, 2)
  BY DEF K!CollateInv
<1> DEFINE S == Seq(Char)
<1> HIDE DEF S
<1>1. \A i \in 1 .. 3 : names[i] \in PlacedName
  <2>1. names \in Seq(S) /\ Len(names) = 3
    BY DEF CollInv, S
  <2>2. \A i \in 1 .. 3 : names[i] \in S
    BY <2>1, ElementOfSeq
  <2> QED BY <2>2 DEF PlacedName, S
<1>2. \A i, j \in 1 .. 3 : K!CmpUtf8(names[i], names[j]) <=> Lex(names[i], names[j])
  BY <1>1, CmpIs
<1>3. \A i, j \in 1 .. 3 : ~(Lex(names[i], names[j]) /\ Lex(names[j], names[i]))
  BY <1>1, LexOrders
<1>4. \A i, j \in 1 .. 3 :
        Alike(names[i], names[j]) <=> ~Lex(names[i], names[j]) /\ ~Lex(names[j], names[i])
  BY <1>1, LexOrders
<1>5. Lex(names[1], names[2]) /\ Lex(names[2], names[3]) => Lex(names[1], names[3])
  BY <1>1, LexOrders
<1>6. Alike(names[1], names[2]) /\ Alike(names[2], names[3]) => Alike(names[1], names[3])
  BY <1>1, LexOrders
<1>7. sorted => ~K!CmpUtf8(names[2], names[1]) /\ ~K!CmpUtf8(names[3], names[2])
  <2>1. sorted => InOrder(names) /\ Len(names) = 3
    BY DEF CollInv
  <2>2. 1 \in 1 .. 3 - 1 /\ 2 \in 1 .. 3 - 1 /\ 1 + 1 = 2 /\ 2 + 1 = 3
    OBVIOUS
  <2> QED BY <2>1, <2>2 DEF InOrder
<1>8. 1 \in 1 .. 3 /\ 2 \in 1 .. 3 /\ 3 \in 1 .. 3
  OBVIOUS
<1> QED BY <1>2, <1>3, <1>4, <1>5, <1>6, <1>7, <1>8

-----------------------------------------------------------------------------
(* The parts in one specification.                                         *)

PartInv ==
  /\ part = "media" => MediaInv
  /\ part = "plugins" => FinderInv
  /\ part = "tags" => EditorInv
  /\ part = "signal" => SignalInv
  /\ part = "cli" => PlayInv
  /\ part = "options" => DialogsInv
  /\ part = "views" => LayoutInv /\ DrawnInv /\ KnowsInv
  /\ part = "window" => ViewInv
  /\ part = "explorer" => ExploredInv
  /\ part = "collation" => CollInv

(* A step that leaves a part alone leaves its invariant alone.             *)
LEMMA PartStays == PartInv /\ UNCHANGED all => PartInv'
<1> SUFFICES ASSUME PartInv, UNCHANGED all PROVE PartInv'
  OBVIOUS
<1>1. /\ part' = part /\ UNCHANGED media /\ UNCHANGED plugins /\ UNCHANGED editor
      /\ UNCHANGED signal /\ UNCHANGED cli /\ UNCHANGED options
      /\ UNCHANGED views /\ UNCHANGED view /\ UNCHANGED explorer /\ UNCHANGED collation
  BY DEF all
<1>2. ASSUME MediaInv PROVE MediaInv'
  <2>1. UNCHANGED <<locked, self, pc, loaded, reading, loads, loading, mingled, crashed>>
    BY <1>1 DEF media
  <2>2. MediaTypes'
    BY <1>2, <2>1 DEF MediaInv, MediaTypes, M!Path, M!Steps, Row, Texts
  <2>3. AloneInv'
    BY <1>2, <2>1 DEF MediaInv, AloneInv, M!Closed, M!Loading, M!Steps
  <2>4. \A t : Asked(t)' = Asked(t)
    BY <2>1 DEF Asked, M!TryUnpack, M!DumpFile
  <2>5. AskedInv'
    BY <1>2, <2>1, <2>4 DEF MediaInv, AskedInv
  <2>6. ListInv'
    BY <1>2, <2>1, <2>4 DEF MediaInv, ListInv, OwnList, ItemInv, TitleOwn, ArtistOwn, TagIn, M!Own, M!Closed
  <2> QED BY <2>2, <2>3, <2>5, <2>6 DEF MediaInv
<1>3. ASSUME FinderInv PROVE FinderInv'
  <2>1. UNCHANGED <<fifo, probes, decoders, output, conv, tags, parsers, counts, stage>>
    BY <1>1 DEF plugins
  <2>2. FinderTypes'
    BY <1>3, <2>1 DEF FinderInv, FinderTypes, P!Keys, P!AllSuffix, P!AllEncoding, Owners
  <2>3. TablesInv'
    BY <1>3, <2>1 DEF FinderInv, TablesInv, P!Keys, P!AllSuffix, P!AllEncoding, P!Good, KeysOf
  <2>4. FoundInv'
    BY <1>3, <2>1 DEF FinderInv, FoundInv, Placed, P!Good, KeysOf, Ways, Pending
  <2> QED BY <1>3, <2>1, <2>2, <2>3, <2>4 DEF FinderInv
<1>4. ASSUME EditorInv PROVE EditorInv'
  <2>1. UNCHANGED <<disk, mem, item, text, unsaved, shown, rows, failed, restored>>
    BY <1>1 DEF editor
  <2>2. TagsTypes'
    BY <1>4, <2>1 DEF EditorInv, TagsTypes, T!Tag, PicType
  <2>3. EditedInv' /\ T!CopiesAgree'
    BY <1>4, <2>1 DEF EditorInv, EditedInv, T!CopiesAgree, T!NoFile, T!NoTag, T!Tag
  <2>4. FrontInv' /\ ShownInv'
    BY <1>4, <2>1 DEF EditorInv, FrontInv, ShownInv, CoversOnly, T!FrontOnly, T!DumpCover
  <2> QED BY <2>2, <2>3, <2>4 DEF EditorInv
<1>5. ASSUME SignalInv PROVE SignalInv'
  <2>1. UNCHANGED <<guarded, slots, emitting, called, erased, left, astray>>
    BY <1>1 DEF signal
  <2>2. SignalTypes'
    BY <1>5, <2>1 DEF SignalInv, SignalTypes, Slot, G!Function, G!Idle
  <2>3. Distinct(slots)' /\ G!NobodyGone' /\ CalledInv'
    BY <1>5, <2>1 DEF SignalInv, Distinct, G!NobodyGone, G!Range, CalledInv
  <2> QED BY <2>2, <2>3 DEF SignalInv
<1>6. ASSUME PlayInv PROVE PlayInv'
  <2>0. UNCHANGED cli
    BY <1>1
  <2>1. UNCHANGED <<main, context, playerQuit, repeat, order, position, playing, finishers, listed, played, unset, fault>>
    BY <2>0 DEF cli
  <2>2. CliTypes' /\ OneChooses' /\ QuitInv'
    BY <1>6, <2>1 DEF PlayInv, CliTypes, OneChooses, QuitInv, C!Repeating
  <2>3. PlaceInv' /\ C!InOrder' /\ C!NoFault'
    BY <1>6, <2>1 DEF PlayInv, PlaceInv, Place, Ahead, Chosen, C!Repeating, C!InOrder, C!NoFault
  <2> QED BY <2>2, <2>3 DEF PlayInv
<1>7. ASSUME DialogsInv PROVE DialogsInv'
  <2>1. UNCHANGED <<encoderNames, dialog, chosen, conversion, widgets, task>>
    BY <1>1 DEF options
  <2>2. DialogInv'
    BY <1>7, <2>1 DEF DialogsInv, DialogInv, Agree, O!OptionsOf, Boxes
  <2>3. TaskInv'
    BY <1>7, <2>1 DEF DialogsInv, TaskInv, TaskOf, Agree, O!OptionsOf, Boxes, OpenedWith
  <2> QED BY <2>2, <2>3 DEF DialogsInv
<1>8. ASSUME LayoutInv, DrawnInv, KnowsInv PROVE LayoutInv' /\ DrawnInv' /\ KnowsInv'
  <2>1. UNCHANGED <<layers, visible, hasFocus, iPlaylist, switchPlaylistTo, placed, lengths, drawn,
                    needRefresh, selected, link, c2s, s2c, blind>>
    BY <1>1 DEF views
  <2>2. (switchPlaylistTo \in V!List \cup {V!None})'
    BY <1>8, <2>1 DEF LayoutInv, V!List, V!None
  <2>3. switchPlaylistTo' \in V!List \cup {V!None}
    BY <2>2 DEF V!List, V!None
  <2>4. LayoutInv'
    BY <1>8, <2>1, <2>3, LayoutSame
  <2>5. DrawnInv'
    BY <1>8, <2>1, DrawnSame
  <2>6. KnowsInv'
    BY <1>8, <2>1, KnowsSame
  <2> QED BY <2>4, <2>5, <2>6
<1>9. ASSUME ViewInv PROVE ViewInv'
  <2>1. UNCHANGED <<count, window, height, fresh, lifted>>
    BY <1>1 DEF view
  <2> QED BY <1>9, <2>1 DEF ViewInv, Win, Kept, L!Start, Within, L!SelectedSeen, L!Seen, L!Lines
<1>10. ASSUME ExploredInv PROVE ExploredInv'
  <2>1. UNCHANGED <<entries, folder, fileItems, stack, hideDot, hideUnknown, lines, stale, sized, lost>>
    BY <1>1 DEF explorer
  <2> PICK p, its, st : p = folder /\ its = fileItems /\ st = stack
    OBVIOUS
  <2> PICK read : read = [q \in Seq(Called) |-> X!Listing(q, hideDot', hideUnknown')]
    OBVIOUS
  <2>2. Lists' = read
    BY <2>1, ListsAre
  <2>3. Lists = read
    BY <2>1 DEF Lists
  <2>4. /\ p \in Seq(Called) /\ its \in Seq(ItemOf) /\ st \in Seq(Loose) /\ Len(st) >= 1 /\ lines' \in Heights
        /\ folder' = p /\ fileItems' = its /\ stack' = st /\ entries' = entries
    BY <1>10, <2>1 DEF ExploredInv
  <2>5. ~stale => ~lost /\ X!IsDir(p) /\ Tidy(read, p, its, st, sized, lines)
    BY <1>10, <2>3 DEF ExploredInv
  <2>6. ~stale' => ~lost' /\ X!IsDir(p) /\ Tidy(read, p, its, st, sized', lines')
    BY <2>1, <2>5
  <2> QED BY <1>10, <2>4, <2>6, ExplorerMoves
<1>11. ASSUME CollInv PROVE CollInv'
  <2>1. names' = names /\ sorted' = sorted
    BY <1>1 DEF collation
  <2> QED BY <1>11, <2>1 DEF CollInv, InOrder
<1> QED BY <1>1, <1>2, <1>3, <1>4, <1>5, <1>6, <1>7, <1>8, <1>9, <1>10, <1>11 DEF PartInv

(* A step of one part is a step of what it is about.                       *)
LEMMA PartSteps == PartInv /\ [PartsNext]_all => PartInv'
<1> SUFFICES ASSUME PartInv, [PartsNext]_all PROVE PartInv'
  OBVIOUS
<1>1. CASE UNCHANGED all
  BY <1>1, PartStays
<1>2. CASE OfMedia(M!Next)
  BY <1>2, MediaSteps DEF OfMedia, PartInv
<1>3. CASE OfPlugins(P!Next)
  BY <1>3, FinderSteps DEF OfPlugins, PartInv
<1>4. CASE OfTags(T!Next)
  BY <1>4, EditorSteps DEF OfTags, PartInv
<1>5. CASE OfSignal(G!Next)
  BY <1>5, SignalSteps DEF OfSignal, PartInv
<1>6. CASE OfCli(C!Next)
  <2>1. C!Next /\ part = "cli" /\ part' = "cli"
    BY <1>6 DEF OfCli
  <2>2. PlayInv'
    BY <2>1, PlaySteps DEF PartInv
  <2> QED BY <2>1, <2>2 DEF PartInv
<1>7. CASE OfOptions(O!Next)
  BY <1>7, DialogsStep DEF OfOptions, PartInv
<1>8. CASE OfViews(V!Next)
  <2>1. V!Next /\ part = "views" /\ part' = "views"
    BY <1>8 DEF OfViews
  <2>2. LayoutInv' /\ DrawnInv' /\ KnowsInv'
    BY <2>1, ScreenSteps DEF PartInv
  <2> QED BY <2>1, <2>2 DEF PartInv
<1>9. CASE OfWindow(L!Next)
  BY <1>9, ViewSteps DEF OfWindow, PartInv
<1>10. CASE OfExplorer(X!Next)
  <2>1. X!Next /\ part = "explorer" /\ part' = "explorer"
    BY <1>10 DEF OfExplorer
  <2>2. ExploredInv'
    BY <2>1, ExplorerSteps DEF PartInv
  <2> QED BY <2>1, <2>2 DEF PartInv
<1>11. CASE OfCollation(K!Next)
  BY <1>11, CollationSteps DEF OfCollation, PartInv
<1>12. CASE OfClass(Next) \/ OfEdit(E!Next)
  <2>1. part' = part /\ part \in {"class", "edit"}
    BY <1>12 DEF OfClass, OfEdit
  <2> QED BY <2>1 DEF PartInv
<1> QED BY <1>1, <1>2, <1>3, <1>4, <1>5, <1>6, <1>7, <1>8, <1>9, <1>10, <1>11, <1>12 DEF PartsNext

(* In the beginning each part is as it begins (PartsInit).                 *)
LEMMA PartsStart == PartsInit => PartInv
<1> SUFFICES ASSUME PartsInit PROVE PartInv
  OBVIOUS
<1>1. /\ part = "media" => MediaInv
      /\ part = "plugins" => FinderInv
      /\ part = "tags" => EditorInv
      /\ part = "signal" => SignalInv
      /\ part = "cli" => PlayInv
      /\ part = "options" => DialogsInv
  BY MediaStarts, FinderStarts, EditorStarts, SignalStarts, PlayStarts, DialogsStart DEF PartsInit
<1>2. V!Init /\ L!Init /\ X!Init /\ (part = "collation" => K!Init)
  BY DEF PartsInit
<1>3. LayoutInv /\ DrawnInv /\ KnowsInv
  BY <1>2, ScreenStarts
<1>4. ViewInv /\ ExploredInv
  BY <1>2, ViewStarts, ExplorerStarts
<1>5. part = "collation" => CollInv
  BY <1>2, CollationStarts
<1> QED BY <1>1, <1>3, <1>4, <1>5 DEF PartInv

(* For any loaders and sheets, any plug-ins in any directories, any files  *)
(* and pictures: the tags of a file are its own whoever loads beside, what *)
(* is found for a file is right and the same for all who ask, and the      *)
(* copies of a file's tags and of its cover agree (LoadMedia, OnPlugin,    *)
(* the tag editor).                                                        *)
THEOREM LoadingIsSound == PartsSpec => []LoadingInv
<1>1. PartInv => LoadingInv
  BY MediaHolds, FinderHolds, EditorHolds DEF PartInv, LoadingInv
<1> QED BY <1>1, PartsStart, PartSteps, PTL DEF PartsSpec

(* For any functions and objects, lists of any length and any encoders: an *)
(* emission calls all slots in their order, once each, and none of an      *)
(* object that has been disconnected; a list is played to its end, in its  *)
(* order, and nothing is used that is not there; and a conversion is done  *)
(* as the dialogs showed it when they were accepted (Signal.h, play.cc,    *)
(* the dialogs of the Qt application).                                     *)
THEOREM HandlersAreSound == PartsSpec => []HandlersInv
<1>1. PartInv => HandlersInv
  BY SignalHolds, PlayHolds, DialogsHold DEF PartInv, HandlersInv
<1> QED BY <1>1, PartsStart, PartSteps, PTL DEF PartsSpec

(* For any number of lists, any heights, any entries of a disk and any     *)
(* names: the view with the keys can be seen, the lists are drawn as they  *)
(* are, the server knows which is chosen, and a list's selected item is    *)
(* shown (MainUi, the views); the explorer lists what is there, and a      *)
(* directory that is left is selected (ExplorerView); and the order of     *)
(* names is one, in which they are once sorted (CmpUtf8).                  *)
THEOREM TerminalIsSound == PartsSpec => []TerminalInv
<1>1. ViewInv => L!SelectedSeen
  BY DEF ViewInv
<1>2. LayoutInv /\ DrawnInv /\ KnowsInv => V!ScreenInv
  BY ScreenHolds
<1>3. ExploredInv => X!ExplorerInv
  BY ExplorerHolds
<1>4. PartInv => TerminalInv
  BY <1>1, <1>2, <1>3, CollationHolds DEF PartInv, TerminalInv
<1> QED BY <1>4, PartsStart, PartSteps, PTL DEF PartsSpec
=============================================================================
