---------------------------- MODULE ReaderProofs ----------------------------
(* What is on screen while tables scroll, cells are reused, images and      *)
(* answers arrive late and details come and go, for any news, any number of *)
(* rows and screens, and any clock.                                         *)
EXTENDS Reader, SequenceTheorems, TLAPS

-----------------------------------------------------------------------------
(* The indicator.                                                          *)

\* Without a request in flight the indicator is off: whoever removes a request
\* turns it off, whichever of the two screens had sent the last one.
THEOREM IndicatorOff == Spec => []IndicatorOffWhenIdle
  <1> USE DEF IndicatorOffWhenIdle
  <1>1. ReaderInit => IndicatorOffWhenIdle
    BY DEF ReaderInit, Init
  <1>2. IndicatorOffWhenIdle /\ [ReaderNext]_readerVars => IndicatorOffWhenIdle'
    <2> SUFFICES ASSUME IndicatorOffWhenIdle, [ReaderNext]_readerVars
                 PROVE  IndicatorOffWhenIdle'
      OBVIOUS
    <2>1. ASSUME Scroll, UNCHANGED screenVars
          PROVE  IndicatorOffWhenIdle'
      BY <2>1 DEF Scroll, ShowRow, HideRow, screenVars
    <2>2. ASSUME Arrive, UNCHANGED screenVars
          PROVE  IndicatorOffWhenIdle'
      BY <2>2 DEF Arrive, ImageArrives, ImageFails, LoadStored, LoadFromServer, RequestFails,
                  Answer, Tick, screenVars
    <2>3. ASSUME NEW r \in 1 .. MaxRows, SelectRow(r)
          PROVE  IndicatorOffWhenIdle'
      BY <2>3 DEF SelectRow, Detail!Open
    <2>4. CASE Detail!Next /\ UNCHANGED tableVars
      BY <2>4 DEF Detail!Next, Detail!PushDone, Detail!BeginPop, Detail!PopDone,
                  Detail!CancelPop, Detail!DetailArrives, Detail!DetailFails,
                  Detail!Answered, tableVars
    <2>5. CASE UNCHANGED readerVars
      BY <2>5 DEF readerVars, tableVars, screenVars
    <2>. QED  BY <2>1, <2>2, <2>3, <2>4, <2>5 DEF ReaderNext, TableStep
  <1>. QED  BY <1>1, <1>2, PTL DEF Spec

-----------------------------------------------------------------------------
(* The bars.                                                               *)

Dark == [status |-> "dark", colour |-> "white"]
Light == [status |-> "light", colour |-> "red"]

\* The bars are the detail's from the moment it is pushed until its pop is
\* done; a screen on the stack has a number.
BarsInv ==
    /\ opened \in Nat
    /\ motion \in {"rest", "pushing", "popping"}
    /\ motion # "rest" => Detail!OnTop
    /\ bars = IF Detail!OnTop THEN Dark ELSE Light
    /\ Detail!OnTop =>
          /\ screen.id \in Nat \ {0}
          /\ screen = [id |-> screen.id, news |-> screen.news,
                       page |-> screen.page, due |-> screen.due]

\* A screen with a number is on the stack.
LEMMA NumberedIsOnTop ==
    ASSUME NEW s, s.id \in Nat \ {0}
    PROVE  s # Detail!NoScreen
  BY DEF Detail!NoScreen

\* A push colours the bars before it is done; nothing else happens to them
\* until the detail disappears.
LEMMA OpenBars ==
    ASSUME BarsInv, NEW n, Detail!Open(n)
    PROVE  BarsInv'
  <1>1. /\ opened' = opened + 1 /\ opened' \in Nat \ {0}
        /\ screen' = [id |-> opened', news |-> n, page |-> Detail!Blank, due |-> Detail!Blank]
        /\ motion' = "pushing"
    BY DEF Detail!Open, BarsInv
  <1>2. screen'.id \in Nat \ {0}
    BY <1>1
  <1>3. Detail!OnTop'
    BY <1>2, NumberedIsOnTop DEF Detail!OnTop, Detail!NoScreen
  <1>4. bars' = Dark
    BY DEF Detail!Open, Detail!PushBegins, Detail!DetailWillAppear, Dark
  <1>. QED  BY <1>1, <1>2, <1>3, <1>4 DEF BarsInv

\* UIKit's order makes the last to colour a bar the one that stays.
LEMMA NextBars ==
    ASSUME BarsInv, Detail!Next
    PROVE  BarsInv'
  <1>1. CASE Detail!PushDone
    BY <1>1 DEF Detail!PushDone, Detail!PushEnds, Detail!MainDidDisappear, BarsInv,
                Detail!OnTop, Detail!NoScreen, Dark
  <1>2. CASE Detail!BeginPop
    BY <1>2 DEF Detail!BeginPop, BarsInv, Detail!OnTop, Detail!NoScreen
  <1>3. CASE Detail!PopDone
    <2>1. bars = Dark
      BY <1>3 DEF Detail!PopDone, BarsInv
    <2>2. Detail!PopEnds(bars) = Light
      <3>1. Detail!DetailDidDisappear(Dark) = [status |-> "light", colour |-> "white"]
        BY DEF Detail!DetailDidDisappear, Dark
      <3>2. Detail!MainDidAppear([status |-> "light", colour |-> "white"]) = Light
        BY DEF Detail!MainDidAppear, Light
      <3>. QED  BY <2>1, <3>1, <3>2 DEF Detail!PopEnds
    <2>3. /\ screen' = Detail!NoScreen /\ bars' = Detail!PopEnds(bars) /\ motion' = "rest"
          /\ opened' = opened
      BY <1>3 DEF Detail!PopDone
    <2>. QED  BY <2>2, <2>3 DEF BarsInv, Detail!OnTop, Detail!NoScreen
  <1>4. CASE Detail!CancelPop
    BY <1>4 DEF Detail!CancelPop, Detail!PopCancelled, Detail!MainDidDisappear,
                Detail!DetailWillAppear, BarsInv, Detail!OnTop, Detail!NoScreen, Dark
  <1>5. ASSUME NEW id \in detailAsked, NEW content \in Contents, NEW images \in ImageDetails,
               Detail!DetailArrives(id, content, images)
        PROVE  BarsInv'
    <2>1. UNCHANGED <<motion, bars, opened>>
      BY <1>5 DEF Detail!DetailArrives, Detail!Answered
    <2>2. CASE screen' = screen
      BY <2>1, <2>2 DEF BarsInv, Detail!OnTop, Detail!NoScreen
    <2>3. CASE screen' # screen
      <3> DEFINE page == Detail!Rewritten(content, images)
                 due == Detail!Expected(content, images)
      <3>1. /\ ~Detail!Gone(id)
            /\ screen' = [screen EXCEPT !.page = page, !.due = due]
        BY <1>5, <2>3 DEF Detail!DetailArrives, Detail!Shown
      <3> HIDE DEF page, due
      <3>2. Detail!OnTop
        <4>1. screen' = screen \/ Detail!OnTop
          BY <3>1 DEF Detail!OnTop, Detail!NoScreen
        <4>. QED  BY <2>3, <4>1
      <3>3. /\ screen'.id = screen.id
            /\ screen' = [id |-> screen'.id, news |-> screen'.news,
                          page |-> screen'.page, due |-> screen'.due]
        BY <3>1, <3>2 DEF BarsInv
      <3>4. Detail!OnTop'
        BY <3>2, <3>3, NumberedIsOnTop DEF BarsInv, Detail!OnTop, Detail!NoScreen
      <3>. QED  BY <2>1, <3>2, <3>3, <3>4 DEF BarsInv
    <2>. QED  BY <2>2, <2>3
  <1>6. ASSUME NEW id \in detailAsked, Detail!DetailFails(id)
        PROVE  BarsInv'
    BY <1>6 DEF Detail!DetailFails, Detail!Answered, BarsInv, Detail!OnTop, Detail!NoScreen
  <1>. QED  BY <1>1, <1>2, <1>3, <1>4, <1>5, <1>6 DEF Detail!Next

\* No step of the table or of a detail disturbs the bars.
LEMMA BarsStep == BarsInv /\ [ReaderNext]_readerVars => BarsInv'
  <1> SUFFICES ASSUME BarsInv, [ReaderNext]_readerVars
               PROVE  BarsInv'
    OBVIOUS
  <1>1. CASE UNCHANGED screenVars
    BY <1>1 DEF screenVars, BarsInv, Detail!OnTop, Detail!NoScreen
  <1>2. ASSUME NEW r \in 1 .. MaxRows, SelectRow(r)
        PROVE  BarsInv'
    BY <1>2, OpenBars DEF SelectRow
  <1>. QED  BY <1>1, <1>2, NextBars DEF ReaderNext, TableStep, readerVars

\* However often the user goes to a news, back, or half the way back, the bars
\* at rest are those of the screen on top.
THEOREM BarsMatch == Spec => []BarsMatchTop
  <1>1. ReaderInit => BarsInv
    BY DEF ReaderInit, Detail!Init, BarsInv, Detail!OnTop, Detail!NoScreen, Light
  <1>2. BarsInv /\ [ReaderNext]_readerVars => BarsInv'
    BY BarsStep
  <1>3. BarsInv => BarsMatchTop
    BY DEF BarsInv, BarsMatchTop, Detail!BarsMatchTop, Dark, Light
  <1>. QED  BY <1>1, <1>2, <1>3, PTL DEF Spec
-----------------------------------------------------------------------------
(* The text on screen.                                                     *)

\* Rewriting is right for each text and each set of images by itself, and an
\* empty web view shows no placeholder.
TextsAreRight ==
    /\ Detail!Unpacked(Detail!Blank) = Detail!Blank
    /\ \A content \in Contents, images \in ImageDetails :
          Detail!Unpacked(Detail!Rewritten(content, images))
             = Detail!Expected(content, images)

\* A new screen shows nothing yet.
LEMMA OpenText ==
    ASSUME TextsAreRight, NEW n, Detail!Open(n)
    PROVE  Detail!ImagesAreShown'
  <1>1. screen'.page = Detail!Blank /\ screen'.due = Detail!Blank
    BY DEF Detail!Open
  <1>. QED  BY <1>1 DEF TextsAreRight, Detail!ImagesAreShown

\* An answer changes the screen that asked for it, and no other.
LEMMA ArrivalText ==
    ASSUME TextsAreRight, BarsInv, Detail!ImagesAreShown,
           NEW id, NEW content \in Contents, NEW images \in ImageDetails,
           Detail!DetailArrives(id, content, images), Detail!OnTop
    PROVE  Detail!ImagesAreShown'
  <1> DEFINE page == Detail!Rewritten(content, images)
             due  == Detail!Expected(content, images)
  <1>1. CASE screen' = screen
    BY <1>1 DEF Detail!ImagesAreShown, Detail!OnTop, Detail!NoScreen
  <1>2. CASE screen' = [screen EXCEPT !.page = page, !.due = due]
    <2>1. screen = [id |-> screen.id, news |-> screen.news,
                    page |-> screen.page, due |-> screen.due]
      BY DEF BarsInv
    <2> HIDE DEF page, due
    <2>2. screen'.page = page /\ screen'.due = due
      BY <1>2, <2>1
    <2>. QED  BY <2>2 DEF TextsAreRight, Detail!ImagesAreShown, page, due
  <1>. QED  BY <1>1, <1>2 DEF Detail!DetailArrives, Detail!Shown

\* Without a screen there is nobody to show an answer.
LEMMA ArrivalGone ==
    ASSUME BarsInv, ~Detail!OnTop,
           NEW id \in Nat \ {0}, NEW content, NEW images,
           Detail!DetailArrives(id, content, images)
    PROVE  screen' = screen
  <1>1. screen.id = 0
    BY DEF Detail!OnTop, Detail!NoScreen
  <1>2. Detail!Gone(id)
    BY <1>1 DEF Detail!Gone
  <1>. QED  BY <1>2 DEF Detail!DetailArrives, Detail!Shown

\* Requests are numbered like the screens that sent them.
AskedByScreens == detailAsked \subseteq Nat \ {0}

\* A detail shows no text but its own, with its pictures, whichever screen's
\* answer arrives while it is there, if rewriting is right for each text by
\* itself (which the run reader finds for its texts).
THEOREM ScreensShowTheirText ==
    ASSUME TextsAreRight
    PROVE  Spec => []ImagesAreShown
  <1>1. ReaderInit => AskedByScreens /\ Detail!ImagesAreShown
    BY DEF ReaderInit, Detail!Init, AskedByScreens, Detail!ImagesAreShown, Detail!OnTop
  <1>2. BarsInv /\ AskedByScreens /\ Detail!ImagesAreShown /\ [ReaderNext]_readerVars
           => (AskedByScreens /\ Detail!ImagesAreShown)'
    <2> SUFFICES ASSUME BarsInv, AskedByScreens, Detail!ImagesAreShown,
                        [ReaderNext]_readerVars
                 PROVE  AskedByScreens' /\ Detail!ImagesAreShown'
      OBVIOUS
    <2>1. CASE UNCHANGED screenVars
      BY <2>1 DEF screenVars, AskedByScreens, Detail!ImagesAreShown, Detail!OnTop,
                  Detail!NoScreen
    <2>2. ASSUME NEW r \in 1 .. MaxRows, SelectRow(r)
          PROVE  AskedByScreens' /\ Detail!ImagesAreShown'
      <3>1. Detail!Open(news[r])
        BY <2>2 DEF SelectRow
      <3>2. AskedByScreens'
        BY <3>1 DEF Detail!Open, AskedByScreens, BarsInv
      <3>. QED  BY <3>1, <3>2, OpenText
    <2>3. CASE Detail!Next
      <3>1. AskedByScreens'
        BY <2>3 DEF Detail!Next, Detail!PushDone, Detail!BeginPop, Detail!PopDone,
                    Detail!CancelPop, Detail!DetailArrives, Detail!DetailFails,
                    Detail!Answered, AskedByScreens
      <3>2. CASE Detail!PopDone
        BY <3>1, <3>2 DEF Detail!PopDone, Detail!ImagesAreShown, Detail!OnTop
      <3>3. CASE UNCHANGED screen
        BY <3>1, <3>3 DEF Detail!ImagesAreShown, Detail!OnTop, Detail!NoScreen
      <3>4. ASSUME NEW id \in detailAsked, NEW content \in Contents,
                   NEW images \in ImageDetails, Detail!DetailArrives(id, content, images)
            PROVE  Detail!ImagesAreShown'
        <4>1. id \in Nat \ {0}
          BY DEF AskedByScreens
        <4>. QED  BY <3>3, <3>4, <4>1, ArrivalText, ArrivalGone
      <3>. QED  BY <2>3, <3>1, <3>2, <3>3, <3>4
                DEF Detail!Next, Detail!PushDone, Detail!BeginPop, Detail!CancelPop,
                    Detail!DetailFails
    <2>. QED  BY <2>1, <2>2, <2>3 DEF ReaderNext, TableStep, readerVars
  <1>3. ReaderInit => BarsInv
    BY DEF ReaderInit, Detail!Init, BarsInv, Detail!OnTop, Detail!NoScreen, Light
  <1>4. BarsInv /\ [ReaderNext]_readerVars => BarsInv'
    BY BarsStep
  <1>5. Detail!ImagesAreShown <=> ImagesAreShown
    BY DEF ImagesAreShown
  <1>. QED  BY <1>1, <1>2, <1>3, <1>4, <1>5, PTL DEF Spec
-----------------------------------------------------------------------------
(* The cells.                                                              *)

Known == {cells[k] : k \in DOMAIN cells}

\* The cells are numbered, and a cell is what Cell says.
CellShapes ==
    /\ cells \in Seq(Known)
    /\ \A c \in Known : c = Cell(c.style, c.entry, c.url, c.image)

\* A cell is on screen once at most, and downloads are for cells.
Placement ==
    /\ cellAt \in [1 .. MaxRows -> Nat]
    /\ \A r \in Visible : cellAt[r] \in DOMAIN cells
    /\ \A r, q \in Visible : cellAt[r] = cellAt[q] => r = q
    /\ \A d \in downloads : d[1] \in DOMAIN cells

\* The table view knows the rows that the news have, and shows them.
RowsKnown ==
    /\ Len(news) \in Nat /\ \A ch \in Channels : Len(stored[ch]) \in Nat
    /\ stored \in [Channels -> {stored[ch] : ch \in Channels}]
    /\ ~silent => rows = Len(news)
    /\ RowsShowNews

HasImage(c) == c.style \in {"Style2", "Style3"} /\ Url(c.entry.id, c.style) # NoUrl

\* A cell whose news has an image waits for that image or shows it.
ImagesKnown ==
    \A r \in Visible :
        LET c == cells[cellAt[r]]
        IN  HasImage(c) => c.url = Url(c.entry.id, c.style) /\ c.image \in {NoUrl, c.url}

TableInv == CellShapes /\ Placement /\ RowsKnown /\ ImagesKnown

\* Cells are numbered from 1.
LEMMA CellNumbers ==
    ASSUME CellShapes
    PROVE  /\ Len(cells) \in Nat /\ DOMAIN cells = 1 .. Len(cells)
           /\ \A k \in DOMAIN cells :
                 cells[k] = Cell(cells[k].style, cells[k].entry, cells[k].url, cells[k].image)
  BY LenProperties DEF CellShapes, Known

\* A sequence is one of its own elements.
LEMMA OwnElements ==
    ASSUME NEW S, NEW s \in Seq(S)
    PROVE  s \in Seq({s[k] : k \in DOMAIN s})
  <1> DEFINE T == {s[k] : k \in DOMAIN s}
  <1>1. Len(s) \in Nat /\ DOMAIN s = 1 .. Len(s) /\ s \in [1 .. Len(s) -> S]
    BY LenProperties
  <1>2. s \in [1 .. Len(s) -> T]
    BY <1>1
  <1> HIDE DEF T
  <1>3. s \in Seq(T)
    BY <1>1, <1>2
  <1>. QED  BY <1>3 DEF T

\* A cell is put back changed, or a new one is added.
LEMMA PutCellShapes ==
    ASSUME CellShapes, NEW k \in 1 .. Len(cells) + 1, NEW c,
           c = Cell(c.style, c.entry, c.url, c.image), cells' = PutCell(k, c)
    PROVE  /\ CellShapes'
           /\ DOMAIN cells \subseteq DOMAIN cells' /\ k \in DOMAIN cells'
           /\ \A i \in DOMAIN cells' : cells'[i] = IF i = k THEN c ELSE cells[i]
  <1> DEFINE n == IF k > Len(cells) THEN k ELSE Len(cells)
             S == Known \cup {c}
             s == PutCell(k, c)
  <1>1. Len(cells) \in Nat /\ DOMAIN cells = 1 .. Len(cells)
    BY CellNumbers
  <1>2. n \in Nat /\ k \in 1 .. n /\ \A i \in 1 .. n : i # k => i \in DOMAIN cells
    BY <1>1
  <1>3. s = [i \in 1 .. n |-> IF i = k THEN c ELSE cells[i]]
    BY DEF PutCell
  <1> HIDE DEF n, s
  <1>4. s \in [1 .. n -> S]
    BY <1>2, <1>3 DEF Known
  <1>5. s \in Seq(S)
    BY <1>2, <1>4
  <1>6. cells' \in Seq(Known')
    BY <1>5, OwnElements DEF Known, s
  <1>7. /\ DOMAIN cells' = 1 .. n
        /\ \A i \in DOMAIN cells' : cells'[i] = IF i = k THEN c ELSE cells[i]
    BY <1>3 DEF s
  <1>8. DOMAIN cells \subseteq DOMAIN cells'
    BY <1>1, <1>7 DEF n
  <1>9. \A d \in Known' : d = Cell(d.style, d.entry, d.url, d.image)
    <2> SUFFICES ASSUME NEW i \in DOMAIN cells'
                 PROVE  cells'[i] = Cell(cells'[i].style, cells'[i].entry,
                                         cells'[i].url, cells'[i].image)
      BY DEF Known
    <2>1. CASE i = k
      BY <1>7, <2>1
    <2>2. CASE i # k
      <3>1. i \in DOMAIN cells /\ cells'[i] = cells[i]
        BY <1>2, <1>7, <2>2
      <3>. QED  BY <3>1, CellNumbers
    <2>. QED  BY <2>1, <2>2
  <1>. QED  BY <1>2, <1>6, <1>7, <1>8, <1>9 DEF CellShapes

\* The news whose entries a cell of row r may show.
KnownEntries ==
    {Blank} \cup {news[i] : i \in 1 .. Len(news)}
            \cup {cells[k].entry : k \in DOMAIN cells}

\* URL and image of the cells that have no image view, and of new cells.
PlainBindings ==
    {<<NoUrl, NoUrl>>} \cup
    {<<cells[k].url, cells[k].image>> : k \in {i \in DOMAIN cells : cells[i].style = "Style1"}}

\* Row r comes on screen in cell k, which becomes c.
RowCell(r, k, c) ==
    /\ \A q \in Visible : cellAt[q] # k
    /\ cellAt' = [cellAt EXCEPT ![r] = k]
    /\ c = Cell(c.style, c.entry, c.url, c.image)
    /\ cells' = PutCell(k, c)
    /\ HasImage(c) => c.url = Url(c.entry.id, c.style) /\ c.image = NoUrl
    /\ r <= Len(news) => c.entry = news[r]
    /\ \E url : downloads' \subseteq downloads \cup {<<k, url>>}
    /\ c.style \in {"none", Style(c.entry.id)}
    /\ c.entry \in KnownEntries
    /\ c.style = "Style1" => <<c.url, c.image>> \in PlainBindings

\* A row that comes on screen gets a cell that nobody else uses, with its news
\* and its image.
LEMMA ShowRowCell ==
    ASSUME TableInv, NEW r \in 1 .. MaxRows, ShowRow(r)
    PROVE  \E k \in 1 .. Len(cells) + 1 : \E c : RowCell(r, k, c)
  <1> DEFINE entry == IF r > Len(news) THEN Blank ELSE news[r]
             style == IF r > Len(news) THEN "none" ELSE Style(entry.id)
             k     == Dequeued(style)
             old   == IF k > Len(cells) THEN NewCell(style) ELSE cells[k]
             url   == IF style = "none" THEN NoUrl ELSE Url(entry.id, style)
             c     == IF style = "none" THEN old ELSE Bound(old, style, entry)
  <1>1. /\ cellAt' = [cellAt EXCEPT ![r] = k]
        /\ cells' = PutCell(k, c)
        /\ downloads' = IF url = NoUrl THEN downloads ELSE downloads \cup {<<k, url>>}
    BY DEF ShowRow
  <1>2. /\ Len(cells) \in Nat /\ DOMAIN cells = 1 .. Len(cells)
        /\ \A i \in DOMAIN cells :
              cells[i] = Cell(cells[i].style, cells[i].entry, cells[i].url, cells[i].image)
    BY CellNumbers DEF TableInv
  <1>3. /\ style = "none" <=> r > Len(news)
        /\ r <= Len(news) => entry = news[r] /\ ~(r > Len(news))
    <2>1. \A n : Style(n) # "none"
      BY DEF Style
    <2>. QED  BY <2>1 DEF TableInv, RowsKnown
  <1> HIDE DEF entry, style
  <1>4. /\ k \in 1 .. Len(cells) + 1
        /\ \A q \in Visible : cellAt[q] # k
        /\ k <= Len(cells) => cells[k].style = style
    <2>1. CASE Queue(style) = {}
      BY <1>2, <2>1 DEF Dequeued, TableInv, Placement
    <2>2. CASE Queue(style) # {}
      <3>1. k \in Queue(style)
        BY <2>2 DEF Dequeued
      <3>. QED  BY <1>2, <3>1 DEF Queue, Visible
    <2>. QED  BY <2>1, <2>2
  <1> HIDE DEF k
  <1>5. old = Cell(style, old.entry, old.url, old.image)
    <2>1. CASE k > Len(cells)
      BY <2>1 DEF NewCell, Cell
    <2>2. CASE ~(k > Len(cells))
      <3>1. k \in DOMAIN cells /\ k <= Len(cells)
        BY <1>2, <1>4, <2>2
      <3>. QED  BY <1>2, <1>4, <2>2, <3>1
    <2>. QED  BY <2>1, <2>2
  <1> HIDE DEF old
  <1>6. /\ c = Cell(c.style, c.entry, c.url, c.image)
        /\ HasImage(c) => c.url = Url(c.entry.id, c.style) /\ c.image = NoUrl
        /\ r <= Len(news) => c.entry = news[r]
        /\ c.style \in {"none", Style(c.entry.id)}
    <2>1. CASE style = "none"
      <3>1. c = old /\ c.style = "none"
        BY <1>5, <2>1 DEF Cell
      <3>. QED  BY <1>3, <1>5, <2>1, <3>1 DEF HasImage
    <2>2. CASE style # "none"
      <3>1. c = IF Url(entry.id, style) = NoUrl THEN Cell(style, entry, old.url, old.image)
                ELSE Cell(style, entry, Url(entry.id, style), NoUrl)
        BY <2>2 DEF Bound
      <3>2. /\ c.style = style /\ c.entry = entry
            /\ c = Cell(c.style, c.entry, c.url, c.image)
            /\ Url(entry.id, style) # NoUrl => c.url = Url(entry.id, style) /\ c.image = NoUrl
        BY <3>1 DEF Cell
      <3>. QED  BY <1>3, <3>2 DEF HasImage, style
    <2>. QED  BY <2>1, <2>2
  <1>7. /\ c.entry \in KnownEntries
        /\ c.style = "Style1" => <<c.url, c.image>> \in PlainBindings
    <2>1. /\ old.entry \in KnownEntries
          /\ style = "Style1" => <<old.url, old.image>> \in PlainBindings
      <3>1. CASE k > Len(cells)
        BY <3>1 DEF old, NewCell, Cell, KnownEntries, PlainBindings
      <3>2. CASE ~(k > Len(cells))
        <4>1. k \in DOMAIN cells /\ old = cells[k] /\ cells[k].style = style
          BY <1>2, <1>4, <3>2 DEF old
        <4>. QED  BY <4>1 DEF KnownEntries, PlainBindings
      <3>. QED  BY <3>1, <3>2
    <2>2. style # "none" => entry \in KnownEntries
      BY <1>3 DEF KnownEntries
    <2>3. CASE style = "none"
      BY <1>5, <2>1, <2>3 DEF c, Cell
    <2>4. CASE style # "none"
      <3>1. c = Bound(old, style, entry)
        BY <2>4 DEF c
      <3>2. c.style = style /\ c.entry = entry
        BY <3>1 DEF Bound, Cell
      <3>3. style = "Style1" => c.url = old.url /\ c.image = old.image
        BY <3>1 DEF Bound, Cell, Url
      <3>. QED  BY <2>1, <2>2, <2>4, <3>2, <3>3
    <2>. QED  BY <2>3, <2>4
  <1> HIDE DEF c, url
  <1>. QED  BY <1>1, <1>4, <1>6, <1>7 DEF RowCell

\* Nobody else's cell is touched.
LEMMA RowCellEffect ==
    ASSUME TableInv, NEW r \in 1 .. MaxRows, ShowRow(r),
           NEW k \in 1 .. Len(cells) + 1, NEW c, RowCell(r, k, c)
    PROVE  /\ CellShapes'
           /\ DOMAIN cells \subseteq DOMAIN cells' /\ k \in DOMAIN cells' /\ k \in Nat
           /\ \A i \in DOMAIN cells' : cells'[i] = IF i = k THEN c ELSE cells[i]
           /\ \A i \in DOMAIN cells' : i # k => i \in DOMAIN cells
           /\ Visible' = Visible \cup {r} /\ cellAt'[r] = k
           /\ \A q \in Visible : cellAt'[q] = cellAt[q]
           /\ cells'[cellAt'[r]] = c
           /\ \A q \in Visible : cells'[cellAt'[q]] = cells[cellAt[q]]
  <1>1. /\ \A q \in Visible : cellAt[q] # k
        /\ cellAt' = [cellAt EXCEPT ![r] = k]
        /\ c = Cell(c.style, c.entry, c.url, c.image)
        /\ cells' = PutCell(k, c)
    BY DEF RowCell
  <1>2. r \notin Visible
    BY DEF ShowRow
  <1>3. /\ CellShapes'
        /\ DOMAIN cells \subseteq DOMAIN cells' /\ k \in DOMAIN cells'
        /\ \A i \in DOMAIN cells' : cells'[i] = IF i = k THEN c ELSE cells[i]
    BY <1>1, PutCellShapes DEF TableInv
  <1>4. /\ k \in Nat /\ k # NoCell
        /\ Len(cells) \in Nat /\ DOMAIN cells = 1 .. Len(cells)
    BY CellNumbers DEF TableInv, NoCell
  <1>5. /\ Visible' = Visible \cup {r} /\ cellAt'[r] = k
        /\ \A q \in Visible : cellAt'[q] = cellAt[q]
    BY <1>1, <1>2, <1>4 DEF TableInv, Placement, Visible
  <1>6. /\ cells'[cellAt'[r]] = c
        /\ \A q \in Visible : cells'[cellAt'[q]] = cells[cellAt[q]]
    BY <1>1, <1>3, <1>5 DEF TableInv, Placement
  <1>7. \A i \in DOMAIN cells' : i # k => i \in DOMAIN cells
    BY <1>1, <1>4 DEF PutCell
  <1>. QED  BY <1>3, <1>4, <1>5, <1>6, <1>7

\* A row that comes on screen leaves the table in order.
LEMMA ShowRowTable ==
    ASSUME TableInv, NEW r \in 1 .. MaxRows, ShowRow(r)
    PROVE  TableInv'
  <1>k. PICK k \in 1 .. Len(cells) + 1 : \E c : RowCell(r, k, c)
    BY ShowRowCell
  <1>0. PICK c : RowCell(r, k, c)
    BY <1>k
  <1>1. /\ \A q \in Visible : cellAt[q] # k
        /\ cellAt' = [cellAt EXCEPT ![r] = k]
        /\ HasImage(c) => c.url = Url(c.entry.id, c.style) /\ c.image = NoUrl
        /\ r <= Len(news) => c.entry = news[r]
        /\ \E url : downloads' \subseteq downloads \cup {<<k, url>>}
    BY <1>0 DEF RowCell
  <1>2. /\ r \notin Visible /\ r <= rows
        /\ UNCHANGED <<news, rows, stored, silent>>
    BY DEF ShowRow
  <1>3. /\ CellShapes'
        /\ DOMAIN cells \subseteq DOMAIN cells' /\ k \in DOMAIN cells' /\ k \in Nat
    BY <1>0, RowCellEffect
  <1>4. /\ Visible' = Visible \cup {r} /\ cellAt'[r] = k
        /\ \A q \in Visible : cellAt'[q] = cellAt[q]
    BY <1>0, RowCellEffect
  <1>5. /\ cells'[cellAt'[r]] = c
        /\ \A q \in Visible : cells'[cellAt'[q]] = cells[cellAt[q]]
    BY <1>0, RowCellEffect
  <1>6. Placement'
    <2>1. cellAt' \in [1 .. MaxRows -> Nat]
      BY <1>1, <1>3 DEF TableInv, Placement
    <2>2. \A d \in downloads' : d[1] \in DOMAIN cells'
      BY <1>1, <1>3 DEF TableInv, Placement
    <2>3. \A q \in Visible' : cellAt'[q] \in DOMAIN cells'
      BY <1>3, <1>4 DEF TableInv, Placement
    <2>4. \A p, q \in Visible' : cellAt'[p] = cellAt'[q] => p = q
      BY <1>1, <1>4 DEF TableInv, Placement
    <2>. QED  BY <2>1, <2>2, <2>3, <2>4 DEF Placement
  <1>7. RowsKnown'
    BY <1>1, <1>2, <1>4, <1>5 DEF TableInv, RowsKnown, RowsShowNews
  <1>8. ImagesKnown'
    BY <1>1, <1>4, <1>5 DEF TableInv, ImagesKnown, HasImage
  <1>. QED  BY <1>3, <1>6, <1>7, <1>8 DEF TableInv

\* A row less is on screen.
LEMMA HideRowTable ==
    ASSUME TableInv, NEW r \in 1 .. MaxRows, HideRow(r)
    PROVE  TableInv'
  <1>1. /\ cellAt' = [cellAt EXCEPT ![r] = NoCell]
        /\ UNCHANGED <<news, rows, cells, downloads, stored, silent>>
    BY DEF HideRow
  <1>2. Visible' \subseteq Visible /\ \A q \in Visible' : cellAt'[q] = cellAt[q]
    BY <1>1 DEF TableInv, Placement, Visible
  <1>3. cellAt' \in [1 .. MaxRows -> Nat]
    BY <1>1 DEF TableInv, Placement, NoCell
  <1>4. CellShapes' /\ Placement'
    BY <1>1, <1>2, <1>3 DEF TableInv, CellShapes, Known, Placement
  <1>5. RowsKnown'
    BY <1>1, <1>2 DEF TableInv, RowsKnown, RowsShowNews
  <1>6. ImagesKnown'
    BY <1>1, <1>2 DEF TableInv, ImagesKnown
  <1>. QED  BY <1>4, <1>5, <1>6 DEF TableInv

\* An image is shown only by a cell that has not been told another URL.
LEMMA ImageArrivesTable ==
    ASSUME TableInv, NEW d \in downloads, ImageArrives(d)
    PROVE  TableInv'
  <1> DEFINE k == d[1]
             c == [cells[k] EXCEPT !.image = d[2]]
  <1>1. /\ UNCHANGED <<news, rows, cellAt, stored, silent>>
        /\ downloads' \subseteq downloads
        /\ cells' = IF cells[k].url = d[2] THEN [cells EXCEPT ![k] = c] ELSE cells
    BY DEF ImageArrives
  <1>2. /\ k \in DOMAIN cells /\ Len(cells) \in Nat /\ DOMAIN cells = 1 .. Len(cells)
        /\ cells[k] = Cell(cells[k].style, cells[k].entry, cells[k].url, cells[k].image)
        /\ \A r \in Visible : cellAt[r] \in DOMAIN cells
    BY CellNumbers DEF TableInv, Placement
  <1> HIDE DEF k
  <1>3. CASE cells[k].url # d[2]
    <2>1. cells' = cells /\ Visible' = Visible
      BY <1>1, <1>3 DEF Visible
    <2>2. CellShapes' /\ Placement'
      <3>1. CellShapes'
        BY <2>1 DEF TableInv, CellShapes, Known
      <3>2. cellAt' = cellAt /\ \A e \in downloads' : e \in downloads
        BY <1>1
      <3>. QED  BY <2>1, <3>1, <3>2 DEF TableInv, Placement
    <2>3. RowsKnown' /\ ImagesKnown'
      BY <1>1, <2>1 DEF TableInv, RowsKnown, RowsShowNews, ImagesKnown
    <2>. QED  BY <2>2, <2>3 DEF TableInv
  <1>4. CASE cells[k].url = d[2]
    <2>1. /\ c = Cell(c.style, c.entry, c.url, c.image)
          /\ c.style = cells[k].style /\ c.entry = cells[k].entry /\ c.url = cells[k].url
          /\ c.image = c.url
      BY <1>2, <1>4 DEF Cell
    <2>2. cells' = [cells EXCEPT ![k] = c]
      BY <1>1, <1>4
    <2> HIDE DEF c
    <2>3. cells' = PutCell(k, c)
      <3>1. k \in 1 .. Len(cells) /\ ~(k > Len(cells))
        BY <1>2
      <3>. QED  BY <1>2, <2>2, <3>1 DEF PutCell
    <2>4. /\ CellShapes' /\ DOMAIN cells \subseteq DOMAIN cells'
          /\ \A i \in DOMAIN cells' : cells'[i] = IF i = k THEN c ELSE cells[i]
      BY SMTT(30), <1>2, <2>1, <2>3, PutCellShapes DEF TableInv
    <2>5. Visible' = Visible
      BY <1>1 DEF Visible
    <2>6. \A r \in Visible :
             cells'[cellAt'[r]] = IF cellAt[r] = k THEN c ELSE cells[cellAt[r]]
      BY <1>1, <1>2, <2>4
    <2>7. Placement'
      BY <1>1, <2>4, <2>5 DEF TableInv, Placement
    <2>8. RowsKnown'
      <3> SUFFICES ASSUME ~silent, NEW r \in Visible
                   PROVE  r <= Len(news) /\ cells'[cellAt'[r]].entry = news[r]
        BY <1>1, <2>1, <2>5 DEF TableInv, RowsKnown, RowsShowNews
      <3>1. r <= Len(news) /\ cells[cellAt[r]].entry = news[r]
        BY DEF TableInv, RowsKnown, RowsShowNews
      <3>2. cells'[cellAt'[r]] = IF cellAt[r] = k THEN c ELSE cells[cellAt[r]]
        BY <2>6
      <3>. QED  BY <1>1, <2>1, <3>1, <3>2
    <2>9. ImagesKnown'
      <3> SUFFICES ASSUME NEW r \in Visible
                   PROVE  LET x == cells'[cellAt'[r]]
                          IN  HasImage(x) =>
                                 x.url = Url(x.entry.id, x.style) /\ x.image \in {NoUrl, x.url}
        BY <2>5 DEF ImagesKnown, HasImage
      <3>1. CASE cellAt[r] = k
        <4>1. HasImage(c) => cells[k].url = Url(c.entry.id, c.style)
          BY <2>1, <3>1 DEF TableInv, ImagesKnown, HasImage
        <4>. QED  BY <2>1, <2>6, <3>1, <4>1
      <3>2. CASE cellAt[r] # k
        BY <2>6, <3>2 DEF TableInv, ImagesKnown
      <3>. QED  BY <3>1, <3>2
    <2>. QED  BY <2>4, <2>7, <2>8, <2>9 DEF TableInv
  <1>. QED  BY <1>3, <1>4

\* Nothing is on screen when the table is loaded again.
LEMMA ReloadTable ==
    ASSUME TableInv, Reload, UNCHANGED <<cells, downloads>>, Len(news') \in Nat,
           stored' \in [Channels -> {stored'[ch] : ch \in Channels}],
           \A ch \in Channels : Len(stored'[ch]) \in Nat
    PROVE  TableInv'
  <1>1. Visible' = {} /\ cellAt' \in [1 .. MaxRows -> Nat]
    BY DEF Reload, NoRows, NoCell, Visible
  <1>2. CellShapes' /\ Placement'
    BY <1>1 DEF TableInv, CellShapes, Known, Placement
  <1>3. RowsKnown'
    BY <1>1 DEF Reload, RowsKnown, RowsShowNews
  <1>4. ImagesKnown'
    BY <1>1 DEF ImagesKnown
  <1>. QED  BY <1>2, <1>3, <1>4 DEF TableInv

\* An answer's news are a list.
LEMMA EntriesHaveLength ==
    ASSUME NEW ch \in Channels, NEW batch \in Batches[ch] \cup {<<>>}
    PROVE  Len(Entries(batch)) \in Nat
  <1>1. batch \in Seq(DOMAIN Published)
    <2>1. CASE batch \in Batches[ch]
      BY <2>1, NewsTableAssumption
    <2>2. CASE batch = <<>>
      BY <2>2
    <2>. QED  BY <2>1, <2>2
  <1> DEFINE S == {Entry(batch[i]) : i \in DOMAIN batch}
             e == Entries(batch)
  <1>2. Len(batch) \in Nat /\ DOMAIN batch = 1 .. Len(batch)
    BY <1>1, LenProperties
  <1>3. e \in [1 .. Len(batch) -> S]
    BY <1>2 DEF Entries
  <1> HIDE DEF S, e
  <1>4. e \in Seq(S)
    BY <1>2, <1>3
  <1>. QED  BY <1>4, LenProperties DEF e

\* An answer whose last item fails changes the news behind the table's back.
LEMMA AnswerTable ==
    ASSUME TableInv, NEW ch \in Channels, NEW batch \in Batches[ch] \cup {<<>>},
           NEW lastDecoded \in BOOLEAN, Answer(ch, batch, lastDecoded)
    PROVE  TableInv'
  <1>1. /\ news' = Entries(batch) /\ stored' = [stored EXCEPT ![ch] = Entries(batch)]
        /\ UNCHANGED <<cells, downloads>>
    BY DEF Answer
  <1>2. Len(Entries(batch)) \in Nat
    BY EntriesHaveLength
  <1>3. /\ stored' \in [Channels -> {stored'[d] : d \in Channels}]
        /\ \A d \in Channels : Len(stored'[d]) \in Nat
    BY <1>1, <1>2 DEF TableInv, RowsKnown
  <1>4. CASE lastDecoded
    BY <1>1, <1>2, <1>3, <1>4, ReloadTable DEF Answer
  <1>5. CASE ~lastDecoded
    <2>1. silent' /\ UNCHANGED <<rows, cellAt>>
      BY <1>5 DEF Answer
    <2>2. Visible' = Visible
      BY <2>1 DEF Visible
    <2>. QED
      BY <1>1, <1>2, <1>3, <2>1, <2>2
         DEF TableInv, CellShapes, Known, Placement, RowsKnown, RowsShowNews, ImagesKnown
  <1>. QED  BY <1>4, <1>5

\* A step that leaves news, rows and cells alone.
LEMMA TableUntouched ==
    ASSUME TableInv, UNCHANGED <<news, rows, cellAt, cells, stored, silent>>,
           downloads' \subseteq downloads
    PROVE  TableInv'
  <1>1. Visible' = Visible
    BY DEF Visible
  <1>. QED
    BY <1>1 DEF TableInv, CellShapes, Known, Placement, RowsKnown, RowsShowNews, ImagesKnown

\* Whatever the table, the images, the loads and the details do.
LEMMA TableInvariance == Spec => []TableInv
  <1>1. ReaderInit => TableInv
    <2> SUFFICES ASSUME ReaderInit PROVE TableInv
      OBVIOUS
    <2>1. /\ cells = <<>> /\ DOMAIN cells = {} /\ Visible = {} /\ Len(<<>>) = 0
          /\ cellAt \in [1 .. MaxRows -> Nat]
      BY DEF ReaderInit, Init, Visible, NoRows, NoCell
    <2>2. CellShapes
      BY <2>1 DEF CellShapes, Known
    <2>. QED
      BY <2>1, <2>2 DEF ReaderInit, Init, TableInv, Placement, RowsKnown, RowsShowNews, ImagesKnown
  <1>2. TableInv /\ [ReaderNext]_readerVars => TableInv'
    <2> SUFFICES ASSUME TableInv, [ReaderNext]_readerVars
                 PROVE  TableInv'
      OBVIOUS
    <2>1. CASE Scroll
      BY <2>1, ShowRowTable, HideRowTable DEF Scroll
    <2>2. CASE Arrive
      <3>1. ASSUME NEW d \in downloads, ImageFails(d)
            PROVE  TableInv'
        BY <3>1, TableUntouched DEF ImageFails
      <3>2. ASSUME NEW ch \in Channels, LoadStored(ch)
            PROVE  TableInv'
        BY <3>2, ReloadTable DEF LoadStored, TableInv, RowsKnown
      <3>3. ASSUME NEW ch \in Channels, LoadFromServer(ch) \/ RequestFails(ch)
            PROVE  TableInv'
        BY <3>3, TableUntouched DEF LoadFromServer, RequestFails
      <3>4. CASE Tick
        BY <3>4, TableUntouched DEF Tick
      <3>. QED  BY <2>2, <3>1, <3>2, <3>3, <3>4, ImageArrivesTable, AnswerTable DEF Arrive
    <2>3. CASE UNCHANGED tableVars
      BY <2>3, TableUntouched DEF tableVars
    <2>. QED  BY <2>1, <2>2, <2>3 DEF ReaderNext, TableStep, SelectRow, readerVars
  <1>. QED  BY <1>1, <1>2, PTL DEF Spec

\* Unless news have been replaced behind the table's back, a row on screen
\* shows the news that a tap on it would open.
THEOREM RowsShow == Spec => []RowsShowNews
  <1>1. TableInv => RowsShowNews
    BY DEF TableInv, RowsKnown
  <1>. QED  BY <1>1, TableInvariance, PTL

\* A news with an image of its own never shows that of another one, however
\* cells are reused and however late images arrive.
THEOREM OwnImages == Spec => []ImageIsOwn
  <1>1. TableInv => ImageIsOwn
    BY DEF TableInv, ImagesKnown, ImageIsOwn, HasImage
  <1>. QED  BY <1>1, TableInvariance, PTL

-----------------------------------------------------------------------------
(* What a cell says.                                                       *)

\* A cell without an image view never had an image to show.
PlainCells ==
    \A k \in DOMAIN cells :
        cells[k].style = "Style1" => cells[k].url = NoUrl /\ cells[k].image = NoUrl

\* A cell on screen has the style of its news.
StylesFit ==
    \A r \in Visible :
        LET c == cells[cellAt[r]] IN c.style \in {"none", Style(c.entry.id)}

\* An entry says at most the age of its news.
Timely(e) ==
    e = Blank \/ e.time = Date
        \/ /\ e.id \in DOMAIN Published
           /\ e.time.amount \in Int /\ e.time.unit \in Int
           /\ e.time.amount * e.time.unit <= Clock[now] - Published[e.id]

\* So do those in the list, in the database and on screen.
AllTimely ==
    /\ now \in 1 .. Len(Clock)
    /\ \A i \in 1 .. Len(news) : Timely(news[i])
    /\ \A ch \in Channels : \A i \in 1 .. Len(stored[ch]) : Timely(stored[ch][i])
    /\ \A k \in DOMAIN cells : Timely(cells[k].entry)

CellInv == PlainCells /\ StylesFit /\ AllTimely

\* The minutes of the clock.
LEMMA ClockFacts ==
    /\ Len(Clock) \in Nat \ {0} /\ DOMAIN Clock = 1 .. Len(Clock)
    /\ \A i \in 1 .. Len(Clock) : Clock[i] \in Int
    /\ \A n \in DOMAIN Published : Published[n] \in Int
  BY NewsTableAssumption

\* What timeStampToString says is never more than the age: what is dropped is
\* less than a unit, and the branch that says hours and means days is not
\* reached.
LEMMA TimeTextIsTimely ==
    ASSUME NEW age \in Int
    PROVE  \/ TimeText(age) = Date
           \/ /\ TimeText(age).amount \in Int /\ TimeText(age).unit \in Int
              /\ TimeText(age).amount * TimeText(age).unit <= age
  <1> DEFINE hour == Whole(age, 60)
             day  == Whole(hour, 24)
  <1>1. /\ hour \in Int /\ (hour > 0 => hour * 60 <= age)
        /\ day \in Int /\ (day > 0 => hour >= 24 /\ (day < 2 => hour < 48))
    BY DEF Whole
  <1> HIDE DEF hour, day
  <1>2. TimeText(age) = IF age > 0 /\ age < 60 THEN Ago(age, 1)
                        ELSE IF hour > 0 /\ hour < 60 THEN Ago(hour, 60)
                        ELSE IF day > 0 /\ day < 2 THEN Ago(hour, 1440)
                        ELSE Date
    BY DEF TimeText, hour, day
  <1>3. CASE age > 0 /\ age < 60
    BY <1>2, <1>3 DEF Ago
  <1>4. CASE ~(age > 0 /\ age < 60) /\ hour > 0 /\ hour < 60
    BY <1>1, <1>2, <1>4 DEF Ago
  <1>5. CASE ~(age > 0 /\ age < 60) /\ ~(hour > 0 /\ hour < 60)
    <2>1. ~(day > 0 /\ day < 2)
      BY <1>1, <1>5
    <2>. QED  BY <1>2, <1>5, <2>1
  <1>. QED  BY <1>3, <1>4, <1>5

\* An answer's entries are timely.
LEMMA EntriesAreTimely ==
    ASSUME now \in 1 .. Len(Clock),
           NEW ch \in Channels, NEW batch \in Batches[ch] \cup {<<>>}
    PROVE  \A i \in 1 .. Len(Entries(batch)) : Timely(Entries(batch)[i])
  <1>1. batch \in Seq(DOMAIN Published)
    <2>1. CASE batch \in Batches[ch]
      BY <2>1, NewsTableAssumption
    <2>2. CASE batch = <<>>
      BY <2>2
    <2>. QED  BY <2>1, <2>2
  <1>2. /\ Len(batch) \in Nat /\ DOMAIN batch = 1 .. Len(batch)
        /\ \A i \in DOMAIN batch : batch[i] \in DOMAIN Published
    BY <1>1, LenProperties
  <1>3. Len(Entries(batch)) = Len(batch)
    BY <1>2 DEF Entries
  <1>4. ASSUME NEW n \in DOMAIN Published
        PROVE  Timely(Entry(n))
    <2>1. Clock[now] - Published[n] \in Int
      BY ClockFacts
    <2>2. Entry(n).id = n /\ Entry(n).time = TimeText(Clock[now] - Published[n])
      BY DEF Entry
    <2>. QED  BY <2>1, <2>2, TimeTextIsTimely DEF Timely
  <1>. QED  BY <1>2, <1>3, <1>4 DEF Entries

\* Time makes no entry untimely.
LEMMA TimePasses ==
    ASSUME now \in 1 .. Len(Clock), Tick, NEW e, Timely(e)
    PROVE  Timely(e)'
  <1>1. now' = now + 1 /\ now' \in 1 .. Len(Clock)
    BY ClockFacts DEF Tick
  <1>2. /\ Clock[now] \in Int /\ Clock[now'] \in Int
        /\ Clock[now] < Clock[now']
    BY SMTT(30), <1>1, ClockFacts, NewsTableAssumption
  <1>3. CASE e = Blank \/ e.time = Date
    BY <1>3 DEF Timely
  <1>4. CASE ~(e = Blank \/ e.time = Date)
    <2> DEFINE said == e.time.amount * e.time.unit
    <2>1. said \in Int /\ said <= Clock[now] - Published[e.id] /\ Published[e.id] \in Int
      BY <1>4, ClockFacts DEF Timely
    <2> HIDE DEF said
    <2>2. said <= Clock[now'] - Published[e.id]
      BY <1>2, <2>1
    <2>. QED  BY <1>4, <2>2 DEF Timely, said
  <1>. QED  BY <1>3, <1>4

\* A row comes on screen.
LEMMA ShowRowCells ==
    ASSUME TableInv, CellInv, NEW r \in 1 .. MaxRows, ShowRow(r)
    PROVE  CellInv'
  <1>k. PICK k \in 1 .. Len(cells) + 1 : \E c : RowCell(r, k, c)
    BY ShowRowCell
  <1>1. PICK c : RowCell(r, k, c)
    BY <1>k
  <1>2. /\ c.style \in {"none", Style(c.entry.id)}
        /\ c.entry \in KnownEntries
        /\ c.style = "Style1" => <<c.url, c.image>> \in PlainBindings
    BY <1>1 DEF RowCell
  <1>3. /\ \A i \in DOMAIN cells' : cells'[i] = IF i = k THEN c ELSE cells[i]
        /\ \A i \in DOMAIN cells' : i # k => i \in DOMAIN cells
        /\ Visible' = Visible \cup {r}
        /\ cells'[cellAt'[r]] = c
        /\ \A q \in Visible : cells'[cellAt'[q]] = cells[cellAt[q]]
    BY <1>1, RowCellEffect
  <1>4. UNCHANGED <<news, stored, now>>
    BY DEF ShowRow
  <1>5. PlainCells'
    <2>1. c.style = "Style1" => c.url = NoUrl /\ c.image = NoUrl
      BY <1>2 DEF CellInv, PlainCells, PlainBindings
    <2>. QED  BY <1>3, <2>1 DEF CellInv, PlainCells
  <1>6. StylesFit'
    <2> SUFFICES ASSUME NEW q \in Visible'
                 PROVE  cells'[cellAt'[q]].style
                            \in {"none", Style(cells'[cellAt'[q]].entry.id)}
      BY DEF StylesFit, Style
    <2>1. CASE q = r
      BY <1>2, <1>3, <2>1
    <2>2. CASE q \in Visible
      <3>1. cells[cellAt[q]].style \in {"none", Style(cells[cellAt[q]].entry.id)}
        BY <2>2 DEF CellInv, StylesFit
      <3>. QED  BY <1>3, <2>2, <3>1
    <2>. QED  BY <1>3, <2>1, <2>2
  <1>7. AllTimely'
    <2>1. Timely(c.entry)
      BY <1>2 DEF CellInv, AllTimely, KnownEntries, Timely
    <2>2. \A e : Timely(e)' <=> Timely(e)
      BY <1>4 DEF Timely
    <2>. QED  BY <1>3, <1>4, <2>1, <2>2 DEF CellInv, AllTimely
  <1>. QED  BY <1>5, <1>6, <1>7 DEF CellInv

\* An image arrives.
LEMMA ImageArrivesCells ==
    ASSUME TableInv, CellInv, NEW d \in downloads, ImageArrives(d)
    PROVE  CellInv'
  <1>1. /\ UNCHANGED <<news, cellAt, stored, now>>
        /\ cells' = IF cells[d[1]].url = d[2]
                    THEN [cells EXCEPT ![d[1]].image = d[2]] ELSE cells
    BY DEF ImageArrives
  <1>2. /\ d[1] \in DOMAIN cells
        /\ \A k \in DOMAIN cells :
              cells[k] = Cell(cells[k].style, cells[k].entry, cells[k].url, cells[k].image)
        /\ \A r \in Visible : cellAt[r] \in DOMAIN cells
    BY CellNumbers DEF TableInv, Placement
  <1>3. /\ DOMAIN cells' = DOMAIN cells
        /\ \A k \in DOMAIN cells :
              /\ cells'[k].style = cells[k].style /\ cells'[k].entry = cells[k].entry
              /\ cells'[k].url = cells[k].url
              /\ cells'[k].image \in {cells[k].image, cells[k].url}
    BY <1>1, <1>2 DEF Cell
  <1>4. Visible' = Visible
    BY <1>1 DEF Visible
  <1>5. PlainCells'
    BY <1>3 DEF CellInv, PlainCells
  <1>6. StylesFit'
    <2> SUFFICES ASSUME NEW r \in Visible
                 PROVE  cells'[cellAt'[r]].style
                            \in {"none", Style(cells'[cellAt'[r]].entry.id)}
      BY <1>4 DEF StylesFit, Style
    <2>1. cells[cellAt[r]].style \in {"none", Style(cells[cellAt[r]].entry.id)}
      BY DEF CellInv, StylesFit
    <2>2. cellAt'[r] = cellAt[r] /\ cellAt[r] \in DOMAIN cells
      BY <1>1, <1>2
    <2>. QED  BY <1>3, <2>1, <2>2
  <1>7. AllTimely'
    <2>1. \A e : Timely(e)' <=> Timely(e)
      BY <1>1 DEF Timely
    <2>. QED  BY <1>1, <1>3, <2>1 DEF CellInv, AllTimely
  <1>. QED  BY <1>5, <1>6, <1>7 DEF CellInv

\* A step that leaves the cells and the time alone, and whose news are timely.
LEMMA CellsUntouched ==
    ASSUME CellInv, UNCHANGED <<cells, now>>,
           Visible' \subseteq Visible, \A r \in Visible' : cellAt'[r] = cellAt[r],
           \A i \in 1 .. Len(news') : Timely(news'[i]),
           \A ch \in Channels : \A i \in 1 .. Len(stored'[ch]) : Timely(stored'[ch][i])
    PROVE  CellInv'
  <1>1. \A e : Timely(e)' <=> Timely(e)
    BY DEF Timely
  <1>2. PlainCells' /\ StylesFit'
    BY DEF CellInv, PlainCells, StylesFit, Style
  <1>3. AllTimely'
    BY <1>1 DEF CellInv, AllTimely
  <1>. QED  BY <1>2, <1>3 DEF CellInv

\* An answer brings timely news.
LEMMA AnswerCells ==
    ASSUME TableInv, CellInv, NEW ch \in Channels, NEW batch \in Batches[ch] \cup {<<>>},
           NEW lastDecoded \in BOOLEAN, Answer(ch, batch, lastDecoded)
    PROVE  CellInv'
  <1>1. /\ news' = Entries(batch) /\ stored' = [stored EXCEPT ![ch] = Entries(batch)]
        /\ UNCHANGED <<cells, now>>
    BY DEF Answer
  <1>2. \A i \in 1 .. Len(Entries(batch)) : Timely(Entries(batch)[i])
    BY EntriesAreTimely DEF CellInv, AllTimely
  <1>3. \A c \in Channels : \A i \in 1 .. Len(stored'[c]) : Timely(stored'[c][i])
    BY <1>1, <1>2 DEF TableInv, RowsKnown, CellInv, AllTimely
  <1>4. Visible' \subseteq Visible /\ \A r \in Visible' : cellAt'[r] = cellAt[r]
    BY DEF Answer, Reload, NoRows, NoCell, Visible
  <1>. QED  BY <1>1, <1>2, <1>3, <1>4, CellsUntouched

\* Whatever comes by itself.
LEMMA ArriveCells ==
    ASSUME TableInv, CellInv, Arrive
    PROVE  CellInv'
  <1>1. ASSUME NEW d \in downloads, ImageFails(d)
        PROVE  CellInv'
    BY <1>1, CellsUntouched DEF ImageFails, Visible, CellInv, AllTimely
  <1>2. ASSUME NEW ch \in Channels, LoadStored(ch)
        PROVE  CellInv'
    <2>1. Visible' = {}
      BY <1>2 DEF LoadStored, Reload, NoRows, NoCell, Visible
    <2>. QED  BY <1>2, <2>1, CellsUntouched DEF LoadStored, CellInv, AllTimely
  <1>3. ASSUME NEW ch \in Channels, LoadFromServer(ch) \/ RequestFails(ch)
        PROVE  CellInv'
    BY <1>3, CellsUntouched DEF LoadFromServer, RequestFails, Visible, CellInv, AllTimely
  <1>4. CASE Tick
    <2>1. UNCHANGED <<news, cellAt, cells, stored>> /\ now' \in 1 .. Len(Clock)
      BY <1>4, ClockFacts DEF Tick, CellInv, AllTimely
    <2>2. PlainCells' /\ StylesFit'
      BY <2>1 DEF CellInv, PlainCells, StylesFit, Style, Visible
    <2>3. \A e : Timely(e) => Timely(e)'
      BY <1>4, TimePasses DEF CellInv, AllTimely
    <2>4. AllTimely'
      BY <2>1, <2>3 DEF CellInv, AllTimely
    <2>. QED  BY <2>2, <2>4 DEF CellInv
  <1>. QED  BY <1>1, <1>2, <1>3, <1>4, ImageArrivesCells, AnswerCells DEF Arrive

\* Whatever happens to the table, its images and its news.
LEMMA CellInvariance == Spec => [](TableInv /\ CellInv)
  <1>1. ReaderInit => CellInv
    <2> SUFFICES ASSUME ReaderInit PROVE CellInv
      OBVIOUS
    <2>1. /\ DOMAIN cells = {} /\ Visible = {} /\ Len(news) = 0
          /\ \A ch \in Channels : Len(stored[ch]) = 0
          /\ now \in 1 .. Len(Clock)
      BY ClockFacts DEF ReaderInit, Init, Visible, NoRows, NoCell
    <2>. QED  BY <2>1 DEF CellInv, PlainCells, StylesFit, AllTimely
  <1>2. TableInv /\ CellInv /\ [ReaderNext]_readerVars => CellInv'
    <2> SUFFICES ASSUME TableInv, CellInv, [ReaderNext]_readerVars
                 PROVE  CellInv'
      OBVIOUS
    <2>1. ASSUME NEW r \in 1 .. MaxRows, HideRow(r)
          PROVE  CellInv'
      <3>1. Visible' \subseteq Visible /\ \A q \in Visible' : cellAt'[q] = cellAt[q]
        BY <2>1 DEF HideRow, Visible, TableInv, Placement
      <3>. QED  BY <2>1, <3>1, CellsUntouched DEF HideRow, CellInv, AllTimely
    <2>2. CASE UNCHANGED tableVars
      BY <2>2, CellsUntouched DEF tableVars, Visible, CellInv, AllTimely
    <2>. QED  BY <2>1, <2>2, ShowRowCells, ArriveCells
              DEF ReaderNext, TableStep, Scroll, SelectRow, readerVars
  <1>. QED  BY <1>1, <1>2, TableInvariance, PTL DEF Spec

\* A news without any image is shown by a cell that has no image view and
\* never had an image, however the cells are reused.
THEOREM PlainNewsArePlain == Spec => []NoImageNoView
  <1>1. TableInv /\ CellInv => NoImageNoView
    <2> SUFFICES ASSUME TableInv, CellInv, NEW r \in Visible,
                        cells[cellAt[r]].style # "none",
                        MiddleImage[cells[cellAt[r]].entry.id] = NoImage,
                        ImageList[cells[cellAt[r]].entry.id] \in {NoList, <<>>}
                 PROVE  cells[cellAt[r]].image = NoUrl
      BY DEF NoImageNoView
    <2>1. cells[cellAt[r]].style = "Style1"
      BY DEF CellInv, StylesFit, Style
    <2>. QED  BY <2>1 DEF CellInv, PlainCells, TableInv, Placement
  <1>. QED  BY <1>1, CellInvariance, PTL

\* A relative time on screen never makes a news older than it is, for any
\* clock and any time of publication, be it read back from the database.
THEOREM TimesAreRight == Spec => []TimeIsRight
  <1>1. TableInv /\ CellInv => TimeIsRight
    BY DEF TimeIsRight, CellInv, AllTimely, Timely, TableInv, Placement
  <1>. QED  BY <1>1, CellInvariance, PTL
=============================================================================
