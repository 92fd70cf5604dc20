------------------------------ MODULE NewsTable ------------------------------
(***************************************************************************)
(* The table view of one NewsListVC: its data source and delegate, the     *)
(* choice of a cell by NewsCell, what NewsCellStyle1-3 bind to a reused    *)
(* cell, and the images that Kingfisher loads into it.  Loading itself is  *)
(* the subject of NewsList.tla; here a load is one step, and what matters  *)
(* is that it may replace the view model's news without telling the table. *)
(*                                                                         *)
(* A cell has one image view: the three of NewsCellStyle3 are bound by     *)
(* three statements that differ in the index only.  Time is in minutes.    *)
(***************************************************************************)
EXTENDS Integers, Sequences, SequencesExt

CONSTANTS
    Channels,
    Batches,        \* Batches[ch]: the lists of news the server may send for ch
    ImageList,      \* ImageList[n]: the URLs of image_list, or NoList
    MiddleImage,    \* MiddleImage[n]: the URL of middle_image, or NoImage
    Published,      \* Published[n]: the minute n was published
    Clock,          \* bound: the minutes at which something happens, ascending
    MaxRows,        \* bound: the longest list of news
    OnScreen        \* bound: how many rows fit the screen

NoList  == <<"no list">>
NoImage == "no image"
BadUrl  == "bad url"     \* a URL that URL(with:) cannot parse
NoUrl   == "no url"
NoCell  == 0

ASSUME NewsTableAssumption ==
    /\ MaxRows \in Nat /\ OnScreen \in Nat \ {0}
    /\ \A ch \in Channels : \A batch \in Batches[ch] :
          batch \in Seq(DOMAIN Published) /\ Len(batch) <= MaxRows
    /\ \A n \in DOMAIN Published : Published[n] \in Int
    /\ Clock \in Seq(Int) /\ Clock # <<>>
    /\ \A i, j \in DOMAIN Clock : i < j => Clock[i] < Clock[j]

VARIABLES
    news,        \* viewModel.news: the news with their publishTimeString
    rows,        \* the rows the table view knows of
    cellAt,      \* cellAt[r]: the cell on screen in row r, or NoCell
    cells,       \* all cells ever created
    downloads,   \* images on their way: cell and URL
    stored,      \* stored[ch]: the news in the database
    asked,       \* channels whose request has not been answered
    silent,      \* whether news changed without reloadData
    now,         \* the present, an index of Clock
    indicator    \* isNetworkActivityIndicatorVisible

tableVars == <<news, rows, cellAt, cells, downloads, stored, asked, silent, now>>
vars == <<tableVars, indicator>>

NoRows == [r \in 1 .. MaxRows |-> NoCell]

Init ==
    /\ news = <<>> /\ rows = 0 /\ cellAt = NoRows /\ cells = <<>>
    /\ downloads = {} /\ stored = [ch \in Channels |-> <<>>] /\ asked = {}
    /\ silent = FALSE /\ now = 1 /\ indicator = FALSE

-----------------------------------------------------------------------------
(* timeStampToString.                                                      *)

\* Swift's Int() drops the fraction towards zero.
Whole(a, b) == IF a >= 0 THEN a \div b ELSE -((-a) \div b)

\* A relative time says amount and unit, in minutes; a date says neither.
Ago(amount, unit) == [amount |-> amount, unit |-> unit]
Date == Ago(0, 0)

\* Mutant: hours end where days begin.
TimeTextByDay(age) ==
    LET hour == Whole(age, 60)
        day  == Whole(hour, 24)
    IN  CASE age > 0 /\ age < 60  -> Ago(age, 1)
          [] age >= 60 /\ hour < 24 -> Ago(hour, 60)
          [] hour >= 24 /\ day < 2  -> Ago(hour, 1440)
          [] OTHER -> Date

\* The last branch but one says the number of hours where it means days.
TimeText(age) ==
    LET hour == Whole(age, 60)
        day  == Whole(hour, 24)
    IN  IF age > 0 /\ age < 60 THEN Ago(age, 1)
        ELSE IF hour > 0 /\ hour < 60 THEN Ago(hour, 60)
        ELSE IF day > 0 /\ day < 2 THEN Ago(hour, 1440)
        ELSE Date

Entry(n) == [id |-> n, time |-> TimeText(Clock[now] - Published[n])]

-----------------------------------------------------------------------------
(* Cells.                                                                  *)

\* Mutant: an empty list of images is taken for a short one.
StyleOfShortList(n) ==
    IF ImageList[n] = NoList
    THEN IF MiddleImage[n] = NoImage THEN "Style1" ELSE "Style2"
    ELSE IF Len(ImageList[n]) < 3 THEN "Style2" ELSE "Style3"

\* NewsCell: which cell a news gets.
Style(n) ==
    IF ImageList[n] = NoList
    THEN IF MiddleImage[n] = NoImage THEN "Style1" ELSE "Style2"
    ELSE IF Len(ImageList[n]) = 0 THEN "Style1"
    ELSE IF Len(ImageList[n]) < 3 THEN "Style2" ELSE "Style3"

Parsed(url) == IF url \in {NoImage, BadUrl} THEN NoUrl ELSE url

\* The URL bindData hands to Kingfisher, if any.
Url(n, style) ==
    CASE style = "Style2" -> Parsed(MiddleImage[n])
      [] style = "Style3" -> Parsed(ImageList[n][1])
      [] OTHER -> NoUrl

\* A cell: its style, the news it shows, the URL asked for last (webURL) and
\* the image in its image view.
Cell(style, entry, url, image) ==
    [style |-> style, entry |-> entry, url |-> url, image |-> image]

Blank == [id |-> "blank", time |-> Date]

Queue(style) ==
    {k \in DOMAIN cells : cells[k].style = style /\ \A r \in 1 .. MaxRows : cellAt[r] # k}

\* dequeueReusableCell: a cell that left the screen, or a new one.
Dequeued(style) ==
    IF Queue(style) = {} THEN Len(cells) + 1 ELSE CHOOSE k \in Queue(style) : TRUE

\* Mutant: the image of the cell's former news stays until the new one comes.
BoundKeeping(old, style, entry) ==
    IF Url(entry.id, style) = NoUrl THEN Cell(style, entry, old.url, old.image)
    ELSE Cell(style, entry, Url(entry.id, style), old.image)

\* bindData: Kingfisher's setImage empties the image view and remembers the
\* URL; without a usable one it is not called, and the view stays as it was.
Bound(old, style, entry) ==
    IF Url(entry.id, style) = NoUrl THEN Cell(style, entry, old.url, old.image)
    ELSE Cell(style, entry, Url(entry.id, style), NoUrl)

NewCell(style) == Cell(style, Blank, NoUrl, NoUrl)

PutCell(k, c) == [i \in 1 .. (IF k > Len(cells) THEN k ELSE Len(cells)) |->
                     IF i = k THEN c ELSE cells[i]]

Visible == {r \in 1 .. MaxRows : cellAt[r] # NoCell}

\* cellForRowAt: a row the news no longer reach gets an empty cell.
ShowRow(r) ==
    /\ r <= rows /\ r \notin Visible
    /\ \A q \in Visible : q - r < OnScreen /\ r - q < OnScreen
    /\ LET entry == IF r > Len(news) THEN Blank ELSE news[r]
           style == IF r > Len(news) THEN "none" ELSE Style(entry.id)
           k     == Dequeued(style)
           old   == IF k > Len(cells) THEN NewCell(style) ELSE cells[k]
           url   == IF style = "none" THEN NoUrl ELSE Url(entry.id, style)
       IN  /\ cellAt' = [cellAt EXCEPT ![r] = k]
           /\ cells' = PutCell(k, IF style = "none" THEN old ELSE Bound(old, style, entry))
           /\ downloads' = IF url = NoUrl THEN downloads
                           ELSE downloads \cup {<<k, url>>}
    /\ UNCHANGED <<news, rows, stored, asked, silent, now, indicator>>

\* A row scrolled off the screen gives its cell back.
HideRow(r) ==
    /\ r \in Visible
    /\ cellAt' = [cellAt EXCEPT ![r] = NoCell]
    /\ UNCHANGED <<news, rows, cells, downloads, stored, asked, silent, now, indicator>>

\* An image arrives; it is shown if the cell has not been told another URL.
\* A failed download changes nothing but its being under way.
ImageArrives(d) ==
    /\ d \in downloads
    /\ downloads' = downloads \ {d}
    /\ cells' = IF cells[d[1]].url = d[2]
                THEN [cells EXCEPT ![d[1]].image = d[2]] ELSE cells
    /\ UNCHANGED <<news, rows, cellAt, stored, asked, silent, now, indicator>>

ImageFails(d) ==
    /\ d \in downloads
    /\ downloads' = downloads \ {d}
    /\ UNCHANGED <<news, rows, cellAt, cells, stored, asked, silent, now, indicator>>

-----------------------------------------------------------------------------
(* Loads.                                                                  *)

\* Mutant: the rows on screen keep their cells.
ReloadNewRows ==
    /\ rows' = Len(news')
    /\ UNCHANGED cellAt
    /\ silent' = FALSE

\* reloadData: every cell goes back, the rows are counted again.
Reload ==
    /\ rows' = Len(news')
    /\ cellAt' = NoRows
    /\ silent' = FALSE

\* Rows in the database replace the news.
LoadStored(ch) ==
    /\ stored[ch] # <<>>
    /\ news' = stored[ch]
    /\ Reload
    /\ UNCHANGED <<cells, downloads, stored, asked, now, indicator>>

\* Otherwise the server is asked; the plugin turns the indicator on.
LoadFromServer(ch) ==
    /\ stored[ch] = <<>> /\ ch \notin asked
    /\ asked' = asked \cup {ch}
    /\ indicator' = TRUE
    /\ UNCHANGED <<news, rows, cellAt, cells, downloads, stored, silent, now>>

Entries(batch) == [i \in DOMAIN batch |-> Entry(batch[i])]

\* The news that could be decoded replace the view model's and are stored;
\* the table is reloaded only if the last item of the answer was one of them.
Answer(ch, batch, lastDecoded) ==
    /\ ch \in asked
    /\ asked' = asked \ {ch}
    /\ indicator' = FALSE
    /\ news' = Entries(batch)
    /\ stored' = [stored EXCEPT ![ch] = Entries(batch)]
    /\ IF lastDecoded THEN Reload
       ELSE silent' = TRUE /\ UNCHANGED <<rows, cellAt>>
    /\ UNCHANGED <<cells, downloads, now>>

\* Mutant: the plugin hears of answers only.
RequestFailsUnheard(ch) ==
    /\ ch \in asked
    /\ asked' = asked \ {ch}
    /\ UNCHANGED <<news, rows, cellAt, cells, downloads, stored, silent, now, indicator>>

\* The request fails: only the plugin hears of it.
RequestFails(ch) ==
    /\ ch \in asked
    /\ asked' = asked \ {ch}
    /\ indicator' = FALSE
    /\ UNCHANGED <<news, rows, cellAt, cells, downloads, stored, silent, now>>

Tick ==
    /\ now < Len(Clock)
    /\ now' = now + 1
    /\ UNCHANGED <<news, rows, cellAt, cells, downloads, stored, asked, silent, indicator>>

Scroll == \E r \in 1 .. MaxRows : ShowRow(r) \/ HideRow(r)

\* What comes by itself: images, rows, answers and time.
Arrive ==
    \/ \E d \in downloads : ImageArrives(d) \/ ImageFails(d)
    \/ \E ch \in Channels :
          \/ LoadStored(ch) \/ LoadFromServer(ch) \/ RequestFails(ch)
          \/ \E batch \in Batches[ch] : Answer(ch, batch, TRUE)
          \/ \E batch \in Batches[ch] \cup {<<>>} : Answer(ch, batch, FALSE)
    \/ Tick

-----------------------------------------------------------------------------
(* Properties.                                                             *)

\* Unless news have been replaced behind the table's back, a row on screen
\* shows the news a tap on it would open, and the tap cannot index out of
\* range (didSelectRowAt subscripts viewModel.news without a check).
RowsShowNews ==
    ~silent => \A r \in Visible :
                  r <= Len(news) /\ cells[cellAt[r]].entry = news[r]

\* A news that comes with an image of its own never shows that of another
\* one: not the image the reused cell had, not one that arrives late.
ImageIsOwn ==
    \A r \in Visible :
        LET c == cells[cellAt[r]]
        IN  c.style \in {"Style2", "Style3"} /\ Url(c.entry.id, c.style) # NoUrl
              => c.image \in {NoUrl, Url(c.entry.id, c.style)}

\* A news without any image has no cell with an image view, which would keep
\* the image of the news before it.
NoImageNoView ==
    \A r \in Visible :
        LET c == cells[cellAt[r]]
        IN  c.style # "none" /\ MiddleImage[c.entry.id] = NoImage
               /\ ImageList[c.entry.id] \in {NoList, <<>>}
              => c.image = NoUrl

\* A relative time, computed when the news arrived and stored since, never
\* makes a news older than it is: not at the turn of the hour or the day,
\* where the last branch but one would say hours and call them days, and not
\* for rows read back from the database.
TimeIsRight ==
    \A r \in Visible :
        LET e == cells[cellAt[r]].entry
        IN  e # Blank /\ e.time # Date =>
                e.time.amount * e.time.unit <= Clock[now] - Published[e.id]
=============================================================================
