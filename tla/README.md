# A specification of the RX+Moya news reader

The application (about 2,200 lines of Swift under `src/RX+Moya/RX+Moya`) shows
news channels as horizontally paged lists and opens single news. Its own
documentation is one line (MVVM, Moya, RxSwift, WCDB) and it has no tests. Under
it lie vendored libraries; the one whose behaviour decides what a kill or a
second thread can do to the stored news is the write-ahead log of sqlcipher,
`Pods/WCDB.swift/sqlcipher/src/wal.c`. These modules describe what the code does
with its controllers, cells, queues, requests and files, check it with TLC and
prove the most important parts with TLAPS.

## 1. Inventory

| Part | State | Operations | Hard behaviour | What makes it correct |
|---|---|---|---|---|
| **PageViewController** (`Component`) | visible controllers, reuse pool, each controller's frame, `currentPage`, `direction` | `viewDidLoad`, `loadPage`, four scroll view callbacks, `pageDidChange` | any order of jumps; interrupted animations; early return at offset 0 | one controller per page of the window; at most three controllers; the delegate hears of every page that settles |
| **ChannelView** (title bar) | selected title | a tap, `selectItem` | two writers of the selection | title and page agree at rest |
| **MainContainVC** | lazily built container, `channels` through its view model | delegate and data source of the container, `setupUI`, bars on appearing and disappearing | reused controllers keep their news | the page shows its own channel's news |
| **NewsListVC / NewsListViewModel** | `channelName`, `news`, the rows the table view counted | `loadData(channel:)`, database answer, server answer, data source, tap on a row | late answers; `channelName` re-read in a callback; news replaced without a reload | never news of a channel that was not asked for; loads end with news; rows and news agree |
| **News cells** (`NewsCell`, styles 1-3) | reused cells, their image and its URL | choice of a style, `bindData`, images that arrive | stale images, late downloads | no news shows another one's image |
| **NewsListDB** | table `NewsList` | read, delete with completion, insert | the insert is queued by the delete's completion; statements throw; kills | no mixed, lost or doubled rows |
| **DBManager** | serial queue, tables | `createAllTable` | failure only printed | the tables precede the first statement |
| **ChannelDB / ChannelViewModel** | table `Channel`, `channels` | `getChannel` and its two branches | kill between delete and insert; two different filters | one list or none is stored; the UI is set up exactly once |
| **AppDelegate** | – | launch | order of the first two blocks | see DBManager |
| **Network, ApiTargetType, NewsApi** | requests in flight | `request` | completion not called on failure | the caller is told the outcome |
| **ActivityPlugin** | one flag | `willSend`, `didReceive` | concurrent requests of several screens share it | off when nothing is in flight |
| **DetailVC / DetailViewModel / NewsDetail** | the news, the web view's page, the bars | push, pop, cancelled pop, request, HTML rewriting | units of indices; answers to a screen that is gone; order of UIKit's callbacks | every placeholder becomes its picture; bars match the screen on top |
| **Helpers** | none | `timeStampToString`, geometry, colours | ranges of the time text | a news never looks older than it is |
| **Write-ahead log** (`wal.c`, configured by WCDB) | log, database file, wal-index, locks | read and write transactions, passive checkpoint, restart of the log, recovery | every step of readers, a writer, the checkpointer and a kill interleave | readers see one committed state; commits are atomic and none is lost |
| **Other Pods** | – | third-party | – | out of scope |

How they interact. On the **main thread**, UIKit calls the container, the
container calls its delegate (`MainContainVC`), which calls
`NewsListVC.loadData(channel:)`; network completions also run there. On
**`DBManager.dbQueue`**, a serial queue, run all database blocks; a read
answers by queueing a callback on the main queue, a delete calls its completion
on the database queue, which queues the insert behind whatever came meanwhile.
Below, the statements are transactions of the log, and WCDB's own timer thread
(`TimedQueue.swift`) checkpoints through a handle of its own. The **server**
answers requests in any order. So the real concurrency is: main thread, database
queue, checkpointer, server, process death, and the user's finger.

## 2. Modules

| Module | Models | Composed of |
|---|---|---|
| `PagePool` | what the container promises about its list controllers (abstract) | – |
| `PageViewController` | the container's arrays and handlers, the title bar, one finger | implements `PagePool` |
| `NewsList` | loading news into list controllers: main queue, database queue, requests, table, kills | – |
| `NewsPages` | `MainContainVC`: container, delegate and lists together | `PageViewController`, `NewsList` |
| `ChannelStartup` | launch, tables, channel list, `setupUI`, kills and relaunches | – |
| `NewsTable` | one table view: rows, reused cells, images, time texts | – |
| `DetailText` | the rewriting of a news' HTML, and what it should give | – |
| `DetailScreen` | push and pop, bars, request and text of a detail | `DetailText` |
| `Reader` | table and details together, with the indicator they share | `NewsTable`, `DetailScreen` |
| `AtomicStore` | what a storage engine promises (abstract) | – |
| `WalLog` | `wal.c`: log, wal-index, locks, checkpoint, recovery | implements `AtomicStore` |
| `*Proofs` | theorems | their components |
| `MC*` | constants for TLC | their components |

### PagePool
`place[v]` says where controller `v` is: on a page, parked in
`reuseViewControllers`, or not created. `LoadPage(p)` fixes which controllers
stay (those in the window, except one on page 0, since `vc.view.frame.origin.x
== 0` is taken for "never placed"), which pages are served afterwards, and that
a controller is created only when none is parked. Which parked controller serves
which page is left open.

### PageViewController
`visible`, `reuse`, `frame`, `currentPage` and `direction` are the properties of
the class; `offset`, `motion` and `target` are the scroll view; `selected` is
the highlighted title. `LoadPage` is the whole of `loadPage`, with the loop that
compares frames (`Leaves`), `pagesFrames` after it (`Wanted`), first-out-first
reuse (`Dequeued`) and the frames set by `addChildViewController` (`Placed`).
`DelegateCalls` is `pageDidChange`: it reads the state `loadPage` left, so the
model evaluates it in the new state. `Settle` is the body shared by the two
settling handlers, with their early return.

UIKit is external, modelled by what the handlers observe:
* offsets are counted in half pages, which is all that `roundf` tells apart, and
  a drag may pull half a page beyond either end (the bounce);
* a drag begins with a movement and interrupts an animation or a deceleration;
* a lifted finger leads to a page in the direction of the velocity or to the
  nearest one, and when it lifts exactly there no callback follows;
* a tap during a motion turns it into the animation to the tapped page.

### NewsList
One action per block or callback: `LoadAll` (one or two `loadData(channel:)`
calls in one main-thread step), `RunGet`, `RunDelete`, `RunInsert` on the
database queue, `DeliverRows` (the answer of the read: show, or ask the server
for the channel the controller has *now*), `Respond`, `RequestFails`, `Crash`.
The news of one response are one batch, numbered by its request: they are
decoded, shown, stored and deleted together. `Outcomes` says how a response may
be decoded: `ok`, `lastBad` (some news, but the last item fails, so that the
status is `serviceError` and the table view is not reloaded), `none`, and `fail`
(`Network` calls nobody).

`asked`, `answer` and `overlapped` are history variables: no guard reads them.

### NewsPages
`NewsPages` instantiates both components. A gesture is one step here, because
scrolling touches no controller between settling points: `Drag` lifts the finger
at some offset with some velocity (`Lift`), `Jump` taps a title. The direction is
the velocity's, as in `scrollViewWillEndDragging`: a finger that is still when it
is lifted counts as a drag to the left, whichever way the page then settles
(`DirectionOf`). A finger lifted exactly on a page changes the offset and calls no
handler (`RestsOn`); otherwise the content settles and the handler runs
(`SettlesOn`). `Answers` is the decision of the two delegate methods; `Delegate`
turns the calls into loads. The page number of a controller is the channel it
should show.

`Users` bounds what kinds of user there are: whether titles are tapped (`jumps`),
whether a finger may be still when it is lifted (`still`), whether the content is
caught before it settles and gestures come while loads are running (`hasty`), then
with how many blocks and requests under way (`unfinished`), and how many pages,
gestures and failing statements (`reach`, `gestures`, `failures`). `MaxGestures`
bounds the gestures, and with them the loads (two per handler), so that the bound
of `NewsList` never holds a load back.

### ChannelStartup
`Launch` queues `createAllTable` and the first read, as `AppDelegate` and
`MainContainVC.viewDidLoad` do; `Kill` loses both queues and the request and
keeps tables and rows. A list of channels is the set of its categories, which is
all the filters look at. The two branches of `getChannel` hide different
categories (`ChannelViewModel.swift:24` and the server branch): a second launch
drops `news_local` and `video` from the list the first one showed. Both filters
are kept; nothing in the repository says which is meant.

### NewsTable, DetailText, DetailScreen, Reader
`NewsTable` is the data source and delegate of one list (`ShowRow`, `HideRow`,
`Reload`), `NewsCell`'s choice of a style and the binding of a reused cell.
Kingfisher's `setImage` is modelled by what it does to a cell: it empties the
image view, remembers the URL, and a finished download is shown only if the URL
is still the one remembered. The three image views of style 3 are bound by three
like statements and stand as one. `silent` records that an answer replaced
`viewModel.news` without `reloadData` (its last item failed, or nothing could be
decoded). `TimeText` is `timeStampToString`, on minutes.

`DetailText` represents a text as a sequence of characters of which one kind,
`"wide"`, counts two UTF-16 units; a placeholder tag is three characters. `aTags`
cuts the matches of the regular expression out at unit offsets taken for
`Character` offsets, as the code does; `ReplaceTags` replaces for every image,
for every tag. `Expected` is the reference definition: every placeholder of a
known image is its picture and everything else is untouched. Left out are texts
in which `</header>` comes first (the range traps) and URIs of which one is a
part of another.

`DetailScreen` names the functions that `viewWillAppear` and its relatives apply
to the bars and composes them in UIKit's order: the incoming controller's
`viewWillAppear` at once, at the end `viewDidDisappear` of the outgoing one before
`viewDidAppear` of the incoming one; a cancelled pop calls the detail's
`viewWillAppear` and the main screen's disappearance again. Touches are ignored
during a transition, so pushes happen at rest only. A request outlives its screen;
its closures hold it weakly (`Gone`).

`Reader` lets the list go on loading while a detail covers it and lets all
requests share the indicator.

### AtomicStore and WalLog
`AtomicStore` is the promise: `Begin` gives a connection the present state,
`Offer` and `Commit` are a transaction that succeeds only if nobody committed
since it began, `Kill` loses at most the commit under way, wholly or not at all.

`WalLog` has one action per access to shared memory, lock or file that another
process could come between: `ReadHdr` ... `Verify` are the attempts of
`walTryBeginRead`, `BeginWrite` ... `PublishHdr` a write transaction with
`walRestartLog` and `sqlite3WalFrames`, `Ckpt*` is `walCheckpoint`, `Recover` is
`walIndexRecover` with the salt and checksum test of `walDecodeFrame`. What is
simplified:
* the two copies and the checksum of the header make reading and writing it one
  step (`walIndexTryHdr`); the search for a read mark and the lock of its slot
  are one step; the index entries of a transaction appear with its header;
* there is no cache spill: frames are written at commit, so that a write that fails
  does so at the log's header or at a frame, of which a part may be in the file
  (`Undo`); a transaction writes one of the lists in `WriteLists`; every page exists
  from the start;
* the log fits the first page of the wal-index (`HASHTABLE_NPAGE_ONE`, 4062 frames;
  WCDB asks for a checkpoint from 1000 on): it is mapped with the header, so that
  `walIndexAppend` cannot fail. In a longer log it can, behind a commit frame that
  is in the file already (`wal.c:3163`); then the transaction is rolled back and
  found by a later recovery;
* `WAL_NREADER` is 5 in the code and `Slots + 1` here: `Slots` is a constant, and
  the theorems hold for every value;
* a restart adds one to the salt (the code also draws a random second one);
* only the passive checkpoint that WCDB issues; closing, `FULL`, `RESTART` and
  `TRUNCATE` checkpoints, savepoints and power failure are not modelled (the
  process is killed, files keep what was written);
* the checkpointer copies the pages it has left (`ckpt.left`) in their order, one
  per step;
* outside a transaction a connection's copies are forgotten, because the code
  reads them again before it uses them.

`IdleCheckpoints` says whether a checkpoint may begin although everything is
copied already. It may, in the code; with `TRUE` the log breaks its promise (see
the finding of `wal_backfill`, which also makes `ImplementsStore` fail), so that
the run `wal` and the theorems `MarksHold`, `LogImplementsStore` and `BackfillHolds`
name `FALSE` as their restriction.

## 3. Runs

| Run | Checks | Bounds, and why they are enough |
|---|---|---|
| `container` | `TypeOK`, `TitleFollowsPage`, `AtMostThree`, `SettleReachesDelegate`, `TapIsServed`, `ImplementsPool` | 5 pages: jumps beyond the window in both directions, an inner page with both neighbours outside another window; nothing else is bounded |
| `page_jump` | violation: `JumpIsHandled` | as `container` |
| `news_list` | `TypeOK`, `RowsMatchCategory`, `NewsWereAsked`, `StoredOnce`, `NewestIsStored` | 2 controllers, 2 channels, 3 loads: two loads of one channel by two controllers and one that reuses a controller; one failing statement; one kill. Controllers and channels are interchangeable (symmetry, safety only) |
| `news_list_live` | `LoadShowsNews` | the same instance with two failing statements, and answers that hold news |
| `pages` | `PageShowsItsChannel`, `PageEventuallyShowsNews` | 4 pages; a patient user who flicks, with 8 gestures (there and back again) and two failing statements; hasty users who drag in every way and tap titles: 4 gestures on 4 pages while nothing is loading, 3 on 3 pages with one block or request under way, 2 on 3 pages with two |
| `pages_jump` | violation: `PageShowsItsChannel` | 5 pages, 2 gestures with taps |
| `startup` | `TypeOK`, `StoredIsOneList`, `SetUpOnce`, `ShownIsStored`, `TitlesAppear` | 4 launches, 3 failing statements, three server lists that the filters treat differently |
| `request_reported` | violation: `RequestIsReported` | 2 launches |
| `wal` | `TypeOK`, `LocksExclude`, `MarksAreSafe`, `ImplementsStore` | 2 connections, 2 pages, 2 slots, 2 write transactions of one or two pages, a checkpointer, one kill: a log that is copied, started again and recovered with a torn end; connections are interchangeable |
| `wal_backfill` | violation: `BackfillWithinLog` | the same without a kill, with idle checkpoints |
| `reader` | `RowsShowNews`, `ImageIsOwn`, `NoImageNoView`, `TimeIsRight`, `IndicatorOffWhenIdle`, `BarsMatchTop`, `ImagesAreShown` | 2 channels with news of every layout, 2 rows of which one fits the screen (so that cells are reused), ages at the turn of minute, hour and day, 2 details, texts with and without a header, with repeated, reordered and unknown placeholders |
| `wide_text` | violation: `ImagesAreShown` | two texts with a character of two units |

What they show:
* *container*: whatever mixture of drags, taps and interrupted motions, the
  selected title is that of the page on screen at rest; every index passed on is
  that of a page (the guard `page > channels.count` in `MainContainVC` would let
  one too many through, but the clamps do not produce it); a handler that runs
  past page 0 always reports the controller of that very page and the neighbour
  in the direction of the last drag; the arrays implement `PagePool`, and with it
  never need a fourth controller.
* *news_list*: late answers, reused controllers and the delete/insert pair never
  put one channel's news under another's category. Doubled rows appear only when
  a channel was requested again before the earlier answer was stored
  (`overlapped`); they do then, as delete, delete, insert, insert shows, but even
  then the last answer is there, last.
* *news_list_live*: every load is followed by its channel's news, but not for
  ever: a late answer to an earlier load of the same controller replaces them
  (`NewsListViewModel.swift:45` does not ask which channel the controller has
  now). `NewsWereAsked` is therefore the most that holds of the news shown.
* *pages*: the direction-dependent preload is just enough for a user who flicks
  and waits: every controller brought onto a neighbouring page is loaded before
  it is seen. Both matter. Flicking: who flicks from page 0 to 1, drags slowly on to
  2 and lifts the finger when it is still, makes the container preload page 1 and
  not 3, and with the next flick finds the news of page 0 on page 3 (the controller
  was moved there with its news, and `pageViewControllerDidChange` loads only an
  empty one). Waiting: a hasty user with 4 pages and 3 gestures finds the late
  answer above on the screen (three flicks to the right while the request for page
  0 is out; its controller serves page 3 by then). So `PageShowsItsChannel` speaks
  of users who wait, and the run and the theorem give the waiting ones moving
  fingers and no titles. That a page has *some* news in the end
  (`PageEventuallyShowsNews`) holds for everybody, if it is the page the container
  was last told of: not page 0 when one comes back to it, nor a page on which the
  finger was lifted exactly.
* *startup*: whatever is killed and whatever throws, the stored list is one list
  or none, `setupUI` runs once, and titles appear unless the server refuses.
* *wal*: `ImplementsStore` is the refinement of `AtomicStore` under every
  interleaving, failing writes and a kill, as long as no checkpoint begins with
  nothing to copy (`IdleCheckpoints = FALSE`); `LocksExclude` and `MarksAreSafe` are what the comments of `wal.c`
  say its locks and read marks are for.
* *reader*: rows, images, times, bars, texts and the indicator belong to what is
  on screen. The exceptions are in the properties: `RowsShowNews` leaves out the
  states after a silent answer, in which a tap may open other news than the row
  shows, or index out of range; a news with an `image_list` but without a usable
  `middle_image` gets a style 2 cell that keeps the former image, so that
  `ImageIsOwn` and `NoImageNoView` speak of news with an image of their own and of
  news with none.

### Findings (the violation runs)
* `page_jump`: a jump to the first page from the third page or beyond is not handled
  (`contentOffset.x <= 0` returns), and the screen stays without a controller.
* `pages_jump`: after a jump a reused controller may show another channel's news,
  since `pageViewControllerDidChange` loads only an empty controller.
* `request_reported`: `Network.request` never calls its completion for a request
  that failed.
* `wal_backfill`: a checkpoint tests `nBackfill` against a header read before
  (`wal.c:1749`, header read for line 3266). If the log was copied completely by
  then and is started again in between, the test holds for the old length, and
  `nBackfill` ends up above the new log's `mxFrame`, which `wal.c:329` excludes;
  later frames then count as copied and are lost when the log is started again.
* `wide_text`: `DetailVC.swift:115` gives the regular expression a number of
  `Character`s and uses its UTF-16 results as `Character` offsets; behind an emoji
  or CR LF the wrong piece of text is cut out.

### Fairness
* `Glide`, `DidEndDecelerating`, `DidEndScrollingAnimation`: UIKit completes a
  motion it has started and reports its end. The user owes nothing.
* The blocks of both queues (`RunGet`, `RunDelete`, `RunInsert`, `DeliverRows`,
  `DbStep`, `NewsStep`): a serial dispatch queue and the main run loop keep
  running while the process lives, and every block terminates.
* `SomeResponse`, `RequestEnds`: every request ends; `ApiTargetType.swift:16`
  gives it a timeout of ten seconds. `news_list_live` and `pages` further restrict
  `Outcomes` to answers with news: without them nothing in the code retries, and
  the property would be false.
* No fairness for `Kill`, `Crash`, `Launch`, loads or gestures, and none in
  `WalLog` and `Reader`, whose properties are safety properties.

`container` and `page_jump` check for deadlock: there some action is always
possible. The other models stop when their bounds are used up, hence
`CHECK_DEADLOCK FALSE`.

## 4. Proofs

All theorems hold for every value of the constants that satisfies the named
`ASSUME`s of the components, which TLC evaluates in the runs.

`PagePoolProofs`
* `ThreeSuffice` (`AtMostThree` of `PagePool`): a load that creates a controller leaves none
  parked (`CreatedOnlyWhenNeeded`), so that all controllers are on the window;
  one per page makes the map from controllers to pages injective, and the window
  has at most three pages. A load that creates none adds nothing.
* `TypeCorrect`, `WindowIsServed`, `PagesAreExclusive`: what the reader of the
  array-level module may rely on.

`PageViewControllerProofs`
* `TitleFollows` (`TitleFollowsPage`) for any number of pages. The property speaks
  of rest only; the invariant adds what holds while the content moves
  (`TitleFollowsMotion`): the title is that of the nearest page, or the tapped one
  on the way to it. The arithmetic is in `PageAtIsPage`: rounding and clamping give
  a page, and a page's offset gives that page.
* `ContainerTypes` (`TypeOK`), from `ArrayInv`: the two arrays are disjoint, without
  repetition, and together hold every controller; the visible ones cover the window
  of `currentPage`, one each; there are at most three. `LoadPageEffect` says what a
  load does to them (`LoadEffect`), from lemmas about each of its operators:
  `StayingFacts`, `WantedFacts`, `DequeuedFacts`, `PlacedFacts`. The model filters
  sequences with `Kept`, a recursive function that says what `SelectSeq` does,
  because the provers do not see the latter's definition; `KeptFacts` is proved by
  induction over the indices, with `SetInduction` in place of the library's rule.
* `ArraysImplementPool` (`ImplementsPool`): a load of the arrays is a load of
  `PagePool` under the mapping `place`, every other step a stutter. `NeverAFourth`
  (`AtMostThree`) is `ThreeSuffice`, instantiated with the arrays.
* `SettlingIsReported` (`SettleReachesDelegate`): with the window served and the
  offset on the page (`OnItsPage`), the controller found by its frame is that of the
  page, and the last one before or the last one after it that of the neighbour
  (`NeighboursByFrame`), which needs that no two controllers share a page.

`NewsListProofs`
* `TypeCorrect`, `RowsMatch` (`RowsMatchCategory`), `NewsMatch`
  (`NewsWereAsked`), all from one inductive invariant `Inv`. The two properties
  are not inductive: rows come from insert blocks, which come from delete blocks,
  which come from requests, so `Inv` says of each of these stages that its news
  are of its channel; and news of a controller come from reads, answers and
  requests, so `Inv` says that each of those was queued for a channel its
  controller was told to load.

* `OneResponseStored` (`StoredOnce`) and `NoLostUpdate` (`NewestIsStored`).
  `NewestOf(c)` says where the last answer's news are: in the last delete block of
  the channel, which will queue its insert behind everything; or, when no delete
  is left to clear them, in the last insert; or they are the last rows stored.
  `OnceOf(c)`: a channel not `overlapped` has one request or one write under way,
  and an insert finds its rows deleted. `Moved(c, k)` is what all steps share that
  only shift the channel's blocks, so that each action is proved for its own
  channel and cites `MovedNewest` and `MovedOnce` for the others.
* The last section is for `NewsPages`: `Serving(v, c)` says that controller `v` was
  given channel `c`, that everything on its way to it is about `c`, and that it
  shows news of `c` or something is on its way. Every step but a load keeps it.

`NewsPagesProofs`, from the theorems of the container and of the lists
* `FlicksShowTheirChannel` (`PageShowsItsChannel`) for any number of channels, flicks
  and failing statements. The property speaks of the moments when nothing is under
  way; the invariant (`Watching`) says that *every* controller of the window, seen or
  not, is `Serving` the channel of its page. A flick goes the way of its velocity
  (`FlicksGoTheirWay`), or returns to its page, which the window already serves; the
  new window is the old one but for the neighbour in that direction
  (`WindowMoves`), which is the one that is preloaded (`CallsOn`, `DelegateServes`).
  Page 0 is the delicate case, since its controller is taken down by every load:
  after the first flick it is the first of the pool and put back
  (`PageZeroIsPutBack`), later it only appears as the preloaded neighbour on the
  left. The two instances define their own copies of every operator; the `Same...`
  lemmas identify them. Assumed: the server answers with news that decode
  (`Outcomes = {"ok"}`; otherwise a page stays empty), and whoever taps titles or
  lifts a finger that is still does not count as waiting (`pages_jump` shows what a
  tap does, section 3 what a still finger does).

`ChannelStartupProofs`
* `SetsUpOnce`, `StoresOneList`, `TypeCorrect`, from the stages a process goes
  through (`AsksOnce`): the tables, the read, its answer, the request, the write,
  each with what the two queues hold then.

`ReaderProofs`
* `IndicatorOff`: inductive as it stands.
* `BarsMatch`: the bars are the detail's from the push to the end of the pop.
* `RowsShow`, `OwnImages`: a cell is on screen once at most (`Placement`), so that
  binding one row's cell changes no other row; a cell whose news has an image waits
  for that image or shows it (`ImagesKnown`), so that a late download is recognised
  by its URL; as long as `silent` is false the table view's count is the number of
  news (`RowsKnown`), which keeps `cellForRowAt` within them.
* `PlainNewsArePlain` (`NoImageNoView`): a style 1 cell never had an image
  (`PlainCells`), and a news without any image gets no other (`StylesFit`).
* `TimesAreRight` (`TimeIsRight`), for any clock: `TimeTextIsTimely` is the arithmetic
  of `timeStampToString`; a text that was right stays so while time passes.
* `ScreensShowTheirText` (`ImagesAreShown`): an answer is shown by the screen that
  asked for it or by none. Hypothesis: `TextsAreRight`, that `Rewritten` and
  `Expected` agree on each single text, which the run `reader` finds for its texts
  and `wide_text` refutes for others.

`WalLogProofs`, for any number of connections, pages, slots, transactions, kills
* `LocksHold` (`LocksExclude`), from `Inv1`: types, what every control location
  holds (`Control`: which slot, and whether it is the writer), and the property
  itself. `OthersHold` carries it over a step of another connection.
* `MarksHold` (`MarksAreSafe`), from `Inv2` on top of `Inv1`: `HeadersAgree` (a
  connection's header with the live salt is no longer than the live one, an older
  one has an older salt), `ReadersAgree` (a reader's mark is at most the length of
  its header while that header's salt is live) and `CkptKnows` (what the checkpoint
  has read is still so, and no reader's header is shorter than its `mxSafeFrame`).
  The second layer needs the first: marks only stay because nobody starts the log
  again while a slot is held. It assumes `IdleCheckpoints = FALSE`, as the run does;
  `wal_backfill` shows what happens otherwise.

`WalStoreProofs`, on top of it
* `FramesAreInLog` (`TypeOK`): `Bounds` relates every length anybody remembers
  (headers, marks, the backfill, the checkpoint's plan) to the log's.
* `LogImplementsStore` (`ImplementsStore`): under every interleaving of readers, a
  writer, the checkpointer and a kill, the log does what `AtomicStore` allows. The
  invariant `Inv3` has a part for each party. `LogSide`: frames carry the number of
  the transaction that wrote them and continue each other's checksum (`Prefix`); a
  page with no frame left to copy is in the file (`Backfilled`); and the end that
  recovery would find (`EndOf`) is the state committed last or, while a commit is
  being published, the state it leads to (`Safe`). `CkptSide`: what the checkpointer
  has copied so far is in the file. `ConnSide`: what a reader does not look for in
  the log it finds in the file. `Begin`, `Offer`, `Commit` and `Kill` of the store
  are then the step with which a reader's attempt succeeds, the write of the commit
  frame, the publication of the header, and the kill; every other step is a stutter. Assumed: `WalAssumption`,
  `PageAssumption` (what the pages and the transactions' lists of pages are), and
  `IdleCheckpoints = FALSE`, without which the promise is broken.
* `BackfillHolds` (`BackfillWithinLog`): under the same restriction the count of
  copied frames never exceeds the log, the claim that `wal_backfill` refutes
  without it.

The candidate invariants were checked by TLC before they were proved.

Only model-checked: the liveness properties (`TapIsServed`, `LoadShowsNews`,
`PageEventuallyShowsNews`, `ShownIsStored`, `TitlesAppear`), which are outside the
prover's reach; and the rewriting of a single text (the hypothesis
`TextsAreRight`), which is about recursive functions on texts and needs induction
over data. Every invariant, action property and refinement that a passing run checks
is stated by a theorem; those of the write-ahead log and of the pages under the
restrictions their runs have, too.

## 5. Not modelled

* Layout, colours, formatting of texts other than the relative time, logging.
* Sizes of images in a detail; an image of width 0 makes its height infinite or not
  a number (`NewsDetail.swift:108`).
* `NewsListDB.getObjects` without a category and `NewsListVC.init(channel:)`:
  never called.
* A second push during a transition: UIKit does not deliver the tap. If it did,
  two details on top of each other would leave light text on white.
* Memory growth of dispose bags.
* A container on zero pages (all channels hidden): `ChannelStartup` reaches it,
  `PageViewController` assumes at least one page.
* The request closure's branch for a request that cannot be built: it never calls
  `done`.
* Pods other than `wal.c`: Alamofire, Moya, RxSwift, SwiftyJSON, SnapKit, Kingfisher
  (beyond what `setImage` does to a cell), libwebp, and the rest of WCDB and
  sqlcipher (B-trees, pager, virtual machine, full-text search). They are vendored
  libraries with specifications and tests of their own, far larger than the
  application, which uses a few entry points of them; what it relies on is part of
  the actions that call them. The log is the exception because it decides what the
  application's kills and threads can do to its data.
