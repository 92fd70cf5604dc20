------------------------------ MODULE NewsList ------------------------------
(***************************************************************************)
(* Loading one channel's news into a list controller: NewsListVC,          *)
(* NewsListViewModel, NewsListDB, the serial queue of DBManager, the main  *)
(* queue and the requests in flight.                                       *)
(*                                                                         *)
(* A controller asks the database first; an empty answer makes it ask the  *)
(* server, and the server's answer replaces the rows of its channel: a     *)
(* delete block which, when it has run, queues the insert block behind     *)
(* whatever was queued meanwhile.                                          *)
(*                                                                         *)
(* The news of one response are one batch: they are decoded, shown, stored *)
(* and deleted together.  Only rows read back from the database can hold   *)
(* several batches.                                                        *)
(***************************************************************************)
EXTENDS Integers, Sequences, FiniteSets

CONSTANTS
    VC,           \* list controllers
    Channels,     \* channel categories
    Outcomes,     \* how the server may answer, see Respond and RequestFails
    NoChannel,    \* channelName before the first load ("" in the code)
    MaxLoads,     \* bound on the calls of loadData(channel:)
    MaxFailures,  \* bound on the database operations that throw
    MaxCrashes    \* bound on the times the process is killed

ASSUME NewsListAssumption ==
    /\ NoChannel \notin Channels
    /\ MaxLoads \in Nat /\ MaxFailures \in Nat /\ MaxCrashes \in Nat
    /\ Outcomes \subseteq {"ok", "lastBad", "none", "fail"}

VARIABLES
    channelName,  \* NewsListVC.channelName
    news,         \* NewsListViewModel.news: a sequence of batches
    shown,        \* the news the table view counted at its last reloadData
    dbQueue,      \* blocks waiting on DBManager.dbQueue, in order
    mainQueue,    \* database answers waiting on the main queue, in order
    requests,     \* requests in flight
    table,        \* the NewsList table: the batches stored under a category
    lastId,       \* numbers the requests in the order they are sent
    loads, failures, crashes,    \* counters for the bounds
    asked,        \* history: the channels a controller was told to load
    answer,       \* history: the last answer of the server that held news,
                  \* forgotten when a failure or a crash may have lost it
    overlapped    \* history: channels requested again before an answer was stored

vcVars == <<channelName, news, shown>>
counters == <<loads, failures, crashes>>
history == <<asked, answer, overlapped>>
vars == <<vcVars, dbQueue, mainQueue, requests, table, lastId, counters, history>>

Batch == [channel : Channels, id : Nat]
Load == [vc : VC, channel : Channels]
Request == [vc : VC, channel : Channels, id : Nat]

\* Blocks on the database queue: a read for a controller, the delete that
\* makes room for a response's news, and the insert that follows it.
Get    == [op : {"get"}, vc : VC, channel : Channels]
Delete == [op : {"delete"}, channel : Channels, rows : Seq(Batch)]
Insert == [op : {"insert"}, channel : Channels, rows : Seq(Batch)]
Block == Get \cup Delete \cup Insert

Result == [vc : VC, rows : Seq(Batch)]

Unknown == 0    \* no batch: requests are numbered from 1

Init ==
    /\ channelName = [v \in VC |-> NoChannel]
    /\ news = [v \in VC |-> <<>>] /\ shown = [v \in VC |-> <<>>]
    /\ dbQueue = <<>> /\ mainQueue = <<>> /\ requests = {}
    /\ table = [c \in Channels |-> <<>>] /\ lastId = 0
    /\ loads = 0 /\ failures = 0 /\ crashes = 0
    /\ asked = [v \in VC |-> {}]
    /\ answer = [c \in Channels |-> Unknown]
    /\ overlapped = {}

Elements(s) == {s[i] : i \in DOMAIN s}

-----------------------------------------------------------------------------
(* loadData(channel:), called on the main thread by the paging container.  *)

\* NewsListDB.getObjects(by:): the channel is captured when the block is
\* queued.
GetBlock(load) == [op |-> "get", vc |-> load.vc, channel |-> load.channel]

\* Mutant: loadData(channel:) forgets to take the channel over.
RenamedNot(calls) == channelName

\* loadData(channel:) first takes the channel over.
Renamed(calls) ==
    [v \in VC |-> IF \E l \in Elements(calls) : l.vc = v
                  THEN (CHOOSE l \in Elements(calls) : l.vc = v).channel
                  ELSE channelName[v]]

\* One or more loads called one after the other within one main-thread step.
LoadAll(calls) ==
    /\ loads + Len(calls) <= MaxLoads
    /\ loads' = loads + Len(calls)
    /\ channelName' = Renamed(calls)
    /\ dbQueue' = dbQueue \o [i \in DOMAIN calls |-> GetBlock(calls[i])]
    /\ asked' = [v \in VC |->
          asked[v] \cup {l.channel : l \in {m \in Elements(calls) : m.vc = v}}]
    /\ UNCHANGED <<news, shown, mainQueue, requests, table,
                   lastId, failures, crashes, answer, overlapped>>

-----------------------------------------------------------------------------
(* The database queue runs its blocks one at a time, each to its end.      *)

\* A statement throws.
Throws == failures < MaxFailures /\ failures' = failures + 1

Deliver(b, rows) == mainQueue' = Append(mainQueue, [vc |-> b.vc, rows |-> rows])

\* Mutant: the read takes the rows of any channel that has some.
StoredRowsOfAny(c) ==
    table[CHOOSE d \in Channels :
        table[d] # <<>> \/ \A e \in Channels : table[e] = <<>>]

\* The where clause of the read.
StoredRows(c) == table[c]

\* getObjects(by:): the rows, or none when the read throws, are handed to the
\* main queue.
RunGet ==
    /\ dbQueue # <<>> /\ Head(dbQueue).op = "get"
    /\ dbQueue' = Tail(dbQueue)
    /\ \/ Deliver(Head(dbQueue), StoredRows(Head(dbQueue).channel)) /\ UNCHANGED failures
       \/ Deliver(Head(dbQueue), <<>>) /\ Throws
    /\ UNCHANGED <<vcVars, requests, table, lastId, loads, crashes, history>>

InsertBlock(b) == [op |-> "insert", channel |-> b.channel, rows |-> b.rows]

\* Mutant: nothing is deleted before the insert.
DeleteRunsNothing(b) ==
    UNCHANGED table /\ dbQueue' = Append(Tail(dbQueue), InsertBlock(b))

\* deleteAll(by:): a delete that succeeds calls completeHandle, which gives
\* every news its category and queues the insert at the tail; one that throws
\* calls nothing.
DeleteRuns(b) ==
    /\ table' = [table EXCEPT ![b.channel] = <<>>]
    /\ dbQueue' = Append(Tail(dbQueue), InsertBlock(b))

DeleteFails(b) ==
    /\ answer' = [answer EXCEPT ![b.channel] = Unknown]
    /\ dbQueue' = Tail(dbQueue)
    /\ UNCHANGED table

RunDelete ==
    /\ dbQueue # <<>> /\ Head(dbQueue).op = "delete"
    /\ \/ DeleteRuns(Head(dbQueue)) /\ UNCHANGED <<failures, answer>>
       \/ DeleteFails(Head(dbQueue)) /\ Throws
    /\ UNCHANGED <<vcVars, mainQueue, requests, lastId, loads, crashes, asked, overlapped>>

\* Mutant: rows already there win over those inserted.
InsertRunsOrIgnores(b) ==
    table' = [table EXCEPT ![b.channel] = IF @ = <<>> THEN b.rows ELSE @]

\* insert(objects:): one transaction, so that all news of a response are
\* stored or none; without news there is nothing that could throw.
InsertRuns(b) == table' = [table EXCEPT ![b.channel] = @ \o b.rows]

InsertFails(b) ==
    /\ b.rows # <<>>
    /\ answer' = [answer EXCEPT ![b.channel] = Unknown]
    /\ UNCHANGED table

RunInsert ==
    /\ dbQueue # <<>> /\ Head(dbQueue).op = "insert"
    /\ dbQueue' = Tail(dbQueue)
    /\ \/ InsertRuns(Head(dbQueue)) /\ UNCHANGED <<failures, answer>>
       \/ InsertFails(Head(dbQueue)) /\ Throws
    /\ UNCHANGED <<vcVars, mainQueue, requests, lastId, loads, crashes, asked, overlapped>>

-----------------------------------------------------------------------------
(* The main queue and the server.                                          *)

\* A request of channel c whose answer is not stored yet.
Unsettled(c) ==
    \/ \E r \in requests : r.channel = c
    \/ \E b \in Elements(dbQueue) : b.op # "get" /\ b.channel = c

\* Mutant: no second request while one for the channel is in flight.
SendRequestOnce(v) ==
    IF \E r \in requests : r.channel = channelName[v]
    THEN UNCHANGED <<lastId, requests, overlapped>>
    ELSE /\ lastId' = lastId + 1
         /\ requests' = requests \cup
               {[vc |-> v, channel |-> channelName[v], id |-> lastId + 1]}
         /\ UNCHANGED overlapped

\* getNewsList for the channel the controller has now, which need not be the
\* one it read.
SendRequest(v) ==
    /\ lastId' = lastId + 1
    /\ requests' = requests \cup
          {[vc |-> v, channel |-> channelName[v], id |-> lastId + 1]}
    /\ overlapped' = IF Unsettled(channelName[v])
                     THEN overlapped \cup {channelName[v]} ELSE overlapped

\* The database's answer arrives: its rows are shown, or the server is asked.
DeliverRows ==
    /\ mainQueue # <<>>
    /\ mainQueue' = Tail(mainQueue)
    /\ LET v    == Head(mainQueue).vc
           rows == Head(mainQueue).rows
       IN  \/ /\ rows # <<>>
              /\ news' = [news EXCEPT ![v] = rows]
              /\ shown' = [shown EXCEPT ![v] = rows]
              /\ UNCHANGED <<requests, lastId, overlapped>>
           \/ /\ rows = <<>>
              /\ SendRequest(v)
              /\ UNCHANGED <<news, shown>>
    /\ UNCHANGED <<channelName, dbQueue, table, counters, asked, answer>>

\* A response with a 200...298 status and valid JSON.  Its news are those
\* that could be decoded ("none": not one); the status is that of the item
\* decoded last, and only success reloads the table view.
Answered(r, outcome) ==
    IF outcome = "none" THEN <<>> ELSE <<[channel |-> r.channel, id |-> r.id]>>

\* Mutant: the rows are stored under the channel the controller has now.
DeleteBlockNow(r, rows) ==
    [op |-> "delete", channel |-> channelName[r.vc], rows |-> rows]

\* getNewsList captured the channel it was called with.
DeleteBlock(r, rows) == [op |-> "delete", channel |-> r.channel, rows |-> rows]

Respond(r, outcome) ==
    /\ requests' = requests \ {r}
    /\ news' = [news EXCEPT ![r.vc] = Answered(r, outcome)]
    /\ shown' = IF outcome = "ok"
                THEN [shown EXCEPT ![r.vc] = Answered(r, outcome)] ELSE shown
    /\ dbQueue' = Append(dbQueue, DeleteBlock(r, Answered(r, outcome)))
    /\ answer' = [answer EXCEPT ![r.channel] =
                    IF outcome = "none" THEN Unknown ELSE r.id]
    /\ UNCHANGED <<channelName, mainQueue, table, lastId, counters, asked, overlapped>>

\* No connection, a timeout, another status or a body that is not JSON:
\* Network.request logs it and calls nobody.
RequestFails(r) ==
    /\ requests' = requests \ {r}
    /\ UNCHANGED <<vcVars, dbQueue, mainQueue, table, lastId, counters, history>>

\* The process is killed and started again: only the table survives.
Crash ==
    /\ crashes < MaxCrashes
    /\ crashes' = crashes + 1
    /\ channelName' = [v \in VC |-> NoChannel]
    /\ news' = [v \in VC |-> <<>>] /\ shown' = [v \in VC |-> <<>>]
    /\ dbQueue' = <<>> /\ mainQueue' = <<>> /\ requests' = {}
    /\ asked' = [v \in VC |-> {}]
    /\ answer' = [c \in Channels |-> Unknown]
    /\ UNCHANGED <<table, lastId, loads, failures, overlapped>>

-----------------------------------------------------------------------------
\* The container loads one controller, or in one step a neighbour and the
\* current controller.
CallSequences ==
    {<<l>> : l \in Load} \cup {c \in Load \X Load : c[1].vc # c[2].vc}

SomeResponse ==
    \E r \in requests, outcome \in Outcomes \ {"fail"} : Respond(r, outcome)

Next ==
    \/ \E calls \in CallSequences : LoadAll(calls)
    \/ RunGet
    \/ RunDelete
    \/ RunInsert
    \/ DeliverRows
    \/ SomeResponse
    \/ "fail" \in Outcomes /\ \E r \in requests : RequestFails(r)
    \/ Crash

\* Both queues keep running, and the server answers or the request fails.
Fairness ==
    /\ WF_vars(RunGet) /\ WF_vars(RunDelete) /\ WF_vars(RunInsert)
    /\ WF_vars(DeliverRows)
    /\ WF_vars(SomeResponse)

Spec == Init /\ [][Next]_vars

FairSpec == Spec /\ Fairness
-----------------------------------------------------------------------------
(* Properties.                                                             *)

TypeOK ==
    /\ channelName \in [VC -> Channels \cup {NoChannel}]
    /\ news \in [VC -> Seq(Batch)] /\ shown \in [VC -> Seq(Batch)]
    /\ dbQueue \in Seq(Block) /\ mainQueue \in Seq(Result)
    /\ requests \subseteq Request
    /\ table \in [Channels -> Seq(Batch)]
    /\ lastId \in Nat /\ loads \in Nat /\ failures \in Nat /\ crashes \in Nat
    /\ asked \in [VC -> SUBSET Channels]
    /\ answer \in [Channels -> Nat]
    /\ overlapped \subseteq Channels

\* The rows stored under a category were answered for that channel, through
\* reused controllers, channel names read late and writes that interleave.
RowsMatchCategory ==
    \A c \in Channels : \A b \in Elements(table[c]) : b.channel = c

\* A controller only ever holds news of channels it was told to load since
\* the process started; in particular a controller that serves one channel
\* cannot show another one's news, whatever arrives late.
NewsWereAsked ==
    \A v \in VC : \A b \in Elements(news[v]) : b.channel \in asked[v]

\* A channel's rows are one response's news (deleteAll before insert), in
\* spite of crashes and failing statements, unless the channel was requested
\* again before the answer to an earlier request had been stored.
StoredOnce == \A c \in Channels \ overlapped : Len(table[c]) <= 1

Writing(c) == \E b \in Elements(dbQueue) : b.op # "get" /\ b.channel = c

\* No lost update: once its writes have run, a channel's last rows are those
\* of the last response that held news, even if responses for one channel
\* overlapped.
NewestIsStored ==
    \A c \in Channels : answer[c] # Unknown /\ ~Writing(c) =>
        table[c] # <<>> /\ table[c][Len(table[c])].id = answer[c]

Loading(v, c) == \E b \in Elements(dbQueue) : b \in Get /\ b.vc = v /\ b.channel = c

\* Every load of a channel is eventually followed by that channel's news in
\* the controller's table view, unless the controller is given another channel
\* first, as long as the server answers with news that can be decoded:
\* whatever the database does, and whatever other loads interleave.  A late
\* answer to an earlier load may still replace the news afterwards.
LoadShowsNews ==
    \A v \in VC, c \in Channels :
        Loading(v, c)
            ~> \/ channelName[v] # c
               \/ \E b \in Elements(shown[v]) : b.channel = c
=============================================================================
