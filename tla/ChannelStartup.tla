--------------------------- MODULE ChannelStartup ---------------------------
(***************************************************************************)
(* From launch to the title bar: AppDelegate creates the tables, and       *)
(* MainContainVC asks ChannelViewModel for the channels, which come from   *)
(* the database or else from the server, whose answer is stored for the    *)
(* next launch.  The process may be killed at any step.                    *)
(*                                                                         *)
(* A list of channels is the set of its categories: nothing here depends   *)
(* on names or order.                                                      *)
(***************************************************************************)
EXTENDS Integers, Sequences

CONSTANTS
    ServerLists,  \* the channel lists the server may answer with
    Outcomes,     \* "ok", "undecodable" and "fail": how requests may end
    MaxFailures,  \* bound on the database operations that throw
    MaxLaunches   \* bound on the launches

ASSUME ChannelStartupAssumption ==
    /\ Outcomes \subseteq {"ok", "undecodable", "fail"}
    /\ MaxFailures \in Nat /\ MaxLaunches \in Nat

VARIABLES
    running,     \* the process is alive
    tables,      \* the tables have been created
    stored,      \* the Channel table: the lists inserted, in order
    dbQueue,     \* blocks waiting on DBManager.dbQueue
    mainQueue,   \* database answers waiting on the main queue
    requesting,  \* NewsAPi.channel is in flight
    waiting,     \* the subscriber of getChannel has not been called yet
    channels,    \* ChannelViewModel.channels
    setups,      \* how often this process ran setupUI
    refused,     \* history: this process's request ended without a list
    failures, launches    \* counters for the bounds

diskVars == <<tables, stored>>
viewVars == <<waiting, channels, setups>>
vars == <<running, diskVars, dbQueue, mainQueue, requesting, viewVars,
          refused, failures, launches>>

\* The categories the two paths of getChannel leave out.
ServerHidden == {"news_hot", "subscription"}
LocalHidden == {"news_hot", "subscription", "news_local", "video"}

Init ==
    /\ running = FALSE /\ tables = FALSE /\ stored = <<>>
    /\ dbQueue = <<>> /\ mainQueue = <<>> /\ requesting = FALSE
    /\ waiting = FALSE /\ channels = {} /\ setups = 0
    /\ refused = FALSE /\ failures = 0 /\ launches = 0

-----------------------------------------------------------------------------
(* Launch and death of the process.                                        *)

Create == [op |-> "create"]
Get == [op |-> "get"]

\* Mutant: the tables are not prepared.
LaunchBlocksWithoutTables == <<Get>>

\* didFinishLaunching queues createAllTable before the window shows
\* MainContainVC, whose viewDidLoad subscribes to getChannel.
LaunchBlocks == <<Create, Get>>

Launch ==
    /\ ~running /\ launches < MaxLaunches
    /\ running' = TRUE /\ launches' = launches + 1
    /\ dbQueue' = LaunchBlocks
    /\ waiting' = TRUE
    /\ refused' = FALSE
    /\ UNCHANGED <<diskVars, mainQueue, requesting, channels, setups, failures>>

Kill ==
    /\ running /\ running' = FALSE
    /\ dbQueue' = <<>> /\ mainQueue' = <<>> /\ requesting' = FALSE
    /\ waiting' = FALSE /\ channels' = {} /\ setups' = 0
    /\ UNCHANGED <<diskVars, refused, failures, launches>>

-----------------------------------------------------------------------------
(* Blocks on the database queue.  A statement throws when the table does   *)
(* not exist, or for a reason of its own.                                  *)

Runs(op) == dbQueue # <<>> /\ Head(dbQueue).op = op

Throws ==
    \/ failures < MaxFailures /\ failures' = failures + 1
    \/ ~tables /\ UNCHANGED failures

\* createAllTable: one transaction; a failure is only printed.
RunCreate ==
    /\ Runs("create")
    /\ dbQueue' = Tail(dbQueue)
    /\ \/ tables' = TRUE /\ UNCHANGED failures
       \/ UNCHANGED tables /\ failures < MaxFailures /\ failures' = failures + 1
    /\ UNCHANGED <<running, stored, mainQueue, requesting, viewVars, refused, launches>>

\* getObjects: the rows, or nil when the read throws, go to the main queue.
\* Without rows the two are treated alike.
AllRows == UNION {stored[i] : i \in DOMAIN stored}

\* Mutant: a read that throws calls nobody.
ReadThrowsSilently == mainQueue

ReadThrows == Append(mainQueue, {})

RunGet ==
    /\ Runs("get")
    /\ dbQueue' = Tail(dbQueue)
    /\ \/ tables /\ mainQueue' = Append(mainQueue, AllRows) /\ UNCHANGED failures
       \/ mainQueue' = ReadThrows /\ Throws
    /\ UNCHANGED <<running, diskVars, requesting, viewVars, refused, launches>>

\* Mutant: the old rows stay.
AfterDeleteNothing == stored

AfterDelete == <<>>

\* deleteAll: completeHandle, called when the delete has run, queues the
\* insert.
RunDelete ==
    /\ Runs("delete")
    /\ \/ /\ tables
          /\ stored' = AfterDelete
          /\ dbQueue' = Append(Tail(dbQueue), [op |-> "insert", list |-> Head(dbQueue).list])
          /\ UNCHANGED failures
       \/ UNCHANGED stored /\ dbQueue' = Tail(dbQueue) /\ Throws
    /\ UNCHANGED <<running, tables, mainQueue, requesting, viewVars, refused, launches>>

\* insert(objects:): one transaction, and no statement at all for no objects.
RunInsert ==
    /\ Runs("insert")
    /\ dbQueue' = Tail(dbQueue)
    /\ LET list == Head(dbQueue).list
       IN  \/ list = {} /\ UNCHANGED <<stored, failures>>
           \/ list # {} /\ tables /\ stored' = Append(stored, list) /\ UNCHANGED failures
           \/ list # {} /\ UNCHANGED stored /\ Throws
    /\ UNCHANGED <<running, tables, mainQueue, requesting, viewVars, refused, launches>>

-----------------------------------------------------------------------------
(* Main thread.                                                            *)

\* onNext(.success) reaches MainContainVC, which sets the UI up.
Succeed(list) ==
    /\ channels' = list
    /\ waiting' = FALSE
    /\ setups' = setups + 1

\* Mutant: the local list is shown and the server asked all the same.
ShowLocalAndRefresh(rows) ==
    /\ rows # {} /\ Succeed(rows \ LocalHidden) /\ requesting' = TRUE

\* The local branch of getChannel.
ShowLocal(rows) ==
    /\ rows # {}
    /\ Succeed(rows \ LocalHidden)
    /\ UNCHANGED requesting

\* The network branch.
AskServer(rows) ==
    /\ rows = {}
    /\ requesting' = TRUE
    /\ UNCHANGED viewVars

DeliverRows ==
    /\ mainQueue # <<>>
    /\ mainQueue' = Tail(mainQueue)
    /\ ShowLocal(Head(mainQueue)) \/ AskServer(Head(mainQueue))
    /\ UNCHANGED <<running, diskVars, dbQueue, refused, failures, launches>>

\* Mutant: the server's categories are all kept.
AcceptedUnfiltered(list) == list

Accepted(list) == list \ ServerHidden

\* The answer decodes: it is shown, and replaces the rows stored.
Respond(list) ==
    /\ requesting /\ "ok" \in Outcomes
    /\ requesting' = FALSE
    /\ Succeed(Accepted(list))
    /\ dbQueue' = Append(dbQueue, [op |-> "delete", list |-> Accepted(list)])
    /\ UNCHANGED <<running, diskVars, mainQueue, refused, failures, launches>>

\* The answer is JSON but not a list of channels: onNext(.serviceError),
\* which MainContainVC ignores.
RespondUndecodable ==
    /\ requesting /\ "undecodable" \in Outcomes
    /\ requesting' = FALSE
    /\ waiting' = FALSE
    /\ refused' = TRUE
    /\ UNCHANGED <<running, diskVars, dbQueue, mainQueue, channels, setups,
                   failures, launches>>

\* No connection, a timeout, a status outside 200...298, no JSON: Network
\* logs the error and returns without calling the completion.
RequestFails ==
    /\ requesting /\ "fail" \in Outcomes
    /\ requesting' = FALSE
    /\ refused' = TRUE
    /\ UNCHANGED <<running, diskVars, dbQueue, mainQueue, viewVars, failures, launches>>

-----------------------------------------------------------------------------
DbStep == RunCreate \/ RunGet \/ RunDelete \/ RunInsert

RequestEnds ==
    \/ \E list \in ServerLists : Respond(list)
    \/ RespondUndecodable
    \/ RequestFails

Next ==
    \/ Launch
    \/ Kill
    \/ DbStep
    \/ DeliverRows
    \/ RequestEnds

\* Both queues keep running while the process lives, and every request ends.
Fairness == WF_vars(DbStep) /\ WF_vars(DeliverRows) /\ WF_vars(RequestEnds)

Spec == Init /\ [][Next]_vars /\ Fairness

-----------------------------------------------------------------------------
(* Properties.                                                             *)

Category == UNION ServerLists

\* Blocks, answers and rows are what their queues and the table can hold.
TypeOK ==
    /\ {running, tables, requesting, waiting, refused} \subseteq BOOLEAN
    /\ stored \in Seq(SUBSET Category) /\ mainQueue \in Seq(SUBSET Category)
    /\ \A i \in DOMAIN dbQueue :
          \/ dbQueue[i] \in {Create, Get}
          \/ /\ dbQueue[i].op \in {"delete", "insert"}
             /\ dbQueue[i].list \subseteq Category \ ServerHidden
    /\ channels \subseteq Category \ ServerHidden
    /\ setups \in Nat

\* The Channel table is empty or holds exactly one answer of the server, as
\* filtered for storing, wherever the process was killed and whatever threw:
\* the next launch never reads a mixture of two lists.
StoredIsOneList ==
    /\ Len(stored) <= 1
    /\ \A i \in DOMAIN stored : \E list \in ServerLists : stored[i] = list \ ServerHidden

\* setupUI runs at most once per process: a second run would append every
\* title again and add the container twice.
SetUpOnce == setups <= 1

\* Whatever the database does, a launched application gets its title bar,
\* unless it is killed first or the server, which is only asked when nothing
\* could be read, does not answer with a list.
TitlesAppear == waiting ~> setups = 1 \/ ~running \/ refused

\* A list that is shown is there for the next launch, unless the process is
\* killed or the database throws: the tables exist before the first write,
\* and an empty list is the only one not written.
ShownIsStored ==
    (setups = 1 /\ channels # {}) ~> stored # <<>> \/ ~running \/ failures > 0

\* Network.request documents its completion as the callback of a finished
\* request: a launch that asks the server should be told the outcome.
RequestIsReported == requesting ~> ~waiting
=============================================================================
