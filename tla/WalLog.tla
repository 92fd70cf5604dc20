------------------------------- MODULE WalLog -------------------------------
(***************************************************************************)
(* The write-ahead log under the application's tables: sqlcipher's wal.c   *)
(* as WCDB configures it (journal_mode WAL, synchronous NORMAL, a passive  *)
(* checkpoint by a background handle).  Connections read and write; the    *)
(* checkpointer copies committed frames into the database file; the        *)
(* process can be killed between any two steps and takes the wal-index     *)
(* with it, which the next reader rebuilds from the log file.              *)
(*                                                                         *)
(* One step is one access to shared memory, a lock or a file that another  *)
(* process could come between.  The two copies and the checksum of the     *)
(* header (walIndexTryHdr) make reading and writing it one step; a         *)
(* transaction's pages fit the cache, so that frames are only written at   *)
(* its commit; the log fits the first page of the wal-index                *)
(* (HASHTABLE_NPAGE_ONE, 4062 frames), which is mapped with the header, so *)
(* that a frame in the log can always be indexed; every page exists from   *)
(* the start.                                                              *)
(***************************************************************************)
EXTENDS Integers, Sequences, FiniteSetsExt, SequencesExt

CONSTANTS
    Conn,              \* connections that read and write
    Page,              \* pages of the database, as numbers from 1
    WriteLists,        \* bound: the pages a transaction may change, in the order written
    Slots,             \* WAL_NREADER - 1: read marks besides number 0
    MaxTx,             \* bound: write transactions begun
    MaxKills,          \* bound: kills of the process
    IdleCheckpoints    \* whether a checkpoint may begin with nothing to copy

Nobody == "nobody"
NotUsed == 100         \* READMARK_NOT_USED, above every frame number

ASSUME WalAssumption ==
    /\ Slots \in Nat \ {0} /\ MaxTx \in Nat /\ MaxKills \in Nat
    /\ IdleCheckpoints \in BOOLEAN /\ Nobody \notin Conn
    /\ \A pages \in WriteLists : pages \in Seq(Page) /\ pages # <<>>

ASSUME PageAssumption == Page \subseteq Nat \ {0} /\ Page # {}

VARIABLES
    \* files
    logHdr,     \* the salt in the log's header, 0 if there is none
    log,        \* the frames of the log
    db,         \* db[p]: the transaction whose version of p is in the file
    \* wal-index, shared memory
    live,       \* the header all connections share, or NoHdr
    nBackfill, aReadMark,
    index,      \* aPgno: the page of every frame indexed
    \* locks
    writer,     \* who holds WRITE_LOCK
    readLock,   \* readLock[c]: the slot c holds shared, or -1
    \* connections
    pc, hdr, slot, minFrame, todo, done,
    ckpt,       \* the checkpointer
    \* counters
    txs, kills

fileVars == <<logHdr, log, db>>
indexVars == <<live, nBackfill, aReadMark, index>>
connVars == <<pc, hdr, readLock, slot, minFrame>>
writeVars == <<writer, todo, done, txs>>
vars == <<fileVars, indexVars, connVars, writeVars, ckpt, kills>>

\* A header tells how far the log goes and under which salt it was written.
Header(mxFrame, salt) == [mxFrame |-> mxFrame, salt |-> salt]
NoHdr == Header(-1, 0)

\* A frame; after is the transaction before it in the log, which stands for
\* the checksum that runs through all frames.
Frame(page, tx, commit, salt, after) ==
    [page |-> page, tx |-> tx, commit |-> commit, salt |-> salt, after |-> after]

Torn == Frame(0, 0, FALSE, 0, 0)   \* a frame cut short
TornPage == -1                     \* a database page cut short

\* A slot chosen for a read lock, and the mark it had then.
Slot(i, mark) == [i |-> i, mark |-> mark]

IdleCkpt == [pc |-> "idle", hdr |-> Header(0, 0), i |-> 0, mxSafeFrame |-> 0,
             nBackfill |-> 0, iter |-> [p \in Page |-> 0], left |-> {}]

NoMarks == [i \in 1 .. Slots |-> NotUsed]

Init ==
    /\ logHdr = 0 /\ log = <<>> /\ db = [p \in Page |-> 0]
    /\ live = NoHdr /\ nBackfill = 0 /\ aReadMark = NoMarks /\ index = <<>>
    /\ writer = Nobody /\ readLock = [c \in Conn |-> -1]
    /\ pc = [c \in Conn |-> "idle"] /\ hdr = [c \in Conn |-> Header(0, 0)]
    /\ slot = [c \in Conn |-> Slot(0, 0)] /\ minFrame = [c \in Conn |-> 0]
    /\ todo = <<>> /\ done = 0
    /\ ckpt = IdleCkpt
    /\ txs = 0 /\ kills = 0

-----------------------------------------------------------------------------
(* Locks.                                                                  *)

Holders(i) == {c \in Conn : readLock[c] = i}

\* RestartLog holds slots 1 and up exclusively, the checkpointer slot 0.
Restarting == \E c \in Conn : pc[c] = "restart"

\* Mutant: the log is started again without locking its slots.
LockedByCheckpoint(i) == i = 0 /\ ckpt.pc \in {"copy", "unlock"}

LockedExclusive(i) ==
    IF i = 0 THEN ckpt.pc \in {"copy", "unlock"} ELSE Restarting

CanLockExclusive(i) == Holders(i) = {} /\ ~LockedExclusive(i)

-----------------------------------------------------------------------------
(* What is in the log.                                                     *)

\* The last of the first n indexed frames that holds page p, from frame lo.
LastFrame(p, lo, n) ==
    Max({0} \cup {f \in lo .. n : f \in DOMAIN index /\ index[f] = p})

\* walDecodeFrame: a frame counts if it was written under the header's salt
\* and its checksum continues that of the frame before it.
Valid(f) ==
    \A g \in 1 .. f :
        /\ log[g] # Torn /\ log[g].salt = logHdr
        /\ log[g].after = IF g = 1 THEN 0 ELSE log[g - 1].tx

ValidFrames == IF logHdr = 0 THEN {} ELSE {f \in DOMAIN log : Valid(f)}

AnyFrame == Max({0} \cup ValidFrames)
LastCommit == Max({0} \cup {f \in ValidFrames : log[f].commit})

\* Mutant: mxFrame is taken for the frame to be written next.
RecoveredNext == Header(LastCommit + 1, logHdr)

\* walIndexRecover: the wal-index is rebuilt from the valid frames, and the
\* header is that of the last commit among them.
RecoveredHdr == Header(LastCommit, logHdr)

Recover ==
    /\ live' = RecoveredHdr
    /\ index' = [f \in 1 .. AnyFrame |-> log[f].page]
    /\ nBackfill' = 0
    /\ aReadMark' = IF LastCommit = 0 THEN NoMarks
                    ELSE [NoMarks EXCEPT ![1] = LastCommit]

-----------------------------------------------------------------------------
(* Read transactions.                                                      *)

\* The header of a new attempt to read.  Without a header in shared memory
\* the connection rebuilds it, if it gets every lock.
ReadHdr(c) ==
    /\ pc[c] \in {"idle", "retry"}
    /\ IF live # NoHdr
       THEN /\ hdr' = [hdr EXCEPT ![c] = live]
            /\ UNCHANGED indexVars
       ELSE /\ writer = Nobody /\ ckpt.pc = "idle"
            /\ Recover
            /\ hdr' = [hdr EXCEPT ![c] = RecoveredHdr]
    /\ pc' = [pc EXCEPT ![c] = "choose"]
    /\ UNCHANGED <<fileVars, readLock, slot, minFrame, writeVars, ckpt, kills>>

\* useWal: a writer that leaves slot 0 has its header already.
UseWal(c) == writer = c

\* Outside a transaction a connection's copies are not used: the model
\* forgets them, so that it does not tell apart what cannot matter.
Leave(c, where) ==
    /\ pc' = [pc EXCEPT ![c] = where]
    /\ readLock' = [readLock EXCEPT ![c] = -1]
    /\ hdr' = [hdr EXCEPT ![c] = Header(0, 0)]
    /\ slot' = [slot EXCEPT ![c] = Slot(0, 0)]
    /\ minFrame' = [minFrame EXCEPT ![c] = 0]

\* A failed attempt starts again, from the header unless it is a writer's.
Retry(c) ==
    IF UseWal(c)
    THEN /\ pc' = [pc EXCEPT ![c] = "choose"]
         /\ readLock' = [readLock EXCEPT ![c] = -1]
         /\ UNCHANGED <<hdr, slot, minFrame>>
    ELSE Leave(c, "retry")

\* A log copied completely can be ignored.
IgnoreLog(c) ==
    /\ pc[c] = "choose" /\ ~UseWal(c)
    /\ nBackfill = hdr[c].mxFrame /\ ~LockedExclusive(0)
    /\ readLock' = [readLock EXCEPT ![c] = 0]
    /\ pc' = [pc EXCEPT ![c] = "check"]
    /\ UNCHANGED <<fileVars, indexVars, hdr, slot, minFrame, writeVars, ckpt, kills>>

\* With slot 0 locked the header must still be the one read before.
CheckHdr(c) ==
    /\ pc[c] = "check"
    /\ IF live = hdr[c]
       THEN /\ pc' = [pc EXCEPT ![c] = "read"]
            /\ UNCHANGED <<readLock, hdr, slot, minFrame>>
       ELSE Retry(c)
    /\ UNCHANGED <<fileVars, indexVars, writeVars, ckpt, kills>>

\* The slots whose mark is the largest that does not exceed n.
BestMarks(n) ==
    LET usable == {i \in 1 .. Slots : aReadMark[i] <= n}
    IN  {i \in usable : \A j \in usable : aReadMark[j] <= aReadMark[i]}

\* Otherwise a slot is chosen: the last of the best, or, if it is not exact,
\* the first that can be locked, whose mark is then raised.
ChooseSlot(c) ==
    /\ pc[c] = "choose"
    /\ UseWal(c) \/ nBackfill # hdr[c].mxFrame \/ LockedExclusive(0)
    /\ LET n     == hdr[c].mxFrame
           best  == BestMarks(n)
           exact == \E i \in best : aReadMark[i] = n
           free  == {i \in 1 .. Slots : CanLockExclusive(i)}
       IN  \/ \E i \in free :
                 /\ ~exact /\ \A j \in free : i <= j
                 /\ slot' = [slot EXCEPT ![c] = Slot(i, n)]
                 /\ aReadMark' = [aReadMark EXCEPT ![i] = n]
                 /\ pc' = [pc EXCEPT ![c] = "share"]
                 /\ UNCHANGED <<readLock, hdr, minFrame>>
           \/ \E i \in best :
                 /\ exact \/ free = {}
                 /\ \A j \in best : j <= i
                 /\ slot' = [slot EXCEPT ![c] = Slot(i, aReadMark[i])]
                 /\ pc' = [pc EXCEPT ![c] = "share"]
                 /\ UNCHANGED <<aReadMark, readLock, hdr, minFrame>>
           \/ /\ best = {} /\ free = {}
              /\ Retry(c)
              /\ UNCHANGED aReadMark
    /\ UNCHANGED <<fileVars, live, nBackfill, index, writeVars, ckpt, kills>>

ShareSlot(c) ==
    /\ pc[c] = "share"
    /\ IF LockedExclusive(slot[c].i)
       THEN Retry(c)
       ELSE /\ readLock' = [readLock EXCEPT ![c] = slot[c].i]
            /\ pc' = [pc EXCEPT ![c] = "mark"]
            /\ UNCHANGED <<hdr, slot, minFrame>>
    /\ UNCHANGED <<fileVars, indexVars, writeVars, ckpt, kills>>

\* Frames up to nBackfill will be read from the database file.
SetMinFrame(c) ==
    /\ pc[c] = "mark"
    /\ minFrame' = [minFrame EXCEPT ![c] = nBackfill + 1]
    /\ pc' = [pc EXCEPT ![c] = "verify"]
    /\ UNCHANGED <<fileVars, indexVars, readLock, hdr, slot, writeVars, ckpt, kills>>

\* Mutant: only the mark is compared again.
SameMark(c) == aReadMark[slot[c].i] = slot[c].mark

StillValid(c) == aReadMark[slot[c].i] = slot[c].mark /\ live = hdr[c]

\* Where the first frame is written: in a log without frames the log's
\* header comes first.
FirstWrite(c) == IF hdr[c].mxFrame = 0 THEN "header" ELSE "frames"

\* Neither the mark nor the header may have changed meanwhile.
Verify(c) ==
    /\ pc[c] = "verify"
    /\ IF StillValid(c)
       THEN /\ pc' = [pc EXCEPT ![c] =
                        IF UseWal(c) THEN FirstWrite(c) ELSE "read"]
            /\ UNCHANGED <<readLock, hdr, slot, minFrame>>
       ELSE Retry(c)
    /\ UNCHANGED <<fileVars, indexVars, writeVars, ckpt, kills>>

\* sqlite3WalFindFrame and the read that follows, for every page at once.
FromDb(c) == readLock[c] = 0 \/ hdr[c].mxFrame = 0
View(c) ==
    [p \in Page |->
        LET f == LastFrame(p, minFrame[c], hdr[c].mxFrame)
        IN  IF FromDb(c) \/ f = 0 THEN db[p] ELSE log[f].tx]

EndRead(c) ==
    /\ pc[c] \in {"read", "committed"}
    /\ Leave(c, "idle")
    /\ writer' = IF writer = c THEN Nobody ELSE writer
    /\ UNCHANGED <<fileVars, indexVars, todo, done, txs, ckpt, kills>>

-----------------------------------------------------------------------------
(* Write transactions.                                                     *)

\* A reader may write only if nobody has committed since it began.
CanWrite(c) == hdr[c] = live

BeginWrite(c) ==
    /\ pc[c] = "read" /\ writer = Nobody /\ txs < MaxTx
    /\ IF CanWrite(c)
       THEN /\ pc' = [pc EXCEPT ![c] = IF readLock[c] = 0 THEN "write"
                                       ELSE FirstWrite(c)]
            /\ writer' = c /\ txs' = txs + 1
            /\ todo' \in WriteLists
            /\ done' = 0
            /\ UNCHANGED <<readLock, hdr, slot, minFrame>>
       ELSE /\ Leave(c, "idle")
            /\ UNCHANGED writeVars
    /\ UNCHANGED <<fileVars, indexVars, ckpt, kills>>

NobodyReadsLog == \A i \in 1 .. Slots : CanLockExclusive(i)

\* walRestartLog: a writer that ignores the log starts it again if it has
\* been copied and nobody reads it; the new header comes first ...
RestartHdr(c) ==
    /\ pc[c] = "write"
    /\ nBackfill > 0 /\ NobodyReadsLog
    /\ hdr' = [hdr EXCEPT ![c] = Header(0, hdr[c].salt + 1)]
    /\ live' = hdr'[c]
    /\ pc' = [pc EXCEPT ![c] = "restart"]
    /\ UNCHANGED <<fileVars, nBackfill, aReadMark, index, readLock, slot, minFrame,
                   writeVars, ckpt, kills>>

\* ... then the rest of the wal-index, before the slots are unlocked and the
\* writer takes one of them.
RestartInfo(c) ==
    /\ pc[c] = "restart"
    /\ nBackfill' = 0 /\ aReadMark' = [NoMarks EXCEPT ![1] = 0]
    /\ readLock' = [readLock EXCEPT ![c] = -1]
    /\ pc' = [pc EXCEPT ![c] = "choose"]
    /\ UNCHANGED <<fileVars, live, index, hdr, slot, minFrame, writeVars, ckpt, kills>>

\* A log that cannot be started again is appended to; slot 0 is given up
\* all the same.
KeepLog(c) ==
    /\ pc[c] = "write"
    /\ nBackfill = 0 \/ ~NobodyReadsLog
    /\ readLock' = [readLock EXCEPT ![c] = -1]
    /\ pc' = [pc EXCEPT ![c] = "choose"]
    /\ UNCHANGED <<fileVars, indexVars, hdr, slot, minFrame, writeVars, ckpt, kills>>

\* The first frame of a log follows its header; the first log of all gets
\* its first salt here.
WriteLogHdr(c) ==
    /\ pc[c] = "header"
    /\ hdr' = [hdr EXCEPT ![c].salt = IF @ = 0 THEN 1 ELSE @]
    /\ logHdr' = hdr'[c].salt
    /\ pc' = [pc EXCEPT ![c] = "frames"]
    /\ UNCHANGED <<log, db, indexVars, readLock, slot, minFrame, writeVars, ckpt, kills>>

\* The log with frame f at place n.
WithFrame(n, f) ==
    [i \in 1 .. Max({n, Len(log)}) |-> IF i = n THEN f ELSE log[i]]

NextFrame(c) ==
    LET n == hdr[c].mxFrame + done + 1
    IN  Frame(todo[done + 1], txs, done + 1 = Len(todo), hdr[c].salt,
              IF n = 1 THEN 0 ELSE log[n - 1].tx)

\* The frames go to the file one by one, the last with the commit flag.
WriteFrame(c) ==
    /\ pc[c] = "frames"
    /\ log' = WithFrame(hdr[c].mxFrame + done + 1, NextFrame(c))
    /\ done' = done + 1
    /\ pc' = [pc EXCEPT ![c] = IF done' = Len(todo) THEN "publish" ELSE "frames"]
    /\ UNCHANGED <<logHdr, db, indexVars, readLock, hdr, slot, minFrame, writer, todo, txs,
                   ckpt, kills>>

\* What a write to the log leaves behind that does not complete.
HalfWritten ==
    {log} \cup {WithFrame(hdr[c].mxFrame + done + 1, Torn) :
                   c \in {d \in Conn : pc[d] = "frames"}}

HalfHeader == {logHdr} \cup {0 : c \in {d \in Conn : pc[d] = "header"}}

\* A write fails: sqlite3WalUndo.  The frames written stay behind, perhaps with
\* one cut short.  (To give up before the first write is to have read only.)
Undo(c) ==
    /\ pc[c] \in {"header", "frames"}
    /\ log' \in HalfWritten /\ logHdr' \in HalfHeader
    /\ Leave(c, "idle")
    /\ writer' = Nobody /\ todo' = <<>> /\ done' = 0
    /\ UNCHANGED <<db, indexVars, txs, ckpt, kills>>

\* The new frames are indexed in place of whatever followed mxFrame, which
\* nobody looks at before the new header commits the transaction.  Indexing
\* fails only if a further page of the wal-index cannot be mapped: not in a log
\* that fits the first one.
PublishHdr(c) ==
    /\ pc[c] = "publish"
    /\ index' = SubSeq(index, 1, hdr[c].mxFrame) \o todo
    /\ hdr' = [hdr EXCEPT ![c].mxFrame = @ + Len(todo)]
    /\ live' = hdr'[c]
    /\ pc' = [pc EXCEPT ![c] = "committed"]
    /\ todo' = <<>> /\ done' = 0
    /\ UNCHANGED <<fileVars, nBackfill, aReadMark, readLock, slot, minFrame,
                   writer, txs, ckpt, kills>>

-----------------------------------------------------------------------------
(* The checkpoint.                                                         *)

\* WCDB asks for one some time after a commit that left a long log; another
\* may have copied everything by then.  CKPT_LOCK is taken and the header read.
CkptReadHdr ==
    /\ ckpt.pc = "idle"
    /\ IdleCheckpoints \/ live = NoHdr \/ nBackfill < live.mxFrame
    /\ IF live # NoHdr
       THEN /\ ckpt' = [ckpt EXCEPT !.pc = "test", !.hdr = live]
            /\ UNCHANGED indexVars
       ELSE /\ writer = Nobody
            /\ Recover
            /\ ckpt' = [ckpt EXCEPT !.pc = "test", !.hdr = RecoveredHdr]
    /\ UNCHANGED <<fileVars, connVars, writeVars, kills>>

\* Only if something remains to be copied, the frames of the log are sorted
\* by page; mxSafeFrame starts at the end of the log.
CkptTest ==
    /\ ckpt.pc = "test"
    /\ ckpt' = IF nBackfill < ckpt.hdr.mxFrame
               THEN [ckpt EXCEPT !.pc = "marks", !.i = 1,
                        !.mxSafeFrame = ckpt.hdr.mxFrame,
                        !.iter = [p \in Page |-> LastFrame(p, 1, ckpt.hdr.mxFrame)]]
               ELSE IdleCkpt
    /\ UNCHANGED <<fileVars, indexVars, connVars, writeVars, kills>>

\* Mutant: a mark in use does not hold the checkpoint back.
MarkIgnored(i) ==
    /\ ckpt' = [ckpt EXCEPT !.i = i + 1]
    /\ UNCHANGED aReadMark

\* A mark below mxSafeFrame is raised if its slot is free and lowers
\* mxSafeFrame if it is not.
MarkHolds(i) ==
    IF ckpt.mxSafeFrame <= aReadMark[i]
    THEN /\ ckpt' = [ckpt EXCEPT !.i = i + 1]
         /\ UNCHANGED aReadMark
    ELSE IF CanLockExclusive(i)
    THEN /\ aReadMark' = [aReadMark EXCEPT ![i] =
                            IF i = 1 THEN ckpt.mxSafeFrame ELSE NotUsed]
         /\ ckpt' = [ckpt EXCEPT !.i = i + 1]
    ELSE /\ ckpt' = [ckpt EXCEPT !.i = i + 1, !.mxSafeFrame = aReadMark[i]]
         /\ UNCHANGED aReadMark

CkptMark ==
    /\ ckpt.pc = "marks" /\ ckpt.i <= Slots
    /\ MarkHolds(ckpt.i)
    /\ UNCHANGED <<fileVars, live, nBackfill, index, connVars, writeVars, kills>>

\* Nobody may be reading the database file alone while pages are written.
CkptLock0 ==
    /\ ckpt.pc = "marks" /\ ckpt.i > Slots
    /\ ckpt' = IF nBackfill < ckpt.mxSafeFrame /\ CanLockExclusive(0)
               THEN [ckpt EXCEPT !.pc = "copy", !.nBackfill = nBackfill,
                                 !.left = Page]
               ELSE IdleCkpt
    /\ UNCHANGED <<fileVars, indexVars, connVars, writeVars, kills>>

IsCopied(f) == f > ckpt.nBackfill /\ f <= ckpt.mxSafeFrame

CkptCopy ==
    /\ ckpt.pc = "copy" /\ ckpt.left # {}
    /\ LET p == Min(ckpt.left)
           f == ckpt.iter[p]
       IN  db' = IF IsCopied(f) THEN [db EXCEPT ![p] = log[f].tx] ELSE db
    /\ ckpt' = [ckpt EXCEPT !.left = @ \ {Min(@)}]
    /\ UNCHANGED <<logHdr, log, indexVars, connVars, writeVars, kills>>

\* What a write of a page leaves behind that does not complete.
HalfCopied ==
    IF ckpt.pc = "copy" /\ ckpt.left # {} /\ IsCopied(ckpt.iter[Min(ckpt.left)])
    THEN {db, [db EXCEPT ![Min(ckpt.left)] = TornPage]}
    ELSE {db}

\* A page cannot be written: slot 0 is unlocked and nothing counts as copied.
CkptFails ==
    /\ ckpt.pc = "copy" /\ ckpt.left # {}
    /\ db' \in HalfCopied
    /\ ckpt' = IdleCkpt
    /\ UNCHANGED <<logHdr, log, indexVars, connVars, writeVars, kills>>

CkptDone ==
    /\ ckpt.pc = "copy" /\ ckpt.left = {}
    /\ nBackfill' = ckpt.mxSafeFrame
    /\ ckpt' = [ckpt EXCEPT !.pc = "unlock"]
    /\ UNCHANGED <<fileVars, live, aReadMark, index, connVars, writeVars, kills>>

CkptUnlock ==
    /\ ckpt.pc = "unlock"
    /\ ckpt' = IdleCkpt
    /\ UNCHANGED <<fileVars, indexVars, connVars, writeVars, kills>>

-----------------------------------------------------------------------------
(* The process is killed.                                                  *)

\* Locks and shared memory are gone; a page or frame just being written may
\* be cut short.  Files keep what was written.
Kill ==
    /\ kills < MaxKills /\ kills' = kills + 1
    /\ db' \in HalfCopied /\ log' \in HalfWritten /\ logHdr' \in HalfHeader
    /\ live' = NoHdr /\ nBackfill' = 0 /\ aReadMark' = NoMarks /\ index' = <<>>
    /\ writer' = Nobody /\ readLock' = [c \in Conn |-> -1]
    /\ pc' = [c \in Conn |-> "idle"] /\ hdr' = [c \in Conn |-> Header(0, 0)]
    /\ slot' = [c \in Conn |-> Slot(0, 0)] /\ minFrame' = [c \in Conn |-> 0]
    /\ todo' = <<>> /\ done' = 0
    /\ ckpt' = IdleCkpt
    /\ UNCHANGED txs

-----------------------------------------------------------------------------
ReadStep(c) ==
    \/ ReadHdr(c) \/ IgnoreLog(c) \/ CheckHdr(c) \/ ChooseSlot(c)
    \/ ShareSlot(c) \/ SetMinFrame(c) \/ Verify(c) \/ EndRead(c)

WriteStep(c) ==
    \/ BeginWrite(c) \/ RestartHdr(c) \/ RestartInfo(c) \/ KeepLog(c)
    \/ WriteLogHdr(c) \/ WriteFrame(c) \/ Undo(c)
    \/ PublishHdr(c)

CkptStep ==
    \/ CkptReadHdr \/ CkptTest \/ CkptMark \/ CkptLock0
    \/ CkptCopy \/ CkptFails \/ CkptDone \/ CkptUnlock

Next ==
    \/ \E c \in Conn : ReadStep(c) \/ WriteStep(c)
    \/ CkptStep
    \/ Kill

Spec == Init /\ [][Next]_vars

-----------------------------------------------------------------------------
(* The log implements the store of AtomicStore.tla.                        *)

\* Everything in the first n of these frames, and the pages under them.
Overlaid(frames, pages, n) ==
    LET after[k \in 0 .. n] ==
            IF k = 0 THEN pages
            ELSE [after[k - 1] EXCEPT ![frames[k].page] = frames[k].tx]
    IN  after[n]

Overlay(n) == Overlaid(log, db, n)

Stored == Overlay(IF live = NoHdr THEN LastCommit ELSE live.mxFrame)

InTransaction(c) ==
    pc[c] \in {"read", "committed", "write", "restart", "header", "frames", "publish"} \/ UseWal(c)

NoView == [p \in Page |-> -2]
Seen(c) == IF ~InTransaction(c) THEN NoView
           ELSE IF pc[c] \in {"choose", "share", "mark", "verify"} THEN db
           ELSE View(c)

\* A commit is under way from its last frame to its header.
Offered ==
    IF \E c \in Conn : pc[c] = "publish"
    THEN [p \in Page |-> IF p \in Range(todo) THEN txs ELSE Stored[p]]
    ELSE NoView

Store == INSTANCE AtomicStore WITH
    Tx <- 1 .. MaxTx, NoView <- NoView,
    store <- Stored,
    view  <- [c \in Conn |-> Seen(c)],
    offer <- Offered

-----------------------------------------------------------------------------
(* Properties.                                                             *)

\* Headers, marks and frame numbers stay within the log, slots within
\* aReadMark, and WRITE_LOCK belongs to a connection.
TypeOK ==
    /\ \A c \in Conn : readLock[c] \in -1 .. Slots
    /\ \A c \in Conn : hdr[c].mxFrame \in 0 .. Len(log)
    /\ live # NoHdr => live.mxFrame \in 0 .. Len(log)
    /\ \A i \in 1 .. Slots : aReadMark[i] \in 0 .. Len(log) \cup {NotUsed}
    /\ nBackfill \in 0 .. Len(log)
    /\ writer \in Conn \cup {Nobody}

\* The locks keep apart what the comments in wal.c say they do: whoever
\* changes the log holds WRITE_LOCK, from the slot it gives up in between to
\* the end of its commit; nobody reads the database file alone while the
\* checkpointer writes to it; and nobody holds a read mark while a writer
\* starts the log again.
Writing(c) == pc[c] \in {"write", "restart", "header", "frames", "publish", "committed"}

LocksExclude ==
    /\ \A c \in Conn : Writing(c) => writer = c
    /\ \A c \in Conn : ckpt.pc \in {"copy", "unlock"} => readLock[c] # 0
    /\ \A c \in Conn : Restarting => readLock[c] \notin 1 .. Slots

\* Although marks are chosen and raised by readers and checkpointer side by
\* side, from headers read earlier: the mark in a reader's slot "is no greater
\* than the mxFrame for that reader", and what the checkpointer copies never
\* lies beyond it, where it would "overwrite database pages that are in use by
\* active readers" (the comments on WalCkptInfo and in walCheckpoint).
Reading(c) ==
    readLock[c] > 0 /\ pc[c] \in {"read", "header", "frames", "publish", "committed"}

MarksAreSafe ==
    \A c \in Conn :
        Reading(c) =>
            /\ aReadMark[readLock[c]] <= hdr[c].mxFrame
            /\ ckpt.pc = "copy" => ckpt.mxSafeFrame <= hdr[c].mxFrame

\* Whatever readers, a writer, the checkpointer and a kill do between each
\* other's steps, and whichever write fails, readers see one committed state
\* throughout, commits are atomic and none is lost: as long as no checkpoint
\* begins with nothing to copy (IdleCheckpoints = FALSE).
ImplementsStore == Store!Spec

\* "The nBackfill number is never greater than WalIndexHdr.mxFrame", except
\* while a writer that holds every slot is resetting both (the description
\* of WalCkptInfo).
BackfillWithinLog ==
    live # NoHdr /\ ~Restarting => nBackfill <= live.mxFrame
=============================================================================
