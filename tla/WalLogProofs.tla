---------------------------- MODULE WalLogProofs ----------------------------
(* The locks and read marks of the write-ahead log, for any connections,    *)
(* pages, slots and bounds.                                                 *)
EXTENDS WalLog, WellFoundedInduction, SequenceTheorems, TLAPS

\* A set of naturals that is not empty has a least element.
LEMMA LeastExists ==
    ASSUME NEW S, S \subseteq Nat, S # {}
    PROVE  \E x \in S : \A y \in S : x <= y
  <1>1. PICK x \in S : \A y \in S : ~ (<<y, x>> \in OpToRel(<, Nat))
    BY NatLessThanWellFounded, WFMin
  <1>2. \A y \in S : ~ (y < x)
    BY <1>1 DEF OpToRel
  <1>. QED  BY <1>2

\* A set of frame numbers with a bound has a greatest element, which Max is.
LEMMA MaxOfFrames ==
    ASSUME NEW n \in Nat, NEW S, S \subseteq 0 .. n, S # {}
    PROVE  Max(S) \in S /\ \A y \in S : y <= Max(S)
  <1> DEFINE T == {n - y : y \in S}
  <1>1. PICK z \in S : TRUE
    OBVIOUS
  <1>2. T \subseteq Nat
    OBVIOUS
  <1>3. T # {}
    BY <1>1
  <1>4. PICK x \in T : \A y \in T : x <= y
    BY <1>2, <1>3, LeastExists
  <1>5. PICK m \in S : x = n - m
    BY <1>4
  <1>6. \A y \in S : m >= y
    BY <1>4, <1>5
  <1>. QED  BY <1>5, <1>6 DEF Max

\* What the proofs need to know of the constants most often.
LEMMA SlotsAndConns ==
    ASSUME WalAssumption
    PROVE  Slots \in Nat \ {0} /\ Nobody \notin Conn
  BY DEF WalAssumption

-----------------------------------------------------------------------------
(* The invariant.                                                          *)

PCs == {"idle", "retry", "choose", "check", "share", "mark", "verify", "read",
        "write", "restart", "header", "frames", "publish", "committed"}
Headers == [mxFrame : Nat, salt : Nat]
SlotTypes == [i : 0 .. Slots, mark : Nat]

\* The state is well formed.
ConnTypes ==
    /\ pc \in [Conn -> PCs]
    /\ readLock \in [Conn -> -1 .. Slots]
    /\ hdr \in [Conn -> Headers]
    /\ slot \in [Conn -> SlotTypes]

SharedTypes ==
    /\ live \in Headers \cup {NoHdr}
    /\ nBackfill \in Nat
    /\ aReadMark \in [1 .. Slots -> Nat]

WriterTypes ==
    /\ writer \in Conn \cup {Nobody}
    /\ todo \in Seq(Page) /\ done \in Nat

LogTypes == logHdr \in Nat /\ Len(log) \in Nat /\ DOMAIN log = 1 .. Len(log)

CkptTypes ==
    /\ DOMAIN ckpt = {"pc", "hdr", "i", "mxSafeFrame", "nBackfill", "iter", "left"}
    /\ ckpt.pc \in {"idle", "test", "marks", "copy", "unlock"}
    /\ ckpt.hdr \in Headers /\ ckpt.i \in Nat /\ ckpt.mxSafeFrame \in Nat
    /\ ckpt.pc = "marks" => ckpt.i > 0

\* What a connection holds where, and that nothing happens before the header
\* in shared memory has been rebuilt.
Holds(c) ==
    /\ pc[c] \in {"idle", "retry"} => hdr[c] = Header(0, 0)
    /\ pc[c] \in {"idle", "retry", "choose", "share"} => readLock[c] = -1
    /\ pc[c] \in {"check", "write", "restart"} => readLock[c] = 0
    /\ pc[c] = "read" => readLock[c] # -1
    /\ pc[c] \in {"mark", "verify"} => readLock[c] = slot[c].i
    /\ pc[c] \in {"share", "mark", "verify"} =>
          slot[c].i # 0 /\ slot[c].mark <= hdr[c].mxFrame
    /\ pc[c] \in {"header", "frames", "publish", "committed"} => readLock[c] > 0
    /\ writer = c => pc[c] \notin {"idle", "retry", "check", "read"}
    /\ live = NoHdr => pc[c] \in {"idle", "retry"}

Control ==
    /\ live = NoHdr => ckpt.pc = "idle"
    /\ \A c \in Conn : Holds(c)

\* How the header a connection read relates to the one in shared memory: a
\* writer's is the same but for a salt not yet published, any other is older
\* or the same; and a connection that ignores the log under the present header
\* ignores a log that has been copied.
HeaderOf(c) ==
    /\ writer = c /\ pc[c] \notin {"frames", "publish"} => hdr[c] = live
    /\ writer = c => hdr[c].mxFrame = live.mxFrame /\ hdr[c].salt >= live.salt
    /\ writer # c =>
          /\ hdr[c].salt <= live.salt
          /\ hdr[c].salt = live.salt => hdr[c].mxFrame <= live.mxFrame
    /\ writer = c /\ pc[c] # "committed" => todo # <<>>
    /\ pc[c] = "restart" => live.mxFrame = 0
    /\ pc[c] \in {"check", "read", "write"} /\ readLock[c] = 0 /\ hdr[c] = live =>
          nBackfill = live.mxFrame

HeadersAgree == live # NoHdr => \A c \in Conn : HeaderOf(c)

\* A reader's mark is no greater than the end of its log; and from the slots
\* the checkpointer has looked at nobody reads an older log than it copies.
ReaderOf(c) ==
    Reading(c) =>
        /\ aReadMark[readLock[c]] <= hdr[c].mxFrame
        /\ ckpt.pc \in {"marks", "copy"} /\ readLock[c] < ckpt.i =>
              ckpt.mxSafeFrame <= hdr[c].mxFrame

ReadersAgree == \A c \in Conn : ReaderOf(c)

\* The checkpointer knows a log that has not been started again since.
CkptKnows ==
    /\ ckpt.pc = "test" => ckpt.hdr.mxFrame = 0 \/ nBackfill < ckpt.hdr.mxFrame
    /\ ckpt.pc \in {"marks", "copy"} =>
          nBackfill < ckpt.hdr.mxFrame /\ ckpt.mxSafeFrame <= ckpt.hdr.mxFrame
    /\ ckpt.pc # "idle" => ckpt.hdr.mxFrame <= live.mxFrame
    /\ ckpt.pc = "copy" => ckpt.i > Slots

\* What needs no assumption on when checkpoints begin.
Types == ConnTypes /\ SharedTypes /\ WriterTypes /\ LogTypes /\ CkptTypes
Inv1 == Types /\ Control /\ LocksExclude

\* What does.
Inv2 == HeadersAgree /\ ReadersAgree /\ CkptKnows

-----------------------------------------------------------------------------
(* Facts about the log.                                                    *)

\* Recovery finds a header.
LEMMA RecoveredIsHeader ==
    ASSUME LogTypes
    PROVE  LastCommit \in Nat /\ RecoveredHdr \in Headers
  <1>1. ValidFrames \subseteq 1 .. Len(log)
    BY DEF ValidFrames, LogTypes
  <1> DEFINE C == {f \in ValidFrames : log[f].commit}
  <1>2. C \subseteq ValidFrames
    BY Zenon
  <1>3. LastCommit = Max({0} \cup C)
    BY Zenon DEF LastCommit
  <1> HIDE DEF C
  <1>4. {0} \cup C \subseteq 0 .. Len(log)
    BY <1>1, <1>2 DEF LogTypes
  <1>5. LastCommit \in 0 .. Len(log)
    BY <1>3, <1>4, MaxOfFrames DEF LogTypes
  <1>. QED  BY <1>5 DEF RecoveredHdr, Header, Headers, LogTypes

\* What recovery leaves in shared memory.
LEMMA RecoverTypes ==
    ASSUME WalAssumption, LogTypes, Recover
    PROVE  SharedTypes'
  <1>1. NoMarks \in [1 .. Slots -> Nat]
    BY DEF NoMarks, NotUsed
  <1>2. [NoMarks EXCEPT ![1] = LastCommit] \in [1 .. Slots -> Nat]
    BY <1>1, RecoveredIsHeader
  <1>3. aReadMark' \in [1 .. Slots -> Nat]
    BY <1>1, <1>2 DEF Recover
  <1>4. live' \in Headers /\ nBackfill' = 0
    BY RecoveredIsHeader DEF Recover
  <1>. QED  BY <1>3, <1>4 DEF SharedTypes

\* Writing a frame leaves a log.
LEMMA WithFrameIsLog ==
    ASSUME LogTypes, NEW n \in Nat, NEW f
    PROVE  /\ Len(WithFrame(n, f)) \in Nat
           /\ DOMAIN WithFrame(n, f) = 1 .. Len(WithFrame(n, f))
  <1> DEFINE m == Max({n, Len(log)})
  <1>1. Len(log) \in Nat
    BY DEF LogTypes
  <1>2. m \in {n, Len(log)}
    <2>1. {n, Len(log)} \subseteq 0 .. (n + Len(log))
      BY <1>1
    <2>2. n + Len(log) \in Nat
      BY <1>1
    <2>. QED  BY <2>1, <2>2, MaxOfFrames
  <1>3. WithFrame(n, f) = [i \in 1 .. m |-> IF i = n THEN f ELSE log[i]]
    BY DEF WithFrame
  <1> DEFINE S == {WithFrame(n, f)[i] : i \in 1 .. m}
  <1>4. WithFrame(n, f) \in [1 .. m -> S]
    BY <1>3, Zenon
  <1> HIDE DEF m, S
  <1>5. m \in Nat
    BY <1>1, <1>2
  <1>6. WithFrame(n, f) \in Seq(S)
    BY <1>4, <1>5, SeqDef
  <1>. QED  BY <1>6, LenProperties

\* Headers and slots are made of numbers, and NoHdr is no header.
LEMMA HeaderIsHeader ==
    /\ \A n, salt \in Nat : Header(n, salt) \in Headers
    /\ \A h \in Headers : h.mxFrame \in Nat /\ h.salt \in Nat
    /\ \A h \in Headers : \A n \in Nat : [h EXCEPT !.mxFrame = n] \in Headers
    /\ \A h \in Headers : \A n \in Nat : [h EXCEPT !.salt = n] \in Headers
    /\ NoHdr \notin Headers
  BY DEF Header, Headers, NoHdr

\* A chosen slot and its mark.
LEMMA SlotIsSlot ==
    /\ \A i \in 0 .. Slots, n \in Nat : Slot(i, n) \in SlotTypes
    /\ \A s \in SlotTypes : s.i \in 0 .. Slots /\ s.mark \in Nat
    /\ \A i, n : Slot(i, n).i = i /\ Slot(i, n).mark = n
  BY DEF Slot, SlotTypes

\* A checkpointer at rest is well formed.
LEMMA IdleCkptTypes ==
    ASSUME ckpt' = IdleCkpt
    PROVE  CkptTypes'
  BY HeaderIsHeader DEF IdleCkpt, CkptTypes

\* What an attempt to read leaves behind that fails, or a transaction.
LEMMA LeaveTypes ==
    ASSUME WalAssumption, ConnTypes, NEW c \in Conn, NEW where \in PCs, Leave(c, where)
    PROVE  ConnTypes'
  <1>1. Header(0, 0) \in Headers /\ Slot(0, 0) \in SlotTypes /\ -1 \in -1 .. Slots
    BY SMTT(30), HeaderIsHeader, SlotIsSlot, SlotsAndConns
  <1>. QED  BY <1>1 DEF ConnTypes, Leave

\* What an attempt leaves behind that starts again.
LEMMA RetryTypes ==
    ASSUME WalAssumption, ConnTypes, NEW c \in Conn, Retry(c)
    PROVE  ConnTypes'
  <1>1. "retry" \in PCs /\ "choose" \in PCs /\ -1 \in -1 .. Slots
    BY DEF PCs, WalAssumption
  <1>2. CASE UseWal(c)
    BY <1>1, <1>2 DEF Retry, ConnTypes
  <1>3. CASE ~UseWal(c)
    BY <1>1, <1>3, LeaveTypes DEF Retry
  <1>. QED  BY <1>2, <1>3

-----------------------------------------------------------------------------
(* The steps keep the state well formed.                                   *)

\* An attempt to read takes the header as it is, or rebuilds it.
LEMMA ReadHdrTypes ==
    ASSUME WalAssumption, Types, NEW c \in Conn, ReadHdr(c)
    PROVE  Types'
  <1>1. ConnTypes'
    <2>1. CASE live # NoHdr
      BY ZenonT(60), <2>1 DEF Types, ConnTypes, SharedTypes, PCs, ReadHdr
    <2>2. CASE live = NoHdr
      <3>1. hdr' = [hdr EXCEPT ![c] = RecoveredHdr]
        BY <2>2 DEF ReadHdr
      <3>2. hdr' \in [Conn -> Headers]
        BY <3>1, RecoveredIsHeader DEF Types, ConnTypes
      <3>. QED  BY <3>2 DEF Types, ConnTypes, PCs, ReadHdr
    <2>. QED  BY <2>1, <2>2
  <1>2. SharedTypes'
    <2>1. CASE live # NoHdr
      BY <2>1 DEF Types, SharedTypes, ReadHdr, indexVars
    <2>2. CASE live = NoHdr
      <3>1. Recover
        BY <2>2 DEF ReadHdr
      <3>2. QED  BY <3>1, RecoverTypes DEF Types
    <2>. QED  BY <2>1, <2>2
  <1>3. WriterTypes' /\ LogTypes' /\ CkptTypes'
    BY DEF Types, WriterTypes, writeVars, LogTypes, fileVars, CkptTypes, ReadHdr
  <1>. QED  BY <1>1, <1>2, <1>3 DEF Types

\* Slot 0 is a slot.
LEMMA IgnoreLogTypes ==
    ASSUME WalAssumption, Types, NEW c \in Conn, IgnoreLog(c)
    PROVE  Types'
  <1>1. ConnTypes'
    BY DEF Types, ConnTypes, PCs, IgnoreLog
  <1>2. SharedTypes' /\ WriterTypes' /\ LogTypes' /\ CkptTypes'
    BY DEF Types, SharedTypes, indexVars, WriterTypes, writeVars, LogTypes, fileVars,
           CkptTypes, IgnoreLog
  <1>. QED  BY <1>1, <1>2 DEF Types

\* A reader of the database file goes on or starts again.
LEMMA CheckHdrTypes ==
    ASSUME WalAssumption, Types, NEW c \in Conn, CheckHdr(c)
    PROVE  Types'
  <1>1. ConnTypes'
    BY RetryTypes DEF Types, ConnTypes, PCs, CheckHdr
  <1>2. SharedTypes' /\ WriterTypes' /\ LogTypes' /\ CkptTypes'
    BY DEF Types, SharedTypes, indexVars, WriterTypes, writeVars, LogTypes, fileVars,
           CkptTypes, CheckHdr
  <1>. QED  BY <1>1, <1>2 DEF Types

\* The mark of a slot is kept or becomes the end of the reader's log.
LEMMA ChooseSlotTypes ==
    ASSUME WalAssumption, Types, NEW c \in Conn, ChooseSlot(c)
    PROVE  Types'
  <1> DEFINE n == hdr[c].mxFrame
  <1>a. n \in Nat /\ "share" \in PCs
    BY HeaderIsHeader DEF Types, ConnTypes, PCs
  <1>b. \/ \E i \in 1 .. Slots, mark \in Nat :
              /\ slot' = [slot EXCEPT ![c] = Slot(i, mark)]
              /\ aReadMark' = aReadMark \/ aReadMark' = [aReadMark EXCEPT ![i] = mark]
              /\ pc' = [pc EXCEPT ![c] = "share"]
              /\ UNCHANGED <<readLock, hdr, minFrame>>
        \/ Retry(c) /\ UNCHANGED aReadMark
    BY <1>a DEF Types, SharedTypes, ChooseSlot, BestMarks
  <1>1. ConnTypes'
    <2>1. CASE Retry(c)
      BY <2>1, RetryTypes DEF Types
    <2>2. CASE ~Retry(c)
      <3>1. PICK i \in 1 .. Slots, mark \in Nat :
               /\ slot' = [slot EXCEPT ![c] = Slot(i, mark)]
               /\ pc' = [pc EXCEPT ![c] = "share"]
               /\ UNCHANGED <<readLock, hdr>>
        BY <1>b, <2>2
      <3>2. Slot(i, mark) \in SlotTypes
        BY SlotIsSlot
      <3>3. QED  BY <1>a, <3>1, <3>2 DEF Types, ConnTypes
    <2>. QED  BY <2>1, <2>2
  <1>2. SharedTypes'
    BY <1>b DEF Types, SharedTypes, ChooseSlot
  <1>3. WriterTypes' /\ LogTypes' /\ CkptTypes'
    BY DEF Types, WriterTypes, writeVars, LogTypes, fileVars, CkptTypes, ChooseSlot
  <1>. QED  BY <1>1, <1>2, <1>3 DEF Types

\* The slot that was chosen is a slot.
LEMMA ShareSlotTypes ==
    ASSUME WalAssumption, Types, NEW c \in Conn, ShareSlot(c)
    PROVE  Types'
  <1>1. ConnTypes'
    <2>1. CASE Retry(c)
      BY <2>1, RetryTypes DEF Types
    <2>2. CASE ~Retry(c)
      <3>1. slot[c].i \in -1 .. Slots
        BY SlotIsSlot DEF Types, ConnTypes, WalAssumption
      <3>2. QED  BY <2>2, <3>1 DEF Types, ConnTypes, PCs, ShareSlot
    <2>. QED  BY <2>1, <2>2
  <1>2. SharedTypes' /\ WriterTypes' /\ LogTypes' /\ CkptTypes'
    BY DEF Types, SharedTypes, indexVars, WriterTypes, writeVars, LogTypes, fileVars,
           CkptTypes, ShareSlot
  <1>. QED  BY <1>1, <1>2 DEF Types

\* minFrame is of no concern.
LEMMA SetMinFrameTypes ==
    ASSUME WalAssumption, Types, NEW c \in Conn, SetMinFrame(c)
    PROVE  Types'
  <1>1. ConnTypes'
    BY DEF Types, WalAssumption, ConnTypes, PCs, SetMinFrame, fileVars, indexVars,
           connVars, writeVars
  <1>2. SharedTypes' /\ WriterTypes' /\ LogTypes' /\ CkptTypes'
    BY DEF Types, SharedTypes, indexVars, WriterTypes, writeVars, LogTypes, fileVars,
           CkptTypes, SetMinFrame
  <1>. QED  BY <1>1, <1>2 DEF Types

\* An attempt succeeds or starts again.
LEMMA VerifyTypes ==
    ASSUME WalAssumption, Types, NEW c \in Conn, Verify(c)
    PROVE  Types'
  <1>1. ConnTypes'
    BY RetryTypes DEF Types, ConnTypes, PCs, Verify, FirstWrite
  <1>2. SharedTypes' /\ WriterTypes' /\ LogTypes' /\ CkptTypes'
    BY DEF Types, SharedTypes, indexVars, WriterTypes, writeVars, LogTypes, fileVars,
           CkptTypes, Verify
  <1>. QED  BY <1>1, <1>2 DEF Types

\* A transaction ends.
LEMMA EndReadTypes ==
    ASSUME WalAssumption, Types, NEW c \in Conn, EndRead(c)
    PROVE  Types'
  <1>1. ConnTypes'
    BY LeaveTypes DEF Types, PCs, EndRead
  <1>2. WriterTypes'
    BY DEF Types, WriterTypes, EndRead, Leave, fileVars, indexVars, connVars, writeVars
  <1>3. SharedTypes' /\ LogTypes' /\ CkptTypes'
    BY DEF Types, SharedTypes, indexVars, LogTypes, fileVars, CkptTypes, EndRead, Leave
  <1>. QED  BY <1>1, <1>2, <1>3 DEF Types

\* A transaction has pages to write.
LEMMA BeginWriteTypes ==
    ASSUME WalAssumption, Types, NEW c \in Conn, BeginWrite(c)
    PROVE  Types'
  <1>1. ConnTypes'
    BY LeaveTypes DEF Types, ConnTypes, PCs, BeginWrite, FirstWrite
  <1>2. WriterTypes'
    BY DEF Types, WriterTypes, BeginWrite, writeVars
  <1>3. SharedTypes' /\ LogTypes' /\ CkptTypes'
    BY DEF Types, SharedTypes, indexVars, LogTypes, fileVars, CkptTypes, BeginWrite
  <1>. QED  BY <1>1, <1>2, <1>3 DEF Types

\* The salt after a salt is a salt.
LEMMA RestartHdrTypes ==
    ASSUME WalAssumption, Types, NEW c \in Conn, RestartHdr(c)
    PROVE  Types'
  <1>1. Header(0, hdr[c].salt + 1) \in Headers
    <2>1. hdr[c] \in Headers
      BY DEF Types, ConnTypes
    <2>2. hdr[c].salt + 1 \in Nat
      BY <2>1, HeaderIsHeader
    <2>. QED  BY <2>2, HeaderIsHeader
  <1>2. ConnTypes'
    BY <1>1 DEF Types, ConnTypes, PCs, RestartHdr
  <1>3. SharedTypes'
    BY <1>1 DEF Types, ConnTypes, SharedTypes, RestartHdr
  <1>4. WriterTypes' /\ LogTypes' /\ CkptTypes'
    BY DEF Types, WriterTypes, writeVars, LogTypes, fileVars, CkptTypes, RestartHdr
  <1>. QED  BY <1>2, <1>3, <1>4 DEF Types

\* The marks are reset to marks.
LEMMA RestartInfoTypes ==
    ASSUME WalAssumption, Types, NEW c \in Conn, RestartInfo(c)
    PROVE  Types'
  <1>1. ConnTypes'
    BY DEF Types, ConnTypes, PCs, RestartInfo
  <1>2. SharedTypes'
    BY DEF Types, SharedTypes, NotUsed, NoMarks, RestartInfo
  <1>3. WriterTypes' /\ LogTypes' /\ CkptTypes'
    BY DEF Types, WriterTypes, writeVars, LogTypes, fileVars, CkptTypes, RestartInfo,
           NoMarks
  <1>. QED  BY <1>1, <1>2, <1>3 DEF Types

\* Slot 0 is given up.
LEMMA KeepLogTypes ==
    ASSUME WalAssumption, Types, NEW c \in Conn, KeepLog(c)
    PROVE  Types'
  <1>1. ConnTypes'
    BY DEF Types, ConnTypes, PCs, KeepLog
  <1>2. SharedTypes' /\ WriterTypes' /\ LogTypes' /\ CkptTypes'
    BY DEF Types, SharedTypes, indexVars, WriterTypes, writeVars, LogTypes, fileVars,
           CkptTypes, KeepLog
  <1>. QED  BY <1>1, <1>2 DEF Types

\* The first log gets a salt.
LEMMA WriteLogHdrTypes ==
    ASSUME WalAssumption, Types, NEW c \in Conn, WriteLogHdr(c)
    PROVE  Types'
  <1>1. ConnTypes'
    BY HeaderIsHeader DEF Types, ConnTypes, PCs, WriteLogHdr
  <1>2. LogTypes'
    BY HeaderIsHeader DEF Types, LogTypes, ConnTypes, WriteLogHdr
  <1>3. SharedTypes' /\ WriterTypes' /\ CkptTypes'
    BY DEF Types, SharedTypes, indexVars, WriterTypes, writeVars, CkptTypes, WriteLogHdr
  <1>. QED  BY <1>1, <1>2, <1>3 DEF Types

\* A log with one more frame is a log.
LEMMA WriteFrameTypes ==
    ASSUME WalAssumption, Types, NEW c \in Conn, WriteFrame(c)
    PROVE  Types'
  <1>1. ConnTypes'
    BY DEF Types, ConnTypes, PCs, WriteFrame
  <1>2. WriterTypes'
    BY DEF Types, WriterTypes, WriteFrame, fileVars, indexVars, connVars, writeVars
  <1>3. LogTypes'
    BY DEF Types, LogTypes, WriteFrame
  <1>4. SharedTypes' /\ CkptTypes'
    BY DEF Types, SharedTypes, indexVars, CkptTypes, WriteFrame
  <1>. QED  BY <1>1, <1>2, <1>3, <1>4 DEF Types

\* A write fails.
LEMMA UndoTypes ==
    ASSUME WalAssumption, Types, NEW c \in Conn, Undo(c)
    PROVE  Types'
  <1>1. ConnTypes'
    BY LeaveTypes DEF Types, PCs, Undo
  <1>2. WriterTypes'
    BY DEF Types, WriterTypes, Undo, Leave, fileVars, indexVars, connVars, writeVars
  <1>3. LogTypes'
    <2>1. logHdr' \in Nat
      BY DEF Types, LogTypes, Undo, HalfHeader
    <2>2. CASE log' = log
      BY <2>1, <2>2 DEF Types, LogTypes
    <2>3. CASE log' # log
      <3>1. PICK d \in Conn : log' = WithFrame(hdr[d].mxFrame + done + 1, Torn)
        BY <2>3 DEF Undo, HalfWritten
      <3>2. hdr[d].mxFrame + done + 1 \in Nat
        BY SMTT(30), HeaderIsHeader DEF Types, ConnTypes, WriterTypes
      <3>3. /\ Len(log') \in Nat
            /\ DOMAIN log' = 1 .. Len(log')
        BY <3>1, <3>2, WithFrameIsLog DEF Types
      <3>. QED  BY <2>1, <3>3 DEF LogTypes
    <2>. QED  BY <2>2, <2>3
  <1>4. SharedTypes' /\ CkptTypes'
    BY DEF Types, SharedTypes, indexVars, CkptTypes, Undo
  <1>. QED  BY <1>1, <1>2, <1>3, <1>4 DEF Types

\* The end of the log and the new frames make the new end.
LEMMA PublishHdrTypes ==
    ASSUME WalAssumption, Types, NEW c \in Conn, PublishHdr(c)
    PROVE  Types'
  <1>1. [hdr[c] EXCEPT !.mxFrame = @ + Len(todo)] \in Headers
    <2>1. hdr[c] \in Headers
      BY DEF Types, ConnTypes
    <2>2. hdr[c].mxFrame + Len(todo) \in Nat
      BY <2>1, HeaderIsHeader DEF Types, WriterTypes
    <2>. QED  BY <2>1, <2>2, HeaderIsHeader
  <1> DEFINE h == [hdr[c] EXCEPT !.mxFrame = @ + Len(todo)]
  <1>2. hdr' = [hdr EXCEPT ![c] = h] /\ live' = hdr'[c]
    BY DEF PublishHdr
  <1> HIDE DEF h
  <1>3. ConnTypes'
    BY <1>1, <1>2 DEF Types, ConnTypes, PCs, PublishHdr, h
  <1>4. SharedTypes'
    BY <1>1, <1>2 DEF Types, ConnTypes, SharedTypes, PublishHdr, h
  <1>5. WriterTypes'
    BY DEF Types, WriterTypes, PublishHdr, fileVars, indexVars, connVars, writeVars
  <1>6. LogTypes' /\ CkptTypes'
    BY DEF Types, LogTypes, fileVars, CkptTypes, PublishHdr
  <1>. QED  BY <1>3, <1>4, <1>5, <1>6 DEF Types

\* The checkpointer takes the header as it is, or rebuilds it.
LEMMA CkptReadHdrTypes ==
    ASSUME WalAssumption, Types, CkptReadHdr
    PROVE  Types'
  <1>1. SharedTypes'
    BY RecoveredIsHeader
       DEF Types, SharedTypes, NotUsed, Recover, NoMarks, CkptReadHdr, indexVars
  <1>2. CkptTypes'
    BY RecoveredIsHeader DEF Types, CkptTypes, SharedTypes, CkptReadHdr
  <1>3. ConnTypes' /\ WriterTypes' /\ LogTypes'
    BY DEF Types, ConnTypes, connVars, WriterTypes, writeVars, LogTypes, fileVars,
           CkptReadHdr
  <1>. QED  BY <1>1, <1>2, <1>3 DEF Types

\* mxSafeFrame starts as a frame number.
LEMMA CkptTestTypes ==
    ASSUME WalAssumption, Types, CkptTest
    PROVE  Types'
  <1>1. CkptTypes'
    <2>1. ckpt.hdr.mxFrame \in Nat
      BY HeaderIsHeader DEF Types, CkptTypes
    <2>2. CASE nBackfill < ckpt.hdr.mxFrame
      BY <2>1, <2>2 DEF Types, CkptTypes, CkptTest
    <2>3. CASE ~(nBackfill < ckpt.hdr.mxFrame)
      BY <2>3, IdleCkptTypes DEF CkptTest
    <2>. QED  BY <2>2, <2>3
  <1>2. ConnTypes' /\ SharedTypes' /\ WriterTypes' /\ LogTypes'
    BY DEF Types, ConnTypes, connVars, SharedTypes, indexVars, WriterTypes, writeVars,
           LogTypes, fileVars, CkptTest
  <1>. QED  BY <1>1, <1>2 DEF Types

\* mxSafeFrame and the marks stay frame numbers.
LEMMA CkptMarkTypes ==
    ASSUME WalAssumption, Types, CkptMark
    PROVE  Types'
  <1>1. SharedTypes'
    BY DEF Types, SharedTypes, NotUsed, CkptTypes, CkptMark, MarkHolds, fileVars, connVars
  <1>2. CkptTypes'
    <2>1. ckpt.i \in 1 .. Slots /\ ckpt.i + 1 \in Nat /\ ckpt.i + 1 > 0
      BY DEF Types, CkptTypes, WalAssumption, CkptMark
    <2>2. aReadMark[ckpt.i] \in Nat
      BY <2>1 DEF Types, SharedTypes
    <2>3. \/ ckpt' = [ckpt EXCEPT !.i = ckpt.i + 1]
          \/ ckpt' = [ckpt EXCEPT !.i = ckpt.i + 1, !.mxSafeFrame = aReadMark[ckpt.i]]
      BY DEF CkptMark, MarkHolds
    <2>4. CASE ckpt' = [ckpt EXCEPT !.i = ckpt.i + 1]
      BY <2>1, <2>4 DEF Types, CkptTypes
    <2>5. CASE ckpt' = [ckpt EXCEPT !.i = ckpt.i + 1, !.mxSafeFrame = aReadMark[ckpt.i]]
      BY <2>1, <2>2, <2>5 DEF Types, CkptTypes
    <2>. QED  BY <2>3, <2>4, <2>5
  <1>3. ConnTypes' /\ WriterTypes' /\ LogTypes'
    BY DEF Types, ConnTypes, connVars, WriterTypes, writeVars, LogTypes, fileVars, CkptMark
  <1>. QED  BY <1>1, <1>2, <1>3 DEF Types

\* Copying starts or not.
LEMMA CkptLock0Types ==
    ASSUME WalAssumption, Types, CkptLock0
    PROVE  Types'
  <1>1. CkptTypes'
    BY HeaderIsHeader DEF Types, CkptTypes, CkptLock0, IdleCkpt
  <1>2. ConnTypes' /\ SharedTypes' /\ WriterTypes' /\ LogTypes'
    BY DEF Types, ConnTypes, connVars, SharedTypes, indexVars, WriterTypes, writeVars,
           LogTypes, fileVars, CkptLock0
  <1>. QED  BY <1>1, <1>2 DEF Types

\* A page is copied.
LEMMA CkptCopyTypes ==
    ASSUME WalAssumption, Types, CkptCopy
    PROVE  Types'
  <1>1. CkptTypes'
    BY HeaderIsHeader
       DEF Types, CkptTypes, CkptCopy, fileVars, indexVars, connVars, writeVars
  <1>2. ConnTypes' /\ SharedTypes' /\ WriterTypes' /\ LogTypes'
    BY DEF Types, ConnTypes, connVars, SharedTypes, indexVars, WriterTypes, writeVars,
           LogTypes, CkptCopy
  <1>. QED  BY <1>1, <1>2 DEF Types

\* A page is not copied.
LEMMA CkptFailsTypes ==
    ASSUME WalAssumption, Types, CkptFails
    PROVE  Types'
  <1>1. CkptTypes'
    BY HeaderIsHeader DEF CkptTypes, CkptFails, IdleCkpt
  <1>2. ConnTypes' /\ SharedTypes' /\ WriterTypes' /\ LogTypes'
    BY DEF Types, ConnTypes, connVars, SharedTypes, indexVars, WriterTypes, writeVars,
           LogTypes, CkptFails
  <1>. QED  BY <1>1, <1>2 DEF Types

\* nBackfill becomes a frame number.
LEMMA CkptDoneTypes ==
    ASSUME WalAssumption, Types, CkptDone
    PROVE  Types'
  <1>1. SharedTypes'
    BY DEF Types, SharedTypes, CkptTypes, CkptDone
  <1>2. CkptTypes'
    BY HeaderIsHeader
       DEF Types, CkptTypes, CkptDone, fileVars, indexVars, connVars, writeVars
  <1>3. ConnTypes' /\ WriterTypes' /\ LogTypes'
    BY DEF Types, ConnTypes, connVars, WriterTypes, writeVars, LogTypes, fileVars, CkptDone
  <1>. QED  BY <1>1, <1>2, <1>3 DEF Types

\* The checkpointer rests.
LEMMA CkptUnlockTypes ==
    ASSUME WalAssumption, Types, CkptUnlock
    PROVE  Types'
  <1>1. CkptTypes'
    BY HeaderIsHeader DEF CkptTypes, CkptUnlock, IdleCkpt
  <1>2. ConnTypes' /\ SharedTypes' /\ WriterTypes' /\ LogTypes'
    BY DEF Types, ConnTypes, connVars, SharedTypes, indexVars, WriterTypes, writeVars,
           LogTypes, fileVars, CkptUnlock
  <1>. QED  BY <1>1, <1>2 DEF Types

\* A kill leaves nothing in memory.
LEMMA KillTypes ==
    ASSUME WalAssumption, Types, Kill
    PROVE  Types'
  <1>1. ConnTypes'
    <2>1. Header(0, 0) \in Headers /\ Slot(0, 0) \in SlotTypes /\ -1 \in -1 .. Slots
      BY SMTT(30), HeaderIsHeader, SlotIsSlot, SlotsAndConns
    <2>. QED  BY <2>1 DEF ConnTypes, PCs, Kill
  <1>2. SharedTypes' /\ WriterTypes'
    BY DEF SharedTypes, WriterTypes, Kill, NoMarks, NotUsed
  <1>3. LogTypes'
    <2>1. logHdr' \in Nat
      BY DEF Types, LogTypes, Kill, HalfHeader
    <2>2. CASE log' = log
      BY <2>1, <2>2 DEF Types, LogTypes
    <2>3. CASE log' # log
      <3>1. PICK c \in Conn : log' = WithFrame(hdr[c].mxFrame + done + 1, Torn)
        BY <2>3 DEF Kill, HalfWritten
      <3>2. hdr[c].mxFrame + done + 1 \in Nat
        BY SMTT(30), HeaderIsHeader DEF Types, ConnTypes, WriterTypes
      <3>3. /\ Len(log') \in Nat
            /\ DOMAIN log' = 1 .. Len(log')
        BY <3>1, <3>2, WithFrameIsLog DEF Types
      <3>. QED  BY <2>1, <3>3 DEF LogTypes
    <2>. QED  BY <2>2, <2>3
  <1>4. CkptTypes'
    BY IdleCkptTypes DEF Kill
  <1>. QED  BY <1>1, <1>2, <1>3, <1>4 DEF Types

-----------------------------------------------------------------------------
(* The steps keep the locks.                                               *)

\* What a step of another connection leaves as it is.
Same(d) ==
    /\ pc'[d] = pc[d] /\ readLock'[d] = readLock[d]
    /\ hdr'[d] = hdr[d] /\ slot'[d] = slot[d]

\* It concerns nobody else, unless it takes WRITE_LOCK or the header away.
LEMMA OthersHold ==
    ASSUME NEW d, Holds(d), Same(d), writer' = d => writer = d,
           live' = NoHdr => live = NoHdr
    PROVE  Holds(d)'
  BY DEF Holds, Same

\* An attempt to read begins without locks.
LEMMA ReadHdrLocks ==
    ASSUME WalAssumption, Inv1, NEW c \in Conn, ReadHdr(c)
    PROVE  Control' /\ LocksExclude'
  <1>1. \A d \in Conn \ {c} : Same(d)
    BY DEF Same, Inv1, Types, ConnTypes, ReadHdr
  <1>2. Holds(c)'
    <2>1. live' # NoHdr
      BY RecoveredIsHeader, HeaderIsHeader DEF Inv1, Types, ReadHdr, Recover, indexVars
    <2>2. readLock'[c] = -1 /\ writer' # c
      BY DEF Inv1, Control, Holds, ReadHdr, writeVars
    <2>3. pc'[c] = "choose"
      BY DEF Inv1, Types, ConnTypes, ReadHdr
    <2>. QED  BY <2>1, <2>2, <2>3 DEF Holds
  <1>3. (live' = NoHdr => live = NoHdr) /\ \A d \in Conn \ {c} : writer' = d => writer = d
    BY HeaderIsHeader
       DEF Inv1, Types, ConnTypes, WalAssumption, ReadHdr, writeVars, indexVars
  <1>4. Control'
    BY <1>1, <1>2, <1>3, OthersHold DEF Inv1, Control, ReadHdr
  <1>5. LocksExclude'
    BY <1>1, <1>2, <1>3 DEF Inv1, LocksExclude, Writing, Restarting, ReadHdr, writeVars
  <1>. QED  BY <1>4, <1>5

\* Slot 0 is only taken while nobody writes to the database file.
LEMMA IgnoreLogLocks ==
    ASSUME WalAssumption, Inv1, NEW c \in Conn, IgnoreLog(c)
    PROVE  Control' /\ LocksExclude'
  <1>1. \A d \in Conn \ {c} : Same(d)
    BY DEF Same, Inv1, Types, ConnTypes, IgnoreLog
  <1>2. Holds(c)'
    <2>1. live' # NoHdr
      BY DEF Inv1, Control, Holds, IgnoreLog, indexVars
    <2>2. pc'[c] = "check" /\ readLock'[c] = 0 /\ writer' # c
      BY DEF Inv1, Types, ConnTypes, IgnoreLog, UseWal, writeVars
    <2>. QED  BY <2>1, <2>2 DEF Holds
  <1>3. (live' = NoHdr => live = NoHdr) /\ \A d \in Conn \ {c} : writer' = d => writer = d
    BY DEF IgnoreLog, writeVars, indexVars
  <1>4. Control'
    BY <1>1, <1>2, <1>3, OthersHold DEF Inv1, Control, IgnoreLog
  <1>5. LocksExclude'
    BY <1>1, <1>2, <1>3
       DEF Inv1, LocksExclude, Writing, Restarting, IgnoreLog, LockedExclusive, writeVars
  <1>. QED  BY <1>4, <1>5

\* A reader of the database file stays one or starts again.
LEMMA CheckHdrLocks ==
    ASSUME WalAssumption, Inv1, NEW c \in Conn, CheckHdr(c)
    PROVE  Control' /\ LocksExclude'
  <1>1. \A d \in Conn \ {c} : Same(d)
    BY DEF Same, Inv1, Types, ConnTypes, CheckHdr, Retry, Leave
  <1>2. Holds(c)'
    BY SMTT(30), HeaderIsHeader, SlotIsSlot, SlotsAndConns
       DEF Inv1, Types, ConnTypes, SharedTypes, WriterTypes, Control,
           Holds, CheckHdr, Retry, Leave, UseWal, writeVars, indexVars
  <1>3. (live' = NoHdr => live = NoHdr) /\ \A d \in Conn \ {c} : writer' = d => writer = d
    BY DEF CheckHdr, writeVars, indexVars
  <1>4. Control'
    BY <1>1, <1>2, <1>3, OthersHold DEF Inv1, Control, CheckHdr
  <1>5. LocksExclude'
    BY SMTT(30), <1>1, <1>2, <1>3
       DEF Inv1, Types, ConnTypes, Control, Holds, LocksExclude, Writing, Restarting,
           Same, CheckHdr, Retry, Leave, writeVars
  <1>. QED  BY <1>4, <1>5

\* A slot is chosen without being locked.
LEMMA ChooseSlotLocks ==
    ASSUME WalAssumption, Inv1, NEW c \in Conn, ChooseSlot(c)
    PROVE  Control' /\ LocksExclude'
  <1>1. \A d \in Conn \ {c} : Same(d)
    BY DEF Same, Inv1, Types, ConnTypes, ChooseSlot, Retry, Leave
  <1>2. Holds(c)'
    <2>1. live' # NoHdr
      BY DEF Inv1, Control, Holds, ChooseSlot
    <2>2. readLock[c] = -1 /\ writer' = writer /\ hdr[c].mxFrame \in Nat
      BY HeaderIsHeader DEF Inv1, Types, ConnTypes, Control, Holds, ChooseSlot, writeVars
    <2>3. \/ \E i \in 1 .. Slots, mark \in Nat :
                /\ mark <= hdr[c].mxFrame
                /\ slot' = [slot EXCEPT ![c] = Slot(i, mark)]
                /\ pc' = [pc EXCEPT ![c] = "share"]
                /\ UNCHANGED <<readLock, hdr>>
          \/ Retry(c)
      BY <2>2 DEF Inv1, Types, SharedTypes, ChooseSlot, BestMarks
    <2>4. CASE Retry(c)
      BY <2>1, <2>2, <2>4 DEF Inv1, Types, ConnTypes, Holds, Retry, Leave, UseWal
    <2>5. CASE ~Retry(c)
      <3>1. PICK i \in 1 .. Slots, mark \in Nat :
               /\ mark <= hdr[c].mxFrame
               /\ slot' = [slot EXCEPT ![c] = Slot(i, mark)]
               /\ pc' = [pc EXCEPT ![c] = "share"]
               /\ UNCHANGED <<readLock, hdr>>
        BY <2>3, <2>5
      <3>2. slot'[c].i = i /\ slot'[c].mark = mark /\ pc'[c] = "share"
        BY <3>1, SlotIsSlot DEF Inv1, Types, ConnTypes
      <3>. QED  BY <2>1, <2>2, <3>1, <3>2 DEF Holds
    <2>. QED  BY <2>4, <2>5
  <1>3. (live' = NoHdr => live = NoHdr) /\ \A d \in Conn \ {c} : writer' = d => writer = d
    BY DEF ChooseSlot, writeVars
  <1>4. Control'
    BY <1>1, <1>2, <1>3, OthersHold DEF Inv1, Control, ChooseSlot
  <1>5. LocksExclude'
    BY <1>1, <1>2, <1>3
       DEF Inv1, Types, ConnTypes, Control, Holds, LocksExclude, Writing, Restarting,
           ChooseSlot, Retry, Leave, writeVars
  <1>. QED  BY <1>4, <1>5

\* A slot is only taken while nobody starts the log again.
LEMMA ShareSlotLocks ==
    ASSUME WalAssumption, Inv1, NEW c \in Conn, ShareSlot(c)
    PROVE  Control' /\ LocksExclude'
  <1>1. \A d \in Conn \ {c} : Same(d)
    BY DEF Same, Inv1, Types, ConnTypes, ShareSlot, Retry, Leave
  <1>2. Holds(c)'
    BY SMTT(30), HeaderIsHeader, SlotIsSlot, SlotsAndConns
       DEF Inv1, Types, ConnTypes, SharedTypes, WriterTypes, Control,
           Holds, ShareSlot, Retry, Leave, UseWal, LockedExclusive, writeVars, indexVars
  <1>3. (live' = NoHdr => live = NoHdr) /\ \A d \in Conn \ {c} : writer' = d => writer = d
    BY DEF ShareSlot, writeVars, indexVars
  <1>4. Control'
    BY <1>1, <1>2, <1>3, OthersHold DEF Inv1, Control, ShareSlot
  <1>5. LocksExclude'
    <2>1. pc'[c] \in {"mark", "retry", "choose"} /\ writer' = writer /\ ckpt' = ckpt
      BY DEF Inv1, Types, ConnTypes, ShareSlot, Retry, Leave, writeVars
    <2>2. Restarting' = Restarting
      BY <1>1, <2>1 DEF Restarting, Same, ShareSlot
    <2>3. readLock'[c] = -1 \/ (~LockedExclusive(slot[c].i) /\ readLock'[c] = slot[c].i)
      <3>1. CASE LockedExclusive(slot[c].i)
        <4>1. readLock' = [readLock EXCEPT ![c] = -1]
          BY <3>1 DEF ShareSlot, Retry, Leave
        <4>2. readLock'[c] = -1
          BY <4>1 DEF Inv1, Types, ConnTypes
        <4>. QED  BY <4>2
      <3>2. CASE ~LockedExclusive(slot[c].i)
        <4>1. readLock' = [readLock EXCEPT ![c] = slot[c].i]
          BY <3>2 DEF ShareSlot
        <4>. QED  BY <3>2, <4>1 DEF Inv1, Types, ConnTypes
      <3>. QED  BY <3>1, <3>2
    <2>. QED  BY <1>1, <2>1, <2>2, <2>3
                 DEF Inv1, LocksExclude, Writing, Same, LockedExclusive
  <1>. QED  BY <1>4, <1>5

\* No lock changes hands.
LEMMA SetMinFrameLocks ==
    ASSUME WalAssumption, Inv1, NEW c \in Conn, SetMinFrame(c)
    PROVE  Control' /\ LocksExclude'
  <1>1. \A d \in Conn \ {c} : Same(d)
    BY DEF Same, Inv1, Types, ConnTypes, SetMinFrame
  <1>2. Holds(c)'
    BY ZenonT(60), HeaderIsHeader, SlotIsSlot, SlotsAndConns
       DEF Inv1, Types, ConnTypes, SharedTypes, WriterTypes, Control,
           Holds, SetMinFrame, writeVars, indexVars
  <1>3. (live' = NoHdr => live = NoHdr) /\ \A d \in Conn \ {c} : writer' = d => writer = d
    BY HeaderIsHeader
       DEF Inv1, Types, ConnTypes, WalAssumption, SetMinFrame, writeVars, indexVars
  <1>4. Control'
    BY <1>1, <1>2, <1>3, OthersHold DEF Inv1, Control, SetMinFrame
  <1>5. LocksExclude'
    BY <1>1, <1>2, <1>3 DEF Inv1, LocksExclude, Writing, Restarting, SetMinFrame, writeVars
  <1>. QED  BY <1>4, <1>5

\* A reader, or the writer, keeps its slot or starts again.
LEMMA VerifyLocks ==
    ASSUME WalAssumption, Inv1, NEW c \in Conn, Verify(c)
    PROVE  Control' /\ LocksExclude'
  <1>1. \A d \in Conn \ {c} : Same(d)
    BY DEF Same, Inv1, Types, ConnTypes, Verify, Retry, Leave, FirstWrite
  <1>2. Holds(c)'
    BY SMTT(30), HeaderIsHeader, SlotIsSlot, SlotsAndConns
       DEF Inv1, Types, ConnTypes, SharedTypes, WriterTypes, Control,
           Holds, Verify, Retry, Leave, UseWal, FirstWrite, writeVars, indexVars
  <1>3. (live' = NoHdr => live = NoHdr) /\ \A d \in Conn \ {c} : writer' = d => writer = d
    BY DEF Verify, writeVars, indexVars
  <1>4. Control'
    BY <1>1, <1>2, <1>3, OthersHold DEF Inv1, Control, Verify
  <1>5. LocksExclude'
    BY <1>1, <1>2, <1>3
       DEF Inv1, Types, ConnTypes, Control, Holds, LocksExclude, Writing, Restarting,
           Same, Verify, Retry, Leave, UseWal, writeVars
  <1>. QED  BY <1>4, <1>5

\* The end of a transaction gives up every lock.
LEMMA EndReadLocks ==
    ASSUME WalAssumption, Inv1, NEW c \in Conn, EndRead(c)
    PROVE  Control' /\ LocksExclude'
  <1>1. \A d \in Conn \ {c} : Same(d)
    BY DEF Same, Inv1, Types, ConnTypes, EndRead, Leave
  <1>2. Holds(c)'
    BY DEF Inv1, Types, ConnTypes, Holds, EndRead, Leave
  <1>3. (live' = NoHdr => live = NoHdr) /\ \A d \in Conn \ {c} : writer' = d => writer = d
    BY DEF EndRead, indexVars
  <1>4. Control'
    BY <1>1, <1>2, <1>3, OthersHold DEF Inv1, Control, EndRead
  <1>5. LocksExclude'
    BY <1>1, <1>2, <1>3
       DEF Inv1, Types, ConnTypes, LocksExclude, Writing, Restarting, EndRead, Leave
  <1>. QED  BY <1>4, <1>5

\* A reader becomes the writer.
LEMMA BeginWriteLocks ==
    ASSUME WalAssumption, Inv1, NEW c \in Conn, BeginWrite(c)
    PROVE  Control' /\ LocksExclude'
  <1>1. \A d \in Conn \ {c} : Same(d)
    BY DEF Same, Inv1, Types, ConnTypes, BeginWrite, Leave, FirstWrite
  <1>2. Holds(c)'
    <2>1. live' # NoHdr
      BY DEF Inv1, Control, Holds, BeginWrite, indexVars
    <2>2. CASE CanWrite(c)
      <3>1. readLock'[c] = readLock[c] /\ readLock[c] \in -1 .. Slots
        BY <2>2 DEF Inv1, Types, ConnTypes, BeginWrite
      <3>2. pc'[c] = IF readLock[c] = 0 THEN "write" ELSE FirstWrite(c)
        BY <2>2 DEF Inv1, Types, ConnTypes, BeginWrite
      <3>3. readLock[c] # -1
        BY DEF Inv1, Control, Holds, BeginWrite
      <3>. QED  BY <2>1, <3>1, <3>2, <3>3 DEF Holds, FirstWrite, WalAssumption
    <2>3. CASE ~CanWrite(c)
      <3>1. Leave(c, "idle") /\ writer' = Nobody
        BY <2>3 DEF BeginWrite, writeVars
      <3>. QED  BY <2>1, <3>1 DEF Inv1, Types, ConnTypes, Holds, Leave, WalAssumption
    <2>. QED  BY <2>2, <2>3
  <1>3. (live' = NoHdr => live = NoHdr) /\ \A d \in Conn \ {c} : writer' = d => writer = d
    BY DEF BeginWrite, writeVars, indexVars
  <1>4. Control'
    BY <1>1, <1>2, <1>3, OthersHold DEF Inv1, Control, BeginWrite
  <1>5. LocksExclude'
    BY <1>1, <1>2, <1>3
       DEF Inv1, Types, ConnTypes, LocksExclude, Writing, Restarting, BeginWrite, Leave,
           FirstWrite
  <1>. QED  BY <1>4, <1>5

\* The log is only started again while nobody holds a slot.
LEMMA RestartHdrLocks ==
    ASSUME WalAssumption, Inv1, NEW c \in Conn, RestartHdr(c)
    PROVE  Control' /\ LocksExclude'
  <1>1. \A d \in Conn \ {c} : Same(d)
    BY DEF Same, Inv1, Types, ConnTypes, RestartHdr, NobodyReadsLog, CanLockExclusive,
           Holders
  <1>2. Holds(c)'
    <2>1. live' # NoHdr
      <3>1. ConnTypes'
        BY RestartHdrTypes DEF Inv1, Types
      <3>2. live' = hdr'[c]
        BY DEF RestartHdr
      <3>. QED  BY <3>1, <3>2, HeaderIsHeader DEF ConnTypes
    <2>2. readLock' = readLock /\ pc'[c] = "restart"
      BY DEF Inv1, Types, ConnTypes, RestartHdr
    <2>. QED  BY <2>1, <2>2 DEF Inv1, Control, Holds, RestartHdr
  <1>3. (live' = NoHdr => live = NoHdr) /\ \A d \in Conn \ {c} : writer' = d => writer = d
    <2>1. live' # NoHdr
      <3>1. ConnTypes'
        BY RestartHdrTypes DEF Inv1, Types
      <3>2. live' = hdr'[c]
        BY DEF RestartHdr
      <3>. QED  BY <3>1, <3>2, HeaderIsHeader DEF ConnTypes
    <2>. QED  BY <2>1 DEF RestartHdr, writeVars
  <1>4. Control'
    BY <1>1, <1>2, <1>3, OthersHold DEF Inv1, Control, RestartHdr
  <1>5. LocksExclude'
    BY <1>1, <1>2, <1>3
       DEF Inv1, LocksExclude, Writing, RestartHdr, NobodyReadsLog, CanLockExclusive,
           Holders, writeVars
  <1>. QED  BY <1>4, <1>5

\* The writer gives up slot 0 and keeps WRITE_LOCK.
LEMMA RestartInfoLocks ==
    ASSUME WalAssumption, Inv1, NEW c \in Conn, RestartInfo(c)
    PROVE  Control' /\ LocksExclude'
  <1>1. \A d \in Conn \ {c} : Same(d)
    BY DEF Same, Inv1, Types, ConnTypes, RestartInfo
  <1>2. Holds(c)'
    BY SMTT(30), HeaderIsHeader, SlotIsSlot, SlotsAndConns
       DEF Inv1, Types, ConnTypes, SharedTypes, WriterTypes, Control,
           Holds, RestartInfo, writeVars, indexVars
  <1>3. (live' = NoHdr => live = NoHdr) /\ \A d \in Conn \ {c} : writer' = d => writer = d
    BY HeaderIsHeader
       DEF Inv1, Types, ConnTypes, WalAssumption, RestartInfo, writeVars, indexVars
  <1>4. Control'
    BY <1>1, <1>2, <1>3, OthersHold DEF Inv1, Control, RestartInfo
  <1>5. LocksExclude'
    BY <1>1, <1>2, <1>3 DEF Inv1, LocksExclude, Writing, Restarting, RestartInfo, writeVars
  <1>. QED  BY <1>4, <1>5

\* The writer gives up slot 0 and keeps WRITE_LOCK.
LEMMA KeepLogLocks ==
    ASSUME WalAssumption, Inv1, NEW c \in Conn, KeepLog(c)
    PROVE  Control' /\ LocksExclude'
  <1>1. \A d \in Conn \ {c} : Same(d)
    BY DEF Same, Inv1, Types, ConnTypes, KeepLog
  <1>2. Holds(c)'
    BY ZenonT(60), HeaderIsHeader, SlotIsSlot, SlotsAndConns
       DEF Inv1, Types, ConnTypes, SharedTypes, WriterTypes, Control,
           Holds, KeepLog, writeVars, indexVars
  <1>3. (live' = NoHdr => live = NoHdr) /\ \A d \in Conn \ {c} : writer' = d => writer = d
    BY HeaderIsHeader
       DEF Inv1, Types, ConnTypes, WalAssumption, KeepLog, writeVars, indexVars
  <1>4. Control'
    BY <1>1, <1>2, <1>3, OthersHold DEF Inv1, Control, KeepLog
  <1>5. LocksExclude'
    BY <1>1, <1>2, <1>3 DEF Inv1, LocksExclude, Writing, Restarting, KeepLog, writeVars
  <1>. QED  BY <1>4, <1>5

\* No lock changes hands.
LEMMA WriteLogHdrLocks ==
    ASSUME WalAssumption, Inv1, NEW c \in Conn, WriteLogHdr(c)
    PROVE  Control' /\ LocksExclude'
  <1>1. \A d \in Conn \ {c} : Same(d)
    BY DEF Same, Inv1, Types, ConnTypes, WriteLogHdr
  <1>2. Holds(c)'
    BY ZenonT(60), HeaderIsHeader, SlotIsSlot, SlotsAndConns
       DEF Inv1, Types, ConnTypes, SharedTypes, WriterTypes, Control,
           Holds, WriteLogHdr, writeVars, indexVars
  <1>3. (live' = NoHdr => live = NoHdr) /\ \A d \in Conn \ {c} : writer' = d => writer = d
    BY HeaderIsHeader
       DEF Inv1, Types, ConnTypes, WalAssumption, WriteLogHdr, writeVars, indexVars
  <1>4. Control'
    BY <1>1, <1>2, <1>3, OthersHold DEF Inv1, Control, WriteLogHdr
  <1>5. LocksExclude'
    BY <1>1, <1>2, <1>3 DEF Inv1, LocksExclude, Writing, Restarting, WriteLogHdr, writeVars
  <1>. QED  BY <1>4, <1>5

\* No lock changes hands.
LEMMA WriteFrameLocks ==
    ASSUME WalAssumption, Inv1, NEW c \in Conn, WriteFrame(c)
    PROVE  Control' /\ LocksExclude'
  <1>1. \A d \in Conn \ {c} : Same(d)
    BY DEF Same, Inv1, Types, ConnTypes, WriteFrame
  <1>2. Holds(c)'
    BY ZenonT(60), HeaderIsHeader, SlotIsSlot, SlotsAndConns
       DEF Inv1, Types, ConnTypes, SharedTypes, WriterTypes, Control,
           Holds, WriteFrame, writeVars, indexVars
  <1>3. (live' = NoHdr => live = NoHdr) /\ \A d \in Conn \ {c} : writer' = d => writer = d
    BY HeaderIsHeader
       DEF Inv1, Types, ConnTypes, WalAssumption, WriteFrame, writeVars, indexVars
  <1>4. Control'
    BY <1>1, <1>2, <1>3, OthersHold DEF Inv1, Control, WriteFrame
  <1>5. LocksExclude'
    BY <1>1, <1>2, <1>3 DEF Inv1, LocksExclude, Writing, Restarting, WriteFrame
  <1>. QED  BY <1>4, <1>5

\* A write that fails gives up every lock.
LEMMA UndoLocks ==
    ASSUME WalAssumption, Inv1, NEW c \in Conn, Undo(c)
    PROVE  Control' /\ LocksExclude'
  <1>1. \A d \in Conn \ {c} : Same(d)
    BY DEF Same, Inv1, Types, ConnTypes, Undo, Leave
  <1>2. Holds(c)'
    BY DEF Inv1, Types, ConnTypes, Holds, Undo, Leave
  <1>3. (live' = NoHdr => live = NoHdr) /\ \A d \in Conn \ {c} : writer' = d => writer = d
    BY DEF Undo, indexVars
  <1>4. Control'
    BY <1>1, <1>2, <1>3, OthersHold DEF Inv1, Control, Undo
  <1>5. LocksExclude'
    BY <1>1, <1>2, <1>3
       DEF Inv1, Types, ConnTypes, LocksExclude, Writing, Restarting, Undo, Leave
  <1>. QED  BY <1>4, <1>5

\* No lock changes hands.
LEMMA PublishHdrLocks ==
    ASSUME WalAssumption, Inv1, NEW c \in Conn, PublishHdr(c)
    PROVE  Control' /\ LocksExclude'
  <1>1. \A d \in Conn \ {c} : Same(d)
    BY DEF Same, Inv1, Types, ConnTypes, PublishHdr
  <1>2. Holds(c)'
    <2>1. live' # NoHdr
      <3>1. ConnTypes'
        BY PublishHdrTypes DEF Inv1, Types
      <3>2. live' = hdr'[c]
        BY DEF PublishHdr
      <3>. QED  BY <3>1, <3>2, HeaderIsHeader DEF ConnTypes
    <2>2. readLock' = readLock /\ pc'[c] = "committed"
      BY DEF Inv1, Types, ConnTypes, PublishHdr
    <2>. QED  BY <2>1, <2>2 DEF Inv1, Control, Holds, PublishHdr
  <1>3. (live' = NoHdr => live = NoHdr) /\ \A d \in Conn \ {c} : writer' = d => writer = d
    <2>1. live' # NoHdr
      <3>1. ConnTypes'
        BY PublishHdrTypes DEF Inv1, Types
      <3>2. live' = hdr'[c]
        BY DEF PublishHdr
      <3>. QED  BY <3>1, <3>2, HeaderIsHeader DEF ConnTypes
    <2>. QED  BY <2>1 DEF PublishHdr, writeVars
  <1>4. Control'
    BY <1>1, <1>2, <1>3, OthersHold DEF Inv1, Control, PublishHdr
  <1>5. LocksExclude'
    BY <1>1, <1>2, <1>3 DEF Inv1, LocksExclude, Writing, Restarting, PublishHdr
  <1>. QED  BY <1>4, <1>5

\* No lock of the checkpointer touches a reader before it copies.
LEMMA CkptReadHdrLocks ==
    ASSUME WalAssumption, Inv1, CkptReadHdr
    PROVE  Control' /\ LocksExclude'
  <1>1. \A d \in Conn : Same(d)
    BY DEF Same, CkptReadHdr, connVars
  <1>2. (live' = NoHdr => live = NoHdr) /\ writer' = writer
    BY RecoveredIsHeader, HeaderIsHeader
       DEF Inv1, Types, CkptReadHdr, Recover, writeVars, indexVars
  <1>3. live' # NoHdr /\ ckpt'.pc = "test"
    <2>1. live' # NoHdr
      BY RecoveredIsHeader, HeaderIsHeader DEF Inv1, Types, CkptReadHdr, Recover, indexVars
    <2>2. ckpt'.pc = "test"
      BY DEF Inv1, Types, CkptTypes, CkptReadHdr
    <2>. QED  BY <2>1, <2>2
  <1>4. Control'
    BY <1>1, <1>2, <1>3, OthersHold DEF Inv1, Control
  <1>5. LocksExclude'
    BY <1>1, <1>2, <1>3 DEF Inv1, LocksExclude, Writing, Restarting, Same
  <1>. QED  BY <1>4, <1>5

\* No read lock changes hands.
LEMMA CkptTestLocks ==
    ASSUME WalAssumption, Inv1, CkptTest
    PROVE  Control' /\ LocksExclude'
  <1>1. \A d \in Conn : Same(d)
    BY DEF Same, CkptTest, connVars
  <1>2. (live' = NoHdr => live = NoHdr) /\ writer' = writer
    BY DEF CkptTest, writeVars, indexVars
  <1>3. live' = NoHdr => ckpt'.pc = "idle"
    BY <1>2, HeaderIsHeader DEF Inv1, Types, CkptTypes, Control, CkptTest, IdleCkpt
  <1>4. Control'
    BY <1>1, <1>2, <1>3, OthersHold DEF Inv1, Control
  <1>5. LocksExclude'
    BY <1>1, <1>2 DEF Inv1, LocksExclude, Writing, Restarting, Same, CkptTest, IdleCkpt
  <1>. QED  BY <1>4, <1>5

\* No read lock is kept.
LEMMA CkptMarkLocks ==
    ASSUME WalAssumption, Inv1, CkptMark
    PROVE  Control' /\ LocksExclude'
  <1>1. \A d \in Conn : Same(d)
    BY DEF Same, CkptMark, connVars
  <1>2. (live' = NoHdr => live = NoHdr) /\ writer' = writer
    BY DEF CkptMark, writeVars
  <1>3. live' = NoHdr => ckpt'.pc = "idle"
    BY <1>2, HeaderIsHeader DEF Inv1, Types, CkptTypes, Control, CkptMark, MarkHolds
  <1>4. Control'
    BY <1>1, <1>2, <1>3, OthersHold DEF Inv1, Control
  <1>5. LocksExclude'
    <2>1. ckpt'.pc = ckpt.pc
      BY DEF Inv1, Types, CkptTypes, CkptMark, MarkHolds
    <2>. QED  BY <1>1, <1>2, <2>1 DEF Inv1, LocksExclude, Writing, Restarting, Same
  <1>. QED  BY <1>4, <1>5

\* Pages are only written while nobody holds slot 0.
LEMMA CkptLock0Locks ==
    ASSUME WalAssumption, Inv1, CkptLock0
    PROVE  Control' /\ LocksExclude'
  <1>1. \A d \in Conn : Same(d)
    BY DEF Same, CkptLock0, connVars
  <1>2. (live' = NoHdr => live = NoHdr) /\ writer' = writer
    BY DEF CkptLock0, writeVars, indexVars
  <1>3. live' = NoHdr => ckpt'.pc = "idle"
    BY <1>2 DEF Inv1, Control, CkptLock0
  <1>4. Control'
    BY <1>1, <1>2, <1>3, OthersHold DEF Inv1, Control
  <1>5. LocksExclude'
    BY <1>1, <1>2
       DEF Inv1, LocksExclude, Writing, Restarting, Same, CkptLock0, IdleCkpt,
           CanLockExclusive, Holders
  <1>. QED  BY <1>4, <1>5

\* No lock changes hands.
LEMMA CkptCopyLocks ==
    ASSUME WalAssumption, Inv1, CkptCopy
    PROVE  Control' /\ LocksExclude'
  <1>1. \A d \in Conn : Same(d)
    BY DEF Same, CkptCopy, connVars
  <1>2. (live' = NoHdr => live = NoHdr) /\ writer' = writer
    BY RecoveredIsHeader, HeaderIsHeader
       DEF Inv1, Types, CkptCopy, Recover, writeVars, indexVars
  <1>3. live' = NoHdr => ckpt'.pc = "idle"
    BY <1>2, HeaderIsHeader DEF Inv1, Types, CkptTypes, Control, CkptCopy
  <1>4. Control'
    BY <1>1, <1>2, <1>3, OthersHold DEF Inv1, Control
  <1>5. LocksExclude'
    <2>1. ckpt'.pc = ckpt.pc
      BY DEF Inv1, Types, CkptTypes, CkptCopy
    <2>. QED  BY <1>1, <1>2, <2>1 DEF Inv1, LocksExclude, Writing, Restarting, Same
  <1>. QED  BY <1>4, <1>5

\* Slot 0 is given up.
LEMMA CkptFailsLocks ==
    ASSUME WalAssumption, Inv1, CkptFails
    PROVE  Control' /\ LocksExclude'
  <1>1. \A d \in Conn : Same(d)
    BY DEF Same, CkptFails, connVars
  <1>2. (live' = NoHdr => live = NoHdr) /\ writer' = writer
    BY DEF CkptFails, writeVars, indexVars
  <1>3. live' = NoHdr => ckpt'.pc = "idle"
    BY <1>2, HeaderIsHeader DEF Inv1, Types, CkptTypes, Control, CkptFails, IdleCkpt
  <1>4. Control'
    BY <1>1, <1>2, <1>3, OthersHold DEF Inv1, Control
  <1>5. LocksExclude'
    BY <1>1, <1>2 DEF Inv1, LocksExclude, Writing, Restarting, Same, CkptFails
  <1>. QED  BY <1>4, <1>5

\* No lock changes hands.
LEMMA CkptDoneLocks ==
    ASSUME WalAssumption, Inv1, CkptDone
    PROVE  Control' /\ LocksExclude'
  <1>1. \A d \in Conn : Same(d)
    BY DEF Same, CkptDone, connVars
  <1>2. (live' = NoHdr => live = NoHdr) /\ writer' = writer
    BY RecoveredIsHeader, HeaderIsHeader
       DEF Inv1, Types, CkptDone, Recover, writeVars, indexVars
  <1>3. live' = NoHdr => ckpt'.pc = "idle"
    BY <1>2, HeaderIsHeader DEF Inv1, Types, CkptTypes, Control, CkptDone
  <1>4. Control'
    BY <1>1, <1>2, <1>3, OthersHold DEF Inv1, Control
  <1>5. LocksExclude'
    BY <1>1, <1>2 DEF Inv1, LocksExclude, Writing, Restarting, Same, CkptDone
  <1>. QED  BY <1>4, <1>5

\* Slot 0 is given up.
LEMMA CkptUnlockLocks ==
    ASSUME WalAssumption, Inv1, CkptUnlock
    PROVE  Control' /\ LocksExclude'
  <1>1. \A d \in Conn : Same(d)
    BY DEF Same, CkptUnlock, connVars
  <1>2. (live' = NoHdr => live = NoHdr) /\ writer' = writer
    BY DEF CkptUnlock, writeVars, indexVars
  <1>3. live' = NoHdr => ckpt'.pc = "idle"
    BY <1>2, HeaderIsHeader DEF Inv1, Types, CkptTypes, Control, CkptUnlock, IdleCkpt
  <1>4. Control'
    BY <1>1, <1>2, <1>3, OthersHold DEF Inv1, Control
  <1>5. LocksExclude'
    BY <1>1, <1>2 DEF Inv1, LocksExclude, Writing, Restarting, Same, CkptUnlock
  <1>. QED  BY <1>4, <1>5

\* After a kill nobody holds a lock.
LEMMA KillLocks ==
    ASSUME WalAssumption, Kill
    PROVE  Control' /\ LocksExclude'
  <1>1. \A c \in Conn : Holds(c)'
    BY DEF WalAssumption, Holds, Kill
  <1>2. Control'
    BY <1>1 DEF Control, Kill, IdleCkpt
  <1>3. LocksExclude'
    BY DEF LocksExclude, Writing, Restarting, Kill, IdleCkpt
  <1>. QED  BY <1>2, <1>3

\* A step that changes nothing.
LEMMA StutterKeepsLocks ==
    ASSUME Inv1, UNCHANGED vars
    PROVE  Inv1'
  <1>1. Types'
    BY DEF Inv1, Types, ConnTypes, SharedTypes, WriterTypes, LogTypes, CkptTypes, vars,
           fileVars, indexVars, connVars, writeVars
  <1>2. Control'
    BY DEF Inv1, Control, Holds, vars, indexVars, connVars, writeVars
  <1>3. LocksExclude'
    BY DEF Inv1, LocksExclude, Writing, Restarting, vars, connVars, writeVars
  <1>. QED  BY <1>1, <1>2, <1>3 DEF Inv1

\* At the start nobody has done anything.
LEMMA InitLocks ==
    ASSUME WalAssumption, Init
    PROVE  Inv1
  <1>1. Types
    <2>1. Header(0, 0) \in Headers /\ Slot(0, 0) \in SlotTypes /\ -1 \in -1 .. Slots
      BY SMTT(30), HeaderIsHeader, SlotIsSlot, SlotsAndConns
    <2>2. ConnTypes
      BY <2>1 DEF ConnTypes, PCs, Init
    <2>3. SharedTypes /\ WriterTypes /\ LogTypes
      BY DEF SharedTypes, WriterTypes, LogTypes, Init, NoMarks, NotUsed
    <2>4. CkptTypes
      BY <2>1 DEF CkptTypes, Init, IdleCkpt
    <2>. QED  BY <2>2, <2>3, <2>4 DEF Types
  <1>2. \A c \in Conn : Holds(c)
    BY DEF WalAssumption, Holds, Init
  <1>3. Control
    BY <1>2 DEF Control, Init, IdleCkpt
  <1>4. LocksExclude
    BY DEF LocksExclude, Writing, Restarting, Init, IdleCkpt
  <1>. QED  BY <1>1, <1>3, <1>4 DEF Inv1

\* Every step keeps the state well formed and the locks.
LEMMA NextLocks ==
    ASSUME WalAssumption, Inv1, [Next]_vars
    PROVE  Inv1'
  <1>1. ASSUME NEW c \in Conn, ReadStep(c)
        PROVE  Inv1'
    <2>1. CASE ReadHdr(c)
      BY <2>1, ReadHdrTypes, ReadHdrLocks DEF Inv1
    <2>2. CASE IgnoreLog(c)
      BY <2>2, IgnoreLogTypes, IgnoreLogLocks DEF Inv1
    <2>3. CASE CheckHdr(c)
      BY <2>3, CheckHdrTypes, CheckHdrLocks DEF Inv1
    <2>4. CASE ChooseSlot(c)
      BY <2>4, ChooseSlotTypes, ChooseSlotLocks DEF Inv1
    <2>5. CASE ShareSlot(c)
      BY <2>5, ShareSlotTypes, ShareSlotLocks DEF Inv1
    <2>6. CASE SetMinFrame(c)
      BY <2>6, SetMinFrameTypes, SetMinFrameLocks DEF Inv1
    <2>7. CASE Verify(c)
      BY <2>7, VerifyTypes, VerifyLocks DEF Inv1
    <2>8. CASE EndRead(c)
      BY <2>8, EndReadTypes, EndReadLocks DEF Inv1
    <2>. QED  BY <1>1, <2>1, <2>2, <2>3, <2>4, <2>5, <2>6, <2>7, <2>8 DEF ReadStep
  <1>2. ASSUME NEW c \in Conn, WriteStep(c)
        PROVE  Inv1'
    <2>1. CASE BeginWrite(c)
      BY <2>1, BeginWriteTypes, BeginWriteLocks DEF Inv1
    <2>2. CASE RestartHdr(c)
      BY <2>2, RestartHdrTypes, RestartHdrLocks DEF Inv1
    <2>3. CASE RestartInfo(c)
      BY <2>3, RestartInfoTypes, RestartInfoLocks DEF Inv1
    <2>4. CASE KeepLog(c)
      BY <2>4, KeepLogTypes, KeepLogLocks DEF Inv1
    <2>5. CASE WriteLogHdr(c)
      BY <2>5, WriteLogHdrTypes, WriteLogHdrLocks DEF Inv1
    <2>6. CASE WriteFrame(c)
      BY <2>6, WriteFrameTypes, WriteFrameLocks DEF Inv1
    <2>7. CASE Undo(c)
      BY <2>7, UndoTypes, UndoLocks DEF Inv1
    <2>8. CASE PublishHdr(c)
      BY <2>8, PublishHdrTypes, PublishHdrLocks DEF Inv1
    <2>. QED  BY <1>2, <2>1, <2>2, <2>3, <2>4, <2>5, <2>6, <2>7, <2>8 DEF WriteStep
  <1>3. CASE CkptStep
    <2>1. CASE CkptReadHdr
      BY <2>1, CkptReadHdrTypes, CkptReadHdrLocks DEF Inv1
    <2>2. CASE CkptTest
      BY <2>2, CkptTestTypes, CkptTestLocks DEF Inv1
    <2>3. CASE CkptMark
      BY <2>3, CkptMarkTypes, CkptMarkLocks DEF Inv1
    <2>4. CASE CkptLock0
      BY <2>4, CkptLock0Types, CkptLock0Locks DEF Inv1
    <2>5. CASE CkptCopy
      BY <2>5, CkptCopyTypes, CkptCopyLocks DEF Inv1
    <2>6. CASE CkptFails
      BY <2>6, CkptFailsTypes, CkptFailsLocks DEF Inv1
    <2>7. CASE CkptDone
      BY <2>7, CkptDoneTypes, CkptDoneLocks DEF Inv1
    <2>8. CASE CkptUnlock
      BY <2>8, CkptUnlockTypes, CkptUnlockLocks DEF Inv1
    <2>. QED  BY <1>3, <2>1, <2>2, <2>3, <2>4, <2>5, <2>6, <2>7, <2>8 DEF CkptStep
  <1>4. CASE Kill
    BY <1>4, KillTypes, KillLocks DEF Inv1
  <1>5. CASE UNCHANGED vars
    BY <1>5, StutterKeepsLocks
  <1>. QED  BY <1>1, <1>2, <1>3, <1>4, <1>5 DEF Next

\* The locks keep apart what the comments in wal.c say they do, for any
\* number of connections, read marks, transactions and kills.
THEOREM LocksHold == ASSUME WalAssumption PROVE Spec => []LocksExclude
  <1>1. Init => Inv1
    BY InitLocks
  <1>2. Inv1 /\ [Next]_vars => Inv1'
    BY NextLocks
  <1>3. Inv1 => LocksExclude
    BY DEF Inv1
  <1>. QED  BY <1>1, <1>2, <1>3, PTL DEF Spec

-----------------------------------------------------------------------------
(* The steps keep the headers, the marks and the checkpoint in agreement.  *)

\* Whoever does not step agrees with the same header as before.
LEMMA OthersAgree ==
    ASSUME NEW d, HeaderOf(d), Same(d), live' = live, nBackfill' = nBackfill,
           writer' = d <=> writer = d, writer = d => todo' = todo
    PROVE  HeaderOf(d)'
  BY DEF HeaderOf, Same

\* Whoever does not step reads under the same mark as before.
LEMMA OthersRead ==
    ASSUME NEW d, ReaderOf(d), Same(d), aReadMark' = aReadMark, ckpt' = ckpt
    PROVE  ReaderOf(d)'
  BY DEF ReaderOf, Reading, Same

\* A step of a connection that leaves the wal-index alone.
LEMMA QuietStep ==
    ASSUME Inv1, Inv2, NEW c \in Conn, UNCHANGED indexVars, ckpt' = ckpt,
           \A d \in Conn \ {c} : Same(d) /\ (writer' = d <=> writer = d)
                                   /\ (writer = d => todo' = todo),
           live # NoHdr => HeaderOf(c)', ReaderOf(c)'
    PROVE  Inv2'
  <1>1. live' = live /\ nBackfill' = nBackfill /\ aReadMark' = aReadMark
    BY DEF indexVars
  <1>2. HeadersAgree'
    BY <1>1, OthersAgree DEF Inv2, HeadersAgree
  <1>3. ReadersAgree'
    BY <1>1, OthersRead DEF Inv2, ReadersAgree
  <1>4. CkptKnows'
    BY <1>1 DEF Inv2, CkptKnows
  <1>. QED  BY <1>2, <1>3, <1>4 DEF Inv2

\* Outside a transaction a connection agrees with everything.
LEMMA LeaveAgrees ==
    ASSUME Inv1, NEW c \in Conn, NEW where \in {"idle", "retry"}, Leave(c, where),
           live' \in Headers \cup {NoHdr}, writer' # c
    PROVE  (live' # NoHdr => HeaderOf(c)') /\ ReaderOf(c)'
  <1>1. pc'[c] = where /\ hdr'[c] = Header(0, 0)
    BY DEF Inv1, Types, ConnTypes, Leave
  <1>2. Header(0, 0).mxFrame = 0 /\ Header(0, 0).salt = 0
    BY DEF Header
  <1>3. live' # NoHdr => HeaderOf(c)'
    BY <1>1, <1>2, HeaderIsHeader DEF HeaderOf
  <1>4. ReaderOf(c)'
    BY <1>1 DEF ReaderOf, Reading
  <1>. QED  BY <1>3, <1>4

\* So does one that tries again.
LEMMA RetryAgrees ==
    ASSUME Inv1, Inv2, NEW c \in Conn, Retry(c), pc[c] \notin {"frames", "publish", "committed"},
           UNCHANGED <<live, nBackfill, writer, todo>>
    PROVE  (live' # NoHdr => HeaderOf(c)') /\ ReaderOf(c)'
  <1>1. CASE UseWal(c)
    <2>1. writer = c /\ pc'[c] = "choose" /\ hdr'[c] = hdr[c]
      BY <1>1 DEF Inv1, Types, ConnTypes, Retry, UseWal
    <2>2. live' # NoHdr => HeaderOf(c)'
      BY <2>1 DEF Inv2, HeadersAgree, HeaderOf
    <2>3. ReaderOf(c)'
      BY <2>1 DEF ReaderOf, Reading
    <2>. QED  BY <2>2, <2>3
  <1>2. CASE ~UseWal(c)
    <2>1. Leave(c, "retry") /\ writer' # c
      BY <1>2 DEF Retry, UseWal
    <2>2. live' \in Headers \cup {NoHdr}
      BY DEF Inv1, Types, SharedTypes
    <2>. QED  BY <2>1, <2>2, LeaveAgrees
  <1>. QED  BY <1>1, <1>2

\* Recovery begins where nobody has read anything.
LEMMA RecoverAgrees ==
    ASSUME Inv1, Recover, live = NoHdr, NEW d \in Conn, Same(d), writer' # d
    PROVE  HeaderOf(d)' /\ ReaderOf(d)'
  <1>1. pc'[d] \in {"idle", "retry"} /\ hdr'[d] = Header(0, 0)
    BY DEF Inv1, Control, Holds, Same
  <1>2. Header(0, 0).mxFrame = 0 /\ Header(0, 0).salt = 0
    BY DEF Header
  <1>3. live' \in Headers
    BY RecoveredIsHeader DEF Inv1, Types, Recover
  <1>4. HeaderOf(d)'
    BY <1>1, <1>2, <1>3, HeaderIsHeader DEF HeaderOf
  <1>5. ReaderOf(d)'
    BY <1>1 DEF ReaderOf, Reading
  <1>. QED  BY <1>4, <1>5

\* Who ignores the log has found it copied.
LEMMA IgnoreLogAgrees ==
    ASSUME WalAssumption, Inv1, Inv2, NEW c \in Conn, IgnoreLog(c)
    PROVE  Inv2'
  <1>1. \A d \in Conn \ {c} : Same(d)
    BY DEF Same, Inv1, Types, ConnTypes, IgnoreLog, UseWal
  <1>2. \A d \in Conn \ {c} : (writer' = d <=> writer = d) /\ (writer = d => todo' = todo)
    BY DEF Inv1, LocksExclude, Writing, WalAssumption, IgnoreLog, writeVars
  <1>3. UNCHANGED indexVars /\ ckpt' = ckpt
    BY DEF IgnoreLog
  <1>4. live # NoHdr => HeaderOf(c)'
    BY DEF Inv2, HeadersAgree, HeaderOf, IgnoreLog, UseWal, writeVars, indexVars
  <1>5. ReaderOf(c)'
    BY DEF ReaderOf, Reading, IgnoreLog
  <1>. QED  BY <1>1, <1>2, <1>3, <1>4, <1>5, QuietStep

\* The header is compared again.
LEMMA CheckHdrAgrees ==
    ASSUME WalAssumption, Inv1, Inv2, NEW c \in Conn, CheckHdr(c)
    PROVE  Inv2'
  <1>1. \A d \in Conn \ {c} : Same(d)
    BY DEF Same, Inv1, Types, ConnTypes, CheckHdr, Retry, Leave, UseWal
  <1>2. \A d \in Conn \ {c} : (writer' = d <=> writer = d) /\ (writer = d => todo' = todo)
    BY DEF Inv1, LocksExclude, Writing, WalAssumption, CheckHdr, writeVars
  <1>3. UNCHANGED indexVars /\ ckpt' = ckpt
    BY DEF CheckHdr
  <1>4. live # NoHdr => HeaderOf(c)'
    <2>1. CASE live = hdr[c]
      <3>1. pc'[c] = "read" /\ pc[c] = "check" /\ readLock[c] = 0
        BY <2>1 DEF Inv1, Types, ConnTypes, Control, Holds, CheckHdr
      <3>2. UNCHANGED <<readLock, hdr, writer, live, nBackfill>>
        BY <2>1 DEF CheckHdr, writeVars, indexVars
      <3>3. writer # c
        BY <3>1 DEF Inv1, Control, Holds
      <3>. QED  BY <3>1, <3>2, <3>3 DEF Inv2, HeadersAgree, HeaderOf
    <2>2. CASE live # hdr[c]
      BY <2>2, RetryAgrees DEF CheckHdr, writeVars, indexVars
    <2>. QED  BY <2>1, <2>2
  <1>5. ReaderOf(c)'
    BY DEF Inv1, Types, ConnTypes, Control, Holds, ReaderOf, Reading, CheckHdr, Retry, Leave
  <1>. QED  BY <1>1, <1>2, <1>3, <1>4, <1>5, QuietStep

\* A slot that is locked is not used yet.
LEMMA ShareSlotAgrees ==
    ASSUME WalAssumption, Inv1, Inv2, NEW c \in Conn, ShareSlot(c)
    PROVE  Inv2'
  <1>1. \A d \in Conn \ {c} : Same(d)
    BY DEF Same, Inv1, Types, ConnTypes, ShareSlot, Retry, Leave, UseWal
  <1>2. \A d \in Conn \ {c} : (writer' = d <=> writer = d) /\ (writer = d => todo' = todo)
    BY DEF Inv1, LocksExclude, Writing, WalAssumption, ShareSlot, writeVars
  <1>3. UNCHANGED indexVars /\ ckpt' = ckpt
    BY DEF ShareSlot
  <1>4. live # NoHdr => HeaderOf(c)'
    <2>1. CASE LockedExclusive(slot[c].i)
      BY <2>1, RetryAgrees DEF ShareSlot, writeVars, indexVars
    <2>2. CASE ~LockedExclusive(slot[c].i)
      <3>1. pc'[c] = "mark" /\ pc[c] = "share"
        BY <2>2 DEF Inv1, Types, ConnTypes, ShareSlot
      <3>2. UNCHANGED <<hdr, writer, todo, live, nBackfill>>
        BY <2>2 DEF ShareSlot, writeVars, indexVars
      <3>. QED  BY <3>1, <3>2 DEF Inv2, HeadersAgree, HeaderOf
    <2>. QED  BY <2>1, <2>2
  <1>5. ReaderOf(c)'
    BY DEF Inv1, Types, ConnTypes, ReaderOf, Reading, ShareSlot, Retry, Leave
  <1>. QED  BY <1>1, <1>2, <1>3, <1>4, <1>5, QuietStep

\* A slot is not used yet.
LEMMA SetMinFrameAgrees ==
    ASSUME WalAssumption, Inv1, Inv2, NEW c \in Conn, SetMinFrame(c)
    PROVE  Inv2'
  <1>1. \A d \in Conn \ {c} : Same(d)
    BY DEF Same, Inv1, Types, ConnTypes, SetMinFrame
  <1>2. \A d \in Conn \ {c} : (writer' = d <=> writer = d) /\ (writer = d => todo' = todo)
    BY DEF Inv1, LocksExclude, Writing, WalAssumption, SetMinFrame, writeVars
  <1>3. UNCHANGED indexVars /\ ckpt' = ckpt
    BY DEF SetMinFrame
  <1>4. live # NoHdr => HeaderOf(c)'
    BY DEF Inv1, LocksExclude, Writing, Inv2, HeadersAgree, HeaderOf, SetMinFrame,
           writeVars, indexVars
  <1>5. ReaderOf(c)'
    BY DEF ReaderOf, Reading, SetMinFrame
  <1>. QED  BY <1>1, <1>2, <1>3, <1>4, <1>5, QuietStep

\* With the mark and the header compared, the slot is used.
LEMMA VerifyAgrees ==
    ASSUME WalAssumption, Inv1, Inv2, NEW c \in Conn, Verify(c)
    PROVE  Inv2'
  <1>1. \A d \in Conn \ {c} : Same(d)
    BY DEF Same, Inv1, Types, ConnTypes, Verify, Retry, Leave
  <1>2. \A d \in Conn \ {c} : (writer' = d <=> writer = d) /\ (writer = d => todo' = todo)
    BY DEF Inv1, LocksExclude, Writing, WalAssumption, Verify, writeVars
  <1>3. UNCHANGED indexVars /\ ckpt' = ckpt
    BY DEF Verify
  <1>4. live # NoHdr => HeaderOf(c)'
    <2>1. CASE StillValid(c)
      <3>1. pc[c] = "verify" /\ readLock[c] # 0
        BY DEF Inv1, Control, Holds, Verify
      <3>2. UNCHANGED <<readLock, hdr, writer, todo, live, nBackfill>>
        BY <2>1 DEF Verify, writeVars, indexVars
      <3>3. pc'[c] \in {"header", "frames", "read"}
        BY <2>1 DEF Inv1, Types, ConnTypes, Verify, FirstWrite
      <3>. QED  BY <3>1, <3>2, <3>3 DEF Inv2, HeadersAgree, HeaderOf
    <2>2. CASE ~StillValid(c)
      BY <2>2, RetryAgrees DEF Verify, writeVars, indexVars
    <2>. QED  BY <2>1, <2>2
  <1>5. ReaderOf(c)'
    <2>1. CASE StillValid(c)
      <3>1. readLock' = readLock /\ hdr' = hdr /\ ckpt' = ckpt /\ aReadMark' = aReadMark
        BY <1>3, <2>1 DEF Verify, indexVars
      <3>2. /\ readLock[c] = slot[c].i /\ slot[c].mark <= hdr[c].mxFrame
            /\ live # NoHdr
        BY DEF Inv1, Control, Holds, Verify
      <3>3. aReadMark[slot[c].i] = slot[c].mark /\ hdr[c] = live
        BY <2>1 DEF StillValid
      <3>4. /\ ckpt.mxSafeFrame \in Nat /\ ckpt.hdr.mxFrame \in Nat /\ live.mxFrame \in Nat
        BY <3>2, HeaderIsHeader DEF Inv1, Types, CkptTypes, SharedTypes
      <3>5. ckpt.pc \in {"marks", "copy"} => ckpt.mxSafeFrame <= live.mxFrame
        BY <3>4 DEF Inv2, CkptKnows
      <3>. QED  BY <3>1, <3>2, <3>3, <3>5 DEF ReaderOf
    <2>2. CASE ~StillValid(c)
      BY <2>2, RetryAgrees DEF Verify, writeVars, indexVars
    <2>. QED  BY <2>1, <2>2
  <1>. QED  BY <1>1, <1>2, <1>3, <1>4, <1>5, QuietStep

\* The end of a transaction.
LEMMA EndReadAgrees ==
    ASSUME WalAssumption, Inv1, Inv2, NEW c \in Conn, EndRead(c)
    PROVE  Inv2'
  <1>1. \A d \in Conn \ {c} : Same(d)
    BY DEF Same, Inv1, Types, ConnTypes, EndRead, Leave
  <1>2. \A d \in Conn \ {c} : (writer' = d <=> writer = d) /\ (writer = d => todo' = todo)
    BY DEF Inv1, LocksExclude, Writing, WalAssumption, EndRead, writeVars
  <1>3. UNCHANGED indexVars /\ ckpt' = ckpt
    BY DEF EndRead
  <1>4. live # NoHdr => HeaderOf(c)'
    <2>1. Leave(c, "idle") /\ writer' # c /\ live' = live
      BY DEF WalAssumption, EndRead, indexVars
    <2>2. live' \in Headers \cup {NoHdr}
      BY <2>1 DEF Inv1, Types, SharedTypes
    <2>. QED  BY <2>1, <2>2, LeaveAgrees
  <1>5. ReaderOf(c)'
    BY DEF Inv1, Types, ConnTypes, ReaderOf, Reading, EndRead, Leave
  <1>. QED  BY <1>1, <1>2, <1>3, <1>4, <1>5, QuietStep

\* The writer has the present header.
LEMMA BeginWriteAgrees ==
    ASSUME WalAssumption, Inv1, Inv2, NEW c \in Conn, BeginWrite(c)
    PROVE  Inv2'
  <1>1. \A d \in Conn \ {c} : Same(d)
    BY DEF Same, Inv1, Types, ConnTypes, BeginWrite, Leave, FirstWrite, CanWrite
  <1>2. \A d \in Conn \ {c} : (writer' = d <=> writer = d) /\ (writer = d => todo' = todo)
    BY DEF Inv1, LocksExclude, Writing, WalAssumption, BeginWrite, writeVars
  <1>3. UNCHANGED indexVars /\ ckpt' = ckpt
    BY DEF BeginWrite
  <1>4. live # NoHdr => HeaderOf(c)'
    <2>1. CASE CanWrite(c)
      <3>1. UNCHANGED <<readLock, hdr, live, nBackfill>> /\ hdr[c] = live
        BY <2>1 DEF BeginWrite, CanWrite, indexVars
      <3>2. todo' # <<>>
        BY <2>1 DEF BeginWrite, WalAssumption
      <3>3. pc'[c] \in {"write", "header", "frames"} /\ pc[c] = "read" /\ writer' = c
        BY <2>1 DEF Inv1, Types, ConnTypes, BeginWrite, FirstWrite
      <3>4. live # NoHdr => hdr[c].salt \in Nat
        BY <3>1, HeaderIsHeader DEF Inv1, Types, ConnTypes
      <3>. QED  BY <3>1, <3>2, <3>3, <3>4 DEF Inv2, HeadersAgree, HeaderOf
    <2>2. CASE ~CanWrite(c)
      <3>1. Leave(c, "idle") /\ writer' # c /\ live' = live
        BY <2>2 DEF WalAssumption, BeginWrite, writeVars, indexVars
      <3>2. live' \in Headers \cup {NoHdr}
        BY <3>1 DEF Inv1, Types, SharedTypes
      <3>. QED  BY <3>1, <3>2, LeaveAgrees
    <2>. QED  BY <2>1, <2>2
  <1>5. ReaderOf(c)'
    BY DEF Inv1, Types, ConnTypes, Inv2, ReadersAgree, ReaderOf, Reading, BeginWrite,
           Leave, indexVars
  <1>. QED  BY <1>1, <1>2, <1>3, <1>4, <1>5, QuietStep

\* The writer leaves slot 0.
LEMMA KeepLogAgrees ==
    ASSUME WalAssumption, Inv1, Inv2, NEW c \in Conn, KeepLog(c)
    PROVE  Inv2'
  <1>1. \A d \in Conn \ {c} : Same(d)
    BY DEF Same, Inv1, Types, ConnTypes, KeepLog
  <1>2. \A d \in Conn \ {c} : (writer' = d <=> writer = d) /\ (writer = d => todo' = todo)
    BY DEF Inv1, LocksExclude, Writing, WalAssumption, KeepLog, writeVars
  <1>3. UNCHANGED indexVars /\ ckpt' = ckpt
    BY DEF KeepLog
  <1>4. live # NoHdr => HeaderOf(c)'
    BY DEF Inv1, Control, Holds, Inv2, HeadersAgree, HeaderOf, KeepLog, writeVars, indexVars
  <1>5. ReaderOf(c)'
    BY DEF ReaderOf, Reading, KeepLog
  <1>. QED  BY <1>1, <1>2, <1>3, <1>4, <1>5, QuietStep

\* The salt of a first log.
LEMMA WriteLogHdrAgrees ==
    ASSUME WalAssumption, Inv1, Inv2, NEW c \in Conn, WriteLogHdr(c)
    PROVE  Inv2'
  <1>1. \A d \in Conn \ {c} : Same(d)
    BY DEF Same, Inv1, Types, ConnTypes, WriteLogHdr
  <1>2. \A d \in Conn \ {c} : (writer' = d <=> writer = d) /\ (writer = d => todo' = todo)
    BY DEF Inv1, LocksExclude, Writing, WalAssumption, WriteLogHdr, writeVars
  <1>3. UNCHANGED indexVars /\ ckpt' = ckpt
    BY DEF WriteLogHdr
  <1>4. live # NoHdr => HeaderOf(c)'
    BY DEF Inv1, Types, ConnTypes, SharedTypes, LocksExclude, Writing, Inv2, HeadersAgree,
           HeaderOf, WriteLogHdr, writeVars, indexVars
  <1>5. ReaderOf(c)'
    BY DEF Inv2, ReadersAgree, ReaderOf, Reading, WriteLogHdr, indexVars
  <1>. QED  BY <1>1, <1>2, <1>3, <1>4, <1>5, QuietStep

\* A frame that is not committed yet.
LEMMA WriteFrameAgrees ==
    ASSUME WalAssumption, Inv1, Inv2, NEW c \in Conn, WriteFrame(c)
    PROVE  Inv2'
  <1>1. \A d \in Conn \ {c} : Same(d)
    BY DEF Same, Inv1, Types, ConnTypes, WriteFrame
  <1>2. \A d \in Conn \ {c} : (writer' = d <=> writer = d) /\ (writer = d => todo' = todo)
    BY DEF Inv1, LocksExclude, Writing, WalAssumption, WriteFrame, writeVars
  <1>3. UNCHANGED indexVars /\ ckpt' = ckpt
    BY DEF WriteFrame
  <1>4. live # NoHdr => HeaderOf(c)'
    BY DEF Inv2, HeadersAgree, HeaderOf, WriteFrame, indexVars
  <1>5. ReaderOf(c)'
    BY DEF Inv2, ReadersAgree, ReaderOf, Reading, WriteFrame, indexVars
  <1>. QED  BY <1>1, <1>2, <1>3, <1>4, <1>5, QuietStep

\* A write that fails.
LEMMA UndoAgrees ==
    ASSUME WalAssumption, Inv1, Inv2, NEW c \in Conn, Undo(c)
    PROVE  Inv2'
  <1>1. \A d \in Conn \ {c} : Same(d)
    BY DEF Same, Inv1, Types, ConnTypes, Undo, Leave
  <1>2. \A d \in Conn \ {c} : (writer' = d <=> writer = d) /\ (writer = d => todo' = todo)
    BY DEF Inv1, LocksExclude, Writing, WalAssumption, Undo, writeVars
  <1>3. UNCHANGED indexVars /\ ckpt' = ckpt
    BY DEF Undo
  <1>4. live # NoHdr => HeaderOf(c)'
    <2>1. Leave(c, "idle") /\ writer' # c /\ live' = live
      BY DEF WalAssumption, Undo, indexVars
    <2>2. live' \in Headers \cup {NoHdr}
      BY <2>1 DEF Inv1, Types, SharedTypes
    <2>. QED  BY <2>1, <2>2, LeaveAgrees
  <1>5. ReaderOf(c)'
    BY DEF Inv1, Types, ConnTypes, ReaderOf, Reading, Undo, Leave
  <1>. QED  BY <1>1, <1>2, <1>3, <1>4, <1>5, QuietStep


\* The header of a new attempt is the present one.
LEMMA ReadHdrAgrees ==
    ASSUME WalAssumption, Inv1, Inv2, NEW c \in Conn, ReadHdr(c)
    PROVE  Inv2'
  <1>1. \A d \in Conn \ {c} : Same(d)
    BY DEF Same, Inv1, Types, ConnTypes, ReadHdr
  <1>2. writer' = writer /\ todo' = todo /\ ckpt' = ckpt /\ writer # c
    BY DEF Inv1, Control, Holds, ReadHdr, writeVars
  <1>3. pc'[c] = "choose"
    BY DEF Inv1, Types, ConnTypes, ReadHdr
  <1>4. ReaderOf(c)'
    BY <1>3 DEF ReaderOf, Reading
  <1>5. CASE live # NoHdr
    <2>1. live' = live /\ nBackfill' = nBackfill /\ aReadMark' = aReadMark /\ hdr'[c] = live
      BY <1>5 DEF Inv1, Types, ConnTypes, ReadHdr, indexVars
    <2>2. HeaderOf(c)'
      <3>1. live.mxFrame \in Nat /\ live.salt \in Nat
        BY <1>5, HeaderIsHeader DEF Inv1, Types, SharedTypes
      <3>. QED  BY <1>2, <1>3, <2>1, <3>1 DEF HeaderOf
    <2>3. HeadersAgree'
      BY <1>1, <1>2, <2>1, <2>2, OthersAgree DEF Inv2, HeadersAgree
    <2>4. ReadersAgree'
      BY <1>1, <1>2, <1>4, <2>1, OthersRead DEF Inv2, ReadersAgree
    <2>5. CkptKnows'
      BY <1>2, <2>1 DEF Inv2, CkptKnows
    <2>. QED  BY <2>3, <2>4, <2>5 DEF Inv2
  <1>6. CASE live = NoHdr
    <2>1. Recover /\ hdr' = [hdr EXCEPT ![c] = RecoveredHdr] /\ writer = Nobody
      BY <1>6 DEF ReadHdr
    <2>2. hdr'[c] = live' /\ live' \in Headers
      BY <2>1, RecoveredIsHeader DEF Inv1, Types, ConnTypes, Recover
    <2>3. HeaderOf(c)'
      <3>1. live'.mxFrame \in Nat /\ live'.salt \in Nat
        BY <2>2, HeaderIsHeader
      <3>. QED  BY <1>2, <1>3, <2>2, <3>1 DEF HeaderOf
    <2>4. \A d \in Conn \ {c} : HeaderOf(d)' /\ ReaderOf(d)'
      BY <1>1, <1>2, <1>6, <2>1, RecoverAgrees DEF WalAssumption
    <2>5. CkptKnows'
      BY <1>2, <1>6 DEF Inv1, Control, CkptKnows
    <2>. QED  BY <1>4, <2>3, <2>4, <2>5 DEF Inv2, HeadersAgree, ReadersAgree
  <1>. QED  BY <1>5, <1>6

\* A mark is only raised in a slot that nobody holds.
LEMMA ChooseSlotAgrees ==
    ASSUME WalAssumption, Inv1, Inv2, NEW c \in Conn, ChooseSlot(c)
    PROVE  Inv2'
  <1>1. \A d \in Conn \ {c} : Same(d)
    BY DEF Same, Inv1, Types, ConnTypes, ChooseSlot, Retry, Leave
  <1>2. UNCHANGED <<live, nBackfill, writer, todo, ckpt>> /\ pc[c] = "choose"
    BY DEF ChooseSlot, writeVars
  <1>3. \/ Retry(c) /\ UNCHANGED aReadMark
        \/ pc' = [pc EXCEPT ![c] = "share"] /\ UNCHANGED <<hdr, readLock>>
    BY DEF ChooseSlot
  <1>4. (live' # NoHdr => HeaderOf(c)') /\ ReaderOf(c)'
    <2>1. CASE Retry(c)
      BY <1>2, <2>1, RetryAgrees
    <2>2. CASE ~Retry(c)
      <3>1. pc'[c] = "share" /\ UNCHANGED <<hdr, readLock>>
        BY <1>3, <2>2 DEF Inv1, Types, ConnTypes
      <3>2. live' # NoHdr => HeaderOf(c)'
        BY <1>2, <3>1 DEF Inv2, HeadersAgree, HeaderOf
      <3>3. ReaderOf(c)'
        BY <3>1 DEF ReaderOf, Reading
      <3>. QED  BY <3>2, <3>3
    <2>. QED  BY <2>1, <2>2
  <1>5. HeadersAgree'
    BY <1>1, <1>2, <1>4, OthersAgree DEF Inv2, HeadersAgree
  <1>6. ReadersAgree'
    <2>1. aReadMark' = aReadMark \/ \E i \in 1 .. Slots, n \in Nat :
             CanLockExclusive(i) /\ aReadMark' = [aReadMark EXCEPT ![i] = n]
      BY HeaderIsHeader DEF Inv1, Types, ConnTypes, ChooseSlot
    <2>2. ASSUME NEW d \in Conn \ {c}, Reading(d)'
          PROVE  aReadMark'[readLock[d]] = aReadMark[readLock[d]]
      <3>1. Reading(d)
        BY <1>1, <2>2 DEF Reading, Same
      <3>2. readLock[d] \in 1 .. Slots
        BY <3>1 DEF Reading, Inv1, Types, ConnTypes, WalAssumption
      <3>. QED  BY <2>1, <3>2 DEF CanLockExclusive, Holders, Inv1, Types, SharedTypes
    <2>3. \A d \in Conn \ {c} : ReaderOf(d)'
      BY <1>1, <1>2, <2>2 DEF Inv2, ReadersAgree, ReaderOf, Reading, Same
    <2>. QED  BY <1>4, <2>3 DEF ReadersAgree
  <1>7. CkptKnows'
    BY <1>2 DEF Inv2, CkptKnows
  <1>. QED  BY <1>5, <1>6, <1>7 DEF Inv2

\* The log is only started again once it has been copied, and then no
\* checkpoint is under way.
LEMMA RestartHdrAgrees ==
    ASSUME WalAssumption, Inv1, Inv2, NEW c \in Conn, RestartHdr(c)
    PROVE  Inv2'
  <1>1. \A d \in Conn \ {c} : Same(d)
    BY DEF Same, Inv1, Types, ConnTypes, RestartHdr
  <1>2. /\ UNCHANGED <<nBackfill, aReadMark, writer, todo, ckpt>>
        /\ pc[c] = "write" /\ pc'[c] = "restart" /\ nBackfill > 0
        /\ hdr'[c] = live' /\ live' = Header(0, hdr[c].salt + 1)
    BY DEF Inv1, Types, ConnTypes, RestartHdr, writeVars
  <1>3. writer = c /\ readLock[c] = 0 /\ live # NoHdr
    BY <1>2 DEF Inv1, LocksExclude, Writing, Control, Holds
  <1>4. hdr[c] = live /\ nBackfill = live.mxFrame /\ todo # <<>>
    BY <1>2, <1>3 DEF Inv2, HeadersAgree, HeaderOf
  <1>5. /\ live'.mxFrame = 0 /\ live'.salt = live.salt + 1
        /\ live.salt \in Nat /\ live.mxFrame \in Nat
    BY <1>2, <1>3, <1>4, HeaderIsHeader DEF Header, Inv1, Types, SharedTypes
  <1>6. HeaderOf(c)'
    BY <1>2, <1>3, <1>4, <1>5 DEF HeaderOf
  <1>7. ASSUME NEW d \in Conn \ {c}
        PROVE  HeaderOf(d)'
    <2>1. writer # d /\ hdr[d].salt <= live.salt /\ hdr[d].salt \in Nat
      BY <1>3, HeaderIsHeader DEF Inv2, HeadersAgree, HeaderOf, Inv1, Types, ConnTypes
    <2>2. hdr'[d] = hdr[d] /\ hdr'[d].salt < live'.salt
      BY <1>1, <1>5, <2>1 DEF Same
    <2>3. hdr'[d] # live'
      BY <2>1, <2>2, <1>5
    <2>. QED  BY <1>2, <1>5, <2>1, <2>2, <2>3 DEF HeaderOf
  <1>8. ReadersAgree'
    <2>1. ReaderOf(c)'
      BY <1>2 DEF ReaderOf, Reading
    <2>. QED  BY <1>1, <1>2, <2>1, OthersRead DEF Inv2, ReadersAgree
  <1>9. CkptKnows'
    <2>1. ckpt.pc \in {"idle", "test", "marks", "copy"}
      BY <1>3 DEF Inv1, Types, CkptTypes, LocksExclude
    <2>2. ckpt.hdr.mxFrame \in Nat
      BY HeaderIsHeader DEF Inv1, Types, CkptTypes
    <2>3. CASE ckpt.pc = "idle"
      BY <1>2, <2>3 DEF CkptKnows
    <2>4. CASE ckpt.pc # "idle"
      <3>1. ckpt.hdr.mxFrame <= nBackfill
        BY <1>4, <2>4 DEF Inv2, CkptKnows
      <3>2. ckpt.pc = "test" /\ ckpt.hdr.mxFrame = 0
        BY <1>4, <1>5, <2>1, <2>2, <2>4, <3>1 DEF Inv2, CkptKnows
      <3>. QED  BY <1>2, <1>5, <3>2 DEF CkptKnows
    <2>. QED  BY <2>3, <2>4
  <1>. QED  BY <1>6, <1>7, <1>8, <1>9 DEF Inv2, HeadersAgree

\* Nobody holds the marks that are reset.
LEMMA RestartInfoAgrees ==
    ASSUME WalAssumption, Inv1, Inv2, NEW c \in Conn, RestartInfo(c)
    PROVE  Inv2'
  <1>1. \A d \in Conn \ {c} : Same(d)
    BY DEF Same, Inv1, Types, ConnTypes, RestartInfo
  <1>2. /\ UNCHANGED <<live, hdr, writer, todo, ckpt>>
        /\ pc[c] = "restart" /\ pc'[c] = "choose" /\ nBackfill' = 0
    BY DEF Inv1, Types, ConnTypes, RestartInfo, writeVars
  <1>3. writer = c /\ live # NoHdr /\ Restarting
    BY <1>2 DEF Inv1, LocksExclude, Writing, Control, Holds, Restarting
  <1>4. live.mxFrame = 0
    BY <1>2, <1>3 DEF Inv2, HeadersAgree, HeaderOf
  <1>5. \A d \in Conn : HeaderOf(d)'
    BY <1>1, <1>2, <1>3, <1>4 DEF Inv2, HeadersAgree, HeaderOf, Same
  <1>6. ASSUME NEW d \in Conn
        PROVE  ~Reading(d)'
    <2>1. CASE d = c
      BY <1>2, <2>1 DEF Reading
    <2>2. CASE d # c
      <3>1. readLock'[d] = readLock[d]
        BY <1>1, <2>2 DEF Same
      <3>2. readLock[d] \in -1 .. Slots /\ readLock[d] \notin 1 .. Slots
        BY <1>3 DEF Inv1, Types, ConnTypes, LocksExclude
      <3>. QED  BY <3>1, <3>2 DEF Reading, WalAssumption
    <2>. QED  BY <2>1, <2>2
  <1>7. ReadersAgree'
    BY <1>6 DEF ReadersAgree, ReaderOf
  <1>8. CkptKnows'
    <2>1. ckpt.hdr.mxFrame \in Nat /\ nBackfill \in Nat
      BY HeaderIsHeader DEF Inv1, Types, CkptTypes, SharedTypes
    <2>. QED  BY <1>2, <2>1 DEF Inv2, CkptKnows
  <1>. QED  BY <1>5, <1>7, <1>8 DEF Inv2, HeadersAgree

\* A commit lengthens the log.
LEMMA PublishHdrAgrees ==
    ASSUME WalAssumption, Inv1, Inv2, NEW c \in Conn, PublishHdr(c)
    PROVE  Inv2'
  <1>1. \A d \in Conn \ {c} : Same(d)
    BY DEF Same, Inv1, Types, ConnTypes, PublishHdr
  <1>2. /\ UNCHANGED <<nBackfill, aReadMark, readLock, writer, ckpt>>
        /\ pc[c] = "publish" /\ pc'[c] = "committed"
        /\ hdr'[c] = live' /\ live' = [hdr[c] EXCEPT !.mxFrame = @ + Len(todo)]
    BY DEF Inv1, Types, ConnTypes, PublishHdr
  <1>3. writer = c /\ live # NoHdr
    BY <1>2 DEF Inv1, LocksExclude, Writing, Control, Holds
  <1>4. hdr[c].mxFrame = live.mxFrame /\ hdr[c].salt >= live.salt /\ todo # <<>>
    BY <1>2, <1>3 DEF Inv2, HeadersAgree, HeaderOf
  <1>5. hdr[c] \in Headers /\ live \in Headers
    BY <1>3 DEF Inv1, Types, ConnTypes, SharedTypes
  <1>6. Len(todo) \in Nat /\ Len(todo) > 0
    BY <1>4 DEF Inv1, Types, WriterTypes
  <1>7. live'.mxFrame = live.mxFrame + Len(todo) /\ live'.salt = hdr[c].salt
    BY <1>2, <1>4, <1>5 DEF Headers
  <1>8. /\ live.mxFrame \in Nat /\ live.salt \in Nat /\ live'.mxFrame \in Nat
        /\ live'.salt \in Nat /\ live.mxFrame < live'.mxFrame /\ live.salt <= live'.salt
    BY <1>4, <1>5, <1>6, <1>7, HeaderIsHeader
  <1>9. HeaderOf(c)'
    BY <1>2, <1>3, <1>8 DEF HeaderOf
  <1>10. ASSUME NEW d \in Conn \ {c}
         PROVE  HeaderOf(d)'
    <2>1. /\ writer # d /\ hdr[d].salt <= live.salt
          /\ hdr[d].salt = live.salt => hdr[d].mxFrame <= live.mxFrame
          /\ hdr[d].salt \in Nat /\ hdr[d].mxFrame \in Nat
      BY <1>3, HeaderIsHeader DEF Inv2, HeadersAgree, HeaderOf, Inv1, Types, ConnTypes
    <2>2. pc[d] # "restart"
      BY <1>3 DEF Inv1, LocksExclude, Writing
    <2>3. /\ hdr'[d] = hdr[d] /\ pc'[d] = pc[d]
          /\ hdr[d].salt = live'.salt => hdr[d].mxFrame < live'.mxFrame
      BY <1>1, <1>8, <2>1 DEF Same
    <2>4. hdr[d] # live'
      BY <1>8, <2>1, <2>3
    <2>. QED  BY SMTT(30), <1>2, <1>8, <2>1, <2>2, <2>3, <2>4 DEF HeaderOf
  <1>11. ReadersAgree'
    <2>1. hdr[c].mxFrame <= hdr'[c].mxFrame /\ hdr[c].mxFrame \in Nat /\ hdr'[c].mxFrame \in Nat
      BY <1>2, <1>4, <1>8
    <2>2. readLock[c] \in 1 .. Slots
      BY <1>2 DEF Inv1, Types, ConnTypes, Control, Holds, WalAssumption
    <2>3. aReadMark[readLock[c]] \in Nat /\ ckpt.mxSafeFrame \in Nat
      BY <2>2 DEF Inv1, Types, SharedTypes, CkptTypes
    <2>4. ReaderOf(c)'
      <3>1. Reading(c) /\ ReaderOf(c)
        BY <1>2, <2>2 DEF Inv2, ReadersAgree, Reading
      <3>2. /\ aReadMark[readLock[c]] <= hdr[c].mxFrame
            /\ ckpt.pc \in {"marks", "copy"} /\ readLock[c] < ckpt.i =>
                  ckpt.mxSafeFrame <= hdr[c].mxFrame
        BY <3>1 DEF ReaderOf
      <3>. QED  BY <1>2, <2>1, <2>3, <3>2 DEF ReaderOf
    <2>. QED  BY <1>1, <1>2, <2>4, OthersRead DEF Inv2, ReadersAgree
  <1>12. CkptKnows'
    <2>1. ckpt.hdr.mxFrame \in Nat
      BY HeaderIsHeader DEF Inv1, Types, CkptTypes
    <2>. QED  BY <1>2, <1>8, <2>1 DEF Inv2, CkptKnows
  <1>. QED  BY <1>9, <1>10, <1>11, <1>12 DEF Inv2, HeadersAgree

\* What the checkpointer does concerns no header but through nBackfill.
LEMMA CkptLeavesHeaders ==
    ASSUME Inv2, UNCHANGED <<connVars, writeVars, live, nBackfill>>
    PROVE  HeadersAgree'
  <1>1. \A d \in Conn : Same(d) /\ writer' = writer /\ todo' = todo
    BY DEF Same, connVars, writeVars
  <1>. QED  BY <1>1, OthersAgree DEF Inv2, HeadersAgree

\* A checkpointer that is not looking at marks nor copying disturbs nobody.
LEMMA CkptLeavesReaders ==
    ASSUME Inv2, UNCHANGED <<connVars, aReadMark>>, ckpt'.pc \notin {"marks", "copy"}
    PROVE  ReadersAgree'
  BY DEF Inv2, ReadersAgree, ReaderOf, Reading, connVars

\* A checkpoint only begins with something to copy.
LEMMA CkptReadHdrAgrees ==
    ASSUME WalAssumption, IdleCheckpoints = FALSE, Inv1, Inv2, CkptReadHdr
    PROVE  Inv2'
  <1>1. UNCHANGED <<connVars, writeVars>>
    BY DEF CkptReadHdr
  <1>2. CASE live # NoHdr
    <2>1. UNCHANGED <<live, nBackfill, aReadMark>> /\ nBackfill < live.mxFrame
      BY <1>2 DEF CkptReadHdr, indexVars
    <2>2. ckpt'.pc = "test" /\ ckpt'.hdr = live
      BY <1>2 DEF Inv1, Types, CkptTypes, CkptReadHdr
    <2>3. live.mxFrame \in Nat
      BY <1>2, HeaderIsHeader DEF Inv1, Types, SharedTypes
    <2>4. CkptKnows'
      BY <2>1, <2>2, <2>3 DEF CkptKnows
    <2>. QED  BY <1>1, <2>1, <2>2, <2>4, CkptLeavesHeaders, CkptLeavesReaders DEF Inv2
  <1>3. CASE live = NoHdr
    <2>1. Recover /\ writer = Nobody
      BY <1>3 DEF CkptReadHdr
    <2>2. ckpt'.pc = "test" /\ ckpt'.hdr = live' /\ nBackfill' = 0
      BY <1>3, <2>1 DEF Inv1, Types, CkptTypes, CkptReadHdr, Recover
    <2>3. live'.mxFrame \in Nat
      BY <2>1, RecoveredIsHeader, HeaderIsHeader DEF Inv1, Types, Recover
    <2>4. CkptKnows'
      BY <2>2, <2>3 DEF CkptKnows
    <2>5. \A d \in Conn : Same(d) /\ writer' # d
      BY <1>1, <2>1 DEF Same, connVars, writeVars, WalAssumption
    <2>6. HeadersAgree' /\ ReadersAgree'
      BY <1>3, <2>1, <2>5, RecoverAgrees DEF HeadersAgree, ReadersAgree
    <2>. QED  BY <2>4, <2>6 DEF Inv2
  <1>. QED  BY <1>2, <1>3

\* Where the marks are looked at first, no slot has been passed.
LEMMA CkptTestAgrees ==
    ASSUME WalAssumption, Inv1, Inv2, CkptTest
    PROVE  Inv2'
  <1>1. HeadersAgree'
    BY CkptLeavesHeaders DEF CkptTest, indexVars
  <1>2. CASE nBackfill < ckpt.hdr.mxFrame
    <2>1. /\ ckpt'.pc = "marks" /\ ckpt'.i = 1 /\ ckpt'.hdr = ckpt.hdr
          /\ ckpt'.mxSafeFrame = ckpt.hdr.mxFrame
      BY <1>2 DEF Inv1, Types, CkptTypes, CkptTest
    <2>2. UNCHANGED <<connVars, live, nBackfill, aReadMark>> /\ ckpt.pc = "test"
      BY DEF CkptTest, indexVars
    <2>3. ckpt.hdr.mxFrame \in Nat
      BY HeaderIsHeader DEF Inv1, Types, CkptTypes
    <2>4. CkptKnows'
      BY <1>2, <2>1, <2>2, <2>3 DEF Inv2, CkptKnows
    <2>5. \A c \in Conn : readLock[c] \in Int
      BY DEF Inv1, Types, ConnTypes, WalAssumption
    <2>6. ReadersAgree'
      BY <2>1, <2>2, <2>5 DEF Inv2, ReadersAgree, ReaderOf, Reading, connVars
    <2>. QED  BY <1>1, <2>4, <2>6 DEF Inv2
  <1>3. CASE ~(nBackfill < ckpt.hdr.mxFrame)
    <2>1. ckpt'.pc = "idle" /\ UNCHANGED <<connVars, aReadMark>>
      BY <1>3 DEF CkptTest, IdleCkpt, indexVars
    <2>. QED  BY <1>1, <2>1, CkptLeavesReaders DEF Inv2, CkptKnows
  <1>. QED  BY <1>2, <1>3

\* A mark in use either does not hold the checkpoint back, or lowers what it
\* copies to what the reader may have in its log.
LEMMA CkptMarkAgrees ==
    ASSUME WalAssumption, Inv1, Inv2, CkptMark
    PROVE  Inv2'
  <1> DEFINE i == ckpt.i
  <1>1. UNCHANGED <<connVars, writeVars, live, nBackfill>> /\ ckpt.pc = "marks" /\ MarkHolds(i)
    BY DEF CkptMark
  <1>2. HeadersAgree'
    BY <1>1, CkptLeavesHeaders
  <1>3. /\ i \in 1 .. Slots /\ aReadMark[i] \in Nat /\ ckpt.mxSafeFrame \in Nat
        /\ ckpt.hdr.mxFrame \in Nat
    BY HeaderIsHeader DEF Inv1, Types, CkptTypes, SharedTypes, WalAssumption, CkptMark
  <1>4. /\ ckpt'.pc = "marks" /\ ckpt'.hdr = ckpt.hdr /\ ckpt'.i = i + 1
        /\ \/ /\ ckpt'.mxSafeFrame = ckpt.mxSafeFrame
              /\ ckpt.mxSafeFrame <= aReadMark[i] \/ CanLockExclusive(i)
           \/ ckpt'.mxSafeFrame = aReadMark[i] /\ aReadMark[i] < ckpt.mxSafeFrame
        /\ aReadMark' = aReadMark \/ CanLockExclusive(i)
    <2>1. CASE ckpt.mxSafeFrame <= aReadMark[i]
      BY <1>1, <1>3, <2>1 DEF Inv1, Types, CkptTypes, MarkHolds
    <2>2. CASE ~(ckpt.mxSafeFrame <= aReadMark[i]) /\ CanLockExclusive(i)
      <3>1. ckpt' = [ckpt EXCEPT !.i = i + 1]
        BY <1>1, <2>2 DEF MarkHolds
      <3>. QED  BY <1>1, <2>2, <3>1 DEF Inv1, Types, CkptTypes
    <2>3. CASE ~(ckpt.mxSafeFrame <= aReadMark[i]) /\ ~CanLockExclusive(i)
      <3>1. /\ ckpt' = [ckpt EXCEPT !.i = i + 1, !.mxSafeFrame = aReadMark[i]]
            /\ aReadMark' = aReadMark
        BY <1>1, <2>3 DEF MarkHolds
      <3>2. aReadMark[i] < ckpt.mxSafeFrame
        BY <1>3, <2>3
      <3>. QED  BY <1>1, <3>1, <3>2 DEF Inv1, Types, CkptTypes
    <2>. QED  BY <2>1, <2>2, <2>3
  <1>5. CkptKnows'
    BY <1>1, <1>3, <1>4 DEF Inv2, CkptKnows
  <1>6. ASSUME NEW c \in Conn, Reading(c)
        PROVE  /\ aReadMark'[readLock[c]] <= hdr[c].mxFrame
               /\ readLock[c] < i + 1 => ckpt'.mxSafeFrame <= hdr[c].mxFrame
    <2>1. readLock[c] \in 1 .. Slots /\ hdr[c].mxFrame \in Nat
      BY <1>6, HeaderIsHeader DEF Reading, Inv1, Types, ConnTypes, WalAssumption
    <2>2. /\ aReadMark[readLock[c]] <= hdr[c].mxFrame
          /\ readLock[c] < i => ckpt.mxSafeFrame <= hdr[c].mxFrame
      BY <1>1, <1>6 DEF Inv2, ReadersAgree, ReaderOf
    <2>3. CASE readLock[c] = i
      <3>1. ~CanLockExclusive(i)
        BY <2>3 DEF CanLockExclusive, Holders
      <3>2. aReadMark' = aReadMark /\ ckpt'.mxSafeFrame <= aReadMark[i]
        BY <1>3, <1>4, <3>1
      <3>. QED  BY <1>3, <1>4, <2>1, <2>2, <2>3, <3>2
    <2>4. CASE readLock[c] # i
      <3>1. aReadMark'[readLock[c]] = aReadMark[readLock[c]]
        BY <1>1, <1>3, <2>1, <2>4 DEF Inv1, Types, SharedTypes, MarkHolds
      <3>2. readLock[c] < i + 1 => readLock[c] < i
        BY <1>3, <2>1, <2>4
      <3>. QED  BY <1>3, <1>4, <2>1, <2>2, <3>1, <3>2
    <2>. QED  BY <2>3, <2>4
  <1>7. ReadersAgree'
    BY <1>1, <1>4, <1>6 DEF ReadersAgree, ReaderOf, Reading, connVars
  <1>. QED  BY <1>2, <1>5, <1>7 DEF Inv2

\* Copying begins when every slot has been looked at.
LEMMA CkptLock0Agrees ==
    ASSUME WalAssumption, Inv1, Inv2, CkptLock0
    PROVE  Inv2'
  <1>1. HeadersAgree'
    BY CkptLeavesHeaders DEF CkptLock0, indexVars
  <1>2. UNCHANGED <<connVars, live, nBackfill, aReadMark>> /\ ckpt.pc = "marks" /\ ckpt.i > Slots
    BY DEF CkptLock0, indexVars
  <1>3. CASE ckpt' = IdleCkpt
    <2>1. ckpt'.pc = "idle"
      BY <1>3 DEF IdleCkpt
    <2>. QED  BY <1>1, <1>2, <2>1, CkptLeavesReaders DEF Inv2, CkptKnows
  <1>4. CASE ckpt' # IdleCkpt
    <2>1. /\ ckpt'.pc = "copy" /\ ckpt'.i = ckpt.i /\ ckpt'.hdr = ckpt.hdr
          /\ ckpt'.mxSafeFrame = ckpt.mxSafeFrame
      BY <1>4 DEF Inv1, Types, CkptTypes, CkptLock0
    <2>2. CkptKnows'
      BY <1>2, <2>1 DEF Inv2, CkptKnows
    <2>3. ReadersAgree'
      BY <1>2, <2>1 DEF Inv2, ReadersAgree, ReaderOf, Reading, connVars
    <2>. QED  BY <1>1, <2>2, <2>3 DEF Inv2
  <1>. QED  BY <1>3, <1>4

\* A page is copied.
LEMMA CkptCopyAgrees ==
    ASSUME WalAssumption, Inv1, Inv2, CkptCopy
    PROVE  Inv2'
  <1>1. HeadersAgree'
    BY CkptLeavesHeaders DEF CkptCopy, indexVars
  <1>2. UNCHANGED <<connVars, live, nBackfill, aReadMark>>
    BY DEF CkptCopy, indexVars
  <1>3. /\ ckpt'.pc = ckpt.pc /\ ckpt'.i = ckpt.i /\ ckpt'.hdr = ckpt.hdr
        /\ ckpt'.mxSafeFrame = ckpt.mxSafeFrame
    BY DEF Inv1, Types, CkptTypes, CkptCopy
  <1>4. CkptKnows'
    BY <1>2, <1>3 DEF Inv2, CkptKnows
  <1>5. ReadersAgree'
    BY <1>2, <1>3 DEF Inv2, ReadersAgree, ReaderOf, Reading, connVars
  <1>. QED  BY <1>1, <1>4, <1>5 DEF Inv2

\* A checkpoint that gives up.
LEMMA CkptFailsAgrees ==
    ASSUME WalAssumption, Inv1, Inv2, CkptFails
    PROVE  Inv2'
  <1>1. HeadersAgree'
    BY CkptLeavesHeaders DEF CkptFails, indexVars
  <1>2. ckpt'.pc = "idle" /\ UNCHANGED <<connVars, aReadMark>>
    BY DEF CkptFails, IdleCkpt, indexVars
  <1>. QED  BY <1>1, <1>2, CkptLeavesReaders DEF Inv2, CkptKnows

\* Nobody ignores the log while nBackfill changes.
LEMMA CkptDoneAgrees ==
    ASSUME WalAssumption, Inv1, Inv2, CkptDone
    PROVE  Inv2'
  <1>1. UNCHANGED <<connVars, writeVars, live, aReadMark>> /\ ckpt.pc = "copy"
    BY DEF CkptDone
  <1>2. ckpt'.pc = "unlock" /\ ckpt'.hdr = ckpt.hdr
    BY DEF Inv1, Types, CkptTypes, CkptDone
  <1>3. \A c \in Conn : readLock[c] # 0
    BY <1>1 DEF Inv1, LocksExclude
  <1>4. HeadersAgree'
    BY <1>1, <1>3 DEF Inv2, HeadersAgree, HeaderOf, connVars, writeVars
  <1>5. CkptKnows'
    BY <1>1, <1>2 DEF Inv2, CkptKnows
  <1>. QED  BY <1>1, <1>2, <1>4, <1>5, CkptLeavesReaders DEF Inv2

\* The end of a checkpoint.
LEMMA CkptUnlockAgrees ==
    ASSUME WalAssumption, Inv1, Inv2, CkptUnlock
    PROVE  Inv2'
  <1>1. HeadersAgree'
    BY CkptLeavesHeaders DEF CkptUnlock, indexVars
  <1>2. ckpt'.pc = "idle" /\ UNCHANGED <<connVars, aReadMark>>
    BY DEF CkptUnlock, IdleCkpt, indexVars
  <1>. QED  BY <1>1, <1>2, CkptLeavesReaders DEF Inv2, CkptKnows

\* Nobody reads after a kill.
LEMMA KillAgrees ==
    ASSUME Kill
    PROVE  Inv2'
  BY DEF Kill, IdleCkpt, Inv2, HeadersAgree, ReadersAgree, ReaderOf, Reading, CkptKnows

\* Nobody reads at the start.
LEMMA InitAgrees ==
    ASSUME Init
    PROVE  Inv2
  BY DEF Init, IdleCkpt, Inv2, HeadersAgree, ReadersAgree, ReaderOf, Reading, CkptKnows

\* A step that changes nothing.
LEMMA StutterAgrees ==
    ASSUME Inv2, UNCHANGED vars
    PROVE  Inv2'
  BY DEF Inv2, HeadersAgree, HeaderOf, ReadersAgree, ReaderOf, Reading, CkptKnows, vars,
         indexVars, connVars, writeVars

\* Every step keeps headers, marks and checkpoint in agreement.
LEMMA NextAgrees ==
    ASSUME WalAssumption, IdleCheckpoints = FALSE, Inv1, Inv2, [Next]_vars
    PROVE  Inv2'
  <1>1. ASSUME NEW c \in Conn, ReadStep(c)
        PROVE  Inv2'
    BY <1>1, ReadHdrAgrees, IgnoreLogAgrees, CheckHdrAgrees, ChooseSlotAgrees,
       ShareSlotAgrees, SetMinFrameAgrees, VerifyAgrees, EndReadAgrees
       DEF ReadStep
  <1>2. ASSUME NEW c \in Conn, WriteStep(c)
        PROVE  Inv2'
    BY <1>2, BeginWriteAgrees, RestartHdrAgrees, RestartInfoAgrees, KeepLogAgrees,
       WriteLogHdrAgrees, WriteFrameAgrees, UndoAgrees, PublishHdrAgrees
       DEF WriteStep
  <1>3. CASE CkptStep
    BY <1>3, CkptReadHdrAgrees, CkptTestAgrees, CkptMarkAgrees, CkptLock0Agrees,
       CkptCopyAgrees, CkptFailsAgrees, CkptDoneAgrees, CkptUnlockAgrees
       DEF CkptStep
  <1>4. CASE Kill
    BY <1>4, KillAgrees
  <1>5. CASE UNCHANGED vars
    BY <1>5, StutterAgrees
  <1>. QED  BY <1>1, <1>2, <1>3, <1>4, <1>5 DEF Next

\* From the slots it has passed, the checkpointer never copies over a page of
\* a reader.
LEMMA AgreeIsSafe ==
    ASSUME WalAssumption, Inv1, Inv2
    PROVE  MarksAreSafe
  <1> SUFFICES ASSUME NEW c \in Conn, Reading(c)
               PROVE  /\ aReadMark[readLock[c]] <= hdr[c].mxFrame
                      /\ ckpt.pc = "copy" => ckpt.mxSafeFrame <= hdr[c].mxFrame
    BY DEF MarksAreSafe
  <1>1. ReaderOf(c)
    BY DEF Inv2, ReadersAgree
  <1>2. ckpt.pc = "copy" => readLock[c] < ckpt.i
    BY DEF Inv1, Types, ConnTypes, CkptTypes, WalAssumption, Inv2, CkptKnows
  <1>. QED  BY <1>1, <1>2 DEF ReaderOf

\* If no checkpoint begins with nothing to copy, the marks hold the
\* checkpointer back as the comments in wal.c say, for any number of
\* connections, read marks, transactions and kills.
THEOREM MarksHold ==
    ASSUME WalAssumption, IdleCheckpoints = FALSE
    PROVE  Spec => []MarksAreSafe
  <1>1. Init => Inv1 /\ Inv2
    BY InitLocks, InitAgrees
  <1>2. Inv1 /\ Inv2 /\ [Next]_vars => (Inv1 /\ Inv2)'
    BY NextLocks, NextAgrees
  <1>3. Inv1 /\ Inv2 => MarksAreSafe
    BY AgreeIsSafe
  <1>. QED  BY <1>1, <1>2, <1>3, PTL DEF Spec
=============================================================================
