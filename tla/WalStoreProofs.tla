---------------------------- MODULE WalStoreProofs ----------------------------
(* The write-ahead log implements the store of AtomicStore.tla, for any     *)
(* connections, pages, slots and bounds.                                    *)
EXTENDS WalLogProofs, FiniteSetTheorems

-----------------------------------------------------------------------------
(* Induction over the natural numbers, stated for sets, and sequences.     *)

\* A set that has 0 and the successor of each of its members has them all.
LEMMA SetInduction ==
    ASSUME NEW G \in SUBSET Nat, 0 \in G, \A n \in G : n + 1 \in G
    PROVE  G = Nat
  <1> SUFFICES ASSUME Nat \ G # {}
               PROVE  FALSE
    OBVIOUS
  <1>1. PICK m \in Nat \ G : \A y \in Nat \ G : m <= y
    BY LeastExists
  <1>2. m - 1 \in G
    BY <1>1
  <1>. QED  BY <1>1, <1>2

\* A function on 1 .. n is a sequence.
LEMMA TableIsSeq ==
    ASSUME NEW S, NEW n \in Nat, NEW f \in [1 .. n -> S]
    PROVE  f \in Seq(S)
  OBVIOUS

\* A sequence over a set is one over every larger set.
LEMMA SeqWiden ==
    ASSUME NEW S, NEW T, S \subseteq T, NEW s \in Seq(S)
    PROVE  s \in Seq(T)
  <1>1. s \in [1 .. Len(s) -> T]
    OBVIOUS
  <1>. QED  BY <1>1

-----------------------------------------------------------------------------
(* Frame numbers stay within the log.                                      *)

\* Whoever has begun to write frames.
Busy(c) == pc[c] \in {"frames", "publish"}

\* A header ends within the log, and so do the frames written after it.
ConnBound(c) ==
    /\ hdr[c].mxFrame <= Len(log)
    /\ Busy(c) => hdr[c].mxFrame + done <= Len(log)
    /\ pc[c] = "publish" => done = Len(todo)

ConnBounds == \A c \in Conn : ConnBound(c)

\* Without a frame written none is counted.
NoneWritten == (\A c \in Conn : ~Busy(c)) => done = 0

SharedBounds ==
    /\ live # NoHdr => live.mxFrame <= Len(log)
    /\ \A i \in 1 .. Slots : aReadMark[i] <= Len(log) \/ aReadMark[i] = NotUsed
    /\ nBackfill <= Len(log)

CkptBounds == ckpt.hdr.mxFrame <= Len(log) /\ ckpt.mxSafeFrame <= Len(log)

Bounds == ConnBounds /\ NoneWritten /\ SharedBounds /\ CkptBounds

\* A log with one frame replaced or appended.
LEMMA WithFrameFacts ==
    ASSUME LogTypes, NEW n \in Nat \ {0}, NEW f
    PROVE  LET l == WithFrame(n, f)
           IN  /\ Len(l) = IF n > Len(log) THEN n ELSE Len(log)
               /\ DOMAIN l = 1 .. Len(l)
               /\ l[n] = f
               /\ \A i \in 1 .. Len(l) : i # n => l[i] = log[i]
  <1> DEFINE m == Max({n, Len(log)})
  <1>1. Len(log) \in Nat
    BY DEF LogTypes
  <1>2. m \in {n, Len(log)} /\ \A y \in {n, Len(log)} : y <= m
    <2>1. {n, Len(log)} \subseteq 0 .. (n + Len(log)) /\ n + Len(log) \in Nat
      BY <1>1
    <2>. QED  BY <2>1, MaxOfFrames
  <1>3. m = IF n > Len(log) THEN n ELSE Len(log)
    BY <1>1, <1>2
  <1>4. WithFrame(n, f) = [i \in 1 .. m |-> IF i = n THEN f ELSE log[i]]
    BY DEF WithFrame
  <1> DEFINE S == {WithFrame(n, f)[i] : i \in 1 .. m}
  <1>5. WithFrame(n, f) \in [1 .. m -> S]
    BY <1>4, Zenon
  <1> HIDE DEF m, S
  <1>6. m \in Nat /\ n \in 1 .. m
    BY <1>1, <1>3
  <1>7. WithFrame(n, f) \in Seq(S)
    BY <1>5, <1>6, SeqDef
  <1>8. Len(WithFrame(n, f)) = m /\ DOMAIN WithFrame(n, f) = 1 .. m
    BY <1>4, <1>6, <1>7, LenProperties
  <1>. QED  BY <1>3, <1>4, <1>6, <1>8

\* Recovery finds a commit within the log.
LEMMA RecoveredBounds ==
    ASSUME WalAssumption, LogTypes, Recover
    PROVE  LastCommit \in 0 .. Len(log) /\ (UNCHANGED log => SharedBounds')
  <1>1. ValidFrames \subseteq 1 .. Len(log)
    BY DEF ValidFrames, LogTypes
  <1> DEFINE C == {f \in ValidFrames : log[f].commit}
  <1>2. C \subseteq ValidFrames
    BY Zenon
  <1>3. LastCommit = Max({0} \cup C)
    BY Zenon DEF LastCommit
  <1> HIDE DEF C
  <1>4. {0} \cup C \subseteq 0 .. Len(log)
    BY <1>1, <1>2 DEF LogTypes
  <1>5. LastCommit \in 0 .. Len(log)
    BY <1>3, <1>4, MaxOfFrames DEF LogTypes
  <1>6. live'.mxFrame = LastCommit /\ nBackfill' = 0
    BY DEF Recover, RecoveredHdr, Header
  <1>7. \A i \in 1 .. Slots : aReadMark'[i] \in {NotUsed, LastCommit}
    BY DEF Recover, NoMarks
  <1>. QED  BY <1>5, <1>6, <1>7 DEF SharedBounds, LogTypes

\* A connection outside a commit that takes the present header, keeps its own
\* or gives it up.
LEMMA ConnStepBounds ==
    ASSUME Inv1, Bounds, NEW c \in Conn, UNCHANGED <<log, done, todo>>, hdr' \in [Conn -> Headers],
           \A d \in Conn \ {c} : Same(d),
           ~Busy(c), ~Busy(c)' \/ (pc'[c] = "frames" /\ \A d \in Conn : ~Busy(d)),
           hdr'[c].mxFrame <= Len(log)
    PROVE  ConnBounds' /\ NoneWritten'
  <1>1. \A d \in Conn \ {c} : ConnBound(d)'
    BY DEF Bounds, ConnBounds, ConnBound, Busy, Same
  <1>2. ConnBound(c)'
    BY HeaderIsHeader DEF Bounds, ConnBound, NoneWritten, Busy, Inv1, Types, LogTypes
  <1>3. NoneWritten'
    BY DEF Bounds, NoneWritten, Busy, Same
  <1>. QED  BY <1>1, <1>2, <1>3 DEF ConnBounds

\* The steps of a read transaction keep within the log.
LEMMA ReadStepBounds ==
    ASSUME WalAssumption, Inv1, Inv1', Bounds, NEW c \in Conn, ReadStep(c)
    PROVE  Bounds'
  <1>1. hdr \in [Conn -> Headers] /\ hdr' \in [Conn -> Headers] /\ Len(log) \in Nat
    BY DEF Inv1, Types, ConnTypes, LogTypes
  <1>2. UNCHANGED <<log, done, todo, ckpt>>
    BY DEF ReadStep, ReadHdr, IgnoreLog, CheckHdr, ChooseSlot, ShareSlot, SetMinFrame,
           Verify, EndRead, fileVars, writeVars
  <1>3. \A d \in Conn \ {c} : Same(d)
    BY SMTT(30) DEF Same, Inv1, Types, ConnTypes, ReadStep, ReadHdr, IgnoreLog, CheckHdr, ChooseSlot,
           ShareSlot, SetMinFrame, Verify, EndRead, Retry, Leave, FirstWrite, connVars
  <1>4. SharedBounds'
    <2>1. CASE ReadHdr(c) /\ live = NoHdr
      <3>1. Recover
        BY <2>1 DEF ReadHdr
      <3>. QED  BY <1>2, <3>1, RecoveredBounds DEF Inv1, Types
    <2>2. CASE ChooseSlot(c)
      <3>1. hdr[c].mxFrame <= Len(log) /\ UNCHANGED <<live, nBackfill, log>>
        BY <1>2, <2>2 DEF Bounds, ConnBounds, ConnBound, ChooseSlot
      <3>2. aReadMark' = aReadMark
            \/ \E i \in 1 .. Slots : aReadMark' = [aReadMark EXCEPT ![i] = hdr[c].mxFrame]
        BY <2>2 DEF ChooseSlot
      <3>. QED  BY <3>1, <3>2 DEF Bounds, SharedBounds, Inv1, Types, SharedTypes
    <2>3. CASE ~(ReadHdr(c) /\ live = NoHdr) /\ ~ChooseSlot(c)
      <3>1. UNCHANGED indexVars
        BY <2>3 DEF ReadStep, ReadHdr, IgnoreLog, CheckHdr, ShareSlot, SetMinFrame,
                    Verify, EndRead
      <3>. QED  BY <1>2, <3>1 DEF indexVars, Bounds, SharedBounds
    <2>. QED  BY <2>1, <2>2, <2>3
  <1>5. ~Busy(c)
    BY DEF Busy, ReadStep, ReadHdr, IgnoreLog, CheckHdr, ChooseSlot, ShareSlot, SetMinFrame,
           Verify, EndRead
  <1>6. ~Busy(c)' \/ (pc'[c] = "frames" /\ \A d \in Conn : ~Busy(d))
    <2>1. CASE Verify(c) /\ writer = c
      <3>1. pc'[c] # "publish"
        BY <2>1 DEF Inv1, Types, ConnTypes, Verify, FirstWrite, Retry, Leave
      <3>2. \A d \in Conn : ~Busy(d)
        BY <1>5, <2>1 DEF Inv1, LocksExclude, Writing, Busy
      <3>. QED  BY <3>1, <3>2 DEF Busy
    <2>2. CASE ~(Verify(c) /\ writer = c)
      BY <2>2 DEF Inv1, Types, ConnTypes, Busy, UseWal, ReadStep, ReadHdr, IgnoreLog,
                  CheckHdr, ChooseSlot, ShareSlot, SetMinFrame, Verify, EndRead, Retry, Leave
    <2>. QED  BY <2>1, <2>2
  <1>7. hdr'[c].mxFrame <= Len(log)
    <2>1. CASE ReadHdr(c) /\ live = NoHdr
      <3>1. hdr'[c] = RecoveredHdr /\ Recover
        BY <1>1, <2>1 DEF ReadHdr
      <3>2. LastCommit <= Len(log)
        BY <1>1, <3>1, RecoveredBounds DEF Inv1, Types
      <3>. QED  BY <3>1, <3>2 DEF RecoveredHdr, Header
    <2>2. CASE ReadHdr(c) /\ live # NoHdr
      BY <1>1, <2>2 DEF ReadHdr, Bounds, SharedBounds
    <2>3. CASE ~ReadHdr(c)
      <3>1. hdr'[c] \in {hdr[c], Header(0, 0)}
        BY <1>1, <2>3 DEF ReadStep, IgnoreLog, CheckHdr, ChooseSlot, ShareSlot,
             SetMinFrame, Verify, EndRead, Retry, Leave
      <3>. QED  BY <1>1, <3>1 DEF Header, Bounds, ConnBounds, ConnBound
    <2>. QED  BY <2>1, <2>2, <2>3
  <1>8. ConnBounds' /\ NoneWritten'
    BY <1>1, <1>2, <1>3, <1>5, <1>6, <1>7, ConnStepBounds
  <1>. QED  BY <1>2, <1>4, <1>8 DEF Bounds, CkptBounds

\* What a write that fails leaves of the log: its writer was the only one.
LEMMA UndoneLog ==
    ASSUME WalAssumption, Inv1, NEW c \in Conn, Undo(c)
    PROVE  /\ Writing(c) /\ writer = c /\ \A d \in Conn \ {c} : ~Writing(d)
           /\ \/ log' = log
              \/ pc[c] = "frames" /\ log' = WithFrame(hdr[c].mxFrame + done + 1, Torn)
           /\ logHdr' = logHdr \/ (pc[c] = "header" /\ logHdr' = 0)
           /\ Len(log') \in Nat /\ DOMAIN log' = 1 .. Len(log') /\ Len(log) <= Len(log')
  <1>1. pc[c] \in {"header", "frames"} /\ log' \in HalfWritten /\ logHdr' \in HalfHeader
    BY DEF Undo
  <1>2. Writing(c) /\ writer = c /\ \A d \in Conn \ {c} : ~Writing(d)
    BY <1>1 DEF Inv1, LocksExclude, Writing
  <1>3. \A d \in Conn \ {c} : pc[d] \notin {"header", "frames"}
    BY <1>2 DEF Writing
  <1>4. \/ log' = log
        \/ pc[c] = "frames" /\ log' = WithFrame(hdr[c].mxFrame + done + 1, Torn)
    BY <1>1, <1>3 DEF HalfWritten
  <1>5. logHdr' = logHdr \/ (pc[c] = "header" /\ logHdr' = 0)
    BY <1>1, <1>3 DEF HalfHeader
  <1>6. LogTypes /\ Len(log) \in Nat /\ DOMAIN log = 1 .. Len(log)
    BY DEF Inv1, Types, LogTypes
  <1>7. Len(log') \in Nat /\ DOMAIN log' = 1 .. Len(log') /\ Len(log) <= Len(log')
    <2> DEFINE n == hdr[c].mxFrame + done + 1
    <2>1. n \in Nat \ {0}
      BY SMTT(30), HeaderIsHeader DEF Inv1, Types, ConnTypes, WriterTypes
    <2>2. CASE log' = log
      BY <1>6, <2>2
    <2>3. CASE log' = WithFrame(n, Torn)
      <3> HIDE DEF n
      <3>. QED  BY <1>6, <2>1, <2>3, WithFrameFacts
    <2>. QED  BY <1>4, <2>2, <2>3
  <1>. QED  BY <1>2, <1>4, <1>5, <1>7

\* So do those of a write transaction, which lengthen the log.
LEMMA WriteStepBounds ==
    ASSUME WalAssumption, Inv1, Inv1', Bounds, NEW c \in Conn, WriteStep(c)
    PROVE  Bounds'
  <1>1. /\ hdr \in [Conn -> Headers] /\ hdr' \in [Conn -> Headers] /\ pc \in [Conn -> PCs]
        /\ Len(log) \in Nat /\ todo \in Seq(Page) /\ done \in Nat
    BY DEF Inv1, Types, ConnTypes, LogTypes, WriterTypes
  <1>2. \A d \in Conn \ {c} : Same(d)
    BY DEF Same, Inv1, Types, ConnTypes, WriteStep, BeginWrite, RestartHdr, RestartInfo,
           KeepLog, WriteLogHdr, WriteFrame, Undo, PublishHdr, Leave
  <1>3. Writing(c) => \A d \in Conn \ {c} : ~Busy(d)
    BY DEF Inv1, LocksExclude, Writing, Busy
  <1>4. writer = Nobody => \A d \in Conn : ~Busy(d)
    BY DEF Inv1, LocksExclude, Writing, Busy, WalAssumption
  <1>5. CASE BeginWrite(c)
    <2>1. UNCHANGED <<fileVars, indexVars, ckpt>> /\ writer = Nobody /\ pc[c] = "read"
      BY <1>5 DEF BeginWrite
    <2>2. CASE CanWrite(c)
      <3>1. done' = 0 /\ pc'[c] # "publish" /\ hdr' = hdr
        BY <1>1, <1>5, <2>2 DEF BeginWrite, FirstWrite
      <3>2. ASSUME NEW d \in Conn
            PROVE  ConnBound(d)'
        <4>1. hdr[d].mxFrame \in Nat /\ hdr[d].mxFrame <= Len(log) /\ ~Busy(d)
          BY <1>1, <1>4, <2>1, HeaderIsHeader DEF Bounds, ConnBounds, ConnBound
        <4>2. pc'[d] # "publish" /\ hdr' = hdr /\ log' = log
          BY <1>2, <2>1, <3>1, <4>1 DEF Same, Busy, fileVars
        <4>. QED  BY <3>1, <4>1, <4>2 DEF ConnBound
      <3>. QED  BY <2>1, <3>1, <3>2
                DEF fileVars, indexVars, Bounds, ConnBounds, NoneWritten, SharedBounds,
                    CkptBounds
    <2>3. CASE ~CanWrite(c)
      <3>1. UNCHANGED <<done, todo>> /\ pc'[c] = "idle" /\ hdr'[c] = Header(0, 0)
        BY <1>1, <1>5, <2>3 DEF BeginWrite, Leave, writeVars
      <3>2. ~Busy(c) /\ ~Busy(c)' /\ hdr'[c].mxFrame <= Len(log)
        BY <1>1, <2>1, <3>1 DEF Busy, Header
      <3>3. ConnBounds' /\ NoneWritten'
        BY <1>1, <1>2, <2>1, <3>1, <3>2, ConnStepBounds DEF fileVars
      <3>. QED  BY <2>1, <3>3 DEF fileVars, indexVars, Bounds, SharedBounds, CkptBounds
    <2>. QED  BY <2>2, <2>3
  <1>6. CASE RestartHdr(c)
    <2>1. /\ UNCHANGED <<log, nBackfill, aReadMark, done, todo, ckpt>>
          /\ hdr'[c] = live' /\ live'.mxFrame = 0 /\ pc[c] = "write" /\ pc'[c] = "restart"
      BY <1>1, <1>6 DEF RestartHdr, fileVars, writeVars, Header
    <2>2. ConnBounds' /\ NoneWritten'
      BY <1>1, <1>2, <2>1, ConnStepBounds DEF Busy
    <2>. QED  BY <1>1, <2>1, <2>2 DEF Bounds, SharedBounds, CkptBounds
  <1>7. CASE RestartInfo(c)
    <2>1. /\ UNCHANGED <<log, live, done, todo, ckpt, hdr>>
          /\ nBackfill' = 0 /\ pc[c] = "restart" /\ pc'[c] = "choose"
          /\ \A i \in 1 .. Slots : aReadMark'[i] \in {0, NotUsed}
      BY <1>1, <1>7 DEF RestartInfo, fileVars, writeVars, NoMarks
    <2>2. ConnBounds' /\ NoneWritten'
      BY <1>1, <1>2, <2>1, ConnStepBounds DEF Busy, Bounds, ConnBounds, ConnBound
    <2>. QED  BY <1>1, <2>1, <2>2 DEF Bounds, SharedBounds, CkptBounds
  <1>8. CASE KeepLog(c)
    <2>1. /\ UNCHANGED <<log, indexVars, done, todo, ckpt, hdr>>
          /\ pc[c] = "write" /\ pc'[c] = "choose"
      BY <1>1, <1>8 DEF KeepLog, fileVars, writeVars
    <2>2. ConnBounds' /\ NoneWritten'
      BY <1>1, <1>2, <2>1, ConnStepBounds DEF Busy, Bounds, ConnBounds, ConnBound
    <2>. QED  BY <2>1, <2>2 DEF Bounds, indexVars, SharedBounds, CkptBounds
  <1>9. CASE WriteLogHdr(c)
    <2>1. /\ UNCHANGED <<log, indexVars, done, todo, ckpt>>
          /\ pc[c] = "header" /\ pc'[c] = "frames" /\ hdr'[c].mxFrame = hdr[c].mxFrame
      BY <1>1, <1>9 DEF WriteLogHdr, writeVars, Headers
    <2>2. ConnBounds' /\ NoneWritten'
      BY <1>1, <1>2, <1>3, <2>1, ConnStepBounds DEF Busy, Writing, Bounds, ConnBounds, ConnBound
    <2>. QED  BY <2>1, <2>2 DEF Bounds, indexVars, SharedBounds, CkptBounds
  <1>10. CASE WriteFrame(c)
    <2> DEFINE n == hdr[c].mxFrame + done + 1
    <2>1. n \in Nat \ {0} /\ hdr[c].mxFrame \in Nat
      BY SMTT(30), <1>1, HeaderIsHeader
    <2>2. log' = WithFrame(n, NextFrame(c))
      BY <1>10 DEF WriteFrame
    <2>3. Len(log') \in Nat /\ Len(log') >= Len(log) /\ Len(log') >= n
      BY <1>1, <2>1, <2>2, WithFrameFacts DEF Inv1, Types
    <2>4. /\ UNCHANGED <<indexVars, todo, ckpt, hdr>> /\ pc[c] = "frames"
          /\ done' = done + 1 /\ pc'[c] = IF done' = Len(todo) THEN "publish" ELSE "frames"
      BY <1>1, <1>10 DEF WriteFrame
    <2>5. ConnBound(c)'
      BY <1>1, <2>1, <2>3, <2>4 DEF ConnBound, Busy
    <2>6. \A d \in Conn \ {c} : ConnBound(d)'
      <3>1. \A d \in Conn \ {c} : ~Busy(d) /\ hdr[d].mxFrame \in Nat
        BY <1>1, <1>3, <2>4, HeaderIsHeader DEF Writing
      <3>. QED  BY <1>1, <1>2, <2>3, <3>1 DEF Bounds, ConnBounds, ConnBound, Busy, Same
    <2>7. NoneWritten'
      BY <2>4 DEF NoneWritten, Busy
    <2>8. SharedBounds'
      <3>1. nBackfill \in Nat /\ aReadMark \in [1 .. Slots -> Nat]
            /\ (live # NoHdr => live.mxFrame \in Nat)
        BY HeaderIsHeader DEF Inv1, Types, SharedTypes
      <3>. QED  BY <1>1, <2>3, <2>4, <3>1 DEF Bounds, indexVars, SharedBounds
    <2>9. CkptBounds'
      <3>1. ckpt.hdr.mxFrame \in Nat /\ ckpt.mxSafeFrame \in Nat
        BY HeaderIsHeader DEF Inv1, Types, CkptTypes
      <3>. QED  BY <1>1, <2>3, <2>4, <3>1 DEF Bounds, CkptBounds
    <2>. QED  BY <2>5, <2>6, <2>7, <2>8, <2>9 DEF Bounds, ConnBounds
  <1>11. CASE Undo(c)
    <2>1. /\ UNCHANGED <<indexVars, ckpt>> /\ done' = 0 /\ Writing(c)
          /\ pc'[c] = "idle" /\ hdr'[c] = Header(0, 0)
      BY <1>1, <1>11 DEF Undo, Leave, Writing
    <2>2. Len(log') \in Nat /\ Len(log) <= Len(log')
      BY <1>11, UndoneLog
    <2>3. ConnBounds'
      <3>1. ConnBound(c)'
        BY <2>1, <2>2 DEF Header, Busy, ConnBound
      <3>2. \A d \in Conn \ {c} : ~Busy(d) /\ hdr[d].mxFrame \in Nat
        BY <1>1, <1>3, <2>1, HeaderIsHeader
      <3>3. \A d \in Conn \ {c} : ConnBound(d)'
        BY <1>1, <1>2, <2>2, <3>2 DEF Bounds, ConnBounds, ConnBound, Busy, Same
      <3>. QED  BY <3>1, <3>3 DEF ConnBounds
    <2>4. SharedBounds'
      <3>1. nBackfill \in Nat /\ aReadMark \in [1 .. Slots -> Nat]
            /\ (live # NoHdr => live.mxFrame \in Nat)
        BY HeaderIsHeader DEF Inv1, Types, SharedTypes
      <3>. QED  BY <1>1, <2>1, <2>2, <3>1 DEF Bounds, indexVars, SharedBounds
    <2>5. CkptBounds'
      <3>1. ckpt.hdr.mxFrame \in Nat /\ ckpt.mxSafeFrame \in Nat
        BY HeaderIsHeader DEF Inv1, Types, CkptTypes
      <3>. QED  BY <1>1, <2>1, <2>2, <3>1 DEF Bounds, CkptBounds
    <2>. QED  BY <2>1, <2>3, <2>4, <2>5 DEF Bounds, NoneWritten
  <1>12. CASE PublishHdr(c)
    <2>1. /\ UNCHANGED <<log, nBackfill, aReadMark, ckpt>> /\ done' = 0
          /\ pc[c] = "publish" /\ pc'[c] = "committed"
          /\ hdr'[c] = live' /\ live' = [hdr[c] EXCEPT !.mxFrame = @ + Len(todo)]
      BY <1>1, <1>12 DEF PublishHdr, fileVars
    <2>2. live'.mxFrame = hdr[c].mxFrame + Len(todo)
      BY <1>1, <2>1 DEF Headers
    <2>3. live'.mxFrame <= Len(log)
      BY <2>1, <2>2 DEF Bounds, ConnBounds, ConnBound, Busy
    <2>4. ConnBounds'
      BY ZenonT(60), <1>1, <1>2, <1>3, <2>1, <2>3
         DEF Same, Busy, Writing, Bounds, ConnBounds, ConnBound
    <2>. QED  BY <2>1, <2>3, <2>4 DEF Bounds, NoneWritten, SharedBounds, CkptBounds
  <1>. QED  BY <1>5, <1>6, <1>7, <1>8, <1>9, <1>10, <1>11, <1>12 DEF WriteStep

\* What a checkpoint takes for the end of the log lies within it.
LEMMA CkptStepBounds ==
    ASSUME WalAssumption, Inv1, Inv1', Bounds, CkptStep
    PROVE  Bounds'
  <1>1. UNCHANGED <<log, connVars, writeVars>>
    BY DEF CkptStep, CkptReadHdr, CkptTest, CkptMark, CkptLock0, CkptCopy, CkptFails, CkptDone,
           CkptUnlock, fileVars
  <1>2. ConnBounds' /\ NoneWritten'
    BY <1>1 DEF connVars, writeVars, Bounds, ConnBounds, ConnBound, Busy, NoneWritten
  <1>3. /\ Len(log) \in Nat /\ ckpt.mxSafeFrame \in Nat /\ aReadMark \in [1 .. Slots -> Nat]
        /\ DOMAIN ckpt = {"pc", "hdr", "i", "mxSafeFrame", "nBackfill", "iter", "left"}
        /\ ckpt.i \in Nat /\ (ckpt.pc = "marks" => ckpt.i > 0)
    BY DEF Inv1, Types, LogTypes, CkptTypes, SharedTypes
  <1>4. CASE ckpt' = IdleCkpt
    <2>1. UNCHANGED indexVars
      BY <1>4 DEF CkptStep, CkptReadHdr, CkptTest, CkptMark, CkptLock0, CkptCopy, CkptFails,
                  CkptDone, CkptUnlock, IdleCkpt, MarkHolds
    <2>. QED  BY <1>1, <1>2, <1>3, <1>4, <2>1
              DEF IdleCkpt, Header, indexVars, Bounds, SharedBounds, CkptBounds
  <1>5. CASE CkptReadHdr
    <2>1. CASE live # NoHdr
      <3>1. UNCHANGED indexVars /\ ckpt'.hdr = live /\ ckpt'.mxSafeFrame = ckpt.mxSafeFrame
        BY <1>3, <1>5, <2>1 DEF CkptReadHdr
      <3>. QED  BY <1>1, <1>2, <2>1, <3>1 DEF indexVars, Bounds, SharedBounds, CkptBounds
    <2>2. CASE live = NoHdr
      <3>1. Recover /\ ckpt'.hdr = RecoveredHdr /\ ckpt'.mxSafeFrame = ckpt.mxSafeFrame
        BY <1>3, <1>5, <2>2 DEF CkptReadHdr
      <3>2. LastCommit <= Len(log) /\ SharedBounds'
        BY <1>1, <3>1, RecoveredBounds DEF Inv1, Types
      <3>. QED  BY <1>1, <1>2, <3>1, <3>2 DEF RecoveredHdr, Header, Bounds, CkptBounds
    <2>. QED  BY <2>1, <2>2
  <1>6. CASE CkptTest /\ ckpt' # IdleCkpt
    <2>1. /\ UNCHANGED indexVars /\ ckpt'.hdr = ckpt.hdr
          /\ ckpt'.mxSafeFrame = ckpt.hdr.mxFrame
      BY <1>3, <1>6 DEF CkptTest
    <2>. QED  BY <1>1, <1>2, <2>1 DEF indexVars, Bounds, SharedBounds, CkptBounds
  <1>7. CASE CkptMark
    <2>1. ckpt.i \in 1 .. Slots /\ MarkHolds(ckpt.i) /\ UNCHANGED <<live, nBackfill>>
      BY <1>3, <1>7, SlotsAndConns DEF CkptMark
    <2>2. ckpt'.hdr = ckpt.hdr /\ ckpt'.mxSafeFrame <= ckpt.mxSafeFrame
      <3> DEFINE i == ckpt.i
      <3>1. i \in 1 .. Slots /\ aReadMark[i] \in Nat
        BY <1>3, <2>1
      <3>2. CASE ckpt' = [ckpt EXCEPT !.i = i + 1]
        BY <1>3, <3>2
      <3>3. CASE ckpt' = [ckpt EXCEPT !.i = i + 1, !.mxSafeFrame = aReadMark[i]]
                 /\ ~(ckpt.mxSafeFrame <= aReadMark[i])
        BY <1>3, <3>1, <3>3
      <3>. QED  BY <2>1, <3>2, <3>3 DEF MarkHolds
    <2>3. \A i \in 1 .. Slots : aReadMark'[i] \in {aReadMark[i], NotUsed, ckpt.mxSafeFrame}
      BY <1>3, <2>1 DEF MarkHolds
    <2>4. CkptBounds'
      <3>1. ckpt'.mxSafeFrame \in Nat
        BY DEF Inv1, Types, CkptTypes
      <3>. QED  BY <1>1, <1>3, <2>2, <3>1 DEF Bounds, CkptBounds
    <2>. QED  BY <1>1, <1>2, <2>1, <2>3, <2>4 DEF Bounds, SharedBounds, CkptBounds
  <1>8. CASE CkptLock0 /\ ckpt' # IdleCkpt
    <2>1. /\ UNCHANGED indexVars /\ ckpt'.hdr = ckpt.hdr
          /\ ckpt'.mxSafeFrame = ckpt.mxSafeFrame
      BY <1>3, <1>8 DEF CkptLock0
    <2>. QED  BY <1>1, <1>2, <2>1 DEF indexVars, Bounds, SharedBounds, CkptBounds
  <1>9. CASE CkptCopy
    <2>1. /\ UNCHANGED indexVars /\ ckpt'.hdr = ckpt.hdr
          /\ ckpt'.mxSafeFrame = ckpt.mxSafeFrame
      BY <1>3, <1>9 DEF CkptCopy
    <2>. QED  BY <1>1, <1>2, <2>1 DEF indexVars, Bounds, SharedBounds, CkptBounds
  <1>10. CASE CkptDone
    <2>1. /\ UNCHANGED <<live, aReadMark>> /\ nBackfill' = ckpt.mxSafeFrame
          /\ ckpt'.hdr = ckpt.hdr /\ ckpt'.mxSafeFrame = ckpt.mxSafeFrame
      BY <1>3, <1>10 DEF CkptDone
    <2>. QED  BY <1>1, <1>2, <2>1 DEF Bounds, SharedBounds, CkptBounds
  <1>. QED  BY <1>4, <1>5, <1>6, <1>7, <1>8, <1>9, <1>10 DEF CkptStep, CkptFails, CkptUnlock

\* A kill leaves nothing but the log.
LEMMA KillBounds ==
    ASSUME Inv1', Kill
    PROVE  Bounds'
  <1>1. ConnBounds' /\ NoneWritten'
    BY DEF Kill, Header, Inv1, Types, LogTypes, ConnBounds, ConnBound, Busy, NoneWritten
  <1>2. SharedBounds' /\ CkptBounds'
    BY DEF Kill, Header, IdleCkpt, NoMarks, Inv1, Types, LogTypes, SharedBounds, CkptBounds
  <1>. QED  BY <1>1, <1>2 DEF Bounds

\* At the start the log is empty.
LEMMA InitBounds ==
    ASSUME Init
    PROVE  Bounds
  BY DEF Init, Header, IdleCkpt, NoMarks, Bounds, ConnBounds, ConnBound, Busy, NoneWritten,
         SharedBounds, CkptBounds

\* Every step keeps frame numbers within the log.
LEMMA NextBounds ==
    ASSUME WalAssumption, Inv1, Bounds, [Next]_vars
    PROVE  Bounds'
  <1>1. Inv1'
    BY NextLocks
  <1>2. CASE UNCHANGED vars
    BY <1>2 DEF vars, fileVars, indexVars, connVars, writeVars, Bounds, ConnBounds, ConnBound,
                Busy, NoneWritten, SharedBounds, CkptBounds
  <1>. QED  BY <1>1, <1>2, ReadStepBounds, WriteStepBounds, CkptStepBounds, KillBounds DEF Next

\* For any number of connections, pages, read marks, transactions and kills,
\* and whenever checkpoints begin, headers, marks and frame numbers stay
\* within the log, slots within aReadMark, and WRITE_LOCK belongs to a
\* connection.
THEOREM FramesAreInLog == ASSUME WalAssumption PROVE Spec => []TypeOK
  <1>1. Init => Inv1 /\ Bounds
    BY InitLocks, InitBounds
  <1>2. Inv1 /\ Bounds /\ [Next]_vars => (Inv1 /\ Bounds)'
    BY NextLocks, NextBounds
  <1>3. Inv1 /\ Bounds => TypeOK
    <2> SUFFICES ASSUME Inv1, Bounds
                 PROVE  TypeOK
      OBVIOUS
    <2>1. Len(log) \in Nat
      BY DEF Inv1, Types, LogTypes
    <2>2. \A c \in Conn : readLock[c] \in -1 .. Slots /\ hdr[c].mxFrame \in 0 .. Len(log)
      BY <2>1, HeaderIsHeader
         DEF Inv1, Types, ConnTypes, Bounds, ConnBounds, ConnBound
    <2>3. live # NoHdr => live.mxFrame \in 0 .. Len(log)
      BY <2>1, HeaderIsHeader DEF Inv1, Types, SharedTypes, Bounds, SharedBounds
    <2>4. /\ \A i \in 1 .. Slots : aReadMark[i] \in 0 .. Len(log) \cup {NotUsed}
          /\ nBackfill \in 0 .. Len(log)
      BY <2>1 DEF Inv1, Types, SharedTypes, Bounds, SharedBounds
    <2>. QED  BY <2>2, <2>3, <2>4 DEF Inv1, Types, WriterTypes, TypeOK
  <1>. QED  BY <1>1, <1>2, <1>3, PTL DEF Spec

-----------------------------------------------------------------------------
(* What the pages hold under the frames of a log.                          *)

\* f is the last of the first n frames that holds page p, or 0.
IsLast(l, p, n, f) ==
    /\ f \in 0 .. n /\ (f # 0 => l[f].page = p)
    /\ \A g \in f + 1 .. n : l[g].page # p

\* There is one.
LEMMA LastExists ==
    ASSUME NEW l, NEW p, NEW n \in Nat
    PROVE  \E f : IsLast(l, p, n, f)
  <1> DEFINE S == {0} \cup {f \in 1 .. n : l[f].page = p}
  <1>1. S \subseteq 0 .. n /\ S # {}
    OBVIOUS
  <1>2. Max(S) \in S /\ \A y \in S : y <= Max(S)
    BY <1>1, MaxOfFrames
  <1> DEFINE m == Max(S)
  <1>3. m \in 0 .. n /\ (m # 0 => l[m].page = p) /\ \A y \in S : y <= m
    BY <1>1, <1>2
  <1> HIDE DEF m
  <1>4. \A g \in m + 1 .. n : l[g].page # p
    BY <1>3
  <1>. QED  BY <1>3, <1>4 DEF IsLast

\* d tells something of every page in P.
IsTable(d, P) == d = [p \in P |-> d[p]]

\* Two tables that agree on every page are the same.
LEMMA TablesAgree ==
    ASSUME NEW P, NEW d, NEW e, IsTable(d, P), IsTable(e, P), \A p \in P : d[p] = e[p]
    PROVE  d = e
  <1>1. [p \in P |-> d[p]] = [p \in P |-> e[p]]
    OBVIOUS
  <1>. QED  BY <1>1 DEF IsTable

\* after is the recursion that defines Overlaid, as far as frame n.
OverlaidOf(l, d, n, after) ==
    after = [k \in 0 .. n |-> IF k = 0 THEN d
                              ELSE [after[k - 1] EXCEPT ![l[k].page] = l[k].tx]]

\* It has a solution.
LEMMA OverlaidExists ==
    ASSUME NEW l, NEW d, NEW n \in Nat
    PROVE  \E after : OverlaidOf(l, d, n, after)
  <1> DEFINE G == {k \in Nat : \E after : OverlaidOf(l, d, k, after)}
  <1>1. 0 \in G
    <2>1. OverlaidOf(l, d, 0, [k \in 0 .. 0 |-> d])
      BY DEF OverlaidOf
    <2>. QED  BY <2>1
  <1>2. ASSUME NEW k \in G
        PROVE  k + 1 \in G
    <2>1. PICK e : OverlaidOf(l, d, k, e)
      OBVIOUS
    <2> DEFINE g == [i \in 0 .. k + 1 |->
                        IF i \in 0 .. k THEN e[i]
                        ELSE [e[k] EXCEPT ![l[k + 1].page] = l[k + 1].tx]]
    <2>2. OverlaidOf(l, d, k + 1, g)
      <3>1. ASSUME NEW i \in 0 .. k + 1
            PROVE  g[i] = IF i = 0 THEN d ELSE [g[i - 1] EXCEPT ![l[i].page] = l[i].tx]
        <4>1. CASE i \in 0 .. k
          <5>1. e[i] = IF i = 0 THEN d ELSE [e[i - 1] EXCEPT ![l[i].page] = l[i].tx]
            BY <2>1, <4>1 DEF OverlaidOf
          <5>2. g[i] = e[i] /\ (i # 0 => g[i - 1] = e[i - 1])
            BY <4>1
          <5>. QED  BY <5>1, <5>2
        <4>2. CASE i = k + 1
          <5>1. g[i - 1] = e[k]
            BY <4>2
          <5>. QED  BY <4>2, <5>1
        <4>. QED  BY <4>1, <4>2
      <3>2. g = [i \in 0 .. k + 1 |-> g[i]]
        OBVIOUS
      <3> HIDE DEF g
      <3>. QED  BY <3>1, <3>2 DEF OverlaidOf
    <2>. QED  BY <2>2
  <1> HIDE DEF G
  <1>3. G = Nat
    BY <1>1, <1>2, SetInduction DEF G
  <1>. QED  BY <1>3 DEF G

\* Every page shows what the last of its frames says, or what it held before.
ShowsLast(l, d, n, P, shown) ==
    \A p \in P : \A f :
       IsLast(l, p, n, f) => shown[p] = IF f = 0 THEN d[p] ELSE l[f].tx

\* Overlaid does so.
LEMMA OverlaidFacts ==
    ASSUME NEW l, NEW P, NEW d, IsTable(d, P), NEW n \in Nat
    PROVE  /\ IsTable(Overlaid(l, d, n), P)
           /\ ShowsLast(l, d, n, P, Overlaid(l, d, n))
  <1> DEFINE e == CHOOSE after : OverlaidOf(l, d, n, after)
  <1>1. OverlaidOf(l, d, n, e)
    BY OverlaidExists
  <1>2. Overlaid(l, d, n) = e[n]
    BY DEF Overlaid, OverlaidOf
  <1>3. \A k \in 0 .. n : e[k] = IF k = 0 THEN d
                                 ELSE [e[k - 1] EXCEPT ![l[k].page] = l[k].tx]
    BY <1>1 DEF OverlaidOf
  <1> HIDE DEF e
  <1> DEFINE Good(k) == /\ e[k] = [p \in P |-> e[k][p]]
                        /\ \A p \in P : \A f :
                              IsLast(l, p, k, f) =>
                                 e[k][p] = IF f = 0 THEN d[p] ELSE l[f].tx
             G == {k \in Nat : k <= n => Good(k)}
  <1>4. 0 \in G
    <2>0. 0 \in 0 .. n
      OBVIOUS
    <2>1. e[0] = d
      BY <1>3, <2>0, Zenon
    <2>2. \A p, f : IsLast(l, p, 0, f) => f = 0
      BY DEF IsLast
    <2>. QED  BY <2>1, <2>2 DEF IsTable
  <1>5. ASSUME NEW k \in G
        PROVE  k + 1 \in G
    <2> SUFFICES ASSUME k + 1 <= n
                 PROVE  Good(k + 1)
      OBVIOUS
    <2>1. Good(k) /\ k \in Nat
      OBVIOUS
    <2>2. e[k + 1] = [e[k] EXCEPT ![l[k + 1].page] = l[k + 1].tx]
      BY <1>3, <2>1
    <2>3. e[k + 1] = [p \in P |-> e[k + 1][p]]
      BY <2>1, <2>2
    <2>4. ASSUME NEW p \in P, NEW f, IsLast(l, p, k + 1, f)
          PROVE  e[k + 1][p] = IF f = 0 THEN d[p] ELSE l[f].tx
      <3>1. CASE l[k + 1].page = p
        <4>1. f = k + 1
          BY <2>1, <2>4, <3>1 DEF IsLast
        <4>. QED  BY <2>1, <2>2, <3>1, <4>1
      <3>2. CASE l[k + 1].page # p
        <4>1. f # k + 1
          BY <2>1, <2>4, <3>2 DEF IsLast
        <4>2. IsLast(l, p, k, f)
          BY <2>1, <2>4, <4>1 DEF IsLast
        <4>. QED  BY <2>1, <2>2, <3>2, <4>2
      <3>. QED  BY <3>1, <3>2
    <2>. QED  BY <2>3, <2>4
  <1> HIDE DEF Good, G
  <1>6. G = Nat
    BY <1>4, <1>5, SetInduction DEF G
  <1>7. Good(n)
    BY <1>6 DEF G
  <1>. QED  BY <1>2, <1>7 DEF Good, IsTable, ShowsLast

\* The same, page by page.
LEMMA OverlaidAt ==
    ASSUME NEW l, NEW P, NEW d, IsTable(d, P), NEW n \in Nat, NEW p \in P, NEW f,
           IsLast(l, p, n, f)
    PROVE  Overlaid(l, d, n)[p] = IF f = 0 THEN d[p] ELSE l[f].tx
  <1>1. ShowsLast(l, d, n, P, Overlaid(l, d, n))
    BY OverlaidFacts
  <1>. QED  BY <1>1 DEF ShowsLast

\* Under the same frames two files agree in every page that they agree in or
\* that one of the frames holds.
LEMMA OverlaidSame ==
    ASSUME NEW l, NEW m, NEW P, NEW d, NEW e, NEW n \in Nat,
           IsTable(d, P), IsTable(e, P),
           \A f \in 1 .. n : l[f].page = m[f].page /\ l[f].tx = m[f].tx,
           \A p \in P : d[p] = e[p] \/ \E f \in 1 .. n : l[f].page = p
    PROVE  Overlaid(l, d, n) = Overlaid(m, e, n)
  <1>1. ASSUME NEW p \in P
        PROVE  Overlaid(l, d, n)[p] = Overlaid(m, e, n)[p]
    <2>1. PICK f : IsLast(l, p, n, f)
      BY LastExists
    <2>2. IsLast(m, p, n, f)
      BY <2>1 DEF IsLast
    <2>3. Overlaid(l, d, n)[p] = IF f = 0 THEN d[p] ELSE l[f].tx
      BY <2>1, OverlaidAt
    <2>4. Overlaid(m, e, n)[p] = IF f = 0 THEN e[p] ELSE m[f].tx
      BY <2>2, OverlaidAt
    <2>5. f = 0 => d[p] = e[p]
      BY <2>1 DEF IsLast
    <2>6. f # 0 => l[f].tx = m[f].tx
      BY <2>1 DEF IsLast
    <2>. QED  BY <2>3, <2>4, <2>5, <2>6
  <1>2. IsTable(Overlaid(l, d, n), P) /\ IsTable(Overlaid(m, e, n), P)
    BY OverlaidFacts
  <1>. QED  BY <1>1, <1>2, TablesAgree

\* Without frames a page holds what is in the file.
LEMMA OverlaidNone ==
    ASSUME NEW l, NEW P, NEW d, IsTable(d, P)
    PROVE  Overlaid(l, d, 0) = d
  <1>1. \A p \in P : IsLast(l, p, 0, 0)
    BY DEF IsLast
  <1>2. \A p \in P : Overlaid(l, d, 0)[p] = d[p]
    BY SMTT(30), <1>1, OverlaidAt
  <1>3. IsTable(Overlaid(l, d, 0), P)
    BY OverlaidFacts
  <1>. QED  BY <1>2, <1>3, TablesAgree

\* The frames after the first n hold these pages as transaction t left them.
HoldsPages(l, n, pages, t) ==
    \A i \in 1 .. Len(pages) : l[n + i].page = pages[i] /\ l[n + i].tx = t

\* d with these pages replaced.
Replaced(P, d, pages, t) == [p \in P |-> IF p \in Range(pages) THEN t ELSE d[p]]

\* The frames of one transaction replace the pages they hold.
LEMMA OverlaidMore ==
    ASSUME NEW l, NEW P, NEW d, IsTable(d, P), NEW n \in Nat,
           NEW pages \in Seq(P), NEW t, HoldsPages(l, n, pages, t)
    PROVE  Overlaid(l, d, n + Len(pages)) = Replaced(P, Overlaid(l, d, n), pages, t)
  <1> DEFINE k == Len(pages)
  <1>0. /\ k \in Nat /\ n + k \in Nat
        /\ \A i \in 1 .. k : l[n + i].page = pages[i] /\ l[n + i].tx = t
    BY DEF HoldsPages
  <1>1. ASSUME NEW p \in P
        PROVE  Overlaid(l, d, n + k)[p] =
                  IF p \in Range(pages) THEN t ELSE Overlaid(l, d, n)[p]
    <2>1. PICK f : IsLast(l, p, n + k, f)
      BY <1>0, LastExists
    <2>2. Overlaid(l, d, n + k)[p] = IF f = 0 THEN d[p] ELSE l[f].tx
      BY <1>0, <2>1, OverlaidAt
    <2>3. f \in 0 .. n + k /\ (f # 0 => l[f].page = p) /\ \A g \in f + 1 .. n + k : l[g].page # p
      BY <2>1 DEF IsLast
    <2>4. CASE f > n
      <3>1. f - n \in 1 .. k /\ n + (f - n) = f
        BY <1>0, <2>3, <2>4
      <3>2. pages[f - n] = p /\ l[f].tx = t
        BY <1>0, <2>3, <3>1
      <3>3. p \in Range(pages)
        BY <1>0, <3>1, <3>2 DEF Range
      <3>. QED  BY <1>0, <2>2, <2>3, <2>4, <3>2, <3>3
    <2>5. CASE f <= n
      <3>1. IsLast(l, p, n, f)
        BY <1>0, <2>3, <2>5 DEF IsLast
      <3>2. Overlaid(l, d, n)[p] = IF f = 0 THEN d[p] ELSE l[f].tx
        BY SMTT(30), <3>1, OverlaidAt
      <3>3. ASSUME NEW i \in 1 .. k
            PROVE  pages[i] # p
        <4>1. n + i \in f + 1 .. n + k
          BY <1>0, <2>3, <2>5
        <4>2. l[n + i].page # p
          BY <2>3, <4>1
        <4>. QED  BY <1>0, <4>2
      <3>4. p \notin Range(pages)
        BY <3>3 DEF Range
      <3>. QED  BY <2>2, <3>2, <3>4
    <2>. QED  BY <1>0, <2>3, <2>4, <2>5
  <1>2. IsTable(Overlaid(l, d, n + k), P)
    BY <1>0, OverlaidFacts
  <1>3. IsTable([p \in P |-> IF p \in Range(pages) THEN t ELSE Overlaid(l, d, n)[p]], P)
    BY DEF IsTable
  <1>4. \A p \in P :
           Overlaid(l, d, n + k)[p] =
              [q \in P |-> IF q \in Range(pages) THEN t ELSE Overlaid(l, d, n)[q]][p]
    BY <1>1
  <1>. QED  BY <1>2, <1>3, <1>4, TablesAgree DEF Replaced

-----------------------------------------------------------------------------
(* How far a log holds together.                                           *)

\* Frame f continues the checksum of the frame before it.
Linked(l, f) == l[f] # Torn /\ l[f].after = IF f = 1 THEN 0 ELSE l[f - 1].tx

Chained(l, f) == \A g \in 1 .. f : Linked(l, g) /\ l[g].salt = l[1].salt

Commits(l) == {f \in DOMAIN l : Chained(l, f) /\ l[f].commit}

\* The last commit of the chain the log begins with, whatever its header says.
EndOf(l) == Max({0} \cup Commits(l))

\* It is what its name says, and nothing else is.
LEMMA EndOfFacts ==
    ASSUME NEW l, Len(l) \in Nat, DOMAIN l = 1 .. Len(l)
    PROVE  /\ EndOf(l) \in 0 .. Len(l)
           /\ EndOf(l) # 0 => EndOf(l) \in Commits(l)
           /\ \A f \in Commits(l) : f <= EndOf(l)
           /\ \A e \in Nat : (e = 0 \/ e \in Commits(l)) /\ (\A f \in Commits(l) : f <= e)
                                => EndOf(l) = e
  <1>1. Commits(l) \subseteq 1 .. Len(l)
    BY DEF Commits
  <1> DEFINE S == {0} \cup Commits(l)
  <1>2. S \subseteq 0 .. Len(l) /\ S # {}
    BY <1>1
  <1> HIDE DEF S
  <1>3. Max(S) \in S /\ \A y \in S : y <= Max(S)
    BY <1>2, MaxOfFrames
  <1>4. EndOf(l) = Max(S)
    BY DEF EndOf, S
  <1>5. EndOf(l) \in S /\ \A f \in Commits(l) : f <= EndOf(l)
    BY <1>3, <1>4 DEF S
  <1>6. ASSUME NEW e \in Nat, e = 0 \/ e \in Commits(l), \A f \in Commits(l) : f <= e
        PROVE  EndOf(l) = e
    <2>1. EndOf(l) \in Nat /\ (EndOf(l) = 0 \/ EndOf(l) \in Commits(l))
      BY <1>2, <1>5 DEF S
    <2>2. e <= EndOf(l)
      BY <1>5, <1>6, <2>1
    <2>3. EndOf(l) <= e
      BY <1>6, <2>1
    <2>. QED  BY <2>1, <2>2, <2>3
  <1>. QED  BY <1>2, <1>5, <1>6 DEF S

\* What recovery takes for the last commit is the end of the log or, if the
\* header belongs to another log, nothing.
LEMMA LastCommitIsEnd ==
    ASSUME LogTypes
    PROVE  LastCommit = IF logHdr # 0 /\ 1 \in DOMAIN log /\ log[1].salt = logHdr
                        THEN EndOf(log) ELSE 0
  <1>0. Len(log) \in Nat /\ DOMAIN log = 1 .. Len(log)
    BY DEF LogTypes
  <1> DEFINE C == {f \in ValidFrames : log[f].commit}
  <1>1. LastCommit = Max({0} \cup C)
    BY Zenon DEF LastCommit
  <1>2. CASE logHdr # 0 /\ 1 \in DOMAIN log /\ log[1].salt = logHdr
    <2>1. ASSUME NEW f \in DOMAIN log
          PROVE  Valid(f) <=> Chained(log, f)
      <3>1. Valid(f) => Chained(log, f)
        BY <1>0, <1>2 DEF Valid, Chained, Linked
      <3>2. Chained(log, f) => Valid(f)
        BY <1>0, <1>2 DEF Valid, Chained, Linked
      <3>. QED  BY <3>1, <3>2
    <2>2. C = Commits(log)
      BY <1>2, <2>1 DEF ValidFrames, Commits
    <2>. QED  BY <1>1, <1>2, <2>2 DEF EndOf
  <1>3. CASE ~(logHdr # 0 /\ 1 \in DOMAIN log /\ log[1].salt = logHdr)
    <2>1. ASSUME NEW f \in ValidFrames
          PROVE  FALSE
      <3>1. logHdr # 0 /\ f \in 1 .. Len(log) /\ Valid(f)
        BY <1>0 DEF ValidFrames
      <3>2. 1 \in 1 .. f
        BY <1>0, <3>1
      <3>3. log[1].salt = logHdr
        BY <3>1, <3>2 DEF Valid
      <3>. QED  BY <1>0, <1>3, <3>1, <3>2, <3>3
    <2>2. C = {}
      BY <2>1
    <2>3. {0} \cup C \subseteq 0 .. 0 /\ {0} \cup C # {}
      BY <2>2
    <2>4. Max({0} \cup C) \in {0} \cup C
      BY <2>3, MaxOfFrames
    <2>. QED  BY <1>1, <1>3, <2>2, <2>4
  <1>. QED  BY <1>2, <1>3

\* After a first n frames that end with a commit come k more, the last of them
\* a commit or none, and nothing that continues those.
EndsWith(l, n, k, last) ==
    /\ n + k <= Len(l)
    /\ n > 0 => Chained(l, n) /\ l[n].commit
    /\ \A i \in 1 .. k : /\ Linked(l, n + i) /\ l[n + i].salt = l[1].salt
                         /\ l[n + i].commit <=> (last /\ i = k)
    /\ last => k > 0
    /\ n + k + 1 <= Len(l) => ~Linked(l, n + k + 1)

\* The log ends with those k if they end with a commit, else before them.
LEMMA WrittenEnd ==
    ASSUME NEW l, Len(l) \in Nat, DOMAIN l = 1 .. Len(l),
           NEW n \in Nat, NEW k \in Nat, NEW last \in BOOLEAN, EndsWith(l, n, k, last)
    PROVE  EndOf(l) = IF last THEN n + k ELSE n
  <1> USE DEF EndsWith
  <1> DEFINE e == IF last THEN n + k ELSE n
  <1>1. ASSUME NEW f \in Commits(l)
        PROVE  f <= e
    <2>1. f \in 1 .. Len(l) /\ Chained(l, f) /\ l[f].commit
      BY DEF Commits
    <2>2. f <= n + k
      <3> SUFFICES ASSUME f > n + k
                   PROVE  FALSE
        BY <2>1
      <3>1. n + k + 1 \in 1 .. f /\ n + k + 1 <= Len(l)
        BY <2>1
      <3>2. Linked(l, n + k + 1)
        BY <2>1, <3>1 DEF Chained
      <3>. QED  BY <3>1, <3>2
    <2>3. CASE f <= n
      BY <2>1, <2>3
    <2>4. CASE f > n
      <3>1. f - n \in 1 .. k /\ n + (f - n) = f
        BY <2>1, <2>2, <2>4
      <3>2. last
        BY <2>1, <3>1
      <3>. QED  BY <2>2, <3>2
    <2>. QED  BY <2>1, <2>3, <2>4
  <1>2. e = 0 \/ e \in Commits(l)
    <2>1. CASE last
      <3>1. n + k \in DOMAIN l /\ l[n + k].commit
        <4>1. k \in 1 .. k /\ n + k \in 1 .. Len(l)
          BY <2>1
        <4>. QED  BY <2>1, <4>1
      <3>2. ASSUME NEW g \in 1 .. n + k
            PROVE  Linked(l, g) /\ l[g].salt = l[1].salt
        <4>1. CASE g <= n
          BY <4>1 DEF Chained
        <4>2. CASE g > n
          <5>1. g - n \in 1 .. k /\ n + (g - n) = g
            BY <4>2
          <5>. QED  BY <5>1
        <4>. QED  BY <4>1, <4>2
      <3>. QED  BY <2>1, <3>1, <3>2 DEF Commits, Chained
    <2>2. CASE ~last
      BY <2>2 DEF Commits
    <2>. QED  BY <2>1, <2>2
  <1>3. e \in Nat
    OBVIOUS
  <1> HIDE DEF e
  <1>4. EndOf(l) = e
    BY <1>1, <1>2, <1>3, EndOfFacts
  <1>. QED  BY <1>4 DEF e

-----------------------------------------------------------------------------
(* The invariant.                                                          *)

Frames == [page : Nat, tx : Nat, commit : BOOLEAN, salt : Nat, after : Nat]

\* The state is well formed, beyond what the locks depend on.
StoreTypes ==
    /\ db \in [Page -> Int] /\ txs \in 0 .. MaxTx
    /\ minFrame \in [Conn -> Nat] /\ index \in Seq(Nat)
    /\ \A f \in DOMAIN log : log[f] \in Frames

\* Pages and frames tell of transactions that have begun; and until a writer
\* has committed, only the frames it has written tell of its own.
FreshOf(c) ==
    writer = c /\ pc[c] # "committed" =>
        /\ txs > 0 /\ \A p \in Page : db[p] < txs
        /\ \A f \in DOMAIN log :
              f <= hdr[c].mxFrame \/ f > hdr[c].mxFrame + done =>
                 log[f].tx < txs /\ log[f].after < txs

Fresh ==
    /\ \A p \in Page : -1 <= db[p] /\ db[p] <= txs
    /\ \A f \in DOMAIN log : log[f].tx <= txs /\ log[f].after <= txs
    /\ \A c \in Conn : FreshOf(c)

\* What a writer has written so far.
OwnOf(c) ==
    LET n == hdr[c].mxFrame
    IN  /\ Busy(c) =>
              /\ logHdr = hdr[c].salt /\ logHdr # 0
              /\ \A i \in 1 .. done :
                    log[n + i] = Frame(todo[i], txs, i = Len(todo), logHdr,
                                       IF n + i = 1 THEN 0 ELSE log[n + i - 1].tx)
        /\ pc[c] = "frames" => done < Len(todo)
        /\ pc[c] = "header" => n = 0

Own == \A c \in Conn : OwnOf(c)

\* The log up to the header's mxFrame is what recovery would find.
Prefix ==
    live # NoHdr /\ live.mxFrame > 0 =>
        /\ logHdr = live.salt /\ logHdr # 0
        /\ Chained(log, live.mxFrame) /\ log[1].salt = logHdr
        /\ log[live.mxFrame].commit

Indexed ==
    live # NoHdr =>
        \A f \in 1 .. live.mxFrame : f \in DOMAIN index /\ index[f] = log[f].page

\* A page without a frame that remains to be copied is in the file as it
\* should be.
Backfilled ==
    live # NoHdr =>
        \A p \in Page :
            (\A f \in nBackfill + 1 .. live.mxFrame : log[f].page # p) =>
                db[p] = Overlay(live.mxFrame)[p]

\* Where the log ends, and not where its header says, lies the present state
\* or the one that a commit under way leads to.
Publishing == \E c \in Conn : pc[c] = "publish"
Ahead == [p \in Page |-> IF p \in Range(todo) THEN txs ELSE Stored[p]]
Safe == Overlay(EndOf(log)) = IF Publishing THEN Ahead ELSE Stored

LogSide ==
    /\ StoreTypes /\ Fresh /\ Own /\ Prefix /\ Indexed /\ Backfilled
    /\ Safe /\ BackfillWithinLog

\* The checkpointer has found the last frame of every page, and has copied
\* those it has no longer left.
CkptSide ==
    /\ ckpt.left \subseteq Page
    /\ ckpt.pc \in {"marks", "copy"} =>
          \A p \in Page : IsLast(log, p, ckpt.hdr.mxFrame, ckpt.iter[p])
    /\ ckpt.pc = "copy" =>
          /\ ckpt.nBackfill = nBackfill /\ nBackfill < ckpt.mxSafeFrame
          /\ \A p \in Page \ ckpt.left :
                IsCopied(ckpt.iter[p]) => db[p] = log[ckpt.iter[p]].tx

\* A reader finds what it does not look for in the log in the file.
ReaderSide(c) ==
    /\ readLock[c] > 0 /\ pc[c] # "mark" =>
          minFrame[c] > 0 /\ minFrame[c] <= nBackfill + 1
    /\ Reading(c) => hdr[c].mxFrame <= live.mxFrame
    /\ writer = c /\ pc[c] \in {"choose", "share", "mark", "verify"} =>
          nBackfill = live.mxFrame

ConnSide == \A c \in Conn : ReaderSide(c)

Inv3 == Bounds /\ LogSide /\ CkptSide /\ ConnSide

-----------------------------------------------------------------------------
(* What does not change the log.                                           *)

\* The state the log tells of depends on files and header only.
LEMMA StoredKept ==
    ASSUME UNCHANGED fileVars, live' = live
    PROVE  Stored' = Stored /\ Overlay(EndOf(log))' = Overlay(EndOf(log))
  <1>1. LastCommit' = LastCommit
    BY DEF fileVars, LastCommit, ValidFrames, Valid
  <1>2. EndOf(log') = EndOf(log)
    BY DEF fileVars
  <1>. QED  BY <1>1, <1>2 DEF fileVars, Stored, Overlay

\* Whoever takes no part in a step has written what it had.
LEMMA OthersOwn ==
    ASSUME NEW d, OwnOf(d), Same(d),
           Busy(d) => UNCHANGED <<logHdr, log, todo, done, txs>>
    PROVE  OwnOf(d)'
  <1>1. Busy(d)' <=> Busy(d)
    BY DEF Busy, Same
  <1>2. hdr'[d] = hdr[d] /\ pc'[d] = pc[d]
    BY DEF Same
  <1>3. pc[d] = "frames" => Busy(d)
    BY DEF Busy
  <1>. QED  BY <1>1, <1>2, <1>3 DEF OwnOf

\* Nor is its transaction older.
LEMMA OthersFresh ==
    ASSUME NEW d, FreshOf(d), Same(d), writer' = d => writer = d,
           writer = d => UNCHANGED <<log, db, done, txs>>
    PROVE  FreshOf(d)'
  BY DEF FreshOf, Same

\* A step of a connection that is neither committing nor starting the log
\* again, and leaves files, header, index and nBackfill alone.
LEMMA LogQuiet ==
    ASSUME LogSide, NEW c \in Conn, \A d \in Conn \ {c} : Same(d),
           UNCHANGED <<fileVars, live, nBackfill, index>>,
           txs' \in 0 .. MaxTx, txs <= txs', minFrame' \in [Conn -> Nat],
           {pc[c], pc'[c]} \cap {"publish", "restart"} = {},
           Publishing => UNCHANGED <<todo, txs>>,
           Own', \A d \in Conn : FreshOf(d)'
    PROVE  LogSide'
  <1>1. StoreTypes'
    BY DEF LogSide, StoreTypes, fileVars
  <1>2. Fresh'
    <2>1. \A p \in Page : -1 <= db'[p] /\ db'[p] <= txs'
      BY DEF LogSide, StoreTypes, Fresh, fileVars
    <2>2. \A f \in DOMAIN log' : log'[f].tx <= txs' /\ log'[f].after <= txs'
      BY DEF LogSide, StoreTypes, Fresh, Frames, fileVars
    <2>. QED  BY <2>1, <2>2 DEF Fresh
  <1>3. Prefix' /\ Indexed'
    BY DEF LogSide, Prefix, Indexed, fileVars
  <1>4. Backfilled'
    BY DEF LogSide, Backfilled, Overlay, fileVars
  <1>5. Safe'
    <2>1. Publishing' <=> Publishing
      BY DEF Publishing, Same
    <2>2. Publishing => Ahead' = Ahead
      BY StoredKept DEF Ahead
    <2>. QED  BY <2>1, <2>2, StoredKept DEF LogSide, Safe
  <1>6. BackfillWithinLog'
    <2>1. Restarting' <=> Restarting
      BY DEF Restarting, Same
    <2>. QED  BY <2>1 DEF LogSide, BackfillWithinLog
  <1>. QED  BY <1>1, <1>2, <1>3, <1>4, <1>5, <1>6 DEF LogSide

\* A connection outside a write transaction that stays outside one.
LEMMA ReaderLog ==
    ASSUME LogSide, NEW c \in Conn, \A d \in Conn \ {c} : Same(d),
           UNCHANGED <<fileVars, live, nBackfill, index, writeVars>>,
           minFrame' \in [Conn -> Nat],
           {pc[c], pc'[c]} \cap {"header", "frames", "publish", "committed", "restart"} = {},
           writer = c => hdr'[c] = hdr[c]
    PROVE  LogSide'
  <1>1. OwnOf(c)'
    BY DEF OwnOf, Busy
  <1>2. Own'
    BY <1>1, OthersOwn DEF LogSide, Own, fileVars, writeVars
  <1>3. FreshOf(c)'
    BY DEF LogSide, Fresh, FreshOf, fileVars, writeVars
  <1>4. \A d \in Conn : FreshOf(d)'
    BY <1>3, OthersFresh DEF LogSide, Fresh, fileVars, writeVars
  <1>5. txs' \in 0 .. MaxTx /\ txs <= txs' /\ UNCHANGED <<todo, txs>>
    BY DEF LogSide, StoreTypes, writeVars
  <1>. QED  BY <1>2, <1>4, <1>5, LogQuiet

\* A connection's minFrame is a frame number.
LEMMA MinFrameTypes ==
    ASSUME StoreTypes, Inv1, NEW c \in Conn, ReadStep(c) \/ WriteStep(c)
    PROVE  minFrame' \in [Conn -> Nat]
  <1>1. minFrame \in [Conn -> Nat] /\ nBackfill + 1 \in Nat
    BY DEF StoreTypes, Inv1, Types, SharedTypes
  <1>. QED  BY SMTT(90), <1>1
       DEF ReadStep, ReadHdr, IgnoreLog, CheckHdr, ChooseSlot, ShareSlot, SetMinFrame, Verify,
           EndRead, Retry, Leave, WriteStep, BeginWrite, RestartHdr, RestartInfo, KeepLog,
           WriteLogHdr, WriteFrame, Undo, PublishHdr

-----------------------------------------------------------------------------
(* The steps keep the log, the file and the index in agreement.            *)

\* Recovery finds in the files what is stored.
LEMMA RecoverLog ==
    ASSUME Inv1, LogSide, Recover, live = NoHdr, UNCHANGED <<fileVars, writeVars>>,
           minFrame' \in [Conn -> Nat], \A c \in Conn : pc'[c] \in {"idle", "retry", "choose"},
           writer = Nobody, WalAssumption
    PROVE  LogSide'
  <1>0. Len(log) \in Nat /\ DOMAIN log = 1 .. Len(log) /\ logHdr \in Nat
    BY DEF Inv1, Types, LogTypes
  <1>1. ValidFrames \subseteq 1 .. Len(log)
    BY <1>0 DEF ValidFrames
  <1>2. AnyFrame \in 0 .. Len(log) /\ \A f \in ValidFrames : f <= AnyFrame
    <2>1. {0} \cup ValidFrames \subseteq 0 .. Len(log)
      BY <1>0, <1>1
    <2>. QED  BY <1>0, <2>1, MaxOfFrames DEF AnyFrame
  <1>3. /\ LastCommit \in 0 .. Len(log)
        /\ LastCommit # 0 => LastCommit \in ValidFrames /\ log[LastCommit].commit
    <2> DEFINE C == {f \in ValidFrames : log[f].commit}
    <2>1. C \subseteq ValidFrames
      BY Zenon
    <2>2. LastCommit = Max({0} \cup C)
      BY Zenon DEF LastCommit
    <2>3. \A f \in C : f \in ValidFrames /\ log[f].commit
      BY Zenon
    <2> HIDE DEF C
    <2>4. {0} \cup C \subseteq 0 .. Len(log)
      BY <1>0, <1>1, <2>1
    <2>. QED  BY <1>0, <2>2, <2>3, <2>4, MaxOfFrames
  <1>4. /\ live' # NoHdr /\ live'.mxFrame = LastCommit /\ live'.salt = logHdr /\ nBackfill' = 0
        /\ index' = [f \in 1 .. AnyFrame |-> log[f].page]
        /\ log' = log /\ db' = db /\ logHdr' = logHdr
    BY <1>0, <1>3 DEF Recover, RecoveredHdr, Header, NoHdr, fileVars
  <1>5. StoreTypes'
    <2>1. \A f \in 1 .. AnyFrame : log[f].page \in Nat
      BY <1>0, <1>2 DEF LogSide, StoreTypes, Frames
    <2>2. index' \in [1 .. AnyFrame -> Nat] /\ AnyFrame \in Nat
      BY <1>2, <1>4, <2>1
    <2>3. index' \in Seq(Nat)
      BY <2>2, TableIsSeq
    <2>. QED  BY <1>4, <2>3 DEF LogSide, StoreTypes, writeVars
  <1>6. Fresh'
    BY <1>4 DEF LogSide, Fresh, FreshOf, writeVars, WalAssumption
  <1>7. Own'
    BY DEF Own, OwnOf, Busy
  <1>8. Prefix'
    <2> SUFFICES ASSUME LastCommit > 0
                 PROVE  /\ logHdr # 0 /\ Chained(log, LastCommit) /\ log[1].salt = logHdr
                        /\ log[LastCommit].commit
      BY <1>4 DEF Prefix
    <2>1. logHdr # 0 /\ Valid(LastCommit) /\ log[LastCommit].commit
      BY <1>3 DEF ValidFrames
    <2>2. 1 \in 1 .. LastCommit
      BY <1>3
    <2>3. log[1].salt = logHdr
      BY <2>1, <2>2 DEF Valid
    <2>4. Chained(log, LastCommit)
      BY <2>1, <2>3 DEF Valid, Chained, Linked
    <2>. QED  BY <2>1, <2>3, <2>4
  <1>9. Indexed'
    <2>1. LastCommit <= AnyFrame
      BY <1>2, <1>3
    <2>. QED  BY <1>2, <1>3, <1>4, <2>1 DEF Indexed
  <1>10. IsTable(db, Page)
    BY DEF LogSide, StoreTypes, IsTable
  <1>11. Backfilled'
    <2> SUFFICES ASSUME NEW p \in Page, \A f \in 1 .. LastCommit : log[f].page # p
                 PROVE  db[p] = Overlaid(log, db, LastCommit)[p]
      BY <1>4 DEF Backfilled, Overlay
    <2>1. IsLast(log, p, LastCommit, 0) /\ LastCommit \in Nat
      BY <1>3 DEF IsLast
    <2>2. Overlaid(log, db, LastCommit)[p] = IF 0 = 0 THEN db[p] ELSE log[0].tx
      BY <1>10, <2>1, OverlaidAt
    <2>. QED  BY <2>2
  <1>12. Safe'
    <2>1. Stored' = Stored
      BY <1>4 DEF Stored, Overlay
    <2>2. ~Publishing /\ ~Publishing'
      BY DEF Publishing, Inv1, Control, Holds
    <2>. QED  BY <1>4, <2>1, <2>2 DEF LogSide, Safe, Overlay
  <1>13. BackfillWithinLog'
    BY <1>3, <1>4 DEF BackfillWithinLog
  <1>. QED  BY <1>5, <1>6, <1>7, <1>8, <1>9, <1>11, <1>12, <1>13 DEF LogSide

\* A step of a connection leaves the others as they are.
LEMMA StepSame ==
    ASSUME Inv1, NEW c \in Conn, ReadStep(c) \/ WriteStep(c)
    PROVE  \A d \in Conn \ {c} : Same(d)
  <1>1. CASE ReadStep(c)
    BY <1>1 DEF Same, Inv1, Types, ConnTypes, ReadStep, ReadHdr, IgnoreLog, CheckHdr,
           ChooseSlot, ShareSlot, SetMinFrame, Verify, EndRead, Retry, Leave, FirstWrite,
           connVars
  <1>2. CASE WriteStep(c)
    BY <1>2 DEF Same, Inv1, Types, ConnTypes, WriteStep, BeginWrite, RestartHdr, RestartInfo,
           KeepLog, WriteLogHdr, WriteFrame, Undo, PublishHdr, Leave
  <1>. QED  BY <1>1, <1>2

\* A writer that has not written yet has pages to write, and the log's header
\* is that of the frames it knows.
LEMMA WriterStarts ==
    ASSUME WalAssumption, Inv1, Inv2, Inv3, NEW c \in Conn, writer = c,
           pc[c] \notin {"frames", "publish", "committed"}
    PROVE  /\ live # NoHdr /\ hdr[c] = live /\ live \in Headers
           /\ done = 0 /\ todo \in Seq(Page) /\ Len(todo) > 0
           /\ live.mxFrame # 0 => logHdr = hdr[c].salt /\ logHdr # 0
  <1>1. live # NoHdr
    BY DEF Inv1, Control, Holds
  <1>2. hdr[c] = live /\ live \in Headers /\ todo # <<>>
    BY <1>1 DEF Inv2, HeadersAgree, HeaderOf, Inv1, Types, SharedTypes
  <1>3. done = 0
    <2>1. \A d \in Conn : ~Busy(d)
      BY DEF Inv1, LocksExclude, Writing, Busy
    <2>. QED  BY <2>1 DEF Inv3, Bounds, NoneWritten
  <1>4. todo \in Seq(Page) /\ Len(todo) > 0
    BY <1>2 DEF Inv1, Types, WriterTypes
  <1>5. live.mxFrame # 0 => logHdr = hdr[c].salt /\ logHdr # 0
    BY <1>1, <1>2, HeaderIsHeader DEF Inv3, LogSide, Prefix
  <1>. QED  BY <1>1, <1>2, <1>3, <1>4, <1>5

\* A read transaction changes nothing of the log, unless it has to recover.
LEMMA ReadStepLog ==
    ASSUME WalAssumption, Inv1, Inv2, Inv3, NEW c \in Conn, ReadStep(c)
    PROVE  LogSide'
  <1>1. \A d \in Conn \ {c} : Same(d)
    BY StepSame
  <1>2. /\ minFrame' \in [Conn -> Nat] /\ LogSide
        /\ pc \in [Conn -> PCs] /\ hdr \in [Conn -> Headers] /\ Nobody \notin Conn
    BY MinFrameTypes, SlotsAndConns DEF Inv3, LogSide, Inv1, Types, ConnTypes
  <1>3. writer = c => pc[c] \notin {"idle", "retry", "check", "read"}
    BY DEF Inv1, Control, Holds
  <1>4. CASE ReadHdr(c) /\ live = NoHdr
    <2>1. Recover /\ UNCHANGED <<fileVars, writeVars>> /\ writer = Nobody
      BY <1>4 DEF ReadHdr
    <2>2. \A d \in Conn : pc'[d] \in {"idle", "retry", "choose"}
      BY <1>2, <1>4 DEF Inv1, Control, Holds, ReadHdr
    <2>. QED  BY <1>2, <1>4, <2>1, <2>2, RecoverLog
  <1>5. CASE \/ ReadHdr(c) /\ live # NoHdr
             \/ IgnoreLog(c) \/ CheckHdr(c) \/ ChooseSlot(c) \/ ShareSlot(c) \/ SetMinFrame(c)
    <2>1. UNCHANGED <<fileVars, live, nBackfill, index, writeVars>>
      BY <1>5 DEF ReadHdr, IgnoreLog, CheckHdr, ChooseSlot, ShareSlot, SetMinFrame, indexVars
    <2>2. {pc[c], pc'[c]} \subseteq
             {"idle", "retry", "choose", "check", "share", "mark", "verify", "read"}
      BY <1>2, <1>5 DEF ReadHdr, IgnoreLog, CheckHdr, ChooseSlot, ShareSlot, SetMinFrame,
                        Retry, Leave
    <2>3. writer = c => hdr'[c] = hdr[c]
      BY <1>2, <1>3, <1>5 DEF ReadHdr, IgnoreLog, CheckHdr, ChooseSlot, ShareSlot,
                        SetMinFrame, Retry, UseWal
    <2>. QED  BY <1>1, <1>2, <2>1, <2>2, <2>3, ReaderLog
  <1>6. CASE Verify(c)
    <2>1. UNCHANGED <<fileVars, live, nBackfill, index, writeVars>> /\ pc[c] = "verify"
      BY <1>6 DEF Verify, indexVars
    <2>2. CASE StillValid(c) /\ writer = c
      <3>1. hdr' = hdr /\ pc'[c] = FirstWrite(c)
        BY <1>2, <1>6, <2>2 DEF Verify, UseWal
      <3>2. /\ hdr[c] = live /\ done = 0 /\ Len(todo) > 0
            /\ live.mxFrame # 0 => logHdr = hdr[c].salt /\ logHdr # 0
        BY <2>1, <2>2, WriterStarts
      <3>3. pc'[c] \in {"header", "frames"} /\ (pc'[c] = "header" <=> hdr[c].mxFrame = 0)
        BY <3>1 DEF FirstWrite
      <3>4. UNCHANGED <<logHdr, log, db, done, todo, txs, writer>>
        BY <2>1 DEF fileVars, writeVars
      <3>5. OwnOf(c)'
        BY <3>1, <3>2, <3>3, <3>4 DEF OwnOf, Busy
      <3>6. Own'
        BY <1>1, <1>2, <3>4, <3>5, OthersOwn DEF LogSide, Own
      <3>7. FreshOf(c)'
        BY <1>2, <2>1, <3>1, <3>3, <3>4 DEF LogSide, Fresh, FreshOf
      <3>8. \A d \in Conn : FreshOf(d)'
        BY <1>1, <1>2, <3>4, <3>7, OthersFresh DEF LogSide, Fresh
      <3>9. txs' \in 0 .. MaxTx /\ txs <= txs' /\ UNCHANGED <<todo, txs>>
        BY <1>2, <3>4 DEF LogSide, StoreTypes
      <3>. QED  BY <1>1, <1>2, <2>1, <3>3, <3>6, <3>8, <3>9, LogQuiet
    <2>3. CASE ~(StillValid(c) /\ writer = c)
      <3>1. pc'[c] \in {"read", "choose", "retry"}
        BY <1>2, <1>6, <2>3 DEF Verify, UseWal, Retry, Leave
      <3>2. writer = c => hdr'[c] = hdr[c]
        BY <1>6, <2>3 DEF Verify, UseWal, Retry
      <3>. QED  BY <1>1, <1>2, <2>1, <3>1, <3>2, ReaderLog
    <2>. QED  BY <2>2, <2>3
  <1>7. CASE EndRead(c)
    <2>1. /\ UNCHANGED <<fileVars, live, nBackfill, index, done, todo, txs>>
          /\ pc[c] \in {"read", "committed"} /\ pc'[c] = "idle"
          /\ writer' # c /\ \A d \in Conn \ {c} : writer' = d <=> writer = d
      BY <1>2, <1>7 DEF EndRead, Leave, indexVars
    <2>2. OwnOf(c)' /\ FreshOf(c)'
      BY <2>1 DEF OwnOf, Busy, FreshOf
    <2>3. Own'
      BY <1>1, <1>2, <2>1, <2>2, OthersOwn DEF LogSide, Own, fileVars
    <2>4. \A d \in Conn : FreshOf(d)'
      BY <1>1, <1>2, <2>1, <2>2, OthersFresh DEF LogSide, Fresh, fileVars
    <2>5. txs' \in 0 .. MaxTx /\ txs <= txs'
      BY <1>2, <2>1 DEF LogSide, StoreTypes
    <2>. QED  BY <1>1, <1>2, <2>1, <2>3, <2>4, <2>5, LogQuiet
  <1>. QED  BY <1>4, <1>5, <1>6, <1>7 DEF ReadStep

\* A write transaction begins with a number of its own, or with a writer whose
\* log has been copied and that gives up slot 0; or it is given up.
LEMMA WriterLog ==
    ASSUME WalAssumption, Inv1, Inv2, Inv3, NEW c \in Conn,
           BeginWrite(c) \/ KeepLog(c)
    PROVE  LogSide'
  <1>0. WriteStep(c)
    BY DEF WriteStep
  <1>1. \A d \in Conn \ {c} : Same(d)
    BY <1>0, StepSame
  <1>2. /\ minFrame' \in [Conn -> Nat] /\ LogSide
        /\ pc \in [Conn -> PCs] /\ hdr \in [Conn -> Headers] /\ Nobody \notin Conn
    BY <1>0, MinFrameTypes, SlotsAndConns DEF Inv3, LogSide, Inv1, Types, ConnTypes
  <1>3. CASE BeginWrite(c) /\ CanWrite(c)
    <2>1. /\ UNCHANGED <<fileVars, live, nBackfill, index, hdr>>
          /\ pc[c] = "read" /\ writer = Nobody /\ writer' = c /\ hdr[c] = live
          /\ txs < MaxTx /\ txs' = txs + 1 /\ done' = 0 /\ todo' \in WriteLists
          /\ pc'[c] \in {"write", "header", "frames"}
          /\ pc'[c] = "header" => hdr[c].mxFrame = 0
          /\ pc'[c] = "frames" => hdr[c].mxFrame # 0
      BY <1>2, <1>3 DEF BeginWrite, CanWrite, FirstWrite, indexVars
    <2>2. \A d \in Conn : ~Busy(d)
      BY <1>2, <2>1 DEF Inv1, LocksExclude, Writing, Busy
    <2>3. todo' \in Seq(Page) /\ Len(todo') > 0
      BY <2>1 DEF WalAssumption
    <2>4. live # NoHdr /\ live \in Headers
      BY <2>1 DEF Inv1, Control, Holds, Types, SharedTypes
    <2>5. live.mxFrame # 0 => logHdr = live.salt /\ logHdr # 0
      BY <1>2, <2>4, HeaderIsHeader DEF LogSide, Prefix
    <2>6. OwnOf(c)'
      BY <2>1, <2>3, <2>5 DEF OwnOf, Busy, fileVars
    <2>7. Own'
      BY <1>1, <1>2, <2>2, <2>6, OthersOwn DEF LogSide, Own
    <2>8. txs \in Nat /\ txs' \in 0 .. MaxTx /\ txs <= txs'
      BY <1>2, <2>1 DEF LogSide, StoreTypes, WalAssumption
    <2>9. FreshOf(c)'
      <3>1. /\ db \in [Page -> Int] /\ \A p \in Page : db[p] <= txs
            /\ \A f \in DOMAIN log : log[f] \in Frames /\ log[f].tx <= txs /\ log[f].after <= txs
        BY <1>2 DEF LogSide, StoreTypes, Fresh
      <3>2. /\ \A p \in Page : db[p] < txs'
            /\ \A f \in DOMAIN log : log[f].tx < txs' /\ log[f].after < txs'
        BY <2>1, <2>8, <3>1 DEF Frames
      <3>. QED  BY <2>1, <2>8, <3>2 DEF FreshOf, fileVars
    <2>10. \A d \in Conn : FreshOf(d)'
      BY <1>1, <1>2, <2>1, <2>9, OthersFresh DEF LogSide, Fresh
    <2>11. ~Publishing
      BY <2>2 DEF Publishing, Busy
    <2>. QED  BY <1>1, <1>2, <2>1, <2>7, <2>8, <2>10, <2>11, LogQuiet
  <1>4. CASE BeginWrite(c) /\ ~CanWrite(c)
    <2>1. /\ UNCHANGED <<fileVars, live, nBackfill, index, writeVars>>
          /\ pc[c] = "read" /\ pc'[c] = "idle" /\ writer # c
      BY <1>2, <1>4 DEF BeginWrite, Leave, indexVars
    <2>. QED  BY <1>1, <1>2, <2>1, ReaderLog
  <1>5. CASE KeepLog(c)
    <2>1. /\ UNCHANGED <<fileVars, live, nBackfill, index, writeVars, hdr>>
          /\ pc[c] = "write" /\ pc'[c] = "choose"
      BY <1>2, <1>5 DEF KeepLog, indexVars
    <2>. QED  BY <1>1, <1>2, <2>1, ReaderLog
  <1>. QED  BY <1>3, <1>4, <1>5

\* A log that has been copied may be started again.
LEMMA RestartHdrLog ==
    ASSUME WalAssumption, Inv1, Inv2, Inv3, NEW c \in Conn, RestartHdr(c)
    PROVE  LogSide'
  <1>0. WriteStep(c)
    BY DEF WriteStep
  <1>1. \A d \in Conn \ {c} : Same(d)
    BY <1>0, StepSame
  <1>2. /\ LogSide /\ pc \in [Conn -> PCs] /\ hdr \in [Conn -> Headers] /\ nBackfill \in Nat
    BY DEF Inv3, Inv1, Types, ConnTypes, SharedTypes
  <1>3. /\ UNCHANGED <<logHdr, log, db, nBackfill, index, minFrame, writer, todo, done, txs>>
        /\ pc[c] = "write" /\ pc'[c] = "restart" /\ hdr'[c] = live'
        /\ live' = Header(0, hdr[c].salt + 1)
    BY <1>2 DEF RestartHdr, fileVars, writeVars
  <1>4. writer = c /\ readLock[c] = 0
    BY <1>3 DEF Inv1, LocksExclude, Writing, Control, Holds
  <1>5. live # NoHdr /\ hdr[c] = live /\ live \in Headers /\ done = 0
    BY <1>3, <1>4, WriterStarts
  <1>6. nBackfill = live.mxFrame /\ live.mxFrame \in Nat
    BY <1>3, <1>4, <1>5, HeaderIsHeader DEF Inv2, HeadersAgree, HeaderOf
  <1>7. live'.mxFrame = 0 /\ live' # NoHdr
    BY <1>3 DEF Header, NoHdr
  <1>8. IsTable(db, Page)
    BY <1>2 DEF LogSide, StoreTypes, IsTable
  <1>9. Overlaid(log, db, 0) = db
    BY <1>8, OverlaidNone
  <1>10. Overlaid(log, db, live.mxFrame) = db
    <2>1. \A p \in Page : db[p] = Overlaid(log, db, live.mxFrame)[p]
      BY <1>2, <1>5, <1>6 DEF LogSide, Backfilled, Overlay
    <2>2. IsTable(Overlaid(log, db, live.mxFrame), Page)
      BY <1>6, <1>8, OverlaidFacts
    <2>. QED  BY <1>8, <2>1, <2>2, TablesAgree
  <1>11. \A d \in Conn : ~Busy(d) /\ ~Busy(d)'
    BY <1>1, <1>3, <1>4 DEF Inv1, LocksExclude, Writing, Busy, Same
  <1>12. StoreTypes'
    BY <1>2, <1>3 DEF LogSide, StoreTypes
  <1>13. Own'
    BY <1>1, <1>2, <1>3, <1>11 DEF LogSide, Own, OwnOf, Same, Busy
  <1>14. Fresh'
    <2>1. FreshOf(c)'
      <3>1. /\ txs > 0 /\ \A p \in Page : db[p] < txs
            /\ \A f \in DOMAIN log : f <= live.mxFrame \/ f > live.mxFrame + 0 =>
                  log[f].tx < txs /\ log[f].after < txs
        BY <1>2, <1>3, <1>4, <1>5 DEF LogSide, Fresh, FreshOf
      <3>2. \A f \in DOMAIN log : f \in Nat
        BY DEF Inv1, Types, LogTypes
      <3>3. \A f \in DOMAIN log : log[f].tx < txs /\ log[f].after < txs
        BY <1>6, <3>1, <3>2
      <3>. QED  BY <1>3, <3>1, <3>3 DEF FreshOf
    <2>2. \A d \in Conn : FreshOf(d)'
      BY <1>1, <1>2, <1>3, <2>1, OthersFresh DEF LogSide, Fresh
    <2>. QED  BY <1>2, <1>3, <2>2 DEF LogSide, Fresh
  <1>15. Prefix' /\ Indexed'
    BY <1>7 DEF Prefix, Indexed
  <1>16. Backfilled'
    BY <1>3, <1>7, <1>9 DEF Backfilled, Overlay
  <1>17. Safe'
    <2>1. ~Publishing /\ ~Publishing'
      BY <1>11 DEF Publishing, Busy
    <2>2. Stored = db /\ Stored' = db
      BY <1>3, <1>5, <1>7, <1>9, <1>10 DEF Stored, Overlay
    <2>. QED  BY <1>2, <1>3, <2>1, <2>2 DEF LogSide, Safe, Overlay
  <1>18. BackfillWithinLog'
    BY <1>3 DEF BackfillWithinLog, Restarting
  <1>. QED  BY <1>12, <1>13, <1>14, <1>15, <1>16, <1>17, <1>18 DEF LogSide

\* In a log started again nothing has been copied.
LEMMA RestartInfoLog ==
    ASSUME WalAssumption, Inv1, Inv2, Inv3, NEW c \in Conn, RestartInfo(c)
    PROVE  LogSide'
  <1>0. WriteStep(c)
    BY DEF WriteStep
  <1>1. \A d \in Conn \ {c} : Same(d)
    BY <1>0, StepSame
  <1>2. LogSide /\ pc \in [Conn -> PCs]
    BY DEF Inv3, Inv1, Types, ConnTypes
  <1>3. /\ UNCHANGED <<fileVars, live, index, hdr, minFrame, writeVars>>
        /\ pc[c] = "restart" /\ pc'[c] = "choose" /\ nBackfill' = 0
    BY <1>2 DEF RestartInfo
  <1>4. live # NoHdr /\ live.mxFrame = 0
    BY <1>3 DEF Inv1, Control, Holds, Inv2, HeadersAgree, HeaderOf
  <1>5. IsTable(db, Page)
    BY <1>2 DEF LogSide, StoreTypes, IsTable
  <1>6. StoreTypes' /\ Prefix' /\ Indexed'
    BY <1>2, <1>3 DEF LogSide, StoreTypes, Prefix, Indexed, fileVars, writeVars
  <1>7. Fresh'
    <2>1. FreshOf(c)'
      BY <1>2, <1>3 DEF LogSide, Fresh, FreshOf, fileVars, writeVars
    <2>2. \A d \in Conn : FreshOf(d)'
      BY <1>1, <1>2, <1>3, <2>1, OthersFresh DEF LogSide, Fresh, fileVars, writeVars
    <2>. QED  BY <1>2, <1>3, <2>2 DEF LogSide, Fresh, fileVars, writeVars
  <1>8. Own'
    <2>1. OwnOf(c)'
      BY <1>3 DEF OwnOf, Busy
    <2>. QED  BY <1>1, <1>2, <1>3, <2>1, OthersOwn DEF LogSide, Own, fileVars, writeVars
  <1>9. Backfilled'
    <2>1. Overlaid(log, db, 0) = db
      BY <1>5, OverlaidNone
    <2>. QED  BY <1>3, <1>4, <2>1 DEF Backfilled, Overlay, fileVars
  <1>10. Safe'
    <2>1. Publishing' <=> Publishing
      BY <1>1, <1>2, <1>3 DEF Publishing, Same
    <2>2. Ahead' = Ahead
      BY <1>3, StoredKept DEF Ahead, writeVars
    <2>. QED  BY <1>2, <1>3, <2>1, <2>2, StoredKept DEF LogSide, Safe
  <1>11. BackfillWithinLog'
    BY <1>3, <1>4 DEF BackfillWithinLog
  <1>. QED  BY <1>6, <1>7, <1>8, <1>9, <1>10, <1>11 DEF LogSide

\* The log's header is written when the log has no frames.
LEMMA WriteLogHdrLog ==
    ASSUME WalAssumption, Inv1, Inv2, Inv3, NEW c \in Conn, WriteLogHdr(c)
    PROVE  LogSide'
  <1>0. WriteStep(c)
    BY DEF WriteStep
  <1>1. \A d \in Conn \ {c} : Same(d)
    BY <1>0, StepSame
  <1>2. LogSide /\ pc \in [Conn -> PCs] /\ hdr \in [Conn -> Headers]
    BY DEF Inv3, Inv1, Types, ConnTypes
  <1>3. /\ UNCHANGED <<log, db, live, nBackfill, index, minFrame, writer, todo, done, txs>>
        /\ pc[c] = "header" /\ pc'[c] = "frames"
        /\ hdr' = [hdr EXCEPT ![c].salt = IF @ = 0 THEN 1 ELSE @]
        /\ logHdr' = hdr'[c].salt
    BY <1>2 DEF WriteLogHdr, indexVars, writeVars
  <1>4. hdr'[c].mxFrame = hdr[c].mxFrame /\ logHdr' # 0 /\ hdr[c].mxFrame = 0
    BY <1>2, <1>3 DEF Headers, LogSide, Own, OwnOf
  <1>5. writer = c
    BY <1>3 DEF Inv1, LocksExclude, Writing
  <1>6. live # NoHdr /\ hdr[c] = live /\ done = 0 /\ Len(todo) > 0
    BY <1>3, <1>5, WriterStarts
  <1>7. \A d \in Conn : ~Busy(d) /\ (d # c => ~Busy(d)')
    BY <1>1, <1>3, <1>5 DEF Inv1, LocksExclude, Writing, Busy, Same
  <1>8. StoreTypes'
    BY <1>2, <1>3 DEF LogSide, StoreTypes
  <1>9. Fresh'
    <2>1. FreshOf(c)'
      BY <1>2, <1>3, <1>4 DEF LogSide, Fresh, FreshOf
    <2>2. \A d \in Conn : FreshOf(d)'
      BY <1>1, <1>2, <1>3, <2>1, OthersFresh DEF LogSide, Fresh
    <2>. QED  BY <1>2, <1>3, <2>2 DEF LogSide, Fresh
  <1>10. Own'
    <2>1. OwnOf(c)'
      BY <1>3, <1>4, <1>6 DEF OwnOf, Busy
    <2>. QED  BY <1>1, <1>2, <1>7, <2>1, OthersOwn DEF LogSide, Own
  <1>11. Prefix' /\ Indexed' /\ Backfilled'
    BY <1>2, <1>3, <1>4, <1>6 DEF LogSide, Prefix, Indexed, Backfilled, Overlay
  <1>12. Safe'
    <2>1. ~Publishing /\ ~Publishing'
      BY <1>3, <1>7 DEF Publishing, Busy
    <2>2. Stored' = Stored
      BY <1>3, <1>6 DEF Stored, Overlay
    <2>. QED  BY <1>2, <1>3, <2>1, <2>2 DEF LogSide, Safe, Overlay
  <1>13. BackfillWithinLog'
    <2>1. Restarting' <=> Restarting
      BY <1>1, <1>2, <1>3 DEF Restarting, Same
    <2>. QED  BY <1>2, <1>3, <2>1 DEF LogSide, BackfillWithinLog
  <1>. QED  BY <1>8, <1>9, <1>10, <1>11, <1>12, <1>13 DEF LogSide

\* What holds while frames are written: they follow those of the header, from
\* one log, and are those of the pages to write.
LEMMA CommitFacts ==
    ASSUME WalAssumption, PageAssumption, Inv1, Inv2, Inv3, NEW c \in Conn, Busy(c)
    PROVE  /\ live # NoHdr /\ live.mxFrame \in Nat /\ hdr[c] \in Headers /\ writer = c
           /\ hdr[c].mxFrame = live.mxFrame
           /\ \A d \in Conn \ {c} : ~Busy(d)
           /\ ~Restarting /\ nBackfill \in Nat /\ nBackfill <= live.mxFrame
           /\ logHdr = hdr[c].salt /\ logHdr # 0 /\ logHdr \in Nat
           /\ todo \in Seq(Page) /\ Len(todo) \in Nat /\ Len(todo) > 0
           /\ Len(log) \in Nat /\ DOMAIN log = 1 .. Len(log)
           /\ done \in 0 .. Len(todo) /\ live.mxFrame + done <= Len(log)
           /\ pc[c] = "frames" <=> done # Len(todo)
           /\ live.mxFrame > 0 => /\ Chained(log, live.mxFrame) /\ log[1].salt = logHdr
                                  /\ log[live.mxFrame].commit
  <1>1. Writing(c) /\ writer = c
    BY DEF Busy, Writing, Inv1, LocksExclude
  <1>2. live # NoHdr /\ live \in Headers /\ hdr[c] \in Headers
    BY DEF Busy, Inv1, Control, Holds, Types, ConnTypes, SharedTypes
  <1>3. hdr[c].mxFrame = live.mxFrame /\ todo # <<>>
    BY <1>1, <1>2 DEF Busy, Inv2, HeadersAgree, HeaderOf
  <1>4. \A d \in Conn \ {c} : ~Busy(d)
    BY <1>1 DEF Inv1, LocksExclude, Writing, Busy
  <1>5. ~Restarting
    BY <1>1 DEF Busy, Restarting, Inv1, LocksExclude, Writing
  <1>6. nBackfill \in Nat /\ nBackfill <= live.mxFrame
    BY <1>2, <1>5 DEF Inv1, Types, SharedTypes, Inv3, LogSide, BackfillWithinLog
  <1>7. /\ logHdr \in Nat /\ todo \in Seq(Page) /\ done \in Nat
        /\ Len(log) \in Nat /\ DOMAIN log = 1 .. Len(log)
    BY DEF Inv1, Types, LogTypes, WriterTypes
  <1>8. Len(todo) \in Nat /\ Len(todo) > 0
    BY <1>3, <1>7
  <1>9. logHdr = hdr[c].salt /\ logHdr # 0 /\ (pc[c] = "frames" => done < Len(todo))
    BY DEF Inv3, LogSide, Own, OwnOf
  <1>10. live.mxFrame + done <= Len(log) /\ (pc[c] = "publish" => done = Len(todo))
    BY <1>3 DEF Inv3, Bounds, ConnBounds, ConnBound
  <1>11. done \in 0 .. Len(todo) /\ (pc[c] = "frames" <=> done # Len(todo))
    BY <1>7, <1>8, <1>9, <1>10 DEF Busy
  <1>12. live.mxFrame > 0 => /\ Chained(log, live.mxFrame) /\ log[1].salt = logHdr
                             /\ log[live.mxFrame].commit
    BY <1>2 DEF Inv3, LogSide, Prefix
  <1>13. live.mxFrame \in Nat
    BY <1>2, HeaderIsHeader
  <1>. QED  BY <1>1, <1>2, <1>3, <1>4, <1>5, <1>6, <1>7, <1>8, <1>9, <1>10, <1>11, <1>12, <1>13

\* The frames of a transaction, of which k have been written after the first
\* n of the log.
Written(l, n, k, pages, t, salt) ==
    \A i \in 1 .. k :
       l[n + i] = Frame(pages[i], t, i = Len(pages), salt,
                        IF n + i = 1 THEN 0 ELSE l[n + i - 1].tx)

\* They continue the log, hold the pages of the transaction, and the last of
\* all is a commit.
Continues(l, n, k, pages, t, salt) ==
    \A i \in 1 .. k :
       /\ Linked(l, n + i) /\ l[n + i].page = pages[i] /\ l[n + i].tx = t
       /\ l[n + i].salt = salt /\ (l[n + i].commit <=> i = Len(pages))

\* That follows from how they are written.
LEMMA WrittenFacts ==
    ASSUME PageAssumption, NEW l, NEW n \in Nat, NEW pages \in Seq(Page),
           NEW k \in 0 .. Len(pages), NEW t, NEW salt, Written(l, n, k, pages, t, salt)
    PROVE  Continues(l, n, k, pages, t, salt)
  <1> SUFFICES ASSUME NEW i \in 1 .. k
               PROVE  /\ Linked(l, n + i) /\ l[n + i].page = pages[i] /\ l[n + i].tx = t
                      /\ l[n + i].salt = salt /\ (l[n + i].commit <=> i = Len(pages))
    BY DEF Continues
  <1>1. l[n + i] = Frame(pages[i], t, i = Len(pages), salt,
                         IF n + i = 1 THEN 0 ELSE l[n + i - 1].tx)
    BY DEF Written
  <1>2. pages[i] \in Page /\ pages[i] # 0
    BY DEF PageAssumption
  <1>3. /\ l[n + i].page = pages[i] /\ l[n + i].tx = t /\ l[n + i].salt = salt
        /\ l[n + i].after = IF n + i = 1 THEN 0 ELSE l[n + i - 1].tx
        /\ l[n + i].commit = (i = Len(pages))
    BY <1>1 DEF Frame
  <1>4. l[n + i] # Torn
    BY <1>2, <1>3 DEF Torn, Frame
  <1>5. Linked(l, n + i)
    BY <1>3, <1>4 DEF Linked
  <1>6. l[n + i].commit <=> i = Len(pages)
    BY <1>3, Zenon
  <1>. QED  BY <1>3, <1>5, <1>6

\* The frames a connection has written are those.
LEMMA OwnWritten ==
    ASSUME NEW c \in Conn, OwnOf(c), Busy(c)
    PROVE  Written(log, hdr[c].mxFrame, done, todo, txs, logHdr)
  BY DEF OwnOf, Written

\* A frame is written behind the log that is stored.
LEMMA WriteFrameLog ==
    ASSUME WalAssumption, PageAssumption, Inv1, Inv2, Inv3, NEW c \in Conn, WriteFrame(c)
    PROVE  LogSide'
  <1>0. WriteStep(c)
    BY DEF WriteStep
  <1>1. \A d \in Conn \ {c} : Same(d)
    BY <1>0, StepSame
  <1>2. LogSide /\ pc \in [Conn -> PCs] /\ LogTypes
    BY DEF Inv3, Inv1, Types, ConnTypes
  <1> DEFINE mx == live.mxFrame
             n == mx + done + 1
             F == Frame(todo[done + 1], txs, done + 1 = Len(todo), logHdr,
                        IF n = 1 THEN 0 ELSE log[n - 1].tx)
  <1>3. pc[c] = "frames" /\ Busy(c)
    BY DEF WriteFrame, Busy
  <1>4. /\ live # NoHdr /\ mx \in Nat /\ writer = c /\ hdr[c].mxFrame = mx
        /\ \A d \in Conn \ {c} : ~Busy(d)
        /\ ~Restarting /\ logHdr = hdr[c].salt /\ logHdr # 0 /\ logHdr \in Nat
        /\ todo \in Seq(Page) /\ Len(todo) \in Nat /\ Len(log) \in Nat
        /\ DOMAIN log = 1 .. Len(log) /\ done \in 0 .. Len(todo) - 1 /\ mx + done <= Len(log)
        /\ mx > 0 => Chained(log, mx) /\ log[1].salt = logHdr /\ log[mx].commit
    BY <1>3, CommitFacts
  <1>5. /\ UNCHANGED <<logHdr, db, live, nBackfill, index, hdr, minFrame, writer, todo, txs>>
        /\ log' = WithFrame(n, F) /\ done' = done + 1
        /\ pc'[c] = IF done' = Len(todo) THEN "publish" ELSE "frames"
    BY <1>2, <1>4 DEF WriteFrame, NextFrame, indexVars
  <1>n. mx \in Nat /\ done \in Nat /\ Len(log) \in Nat /\ mx + done <= Len(log)
        /\ DOMAIN log = 1 .. Len(log)
    BY <1>4
  <1>6. n \in Nat \ {0} /\ n <= Len(log) + 1
    BY <1>n
  <1>7. /\ Len(log') = IF n > Len(log) THEN n ELSE Len(log)
        /\ DOMAIN log' = 1 .. Len(log')
        /\ log'[n] = F
        /\ \A i \in 1 .. Len(log') : i # n => log'[i] = log[i]
    BY SMTT(30), <1>2, <1>5, <1>6, WithFrameFacts
  <1>8. Len(log') \in Nat /\ n <= Len(log') /\ Len(log) <= Len(log')
    BY SMTT(30), <1>n, <1>6, <1>7
  <1>9. \A i \in DOMAIN log' : i # n => i \in DOMAIN log /\ log'[i] = log[i]
    BY <1>n, <1>6, <1>7
  <1>10. \A i \in 1 .. mx + done : i \in DOMAIN log /\ log'[i] = log[i]
    BY SMTT(30), <1>n, <1>7, <1>8
  <1>11. txs \in Nat /\ \A f \in DOMAIN log : log[f] \in Frames
    BY <1>2 DEF LogSide, StoreTypes
  <1>12. n # 1 => n - 1 \in DOMAIN log /\ log'[n - 1] = log[n - 1]
    BY <1>4, <1>10
  <1>13. F \in Frames /\ F.tx = txs /\ F.after <= txs
    <2>1. todo[done + 1] \in Nat
      <3>1. done + 1 \in 1 .. Len(todo) /\ todo \in Seq(Page)
        BY <1>4
      <3>2. todo[done + 1] \in Page
        BY <3>1
      <3>. QED  BY <3>2 DEF PageAssumption
    <2>2. n # 1 => log[n - 1].tx \in Nat /\ log[n - 1].tx <= txs
      BY <1>2, <1>11, <1>12 DEF Frames, LogSide, Fresh
    <2>. QED  BY <1>4, <1>11, <2>1, <2>2 DEF Frames, Frame
  <1>14. Written(log', mx, done', todo, txs, logHdr)
    <2>1. Written(log, mx, done, todo, txs, logHdr)
      BY <1>2, <1>3, <1>4, OwnWritten DEF LogSide, Own
    <2> SUFFICES ASSUME NEW i \in 1 .. done + 1
                 PROVE  log'[mx + i] = Frame(todo[i], txs, i = Len(todo), logHdr,
                                             IF mx + i = 1 THEN 0 ELSE log'[mx + i - 1].tx)
      BY <1>5 DEF Written
    <2>2. CASE i = done + 1
      <3>1. mx + i = n
        BY <1>n, <2>2
      <3>0. mx + i - 1 = n - 1
        BY <1>n, <3>1
      <3>2. n # 1 => log'[mx + i - 1] = log[n - 1]
        BY <1>12, <3>0, Zenon
      <3>. QED  BY <1>7, <2>2, <3>1, <3>2
    <2>3. CASE i # done + 1
      <3>1. i \in 1 .. done
        BY <1>n, <2>3
      <3>2. log[mx + i] = Frame(todo[i], txs, i = Len(todo), logHdr,
                                IF mx + i = 1 THEN 0 ELSE log[mx + i - 1].tx)
        BY <2>1, <3>1 DEF Written
      <3>3. mx + i \in 1 .. mx + done /\ (mx + i # 1 => mx + i - 1 \in 1 .. mx + done)
        BY <1>n, <3>1
      <3>4. log'[mx + i] = log[mx + i] /\ (mx + i # 1 => log'[mx + i - 1] = log[mx + i - 1])
        BY <1>10, <3>3, Zenon
      <3>. QED  BY <3>2, <3>4
    <2>. QED  BY <2>2, <2>3
  <1>15. StoreTypes'
    BY ZenonT(60), <1>2, <1>5, <1>7, <1>9, <1>11, <1>13 DEF LogSide, StoreTypes
  <1>16. Fresh'
    <2>1. \A f \in DOMAIN log' : log'[f].tx <= txs /\ log'[f].after <= txs
      BY <1>2, <1>7, <1>9, <1>11, <1>13 DEF LogSide, Fresh
    <2>2. FreshOf(c)'
      <3>1. /\ txs > 0 /\ \A p \in Page : db[p] < txs
            /\ \A f \in DOMAIN log : f <= mx \/ f > mx + done =>
                  log[f].tx < txs /\ log[f].after < txs
        BY <1>2, <1>3, <1>4 DEF LogSide, Fresh, FreshOf
      <3>2. ASSUME NEW f \in DOMAIN log', f <= mx \/ f > mx + (done + 1)
            PROVE  log'[f].tx < txs /\ log'[f].after < txs
        <4>1. f \in Nat /\ f # n /\ (f <= mx \/ f > mx + done)
          BY <1>4, <1>7, <3>2
        <4>. QED  BY <1>9, <3>1, <4>1
      <3>. QED  BY SMTT(30), <1>4, <1>5, <3>1, <3>2 DEF FreshOf
    <2>3. \A d \in Conn \ {c} : FreshOf(d)'
      BY <1>4, <1>5 DEF FreshOf
    <2>. QED  BY <1>2, <1>5, <2>1, <2>2, <2>3 DEF LogSide, Fresh
  <1>17. Own'
    <2>1. OwnOf(c)'
      <3>1. done' < Len(todo) \/ pc'[c] = "publish"
        BY <1>4, <1>5
      <3>2. /\ hdr'[c].mxFrame = mx /\ logHdr' = hdr'[c].salt /\ logHdr' # 0
            /\ todo' = todo /\ txs' = txs /\ logHdr' = logHdr /\ pc'[c] # "header"
        BY <1>4, <1>5
      <3>3. Written(log', hdr'[c].mxFrame, done', todo', txs', logHdr')
        BY <1>14, <3>2
      <3>4. pc'[c] = "frames" => done' < Len(todo')
        BY <3>1, <3>2
      <3>. QED  BY <3>2, <3>3, <3>4 DEF OwnOf, Written
    <2>. QED  BY <1>1, <1>2, <1>4, <2>1, OthersOwn DEF LogSide, Own
  <1>18. mx > 0 => Chained(log', mx) /\ log'[1].salt = logHdr /\ log'[mx].commit
    <2> SUFFICES ASSUME mx > 0
                 PROVE  Chained(log', mx) /\ log'[1].salt = logHdr /\ log'[mx].commit
      OBVIOUS
    <2>1. \A i \in 1 .. mx : log'[i] = log[i]
      BY <1>4, <1>10
    <2>2. log'[1] = log[1] /\ log'[mx] = log[mx]
      BY <1>4, <2>1
    <2>3. \A g \in 1 .. mx : g # 1 => log'[g - 1] = log[g - 1]
      BY SMTT(30), <1>4, <2>1
    <2>4. Chained(log', mx)
      BY SMTT(30), <1>4, <2>1, <2>2, <2>3 DEF Chained, Linked
    <2>. QED  BY <1>4, <2>2, <2>4
  <1>19. Prefix'
    BY <1>2, <1>4, <1>5, <1>18 DEF LogSide, Prefix
  <1>20. Indexed'
    BY <1>2, <1>4, <1>5, <1>10 DEF LogSide, Indexed
  <1>21. IsTable(db, Page)
    BY <1>2 DEF LogSide, StoreTypes, IsTable
  <1>22. Overlaid(log', db, mx) = Overlaid(log, db, mx)
    <2>1. \A f \in 1 .. mx : log'[f].page = log[f].page /\ log'[f].tx = log[f].tx
      BY <1>4, <1>10
    <2>. QED  BY <1>4, <1>21, <2>1, OverlaidSame
  <1>23. Backfilled'
    <2>1. \A f \in nBackfill + 1 .. mx : log'[f] = log[f]
      BY SMTT(30), <1>4, <1>10 DEF Inv1, Types, SharedTypes
    <2>. QED  BY SMTT(90), <1>2, <1>4, <1>5, <1>22, <2>1 DEF LogSide, Backfilled, Overlay
  <1>24. Continues(log', mx, done', todo, txs, logHdr)
    <2>1. done' \in 0 .. Len(todo) /\ todo \in Seq(Page) /\ mx \in Nat
      BY <1>4, <1>5
    <2> HIDE DEF mx
    <2>. QED  BY <1>14, <2>1, WrittenFacts
  <1> DEFINE last == done' = Len(todo)
  <1>25. EndOf(log') = IF last THEN mx + done' ELSE mx
    <2>1. mx + done' = n /\ done' \in Nat /\ done' > 0 /\ done' <= Len(todo)
      BY <1>4, <1>5
    <2>2. log'[1].salt = logHdr
      <3>1. CASE mx = 0
        <4>1. 1 \in 1 .. done' /\ mx + 1 = 1
          BY <2>1, <3>1
        <4>. QED  BY <1>24, <4>1 DEF Continues
      <3>2. CASE mx # 0
        BY <1>4, <1>18, <3>2
      <3>. QED  BY <3>1, <3>2
    <2>3. \A i \in 1 .. done' : /\ Linked(log', mx + i) /\ log'[mx + i].salt = log'[1].salt
                                /\ log'[mx + i].commit <=> (last /\ i = done')
      BY <1>4, <1>24, <2>1, <2>2 DEF Continues
    <2>4. mx + done' + 1 <= Len(log') => ~Linked(log', mx + done' + 1)
      <3> SUFFICES ASSUME n + 1 <= Len(log')
                   PROVE  ~Linked(log', n + 1)
        BY <2>1
      <3>1. n + 1 \in DOMAIN log /\ log'[n + 1] = log[n + 1] /\ n + 1 > mx + done /\ n + 1 # 1
        <4>1. n + 1 \in DOMAIN log' /\ n + 1 # n
          BY <1>6, <1>7
        <4>2. n + 1 > mx + done /\ n + 1 # 1
          BY <1>4, <1>6
        <4>. QED  BY <1>9, <4>1, <4>2
      <3>2. log[n + 1].after < txs
        BY <1>2, <1>3, <1>4, <3>1 DEF LogSide, Fresh, FreshOf
      <3>3. log[n + 1].after \in Nat
        BY <1>11, <3>1 DEF Frames
      <3>4. log'[n].tx = txs /\ (n + 1) - 1 = n
        BY <1>6, <1>7, <1>13
      <3>. QED  BY <1>11, <3>1, <3>2, <3>3, <3>4 DEF Linked
    <2>5. /\ last \in BOOLEAN /\ (last => done' > 0) /\ mx + done' <= Len(log')
          /\ mx \in Nat /\ DOMAIN log' = 1 .. Len(log')
          /\ mx > 0 => Chained(log', mx) /\ log'[mx].commit
      BY <1>4, <1>7, <1>8, <1>18, <2>1
    <2>6. EndsWith(log', mx, done', last)
      BY <2>3, <2>4, <2>5 DEF EndsWith
    <2>7. Len(log') \in Nat /\ done' \in Nat
      BY <1>8, <2>1
    <2> HIDE DEF last, mx
    <2>. QED  BY <2>5, <2>6, <2>7, WrittenEnd
  <1>26. Safe'
    <2>1. Publishing' <=> last
      BY <1>1, <1>2, <1>4, <1>5 DEF Publishing, Same, Busy
    <2>2. Stored' = Overlaid(log, db, mx) /\ Overlay(EndOf(log))' = Overlaid(log', db, EndOf(log'))
      BY <1>4, <1>5, <1>22 DEF Stored, Overlay
    <2>3. CASE last
      <3>1. HoldsPages(log', mx, todo, txs)
        BY <1>24, <2>3 DEF Continues, HoldsPages
      <3>2. Overlaid(log', db, mx + Len(todo)) =
               Replaced(Page, Overlaid(log', db, mx), todo, txs)
        <4>1. mx \in Nat /\ todo \in Seq(Page)
          BY <1>4
        <4> HIDE DEF mx
        <4>. QED  BY <1>21, <3>1, <4>1, OverlaidMore
      <3>3. Ahead' = Replaced(Page, Overlaid(log', db, mx), todo, txs)
        BY <1>5, <1>22, <2>2 DEF Ahead, Replaced
      <3>. QED  BY <1>25, <2>1, <2>2, <2>3, <3>2, <3>3 DEF Safe
    <2>4. CASE ~last
      BY <1>22, <1>25, <2>1, <2>2, <2>4 DEF Safe
    <2>. QED  BY <2>3, <2>4
  <1>27. BackfillWithinLog'
    <2>1. ~Restarting'
      BY <1>1, <1>2, <1>4, <1>5 DEF Restarting, Same
    <2>. QED  BY <1>2, <1>4, <1>5 DEF LogSide, BackfillWithinLog
  <1>. QED  BY <1>15, <1>16, <1>17, <1>19, <1>20, <1>23, <1>26, <1>27 DEF LogSide

\* The header commits what has been written.
LEMMA PublishHdrLog ==
    ASSUME WalAssumption, PageAssumption, Inv1, Inv2, Inv3, NEW c \in Conn, PublishHdr(c)
    PROVE  LogSide'
  <1>0. WriteStep(c)
    BY DEF WriteStep
  <1>1. \A d \in Conn \ {c} : Same(d)
    BY <1>0, StepSame
  <1>2. LogSide /\ pc \in [Conn -> PCs] /\ hdr \in [Conn -> Headers]
    BY DEF Inv3, Inv1, Types, ConnTypes
  <1> DEFINE mx == live.mxFrame
             k == Len(todo)
  <1>3. pc[c] = "publish" /\ Busy(c)
    BY DEF PublishHdr, Busy
  <1>4. /\ live # NoHdr /\ mx \in Nat /\ writer = c /\ hdr[c].mxFrame = mx /\ hdr[c] \in Headers
        /\ \A d \in Conn \ {c} : ~Busy(d)
        /\ ~Restarting /\ logHdr = hdr[c].salt /\ logHdr # 0 /\ logHdr \in Nat
        /\ todo \in Seq(Page) /\ k \in Nat /\ k > 0 /\ Len(log) \in Nat
        /\ DOMAIN log = 1 .. Len(log) /\ done = k /\ mx + k <= Len(log)
        /\ nBackfill \in Nat /\ nBackfill <= mx
        /\ mx > 0 => Chained(log, mx) /\ log[1].salt = logHdr /\ log[mx].commit
    <2>1. done = Len(todo)
      BY <1>3, CommitFacts
    <2>. QED  BY <1>3, <2>1, CommitFacts
  <1>5. /\ UNCHANGED <<logHdr, log, db, nBackfill, minFrame, writer, txs>>
        /\ index' = SubSeq(index, 1, mx) \o todo
        /\ live' = [hdr[c] EXCEPT !.mxFrame = mx + k] /\ hdr'[c] = live'
        /\ pc'[c] = "committed"
    BY <1>2, <1>4 DEF PublishHdr, fileVars
  <1>6. live'.mxFrame = mx + k /\ live'.salt = logHdr /\ mx + k \in Nat
    BY SMTT(30), <1>4, <1>5 DEF Headers
  <1>7. Continues(log, mx, k, todo, txs, logHdr)
    <2>1. Written(log, mx, k, todo, txs, logHdr)
      BY <1>2, <1>3, <1>4, OwnWritten DEF LogSide, Own
    <2>2. mx \in Nat /\ todo \in Seq(Page) /\ k \in 0 .. Len(todo)
      BY <1>4
    <2> HIDE DEF mx
    <2>. QED  BY <2>1, <2>2, WrittenFacts
  <1>8. IsTable(db, Page)
    BY <1>2 DEF LogSide, StoreTypes, IsTable
  <1>9. Overlaid(log, db, mx + k) = Replaced(Page, Overlaid(log, db, mx), todo, txs)
    <2>1. HoldsPages(log, mx, todo, txs)
      BY <1>7 DEF Continues, HoldsPages
    <2>2. mx \in Nat /\ todo \in Seq(Page)
      BY <1>4
    <2> HIDE DEF mx
    <2>. QED  BY <1>8, <2>1, <2>2, OverlaidMore
  <1>10. /\ index \in Seq(Nat) /\ mx <= Len(index)
         /\ \A f \in 1 .. mx : index[f] = log[f].page
    <2>1. index \in Seq(Nat)
      BY <1>2 DEF LogSide, StoreTypes
    <2>2. \A f \in 1 .. mx : f \in 1 .. Len(index) /\ index[f] = log[f].page
      BY <1>2, <1>4, <2>1 DEF LogSide, Indexed
    <2>3. mx <= Len(index)
      <3>1. CASE mx = 0
        BY <2>1, <3>1
      <3>2. CASE mx # 0
        <4>1. mx \in 1 .. mx
          BY <1>4, <3>2
        <4>. QED  BY <1>4, <2>1, <2>2, <4>1
      <3>. QED  BY <3>1, <3>2
    <2>. QED  BY <2>1, <2>2, <2>3
  <1>11. /\ index' \in Seq(Nat) /\ DOMAIN index' = 1 .. mx + k
         /\ \A f \in 1 .. mx + k : index'[f] = IF f <= mx THEN index[f] ELSE todo[f - mx]
    <2>1. todo \in Seq(Nat)
      BY <1>4, SeqWiden DEF PageAssumption
    <2>2. /\ SubSeq(index, 1, mx) \in Seq(Nat) /\ Len(SubSeq(index, 1, mx)) = mx
          /\ \A f \in 1 .. mx : SubSeq(index, 1, mx)[f] = index[f]
      BY SMTT(30), <1>4, <1>10
    <2> DEFINE s == SubSeq(index, 1, mx)
    <2>3. s \in Seq(Nat) /\ Len(s) = mx /\ \A f \in 1 .. mx : s[f] = index[f]
      BY <2>2
    <2>4. index' = s \o todo
      BY <1>5
    <2> HIDE DEF s
    <2>5. s \in Seq(Nat) /\ todo \in Seq(Nat)
      BY <2>1, <2>3
    <2>6. /\ s \o todo \in Seq(Nat) /\ DOMAIN (s \o todo) = 1 .. Len(s) + Len(todo)
          /\ \A f \in 1 .. Len(s) : (s \o todo)[f] = s[f]
          /\ \A f \in Len(s) + 1 .. Len(s) + Len(todo) : (s \o todo)[f] = todo[f - Len(s)]
      BY <2>5
    <2>7. ASSUME NEW f \in 1 .. mx + k
          PROVE  (s \o todo)[f] = IF f <= mx THEN index[f] ELSE todo[f - mx]
      <3>0. mx \in Nat /\ Len(todo) \in Nat /\ f \in 1 .. mx + Len(todo)
        BY <1>4
      <3> HIDE DEF mx
      <3>1. CASE f <= mx
        BY <2>3, <2>6, <3>0, <3>1
      <3>2. CASE f > mx
        <4>1. f \in Len(s) + 1 .. Len(s) + Len(todo) /\ Len(s) = mx
          BY <2>3, <3>0, <3>2
        <4>. QED  BY <2>6, <3>0, <3>2, <4>1
      <3>3. f <= mx \/ f > mx
        BY <3>0
      <3>. QED  BY <3>1, <3>2, <3>3, Zenon
    <2>. QED  BY <2>3, <2>4, <2>6, <2>7
  <1>12. StoreTypes'
    BY <1>2, <1>5, <1>11 DEF LogSide, StoreTypes
  <1>13. Fresh'
    <2>1. \A d \in Conn : FreshOf(d)'
      BY <1>4, <1>5 DEF FreshOf
    <2>. QED  BY <1>2, <1>5, <2>1 DEF LogSide, Fresh
  <1>14. Own'
    <2>1. OwnOf(c)'
      BY <1>5 DEF OwnOf, Busy
    <2>. QED  BY <1>1, <1>2, <1>4, <2>1, OthersOwn DEF LogSide, Own
  <1>15. Prefix'
    <2>1. log[1].salt = logHdr
      <3>1. CASE mx = 0
        <4>1. 1 \in 1 .. k /\ mx + 1 = 1
          BY <1>4, <3>1
        <4>. QED  BY <1>7, <4>1 DEF Continues
      <3>2. CASE mx # 0
        BY <1>4, <3>2
      <3>. QED  BY <3>1, <3>2
    <2>2. ASSUME NEW g \in 1 .. mx + k
          PROVE  Linked(log, g) /\ log[g].salt = log[1].salt
      <3>1. CASE g <= mx
        BY <1>4, <3>1 DEF Chained
      <3>2. CASE g > mx
        <4>1. g - mx \in 1 .. k /\ mx + (g - mx) = g
          BY <1>4, <3>2
        <4>. QED  BY <1>7, <2>1, <4>1 DEF Continues
      <3>. QED  BY <1>4, <3>1, <3>2
    <2>3. log[mx + k].commit
      <3>1. k \in 1 .. k
        BY <1>4
      <3>. QED  BY <1>7, <3>1 DEF Continues
    <2>. QED  BY <1>4, <1>5, <1>6, <2>1, <2>2, <2>3 DEF Prefix, Chained
  <1>16. Indexed'
    <2>1. ASSUME NEW f \in 1 .. mx + k
          PROVE  index'[f] = log[f].page
      <3>1. CASE f <= mx
        BY <1>4, <1>10, <1>11, <3>1
      <3>2. CASE f > mx
        <4>1. f - mx \in 1 .. k /\ mx + (f - mx) = f
          BY <1>4, <3>2
        <4>2. log[mx + (f - mx)].page = todo[f - mx]
          BY <1>7, <4>1 DEF Continues
        <4>3. index'[f] = todo[f - mx]
          BY <1>4, <1>11, <3>2
        <4>4. log[f].page = todo[f - mx]
          <5>1. mx + (f - mx) = f
            BY <4>1
          <5>. QED  BY <4>2, <5>1, Zenon
        <4>. QED  BY <4>3, <4>4
      <3>. QED  BY <1>4, <3>1, <3>2
    <2>. QED  BY <1>5, <1>6, <1>11, <2>1 DEF Indexed
  <1>17. Backfilled'
    <2> SUFFICES ASSUME NEW p \in Page, \A f \in nBackfill + 1 .. mx + k : log[f].page # p
                 PROVE  db[p] = Overlaid(log, db, mx + k)[p]
      BY <1>5, <1>6 DEF Backfilled, Overlay
    <2>1. db[p] = Overlaid(log, db, mx)[p]
      <3>1. \A f \in nBackfill + 1 .. mx : log[f].page # p
        BY <1>4
      <3>. QED  BY <1>2, <1>4, <3>1 DEF LogSide, Backfilled, Overlay
    <2>2. p \notin Range(todo)
      <3>1. ASSUME NEW i \in 1 .. k
            PROVE  todo[i] # p
        <4>1. mx + i \in nBackfill + 1 .. mx + k
          BY <1>4
        <4>. QED  BY <1>7, <4>1 DEF Continues
      <3>. QED  BY <1>4, <3>1 DEF Range
    <2>. QED  BY <1>9, <2>1, <2>2 DEF Replaced
  <1>18. Safe'
    <2>1. ~Publishing' /\ Publishing
      <3>1. \A d \in Conn \ {c} : pc'[d] # "publish"
        BY <1>1, <1>4 DEF Same, Busy
      <3>. QED  BY <1>3, <1>5, <3>1 DEF Publishing
    <2>2. Stored = Overlaid(log, db, mx)
      BY <1>4 DEF Stored, Overlay
    <2>3. Ahead = Overlaid(log, db, mx + k)
      BY <1>9, <2>2 DEF Ahead, Replaced
    <2>4. Overlay(EndOf(log)) = Ahead
      BY <1>2, <2>1 DEF LogSide, Safe
    <2>5. Stored' = Overlaid(log, db, mx + k)
      <3>1. live'.mxFrame # -1
        BY <1>6
      <3>2. live' # NoHdr
        BY <3>1 DEF NoHdr, Header
      <3>. QED  BY <1>5, <1>6, <3>2 DEF Stored, Overlay
    <2>. QED  BY <1>5, <2>1, <2>3, <2>4, <2>5 DEF Safe, Overlay
  <1>19. BackfillWithinLog'
    BY <1>4, <1>5, <1>6 DEF BackfillWithinLog
  <1>. QED  BY <1>12, <1>13, <1>14, <1>15, <1>16, <1>17, <1>18, <1>19 DEF LogSide

\* The next page to copy is one of those left.
LEMMA NextPage ==
    ASSUME PageAssumption, ckpt.left \subseteq Page, ckpt.left # {}
    PROVE  Min(ckpt.left) \in ckpt.left
  <1>1. ckpt.left \subseteq Nat
    BY DEF PageAssumption
  <1>2. \E x \in ckpt.left : \A y \in ckpt.left : x <= y
    BY <1>1, LeastExists
  <1>. QED  BY <1>2 DEF Min

\* A page that the checkpointer copies is the last of its frames, which was
\* not in the file and is in every reader's log.
LEMMA CopiedFrame ==
    ASSUME Inv1, Inv2, Inv3, ckpt.pc = "copy", NEW p \in Page, IsCopied(ckpt.iter[p])
    PROVE  LET f == ckpt.iter[p]
           IN  f \in nBackfill + 1 .. live.mxFrame /\ log[f].page = p
  <1> DEFINE f == ckpt.iter[p]
  <1>1. IsLast(log, p, ckpt.hdr.mxFrame, f) /\ ckpt.nBackfill = nBackfill
    BY DEF Inv3, CkptSide
  <1>2. /\ ckpt.hdr.mxFrame \in Nat /\ ckpt.mxSafeFrame \in Nat /\ nBackfill \in Nat
        /\ live # NoHdr /\ live \in Headers /\ ckpt.hdr \in Headers
    BY HeaderIsHeader DEF Inv1, Types, CkptTypes, SharedTypes, Control
  <1>3. ckpt.mxSafeFrame <= ckpt.hdr.mxFrame /\ ckpt.hdr.mxFrame <= live.mxFrame
    BY DEF Inv2, CkptKnows
  <1>4. live.mxFrame \in Nat
    BY <1>2, HeaderIsHeader
  <1>5. f > nBackfill /\ f <= ckpt.mxSafeFrame /\ f \in Nat
    BY <1>1, <1>2 DEF IsCopied, IsLast
  <1>6. f # 0 /\ log[f].page = p
    BY <1>1, <1>2, <1>5 DEF IsLast
  <1>. QED  BY <1>2, <1>3, <1>4, <1>5, <1>6

\* Replaced in the file are pages that remain to be copied.
ToCopy(p, tx) ==
    \E f \in nBackfill + 1 .. live.mxFrame : log[f].page = p /\ tx \in {log[f].tx, TornPage}

\* To replace them changes nothing of what is stored.
LEMMA CopyLog ==
    ASSUME Inv1, Inv2, Inv3, live # NoHdr,
           UNCHANGED <<logHdr, log, live, index, nBackfill, connVars, writeVars>>,
           db' \in [Page -> Int], \A p \in Page : db'[p] = db[p] \/ ToCopy(p, db'[p]),
           minFrame' = minFrame
    PROVE  LogSide'
  <1> DEFINE mx == live.mxFrame
  <1>1. LogSide /\ Inv2
    BY DEF Inv3
  <1>2. mx \in Nat /\ nBackfill \in Nat /\ Len(log) \in Nat /\ DOMAIN log = 1 .. Len(log)
    BY HeaderIsHeader DEF Inv1, Types, SharedTypes, LogTypes
  <1>3. mx <= Len(log)
    BY DEF Inv3, Bounds, SharedBounds
  <1>4. UNCHANGED <<pc, hdr, readLock, slot, writer, todo, done, txs>>
    BY DEF connVars, writeVars
  <1>5. /\ db \in [Page -> Int] /\ txs \in Nat
        /\ \A f \in DOMAIN log : log[f].tx \in Nat
    BY <1>1 DEF LogSide, StoreTypes, Frames
  <1>6. ASSUME NEW p \in Page, db'[p] # db[p]
        PROVE  \E f \in 1 .. mx : /\ f \in DOMAIN log /\ f > nBackfill /\ log[f].page = p
                                  /\ db'[p] = log[f].tx \/ db'[p] = -1
    BY <1>2, <1>3, <1>6 DEF ToCopy, TornPage
  <1>7. StoreTypes'
    BY <1>1, <1>4 DEF LogSide, StoreTypes
  <1>8. Fresh'
    <2>1. ASSUME NEW p \in Page
          PROVE  -1 <= db'[p] /\ db'[p] <= txs
      <3>1. CASE db'[p] = db[p]
        BY <1>1, <3>1 DEF LogSide, Fresh
      <3>2. CASE db'[p] # db[p]
        <4>1. PICK f \in DOMAIN log : db'[p] = log[f].tx \/ db'[p] = -1
          BY <1>6, <3>2
        <4>2. log[f].tx \in Nat /\ log[f].tx <= txs
          BY <1>1, <1>5 DEF LogSide, Fresh
        <4>. QED  BY <1>5, <4>1, <4>2
      <3>. QED  BY <3>1, <3>2
    <2>2. ASSUME NEW d \in Conn
          PROVE  FreshOf(d)'
      <3> SUFFICES ASSUME writer = d, pc[d] # "committed"
                   PROVE  FreshOf(d)'
        BY <1>4 DEF FreshOf
      <3>1. FreshOf(d) /\ hdr[d].mxFrame = mx
        BY <1>1 DEF LogSide, Fresh, Inv2, HeadersAgree, HeaderOf
      <3>2. \A f \in 1 .. mx : f \in DOMAIN log => log[f].tx < txs
        BY <3>1 DEF FreshOf
      <3>3. ASSUME NEW p \in Page
            PROVE  db'[p] < txs
        <4>1. CASE db'[p] = db[p]
          BY <3>1, <4>1 DEF FreshOf
        <4>2. CASE db'[p] # db[p]
          <5>1. PICK f \in 1 .. mx : f \in DOMAIN log /\ (db'[p] = log[f].tx \/ db'[p] = -1)
            BY <1>6, <4>2
          <5>. QED  BY <1>5, <3>2, <5>1
        <4>. QED  BY <4>1, <4>2
      <3>. QED  BY <1>4, <3>1, <3>3 DEF FreshOf
    <2>. QED  BY <1>1, <1>4, <2>1, <2>2 DEF LogSide, Fresh
  <1>9. Own' /\ Prefix' /\ Indexed'
    BY <1>1, <1>4 DEF LogSide, Own, OwnOf, Busy, Prefix, Indexed
  <1>10. IsTable(db, Page) /\ IsTable(db', Page)
    BY <1>5 DEF IsTable
  <1>11. ASSUME NEW n \in Nat, n >= mx
         PROVE  Overlaid(log, db', n) = Overlaid(log, db, n)
    <2>1. \A p \in Page : db'[p] = db[p] \/ \E f \in 1 .. n : log[f].page = p
      BY <1>2, <1>6, <1>11
    <2>2. \A f \in 1 .. n : log[f].page = log[f].page /\ log[f].tx = log[f].tx
      OBVIOUS
    <2>. QED  BY <1>10, <2>1, <2>2, OverlaidSame
  <1>12. EndOf(log) \in Nat /\ EndOf(log) >= mx
    <2>1. EndOf(log) \in 0 .. Len(log) /\ \A f \in Commits(log) : f <= EndOf(log)
      BY <1>2, EndOfFacts
    <2>2. mx = 0 \/ mx \in Commits(log)
      BY <1>1, <1>2, <1>3 DEF LogSide, Prefix, Commits
    <2>. QED  BY <1>2, <2>1, <2>2
  <1>13. Stored' = Stored /\ Overlay(EndOf(log))' = Overlay(EndOf(log))
    <2>1. Overlay(mx)' = Overlay(mx) /\ Overlay(EndOf(log))' = Overlay(EndOf(log))
      BY <1>2, <1>11, <1>12 DEF Overlay
    <2>. QED  BY <2>1 DEF Stored
  <1>14. Backfilled'
    <2> SUFFICES ASSUME NEW p \in Page, \A f \in nBackfill + 1 .. mx : log[f].page # p
                 PROVE  db'[p] = Overlaid(log, db', mx)[p]
      BY DEF Backfilled, Overlay
    <2>1. db'[p] = db[p]
      BY DEF ToCopy
    <2>2. db[p] = Overlaid(log, db, mx)[p]
      BY <1>1 DEF LogSide, Backfilled, Overlay
    <2>. QED  BY <1>2, <1>11, <2>1, <2>2
  <1>15. Safe'
    <2>1. (Publishing' <=> Publishing) /\ Ahead' = Ahead
      BY <1>4, <1>13 DEF Publishing, Ahead
    <2>. QED  BY <1>1, <1>13, <2>1 DEF LogSide, Safe
  <1>16. BackfillWithinLog'
    BY <1>1, <1>4 DEF LogSide, BackfillWithinLog, Restarting
  <1>. QED  BY <1>7, <1>8, <1>9, <1>14, <1>15, <1>16 DEF LogSide

\* Neither does a checkpoint.
LEMMA CkptStepLog ==
    ASSUME WalAssumption, PageAssumption, Inv1, Inv2, Inv3, CkptStep
    PROVE  LogSide'
  <1>1. UNCHANGED <<logHdr, log, connVars, writeVars, minFrame>>
    BY DEF CkptStep, CkptReadHdr, CkptTest, CkptMark, CkptLock0, CkptCopy, CkptFails, CkptDone,
           CkptUnlock, fileVars, connVars
  <1>2. LogSide /\ db \in [Page -> Int] /\ minFrame \in [Conn -> Nat] /\ ckpt.left \subseteq Page
    BY DEF Inv3, LogSide, StoreTypes, CkptSide
  <1>3. /\ \A f \in DOMAIN log : log[f].tx \in Nat
        /\ live # NoHdr => live.mxFrame \in 0 .. Len(log)
        /\ nBackfill \in Nat /\ Len(log) \in Nat /\ DOMAIN log = 1 .. Len(log)
    BY <1>2, HeaderIsHeader DEF LogSide, StoreTypes, Frames, Inv3, Bounds, SharedBounds,
       Inv1, Types, SharedTypes, LogTypes
  <1>4. CASE CkptReadHdr /\ live = NoHdr
    <2>1. Recover /\ UNCHANGED <<fileVars, writeVars>> /\ writer = Nobody /\ minFrame' = minFrame
      BY <1>1, <1>4 DEF CkptReadHdr
    <2>2. \A d \in Conn : pc'[d] \in {"idle", "retry", "choose"}
      BY <1>1, <1>4 DEF Inv1, Control, Holds, connVars
    <2>. QED  BY <1>2, <1>4, <2>1, <2>2, RecoverLog
  <1>5. CASE \/ CkptReadHdr /\ live # NoHdr
             \/ CkptTest \/ CkptMark \/ CkptLock0 \/ CkptUnlock
    <2>1. UNCHANGED <<db, live, index, nBackfill>> /\ live # NoHdr
      BY <1>5 DEF Inv1, Control, CkptReadHdr, CkptTest, CkptMark, CkptLock0, CkptUnlock,
                  fileVars, indexVars
    <2>. QED  BY <1>1, <1>2, <2>1, CopyLog
  <1>6. CASE CkptCopy \/ CkptFails
    <2> DEFINE p == Min(ckpt.left)
               f == ckpt.iter[p]
    <2>1. /\ ckpt.pc = "copy" /\ p \in Page /\ live # NoHdr
          /\ UNCHANGED <<live, index, nBackfill>>
      BY <1>2, <1>6, NextPage DEF Inv1, Control, CkptCopy, CkptFails, indexVars
    <2>2. db' = db \/ \E tx \in {log[f].tx, TornPage} : db' = [db EXCEPT ![p] = tx] /\ IsCopied(f)
      BY <1>6 DEF CkptCopy, CkptFails, HalfCopied
    <2>3. CASE db' = db
      BY <1>1, <1>2, <2>1, <2>3, CopyLog
    <2>4. CASE db' # db
      <3>1. PICK tx \in {log[f].tx, TornPage} : db' = [db EXCEPT ![p] = tx] /\ IsCopied(f)
        BY <2>2, <2>4
      <3>2. f \in nBackfill + 1 .. live.mxFrame /\ log[f].page = p
        <4> HIDE DEF p
        <4>. QED  BY <2>1, <3>1, CopiedFrame
      <3>3. f \in DOMAIN log
        BY <1>3, <2>1, <3>2
      <3>4. tx \in Int
        BY <1>3, <3>3 DEF TornPage
      <3> HIDE DEF p, f
      <3>5. db' \in [Page -> Int] /\ \A q \in Page : q # p => db'[q] = db[q]
        BY <1>2, <3>1, <3>4
      <3>6. db'[p] = tx
        BY <1>2, <2>1, <3>1
      <3>7. ToCopy(p, db'[p])
        BY <3>1, <3>2, <3>6 DEF ToCopy
      <3>. QED  BY <1>1, <1>2, <2>1, <3>5, <3>7, CopyLog
    <2>. QED  BY <2>3, <2>4
  <1>7. CASE CkptDone
    <2> DEFINE s == ckpt.mxSafeFrame
               mx == live.mxFrame
    <2>1. /\ ckpt.pc = "copy" /\ ckpt.left = {} /\ nBackfill' = s /\ live # NoHdr
          /\ UNCHANGED <<db, live, index>>
      BY <1>7 DEF Inv1, Control, CkptDone, fileVars
    <2>2. UNCHANGED <<logHdr, log, pc, hdr, minFrame, writer, todo, done, txs>>
      BY <1>1 DEF connVars, writeVars
    <2>3. /\ s \in Nat /\ ckpt.hdr.mxFrame \in Nat /\ mx \in Nat
          /\ s <= ckpt.hdr.mxFrame /\ ckpt.hdr.mxFrame <= mx
      BY <1>3, <2>1, HeaderIsHeader DEF Inv1, Types, CkptTypes, Inv2, CkptKnows
    <2>4. StoreTypes' /\ Fresh' /\ Own' /\ Prefix' /\ Indexed'
      BY <1>2, <2>1, <2>2 DEF LogSide, StoreTypes, Fresh, FreshOf, Own, OwnOf, Busy, Prefix, Indexed
    <2>5. Stored' = Stored /\ Overlay(EndOf(log))' = Overlay(EndOf(log))
      BY <2>1, <2>2, StoredKept DEF fileVars
    <2>6. Safe'
      BY <1>2, <2>2, <2>5 DEF LogSide, Safe, Publishing, Ahead
    <2>7. BackfillWithinLog'
      BY <2>1, <2>3 DEF BackfillWithinLog
    <2>8. IsTable(db, Page)
      BY <1>2 DEF IsTable
    <2>9. Backfilled'
      <3> SUFFICES ASSUME NEW p \in Page, \A g \in s + 1 .. mx : log[g].page # p
                   PROVE  db[p] = Overlaid(log, db, mx)[p]
        BY <2>1, <2>2 DEF Backfilled, Overlay
      <3>1. PICK f : IsLast(log, p, mx, f)
        BY <2>3, LastExists
      <3>2. f \in 0 .. mx /\ (f # 0 => log[f].page = p) /\ \A g \in f + 1 .. mx : log[g].page # p
        BY <3>1 DEF IsLast
      <3>3. CASE f <= nBackfill
        <4>1. \A g \in nBackfill + 1 .. mx : log[g].page # p
          BY <1>3, <2>3, <3>2, <3>3
        <4>. QED  BY <1>2, <2>1, <4>1 DEF LogSide, Backfilled, Overlay
      <3>4. CASE f > nBackfill
        <4>1. f <= s /\ f \in Nat /\ f # 0
          BY <1>3, <2>3, <3>2, <3>4
        <4>2. IsLast(log, p, ckpt.hdr.mxFrame, ckpt.iter[p]) /\ ckpt.nBackfill = nBackfill
          BY <2>1 DEF Inv3, CkptSide
        <4>3. ckpt.iter[p] = f
          <5>1. \A g \in f + 1 .. ckpt.hdr.mxFrame : log[g].page # p
            BY <2>3, <3>2
          <5>. QED  BY <2>3, <3>2, <4>1, <4>2, <5>1 DEF IsLast
        <4>4. IsCopied(ckpt.iter[p])
          BY <3>4, <4>1, <4>2, <4>3 DEF IsCopied
        <4>5. db[p] = log[f].tx
          BY <2>1, <4>3, <4>4 DEF Inv3, CkptSide
        <4>6. Overlaid(log, db, mx)[p] = IF f = 0 THEN db[p] ELSE log[f].tx
          <5>1. mx \in Nat
            BY <2>3
          <5> HIDE DEF mx
          <5>2. ShowsLast(log, db, mx, Page, Overlaid(log, db, mx))
            BY <2>8, <5>1, OverlaidFacts
          <5>. QED  BY <3>1, <5>2 DEF ShowsLast
        <4>. QED  BY <4>1, <4>5, <4>6
      <3>. QED  BY <1>3, <3>2, <3>3, <3>4
    <2>. QED  BY <2>4, <2>6, <2>7, <2>9 DEF LogSide
  <1>. QED  BY <1>4, <1>5, <1>6, <1>7 DEF CkptStep

\* A database file in which only pages that remain to be copied differ.
CopyOf(d) ==
    /\ d \in [Page -> Int]
    /\ \A p \in Page : d[p] = db[p] \/ (live # NoHdr /\ ToCopy(p, d[p]))

\* A kill or a failed write leaves one.
LEMMA HalfCopiedFacts ==
    ASSUME PageAssumption, Inv1, Inv2, Inv3, NEW d \in HalfCopied
    PROVE  CopyOf(d)
  <1> DEFINE p == Min(ckpt.left)
  <1>1. db \in [Page -> Int] /\ ckpt.left \subseteq Page
    BY DEF Inv3, LogSide, StoreTypes, CkptSide
  <1>2. CASE d = db
    BY <1>1, <1>2 DEF CopyOf
  <1>3. CASE d # db
    <2>1. /\ ckpt.pc = "copy" /\ ckpt.left # {} /\ IsCopied(ckpt.iter[p])
          /\ d = [db EXCEPT ![p] = TornPage]
      BY <1>3 DEF HalfCopied
    <2>2. p \in Page /\ live # NoHdr
      BY <1>1, <2>1, NextPage DEF Inv1, Control
    <2> HIDE DEF p
    <2>3. ckpt.iter[p] \in nBackfill + 1 .. live.mxFrame /\ log[ckpt.iter[p]].page = p
      BY <2>1, <2>2, CopiedFrame
    <2>4. TornPage \in Int
      BY DEF TornPage
    <2>5. d \in [Page -> Int] /\ d[p] = TornPage /\ \A q \in Page : q # p => d[q] = db[q]
      BY <1>1, <2>1, <2>2, <2>4
    <2>. QED  BY <2>2, <2>3, <2>5 DEF CopyOf, ToCopy
  <1>. QED  BY <1>2, <1>3

\* The log and one more have the first n frames in common.
SameFrames(l, n) == \A f \in 1 .. n : l[f] = log[f]

\* Under the stored log, and whatever follows it, copied pages do not show.
LEMMA CopySame ==
    ASSUME Inv1, Inv3, live # NoHdr, NEW d, CopyOf(d), NEW n \in Nat, n >= live.mxFrame,
           NEW l, SameFrames(l, n)
    PROVE  Overlaid(l, d, n) = Overlaid(log, db, n)
  <1>1. live.mxFrame \in Nat /\ nBackfill \in Nat /\ db \in [Page -> Int]
    BY HeaderIsHeader DEF Inv1, Types, SharedTypes, Inv3, LogSide, StoreTypes
  <1>2. IsTable(d, Page) /\ IsTable(db, Page)
    BY <1>1 DEF CopyOf, IsTable
  <1>3. \A f \in 1 .. n : l[f].page = log[f].page /\ l[f].tx = log[f].tx
    BY DEF SameFrames
  <1>4. \A p \in Page : d[p] = db[p] \/ \E f \in 1 .. n : l[f].page = p
    <2> SUFFICES ASSUME NEW p \in Page, d[p] # db[p]
                 PROVE  \E f \in 1 .. n : l[f].page = p
      OBVIOUS
    <2>1. PICK f \in nBackfill + 1 .. live.mxFrame : log[f].page = p
      BY DEF CopyOf, ToCopy
    <2>2. f \in 1 .. n
      BY <1>1
    <2>. QED  BY <1>3, <2>1, <2>2
  <1>. QED  BY <1>2, <1>3, <1>4, OverlaidSame

\* The log's end lies behind what is stored.
LEMMA EndBehind ==
    ASSUME Inv1, Inv3, live # NoHdr
    PROVE  EndOf(log) \in Nat /\ EndOf(log) >= live.mxFrame
  <1>1. live.mxFrame \in Nat /\ Len(log) \in Nat /\ DOMAIN log = 1 .. Len(log)
    BY HeaderIsHeader DEF Inv1, Types, SharedTypes, LogTypes
  <1>2. live.mxFrame <= Len(log)
    BY DEF Inv3, Bounds, SharedBounds
  <1>3. EndOf(log) \in 0 .. Len(log) /\ \A f \in Commits(log) : f <= EndOf(log)
    BY <1>1, EndOfFacts
  <1>4. live.mxFrame = 0 \/ live.mxFrame \in Commits(log)
    BY <1>1, <1>2 DEF Inv3, LogSide, Prefix, Commits
  <1>. QED  BY <1>1, <1>3, <1>4

\* A frame that a kill or a failing write cut short ends the log.
LEMMA TornEnd ==
    ASSUME WalAssumption, PageAssumption, Inv1, Inv2, Inv3, NEW c \in Conn, pc[c] = "frames",
           NEW l, l = WithFrame(hdr[c].mxFrame + done + 1, Torn)
    PROVE  /\ EndOf(l) = live.mxFrame /\ SameFrames(l, live.mxFrame)
           /\ \A f \in 1 .. Len(l) : (f \in DOMAIN log /\ l[f] = log[f]) \/ l[f] = Torn
           /\ live.mxFrame > 0 => 1 \in DOMAIN l /\ l[1] = log[1]
  <1> DEFINE mx == live.mxFrame
             n == mx + done + 1
  <1>1. /\ mx \in Nat /\ hdr[c].mxFrame = mx /\ logHdr \in Nat
        /\ todo \in Seq(Page) /\ Len(log) \in Nat /\ DOMAIN log = 1 .. Len(log)
        /\ done \in 0 .. Len(todo) /\ done # Len(todo) /\ mx + done <= Len(log)
        /\ mx > 0 => Chained(log, mx) /\ log[1].salt = logHdr /\ log[mx].commit
    BY CommitFacts DEF Busy
  <1>2. n \in Nat \ {0} /\ n <= Len(log) + 1 /\ LogTypes
    BY <1>1 DEF Inv1, Types
  <1>3. /\ Len(l) = IF n > Len(log) THEN n ELSE Len(log)
        /\ DOMAIN l = 1 .. Len(l) /\ l[n] = Torn
        /\ \A i \in 1 .. Len(l) : i # n => l[i] = log[i]
    BY SMTT(30), <1>1, <1>2, WithFrameFacts
  <1>4. Len(l) \in Nat /\ n <= Len(l) /\ Len(log) <= Len(l)
    BY <1>1, <1>2, <1>3
  <1>5. \A i \in 1 .. mx + done : l[i] = log[i]
    <2>1. \A i \in 1 .. mx + done : i \in 1 .. Len(l) /\ i # n
      BY <1>1, <1>4
    <2>. QED  BY <1>3, <2>1
  <1>6. Continues(log, mx, done, todo, txs, logHdr)
    <2>1. Written(log, mx, done, todo, txs, logHdr)
      BY <1>1, OwnWritten DEF Inv3, LogSide, Own, Busy
    <2> HIDE DEF mx
    <2>. QED  BY <1>1, <2>1, WrittenFacts
  <1>7. EndsWith(l, mx, done, FALSE)
    <2>1. mx + done <= Len(l)
      BY <1>1, <1>4
    <2>2. ASSUME mx > 0
          PROVE  Chained(l, mx) /\ l[mx].commit /\ l[1] = log[1]
      <3>1. \A i \in 1 .. mx : l[i] = log[i]
        BY <1>1, <1>5
      <3>2. l[1] = log[1] /\ l[mx] = log[mx] /\ \A g \in 1 .. mx : g # 1 => l[g - 1] = log[g - 1]
        BY SMTT(30), <1>1, <2>2, <3>1
      <3>3. Chained(log, mx) /\ log[mx].commit /\ 1 \in 1 .. mx
        BY <1>1, <2>2
      <3>4. ASSUME NEW g \in 1 .. mx
            PROVE  Linked(l, g) /\ l[g].salt = l[1].salt
        <4>1. Linked(log, g) /\ log[g].salt = log[1].salt
          BY <3>3 DEF Chained
        <4>2. l[g] = log[g] /\ l[1] = log[1] /\ (g # 1 => l[g - 1] = log[g - 1])
          BY <3>1, <3>2
        <4>. QED  BY <4>1, <4>2 DEF Linked
      <3>. QED  BY <3>2, <3>3, <3>4 DEF Chained
    <2>3. ASSUME NEW i \in 1 .. done
          PROVE  Linked(l, mx + i) /\ l[mx + i].salt = l[1].salt /\ ~l[mx + i].commit
      <3>1. Linked(log, mx + i) /\ log[mx + i].salt = logHdr /\ ~log[mx + i].commit
        BY <1>1, <1>6 DEF Continues
      <3>2. mx + i \in 1 .. mx + done /\ (mx + i # 1 => (mx + i) - 1 \in 1 .. mx + done)
        BY SMTT(30), <1>1
      <3>3. l[mx + i] = log[mx + i] /\ (mx + i # 1 => l[(mx + i) - 1] = log[(mx + i) - 1])
        BY <1>5, <3>2, Zenon
      <3>4. Linked(l, mx + i)
        <4> DEFINE f == mx + i
        <4>1. Linked(log, f) /\ l[f] = log[f] /\ (f # 1 => l[f - 1] = log[f - 1])
          BY <3>1, <3>3, Zenon
        <4> HIDE DEF f
        <4>2. Linked(l, f)
          BY <4>1 DEF Linked
        <4>. QED  BY <4>2 DEF f
      <3>5. log[1].salt = logHdr /\ l[1] = log[1]
        <4>1. CASE mx = 0
          <5>1. 1 \in 1 .. done /\ mx + 1 = 1 /\ 1 \in 1 .. mx + done
            BY <1>1, <4>1
          <5>. QED  BY <1>5, <1>6, <5>1 DEF Continues
        <4>2. CASE mx # 0
          BY <1>1, <2>2, <4>2
        <4>. QED  BY <4>1, <4>2
      <3>. QED  BY <3>1, <3>3, <3>4, <3>5
    <2>4. ~Linked(l, n)
      BY <1>3 DEF Linked
    <2>. QED  BY <1>1, <2>1, <2>2, <2>3, <2>4 DEF EndsWith
  <1>8. EndOf(l) = mx
    <2>1. mx \in Nat /\ done \in Nat
      BY <1>1
    <2> HIDE DEF mx, n
    <2>2. EndOf(l) = IF FALSE THEN mx + done ELSE mx
      BY <1>3, <1>4, <1>7, <2>1, WrittenEnd
    <2>. QED  BY <2>2
  <1>9. \A f \in 1 .. Len(l) : (f \in DOMAIN log /\ l[f] = log[f]) \/ l[f] = Torn
    <2>1. \A f \in 1 .. Len(l) : f # n => f \in 1 .. Len(log)
      BY <1>1, <1>2, <1>3
    <2>. QED  BY <1>1, <1>3, <2>1
  <1>10. mx > 0 => 1 \in DOMAIN l /\ l[1] = log[1]
    BY <1>1, <1>3, <1>4, <1>5
  <1>. QED  BY <1>1, <1>5, <1>8, <1>9, <1>10 DEF SameFrames

\* What recovery finds where the log ends.
FindsEnd ==
    LastCommit = IF logHdr # 0 /\ 1 \in DOMAIN log /\ log[1].salt = logHdr
                 THEN EndOf(log) ELSE 0

\* It is found in the next state, too.
LEMMA FindsEndNext == (LogTypes => FindsEnd)'
  <1>1. LogTypes => FindsEnd
    BY LastCommitIsEnd DEF FindsEnd
  <1>. QED  BY <1>1, PTL

\* After a kill recovery finds the state where the log ends.
LEMMA KillStored ==
    ASSUME WalAssumption, PageAssumption, Inv1, Inv2, Inv3, Inv1', Kill
    PROVE  Stored' = Overlay(EndOf(log)) /\ Overlay(EndOf(log))' = Stored'
  <1> DEFINE mx == live.mxFrame
  <1>1. /\ db' \in HalfCopied /\ log' \in HalfWritten /\ logHdr' \in HalfHeader
        /\ live' = NoHdr
    BY DEF Kill
  <1>2. CopyOf(db') /\ db \in [Page -> Int]
    BY <1>1, HalfCopiedFacts DEF Inv3, LogSide, StoreTypes
  <1>3. /\ Stored' = Overlaid(log', db', LastCommit')
        /\ Overlay(EndOf(log))' = Overlaid(log', db', EndOf(log'))
    BY <1>1 DEF Stored, Overlay
  <1>4. LastCommit' = IF logHdr' # 0 /\ 1 \in DOMAIN log' /\ log'[1].salt = logHdr'
                      THEN EndOf(log') ELSE 0
    BY FindsEndNext DEF FindsEnd, Inv1, Types
  <1>5. (\A c \in Conn : pc[c] # "header") => logHdr' = logHdr
    BY <1>1 DEF HalfHeader
  <1>6. log' = log \/ \E c \in Conn : /\ pc[c] = "frames"
                                      /\ log' = WithFrame(hdr[c].mxFrame + done + 1, Torn)
    BY <1>1 DEF HalfWritten
  <1>7. CASE live = NoHdr
    <2>1. \A c \in Conn : pc[c] \in {"idle", "retry"}
      BY <1>7 DEF Inv1, Control, Holds
    <2>2. log' = log /\ logHdr' = logHdr /\ ~Publishing
      BY <1>5, <1>6, <2>1 DEF Publishing
    <2>3. db' = db
      BY <1>2, <1>7 DEF CopyOf
    <2>4. LastCommit' = LastCommit
      BY <2>2 DEF LastCommit, ValidFrames, Valid
    <2>. QED  BY <1>3, <1>7, <2>2, <2>3, <2>4 DEF Inv3, LogSide, Safe, Stored, Overlay
  <1>8. CASE live # NoHdr
    <2>0. /\ mx \in Nat /\ Len(log) \in Nat /\ DOMAIN log = 1 .. Len(log) /\ mx <= Len(log)
          /\ mx > 0 => logHdr # 0 /\ log[1].salt = logHdr
          /\ ~Publishing => Overlay(EndOf(log)) = Overlaid(log, db, mx)
      BY <1>8, HeaderIsHeader DEF Inv1, Types, SharedTypes, LogTypes, Inv3, Bounds,
         SharedBounds, LogSide, Prefix, Safe, Stored, Overlay
    <2>1. CASE \E c \in Conn : /\ pc[c] = "frames"
                               /\ log' = WithFrame(hdr[c].mxFrame + done + 1, Torn)
      <3>1. PICK c \in Conn : /\ pc[c] = "frames"
                              /\ log' = WithFrame(hdr[c].mxFrame + done + 1, Torn)
        BY <2>1
      <3>2. \A d \in Conn \ {c} : pc[d] # "header" /\ pc[d] # "publish"
        BY <3>1 DEF Inv1, LocksExclude, Writing
      <3>3. logHdr' = logHdr /\ ~Publishing
        BY <1>5, <3>1, <3>2 DEF Publishing
      <3>4. EndOf(log') = mx /\ SameFrames(log', mx) /\ (mx > 0 => 1 \in DOMAIN log' /\ log'[1] = log[1])
        BY <3>1, TornEnd
      <3>5. LastCommit' = mx
        BY <1>4, <2>0, <3>3, <3>4
      <3>6. Overlaid(log', db', mx) = Overlaid(log, db, mx)
        <4>1. mx \in Nat /\ mx >= live.mxFrame
          BY <2>0
        <4>. QED  BY <1>2, <1>8, <3>4, <4>1, CopySame
      <3>. QED  BY <1>3, <2>0, <3>3, <3>4, <3>5, <3>6
    <2>2. CASE log' = log
      <3>1. Overlaid(log, db', EndOf(log)) = Overlay(EndOf(log))
        <4>1. EndOf(log) \in Nat /\ EndOf(log) >= live.mxFrame
          BY <1>8, EndBehind
        <4>2. SameFrames(log, EndOf(log))
          BY DEF SameFrames
        <4>3. Overlaid(log, db', EndOf(log)) = Overlaid(log, db, EndOf(log))
          BY <1>2, <1>8, <4>1, <4>2, CopySame
        <4>. QED  BY <4>3 DEF Overlay
      <3>2. CASE LastCommit' = EndOf(log)
        BY <1>3, <2>2, <3>1, <3>2
      <3>3. CASE mx > 0
        <4>1. \A c \in Conn : pc[c] # "header"
          BY <1>8, <3>3 DEF Inv3, LogSide, Own, OwnOf, Inv1, LocksExclude, Writing, Inv2,
                            HeadersAgree, HeaderOf
        <4>2. 1 \in DOMAIN log
          BY <2>0, <3>3
        <4>. QED  BY <1>4, <1>5, <2>0, <2>2, <3>2, <3>3, <4>1, <4>2
      <3>4. CASE mx = 0 /\ Publishing
        <4>1. PICK c \in Conn : pc[c] = "publish"
          BY <3>4 DEF Publishing
        <4>2. \A d \in Conn : pc[d] # "header"
          BY <4>1 DEF Inv1, LocksExclude, Writing
        <4>3. /\ logHdr # 0 /\ todo \in Seq(Page) /\ Len(todo) > 0 /\ done = Len(todo)
              /\ hdr[c].mxFrame = 0 /\ done <= Len(log) /\ Busy(c) /\ Len(todo) \in Nat
          <5>1. Busy(c)
            BY <4>1 DEF Busy
          <5>2. done = Len(todo)
            BY <4>1, <5>1, CommitFacts
          <5>. QED  BY <3>4, <5>1, <5>2, CommitFacts
        <4>4. Continues(log, 0, done, todo, txs, logHdr)
          <5>1. Written(log, 0, done, todo, txs, logHdr)
            BY <4>3, OwnWritten DEF Inv3, LogSide, Own
          <5>2. 0 \in Nat /\ done \in 0 .. Len(todo)
            BY <4>3
          <5>. QED  BY <4>3, <5>1, <5>2, WrittenFacts
        <4>5. log[1].salt = logHdr /\ 1 \in DOMAIN log
          <5>1. 1 \in 1 .. done /\ 0 + 1 = 1
            BY <4>3
          <5>. QED  BY <2>0, <4>3, <4>4, <5>1 DEF Continues
        <4>. QED  BY <1>4, <1>5, <2>2, <3>2, <4>2, <4>3, <4>5
      <3>5. CASE mx = 0 /\ ~Publishing
        <4>1. IsTable(db, Page)
          BY <1>2 DEF IsTable
        <4>2. Overlaid(log, db, 0) = db
          BY <4>1, OverlaidNone
        <4>3. db' = db
          <5>1. nBackfill \in Nat
            BY DEF Inv1, Types, SharedTypes
          <5>2. \A p \in Page : db'[p] = db[p]
            BY <1>2, <3>5, <5>1 DEF CopyOf, ToCopy
          <5>. QED  BY <1>2, <5>2 DEF CopyOf
        <4>4. LastCommit' \in {0, EndOf(log)}
          BY <1>4, <2>2
        <4>. QED  BY <1>3, <2>0, <2>2, <3>2, <3>5, <4>2, <4>3, <4>4 DEF Overlay
      <3>. QED  BY <2>0, <3>3, <3>4, <3>5
    <2>. QED  BY <1>6, <2>1, <2>2
  <1>. QED  BY <1>7, <1>8

\* A kill leaves what is stored to be recovered.
LEMMA KillLog ==
    ASSUME WalAssumption, PageAssumption, Inv1, Inv2, Inv3, Inv1', Kill
    PROVE  LogSide'
  <1>1. /\ db' \in HalfCopied /\ log' \in HalfWritten /\ live' = NoHdr /\ nBackfill' = 0
        /\ index' = <<>> /\ writer' = Nobody /\ done' = 0 /\ txs' = txs
        /\ pc' = [c \in Conn |-> "idle"] /\ minFrame' = [c \in Conn |-> 0]
    BY DEF Kill
  <1>2. LogSide /\ txs \in Nat /\ Nobody \notin Conn
    BY SlotsAndConns DEF Inv3, LogSide, StoreTypes
  <1>3. CopyOf(db')
    BY <1>1, HalfCopiedFacts
  <1>4. \A f \in DOMAIN log' : (f \in DOMAIN log /\ log'[f] = log[f]) \/ log'[f] = Torn
    <2>1. CASE log' = log
      BY <2>1
    <2>2. CASE log' # log
      <3>1. PICK c \in Conn : /\ pc[c] = "frames"
                              /\ log' = WithFrame(hdr[c].mxFrame + done + 1, Torn)
        BY <1>1, <2>2 DEF HalfWritten
      <3>2. \A f \in 1 .. Len(log') : (f \in DOMAIN log /\ log'[f] = log[f]) \/ log'[f] = Torn
        BY <3>1, TornEnd
      <3>. QED  BY <3>2 DEF Inv1, Types, LogTypes
    <2>. QED  BY <2>1, <2>2
  <1>5. Torn \in Frames /\ Torn.tx = 0 /\ Torn.after = 0
    BY DEF Torn, Frame, Frames
  <1>6. StoreTypes'
    <2>1. \A f \in DOMAIN log' : log'[f] \in Frames
      BY <1>2, <1>4, <1>5 DEF LogSide, StoreTypes
    <2>. QED  BY <1>1, <1>2, <1>3, <2>1 DEF LogSide, StoreTypes, CopyOf
  <1>7. Fresh'
    <2>1. ASSUME NEW p \in Page
          PROVE  -1 <= db'[p] /\ db'[p] <= txs
      <3>1. CASE db'[p] = db[p]
        BY <1>2, <3>1 DEF LogSide, Fresh
      <3>2. CASE db'[p] # db[p]
        <4>1. live # NoHdr /\ ToCopy(p, db'[p])
          BY <1>3, <3>2 DEF CopyOf
        <4>2. PICK f \in nBackfill + 1 .. live.mxFrame : db'[p] = log[f].tx \/ db'[p] = -1
          BY <4>1 DEF ToCopy, TornPage
        <4>3. f \in DOMAIN log
          <5>1. /\ live.mxFrame \in Nat /\ nBackfill \in Nat /\ Len(log) \in Nat
                /\ DOMAIN log = 1 .. Len(log) /\ live.mxFrame <= Len(log)
            BY <4>1, HeaderIsHeader DEF Inv1, Types, SharedTypes, LogTypes, Inv3, Bounds,
               SharedBounds
          <5>. QED  BY <5>1
        <4>4. log[f].tx \in Nat /\ log[f].tx <= txs
          BY <1>2, <4>3 DEF LogSide, StoreTypes, Frames, Fresh
        <4>. QED  BY <1>2, <4>2, <4>4
      <3>. QED  BY <3>1, <3>2
    <2>2. \A f \in DOMAIN log' : log'[f].tx <= txs /\ log'[f].after <= txs
      BY <1>2, <1>4, <1>5 DEF LogSide, Fresh
    <2>. QED  BY <1>1, <1>2, <2>1, <2>2 DEF Fresh, FreshOf
  <1>8. Own' /\ Prefix' /\ Indexed' /\ Backfilled' /\ BackfillWithinLog'
    BY <1>1 DEF Own, OwnOf, Busy, Prefix, Indexed, Backfilled, BackfillWithinLog
  <1>9. Safe'
    <2>1. ~Publishing'
      BY <1>1 DEF Publishing
    <2>. QED  BY <2>1, KillStored DEF Safe
  <1>. QED  BY <1>6, <1>7, <1>8, <1>9 DEF LogSide

\* A write that fails leaves the committed frames and nothing that continues
\* them to a further commit.
LEMMA UndoneFrames ==
    ASSUME WalAssumption, PageAssumption, Inv1, Inv2, Inv3, NEW c \in Conn, Undo(c)
    PROVE  /\ live # NoHdr /\ live.mxFrame \in Nat /\ SameFrames(log', live.mxFrame)
           /\ log' = log \/ EndOf(log') = live.mxFrame
           /\ \A f \in DOMAIN log' : (f \in DOMAIN log /\ log'[f] = log[f]) \/ log'[f] = Torn
           /\ live.mxFrame > 0 => logHdr' = logHdr /\ log'[1] = log[1]
  <1>1. Writing(c) /\ pc[c] \in {"header", "frames"}
    BY UndoneLog DEF Undo
  <1>2. live # NoHdr /\ live.mxFrame \in Nat
    BY <1>1, HeaderIsHeader DEF Inv1, Control, Holds, Types, SharedTypes
  <1>3. live.mxFrame > 0 => logHdr' = logHdr
    <2>1. pc[c] = "header" => live.mxFrame = 0
      BY <1>1, <1>2, UndoneLog DEF Inv2, HeadersAgree, HeaderOf, Inv3, LogSide, Own, OwnOf
    <2>. QED  BY <1>2, <2>1, UndoneLog
  <1>4. CASE log' = log
    BY <1>2, <1>3, <1>4 DEF SameFrames
  <1>5. CASE log' # log
    <2>1. pc[c] = "frames" /\ log' = WithFrame(hdr[c].mxFrame + done + 1, Torn)
      BY <1>5, UndoneLog
    <2>2. /\ EndOf(log') = live.mxFrame /\ SameFrames(log', live.mxFrame)
          /\ \A f \in 1 .. Len(log') : (f \in DOMAIN log /\ log'[f] = log[f]) \/ log'[f] = Torn
          /\ live.mxFrame > 0 => log'[1] = log[1]
      BY <2>1, TornEnd
    <2>3. DOMAIN log' = 1 .. Len(log')
      BY UndoneLog
    <2>. QED  BY <1>2, <1>3, <2>2, <2>3
  <1>. QED  BY <1>4, <1>5

\* It leaves the state that was stored.
LEMMA UndoLog ==
    ASSUME WalAssumption, PageAssumption, Inv1, Inv2, Inv3, NEW c \in Conn, Undo(c)
    PROVE  LogSide'
  <1> DEFINE mx == live.mxFrame
  <1>1. /\ UNCHANGED <<db, live, nBackfill, aReadMark, index, txs>>
        /\ writer' = Nobody /\ done' = 0 /\ Leave(c, "idle") /\ pc[c] \in {"header", "frames"}
    BY DEF Undo, indexVars
  <1>2. /\ LogSide /\ txs \in Nat /\ Nobody \notin Conn /\ pc \in [Conn -> PCs]
        /\ minFrame \in [Conn -> Nat]
    BY SlotsAndConns DEF Inv3, LogSide, StoreTypes, Inv1, Types, ConnTypes
  <1>3. /\ live # NoHdr /\ mx \in Nat /\ SameFrames(log', mx)
        /\ log' = log \/ EndOf(log') = mx
        /\ \A f \in DOMAIN log' : (f \in DOMAIN log /\ log'[f] = log[f]) \/ log'[f] = Torn
        /\ mx > 0 => logHdr' = logHdr /\ log'[1] = log[1]
    BY UndoneFrames
  <1>4. \A d \in Conn : pc'[d] \notin {"restart", "header", "frames", "publish"}
    <2>1. \A d \in Conn \ {c} : ~Writing(d)
      BY UndoneLog
    <2>. QED  BY <1>1, <1>2, <2>1 DEF Leave, Writing
  <1>5. ~Publishing /\ ~Publishing' /\ ~Restarting /\ ~Restarting'
    <2>1. \A d \in Conn : pc[d] \notin {"restart", "publish"}
      BY <1>1, UndoneLog DEF Writing
    <2>. QED  BY <1>4, <2>1 DEF Publishing, Restarting
  <1>6. Torn \in Frames /\ Torn.tx = 0 /\ Torn.after = 0
    BY DEF Torn, Frame, Frames
  <1>7. StoreTypes'
    <2>1. \A f \in DOMAIN log' : log'[f] \in Frames
      BY <1>2, <1>3, <1>6 DEF LogSide, StoreTypes
    <2>2. minFrame' \in [Conn -> Nat]
      BY <1>1, <1>2 DEF Leave
    <2>. QED  BY <1>1, <1>2, <2>1, <2>2 DEF LogSide, StoreTypes
  <1>8. Fresh'
    <2>1. \A f \in DOMAIN log' : log'[f].tx <= txs /\ log'[f].after <= txs
      BY <1>2, <1>3, <1>6 DEF LogSide, Fresh
    <2>. QED  BY <1>1, <1>2, <2>1 DEF LogSide, Fresh, FreshOf
  <1>9. Own'
    BY <1>4 DEF Own, OwnOf, Busy
  <1>10. \A f \in 1 .. mx : log'[f] = log[f]
    BY <1>3 DEF SameFrames
  <1>11. Prefix'
    <2> SUFFICES ASSUME mx > 0
                 PROVE  /\ logHdr' = live.salt /\ logHdr' # 0
                        /\ Chained(log', mx) /\ log'[1].salt = logHdr' /\ log'[mx].commit
      BY <1>1 DEF Prefix
    <2>1. /\ logHdr = live.salt /\ logHdr # 0 /\ Chained(log, mx) /\ log[1].salt = logHdr
          /\ log[mx].commit
      BY <1>2, <1>3 DEF LogSide, Prefix
    <2>2. log'[1] = log[1] /\ log'[mx] = log[mx] /\ \A g \in 1 .. mx : g # 1 => log'[g - 1] = log[g - 1]
      BY SMTT(30), <1>3, <1>10
    <2>3. ASSUME NEW g \in 1 .. mx
          PROVE  Linked(log', g) /\ log'[g].salt = log'[1].salt
      <3>1. Linked(log, g) /\ log[g].salt = log[1].salt
        BY <2>1 DEF Chained
      <3>2. log'[g] = log[g] /\ log'[1] = log[1] /\ (g # 1 => log'[g - 1] = log[g - 1])
        BY <1>10, <2>2
      <3>. QED  BY <3>1, <3>2 DEF Linked
    <2>. QED  BY <1>3, <2>1, <2>2, <2>3 DEF Chained
  <1>12. Indexed'
    BY <1>1, <1>2, <1>3, <1>10 DEF LogSide, Indexed
  <1>13. Overlaid(log', db, mx) = Overlaid(log, db, mx)
    <2>1. IsTable(db, Page)
      BY <1>2 DEF LogSide, StoreTypes, IsTable
    <2>2. \A f \in 1 .. mx : log'[f].page = log[f].page /\ log'[f].tx = log[f].tx
      BY <1>10
    <2>3. mx \in Nat
      BY <1>3
    <2> HIDE DEF mx
    <2>. QED  BY <2>1, <2>2, <2>3, OverlaidSame
  <1>14. Backfilled'
    <2>1. \A f \in nBackfill + 1 .. mx : log'[f] = log[f]
      BY SMTT(30), <1>3, <1>10 DEF Inv1, Types, SharedTypes
    <2>. QED  BY SMTT(90), <1>1, <1>2, <1>3, <1>13, <2>1 DEF LogSide, Backfilled, Overlay
  <1>15. Safe'
    <2>1. Stored = Overlaid(log, db, mx) /\ Stored' = Overlaid(log', db, mx)
      BY <1>1, <1>3 DEF Stored, Overlay
    <2>2. Overlay(EndOf(log)) = Overlaid(log, db, EndOf(log)) /\ Overlay(EndOf(log)) = Stored
      BY <1>2, <1>5 DEF LogSide, Safe, Overlay
    <2>3. Overlay(EndOf(log))' = Overlaid(log', db, EndOf(log'))
      BY <1>1 DEF Overlay
    <2>. QED  BY <1>3, <1>5, <1>13, <2>1, <2>2, <2>3 DEF Safe
  <1>16. BackfillWithinLog'
    BY <1>1, <1>2, <1>5 DEF LogSide, BackfillWithinLog
  <1>. QED  BY <1>7, <1>8, <1>9, <1>11, <1>12, <1>14, <1>15, <1>16 DEF LogSide

\* So does a step that changes nothing.
LEMMA StutterLog ==
    ASSUME LogSide, UNCHANGED vars
    PROVE  LogSide'
  <1>1. UNCHANGED <<logHdr, log, db, live, nBackfill, index, pc, hdr, minFrame, writer, todo,
                    done, txs>>
    BY DEF vars, fileVars, indexVars, connVars, writeVars
  <1>2. Stored' = Stored /\ Overlay(EndOf(log))' = Overlay(EndOf(log))
    BY <1>1, StoredKept DEF fileVars
  <1>3. Safe'
    BY <1>1, <1>2 DEF LogSide, Safe, Publishing, Ahead
  <1>4. StoreTypes' /\ Fresh' /\ Own'
    BY <1>1 DEF LogSide, StoreTypes, Fresh, FreshOf, Own, OwnOf, Busy
  <1>5. Prefix' /\ Indexed' /\ Backfilled' /\ BackfillWithinLog'
    BY <1>1 DEF LogSide, Prefix, Indexed, Backfilled, Overlay, BackfillWithinLog, Restarting
  <1>. QED  BY <1>3, <1>4, <1>5 DEF LogSide

\* At the start nothing is stored but the empty pages.
LEMMA InitLog ==
    ASSUME WalAssumption, Init
    PROVE  LogSide
  <1>1. /\ log = <<>> /\ db = [p \in Page |-> 0] /\ live = NoHdr /\ nBackfill = 0 /\ index = <<>>
        /\ txs = 0 /\ minFrame = [c \in Conn |-> 0] /\ pc = [c \in Conn |-> "idle"]
        /\ logHdr = 0 /\ writer = Nobody /\ Nobody \notin Conn /\ MaxTx \in Nat
    BY DEF Init, WalAssumption
  <1>2. StoreTypes /\ Fresh /\ Own /\ Prefix /\ Indexed /\ Backfilled /\ BackfillWithinLog
    BY <1>1 DEF StoreTypes, Fresh, FreshOf, Own, OwnOf, Busy, Prefix, Indexed, Backfilled,
                BackfillWithinLog
  <1>3. LogTypes
    BY <1>1 DEF LogTypes
  <1>4. LastCommit = 0
    BY <1>1, <1>3, LastCommitIsEnd
  <1>5. EndOf(log) = 0
    <2>1. Len(log) = 0 /\ DOMAIN log = 1 .. Len(log)
      BY <1>1
    <2>. QED  BY <2>1, EndOfFacts
  <1>6. Safe
    BY <1>1, <1>4, <1>5 DEF Safe, Publishing, Stored
  <1>. QED  BY <1>2, <1>6 DEF LogSide

-----------------------------------------------------------------------------
(* The steps keep what the checkpointer knows of the log.                  *)

\* The first n frames of the log are indexed.
IndexedTo(n) == \A f \in 1 .. n : f \in DOMAIN index /\ index[f] = log[f].page

\* The last indexed frame of a page from frame lo is that of the log.
LEMMA LastFrameFacts ==
    ASSUME NEW lo \in Nat, lo > 0, NEW n \in Nat, NEW p, IndexedTo(n),
           NEW g, IsLast(log, p, n, g)
    PROVE  LastFrame(p, lo, n) = IF g >= lo THEN g ELSE 0
  <1> DEFINE S == {0} \cup {f \in lo .. n : f \in DOMAIN index /\ index[f] = p}
  <1>0. \A f \in 1 .. n : f \in DOMAIN index /\ index[f] = log[f].page
    BY DEF IndexedTo
  <1>1. S \subseteq 0 .. n /\ S # {}
    OBVIOUS
  <1>2. Max(S) \in S /\ \A y \in S : y <= Max(S)
    BY <1>1, MaxOfFrames
  <1>3. g \in 0 .. n /\ (g # 0 => log[g].page = p) /\ \A f \in g + 1 .. n : log[f].page # p
    BY DEF IsLast
  <1>4. LastFrame(p, lo, n) = Max(S)
    BY DEF LastFrame
  <1> DEFINE m == Max(S)
  <1>5. m = 0 \/ (m \in lo .. n /\ m \in 1 .. n /\ log[m].page = p)
    BY <1>0, <1>2
  <1>6. \A f \in lo .. n : log[f].page = p => f <= m
    <2>1. \A f \in lo .. n : f \in 1 .. n
      OBVIOUS
    <2>2. \A f \in lo .. n : log[f].page = p => f \in S
      BY <1>0, <2>1
    <2>. QED  BY <1>2, <2>2
  <1> HIDE DEF m, S
  <1>7. m \in Nat /\ (m # 0 => m <= g)
    BY <1>3, <1>5
  <1>8. CASE g >= lo
    <2>1. g \in lo .. n /\ log[g].page = p
      BY <1>3, <1>8
    <2>2. g <= m
      BY <1>6, <2>1
    <2>. QED  BY <1>3, <1>4, <1>7, <1>8, <2>1, <2>2 DEF m
  <1>9. CASE ~(g >= lo)
    <2>1. m = 0
      BY <1>3, <1>5, <1>7, <1>9
    <2>. QED  BY <1>4, <1>9, <2>1 DEF m
  <1>. QED  BY <1>8, <1>9

\* A step elsewhere that leaves alone the file, nBackfill and the frames it
\* knows.
LEMMA CkptKept ==
    ASSUME Inv1, CkptSide, UNCHANGED <<ckpt, db>>,
           ckpt.pc \in {"marks", "copy"} =>
              nBackfill' = nBackfill /\ \A f \in 1 .. ckpt.hdr.mxFrame : log'[f] = log[f]
    PROVE  CkptSide'
  <1>1. ckpt.hdr.mxFrame \in Nat /\ nBackfill \in Nat
    BY HeaderIsHeader DEF Inv1, Types, CkptTypes, SharedTypes
  <1>2. CASE ckpt.pc \notin {"marks", "copy"}
    BY <1>2 DEF CkptSide
  <1>3. CASE ckpt.pc \in {"marks", "copy"}
    <2>1. nBackfill' = nBackfill /\ \A f \in 1 .. ckpt.hdr.mxFrame : log'[f] = log[f]
      BY <1>3
    <2>2. \A p \in Page : IsLast(log, p, ckpt.hdr.mxFrame, ckpt.iter[p])
      BY <1>3 DEF CkptSide
    <2>3. ASSUME NEW p \in Page
          PROVE  IsLast(log', p, ckpt.hdr.mxFrame, ckpt.iter[p])
      BY <1>1, <2>1, <2>2 DEF IsLast
    <2>4. ASSUME NEW p \in Page, ckpt.pc = "copy", IsCopied(ckpt.iter[p])
          PROVE  log'[ckpt.iter[p]] = log[ckpt.iter[p]]
      <3>1. ckpt.iter[p] \in 0 .. ckpt.hdr.mxFrame /\ ckpt.iter[p] > nBackfill
        BY <2>2, <2>4 DEF IsLast, IsCopied, CkptSide
      <3>. QED  BY <1>1, <2>1, <3>1
    <2>5. \A f : IsCopied(f)' <=> IsCopied(f)
      BY DEF IsCopied
    <2>. QED  BY <2>1, <2>3, <2>4, <2>5 DEF CkptSide, IsCopied
  <1>. QED  BY <1>2, <1>3

\* The steps of a transaction do so.
LEMMA ConnStepCkpt ==
    ASSUME WalAssumption, PageAssumption, Inv1, Inv2, Inv3, NEW c \in Conn,
           ReadStep(c) \/ WriteStep(c)
    PROVE  CkptSide'
  <1>1. UNCHANGED <<ckpt, db>>
    BY DEF ReadStep, ReadHdr, IgnoreLog, CheckHdr, ChooseSlot, ShareSlot, SetMinFrame, Verify,
           EndRead, WriteStep, BeginWrite, RestartHdr, RestartInfo, KeepLog, WriteLogHdr,
           WriteFrame, Undo, PublishHdr, fileVars
  <1> SUFFICES ASSUME ckpt.pc \in {"marks", "copy"}
               PROVE  nBackfill' = nBackfill /\ \A f \in 1 .. ckpt.hdr.mxFrame : log'[f] = log[f]
    BY <1>1, CkptKept DEF Inv3
  <1>2. /\ live # NoHdr /\ live.mxFrame \in Nat /\ ckpt.hdr.mxFrame \in Nat /\ nBackfill \in Nat
        /\ nBackfill < ckpt.hdr.mxFrame /\ ckpt.hdr.mxFrame <= live.mxFrame
    BY HeaderIsHeader DEF Inv1, Types, CkptTypes, SharedTypes, Control, Inv2, CkptKnows
  <1>3. CASE RestartInfo(c)
    <2>1. live.mxFrame = 0
      BY <1>2, <1>3 DEF RestartInfo, Inv2, HeadersAgree, HeaderOf
    <2>. QED  BY <1>2, <2>1
  <1>4. CASE WriteFrame(c)
    <2> DEFINE n == hdr[c].mxFrame + done + 1
    <2>1. /\ hdr[c].mxFrame = live.mxFrame /\ done \in Nat /\ Len(log) \in Nat
          /\ live.mxFrame <= Len(log)
      <3>1. Busy(c)
        BY <1>4 DEF WriteFrame, Busy
      <3>2. Len(todo) \in Nat /\ done \in 0 .. Len(todo)
        BY <3>1, CommitFacts
      <3>3. hdr[c].mxFrame = live.mxFrame /\ live.mxFrame + done <= Len(log) /\ Len(log) \in Nat
        BY <3>1, CommitFacts
      <3>. QED  BY <1>2, <3>2, <3>3
    <2>2. log' = WithFrame(n, NextFrame(c)) /\ n \in Nat \ {0} /\ LogTypes
      BY <1>2, <1>4, <2>1 DEF WriteFrame, Inv1, Types
    <2>3. /\ Len(log') = IF n > Len(log) THEN n ELSE Len(log)
          /\ \A i \in 1 .. Len(log') : i # n => log'[i] = log[i]
      <3> HIDE DEF n
      <3>. QED  BY <2>2, WithFrameFacts
    <2>4. \A f \in 1 .. ckpt.hdr.mxFrame : f \in 1 .. Len(log') /\ f # n
      BY SMTT(30), <1>2, <2>1, <2>3
    <2>5. nBackfill' = nBackfill
      BY <1>4 DEF WriteFrame, indexVars
    <2>. QED  BY <2>3, <2>4, <2>5
  <1>5. CASE Undo(c)
    <2>1. SameFrames(log', live.mxFrame) /\ nBackfill' = nBackfill
      BY <1>5, UndoneFrames DEF Undo, indexVars
    <2>. QED  BY <1>2, <2>1 DEF SameFrames
  <1>6. CASE ReadStep(c) \/ (WriteStep(c) /\ ~RestartInfo(c) /\ ~WriteFrame(c) /\ ~Undo(c))
    <2>1. UNCHANGED <<nBackfill, log>>
      BY <1>2, <1>6 DEF ReadStep, ReadHdr, IgnoreLog, CheckHdr, ChooseSlot, ShareSlot,
         SetMinFrame, Verify, EndRead, WriteStep, BeginWrite, RestartHdr, KeepLog, WriteLogHdr,
         PublishHdr, fileVars, indexVars
    <2>. QED  BY <2>1
  <1>. QED  BY <1>3, <1>4, <1>5, <1>6

\* The steps of the checkpointer itself make out and copy the last frames.
LEMMA CkptStepCkpt ==
    ASSUME WalAssumption, PageAssumption, Inv1, Inv2, Inv3, CkptStep
    PROVE  CkptSide'
  <1>1. /\ log' = log /\ CkptSide /\ db \in [Page -> Int]
        /\ DOMAIN ckpt = {"pc", "hdr", "i", "mxSafeFrame", "nBackfill", "iter", "left"}
    BY DEF CkptStep, CkptReadHdr, CkptTest, CkptMark, CkptLock0, CkptCopy, CkptFails, CkptDone,
           CkptUnlock, fileVars, Inv3, LogSide, StoreTypes, Inv1, Types, CkptTypes
  <1>2. CASE ckpt' = IdleCkpt
    BY <1>2 DEF IdleCkpt, CkptSide
  <1>3. CASE CkptReadHdr
    <2>1. ckpt'.pc = "test" /\ ckpt'.left = ckpt.left
      BY <1>1, <1>3 DEF CkptReadHdr
    <2>. QED  BY <1>1, <2>1 DEF CkptSide
  <1>4. CASE CkptTest /\ ckpt' # IdleCkpt
    <2> DEFINE n == ckpt.hdr.mxFrame
    <2>1. /\ ckpt'.pc = "marks" /\ ckpt'.left = ckpt.left /\ ckpt'.hdr = ckpt.hdr
          /\ ckpt'.iter = [p \in Page |-> LastFrame(p, 1, n)]
      BY <1>1, <1>4 DEF CkptTest
    <2>2. /\ n \in Nat /\ live # NoHdr /\ live.mxFrame \in Nat /\ n <= live.mxFrame
      BY <1>4, HeaderIsHeader
         DEF CkptTest, Inv1, Types, CkptTypes, SharedTypes, Control, Inv2, CkptKnows
    <2>3. IndexedTo(n)
      BY <2>2 DEF Inv3, LogSide, Indexed, IndexedTo
    <2>4. ASSUME NEW p \in Page
          PROVE  IsLast(log, p, n, LastFrame(p, 1, n))
      <3> HIDE DEF n
      <3>1. PICK g : IsLast(log, p, n, g)
        BY <2>2, LastExists
      <3>2. LastFrame(p, 1, n) = IF g >= 1 THEN g ELSE 0
        BY <2>2, <2>3, <3>1, LastFrameFacts
      <3>3. LastFrame(p, 1, n) = g
        BY <2>2, <3>1, <3>2 DEF IsLast
      <3>. QED  BY <3>1, <3>3
    <2>. QED  BY <1>1, <2>1, <2>4 DEF CkptSide
  <1>5. CASE CkptMark
    <2>1. /\ ckpt'.pc = ckpt.pc /\ ckpt.pc = "marks" /\ ckpt'.left = ckpt.left
          /\ ckpt'.hdr = ckpt.hdr /\ ckpt'.iter = ckpt.iter
      BY <1>1, <1>5 DEF CkptMark, MarkHolds
    <2>. QED  BY <1>1, <2>1 DEF CkptSide
  <1>6. CASE CkptLock0 /\ ckpt' # IdleCkpt
    <2>1. /\ ckpt'.pc = "copy" /\ ckpt.pc = "marks" /\ ckpt'.left = Page
          /\ ckpt'.hdr = ckpt.hdr /\ ckpt'.iter = ckpt.iter /\ ckpt'.nBackfill = nBackfill
          /\ nBackfill' = nBackfill /\ nBackfill < ckpt.mxSafeFrame
          /\ ckpt'.mxSafeFrame = ckpt.mxSafeFrame
      BY <1>1, <1>6 DEF CkptLock0, indexVars
    <2>. QED  BY <1>1, <2>1 DEF CkptSide
  <1>7. CASE CkptCopy
    <2> DEFINE p == Min(ckpt.left)
    <2>1. /\ ckpt.pc = "copy" /\ ckpt'.pc = "copy" /\ ckpt'.left = ckpt.left \ {p}
          /\ ckpt'.hdr = ckpt.hdr /\ ckpt'.iter = ckpt.iter /\ ckpt'.nBackfill = ckpt.nBackfill
          /\ nBackfill' = nBackfill /\ ckpt'.mxSafeFrame = ckpt.mxSafeFrame
          /\ db' = IF IsCopied(ckpt.iter[p]) THEN [db EXCEPT ![p] = log[ckpt.iter[p]].tx]
                   ELSE db
      BY <1>1, <1>7 DEF CkptCopy, indexVars
    <2> HIDE DEF p
    <2>2. \A f : IsCopied(f)' <=> IsCopied(f)
      BY <2>1 DEF IsCopied
    <2>3. ASSUME NEW q \in Page \ ckpt'.left, IsCopied(ckpt.iter[q])
          PROVE  db'[q] = log[ckpt.iter[q]].tx
      <3>1. CASE q = p
        BY <1>1, <2>1, <2>3, <3>1
      <3>2. CASE q # p
        <4>1. q \in Page \ ckpt.left
          BY <2>1, <3>2
        <4>2. db[q] = log[ckpt.iter[q]].tx
          BY <1>1, <2>1, <2>3, <4>1 DEF CkptSide
        <4>. QED  BY <1>1, <2>1, <3>2, <4>2
      <3>. QED  BY <3>1, <3>2
    <2>4. ckpt'.left \subseteq Page
      BY <1>1, <2>1 DEF CkptSide
    <2>5. \A q \in Page : IsLast(log, q, ckpt.hdr.mxFrame, ckpt.iter[q])
      BY <1>1, <2>1 DEF CkptSide
    <2>6. ckpt.nBackfill = nBackfill /\ nBackfill < ckpt.mxSafeFrame
      BY <1>1, <2>1 DEF CkptSide
    <2>7. ASSUME NEW q \in Page \ ckpt'.left, IsCopied(ckpt.iter[q])'
          PROVE  db'[q] = log'[ckpt'.iter[q]].tx
      BY <1>1, <2>1, <2>3, <2>7 DEF IsCopied
    <2>. QED  BY <1>1, <2>1, <2>4, <2>5, <2>6, <2>7 DEF CkptSide, IsCopied
  <1>8. CASE CkptDone
    <2>1. ckpt'.pc = "unlock" /\ ckpt'.left = ckpt.left
      BY <1>1, <1>8 DEF CkptDone
    <2>. QED  BY <1>1, <2>1 DEF CkptSide
  <1>. QED  BY <1>2, <1>3, <1>4, <1>5, <1>6, <1>7, <1>8 DEF CkptStep, CkptFails, CkptUnlock

-----------------------------------------------------------------------------
(* The steps keep what a reader finds in the file.                         *)

\* What a step of another connection leaves alone.
LEMMA MinFrameSame ==
    ASSUME WalAssumption, StoreTypes, NEW c \in Conn, ReadStep(c) \/ WriteStep(c),
           NEW d \in Conn \ {c}
    PROVE  minFrame'[d] = minFrame[d] /\ (writer' = d => writer = d)
  <1>1. minFrame \in [Conn -> Nat] /\ Nobody # d
    BY SlotsAndConns DEF StoreTypes
  <1>2. /\ minFrame' = minFrame \/ \E n : minFrame' = [minFrame EXCEPT ![c] = n]
        /\ writer' \in {writer, c, Nobody}
    BY DEF ReadStep, ReadHdr, IgnoreLog, CheckHdr, ChooseSlot, ShareSlot, SetMinFrame, Verify,
           EndRead, Retry, Leave, WriteStep, BeginWrite, RestartHdr, RestartInfo, KeepLog,
           WriteLogHdr, WriteFrame, Undo, PublishHdr, writeVars
  <1>. QED  BY <1>1, <1>2

\* How a transaction's step changes the end of the log and what is copied.
SharedStep(c) ==
    \/ UNCHANGED <<live, nBackfill>>
    \/ live = NoHdr /\ writer' = Nobody
    \/ pc[c] = "restart" /\ live' = live /\ nBackfill' = 0
    \/ /\ pc[c] = "write" /\ \A d \in Conn : readLock[d] \notin 1 .. Slots
       /\ nBackfill' = nBackfill
    \/ /\ pc[c] = "publish" /\ nBackfill' = nBackfill /\ live.mxFrame <= live'.mxFrame
       /\ live'.mxFrame \in Nat

\* It does so in one of these ways.
LEMMA SharedSteps ==
    ASSUME WalAssumption, PageAssumption, Inv1, Inv2, Inv3, NEW c \in Conn,
           ReadStep(c) \/ WriteStep(c)
    PROVE  SharedStep(c)
  <1>1. CASE ReadHdr(c) /\ live = NoHdr
    BY <1>1 DEF SharedStep, ReadHdr, writeVars
  <1>2. CASE RestartHdr(c)
    <2>1. \A d \in Conn : readLock[d] \notin 1 .. Slots
      BY <1>2 DEF RestartHdr, NobodyReadsLog, CanLockExclusive, Holders
    <2>. QED  BY <1>2, <2>1 DEF SharedStep, RestartHdr
  <1>3. CASE RestartInfo(c)
    BY <1>3 DEF SharedStep, RestartInfo
  <1>4. CASE PublishHdr(c)
    <2>1. pc[c] = "publish" /\ Busy(c)
      BY <1>4 DEF PublishHdr, Busy
    <2>2. hdr[c] \in Headers /\ hdr[c].mxFrame = live.mxFrame /\ Len(todo) \in Nat
          /\ live.mxFrame \in Nat
      BY <2>1, CommitFacts
    <2>3. live' = [hdr[c] EXCEPT !.mxFrame = @ + Len(todo)] /\ nBackfill' = nBackfill
      BY <1>4 DEF PublishHdr, Inv1, Types, ConnTypes
    <2>4. live'.mxFrame = live.mxFrame + Len(todo)
      BY <2>2, <2>3 DEF Headers
    <2>. QED  BY <2>1, <2>2, <2>3, <2>4 DEF SharedStep
  <1>5. CASE \/ ReadStep(c) /\ ~(ReadHdr(c) /\ live = NoHdr)
             \/ BeginWrite(c) \/ KeepLog(c) \/ WriteLogHdr(c) \/ WriteFrame(c) \/ Undo(c)
    <2>1. UNCHANGED <<live, nBackfill>>
      BY <1>5 DEF ReadStep, ReadHdr, IgnoreLog, CheckHdr, ChooseSlot, ShareSlot, SetMinFrame,
         Verify, EndRead, BeginWrite, KeepLog, WriteLogHdr, WriteFrame, Undo, indexVars
    <2>. QED  BY <2>1 DEF SharedStep
  <1>. QED  BY <1>1, <1>2, <1>3, <1>4, <1>5 DEF WriteStep

\* Whoever does not step finds what it did.
LEMMA OthersSide ==
    ASSUME WalAssumption, PageAssumption, Inv1, Inv2, Inv3, NEW c \in Conn,
           ReadStep(c) \/ WriteStep(c), NEW d \in Conn \ {c}
    PROVE  ReaderSide(d)'
  <1>1. /\ Same(d) /\ minFrame'[d] = minFrame[d] /\ (writer' = d => writer = d)
        /\ ReaderSide(d) /\ readLock[d] \in -1 .. Slots /\ Slots \in Nat /\ Nobody # d
    BY StepSame, MinFrameSame, SlotsAndConns DEF Inv3, LogSide, ConnSide, Inv1, Types, ConnTypes
  <1>2. /\ pc'[d] = pc[d] /\ readLock'[d] = readLock[d] /\ hdr'[d] = hdr[d]
        /\ Reading(d)' <=> Reading(d)
    BY <1>1 DEF Same, Reading
  <1>3. SharedStep(c)
    BY SharedSteps
  <1>4. CASE UNCHANGED <<live, nBackfill>>
    BY <1>1, <1>2, <1>4 DEF ReaderSide
  <1>5. CASE live = NoHdr /\ writer' = Nobody
    <2>1. readLock[d] = -1
      BY <1>5 DEF Inv1, Control, Holds
    <2>. QED  BY <1>1, <1>2, <1>5, <2>1 DEF ReaderSide, Reading
  <1>6. CASE /\ \A e \in Conn : readLock[e] \notin 1 .. Slots
             /\ writer # d
    <2>1. ~(readLock[d] > 0)
      BY <1>1, <1>6
    <2>. QED  BY <1>1, <1>2, <1>6, <2>1 DEF ReaderSide, Reading
  <1>7. CASE pc[c] \in {"restart", "write"}
    <2>1. writer = c
      BY <1>7 DEF Inv1, LocksExclude, Writing
    <2>2. pc[c] = "restart" => \A e \in Conn : readLock[e] \notin 1 .. Slots
      BY DEF Inv1, LocksExclude, Restarting
    <2>. QED  BY <1>3, <1>4, <1>5, <1>6, <1>7, <2>1, <2>2 DEF SharedStep
  <1>8. CASE /\ pc[c] = "publish" /\ nBackfill' = nBackfill
             /\ live.mxFrame <= live'.mxFrame /\ live'.mxFrame \in Nat
    <2>1. writer = c /\ writer # d
      BY <1>8 DEF Inv1, LocksExclude, Writing
    <2>2. live # NoHdr
      BY <1>8 DEF Inv1, Control, Holds
    <2>3. hdr[d].mxFrame \in Nat /\ live.mxFrame \in Nat
      BY <2>2, HeaderIsHeader DEF Inv1, Types, ConnTypes, SharedTypes
    <2>. QED  BY <1>1, <1>2, <1>8, <2>1, <2>3 DEF ReaderSide
  <1>. QED  BY <1>3, <1>4, <1>5, <1>7, <1>8 DEF SharedStep

\* Without a read mark, and unless it keeps WRITE_LOCK, a connection expects
\* nothing.
LEMMA NoMarkSide ==
    ASSUME NEW c, readLock'[c] \in {-1, 0},
           writer' = c /\ pc'[c] \in {"choose", "share", "mark", "verify"} =>
              nBackfill' = live'.mxFrame
    PROVE  ReaderSide(c)'
  BY DEF ReaderSide, Reading

\* Nor does its step disturb what a reader finds.
LEMMA ReadStepSide ==
    ASSUME WalAssumption, PageAssumption, Inv1, Inv2, Inv3, NEW c \in Conn, ReadStep(c)
    PROVE  ReaderSide(c)'
  <1>1. /\ pc \in [Conn -> PCs] /\ readLock \in [Conn -> -1 .. Slots] /\ Slots \in Nat
        /\ hdr \in [Conn -> Headers] /\ minFrame \in [Conn -> Nat] /\ nBackfill \in Nat
        /\ Nobody # c
    BY SlotsAndConns DEF Inv1, Types, ConnTypes, SharedTypes, Inv3, LogSide, StoreTypes
  <1>2. ReaderSide(c) /\ Holds(c)
    BY DEF Inv3, ConnSide, Inv1, Control
  <1>3. CASE ReadHdr(c)
    <2>1. pc[c] \in {"idle", "retry"} /\ readLock' = readLock /\ writer' = writer
      BY <1>3 DEF ReadHdr, writeVars
    <2>2. readLock'[c] = -1 /\ writer' # c
      BY <1>2, <2>1 DEF Holds
    <2>. QED  BY <2>2, NoMarkSide
  <1>4. CASE IgnoreLog(c)
    <2>1. readLock'[c] = 0 /\ pc'[c] = "check"
      BY <1>1, <1>4 DEF IgnoreLog
    <2>. QED  BY <2>1, NoMarkSide
  <1>5. CASE CheckHdr(c)
    <2>1. pc[c] = "check" /\ writer' = writer /\ writer # c /\ readLock[c] = 0
      BY <1>2, <1>5 DEF CheckHdr, Holds, writeVars
    <2>2. readLock'[c] \in {-1, 0}
      BY <1>1, <1>5, <2>1 DEF CheckHdr, Retry, Leave, UseWal
    <2>. QED  BY <2>1, <2>2, NoMarkSide
  <1>6. CASE ChooseSlot(c)
    <2>1. /\ pc[c] = "choose" /\ readLock[c] = -1
          /\ UNCHANGED <<writer, nBackfill, live>>
      BY <1>2, <1>6 DEF ChooseSlot, Holds, writeVars
    <2>2. readLock'[c] = -1
      BY <1>1, <1>6, <2>1 DEF ChooseSlot, Retry, Leave
    <2>. QED  BY <1>2, <2>1, <2>2, NoMarkSide DEF ReaderSide
  <1>7. CASE ShareSlot(c) \/ Verify(c)
    <2>1. /\ pc[c] \in {"share", "verify"} /\ UNCHANGED <<writer, nBackfill, live>>
      BY <1>7 DEF ShareSlot, Verify, writeVars, indexVars
    <2>2. CASE Retry(c)
      <3>1. readLock'[c] = -1
        BY <1>1, <2>2 DEF Retry, Leave
      <3>. QED  BY <1>2, <2>1, <3>1, NoMarkSide DEF ReaderSide
    <2>3. CASE ShareSlot(c) /\ ~Retry(c)
      <3>1. pc'[c] = "mark"
        BY <1>1, <2>3 DEF ShareSlot
      <3>. QED  BY <1>2, <2>1, <2>3, <3>1 DEF ReaderSide, Reading, ShareSlot
    <2>4. CASE Verify(c) /\ ~Retry(c)
      <3>1. /\ UNCHANGED <<readLock, hdr, minFrame>> /\ hdr[c] = live /\ pc[c] = "verify"
            /\ pc'[c] \in {"read", "header", "frames"}
        BY <1>1, <2>4 DEF Verify, StillValid, FirstWrite
      <3>2. hdr[c].mxFrame \in Nat
        BY <1>1, HeaderIsHeader
      <3>. QED  BY <1>2, <2>1, <3>1, <3>2 DEF ReaderSide
    <2>. QED  BY <1>7, <2>2, <2>3, <2>4
  <1>8. CASE SetMinFrame(c)
    <2>1. /\ UNCHANGED <<writer, nBackfill, live>> /\ minFrame'[c] = nBackfill + 1
          /\ pc[c] = "mark" /\ pc'[c] = "verify"
      BY <1>1, <1>8 DEF SetMinFrame, writeVars, indexVars
    <2>. QED  BY <1>1, <1>2, <2>1 DEF ReaderSide, Reading
  <1>9. CASE EndRead(c)
    <2>1. readLock'[c] = -1 /\ pc'[c] = "idle"
      BY <1>1, <1>9 DEF EndRead, Leave
    <2>. QED  BY <2>1, NoMarkSide
  <1>. QED  BY <1>3, <1>4, <1>5, <1>6, <1>7, <1>8, <1>9 DEF ReadStep

\* A writer keeps what it read with, or gives it up with the log unchanged
\* since it was copied.
LEMMA WriteStepSide ==
    ASSUME WalAssumption, PageAssumption, Inv1, Inv2, Inv3, NEW c \in Conn, WriteStep(c)
    PROVE  ReaderSide(c)'
  <1>1. /\ pc \in [Conn -> PCs] /\ readLock \in [Conn -> -1 .. Slots] /\ Slots \in Nat
        /\ hdr \in [Conn -> Headers] /\ minFrame \in [Conn -> Nat] /\ nBackfill \in Nat
        /\ Nobody # c
    BY SlotsAndConns DEF Inv1, Types, ConnTypes, SharedTypes, Inv3, LogSide, StoreTypes
  <1>2. ReaderSide(c) /\ Holds(c)
    BY DEF Inv3, ConnSide, Inv1, Control
  <1>3. CASE BeginWrite(c)
    <2>1. CASE CanWrite(c)
      <3>1. /\ UNCHANGED <<readLock, hdr, minFrame, nBackfill, live>> /\ hdr[c] = live
            /\ pc[c] = "read" /\ pc'[c] \in {"write", "header", "frames"}
        BY <1>1, <1>3, <2>1 DEF BeginWrite, CanWrite, FirstWrite, indexVars
      <3>2. hdr[c].mxFrame \in Nat
        BY <1>1, HeaderIsHeader
      <3>. QED  BY <1>2, <3>1, <3>2 DEF ReaderSide
    <2>2. CASE ~CanWrite(c)
      <3>1. readLock'[c] = -1 /\ pc'[c] = "idle"
        BY <1>1, <1>3, <2>2 DEF BeginWrite, Leave
      <3>. QED  BY <3>1, NoMarkSide
    <2>. QED  BY <2>1, <2>2
  <1>4. CASE RestartHdr(c)
    <2>1. readLock'[c] = 0 /\ pc'[c] = "restart"
      BY <1>1, <1>2, <1>4 DEF RestartHdr, Holds
    <2>. QED  BY <2>1, NoMarkSide
  <1>5. CASE RestartInfo(c) \/ KeepLog(c)
    <2>1. /\ readLock'[c] = -1 /\ live' = live /\ pc[c] \in {"restart", "write"} /\ hdr' = hdr
      BY <1>1, <1>5 DEF RestartInfo, KeepLog, indexVars
    <2>2. writer = c /\ live # NoHdr /\ readLock[c] = 0
      BY <1>2, <2>1 DEF Inv1, LocksExclude, Writing, Holds
    <2>3. HeaderOf(c)
      BY <2>2 DEF Inv2, HeadersAgree
    <2>4. nBackfill' = live'.mxFrame
      BY <1>5, <2>1, <2>2, <2>3 DEF HeaderOf, RestartInfo, KeepLog, indexVars
    <2>. QED  BY <2>1, <2>4, NoMarkSide
  <1>6. CASE WriteLogHdr(c) \/ WriteFrame(c)
    <2>1. /\ UNCHANGED <<readLock, minFrame, nBackfill, live>>
          /\ hdr'[c].mxFrame = hdr[c].mxFrame
          /\ pc[c] \in {"header", "frames"} /\ pc'[c] \in {"frames", "publish"}
      BY <1>1, <1>6 DEF WriteLogHdr, WriteFrame, indexVars, Headers
    <2>. QED  BY <1>2, <2>1 DEF ReaderSide, Reading
  <1>7. CASE Undo(c)
    <2>1. readLock'[c] = -1 /\ pc'[c] = "idle"
      BY <1>1, <1>7 DEF Undo, Leave
    <2>. QED  BY <2>1, NoMarkSide
  <1>8. CASE PublishHdr(c)
    <2>1. /\ UNCHANGED <<readLock, minFrame, nBackfill>> /\ hdr'[c] = live'
          /\ pc[c] = "publish" /\ pc'[c] = "committed"
      BY <1>1, <1>8 DEF PublishHdr
    <2>2. hdr'[c].mxFrame = hdr[c].mxFrame + Len(todo) /\ hdr[c] \in Headers /\ Len(todo) \in Nat
      BY <1>1, <1>8 DEF PublishHdr, Headers, Inv1, Types, WriterTypes
    <2>3. hdr'[c].mxFrame \in Nat
      BY <2>2, HeaderIsHeader
    <2>. QED  BY <1>2, <2>1, <2>3 DEF ReaderSide
  <1>. QED  BY <1>3, <1>4, <1>5, <1>6, <1>7, <1>8 DEF WriteStep

\* A checkpoint copies more, and nothing while a writer starts with a log
\* that has been copied.
LEMMA CkptStepSide ==
    ASSUME WalAssumption, PageAssumption, Inv1, Inv2, Inv3, CkptStep
    PROVE  ConnSide'
  <1> SUFFICES ASSUME NEW d \in Conn
               PROVE  ReaderSide(d)'
    BY DEF ConnSide
  <1>1. /\ UNCHANGED <<pc, readLock, hdr, minFrame, writer>> /\ ReaderSide(d)
        /\ minFrame[d] \in Nat /\ nBackfill \in Nat /\ Nobody # d
    BY SlotsAndConns
       DEF CkptStep, CkptReadHdr, CkptTest, CkptMark, CkptLock0, CkptCopy, CkptFails, CkptDone,
           CkptUnlock, connVars, writeVars, Inv3, LogSide, StoreTypes, ConnSide, Inv1, Types,
           SharedTypes
  <1>2. CASE CkptReadHdr /\ live = NoHdr
    <2>1. readLock'[d] = -1 /\ writer' # d
      BY <1>1, <1>2 DEF Inv1, Control, Holds, CkptReadHdr
    <2>. QED  BY <2>1, NoMarkSide
  <1>3. CASE CkptDone
    <2>1. ckpt.pc = "copy" /\ live' = live /\ nBackfill' = ckpt.mxSafeFrame
      BY <1>3 DEF CkptDone
    <2>2. /\ nBackfill < ckpt.mxSafeFrame /\ nBackfill < ckpt.hdr.mxFrame
          /\ ckpt.hdr.mxFrame <= live.mxFrame /\ live # NoHdr
      BY <2>1 DEF Inv3, CkptSide, Inv2, CkptKnows, Inv1, Control
    <2>3. ckpt.mxSafeFrame \in Nat /\ ckpt.hdr.mxFrame \in Nat /\ live.mxFrame \in Nat
      BY <2>2, HeaderIsHeader DEF Inv1, Types, CkptTypes, SharedTypes
    <2>4. nBackfill # live.mxFrame
      BY <1>1, <2>2, <2>3
    <2>5. Reading(d)' <=> Reading(d)
      BY <1>1 DEF Reading
    <2>. QED  BY <1>1, <2>1, <2>2, <2>3, <2>4, <2>5 DEF ReaderSide
  <1>4. CASE ~(CkptReadHdr /\ live = NoHdr) /\ ~CkptDone
    <2>1. UNCHANGED <<live, nBackfill>>
      BY <1>4 DEF CkptStep, CkptReadHdr, CkptTest, CkptMark, CkptLock0, CkptCopy, CkptFails,
         CkptUnlock, indexVars
    <2>. QED  BY <1>1, <2>1 DEF ReaderSide, Reading
  <1>. QED  BY <1>2, <1>3, <1>4

\* After a kill nobody reads.
LEMMA KillSide ==
    ASSUME WalAssumption, Kill
    PROVE  CkptSide' /\ ConnSide'
  <1>1. CkptSide'
    BY DEF Kill, IdleCkpt, CkptSide
  <1>2. ASSUME NEW d \in Conn
        PROVE  ReaderSide(d)'
    <2>1. readLock'[d] = -1 /\ pc'[d] = "idle"
      BY DEF Kill
    <2>. QED  BY <2>1, NoMarkSide
  <1>. QED  BY <1>1, <1>2 DEF ConnSide

-----------------------------------------------------------------------------
(* The invariant holds.                                                    *)

\* It does at the start.
LEMMA InitStore ==
    ASSUME WalAssumption, Init
    PROVE  Inv3
  <1>1. CkptSide
    BY DEF Init, IdleCkpt, CkptSide
  <1>2. ConnSide
    BY DEF Init, ConnSide, ReaderSide, Reading
  <1>. QED  BY <1>1, <1>2, InitBounds, InitLog DEF Inv3

\* Every step keeps it.
LEMMA NextStore ==
    ASSUME WalAssumption, PageAssumption, Inv1, Inv2, Inv3, [Next]_vars
    PROVE  Inv3'
  <1>1. Bounds'
    BY NextBounds DEF Inv3
  <1>2. Inv1'
    BY NextLocks
  <1>3. CASE UNCHANGED vars
    <2>1. LogSide'
      BY <1>3, StutterLog DEF Inv3
    <2>2. CkptSide' /\ ConnSide'
      BY <1>3 DEF vars, fileVars, indexVars, connVars, writeVars, Inv3, CkptSide, IsCopied,
                  ConnSide, ReaderSide, Reading
    <2>. QED  BY <1>1, <2>1, <2>2 DEF Inv3
  <1>4. ASSUME NEW c \in Conn, ReadStep(c) \/ WriteStep(c)
        PROVE  Inv3'
    <2>1. LogSide'
      BY <1>4, ReadStepLog, WriterLog, RestartHdrLog, RestartInfoLog, WriteLogHdrLog,
         WriteFrameLog, UndoLog, PublishHdrLog DEF WriteStep
    <2>2. CkptSide'
      BY <1>4, ConnStepCkpt
    <2>3. ConnSide'
      BY <1>4, OthersSide, ReadStepSide, WriteStepSide DEF ConnSide
    <2>. QED  BY <1>1, <2>1, <2>2, <2>3 DEF Inv3
  <1>5. CASE CkptStep
    BY <1>1, <1>5, CkptStepLog, CkptStepCkpt, CkptStepSide DEF Inv3
  <1>6. CASE Kill
    BY <1>1, <1>2, <1>6, KillLog, KillSide DEF Inv3
  <1>. QED  BY <1>3, <1>4, <1>5, <1>6 DEF Next

-----------------------------------------------------------------------------
(* What the connections see.                                               *)

\* A writer sees the present state, and so does a reader with the present
\* header; whoever is in a transaction sees something.
SeesStored(c) == writer = c \/ (pc[c] = "read" /\ hdr[c] = live) => Seen(c) = Stored
SeesState(c) == InTransaction(c) => Seen(c) # NoView

\* A log copied completely, or empty, leaves the present state in the file.
LEMMA FileIsStored ==
    ASSUME Inv1, Inv3, live # NoHdr, nBackfill = live.mxFrame \/ live.mxFrame = 0
    PROVE  Stored = db
  <1> DEFINE mx == live.mxFrame
  <1>1. mx \in Nat
    BY HeaderIsHeader DEF Inv1, Types, SharedTypes
  <1>2. IsTable(db, Page)
    BY DEF Inv3, LogSide, StoreTypes, IsTable
  <1>3. Stored = Overlaid(log, db, mx)
    BY DEF Stored, Overlay
  <1>4. CASE mx = 0
    BY <1>2, <1>3, <1>4, OverlaidNone
  <1>5. CASE nBackfill = mx
    <2>1. \A p \in Page : db[p] = Overlaid(log, db, mx)[p]
      BY <1>1, <1>5 DEF Inv3, LogSide, Backfilled, Overlay
    <2>2. IsTable(Overlaid(log, db, mx), Page)
      <3> HIDE DEF mx
      <3>. QED  BY <1>1, <1>2, OverlaidFacts
    <2>. QED  BY <1>2, <1>3, <2>1, <2>2, TablesAgree
  <1>. QED  BY <1>4, <1>5

\* What a reader of the log finds under the present header is what is stored.
LEMMA LogShowsStored ==
    ASSUME Inv1, Inv3, live # NoHdr, NEW c \in Conn, readLock[c] > 0, pc[c] # "mark",
           hdr[c].mxFrame = live.mxFrame, ~FromDb(c)
    PROVE  View(c) = Stored
  <1> DEFINE mx == live.mxFrame
             lo == minFrame[c]
  <1>1. mx \in Nat /\ nBackfill \in Nat
    BY HeaderIsHeader DEF Inv1, Types, SharedTypes
  <1>2. lo \in Nat /\ lo > 0 /\ lo <= nBackfill + 1
    BY DEF Inv3, LogSide, StoreTypes, ConnSide, ReaderSide
  <1>3. IsTable(db, Page)
    BY DEF Inv3, LogSide, StoreTypes, IsTable
  <1>4. Stored = Overlaid(log, db, mx)
    BY DEF Stored, Overlay
  <1>5. IndexedTo(mx)
    BY DEF Inv3, LogSide, Indexed, IndexedTo
  <1>6. ASSUME NEW p \in Page
        PROVE  View(c)[p] = Overlaid(log, db, mx)[p]
    <2>1. View(c)[p] = IF LastFrame(p, lo, mx) = 0 THEN db[p] ELSE log[LastFrame(p, lo, mx)].tx
      BY DEF View
    <2>2. (\A f \in nBackfill + 1 .. mx : log[f].page # p) => db[p] = Overlaid(log, db, mx)[p]
      BY DEF Inv3, LogSide, Backfilled, Overlay
    <2> HIDE DEF mx, lo
    <2>3. PICK g : IsLast(log, p, mx, g)
      BY <1>1, LastExists
    <2>4. LastFrame(p, lo, mx) = IF g >= lo THEN g ELSE 0
      BY <1>1, <1>2, <1>5, <2>3, LastFrameFacts
    <2>5. Overlaid(log, db, mx)[p] = IF g = 0 THEN db[p] ELSE log[g].tx
      <3>1. ShowsLast(log, db, mx, Page, Overlaid(log, db, mx))
        BY <1>1, <1>3, OverlaidFacts
      <3>. QED  BY <2>3, <3>1 DEF ShowsLast
    <2>6. g \in 0 .. mx /\ \A f \in g + 1 .. mx : log[f].page # p
      BY <2>3 DEF IsLast
    <2>7. CASE g >= lo
      BY <1>2, <2>1, <2>4, <2>5, <2>6, <2>7
    <2>8. CASE ~(g >= lo)
      <3>1. \A f \in nBackfill + 1 .. mx : f \in g + 1 .. mx
        BY <1>1, <1>2, <2>6, <2>8
      <3>. QED  BY <2>1, <2>2, <2>4, <2>6, <2>8, <3>1
    <2>. QED  BY <2>7, <2>8
  <1>7. IsTable(View(c), Page)
    BY DEF View, IsTable
  <1>8. IsTable(Overlaid(log, db, mx), Page)
    <2> HIDE DEF mx
    <2>. QED  BY <1>1, <1>3, OverlaidFacts
  <1>. QED  BY <1>4, <1>6, <1>7, <1>8, TablesAgree

\* What one sees who reads the file alone.
LEMMA FileView ==
    ASSUME StoreTypes, NEW c \in Conn, FromDb(c)
    PROVE  View(c) = db
  BY DEF View, StoreTypes

\* So the present state is what a writer sees, and a reader with the present
\* header.
LEMMA ViewIsStored ==
    ASSUME Inv1, Inv2, Inv3
    PROVE  \A c \in Conn : SeesStored(c)
  <1> SUFFICES ASSUME NEW c \in Conn, writer = c \/ (pc[c] = "read" /\ hdr[c] = live)
               PROVE  Seen(c) = Stored
    BY DEF SeesStored
  <1>1. Holds(c) /\ ReaderSide(c) /\ StoreTypes /\ pc[c] \in PCs
    BY DEF Inv1, Control, Types, ConnTypes, Inv3, ConnSide, LogSide
  <1>2. live # NoHdr
    BY <1>1 DEF Holds
  <1>3. HeaderOf(c)
    BY <1>2 DEF Inv2, HeadersAgree
  <1>4. hdr[c].mxFrame = live.mxFrame
    BY <1>3 DEF HeaderOf
  <1>5. InTransaction(c)
    BY DEF InTransaction, UseWal
  <1>6. CASE pc[c] \in {"choose", "share", "mark", "verify"}
    <2>1. nBackfill = live.mxFrame
      BY <1>1, <1>6 DEF ReaderSide
    <2>. QED  BY <1>2, <1>5, <1>6, <2>1, FileIsStored DEF Seen
  <1>7. CASE pc[c] \notin {"choose", "share", "mark", "verify"}
    <2>0. Seen(c) = View(c)
      BY <1>5, <1>7 DEF Seen
    <2>1. readLock[c] = 0 \/ (readLock[c] > 0 /\ readLock[c] # 0)
      BY <1>1, <1>7 DEF Holds, PCs, Inv1, Types, ConnTypes
    <2>2. CASE readLock[c] = 0
      <3>1. pc[c] \in {"read", "write", "restart"}
        BY <1>1, <1>7, <2>2 DEF Holds, PCs
      <3>2. nBackfill = live.mxFrame \/ live.mxFrame = 0
        BY <1>3, <2>2, <3>1 DEF HeaderOf
      <3>. QED  BY <1>1, <1>2, <2>0, <2>2, <3>2, FileIsStored, FileView DEF FromDb
    <2>3. CASE hdr[c].mxFrame = 0
      BY <1>1, <1>2, <1>4, <2>0, <2>3, FileIsStored, FileView DEF FromDb
    <2>4. CASE readLock[c] > 0 /\ readLock[c] # 0 /\ hdr[c].mxFrame # 0
      BY <1>2, <1>4, <1>7, <2>0, <2>4, LogShowsStored DEF FromDb
    <2>. QED  BY <2>1, <2>2, <2>3, <2>4
  <1>. QED  BY <1>6, <1>7

\* No page is seen that no transaction wrote.
LEMMA SomethingSeen ==
    ASSUME PageAssumption, Inv1, Inv3
    PROVE  \A c \in Conn : SeesState(c)
  <1> SUFFICES ASSUME NEW c \in Conn, InTransaction(c)
               PROVE  Seen(c) # NoView
    BY DEF SeesState
  <1>1. PICK p \in Page : TRUE
    BY DEF PageAssumption
  <1>2. db[p] >= -1 /\ db[p] \in Int
    BY DEF Inv3, LogSide, Fresh, StoreTypes
  <1> DEFINE f == LastFrame(p, minFrame[c], hdr[c].mxFrame)
  <1>3. f # 0 => log[f].tx \in Nat
    <2> DEFINE n == hdr[c].mxFrame
               lo == minFrame[c]
               S == {0} \cup {g \in lo .. n : g \in DOMAIN index /\ index[g] = p}
    <2>1. n \in Nat /\ lo \in Nat /\ n <= Len(log) /\ Len(log) \in Nat
      BY HeaderIsHeader DEF Inv1, Types, ConnTypes, LogTypes, Inv3, Bounds, ConnBounds, ConnBound,
                            LogSide, StoreTypes
    <2>2. S \subseteq 0 .. n /\ S # {}
      BY <2>1
    <2>3. f = Max(S)
      BY DEF LastFrame
    <2> HIDE DEF n, S
    <2>4. f \in 0 .. n
      BY <2>1, <2>2, <2>3, MaxOfFrames
    <2> HIDE DEF f
    <2>5. f # 0 => f \in DOMAIN log
      BY <2>1, <2>4 DEF Inv1, Types, LogTypes
    <2>. QED  BY <2>5 DEF Inv3, LogSide, StoreTypes, Frames
  <1>4. Seen(c)[p] = db[p] \/ (f # 0 /\ Seen(c)[p] = log[f].tx)
    <2>1. Seen(c) = db \/ Seen(c) = View(c)
      BY DEF Seen
    <2>2. View(c)[p] = IF FromDb(c) \/ f = 0 THEN db[p] ELSE log[f].tx
      BY DEF View
    <2>. QED  BY <2>1, <2>2
  <1> HIDE DEF f
  <1>5. Seen(c)[p] >= -1
    BY <1>2, <1>3, <1>4
  <1>6. NoView[p] = -2
    BY DEF NoView
  <1>. QED  BY <1>5, <1>6

\* Both are so in the next state, too.
LEMMA SeesNext ==
    /\ (Inv1 /\ Inv2 /\ Inv3 => \A c \in Conn : SeesStored(c))'
    /\ (PageAssumption /\ Inv1 /\ Inv3 => \A c \in Conn : SeesState(c))'
  <1>1. Inv1 /\ Inv2 /\ Inv3 => \A c \in Conn : SeesStored(c)
    BY ViewIsStored
  <1>2. PageAssumption /\ Inv1 /\ Inv3 => \A c \in Conn : SeesState(c)
    BY SomethingSeen
  <1>3. (Inv1 /\ Inv2 /\ Inv3 => \A c \in Conn : SeesStored(c))'
    BY <1>1, PTL
  <1>4. (PageAssumption /\ Inv1 /\ Inv3 => \A c \in Conn : SeesState(c))'
    BY <1>2, PTL
  <1>. QED  BY <1>3, <1>4

-----------------------------------------------------------------------------
(* What a step leaves of what the others see.                              *)

\* The first n frames stay in the log and in the index.
FramesKept(n) ==
    \A f \in 1 .. n : /\ log'[f] = log[f]
                      /\ (f \in DOMAIN index') <=> (f \in DOMAIN index)
                      /\ index'[f] = index[f]

\* A reader who keeps its header and its lock sees the same, if its frames
\* stay and the file changes only in pages it looks for in the log.
LEMMA ViewKept ==
    ASSUME NEW d \in Conn,
           hdr'[d] = hdr[d], readLock'[d] = readLock[d], minFrame'[d] = minFrame[d],
           FromDb(d) => \A p \in Page : db'[p] = db[p],
           ~FromDb(d) =>
              /\ hdr[d].mxFrame \in Nat /\ minFrame[d] \in Nat /\ minFrame[d] > 0
              /\ FramesKept(hdr[d].mxFrame)
              /\ \A p \in Page :
                    db'[p] = db[p] \/ LastFrame(p, minFrame[d], hdr[d].mxFrame) # 0
    PROVE  View(d)' = View(d)
  <1>1. FromDb(d)' <=> FromDb(d)
    BY DEF FromDb
  <1>2. ASSUME NEW p \in Page
        PROVE  View(d)'[p] = View(d)[p]
    <2> DEFINE n == hdr[d].mxFrame
               lo == minFrame[d]
               S == {0} \cup {f \in lo .. n : f \in DOMAIN index /\ index[f] = p}
               T == {0} \cup {f \in lo .. n : f \in DOMAIN index' /\ index'[f] = p}
               m == Max(S)
    <2>1. /\ View(d)[p] = IF FromDb(d) \/ m = 0 THEN db[p] ELSE log[m].tx
          /\ View(d)'[p] = IF FromDb(d)' \/ Max(T) = 0 THEN db'[p] ELSE log'[Max(T)].tx
          /\ LastFrame(p, lo, n) = m
      BY DEF View, LastFrame
    <2>2. CASE FromDb(d)
      BY <1>1, <2>1, <2>2
    <2>3. CASE ~FromDb(d)
      <3>1. /\ n \in Nat /\ lo \in Nat /\ lo > 0 /\ FramesKept(n)
            /\ db'[p] = db[p] \/ m # 0
        BY <2>1, <2>3
      <3>2. S = T
        BY <3>1 DEF FramesKept
      <3>3. S \subseteq 0 .. n /\ S # {} /\ (\A f \in S : f # 0 => f \in lo .. n)
        BY <3>1
      <3> HIDE DEF S, T, n
      <3>4. m \in 0 .. n /\ (m # 0 => m \in lo .. n)
        BY <3>1, <3>3, MaxOfFrames
      <3> HIDE DEF m
      <3>5. m # 0 => log'[m] = log[m]
        BY <3>1, <3>4 DEF FramesKept
      <3>6. Max(T) = m
        BY <3>2 DEF m
      <3>. QED  BY <1>1, <2>1, <2>3, <3>1, <3>5, <3>6
    <2>. QED  BY <2>2, <2>3
  <1>3. IsTable(View(d), Page) /\ IsTable(View(d)', Page)
    BY DEF View, IsTable
  <1>. QED  BY <1>2, <1>3, TablesAgree

\* A reader that does not read the file alone has frames and a mark.
LEMMA ReaderFacts ==
    ASSUME Inv1, Inv3, NEW d \in Conn, pc[d] = "read", ~FromDb(d)
    PROVE  /\ live # NoHdr /\ live.mxFrame \in Nat /\ nBackfill \in Nat
           /\ Reading(d) /\ hdr[d].mxFrame \in Nat /\ hdr[d].mxFrame <= live.mxFrame
           /\ minFrame[d] \in Nat /\ minFrame[d] > 0 /\ minFrame[d] <= nBackfill + 1
  <1>1. Holds(d) /\ ReaderSide(d) /\ readLock[d] \in -1 .. Slots
    BY DEF Inv1, Control, Types, ConnTypes, Inv3, ConnSide
  <1>2. live # NoHdr
    BY <1>1 DEF Holds
  <1>3. readLock[d] > 0
    BY <1>1 DEF Holds, FromDb
  <1>4. Reading(d)
    BY <1>3 DEF Reading
  <1>5. live.mxFrame \in Nat /\ hdr[d].mxFrame \in Nat /\ nBackfill \in Nat
    BY <1>2, HeaderIsHeader DEF Inv1, Types, ConnTypes, SharedTypes
  <1>6. minFrame[d] \in Nat
    BY DEF Inv3, LogSide, StoreTypes
  <1>. QED  BY <1>1, <1>2, <1>3, <1>4, <1>5, <1>6 DEF ReaderSide

\* A transaction's step leaves the file and every committed frame alone.
LEMMA ConnStepFrames ==
    ASSUME WalAssumption, PageAssumption, Inv1, Inv2, Inv3, Inv3', NEW c \in Conn,
           ReadStep(c) \/ WriteStep(c), live # NoHdr
    PROVE  db' = db /\ FramesKept(live.mxFrame)
  <1>1. db' = db
    BY DEF ReadStep, ReadHdr, IgnoreLog, CheckHdr, ChooseSlot, ShareSlot, SetMinFrame, Verify,
           EndRead, WriteStep, BeginWrite, RestartHdr, RestartInfo, KeepLog, WriteLogHdr,
           WriteFrame, Undo, PublishHdr, fileVars
  <1>2. live.mxFrame \in Nat
    BY HeaderIsHeader DEF Inv1, Types, SharedTypes
  <1>3. CASE WriteFrame(c)
    <2> DEFINE n == hdr[c].mxFrame + done + 1
    <2>1. Busy(c) /\ index' = index
      BY <1>3 DEF WriteFrame, Busy, indexVars
    <2>2. /\ hdr[c].mxFrame = live.mxFrame /\ done \in Nat /\ Len(log) \in Nat
          /\ live.mxFrame + done <= Len(log)
      BY <2>1, CommitFacts
    <2>3. n \in Nat \ {0} /\ n > live.mxFrame /\ live.mxFrame <= Len(log)
      BY <1>2, <2>2
    <2>4. log' = WithFrame(n, NextFrame(c))
      BY <1>3 DEF WriteFrame
    <2> HIDE DEF n
    <2>5. /\ Len(log') = IF n > Len(log) THEN n ELSE Len(log)
          /\ \A i \in 1 .. Len(log') : i # n => log'[i] = log[i]
      BY <2>3, <2>4, WithFrameFacts DEF Inv1, Types
    <2>6. \A f \in 1 .. live.mxFrame : f \in 1 .. Len(log') /\ f # n
      BY <1>2, <2>2, <2>3, <2>5
    <2>. QED  BY <1>1, <2>1, <2>5, <2>6 DEF FramesKept
  <1>4. CASE PublishHdr(c)
    <2>1. Busy(c) /\ log' = log
      BY <1>4 DEF PublishHdr, Busy, fileVars
    <2>2. hdr[c].mxFrame = live.mxFrame /\ hdr[c] \in Headers /\ Len(todo) \in Nat
      BY <2>1, CommitFacts
    <2>3. live' = [hdr[c] EXCEPT !.mxFrame = @ + Len(todo)]
      BY <1>4 DEF PublishHdr, Inv1, Types, ConnTypes
    <2>4. live'.mxFrame = live.mxFrame + Len(todo)
      BY <2>2, <2>3 DEF Headers
    <2>5. live'.mxFrame # -1
      BY <1>2, <2>2, <2>4
    <2>6. live' # NoHdr
      BY <2>5 DEF NoHdr, Header
    <2>7. \A f \in 1 .. live.mxFrame : f \in 1 .. live'.mxFrame
      BY <1>2, <2>2, <2>4
    <2>8. \A f \in 1 .. live'.mxFrame : f \in DOMAIN index' /\ index'[f] = log'[f].page
      BY <2>6 DEF Inv3, LogSide, Indexed
    <2>9. \A f \in 1 .. live.mxFrame : f \in DOMAIN index /\ index[f] = log[f].page
      BY DEF Inv3, LogSide, Indexed
    <2>. QED  BY <1>1, <2>1, <2>7, <2>8, <2>9 DEF FramesKept
  <1>5. CASE Undo(c)
    <2>1. SameFrames(log', live.mxFrame) /\ index' = index
      BY <1>5, UndoneFrames DEF Undo, indexVars
    <2>. QED  BY <1>1, <2>1 DEF SameFrames, FramesKept
  <1>6. CASE ~WriteFrame(c) /\ ~PublishHdr(c) /\ ~Undo(c)
    <2>1. log' = log /\ index' = index
      BY <1>6 DEF ReadStep, ReadHdr, IgnoreLog, CheckHdr, ChooseSlot, ShareSlot, SetMinFrame,
         Verify, EndRead, WriteStep, BeginWrite, RestartHdr, RestartInfo, KeepLog, WriteLogHdr,
         fileVars, indexVars
    <2>. QED  BY <1>1, <2>1 DEF FramesKept
  <1>. QED  BY <1>3, <1>4, <1>5, <1>6

\* A reader that does not step sees what it saw.
LEMMA OtherReaders ==
    ASSUME WalAssumption, PageAssumption, Inv1, Inv2, Inv3, Inv3', NEW c \in Conn,
           ReadStep(c) \/ WriteStep(c), NEW d \in Conn \ {c}, pc[d] = "read"
    PROVE  View(d)' = View(d)
  <1>1. hdr'[d] = hdr[d] /\ readLock'[d] = readLock[d]
    BY StepSame DEF Same
  <1>2. minFrame'[d] = minFrame[d]
    BY MinFrameSame DEF Inv3, LogSide
  <1>3. live # NoHdr
    BY DEF Inv1, Control, Holds
  <1>4. db' = db /\ FramesKept(live.mxFrame)
    BY <1>3, ConnStepFrames
  <1>5. ~FromDb(d) =>
           /\ hdr[d].mxFrame \in Nat /\ minFrame[d] \in Nat /\ minFrame[d] > 0
           /\ FramesKept(hdr[d].mxFrame)
    <2> SUFFICES ASSUME ~FromDb(d)
                 PROVE  /\ hdr[d].mxFrame \in Nat /\ minFrame[d] \in Nat /\ minFrame[d] > 0
                        /\ FramesKept(hdr[d].mxFrame)
      OBVIOUS
    <2>1. /\ hdr[d].mxFrame \in Nat /\ minFrame[d] \in Nat /\ minFrame[d] > 0
          /\ live.mxFrame \in Nat /\ hdr[d].mxFrame <= live.mxFrame
      BY ReaderFacts
    <2>2. \A f \in 1 .. hdr[d].mxFrame : f \in 1 .. live.mxFrame
      BY <2>1
    <2>. QED  BY <1>4, <2>1, <2>2 DEF FramesKept
  <1>. QED  BY <1>1, <1>2, <1>4, <1>5, ViewKept

-----------------------------------------------------------------------------
(* What a transaction's step leaves of what is stored.                     *)

\* While a commit waits for its header nobody else touches the log.
LEMMA PublisherAlone ==
    ASSUME WalAssumption, Inv1, NEW e \in Conn, pc[e] = "publish", NEW c \in Conn,
           ReadStep(c) \/ WriteStep(c), ~PublishHdr(c)
    PROVE  UNCHANGED <<fileVars, live, todo, txs>> /\ pc'[e] = "publish" /\ live # NoHdr
  <1>1. writer = e /\ live # NoHdr /\ Nobody \notin Conn
    BY SlotsAndConns DEF Inv1, LocksExclude, Writing, Control, Holds
  <1>2. c # e
    BY DEF ReadStep, ReadHdr, IgnoreLog, CheckHdr, ChooseSlot, ShareSlot, SetMinFrame, Verify,
           EndRead, WriteStep, BeginWrite, RestartHdr, RestartInfo, KeepLog, WriteLogHdr,
           WriteFrame, Undo
  <1>3. pc'[e] = pc[e]
    BY <1>2, StepSame DEF Same
  <1>4. CASE ReadStep(c)
    BY <1>1, <1>3, <1>4 DEF ReadStep, ReadHdr, IgnoreLog, CheckHdr, ChooseSlot, ShareSlot,
       SetMinFrame, Verify, EndRead, indexVars, writeVars
  <1>5. ~WriteStep(c)
    <2>1. ~Writing(c) /\ writer # Nobody
      BY <1>1, <1>2 DEF Inv1, LocksExclude
    <2>. QED  BY <2>1 DEF WriteStep, BeginWrite, RestartHdr, RestartInfo, KeepLog, WriteLogHdr,
              WriteFrame, Undo, PublishHdr, Writing
  <1>. QED  BY <1>1, <1>3, <1>4, <1>5

\* A frame, written or cut short, changes nothing of what is stored.
LEMMA FrameStored ==
    ASSUME WalAssumption, PageAssumption, Inv1, Inv2, Inv3, Inv3', NEW c \in Conn,
           WriteFrame(c) \/ Undo(c)
    PROVE  Stored' = Stored
  <1>0. ReadStep(c) \/ WriteStep(c)
    BY DEF WriteStep
  <1>1. live # NoHdr /\ live.mxFrame \in Nat
    BY CommitFacts, UndoneFrames DEF WriteFrame, Busy
  <1>2. live' = live
    BY DEF WriteFrame, Undo, indexVars
  <1>3. db' = db /\ FramesKept(live.mxFrame)
    BY <1>0, <1>1, ConnStepFrames
  <1>4. IsTable(db, Page)
    BY DEF Inv3, LogSide, StoreTypes, IsTable
  <1> DEFINE mx == live.mxFrame
  <1>5. Stored = Overlaid(log, db, mx) /\ Stored' = Overlaid(log', db, mx)
    BY <1>1, <1>2, <1>3 DEF Stored, Overlay
  <1>6. \A f \in 1 .. mx : log'[f].page = log[f].page /\ log'[f].tx = log[f].tx
    BY <1>3 DEF FramesKept
  <1>7. mx \in Nat
    BY <1>1
  <1> HIDE DEF mx
  <1>8. Overlaid(log', db, mx) = Overlaid(log, db, mx)
    BY <1>4, <1>6, <1>7, OverlaidSame
  <1>. QED  BY <1>5, <1>8

\* Unless it writes a frame or the header, it changes nothing of what is
\* stored or offered.
LEMMA QuietStored ==
    ASSUME WalAssumption, PageAssumption, Inv1, Inv2, Inv3, Inv3', NEW c \in Conn,
           ReadStep(c) \/ WriteStep(c), ~PublishHdr(c), ~WriteFrame(c)
    PROVE  Stored' = Stored /\ Offered' = Offered
  <1>1. CASE Publishing
    <2>1. PICK e \in Conn : pc[e] = "publish"
      BY <1>1 DEF Publishing
    <2>2. UNCHANGED <<fileVars, live, todo, txs>> /\ pc'[e] = "publish"
      BY <2>1, PublisherAlone
    <2>3. Stored' = Stored
      BY <2>2, StoredKept
    <2>4. Offered = [p \in Page |-> IF p \in Range(todo) THEN txs ELSE Stored[p]]
      BY <2>1 DEF Offered
    <2>5. Offered' = [p \in Page |-> IF p \in Range(todo') THEN txs' ELSE Stored'[p]]
      BY <2>2 DEF Offered
    <2>. QED  BY <2>2, <2>3, <2>4, <2>5
  <1>2. CASE ~Publishing
    <2>1. ~Publishing'
      <3>1. pc'[c] # "publish"
        BY DEF Inv1, Types, ConnTypes, ReadStep, ReadHdr, IgnoreLog, CheckHdr, ChooseSlot,
               ShareSlot, SetMinFrame, Verify, EndRead, Retry, Leave, WriteStep, BeginWrite,
               RestartHdr, RestartInfo, KeepLog, WriteLogHdr, Undo, FirstWrite
      <3>2. \A d \in Conn \ {c} : pc'[d] = pc[d]
        BY StepSame DEF Same
      <3>. QED  BY <1>2, <3>1, <3>2 DEF Publishing
    <2>2. Stored' = Stored
      <3>1. CASE Undo(c)
        BY <3>1, FrameStored
      <3>2. CASE ~Undo(c)
        <4>1. log' = log /\ db' = db
          BY <3>2 DEF ReadStep, ReadHdr, IgnoreLog, CheckHdr, ChooseSlot, ShareSlot,
             SetMinFrame, Verify, EndRead, WriteStep, BeginWrite, RestartHdr, RestartInfo,
             KeepLog, WriteLogHdr, fileVars
        <4>2. Overlay(EndOf(log)) = Stored
          BY <1>2 DEF Inv3, LogSide, Safe
        <4>3. Overlay(EndOf(log))' = Stored'
          BY <2>1 DEF Inv3, LogSide, Safe
        <4>4. Overlay(EndOf(log))' = Overlay(EndOf(log))
          BY <4>1 DEF Overlay
        <4>. QED  BY <4>2, <4>3, <4>4
      <3>. QED  BY <3>1, <3>2
    <2>3. Offered = NoView /\ Offered' = NoView
      BY <1>2, <2>1 DEF Offered, Publishing, NoView
    <2>. QED  BY <2>2, <2>3
  <1>. QED  BY <1>1, <1>2

\* WRITE_LOCK is not taken from its holder.
LEMMA WriterKept ==
    ASSUME WalAssumption, Inv1, NEW c \in Conn, ReadStep(c) \/ WriteStep(c),
           NEW d \in Conn \ {c}, writer = d
    PROVE  writer' = d /\ ~WriteFrame(c) /\ ~PublishHdr(c)
  <1>1. ~Writing(c) /\ writer # Nobody
    BY SlotsAndConns DEF Inv1, LocksExclude
  <1>2. ~WriteStep(c)
    BY <1>1 DEF WriteStep, BeginWrite, RestartHdr, RestartInfo, KeepLog, WriteLogHdr,
                WriteFrame, Undo, PublishHdr, Writing
  <1>3. writer' = writer
    BY <1>2 DEF ReadStep, ReadHdr, IgnoreLog, CheckHdr, ChooseSlot, ShareSlot, SetMinFrame,
                Verify, EndRead, writeVars
  <1>. QED  BY <1>2, <1>3 DEF WriteStep

\* As long as the present state stays, a writer sees the same.
LEMMA WriterSees ==
    ASSUME Inv1, Inv2, Inv3, Inv1', Inv2', Inv3', NEW d \in Conn, writer = d, writer' = d,
           Stored' = Stored
    PROVE  Seen(d)' = Seen(d)
  <1>1. Seen(d) = Stored
    BY ViewIsStored DEF SeesStored
  <1>2. Seen(d)' = Stored'
    BY SeesNext DEF SeesStored
  <1>. QED  BY <1>1, <1>2

\* Outside a write transaction one is in a transaction while one reads.
LEMMA ReaderIn ==
    ASSUME Inv1, NEW d \in Conn, writer # d
    PROVE  /\ InTransaction(d) <=> pc[d] = "read"
           /\ Seen(d) = IF pc[d] = "read" THEN View(d) ELSE NoView
  <1>1. ~Writing(d)
    BY DEF Inv1, LocksExclude
  <1>2. InTransaction(d) <=> pc[d] = "read"
    BY <1>1 DEF InTransaction, UseWal, Writing
  <1>. QED  BY <1>2 DEF Seen

\* Also in the next state.
LEMMA ReaderInNext ==
    (Inv1 => \A d \in Conn : writer # d =>
                /\ InTransaction(d) <=> pc[d] = "read"
                /\ Seen(d) = IF pc[d] = "read" THEN View(d) ELSE NoView)'
  <1>1. Inv1 => \A d \in Conn : writer # d =>
                   /\ InTransaction(d) <=> pc[d] = "read"
                   /\ Seen(d) = IF pc[d] = "read" THEN View(d) ELSE NoView
    BY ReaderIn
  <1>. QED  BY <1>1, PTL

\* A transaction's step changes nothing of what the others see.
LEMMA OthersSee ==
    ASSUME WalAssumption, PageAssumption, Inv1, Inv2, Inv3, Inv1', Inv2', Inv3',
           NEW c \in Conn, ReadStep(c) \/ WriteStep(c), NEW d \in Conn \ {c}
    PROVE  Seen(d)' = Seen(d)
  <1>1. CASE writer = d
    <2>1. writer' = d /\ Stored' = Stored
      BY <1>1, WriterKept, QuietStored
    <2>. QED  BY <1>1, <2>1, WriterSees
  <1>2. CASE writer # d
    <2>1. writer' # d
      BY <1>2, MinFrameSame DEF Inv3, LogSide
    <2>2. pc'[d] = pc[d]
      BY StepSame DEF Same
    <2>3. Seen(d) = IF pc[d] = "read" THEN View(d) ELSE NoView
      BY <1>2, ReaderIn
    <2>4. Seen(d)' = IF pc'[d] = "read" THEN View(d)' ELSE NoView
      BY <2>1, ReaderInNext DEF NoView
    <2>5. pc[d] = "read" => View(d)' = View(d)
      BY OtherReaders
    <2>. QED  BY <2>2, <2>3, <2>4, <2>5
  <1>. QED  BY <1>1, <1>2

\* Its own connection goes on seeing what it saw, begins to see the present
\* state, or ends.
LEMMA OwnSees ==
    ASSUME WalAssumption, PageAssumption, Inv1, Inv2, Inv3, Inv1', Inv2', Inv3',
           NEW c \in Conn, ReadStep(c) \/ WriteStep(c), ~PublishHdr(c), Stored' = Stored
    PROVE  \/ Seen(c)' = Seen(c)
           \/ Seen(c) = NoView /\ Seen(c)' = Stored /\ InTransaction(c)'
           \/ InTransaction(c) /\ Seen(c)' = NoView
  <1>0. /\ pc \in [Conn -> PCs] /\ hdr \in [Conn -> Headers] /\ Nobody # c /\ Holds(c)
        /\ writer \in Conn \cup {Nobody}
    BY SlotsAndConns DEF Inv1, Types, ConnTypes, WriterTypes, Control
  <1>1. CASE writer = c /\ writer' = c
    BY <1>1, WriterSees
  <1>2. CASE writer # c /\ writer' # c
    <2>1. /\ Seen(c) = IF pc[c] = "read" THEN View(c) ELSE NoView
          /\ Seen(c)' = IF pc'[c] = "read" THEN View(c)' ELSE NoView
          /\ InTransaction(c) <=> pc[c] = "read"
          /\ InTransaction(c)' <=> pc'[c] = "read"
      BY <1>2, ReaderIn, ReaderInNext DEF NoView
    <2>2. CASE pc'[c] # "read"
      BY <2>1, <2>2
    <2>3. CASE pc'[c] = "read"
      <3>1. /\ pc[c] \in {"check", "verify"} /\ hdr' = hdr /\ live' = live /\ hdr[c] = live
        BY <1>0, <2>3 DEF ReadStep, ReadHdr, IgnoreLog, CheckHdr, ChooseSlot, ShareSlot,
           SetMinFrame, Verify, EndRead, Retry, Leave, StillValid, FirstWrite, UseWal,
           WriteStep, BeginWrite, RestartHdr, RestartInfo, KeepLog, WriteLogHdr, WriteFrame,
           Undo, indexVars
      <3>2. Seen(c)' = Stored'
        BY <2>3, <3>1, SeesNext DEF SeesStored
      <3>. QED  BY <2>1, <2>3, <3>1, <3>2
    <2>. QED  BY <2>2, <2>3
  <1>3. CASE writer # c /\ writer' = c
    <2>1. pc[c] = "read" /\ hdr[c] = live
      BY <1>0, <1>3 DEF ReadStep, ReadHdr, IgnoreLog, CheckHdr, ChooseSlot, ShareSlot,
         SetMinFrame, Verify, EndRead, WriteStep, BeginWrite, CanWrite, RestartHdr,
         RestartInfo, KeepLog, WriteLogHdr, WriteFrame, Undo, writeVars
    <2>2. Seen(c) = Stored
      BY <2>1, ViewIsStored DEF SeesStored
    <2>3. Seen(c)' = Stored'
      BY <1>3, SeesNext DEF SeesStored
    <2>. QED  BY <2>2, <2>3
  <1>4. CASE writer = c /\ writer' # c
    <2>1. pc'[c] = "idle"
      BY <1>0, <1>4 DEF ReadStep, ReadHdr, IgnoreLog, CheckHdr, ChooseSlot, ShareSlot,
         SetMinFrame, Verify, EndRead, Leave, WriteStep, BeginWrite, RestartHdr,
         RestartInfo, KeepLog, WriteLogHdr, WriteFrame, Undo, writeVars
    <2>2. Seen(c)' = IF pc'[c] = "read" THEN View(c)' ELSE NoView
      BY <1>4, ReaderInNext DEF NoView
    <2>3. InTransaction(c)
      BY <1>4 DEF InTransaction, UseWal
    <2>. QED  BY <2>1, <2>2, <2>3
  <1>. QED  BY <1>1, <1>2, <1>3, <1>4

-----------------------------------------------------------------------------
(* Every step maps to one of the store or to none.                         *)

\* What the connections see, as the store has it.
OthersKeep(c) == \A d \in Conn \ {c} : Seen(d)' = Seen(d)

\* A transaction begins.
LEMMA BeginMaps ==
    ASSUME NEW c \in Conn, OthersKeep(c), Stored' = Stored, Offered' = Offered,
           Seen(c) = NoView, Seen(c)' = Stored, Stored # NoView
    PROVE  Store!Begin(c)
  <1> DEFINE v == [d \in Conn |-> Seen(d)]
  <1>1. \A d \in Conn : Seen(d)' = IF d = c THEN Stored ELSE Seen(d)
    BY DEF OthersKeep
  <1>2. v' = [d \in Conn |-> IF d = c THEN Stored ELSE Seen(d)]
    BY <1>1
  <1>3. v' = [v EXCEPT ![c] = Stored]
    BY <1>2
  <1>4. v[c] = NoView /\ v'[c] # NoView
    BY <1>2
  <1>. QED  BY <1>3, <1>4 DEF Store!Begin

\* It ends.
LEMMA EndMaps ==
    ASSUME NEW c \in Conn, OthersKeep(c), Stored' = Stored, Offered' = Offered,
           Seen(c) # NoView, Seen(c)' = NoView
    PROVE  Store!End(c)
  <1> DEFINE v == [d \in Conn |-> Seen(d)]
  <1>1. \A d \in Conn : Seen(d)' = IF d = c THEN NoView ELSE Seen(d)
    BY DEF OthersKeep
  <1>2. v' = [d \in Conn |-> IF d = c THEN NoView ELSE Seen(d)]
    BY <1>1
  <1>3. v' = [v EXCEPT ![c] = NoView]
    BY <1>2
  <1>4. v[c] # NoView /\ v'[c] = NoView
    BY <1>2
  <1>. QED  BY <1>3, <1>4 DEF Store!End

\* The store stays as it is.
LEMMA NothingMaps ==
    ASSUME NEW c \in Conn, OthersKeep(c), Stored' = Stored, Offered' = Offered,
           Seen(c)' = Seen(c)
    PROVE  UNCHANGED Store!vars
  BY DEF Store!vars, OthersKeep

\* A transaction's step that neither writes a frame nor the header.
LEMMA QuietMaps ==
    ASSUME WalAssumption, PageAssumption, Inv1, Inv2, Inv3, Inv1', Inv2', Inv3',
           NEW c \in Conn, ReadStep(c) \/ WriteStep(c), ~PublishHdr(c), ~WriteFrame(c)
    PROVE  [Store!Next]_Store!vars
  <1>1. Stored' = Stored /\ Offered' = Offered
    BY QuietStored
  <1>2. OthersKeep(c)
    BY OthersSee DEF OthersKeep
  <1>3. InTransaction(c) => Seen(c) # NoView
    BY SomethingSeen DEF SeesState
  <1>4. InTransaction(c)' => Seen(c)' # NoView
    BY SeesNext DEF SeesState, NoView, PageAssumption
  <1>5. CASE Seen(c)' = Seen(c)
    BY <1>1, <1>2, <1>5, NothingMaps
  <1>6. CASE Seen(c) = NoView /\ Seen(c)' = Stored /\ InTransaction(c)'
    BY <1>1, <1>2, <1>4, <1>6, BeginMaps DEF Store!Next
  <1>7. CASE InTransaction(c) /\ Seen(c)' = NoView
    BY <1>1, <1>2, <1>3, <1>7, EndMaps DEF Store!Next
  <1>. QED  BY <1>1, <1>5, <1>6, <1>7, OwnSees

\* A frame changes nothing that is seen, but the last asks for the commit.
LEMMA FrameMaps ==
    ASSUME WalAssumption, PageAssumption, Inv1, Inv2, Inv3, Inv1', Inv2', Inv3',
           NEW c \in Conn, WriteFrame(c)
    PROVE  [Store!Next]_Store!vars
  <1>0. ReadStep(c) \/ WriteStep(c)
    BY DEF WriteStep
  <1>1. Busy(c) /\ pc[c] = "frames" /\ LogSide /\ OwnOf(c)
    BY DEF WriteFrame, Busy, Inv3, LogSide, Own
  <1>2. /\ live # NoHdr /\ live.mxFrame \in Nat /\ writer = c /\ hdr[c].mxFrame = live.mxFrame
        /\ \A d \in Conn \ {c} : ~Busy(d)
        /\ todo \in Seq(Page) /\ Len(todo) \in Nat /\ Len(todo) > 0
    BY <1>1, CommitFacts
  <1>3. /\ UNCHANGED <<todo, txs, writer>>
        /\ pc'[c] = IF done' = Len(todo) THEN "publish" ELSE "frames"
    BY DEF WriteFrame, Inv1, Types, ConnTypes
  <1>4. Stored' = Stored /\ OthersKeep(c)
    BY <1>0, FrameStored, OthersSee DEF OthersKeep
  <1>5. Seen(c)' = Seen(c)
    BY <1>2, <1>3, <1>4, WriterSees
  <1>6. \A d \in Conn \ {c} : pc'[d] # "publish"
    BY <1>0, <1>2, StepSame DEF Same, Busy
  <1>7. Offered = NoView
    BY <1>1, <1>2 DEF Offered, Busy
  <1>8. CASE pc'[c] # "publish"
    <2>1. Offered' = NoView
      BY <1>6, <1>8 DEF Offered, NoView
    <2>. QED  BY <1>4, <1>5, <1>7, <2>1, NothingMaps
  <1>9. CASE pc'[c] = "publish"
    <2> DEFINE W == Range(todo)
    <2>1. Offered' = [p \in Page |-> IF p \in W THEN txs ELSE Stored[p]]
      BY <1>3, <1>4, <1>9 DEF Offered
    <2>2. /\ txs \in 1 .. MaxTx /\ \A p \in Page : db[p] < txs
          /\ \A f \in DOMAIN log : f <= live.mxFrame => log[f].tx < txs
      <3>1. FreshOf(c) /\ txs \in 0 .. MaxTx /\ MaxTx \in Nat
        BY <1>1 DEF LogSide, StoreTypes, Fresh, WalAssumption
      <3>2. /\ txs > 0 /\ \A p \in Page : db[p] < txs
            /\ \A f \in DOMAIN log : f <= hdr[c].mxFrame => log[f].tx < txs
        BY <1>1, <1>2, <3>1 DEF FreshOf
      <3>. QED  BY <1>2, <3>1, <3>2
    <2>3. todo[1] \in W /\ W \subseteq Page
      BY <1>2 DEF Range
    <2>4. Offered'[todo[1]] = txs /\ NoView[todo[1]] = -2
      BY <2>1, <2>3 DEF NoView
    <2>5. Offered' # NoView
      BY <2>2, <2>4
    <2>6. ASSUME NEW p \in Page
          PROVE  Stored[p] < txs
      <3> DEFINE mx == live.mxFrame
      <3>1. Stored = Overlaid(log, db, mx)
        BY <1>2 DEF Stored, Overlay
      <3>2. /\ mx \in Nat /\ mx <= Len(log) /\ IsTable(db, Page)
            /\ Len(log) \in Nat /\ DOMAIN log = 1 .. Len(log)
        BY <1>1, <1>2 DEF Inv3, Bounds, SharedBounds, LogSide, StoreTypes, IsTable, Inv1, Types,
                          LogTypes
      <3>3. \A f \in 1 .. mx : log[f].tx < txs
        BY <2>2, <3>2
      <3> HIDE DEF mx
      <3>4. PICK f : IsLast(log, p, mx, f)
        BY <3>2, LastExists
      <3>5. ShowsLast(log, db, mx, Page, Overlaid(log, db, mx))
        BY <3>2, OverlaidFacts
      <3>6. Stored[p] = IF f = 0 THEN db[p] ELSE log[f].tx
        BY <3>1, <3>4, <3>5 DEF ShowsLast
      <3>7. f \in 0 .. mx
        BY <3>4 DEF IsLast
      <3>. QED  BY <2>2, <3>2, <3>3, <3>6, <3>7
    <2>7. Seen(c) = Stored
      BY <1>2, ViewIsStored DEF SeesStored
    <2>8. [d \in Conn |-> Seen(d)]' = [d \in Conn |-> Seen(d)]
      BY <1>4, <1>5 DEF OthersKeep
    <2> HIDE DEF W
    <2>9. W \in (SUBSET Page) \ {{}}
      BY <2>3
    <2>10. Store!Offer(c)
      BY <1>4, <1>7, <2>1, <2>2, <2>5, <2>6, <2>7, <2>8, <2>9 DEF Store!Offer
    <2>. QED  BY <2>10 DEF Store!Next
  <1>. QED  BY <1>8, <1>9

\* The header commits.
LEMMA HeaderMaps ==
    ASSUME WalAssumption, PageAssumption, Inv1, Inv2, Inv3, Inv1', Inv2', Inv3',
           NEW c \in Conn, PublishHdr(c)
    PROVE  [Store!Next]_Store!vars
  <1>0. ReadStep(c) \/ WriteStep(c)
    BY DEF WriteStep
  <1>1. Busy(c) /\ pc[c] = "publish" /\ pc'[c] = "committed" /\ log' = log /\ db' = db
        /\ writer' = writer
    BY DEF PublishHdr, Busy, fileVars, Inv1, Types, ConnTypes
  <1>2. writer = c /\ \A d \in Conn \ {c} : ~Busy(d)
    BY <1>1, CommitFacts
  <1>3. Publishing /\ ~Publishing'
    <2>1. \A d \in Conn \ {c} : pc'[d] # "publish"
      BY <1>0, <1>2, StepSame DEF Same, Busy
    <2>. QED  BY <1>1, <2>1 DEF Publishing
  <1>4. Offered = Ahead /\ Offered' = NoView
    BY <1>3 DEF Offered, Publishing, Ahead, NoView
  <1>5. Stored' = Ahead
    <2>1. Overlay(EndOf(log)) = Ahead
      BY <1>3 DEF Inv3, LogSide, Safe
    <2>2. Overlay(EndOf(log))' = Stored'
      BY <1>3 DEF Inv3, LogSide, Safe
    <2>3. Overlay(EndOf(log))' = Overlay(EndOf(log))
      BY <1>1 DEF Overlay
    <2>. QED  BY <2>1, <2>2, <2>3
  <1>6. Seen(c) = Stored /\ Seen(c)' = Stored'
    BY <1>1, <1>2, ViewIsStored, SeesNext DEF SeesStored
  <1>7. InTransaction(c)'
    BY <1>1 DEF InTransaction
  <1>8. Stored' # NoView
    BY <1>6, <1>7, SeesNext DEF SeesState, NoView, PageAssumption
  <1>9. \A d \in Conn : Seen(d)' = IF d = c THEN Offered ELSE Seen(d)
    BY <1>0, <1>4, <1>5, <1>6, OthersSee
  <1> DEFINE v == [d \in Conn |-> Seen(d)]
  <1>10. v' = [v EXCEPT ![c] = Offered]
    BY <1>9
  <1>11. v[c] = Stored
    BY <1>6
  <1>12. Store!Commit(c)
    BY <1>4, <1>5, <1>8, <1>10, <1>11 DEF Store!Commit
  <1>. QED  BY <1>12 DEF Store!Next

\* A kill loses at most what has been asked for.
LEMMA KillMaps ==
    ASSUME WalAssumption, PageAssumption, Inv1, Inv2, Inv3, Inv1', Kill
    PROVE  [Store!Next]_Store!vars
  <1>1. pc' = [d \in Conn |-> "idle"] /\ writer' = Nobody /\ Nobody \notin Conn
    BY SlotsAndConns DEF Kill
  <1>2. \A d \in Conn : Seen(d)' = NoView
    BY <1>1, ReaderInNext DEF NoView
  <1>3. Offered' = NoView
    BY <1>1 DEF Offered, NoView
  <1>4. Stored' = IF Publishing THEN Ahead ELSE Stored
    BY KillStored DEF Inv3, LogSide, Safe
  <1>5. Offered = IF Publishing THEN Ahead ELSE NoView
    BY DEF Offered, Publishing, Ahead
  <1>6. Stored' \in {Stored, IF Offered = NoView THEN Stored ELSE Offered}
    <2>1. Publishing => Offered # NoView
      <3> SUFFICES ASSUME NEW c \in Conn, pc[c] = "publish"
                   PROVE  Offered # NoView
        BY DEF Publishing
      <3>1. Busy(c)
        BY DEF Busy
      <3>2. todo \in Seq(Page) /\ Len(todo) > 0 /\ Len(todo) \in Nat
        BY <3>1, CommitFacts
      <3>3. todo[1] \in Range(todo) /\ todo[1] \in Page
        BY <3>2 DEF Range
      <3>4. Offered[todo[1]] = txs /\ NoView[todo[1]] = -2
        BY <3>3 DEF Offered, NoView
      <3>. QED  BY <3>4 DEF Inv3, LogSide, StoreTypes
    <2>. QED  BY <1>4, <1>5, <2>1
  <1> DEFINE v == [d \in Conn |-> Seen(d)]
  <1>7. v' = [d \in Conn |-> NoView]
    BY <1>2
  <1>8. Store!Kill
    BY <1>3, <1>6, <1>7 DEF Store!Kill
  <1>. QED  BY <1>8 DEF Store!Next

\* A checkpoint changes only pages of the file that it copies.
LEMMA CopiedPages ==
    ASSUME PageAssumption, Inv1, Inv2, Inv3, CkptStep
    PROVE  /\ db' \in [Page -> Int]
           /\ \A p \in Page :
                 db'[p] = db[p] \/ /\ ckpt.pc = "copy" /\ IsCopied(ckpt.iter[p])
                                   /\ ToCopy(p, db'[p])
  <1>1. db \in [Page -> Int] /\ ckpt.left \subseteq Page
    BY DEF Inv3, LogSide, StoreTypes, CkptSide
  <1>2. CASE db' = db
    BY <1>1, <1>2
  <1>3. CASE db' # db
    <2> DEFINE p == Min(ckpt.left)
               f == ckpt.iter[p]
    <2>1. CkptCopy \/ CkptFails
      BY <1>3 DEF CkptStep, CkptReadHdr, CkptTest, CkptMark, CkptLock0, CkptDone, CkptUnlock,
                  fileVars
    <2>2. ckpt.pc = "copy" /\ p \in Page
      BY <1>1, <2>1, NextPage DEF CkptCopy, CkptFails
    <2>3. /\ IsCopied(f)
          /\ \E tx \in {log[f].tx, TornPage} : db' = [db EXCEPT ![p] = tx]
      BY <1>3, <2>1 DEF CkptCopy, CkptFails, HalfCopied
    <2>4. PICK tx \in {log[f].tx, TornPage} : db' = [db EXCEPT ![p] = tx]
      BY <2>3
    <2>5. f \in nBackfill + 1 .. live.mxFrame /\ log[f].page = p
      <3> HIDE DEF p
      <3>. QED  BY <2>2, <2>3, CopiedFrame
    <2>6. f \in DOMAIN log
      <3>1. /\ live # NoHdr /\ live.mxFrame \in Nat /\ live.mxFrame <= Len(log)
            /\ nBackfill \in Nat /\ Len(log) \in Nat /\ DOMAIN log = 1 .. Len(log)
        BY <2>2, HeaderIsHeader DEF Inv1, Control, Types, SharedTypes, LogTypes, Inv3, Bounds,
           SharedBounds
      <3>. QED  BY <2>5, <3>1
    <2>7. tx \in Int
      BY <2>6 DEF Inv3, LogSide, StoreTypes, Frames, TornPage
    <2> HIDE DEF p, f
    <2>8. db' \in [Page -> Int] /\ db'[p] = tx /\ \A q \in Page : q # p => db'[q] = db[q]
      BY <1>1, <2>2, <2>4, <2>7
    <2>9. ToCopy(p, db'[p])
      BY <2>4, <2>5, <2>8 DEF ToCopy
    <2>. QED  BY <2>2, <2>3, <2>8, <2>9 DEF f
  <1>. QED  BY <1>2, <1>3

\* It leaves the header alone, unless it has to recover.
LEMMA CkptFrames ==
    ASSUME CkptStep
    PROVE  /\ UNCHANGED <<logHdr, log, connVars, writeVars>>
           /\ live # NoHdr => UNCHANGED <<live, index>>
           /\ live = NoHdr /\ ckpt.pc = "idle" => db' = db
  BY DEF CkptStep, CkptReadHdr, CkptTest, CkptMark, CkptLock0, CkptCopy, CkptFails, CkptDone,
         CkptUnlock, fileVars, indexVars

\* A checkpoint changes nothing of what is stored or offered.
LEMMA CkptStored ==
    ASSUME WalAssumption, PageAssumption, Inv1, Inv2, Inv3, Inv3', CkptStep
    PROVE  Stored' = Stored /\ Offered' = Offered
  <1>1. UNCHANGED <<log, pc, todo, txs>>
    BY CkptFrames DEF connVars, writeVars
  <1>2. Stored' = Stored
    <2>1. CASE live = NoHdr
      <3>1. ~Publishing /\ ~Publishing' /\ ckpt.pc = "idle"
        BY <1>1, <2>1 DEF Publishing, Inv1, Control, Holds
      <3>2. db' = db
        BY <2>1, <3>1, CkptFrames
      <3>3. Overlay(EndOf(log)) = Stored
        BY <3>1 DEF Inv3, LogSide, Safe
      <3>4. Overlay(EndOf(log))' = Stored'
        BY <3>1 DEF Inv3, LogSide, Safe
      <3>5. Overlay(EndOf(log))' = Overlay(EndOf(log))
        BY <1>1, <3>2 DEF Overlay
      <3>. QED  BY <3>3, <3>4, <3>5
    <2>2. CASE live # NoHdr
      <3> DEFINE mx == live.mxFrame
      <3>1. CopyOf(db')
        BY <2>2, CopiedPages DEF CopyOf
      <3>2. mx \in Nat /\ mx >= live.mxFrame
        BY <2>2, HeaderIsHeader DEF Inv1, Types, SharedTypes
      <3>3. SameFrames(log, mx)
        BY DEF SameFrames
      <3>4. live' = live
        BY <2>2, CkptFrames
      <3>5. Stored = Overlaid(log, db, mx) /\ Stored' = Overlaid(log, db', mx)
        BY <1>1, <2>2, <3>4 DEF Stored, Overlay
      <3> HIDE DEF mx
      <3>6. Overlaid(log, db', mx) = Overlaid(log, db, mx)
        BY <2>2, <3>1, <3>2, <3>3, CopySame
      <3>. QED  BY <3>5, <3>6
    <2>. QED  BY <2>1, <2>2
  <1>3. CASE Publishing
    BY <1>1, <1>2, <1>3 DEF Offered, Publishing
  <1>4. CASE ~Publishing
    <2>1. \A c \in Conn : pc[c] # "publish" /\ pc'[c] # "publish"
      BY <1>1, <1>4 DEF Publishing
    <2>2. Offered = NoView
      BY <2>1 DEF Offered
    <2>3. Offered' = NoView
      BY <2>1 DEF Offered, NoView
    <2>. QED  BY <1>2, <2>2, <2>3
  <1>. QED  BY <1>2, <1>3, <1>4

\* Nor of what a reader sees: what is copied lies within its log.
LEMMA CkptReaders ==
    ASSUME WalAssumption, PageAssumption, Inv1, Inv2, Inv3, CkptStep, NEW d \in Conn,
           pc[d] = "read"
    PROVE  View(d)' = View(d)
  <1>1. live # NoHdr
    BY DEF Inv1, Control, Holds
  <1>2. /\ hdr'[d] = hdr[d] /\ readLock'[d] = readLock[d] /\ minFrame'[d] = minFrame[d]
        /\ log' = log /\ index' = index
    BY <1>1, CkptFrames DEF connVars
  <1>3. ASSUME FromDb(d), NEW p \in Page
        PROVE  db'[p] = db[p]
    <2> SUFFICES ASSUME ckpt.pc = "copy"
                 PROVE  FALSE
      BY CopiedPages
    <2>1. readLock[d] # 0 /\ readLock[d] # -1 /\ readLock[d] \in -1 .. Slots
      BY DEF Inv1, LocksExclude, Control, Holds, Types, ConnTypes
    <2>2. Reading(d) /\ hdr[d].mxFrame = 0
      BY <1>3, <2>1 DEF Reading, FromDb
    <2>3. ckpt.mxSafeFrame <= 0
      BY <2>2, AgreeIsSafe DEF MarksAreSafe
    <2>4. nBackfill < ckpt.mxSafeFrame /\ nBackfill \in Nat /\ ckpt.mxSafeFrame \in Nat
      BY DEF Inv3, CkptSide, Inv1, Types, SharedTypes, CkptTypes
    <2>. QED  BY <2>3, <2>4
  <1>4. ASSUME ~FromDb(d)
        PROVE  /\ hdr[d].mxFrame \in Nat /\ minFrame[d] \in Nat /\ minFrame[d] > 0
               /\ FramesKept(hdr[d].mxFrame)
               /\ \A p \in Page :
                     db'[p] = db[p] \/ LastFrame(p, minFrame[d], hdr[d].mxFrame) # 0
    <2> DEFINE n == hdr[d].mxFrame
               lo == minFrame[d]
    <2>1. /\ live.mxFrame \in Nat /\ nBackfill \in Nat /\ Reading(d)
          /\ n \in Nat /\ n <= live.mxFrame
          /\ lo \in Nat /\ lo > 0 /\ lo <= nBackfill + 1
      BY <1>4, ReaderFacts
    <2>2. FramesKept(n)
      BY <1>2 DEF FramesKept
    <2>3. ASSUME NEW p \in Page, db'[p] # db[p]
          PROVE  LastFrame(p, lo, n) # 0
      <3> DEFINE f == ckpt.iter[p]
                 S == {0} \cup {g \in lo .. n : g \in DOMAIN index /\ index[g] = p}
      <3>1. ckpt.pc = "copy" /\ IsCopied(f)
        BY <2>3, CopiedPages
      <3>2. f \in nBackfill + 1 .. live.mxFrame /\ log[f].page = p
        BY <3>1, CopiedFrame
      <3>3. f <= ckpt.mxSafeFrame /\ ckpt.mxSafeFrame <= n /\ ckpt.mxSafeFrame \in Nat
        BY <2>1, <3>1, AgreeIsSafe DEF MarksAreSafe, IsCopied, Inv1, Types, CkptTypes
      <3>4. f \in lo .. n /\ f \in 1 .. live.mxFrame
        BY <2>1, <3>2, <3>3
      <3>5. f \in DOMAIN index /\ index[f] = p
        BY <1>1, <3>2, <3>4 DEF Inv3, LogSide, Indexed
      <3>6. f \in S /\ S \subseteq 0 .. n /\ S # {} /\ f > 0
        BY <2>1, <3>4, <3>5
      <3>7. LastFrame(p, lo, n) = Max(S)
        BY DEF LastFrame
      <3> HIDE DEF S, n
      <3>8. f <= Max(S)
        BY <2>1, <3>6, MaxOfFrames
      <3>. QED  BY <3>4, <3>6, <3>7, <3>8
    <2>. QED  BY <2>1, <2>2, <2>3
  <1>. QED  BY <1>2, <1>3, <1>4, ViewKept

\* So the store stays as it is.
LEMMA CkptMaps ==
    ASSUME WalAssumption, PageAssumption, Inv1, Inv2, Inv3, Inv1', Inv2', Inv3', CkptStep
    PROVE  UNCHANGED Store!vars
  <1>1. Stored' = Stored /\ Offered' = Offered
    BY CkptStored
  <1>2. UNCHANGED <<pc, writer>>
    BY CkptFrames DEF connVars, writeVars
  <1>3. ASSUME NEW d \in Conn
        PROVE  Seen(d)' = Seen(d)
    <2>1. CASE writer = d
      BY <1>1, <1>2, <2>1, WriterSees
    <2>2. CASE writer # d
      <3>1. Seen(d) = IF pc[d] = "read" THEN View(d) ELSE NoView
        BY <2>2, ReaderIn
      <3>2. Seen(d)' = IF pc'[d] = "read" THEN View(d)' ELSE NoView
        BY <1>2, <2>2, ReaderInNext DEF NoView
      <3>. QED  BY <1>2, <3>1, <3>2, CkptReaders
    <2>. QED  BY <2>1, <2>2
  <1>. QED  BY <1>1, <1>3 DEF Store!vars

\* A step that changes nothing maps to none.
LEMMA StutterMaps ==
    ASSUME UNCHANGED vars
    PROVE  UNCHANGED Store!vars
  <1>1. UNCHANGED <<logHdr, log, db, live, index, pc, hdr, readLock, minFrame, writer, todo, txs>>
    BY DEF vars, fileVars, indexVars, connVars, writeVars
  <1>2. Stored' = Stored
    BY <1>1, StoredKept DEF fileVars
  <1>3. \A d \in Conn : Seen(d)' = Seen(d)
    BY <1>1 DEF Seen, InTransaction, UseWal, View, FromDb, LastFrame, NoView
  <1>4. Offered' = Offered
    BY <1>1, <1>2 DEF Offered, NoView
  <1>. QED  BY <1>2, <1>3, <1>4 DEF Store!vars

\* Every step maps to a step of the store or to none.
LEMMA StepMaps ==
    ASSUME WalAssumption, PageAssumption, Inv1, Inv2, Inv3, Inv1', Inv2', Inv3', [Next]_vars
    PROVE  [Store!Next]_Store!vars
  <1>1. ASSUME NEW c \in Conn, ReadStep(c) \/ WriteStep(c)
        PROVE  [Store!Next]_Store!vars
    BY <1>1, QuietMaps, FrameMaps, HeaderMaps
  <1>2. CASE CkptStep
    BY <1>2, CkptMaps
  <1>3. CASE Kill
    BY <1>3, KillMaps
  <1>4. CASE UNCHANGED vars
    BY <1>4, StutterMaps
  <1>. QED  BY <1>1, <1>2, <1>3, <1>4 DEF Next

\* At the start the store is empty and nobody reads.
LEMMA InitMaps ==
    ASSUME WalAssumption, Init
    PROVE  Store!Init
  <1>1. /\ db = [p \in Page |-> 0] /\ pc = [c \in Conn |-> "idle"]
        /\ writer = Nobody /\ Nobody \notin Conn
    BY SlotsAndConns DEF Init
  <1>2. Stored = db
    <2>1. log = <<>> /\ live = NoHdr
      BY DEF Init
    <2>2. Len(log) = 0 /\ DOMAIN log = 1 .. Len(log)
      BY <2>1
    <2>3. EndOf(log) = 0
      BY <2>2, EndOfFacts
    <2>4. ~Publishing
      BY <1>1 DEF Publishing
    <2>5. Stored = Overlaid(log, db, 0)
      BY <2>3, <2>4, InitLog DEF LogSide, Safe, Overlay
    <2>6. IsTable(db, Page)
      BY <1>1 DEF IsTable
    <2>. QED  BY <2>5, <2>6, OverlaidNone
  <1>3. \A c \in Conn : Seen(c) = NoView
    BY <1>1 DEF Seen, InTransaction, UseWal
  <1>4. Offered = NoView
    BY <1>1 DEF Offered
  <1>. QED  BY <1>1, <1>2, <1>3, <1>4 DEF Store!Init

\* Whatever any number of readers, a writer, the checkpointer and a kill do
\* between each other's steps, readers see one committed state throughout,
\* commits are atomic and none is lost, if no checkpoint begins with nothing
\* to copy.
THEOREM LogImplementsStore ==
    ASSUME WalAssumption, PageAssumption, IdleCheckpoints = FALSE
    PROVE  Spec => ImplementsStore
  <1>1. Init => Inv1 /\ Inv2 /\ Inv3
    BY InitLocks, InitAgrees, InitStore
  <1>2. Inv1 /\ Inv2 /\ Inv3 /\ [Next]_vars => (Inv1 /\ Inv2 /\ Inv3)'
    BY NextLocks, NextAgrees, NextStore
  <1>3. /\ Inv1 /\ Inv2 /\ Inv3 /\ (Inv1 /\ Inv2 /\ Inv3)' /\ [Next]_vars
           => [Store!Next]_Store!vars
    BY StepMaps
  <1>4. Init => Store!Init
    BY InitMaps
  <1>. QED  BY <1>1, <1>2, <1>3, <1>4, PTL DEF Spec, ImplementsStore, Store!Spec

\* "The nBackfill number is never greater than WalIndexHdr.mxFrame", except
\* while a writer that holds every slot is resetting both: so it is, if no
\* checkpoint begins with nothing to copy.
THEOREM BackfillHolds ==
    ASSUME WalAssumption, PageAssumption, IdleCheckpoints = FALSE
    PROVE  Spec => []BackfillWithinLog
  <1>1. Init => Inv1 /\ Inv2 /\ Inv3
    BY InitLocks, InitAgrees, InitStore
  <1>2. Inv1 /\ Inv2 /\ Inv3 /\ [Next]_vars => (Inv1 /\ Inv2 /\ Inv3)'
    BY NextLocks, NextAgrees, NextStore
  <1>3. Inv3 => BackfillWithinLog
    BY DEF Inv3, LogSide
  <1>. QED  BY <1>1, <1>2, <1>3, PTL DEF Spec
=============================================================================
