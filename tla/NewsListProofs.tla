--------------------------- MODULE NewsListProofs ---------------------------
(* What controllers hold and what the table stores, for any number of       *)
(* controllers and channels, any number of loads, and every interleaving of *)
(* database blocks, answers, failures and crashes.                          *)
EXTENDS NewsList, SequenceTheorems, TLAPS

-----------------------------------------------------------------------------
(* The inductive invariant.  Late work carries the channel and the rows it  *)
(* captured; each part says what they were when they were captured.         *)

\* A controller with a read under way has a channel to ask the server for.
ReadersAreNamed ==
    /\ \A b \in Elements(dbQueue) : b.op = "get" => channelName[b.vc] \in Channels
    /\ \A r \in Elements(mainQueue) : channelName[r.vc] \in Channels

\* Channel names, reads, database answers and requests stem from loads.
NamesWereAsked ==
    \A v \in VC : channelName[v] \in Channels => channelName[v] \in asked[v]

ReadsWereAsked ==
    \A b \in Elements(dbQueue) : b.op = "get" => b.channel \in asked[b.vc]

ResultsWereAsked ==
    \A r \in Elements(mainQueue) : \A x \in Elements(r.rows) : x.channel \in asked[r.vc]

RequestsWereAsked == \A r \in requests : r.channel \in asked[r.vc]

\* A queued write holds rows of the channel it writes.
WritesMatchCategory ==
    \A b \in Elements(dbQueue) : b.op # "get" =>
        \A x \in Elements(b.rows) : x.channel = b.channel

Inv ==
    /\ TypeOK
    /\ ReadersAreNamed /\ NamesWereAsked /\ ReadsWereAsked
    /\ ResultsWereAsked /\ RequestsWereAsked /\ WritesMatchCategory
    /\ RowsMatchCategory /\ NewsWereAsked

-----------------------------------------------------------------------------
(* Elements of a queue.                                                    *)

\* The elements of a sequence over S are in S.
LEMMA ElementsType ==
    ASSUME NEW S, NEW s \in Seq(S)
    PROVE  Elements(s) \subseteq S
  BY ElementOfSeq, LenProperties DEF Elements

\* An appended element is the only new one.
LEMMA ElementsAppend ==
    ASSUME NEW S, NEW s \in Seq(S), NEW e \in S
    PROVE  Elements(Append(s, e)) = Elements(s) \cup {e}
  BY AppendProperties, LenProperties DEF Elements

\* Taking the head off a queue adds no element.
LEMMA ElementsTail ==
    ASSUME NEW S, NEW s \in Seq(S), s # <<>>
    PROVE  /\ Head(s) \in Elements(s)
           /\ Elements(Tail(s)) \subseteq Elements(s)
  <1>1. Head(s) = s[1] /\ 1 \in DOMAIN s
    BY EmptySeq, LenProperties
  <1>2. \A i \in 1 .. Len(Tail(s)) : Tail(s)[i] = s[i + 1] /\ i + 1 \in 1 .. Len(s)
    BY HeadTailProperties, LenProperties
  <1>. QED  BY <1>1, <1>2, HeadTailProperties, LenProperties DEF Elements

\* Concatenating sequences adds no element.
LEMMA ElementsConcat ==
    ASSUME NEW S, NEW s \in Seq(S), NEW t \in Seq(S)
    PROVE  Elements(s \o t) \subseteq Elements(s) \cup Elements(t)
  <1> SUFFICES ASSUME NEW i \in 1 .. Len(s) + Len(t)
               PROVE  (s \o t)[i] \in Elements(s) \cup Elements(t)
    BY ConcatProperties, LenProperties DEF Elements
  <1>1. CASE i <= Len(s)
    BY <1>1, ConcatProperties, LenProperties DEF Elements
  <1>2. CASE i > Len(s)
    <2>1. (s \o t)[i] = t[i - Len(s)] /\ i - Len(s) \in 1 .. Len(t)
      BY <1>2, ConcatProperties, LenProperties
    <2>. QED  BY <2>1, LenProperties DEF Elements
  <1>. QED  BY <1>1, <1>2, LenProperties

\* What a block is, by its operation.
LEMMA BlockKinds ==
    ASSUME NEW b \in Block
    PROVE  /\ b.op \in {"get", "delete", "insert"} /\ b.channel \in Channels
           /\ b.op = "get" => b.vc \in VC
           /\ b.op # "get" => b.rows \in Seq(Batch)
  BY DEF Block, Get, Delete, Insert
-----------------------------------------------------------------------------
(* The steps of the invariant.                                             *)

\* The invariant holds initially.
LEMMA InitInv == Init => Inv
  <1> SUFFICES ASSUME Init PROVE Inv
    OBVIOUS
  <1>1. Elements(<<>>) = {}
    BY DEF Elements
  <1>2. TypeOK
    BY NewsListAssumption DEF Init, TypeOK, Unknown
  <1>. QED
    BY <1>1, <1>2, NewsListAssumption
       DEF Init, Inv, ReadersAreNamed, NamesWereAsked, ReadsWereAsked, ResultsWereAsked,
           RequestsWereAsked, WritesMatchCategory, RowsMatchCategory, NewsWereAsked

\* A sequence of one or two loads is a sequence of loads.
LEMMA CallsAreLoads ==
    ASSUME NEW calls \in CallSequences
    PROVE  calls \in Seq(Load)
  <1>1. CASE \E l \in Load : calls = <<l>>
    BY <1>1
  <1>2. CASE calls \in Load \X Load
    <2>1. PICK l \in Load, m \in Load : calls = <<l, m>>
      BY <1>2
    <2>. QED  BY <2>1
  <1>. QED  BY <1>1, <1>2 DEF CallSequences

\* The blocks that a sequence of loads queues are its reads.
LEMMA GetBlocks ==
    ASSUME NEW calls \in Seq(Load)
    PROVE  LET gets == [i \in DOMAIN calls |-> GetBlock(calls[i])]
           IN  /\ gets \in Seq(Get)
               /\ \A b \in Elements(gets) : \E l \in Elements(calls) :
                      b.op = "get" /\ b.vc = l.vc /\ b.channel = l.channel
  <1> DEFINE gets == [i \in DOMAIN calls |-> GetBlock(calls[i])]
  <1>1. DOMAIN calls = 1 .. Len(calls) /\ Len(calls) \in Nat
    BY LenProperties
  <1>2. \A i \in DOMAIN calls : calls[i] \in Load
    BY ElementOfSeq, LenProperties
  <1>3. \A i \in DOMAIN calls : GetBlock(calls[i]) \in Get
    BY <1>2 DEF GetBlock, Get, Load
  <1>4. gets \in Seq(Get)
    BY <1>1, <1>3
  <1>5. \A b \in Elements(gets) : \E l \in Elements(calls) :
            b.op = "get" /\ b.vc = l.vc /\ b.channel = l.channel
    BY DEF Elements, GetBlock
  <1>. QED  BY <1>4, <1>5

\* Afterwards a controller has the channel of one of its loads, or the old
\* name when it has none.
LEMMA RenamedBy ==
    ASSUME NEW calls \in Seq(Load), TypeOK
    PROVE  /\ Renamed(calls) \in [VC -> Channels \cup {NoChannel}]
           /\ \A v \in VC :
                 \/ \E l \in Elements(calls) : l.vc = v /\ Renamed(calls)[v] = l.channel
                 \/ /\ Renamed(calls)[v] = channelName[v]
                    /\ \A l \in Elements(calls) : l.vc # v
  <1>1. Elements(calls) \subseteq Load
    BY ElementsType
  <1>2. \A v \in VC :
            \/ \E l \in Elements(calls) : l.vc = v /\ Renamed(calls)[v] = l.channel
            \/ /\ Renamed(calls)[v] = channelName[v]
               /\ \A l \in Elements(calls) : l.vc # v
    BY DEF Renamed
  <1>3. ASSUME NEW v \in VC
        PROVE  Renamed(calls)[v] \in Channels \cup {NoChannel}
    <2>1. CASE \E l \in Elements(calls) : l.vc = v /\ Renamed(calls)[v] = l.channel
      BY <1>1, <2>1 DEF Load
    <2>2. CASE Renamed(calls)[v] = channelName[v]
      BY <2>2 DEF TypeOK
    <2>. QED  BY <1>2, <2>1, <2>2
  <1>4. Renamed(calls) = [v \in VC |-> Renamed(calls)[v]]
    BY DEF Renamed
  <1>5. Renamed(calls) \in [VC -> Channels \cup {NoChannel}]
    BY <1>3, <1>4
  <1>. QED  BY <1>2, <1>5

\* Loads keep the invariant: what they queue is about channels just asked for.
LEMMA LoadAllInv ==
    ASSUME Inv, NEW calls \in Seq(Load), LoadAll(calls)
    PROVE  Inv'
  <1> DEFINE gets == [i \in DOMAIN calls |-> GetBlock(calls[i])]
  <1>1. /\ gets \in Seq(Get)
        /\ \A b \in Elements(gets) : \E l \in Elements(calls) :
              b.op = "get" /\ b.vc = l.vc /\ b.channel = l.channel
    BY GetBlocks
  <1>2. dbQueue \in Seq(Block) /\ gets \in Seq(Block)
    BY <1>1, SeqMonotonic DEF Inv, TypeOK, Block
  <1>3. dbQueue' \in Seq(Block) /\ Elements(dbQueue') \subseteq Elements(dbQueue) \cup Elements(gets)
    BY <1>2, ConcatProperties, ElementsConcat DEF LoadAll
  <1>4. Elements(calls) \subseteq Load
    BY ElementsType
  <1>5. Elements(dbQueue) \subseteq Block /\ Elements(mainQueue) \subseteq Result
    BY ElementsType DEF Inv, TypeOK
  <1>6. /\ channelName' \in [VC -> Channels \cup {NoChannel}]
        /\ \A v \in VC :
              \/ \E l \in Elements(calls) : l.vc = v /\ channelName'[v] = l.channel
              \/ /\ channelName'[v] = channelName[v]
                 /\ \A l \in Elements(calls) : l.vc # v
    <2>1. TypeOK
      BY DEF Inv
    <2>2. channelName' = Renamed(calls)
      BY DEF LoadAll
    <2>. QED  BY <2>1, <2>2, RenamedBy
  <1>7. asked' \in [VC -> SUBSET Channels]
    <2>1. \A v \in VC : {l.channel : l \in {m \in Elements(calls) : m.vc = v}} \subseteq Channels
      BY <1>4 DEF Load
    <2>. QED  BY <2>1 DEF LoadAll, Inv, TypeOK
  <1>8. \A v \in VC : asked[v] \subseteq asked'[v]
    BY DEF LoadAll
  <1>9. \A l \in Elements(calls) : l.channel \in asked'[l.vc]
    BY <1>4 DEF LoadAll, Load
  <1>10. Len(calls) \in Nat
    BY LenProperties
  <1>11. TypeOK'
    BY <1>3, <1>6, <1>7, <1>10 DEF LoadAll, Inv, TypeOK
  <1>12. ReadersAreNamed'
    <2>1. \A v \in VC : channelName[v] \in Channels => channelName'[v] \in Channels
      BY <1>4, <1>6 DEF Load
    <2>2. \A l \in Elements(calls) : channelName'[l.vc] \in Channels
      BY <1>4, <1>6 DEF Load
    <2>3. ASSUME NEW b \in Elements(dbQueue'), b.op = "get"
          PROVE  channelName'[b.vc] \in Channels
      BY <1>1, <1>3, <1>5, <2>1, <2>2, <2>3, BlockKinds DEF Inv, ReadersAreNamed
    <2>4. ASSUME NEW r \in Elements(mainQueue')
          PROVE  channelName'[r.vc] \in Channels
      BY <1>5, <2>1 DEF LoadAll, Inv, ReadersAreNamed, Result
    <2>. QED  BY <2>3, <2>4 DEF ReadersAreNamed
  <1>13. NamesWereAsked'
    BY <1>6, <1>8, <1>9 DEF Inv, NamesWereAsked
  <1>14. ReadsWereAsked'
    BY <1>1, <1>3, <1>5, <1>8, <1>9, BlockKinds DEF Inv, ReadsWereAsked
  <1>15. ResultsWereAsked'
    BY <1>5, <1>8 DEF LoadAll, Inv, ResultsWereAsked, Result
  <1>16. RequestsWereAsked'
    BY <1>8 DEF LoadAll, Inv, TypeOK, RequestsWereAsked, Request
  <1>17. WritesMatchCategory'
    BY <1>1, <1>3 DEF Inv, WritesMatchCategory
  <1>18. RowsMatchCategory'
    BY DEF LoadAll, Inv, RowsMatchCategory
  <1>19. NewsWereAsked'
    BY <1>8 DEF LoadAll, Inv, NewsWereAsked
  <1>. QED
    BY <1>11, <1>12, <1>13, <1>14, <1>15, <1>16, <1>17, <1>18, <1>19 DEF Inv
\* What the blocks and answers at the head of their queues are.
LEMMA HeadBlock ==
    ASSUME Inv, dbQueue # <<>>
    PROVE  /\ Head(dbQueue) \in Block /\ Head(dbQueue) \in Elements(dbQueue)
           /\ Tail(dbQueue) \in Seq(Block)
           /\ Elements(Tail(dbQueue)) \subseteq Elements(dbQueue)
           /\ Elements(dbQueue) \subseteq Block
  BY HeadTailProperties, ElementsTail, ElementsType DEF Inv, TypeOK

\* The first answer of the main queue is a result, and the rest are the old ones.
LEMMA HeadResult ==
    ASSUME Inv, mainQueue # <<>>
    PROVE  /\ Head(mainQueue) \in Result /\ Head(mainQueue) \in Elements(mainQueue)
           /\ Tail(mainQueue) \in Seq(Result)
           /\ Elements(Tail(mainQueue)) \subseteq Elements(mainQueue)
           /\ Elements(mainQueue) \subseteq Result
  BY HeadTailProperties, ElementsTail, ElementsType DEF Inv, TypeOK

\* The rows a read hands over are of the channel it captured.
LEMMA RunGetInv ==
    ASSUME Inv, RunGet
    PROVE  Inv'
  <1> DEFINE b == Head(dbQueue)
  <1>1. /\ b \in Block /\ b \in Elements(dbQueue) /\ b.op = "get"
        /\ dbQueue' = Tail(dbQueue) /\ dbQueue' \in Seq(Block)
        /\ Elements(dbQueue') \subseteq Elements(dbQueue)
    BY HeadBlock DEF RunGet
  <1>2. b.vc \in VC /\ b.channel \in Channels
    BY <1>1, BlockKinds
  <1>3. PICK rows \in {table[b.channel], <<>>} :
            mainQueue' = Append(mainQueue, [vc |-> b.vc, rows |-> rows])
    BY DEF RunGet, Deliver, StoredRows
  <1>4. rows \in Seq(Batch)
    <2>1. table[b.channel] \in Seq(Batch) /\ <<>> \in Seq(Batch)
      BY <1>2, EmptySeq DEF Inv, TypeOK
    <2>. QED  BY <1>3, <2>1
  <1>5. \A x \in Elements(rows) : x.channel = b.channel
    BY <1>2, <1>3 DEF Inv, RowsMatchCategory, Elements
  <1> DEFINE r == [vc |-> b.vc, rows |-> rows]
  <1>6. r \in Result /\ r.vc = b.vc /\ r.rows = rows
    BY <1>2, <1>4 DEF Result
  <1>7. mainQueue' \in Seq(Result) /\ Elements(mainQueue') = Elements(mainQueue) \cup {r}
    BY <1>3, <1>6, AppendProperties, ElementsAppend DEF Inv, TypeOK
  <1>8. failures' \in Nat
    BY DEF RunGet, Throws, Inv, TypeOK
  <1>9. UNCHANGED <<channelName, news, shown, requests, table, lastId, loads, crashes,
                    asked, answer, overlapped>>
    BY DEF RunGet, vcVars, history
  <1>10. TypeOK'
    BY <1>1, <1>7, <1>8, <1>9 DEF Inv, TypeOK
  <1>11. ReadersAreNamed'
    BY <1>1, <1>6, <1>7, <1>9 DEF Inv, ReadersAreNamed
  <1>12. ResultsWereAsked'
    BY <1>1, <1>5, <1>6, <1>7, <1>9 DEF Inv, ResultsWereAsked, ReadsWereAsked
  <1>13. /\ NamesWereAsked' /\ ReadsWereAsked' /\ RequestsWereAsked'
         /\ WritesMatchCategory'
    BY <1>1, <1>9 DEF Inv, NamesWereAsked, ReadsWereAsked, RequestsWereAsked, WritesMatchCategory
  <1>14. RowsMatchCategory' /\ NewsWereAsked'
    BY <1>9 DEF Inv, RowsMatchCategory, NewsWereAsked
  <1>. QED
    BY <1>10, <1>11, <1>12, <1>13, <1>14 DEF Inv

\* A delete keeps the invariant: the insert it queues carries its rows.
LEMMA RunDeleteInv ==
    ASSUME Inv, RunDelete
    PROVE  Inv'
  <1> DEFINE b == Head(dbQueue)
             ins == InsertBlock(b)
  <1>1. /\ b \in Block /\ b \in Elements(dbQueue) /\ b.op = "delete"
        /\ Tail(dbQueue) \in Seq(Block)
        /\ Elements(Tail(dbQueue)) \subseteq Elements(dbQueue)
    BY HeadBlock DEF RunDelete
  <1>2. b.channel \in Channels /\ b.rows \in Seq(Batch)
    BY <1>1, BlockKinds
  <1>3. ins \in Block /\ ins.op = "insert" /\ ins.channel = b.channel /\ ins.rows = b.rows
    BY <1>2 DEF InsertBlock, Block, Insert
  <1>4. /\ dbQueue' \in Seq(Block)
        /\ Elements(dbQueue') \subseteq Elements(dbQueue) \cup {ins}
    <2>1. dbQueue' = Tail(dbQueue) \/ dbQueue' = Append(Tail(dbQueue), ins)
      BY DEF RunDelete, DeleteRuns, DeleteFails
    <2>2. Append(Tail(dbQueue), ins) \in Seq(Block)
      BY <1>1, <1>3, AppendProperties
    <2>3. Elements(Append(Tail(dbQueue), ins)) = Elements(Tail(dbQueue)) \cup {ins}
      <3> DEFINE rest == Tail(dbQueue)
      <3>1. rest \in Seq(Block) /\ ins \in Block
        BY <1>1, <1>3
      <3> HIDE DEF ins, rest
      <3>2. Elements(Append(rest, ins)) = Elements(rest) \cup {ins}
        BY <3>1, ElementsAppend
      <3>. QED  BY <3>2 DEF rest
    <2>4. CASE dbQueue' = Tail(dbQueue)
      BY <1>1, <2>4
    <2>5. CASE dbQueue' = Append(Tail(dbQueue), ins)
      BY <1>1, <2>2, <2>3, <2>5
    <2>. QED  BY <2>1, <2>4, <2>5
  <1>5. /\ table' \in [Channels -> Seq(Batch)]
        /\ \A c \in Channels : table'[c] \in {table[c], <<>>}
    <2>1. table \in [Channels -> Seq(Batch)] /\ <<>> \in Seq(Batch)
      BY EmptySeq DEF Inv, TypeOK
    <2>2. table' = table \/ table' = [table EXCEPT ![b.channel] = <<>>]
      BY DEF RunDelete, DeleteRuns, DeleteFails
    <2>. QED  BY <1>2, <2>1, <2>2
  <1>6. failures' \in Nat /\ answer' \in [Channels -> Nat]
    <2>1. failures \in Nat /\ answer \in [Channels -> Nat]
      BY DEF Inv, TypeOK
    <2>2. /\ failures' \in {failures, failures + 1}
          /\ answer' = answer \/ answer' = [answer EXCEPT ![b.channel] = 0]
      BY DEF RunDelete, DeleteFails, Throws, Unknown
    <2>. QED  BY <1>2, <2>1, <2>2
  <1>7. UNCHANGED <<channelName, news, shown, mainQueue, requests, lastId, loads, crashes,
                    asked, overlapped>>
    BY DEF RunDelete, vcVars
  <1>8. TypeOK'
    BY <1>4, <1>5, <1>6, <1>7 DEF Inv, TypeOK
  <1>9. ReadersAreNamed' /\ ReadsWereAsked'
    BY <1>3, <1>4, <1>7 DEF Inv, ReadersAreNamed, ReadsWereAsked
  <1>10. WritesMatchCategory'
    BY <1>1, <1>3, <1>4 DEF Inv, WritesMatchCategory
  <1>11. NamesWereAsked' /\ ResultsWereAsked' /\ RequestsWereAsked' /\ NewsWereAsked'
    BY <1>7 DEF Inv, NamesWereAsked, ResultsWereAsked, RequestsWereAsked, NewsWereAsked
  <1>12. RowsMatchCategory'
    BY <1>5 DEF Inv, RowsMatchCategory, Elements
  <1>. QED
    BY <1>8, <1>9, <1>10, <1>11, <1>12 DEF Inv

\* An insert keeps the invariant: the rows it stores are of its channel.
LEMMA RunInsertInv ==
    ASSUME Inv, RunInsert
    PROVE  Inv'
  <1> DEFINE b == Head(dbQueue)
  <1>1. /\ b \in Block /\ b \in Elements(dbQueue) /\ b.op = "insert"
        /\ dbQueue' = Tail(dbQueue) /\ dbQueue' \in Seq(Block)
        /\ Elements(dbQueue') \subseteq Elements(dbQueue)
    BY HeadBlock DEF RunInsert
  <1>2. b.channel \in Channels /\ b.rows \in Seq(Batch)
    BY <1>1, BlockKinds
  <1>3. table \in [Channels -> Seq(Batch)]
    BY DEF Inv, TypeOK
  <1>4. /\ table' \in [Channels -> Seq(Batch)]
        /\ \A c \in Channels :
              table'[c] = table[c] \/ (c = b.channel /\ table'[c] = table[c] \o b.rows)
    <2>1. table[b.channel] \o b.rows \in Seq(Batch)
      BY <1>2, <1>3, ConcatProperties
    <2>2. table' = table \/ table' = [table EXCEPT ![b.channel] = table[b.channel] \o b.rows]
      BY DEF RunInsert, InsertRuns, InsertFails
    <2>. QED  BY <1>2, <1>3, <2>1, <2>2
  <1>5. failures' \in Nat /\ answer' \in [Channels -> Nat]
    <2>1. failures \in Nat /\ answer \in [Channels -> Nat]
      BY DEF Inv, TypeOK
    <2>2. /\ failures' \in {failures, failures + 1}
          /\ answer' = answer \/ answer' = [answer EXCEPT ![b.channel] = 0]
      BY DEF RunInsert, InsertFails, Throws, Unknown
    <2>. QED  BY <1>2, <2>1, <2>2
  <1>6. UNCHANGED <<channelName, news, shown, mainQueue, requests, lastId, loads, crashes,
                    asked, overlapped>>
    BY DEF RunInsert, vcVars
  <1>7. TypeOK'
    BY <1>1, <1>4, <1>5, <1>6 DEF Inv, TypeOK
  <1>8. /\ ReadersAreNamed' /\ ReadsWereAsked' /\ NamesWereAsked'
        /\ ResultsWereAsked' /\ RequestsWereAsked' /\ NewsWereAsked' /\ WritesMatchCategory'
    BY <1>1, <1>6
       DEF Inv, ReadersAreNamed, ReadsWereAsked, NamesWereAsked, ResultsWereAsked,
           RequestsWereAsked, NewsWereAsked, WritesMatchCategory
  <1>9. RowsMatchCategory'
    <2> SUFFICES ASSUME NEW c \in Channels, NEW x \in Elements(table'[c])
                 PROVE  x.channel = c
      BY DEF RowsMatchCategory
    <2>1. \A y \in Elements(b.rows) : y.channel = b.channel
      BY <1>1 DEF Inv, WritesMatchCategory
    <2>2. \/ x \in Elements(table[c])
          \/ c = b.channel /\ x \in Elements(b.rows)
      BY <1>2, <1>3, <1>4, ElementsConcat
    <2>. QED  BY <2>1, <2>2 DEF Inv, RowsMatchCategory
  <1>. QED
    BY <1>7, <1>8, <1>9 DEF Inv
\* Asking the server for a controller's present channel.
LEMMA SendRequestTypes ==
    ASSUME TypeOK, NEW v \in VC, channelName[v] \in Channels, SendRequest(v)
    PROVE  /\ lastId' \in Nat
           /\ requests' \subseteq Request /\ overlapped' \subseteq Channels
           /\ \A r \in requests' :
                 r \in requests \/ (r.vc = v /\ r.channel = channelName[v])
  <1> DEFINE new == [vc |-> v, channel |-> channelName[v], id |-> lastId + 1]
  <1>1. lastId \in Nat /\ requests \subseteq Request /\ overlapped \subseteq Channels
    BY DEF TypeOK
  <1>2. new \in Request /\ new.vc = v /\ new.channel = channelName[v]
    BY <1>1 DEF Request
  <1>3. requests' = requests \cup {new} /\ lastId' = lastId + 1
    BY DEF SendRequest
  <1>4. overlapped' \subseteq overlapped \cup {channelName[v]}
    BY DEF SendRequest
  <1>. QED  BY <1>1, <1>2, <1>3, <1>4

\* An answer of the database keeps the invariant, also one that is late.
LEMMA DeliverRowsInv ==
    ASSUME Inv, DeliverRows
    PROVE  Inv'
  <1> DEFINE r == Head(mainQueue)
             v == r.vc
             rows == r.rows
  <1>1. /\ r \in Result /\ r \in Elements(mainQueue)
        /\ mainQueue' = Tail(mainQueue) /\ mainQueue' \in Seq(Result)
        /\ Elements(mainQueue') \subseteq Elements(mainQueue)
    BY HeadResult DEF DeliverRows
  <1>2. v \in VC /\ rows \in Seq(Batch)
    BY <1>1 DEF Result
  <1>3. channelName[v] \in Channels
    BY <1>1 DEF Inv, ReadersAreNamed
  <1>4. UNCHANGED <<channelName, dbQueue, table, loads, failures, crashes, asked, answer>>
    BY DEF DeliverRows, counters
  <1>5. channelName[v] \in asked[v] /\ \A x \in Elements(rows) : x.channel \in asked[v]
    BY <1>1, <1>2, <1>3 DEF Inv, NamesWereAsked, ResultsWereAsked
  <1>6. /\ lastId' \in Nat
        /\ requests' \subseteq Request /\ overlapped' \subseteq Channels
        /\ \A q \in requests' :
              q \in requests \/ (q.vc = v /\ q.channel = channelName[v])
    <2>1. CASE SendRequest(v)
      BY <1>2, <1>3, <2>1, SendRequestTypes DEF Inv
    <2>2. CASE UNCHANGED <<requests, lastId, overlapped>>
      BY <2>2 DEF Inv, TypeOK
    <2>. QED  BY <2>1, <2>2 DEF DeliverRows
  <1>7. /\ news' \in [VC -> Seq(Batch)] /\ shown' \in [VC -> Seq(Batch)]
        /\ \A w \in VC : news'[w] = news[w] \/ (w = v /\ news'[w] = rows)
    <2>1. news \in [VC -> Seq(Batch)] /\ shown \in [VC -> Seq(Batch)]
      BY DEF Inv, TypeOK
    <2>2. \/ news' = news /\ shown' = shown
          \/ news' = [news EXCEPT ![v] = rows] /\ shown' = [shown EXCEPT ![v] = rows]
      BY DEF DeliverRows
    <2>. QED  BY <1>2, <2>1, <2>2
  <1>8. TypeOK'
    BY <1>1, <1>4, <1>6, <1>7 DEF Inv, TypeOK
  <1>9. ReadersAreNamed' /\ ResultsWereAsked'
    BY <1>1, <1>4 DEF Inv, ReadersAreNamed, ResultsWereAsked
  <1>10. NamesWereAsked' /\ ReadsWereAsked' /\ WritesMatchCategory' /\ RowsMatchCategory'
    BY <1>4 DEF Inv, NamesWereAsked, ReadsWereAsked, WritesMatchCategory, RowsMatchCategory
  <1>11. RequestsWereAsked'
    BY <1>4, <1>5, <1>6 DEF Inv, RequestsWereAsked
  <1>12. NewsWereAsked'
    BY <1>4, <1>5, <1>7 DEF Inv, NewsWereAsked
  <1>. QED
    BY <1>8, <1>9, <1>10, <1>11, <1>12 DEF Inv

\* The news of a response: at most one batch, of the request's channel.
LEMMA AnsweredType ==
    ASSUME NEW r \in Request, NEW outcome
    PROVE  /\ Answered(r, outcome) \in Seq(Batch)
           /\ \A x \in Elements(Answered(r, outcome)) : x.channel = r.channel
  <1> DEFINE x == [channel |-> r.channel, id |-> r.id]
  <1>1. x \in Batch /\ x.channel = r.channel
    BY DEF Request, Batch
  <1>2. CASE Answered(r, outcome) = <<>>
    BY <1>2, EmptySeq DEF Elements
  <1>3. CASE Answered(r, outcome) = <<x>>
    BY <1>1, <1>3 DEF Elements
  <1>. QED  BY <1>2, <1>3 DEF Answered

\* A response keeps the invariant, however late it comes.
LEMMA RespondInv ==
    ASSUME Inv, NEW r \in requests, NEW outcome, Respond(r, outcome)
    PROVE  Inv'
  <1> DEFINE rows == Answered(r, outcome)
             del == DeleteBlock(r, rows)
  <1>1. r \in Request /\ r.vc \in VC /\ r.channel \in Channels /\ r.id \in Nat
    BY DEF Inv, TypeOK, Request
  <1>2. rows \in Seq(Batch) /\ \A x \in Elements(rows) : x.channel = r.channel
    BY <1>1, AnsweredType
  <1> HIDE DEF rows
  <1>3. del \in Block /\ del.op = "delete" /\ del.channel = r.channel /\ del.rows = rows
    BY <1>1, <1>2 DEF DeleteBlock, Block, Delete
  <1>4. dbQueue' \in Seq(Block) /\ Elements(dbQueue') = Elements(dbQueue) \cup {del}
    <2>1. dbQueue \in Seq(Block) /\ dbQueue' = Append(dbQueue, del)
      BY DEF Respond, Inv, TypeOK, rows
    <2>. QED  BY <1>3, <2>1, AppendProperties, ElementsAppend
  <1>5. requests' \subseteq requests
    BY DEF Respond
  <1>6. /\ news' \in [VC -> Seq(Batch)] /\ shown' \in [VC -> Seq(Batch)]
        /\ \A w \in VC : news'[w] = news[w] \/ (w = r.vc /\ news'[w] = rows)
    <2>1. news \in [VC -> Seq(Batch)] /\ shown \in [VC -> Seq(Batch)]
      BY DEF Inv, TypeOK
    <2>2. /\ news' = [news EXCEPT ![r.vc] = rows]
          /\ shown' = shown \/ shown' = [shown EXCEPT ![r.vc] = rows]
      BY DEF Respond, rows
    <2>. QED  BY <1>1, <1>2, <2>1, <2>2
  <1>7. answer' \in [Channels -> Nat]
    <2>1. answer \in [Channels -> Nat]
      BY DEF Inv, TypeOK
    <2>2. \/ answer' = [answer EXCEPT ![r.channel] = 0]
          \/ answer' = [answer EXCEPT ![r.channel] = r.id]
      BY DEF Respond, Unknown
    <2>. QED  BY <1>1, <2>1, <2>2
  <1>8. UNCHANGED <<channelName, mainQueue, table, lastId, loads, failures, crashes,
                    asked, overlapped>>
    BY DEF Respond, counters
  <1>9. TypeOK'
    BY <1>4, <1>5, <1>6, <1>7, <1>8 DEF Inv, TypeOK
  <1>10. ReadersAreNamed' /\ ReadsWereAsked'
    BY <1>3, <1>4, <1>8 DEF Inv, ReadersAreNamed, ReadsWereAsked
  <1>11. WritesMatchCategory'
    BY <1>2, <1>3, <1>4 DEF Inv, WritesMatchCategory
  <1>12. NamesWereAsked' /\ ResultsWereAsked' /\ RequestsWereAsked' /\ RowsMatchCategory'
    BY <1>5, <1>8 DEF Inv, NamesWereAsked, ResultsWereAsked, RequestsWereAsked, RowsMatchCategory
  <1>13. NewsWereAsked'
    BY <1>1, <1>2, <1>6, <1>8 DEF Inv, NewsWereAsked, RequestsWereAsked
  <1>. QED
    BY <1>9, <1>10, <1>11, <1>12, <1>13 DEF Inv

\* A failing request keeps the invariant.
LEMMA RequestFailsInv ==
    ASSUME Inv, NEW r \in requests, RequestFails(r)
    PROVE  Inv'
  <1>1. requests' \subseteq requests
    BY DEF RequestFails
  <1>2. UNCHANGED <<channelName, news, shown, dbQueue, mainQueue, table, lastId,
                    loads, failures, crashes, asked, answer, overlapped>>
    BY DEF RequestFails, vcVars, counters, history
  <1>3. TypeOK'
    BY <1>1, <1>2 DEF Inv, TypeOK
  <1>. QED
    BY <1>1, <1>2, <1>3
       DEF Inv, ReadersAreNamed, NamesWereAsked, ReadsWereAsked, ResultsWereAsked,
           RequestsWereAsked, WritesMatchCategory, RowsMatchCategory, NewsWereAsked

\* After a crash only the table is left, and it was right before.
LEMMA CrashInv ==
    ASSUME Inv, Crash
    PROVE  Inv'
  <1>1. Elements(<<>>) = {}
    BY DEF Elements
  <1>2. TypeOK'
    BY EmptySeq, NewsListAssumption DEF Crash, Inv, TypeOK, Unknown
  <1>. QED
    BY <1>1, <1>2, NewsListAssumption
       DEF Crash, Inv, ReadersAreNamed, NamesWereAsked, ReadsWereAsked, ResultsWereAsked,
           RequestsWereAsked, WritesMatchCategory, RowsMatchCategory, NewsWereAsked

\* Every step keeps the invariant.
LEMMA StepInv == Inv /\ [Next]_vars => Inv'
  <1> SUFFICES ASSUME Inv, [Next]_vars
               PROVE  Inv'
    OBVIOUS
  <1>1. ASSUME NEW calls \in CallSequences, LoadAll(calls)
        PROVE  Inv'
    BY <1>1, CallsAreLoads, LoadAllInv
  <1>2. CASE RunGet
    BY <1>2, RunGetInv
  <1>3. CASE RunDelete
    BY <1>3, RunDeleteInv
  <1>4. CASE RunInsert
    BY <1>4, RunInsertInv
  <1>5. CASE DeliverRows
    BY <1>5, DeliverRowsInv
  <1>6. CASE SomeResponse
    BY <1>6, RespondInv DEF SomeResponse
  <1>7. ASSUME NEW r \in requests, RequestFails(r)
        PROVE  Inv'
    BY <1>7, RequestFailsInv
  <1>8. CASE Crash
    BY <1>8, CrashInv
  <1>9. CASE UNCHANGED vars
    BY <1>9
       DEF vars, vcVars, counters, history, Inv, TypeOK, ReadersAreNamed, NamesWereAsked,
           ReadsWereAsked, ResultsWereAsked, RequestsWereAsked, WritesMatchCategory,
           RowsMatchCategory, NewsWereAsked
  <1>. QED
    BY <1>1, <1>2, <1>3, <1>4, <1>5, <1>6, <1>7, <1>8, <1>9 DEF Next

-----------------------------------------------------------------------------

\* The invariant holds in every reachable state.
LEMMA Invariance == Spec => []Inv
  BY InitInv, StepInv, PTL DEF Spec

\* Type correctness of the news lists, the queues and the table.
THEOREM TypeCorrect == Spec => []TypeOK
  <1>1. Inv => TypeOK
    BY DEF Inv
  <1>. QED  BY <1>1, Invariance, PTL

\* The rows stored under a category were answered for that channel.
THEOREM RowsMatch == Spec => []RowsMatchCategory
  <1>1. Inv => RowsMatchCategory
    BY DEF Inv
  <1>. QED  BY <1>1, Invariance, PTL

\* A controller only holds news of channels it was told to load.
THEOREM NewsMatch == Spec => []NewsWereAsked
  <1>1. Inv => NewsWereAsked
    BY DEF Inv
  <1>. QED  BY <1>1, Invariance, PTL

-----------------------------------------------------------------------------
(* What the table holds in the end: the writes of one channel, whose        *)
(* inserts are queued behind whatever was queued meanwhile, still leave the  *)
(* newest rows.  The inductive invariant, channel by channel.               *)

\* The block at place i writes to channel c.
WriteAt(i, c) ==
    /\ i \in DOMAIN dbQueue
    /\ dbQueue[i].op # "get" /\ dbQueue[i].channel = c

DeleteAt(i, c) == WriteAt(i, c) /\ dbQueue[i].op = "delete"

HoldsAnswer(rows, c) == rows # <<>> /\ rows[Len(rows)].id = answer[c]

\* The last answer's news are in the last delete block of their channel, which
\* will queue its insert behind all others; or in the last insert block, when
\* no delete block is left to clear it; or they are the last rows stored.
NewestOf(c) ==
    answer[c] # Unknown =>
        \/ \E i \in DOMAIN dbQueue :
              /\ DeleteAt(i, c) /\ HoldsAnswer(dbQueue[i].rows, c)
              /\ \A j \in DOMAIN dbQueue : DeleteAt(j, c) => j <= i
        \/ /\ \A j \in DOMAIN dbQueue : ~DeleteAt(j, c)
           /\ \E i \in DOMAIN dbQueue :
                 /\ WriteAt(i, c) /\ HoldsAnswer(dbQueue[i].rows, c)
                 /\ \A j \in DOMAIN dbQueue : WriteAt(j, c) => j <= i
        \/ /\ \A j \in DOMAIN dbQueue : ~WriteAt(j, c)
           /\ HoldsAnswer(table[c], c)

\* A channel that was never requested again too early has one request or one
\* write under way, and an insert finds its rows deleted.
OnceOf(c) ==
    c \notin overlapped =>
        /\ \A r, q \in requests : r.channel = c /\ q.channel = c => r = q
        /\ (\E r \in requests : r.channel = c) => \A i \in DOMAIN dbQueue : ~WriteAt(i, c)
        /\ \A i, j \in DOMAIN dbQueue : WriteAt(i, c) /\ WriteAt(j, c) => i = j
        /\ \A i \in DOMAIN dbQueue : WriteAt(i, c) =>
              Len(dbQueue[i].rows) <= 1 /\ (dbQueue[i].op = "insert" => table[c] = <<>>)
        /\ Len(table[c]) <= 1

StoreInv == \A c \in Channels : NewestOf(c) /\ OnceOf(c)

-----------------------------------------------------------------------------
(* Steps that leave the writes of a channel in order.                      *)

\* The writes of channel c are the same, k places further ahead.
Moved(c, k) ==
    /\ \A i \in DOMAIN dbQueue' :
          WriteAt(i, c)' => WriteAt(i + k, c) /\ dbQueue'[i] = dbQueue[i + k]
    /\ \A i \in DOMAIN dbQueue :
          WriteAt(i, c) => WriteAt(i - k, c)' /\ dbQueue'[i - k] = dbQueue[i]

\* Places in the queue are numbers, and blocks are blocks.
LEMMA QueuePlaces ==
    ASSUME TypeOK
    PROVE  /\ Len(dbQueue) \in Nat /\ DOMAIN dbQueue = 1 .. Len(dbQueue)
           /\ \A i \in DOMAIN dbQueue : dbQueue[i] \in Block
  BY ElementOfSeq, LenProperties DEF TypeOK

\* The newest rows stay where they are.
LEMMA MovedNewest ==
    ASSUME TypeOK, TypeOK', NEW c \in Channels, NEW k \in {0, 1}, Moved(c, k), NewestOf(c),
           answer'[c] \in {answer[c], Unknown}, table'[c] = table[c]
    PROVE  NewestOf(c)'
  <1> SUFFICES ASSUME answer[c] # Unknown, answer'[c] = answer[c]
               PROVE  NewestOf(c)'
    BY DEF NewestOf
  <1>1. /\ \A i \in DOMAIN dbQueue : i \in Int
        /\ \A i \in DOMAIN dbQueue' : i \in Int
    BY QueuePlaces
  <1>2. CASE \E i \in DOMAIN dbQueue :
                /\ DeleteAt(i, c) /\ HoldsAnswer(dbQueue[i].rows, c)
                /\ \A j \in DOMAIN dbQueue : DeleteAt(j, c) => j <= i
    <2>1. PICK i \in DOMAIN dbQueue :
             /\ DeleteAt(i, c) /\ HoldsAnswer(dbQueue[i].rows, c)
             /\ \A j \in DOMAIN dbQueue : DeleteAt(j, c) => j <= i
      BY <1>2
    <2>2. WriteAt(i - k, c)' /\ dbQueue'[i - k] = dbQueue[i]
      BY <2>1 DEF Moved, DeleteAt
    <2>3. DeleteAt(i - k, c)' /\ HoldsAnswer(dbQueue[i - k].rows, c)' /\ i - k \in DOMAIN dbQueue'
      BY <2>1, <2>2 DEF DeleteAt, WriteAt, HoldsAnswer
    <2>4. ASSUME NEW j \in DOMAIN dbQueue', DeleteAt(j, c)'
          PROVE  j <= i - k
      <3>1. DeleteAt(j + k, c) /\ j + k \in DOMAIN dbQueue
        BY <2>4 DEF Moved, DeleteAt, WriteAt
      <3>2. j + k <= i
        BY <2>1, <3>1
      <3>. QED  BY <1>1, <3>2
    <2>. QED  BY <2>3, <2>4 DEF NewestOf
  <1>3. CASE /\ \A j \in DOMAIN dbQueue : ~DeleteAt(j, c)
             /\ \E i \in DOMAIN dbQueue :
                   /\ WriteAt(i, c) /\ HoldsAnswer(dbQueue[i].rows, c)
                   /\ \A j \in DOMAIN dbQueue : WriteAt(j, c) => j <= i
    <2>1. PICK i \in DOMAIN dbQueue :
             /\ WriteAt(i, c) /\ HoldsAnswer(dbQueue[i].rows, c)
             /\ \A j \in DOMAIN dbQueue : WriteAt(j, c) => j <= i
      BY <1>3
    <2>2. WriteAt(i - k, c)' /\ dbQueue'[i - k] = dbQueue[i]
      BY <2>1 DEF Moved
    <2>3. HoldsAnswer(dbQueue[i - k].rows, c)' /\ i - k \in DOMAIN dbQueue'
      BY <2>1, <2>2 DEF WriteAt, HoldsAnswer
    <2>4. ASSUME NEW j \in DOMAIN dbQueue', WriteAt(j, c)'
          PROVE  j <= i - k
      <3>1. WriteAt(j + k, c) /\ j + k \in DOMAIN dbQueue
        BY <2>4 DEF Moved, WriteAt
      <3>2. j + k <= i
        BY <2>1, <3>1
      <3>. QED  BY <1>1, <3>2
    <2>5. \A j \in DOMAIN dbQueue' : ~DeleteAt(j, c)'
      BY <1>3 DEF Moved, DeleteAt, WriteAt
    <2>. QED  BY <2>2, <2>3, <2>4, <2>5 DEF NewestOf
  <1>4. CASE (\A j \in DOMAIN dbQueue : ~WriteAt(j, c)) /\ HoldsAnswer(table[c], c)
    <2>1. \A j \in DOMAIN dbQueue' : ~WriteAt(j, c)'
      BY <1>4 DEF Moved, WriteAt
    <2>. QED  BY <1>4, <2>1 DEF NewestOf, HoldsAnswer
  <1>. QED  BY <1>2, <1>3, <1>4 DEF NewestOf

\* One request or one write stays one.
LEMMA MovedOnce ==
    ASSUME TypeOK, TypeOK', NEW c \in Channels, NEW k \in {0, 1}, Moved(c, k), OnceOf(c),
           \A r \in requests' : r.channel = c => r \in requests,
           overlapped \subseteq overlapped', table'[c] = table[c]
    PROVE  OnceOf(c)'
  <1> SUFFICES ASSUME c \notin overlapped
               PROVE  OnceOf(c)'
    BY DEF OnceOf
  <1>1. \A r, q \in requests' : r.channel = c /\ q.channel = c => r = q
    BY DEF OnceOf
  <1>2. (\E r \in requests' : r.channel = c) => \A i \in DOMAIN dbQueue' : ~WriteAt(i, c)'
    BY DEF OnceOf, Moved, WriteAt
  <1>3. ASSUME NEW i \in DOMAIN dbQueue', NEW j \in DOMAIN dbQueue',
               WriteAt(i, c)', WriteAt(j, c)'
        PROVE  i = j
    <2>1. WriteAt(i + k, c) /\ WriteAt(j + k, c)
      BY <1>3 DEF Moved
    <2>2. i + k = j + k
      BY <2>1 DEF OnceOf, WriteAt
    <2>3. i \in Int /\ j \in Int
      BY SMTT(30), QueuePlaces
    <2>. QED  BY <2>2, <2>3
  <1>4. ASSUME NEW i \in DOMAIN dbQueue', WriteAt(i, c)'
        PROVE  /\ Len(dbQueue'[i].rows) <= 1
               /\ dbQueue'[i].op = "insert" => table'[c] = <<>>
    BY <1>4 DEF OnceOf, Moved, WriteAt
  <1>5. Len(table'[c]) <= 1
    BY DEF OnceOf
  <1>. QED  BY <1>1, <1>2, <1>3, <1>4, <1>5 DEF OnceOf

\* A step that does not touch the queue.
LEMMA QueueUntouched ==
    ASSUME TypeOK, NEW c \in Channels, dbQueue' = dbQueue
    PROVE  Moved(c, 0)
  BY QueuePlaces DEF Moved, WriteAt

\* A block is taken that does not write to the channel.
LEMMA QueueTaken ==
    ASSUME TypeOK, NEW c \in Channels, dbQueue # <<>>, ~WriteAt(1, c), dbQueue' = Tail(dbQueue)
    PROVE  Moved(c, 1)
  <1>1. /\ Len(dbQueue') = Len(dbQueue) - 1
        /\ DOMAIN dbQueue' = 1 .. Len(dbQueue) - 1
        /\ \A i \in 1 .. Len(dbQueue) - 1 : dbQueue'[i] = dbQueue[i + 1]
    BY HeadTailProperties, LenProperties, EmptySeq DEF TypeOK
  <1>2. ASSUME NEW i \in DOMAIN dbQueue', WriteAt(i, c)'
        PROVE  WriteAt(i + 1, c) /\ dbQueue'[i] = dbQueue[i + 1]
    BY <1>1, <1>2, QueuePlaces DEF WriteAt
  <1>3. ASSUME NEW i \in DOMAIN dbQueue, WriteAt(i, c)
        PROVE  WriteAt(i - 1, c)' /\ dbQueue'[i - 1] = dbQueue[i]
    <2>1. i - 1 \in 1 .. Len(dbQueue) - 1 /\ (i - 1) + 1 = i
      BY <1>3, QueuePlaces
    <2>. QED  BY <1>1, <1>3, <2>1 DEF WriteAt
  <1>. QED  BY <1>2, <1>3 DEF Moved

\* A block is queued that does not write to the channel.
LEMMA QueueAppended ==
    ASSUME TypeOK, NEW c \in Channels, NEW b \in Block, b.op = "get" \/ b.channel # c,
           dbQueue' = Append(dbQueue, b)
    PROVE  Moved(c, 0)
  <1>1. /\ DOMAIN dbQueue' = 1 .. Len(dbQueue) + 1
        /\ \A i \in 1 .. Len(dbQueue) : dbQueue'[i] = dbQueue[i]
        /\ dbQueue'[Len(dbQueue) + 1] = b
    BY AppendProperties, LenProperties DEF TypeOK
  <1>. QED  BY <1>1, QueuePlaces DEF Moved, WriteAt

\* A block is taken and another queued; neither writes to the channel.
LEMMA QueueTurned ==
    ASSUME TypeOK, NEW c \in Channels, dbQueue # <<>>, ~WriteAt(1, c),
           NEW b \in Block, b.channel # c, dbQueue' = Append(Tail(dbQueue), b)
    PROVE  Moved(c, 1)
  <1>1. /\ DOMAIN dbQueue' = 1 .. Len(dbQueue)
        /\ \A i \in 1 .. Len(dbQueue) - 1 : dbQueue'[i] = dbQueue[i + 1]
        /\ dbQueue'[Len(dbQueue)] = b
    <2>1. /\ Tail(dbQueue) \in Seq(Block) /\ Len(Tail(dbQueue)) = Len(dbQueue) - 1
          /\ \A i \in 1 .. Len(dbQueue) - 1 : Tail(dbQueue)[i] = dbQueue[i + 1]
      BY HeadTailProperties DEF TypeOK
    <2>2. Len(dbQueue) \in Nat
      BY QueuePlaces
    <2> DEFINE rest == Tail(dbQueue)
    <2> HIDE DEF rest
    <2>3. /\ DOMAIN Append(rest, b) = 1 .. Len(rest) + 1
          /\ \A i \in 1 .. Len(rest) : Append(rest, b)[i] = rest[i]
          /\ Append(rest, b)[Len(rest) + 1] = b
      BY <2>1, AppendProperties, LenProperties DEF rest
    <2>. QED  BY <2>1, <2>2, <2>3 DEF rest
  <1>2. ASSUME NEW i \in DOMAIN dbQueue', WriteAt(i, c)'
        PROVE  WriteAt(i + 1, c) /\ dbQueue'[i] = dbQueue[i + 1]
    <2>1. i # Len(dbQueue)
      BY <1>1, <1>2 DEF WriteAt
    <2>2. i \in 1 .. Len(dbQueue) - 1 /\ i + 1 \in 1 .. Len(dbQueue)
      BY <1>1, <2>1, QueuePlaces
    <2>. QED  BY <1>1, <1>2, <2>2, QueuePlaces DEF WriteAt
  <1>3. ASSUME NEW i \in DOMAIN dbQueue, WriteAt(i, c)
        PROVE  WriteAt(i - 1, c)' /\ dbQueue'[i - 1] = dbQueue[i]
    <2>1. i # 1
      BY <1>3
    <2>2. i - 1 \in 1 .. Len(dbQueue) - 1 /\ (i - 1) + 1 = i /\ i - 1 \in 1 .. Len(dbQueue)
      BY <2>1, QueuePlaces
    <2>. QED  BY <1>1, <1>3, <2>2 DEF WriteAt
  <1>. QED  BY <1>2, <1>3 DEF Moved

\* The block at the head of the queue is the one at place 1.
LEMMA FirstBlock ==
    ASSUME TypeOK, dbQueue # <<>>
    PROVE  /\ Head(dbQueue) = dbQueue[1] /\ 1 \in DOMAIN dbQueue
           /\ Head(dbQueue) \in Block
           /\ \A c : WriteAt(1, c) <=> Head(dbQueue).op # "get" /\ Head(dbQueue).channel = c
  <1>1. Head(dbQueue) = dbQueue[1] /\ 1 \in DOMAIN dbQueue
    BY HeadTailProperties, EmptySeq, LenProperties DEF TypeOK
  <1>. QED  BY <1>1, QueuePlaces DEF WriteAt

-----------------------------------------------------------------------------
(* The steps.                                                              *)

\* Reads are queued behind everything.
LEMMA LoadAllStore ==
    ASSUME Inv, Inv', StoreInv, NEW calls \in Seq(Load), LoadAll(calls)
    PROVE  StoreInv'
  <1> DEFINE gets == [i \in DOMAIN calls |-> GetBlock(calls[i])]
  <1>1. gets \in Seq(Get)
    BY GetBlocks
  <1>2. dbQueue \in Seq(Block) /\ gets \in Seq(Block)
    BY <1>1, SeqMonotonic DEF Inv, TypeOK, Block
  <1>3. \A i \in 1 .. Len(gets) : gets[i].op = "get"
    <2>1. \A i \in 1 .. Len(gets) : gets[i] \in Get
      BY <1>1, ElementOfSeq
    <2>. QED  BY <2>1 DEF Get
  <1> HIDE DEF gets
  <1>4. dbQueue' = dbQueue \o gets
    BY DEF LoadAll, gets
  <1>5. Len(dbQueue) \in Nat /\ Len(gets) \in Nat
    BY <1>2, LenProperties
  <1>6. /\ DOMAIN dbQueue' = 1 .. Len(dbQueue) + Len(gets)
        /\ \A i \in 1 .. Len(dbQueue) + Len(gets) :
              dbQueue'[i] = IF i <= Len(dbQueue) THEN dbQueue[i] ELSE gets[i - Len(dbQueue)]
    BY <1>2, <1>4, ConcatProperties, LenProperties
  <1>7. ASSUME NEW c \in Channels
        PROVE  Moved(c, 0)
    <2>1. ASSUME NEW i \in DOMAIN dbQueue', WriteAt(i, c)'
          PROVE  WriteAt(i, c) /\ dbQueue'[i] = dbQueue[i]
      <3>1. CASE i <= Len(dbQueue)
        BY <1>5, <1>6, <2>1, <3>1, QueuePlaces DEF WriteAt, Inv
      <3>2. CASE ~(i <= Len(dbQueue))
        <4>1. i - Len(dbQueue) \in 1 .. Len(gets)
          BY <1>5, <1>6, <3>2
        <4>2. dbQueue'[i].op = "get"
          BY <1>3, <1>5, <1>6, <3>2, <4>1
        <4>. QED  BY <2>1, <4>2 DEF WriteAt
      <3>. QED  BY <3>1, <3>2
    <2>2. ASSUME NEW i \in DOMAIN dbQueue, WriteAt(i, c)
          PROVE  WriteAt(i, c)' /\ dbQueue'[i] = dbQueue[i]
      BY <1>5, <1>6, <2>2, QueuePlaces DEF WriteAt, Inv
    <2>3. \A i \in Int : i + 0 = i /\ i - 0 = i
      OBVIOUS
    <2>. QED  BY <1>6, <2>1, <2>2, <2>3, QueuePlaces DEF Moved, Inv
  <1>8. UNCHANGED <<answer, table, requests, overlapped>>
    BY DEF LoadAll
  <1>. QED  BY <1>7, <1>8, MovedNewest, MovedOnce DEF StoreInv, Inv

\* A read leaves the queue.
LEMMA RunGetStore ==
    ASSUME Inv, Inv', StoreInv, RunGet
    PROVE  StoreInv'
  <1>1. \A c \in Channels : Moved(c, 1)
    BY FirstBlock, QueueTaken DEF RunGet, Inv
  <1>2. UNCHANGED <<answer, table, requests, overlapped>>
    BY DEF RunGet, history
  <1>. QED  BY <1>1, <1>2, MovedNewest, MovedOnce DEF StoreInv, Inv

\* After the block at the head has been taken and run, the one write under way
\* of its channel is over, unless it queued another.
LEMMA LastWriteTaken ==
    ASSUME TypeOK, NEW c \in Channels \ overlapped, OnceOf(c), dbQueue # <<>>, WriteAt(1, c),
           dbQueue' = Tail(dbQueue), requests' = requests, Len(table'[c]) <= 1
    PROVE  OnceOf(c)'
  <1>1. /\ Len(dbQueue') = Len(dbQueue) - 1
        /\ DOMAIN dbQueue' = 1 .. Len(dbQueue) - 1
        /\ \A i \in 1 .. Len(dbQueue) - 1 : dbQueue'[i] = dbQueue[i + 1]
    BY HeadTailProperties, LenProperties, EmptySeq DEF TypeOK
  <1>2. ASSUME NEW i \in DOMAIN dbQueue', WriteAt(i, c)'
        PROVE  FALSE
    <2>1. WriteAt(i + 1, c) /\ i + 1 \in DOMAIN dbQueue /\ i + 1 # 1
      BY <1>1, <1>2, QueuePlaces DEF WriteAt
    <2>. QED  BY <2>1, FirstBlock DEF OnceOf
  <1>3. \A r \in requests : r.channel # c
    BY FirstBlock DEF OnceOf
  <1>. QED  BY <1>2, <1>3 DEF OnceOf

\* A delete that runs queues the insert of the same news last of all.
LEMMA DeleteRunsStore ==
    ASSUME Inv, Inv', StoreInv, RunDelete, DeleteRuns(Head(dbQueue)), answer' = answer,
           NEW c \in Channels, c = Head(dbQueue).channel
    PROVE  NewestOf(c)' /\ OnceOf(c)'
  <1>0. PICK n \in Nat : n = Len(dbQueue)
    BY QueuePlaces DEF Inv
  <1> DEFINE b == Head(dbQueue)
             ins == InsertBlock(b)
  <1>1. /\ b = dbQueue[1] /\ b \in Block /\ b.op = "delete" /\ dbQueue # <<>>
        /\ DeleteAt(1, c) /\ 1 \in DOMAIN dbQueue
    BY FirstBlock DEF RunDelete, Inv, DeleteAt
  <1>2. n \in Nat /\ n >= 1 /\ DOMAIN dbQueue = 1 .. n
    BY <1>0, <1>1, QueuePlaces DEF Inv
  <1>3. /\ DOMAIN dbQueue' = 1 .. n
        /\ \A i \in 1 .. n - 1 : dbQueue'[i] = dbQueue[i + 1]
        /\ dbQueue'[n] = ins
    <2>1. /\ Tail(dbQueue) \in Seq(Block) /\ Len(Tail(dbQueue)) = n - 1
          /\ \A i \in 1 .. n - 1 : Tail(dbQueue)[i] = dbQueue[i + 1]
      BY <1>0, <1>1, HeadTailProperties DEF Inv, TypeOK
    <2>2. ins \in Block
      BY <1>1, BlockKinds DEF InsertBlock, Block, Insert
    <2>3. dbQueue' = Append(Tail(dbQueue), ins)
      BY DEF DeleteRuns
    <2> DEFINE rest == Tail(dbQueue)
    <2> HIDE DEF rest, ins
    <2>4. /\ DOMAIN Append(rest, ins) = 1 .. Len(rest) + 1
          /\ \A i \in 1 .. Len(rest) : Append(rest, ins)[i] = rest[i]
          /\ Append(rest, ins)[Len(rest) + 1] = ins
      BY <2>1, <2>2, AppendProperties, LenProperties DEF rest
    <2>. QED  BY <1>2, <2>1, <2>3, <2>4 DEF rest
  <1>4. ins.op = "insert" /\ ins.channel = c /\ ins.rows = b.rows
    BY DEF InsertBlock
  <1> HIDE DEF b, ins
  <1>5. /\ WriteAt(n, c)' /\ n \in DOMAIN dbQueue' /\ ~DeleteAt(n, c)'
        /\ \A i \in 1 .. n - 1 : WriteAt(i, c)' => WriteAt(i + 1, c)
        /\ \A i \in 1 .. n - 1 : DeleteAt(i, c)' => DeleteAt(i + 1, c)
        /\ \A i \in 2 .. n : DeleteAt(i, c) => DeleteAt(i - 1, c)' /\ dbQueue'[i - 1] = dbQueue[i]
    <2>1. WriteAt(n, c)' /\ n \in DOMAIN dbQueue' /\ ~DeleteAt(n, c)'
      BY <1>2, <1>3, <1>4 DEF WriteAt, DeleteAt
    <2>2. ASSUME NEW i \in 1 .. n - 1
          PROVE  (WriteAt(i, c)' => WriteAt(i + 1, c)) /\ (DeleteAt(i, c)' => DeleteAt(i + 1, c))
      <3>1. dbQueue'[i] = dbQueue[i + 1] /\ i + 1 \in DOMAIN dbQueue
        BY <1>2, <1>3
      <3>. QED  BY <3>1 DEF WriteAt, DeleteAt
    <2>3. ASSUME NEW i \in 2 .. n, DeleteAt(i, c)
          PROVE  DeleteAt(i - 1, c)' /\ dbQueue'[i - 1] = dbQueue[i]
      <3>1. i - 1 \in 1 .. n - 1 /\ (i - 1) + 1 = i /\ i - 1 \in 1 .. n
        BY <1>2
      <3>. QED  BY <1>3, <2>3, <3>1 DEF WriteAt, DeleteAt
    <2>. QED  BY <2>1, <2>2, <2>3
  <1>6. NewestOf(c)'
    <2> SUFFICES ASSUME answer[c] # Unknown
                 PROVE  NewestOf(c)'
      BY DEF NewestOf
    <2>1. PICK i \in DOMAIN dbQueue :
             /\ DeleteAt(i, c) /\ HoldsAnswer(dbQueue[i].rows, c)
             /\ \A j \in DOMAIN dbQueue : DeleteAt(j, c) => j <= i
      BY <1>1 DEF StoreInv, NewestOf, DeleteAt
    <2>2. CASE i = 1
      <3>1. \A j \in DOMAIN dbQueue' : ~DeleteAt(j, c)'
        <4> SUFFICES ASSUME NEW j \in 1 .. n, DeleteAt(j, c)'
                     PROVE  FALSE
          BY <1>3
        <4>1. j \in 1 .. n - 1
          BY <1>2, <1>5
        <4>2. DeleteAt(j + 1, c) /\ j + 1 \in DOMAIN dbQueue
          BY <1>2, <1>5, <4>1
        <4>3. j + 1 <= 1
          BY <2>1, <2>2, <4>2
        <4>. QED  BY <4>1, <4>3
      <3>2. HoldsAnswer(dbQueue[n].rows, c)'
        BY <1>1, <1>3, <1>4, <2>1, <2>2 DEF HoldsAnswer
      <3>3. \A j \in DOMAIN dbQueue' : j <= n
        BY <1>2, <1>3
      <3>. QED  BY <1>5, <3>1, <3>2, <3>3 DEF NewestOf
    <2>3. CASE i # 1
      <3>1. i \in 2 .. n
        BY <1>2, <2>1, <2>3
      <3>2. DeleteAt(i - 1, c)' /\ HoldsAnswer(dbQueue[i - 1].rows, c)' /\ i - 1 \in DOMAIN dbQueue'
        BY <1>5, <2>1, <3>1 DEF HoldsAnswer, DeleteAt, WriteAt
      <3>3. ASSUME NEW j \in DOMAIN dbQueue', DeleteAt(j, c)'
            PROVE  j <= i - 1
        <4>1. j \in 1 .. n - 1
          BY <1>2, <1>3, <1>5, <3>3
        <4>2. DeleteAt(j + 1, c) /\ j + 1 \in DOMAIN dbQueue
          BY <1>2, <1>5, <3>3, <4>1
        <4>3. j + 1 <= i
          BY <2>1, <4>2
        <4>. QED  BY <1>2, <3>1, <4>1, <4>3
      <3>. QED  BY <3>2, <3>3 DEF NewestOf
    <2>. QED  BY <2>2, <2>3
  <1>7. OnceOf(c)'
    <2>1. table'[c] = <<>> /\ requests' = requests /\ overlapped' = overlapped
      BY DEF RunDelete, DeleteRuns, Inv, TypeOK
    <2> SUFFICES ASSUME c \notin overlapped
                 PROVE  OnceOf(c)'
      BY <2>1 DEF OnceOf
    <2>2. OnceOf(c)
      BY DEF StoreInv
    <2>3. ASSUME NEW i \in DOMAIN dbQueue', WriteAt(i, c)'
          PROVE  i = n
      <3> SUFFICES ASSUME i # n
                   PROVE  FALSE
        OBVIOUS
      <3>1. i \in 1 .. n - 1
        BY <1>2, <1>3
      <3>2. WriteAt(i + 1, c) /\ i + 1 \in DOMAIN dbQueue /\ i + 1 # 1
        BY <1>2, <1>5, <2>3, <3>1
      <3>. QED  BY <1>1, <2>2, <3>2 DEF OnceOf, DeleteAt
    <2>4. \A r \in requests : r.channel # c
      BY <1>1, <2>2 DEF OnceOf, DeleteAt
    <2>5. Len(dbQueue'[n].rows) <= 1
      BY <1>1, <1>3, <1>4, <2>2 DEF OnceOf, DeleteAt
    <2>6. Len(<<>>) <= 1
      OBVIOUS
    <2>. QED  BY <2>1, <2>3, <2>4, <2>5, <2>6 DEF OnceOf
  <1>. QED  BY <1>6, <1>7

\* A write that fails takes its channel's answer with it.
LEMMA WriteFailsStore ==
    ASSUME Inv, Inv', StoreInv, dbQueue # <<>>, dbQueue' = Tail(dbQueue),
           UNCHANGED <<table, requests, overlapped>>,
           answer' = [answer EXCEPT ![Head(dbQueue).channel] = Unknown],
           Head(dbQueue).op # "get"
    PROVE  StoreInv'
  <1> SUFFICES ASSUME NEW c \in Channels
               PROVE  NewestOf(c)' /\ OnceOf(c)'
    BY DEF StoreInv
  <1>1. /\ TypeOK /\ TypeOK' /\ NewestOf(c) /\ OnceOf(c)
        /\ table' = table /\ requests' = requests /\ overlapped' = overlapped
    BY DEF Inv, StoreInv
  <1>2. WriteAt(1, c) <=> Head(dbQueue).channel = c
    BY <1>1, FirstBlock
  <1>3. CASE Head(dbQueue).channel = c
    <2>1. NewestOf(c)'
      BY <1>1, <1>3 DEF NewestOf, TypeOK
    <2>2. CASE c \in overlapped
      BY <1>1, <2>1, <2>2 DEF OnceOf
    <2>3. CASE c \notin overlapped
      <3>1. Len(table'[c]) <= 1
        BY <1>1, <2>3 DEF OnceOf
      <3>. QED  BY <1>1, <1>2, <1>3, <2>1, <2>3, <3>1, LastWriteTaken
    <2>. QED  BY <2>1, <2>2, <2>3
  <1>4. CASE Head(dbQueue).channel # c
    <2>1. Moved(c, 1)
      BY <1>1, <1>2, <1>4, QueueTaken
    <2>2. answer'[c] = answer[c]
      BY <1>1, <1>4 DEF TypeOK
    <2>. QED  BY <1>1, <2>1, <2>2, MovedNewest, MovedOnce
  <1>. QED  BY <1>3, <1>4

\* A delete concerns its own channel, and queues its insert there.
LEMMA RunDeleteStore ==
    ASSUME Inv, Inv', StoreInv, RunDelete
    PROVE  StoreInv'
  <1>1. /\ dbQueue # <<>> /\ Head(dbQueue).op = "delete" /\ Head(dbQueue) \in Block
        /\ UNCHANGED <<requests, overlapped>>
    BY FirstBlock DEF RunDelete, Inv
  <1>2. CASE DeleteRuns(Head(dbQueue)) /\ answer' = answer
    <2> SUFFICES ASSUME NEW c \in Channels
                 PROVE  NewestOf(c)' /\ OnceOf(c)'
      BY DEF StoreInv
    <2>1. CASE c = Head(dbQueue).channel
      BY <1>2, <2>1, DeleteRunsStore
    <2>2. CASE c # Head(dbQueue).channel
      <3>1. TypeOK /\ TypeOK' /\ NewestOf(c) /\ OnceOf(c)
        BY DEF Inv, StoreInv
      <3>2. ~WriteAt(1, c)
        BY <1>1, <2>2, <3>1, FirstBlock
      <3>3. InsertBlock(Head(dbQueue)) \in Block /\ InsertBlock(Head(dbQueue)).channel # c
        BY <1>1, <2>2, BlockKinds DEF InsertBlock, Block, Insert
      <3>4. dbQueue' = Append(Tail(dbQueue), InsertBlock(Head(dbQueue))) /\ table'[c] = table[c]
        BY <1>2, <2>2, <3>1 DEF DeleteRuns, TypeOK
      <3>5. Moved(c, 1)
        BY <1>1, <3>1, <3>2, <3>3, <3>4, QueueTurned
      <3>. QED  BY <1>1, <1>2, <3>1, <3>4, <3>5, MovedNewest, MovedOnce
    <2>. QED  BY <2>1, <2>2
  <1>3. CASE DeleteFails(Head(dbQueue))
    BY <1>1, <1>3, WriteFailsStore DEF DeleteFails
  <1>. QED  BY <1>2, <1>3 DEF RunDelete

\* An insert that runs appends its rows to those of its channel.
LEMMA InsertRunsStore ==
    ASSUME Inv, Inv', StoreInv, RunInsert, InsertRuns(Head(dbQueue)), answer' = answer,
           NEW c \in Channels, c = Head(dbQueue).channel
    PROVE  NewestOf(c)' /\ OnceOf(c)'
  <1>0. PICK n \in Nat : n = Len(dbQueue)
    BY QueuePlaces DEF Inv
  <1> DEFINE b == Head(dbQueue)
  <1>1. /\ b = dbQueue[1] /\ b \in Block /\ b.op = "insert" /\ dbQueue # <<>>
        /\ WriteAt(1, c) /\ ~DeleteAt(1, c) /\ 1 \in DOMAIN dbQueue
    BY FirstBlock DEF RunInsert, Inv, DeleteAt
  <1>2. n >= 1 /\ DOMAIN dbQueue = 1 .. n /\ dbQueue' = Tail(dbQueue)
    BY <1>0, <1>1, QueuePlaces DEF Inv, RunInsert
  <1>3. /\ DOMAIN dbQueue' = 1 .. n - 1
        /\ \A i \in 1 .. n - 1 : dbQueue'[i] = dbQueue[i + 1]
    BY <1>0, <1>1, <1>2, HeadTailProperties, LenProperties, EmptySeq DEF Inv, TypeOK
  <1>4. /\ table[c] \in Seq(Batch) /\ b.rows \in Seq(Batch)
        /\ table'[c] = table[c] \o b.rows
    BY <1>1, BlockKinds DEF InsertRuns, Inv, TypeOK
  <1> HIDE DEF b
  <1>5. ASSUME NEW i \in 1 .. n - 1
        PROVE  (WriteAt(i, c)' <=> WriteAt(i + 1, c)) /\ (DeleteAt(i, c)' <=> DeleteAt(i + 1, c))
    <2>1. dbQueue'[i] = dbQueue[i + 1] /\ i + 1 \in DOMAIN dbQueue /\ i \in DOMAIN dbQueue'
      BY <1>2, <1>3
    <2>. QED  BY <2>1 DEF WriteAt, DeleteAt
  <1>6. NewestOf(c)'
    <2> SUFFICES ASSUME answer[c] # Unknown
                 PROVE  NewestOf(c)'
      BY DEF NewestOf
    <2>1. CASE \E i \in DOMAIN dbQueue :
                  /\ DeleteAt(i, c) /\ HoldsAnswer(dbQueue[i].rows, c)
                  /\ \A j \in DOMAIN dbQueue : DeleteAt(j, c) => j <= i
      <3>1. PICK i \in DOMAIN dbQueue :
               /\ DeleteAt(i, c) /\ HoldsAnswer(dbQueue[i].rows, c)
               /\ \A j \in DOMAIN dbQueue : DeleteAt(j, c) => j <= i
        BY <2>1
      <3>2. i - 1 \in 1 .. n - 1 /\ (i - 1) + 1 = i /\ i \in Int
        <4>1. i # 1
          BY <1>1, <3>1
        <4>. QED  BY <1>2, <4>1
      <3>3. /\ DeleteAt(i - 1, c)' /\ i - 1 \in DOMAIN dbQueue'
            /\ HoldsAnswer(dbQueue[i - 1].rows, c)'
        BY <1>3, <1>5, <3>1, <3>2 DEF HoldsAnswer
      <3>4. ASSUME NEW j \in DOMAIN dbQueue', DeleteAt(j, c)'
            PROVE  j <= i - 1
        <4>1. j \in 1 .. n - 1 /\ j + 1 \in DOMAIN dbQueue /\ DeleteAt(j + 1, c)
          BY <1>2, <1>3, <1>5, <3>4
        <4>2. j + 1 <= i
          BY <3>1, <4>1
        <4>. QED  BY <3>2, <4>1, <4>2
      <3>. QED  BY <3>3, <3>4 DEF NewestOf
    <2>2. CASE /\ \A j \in DOMAIN dbQueue : ~DeleteAt(j, c)
               /\ \E i \in DOMAIN dbQueue :
                     /\ WriteAt(i, c) /\ HoldsAnswer(dbQueue[i].rows, c)
                     /\ \A j \in DOMAIN dbQueue : WriteAt(j, c) => j <= i
      <3>1. PICK i \in DOMAIN dbQueue :
               /\ WriteAt(i, c) /\ HoldsAnswer(dbQueue[i].rows, c)
               /\ \A j \in DOMAIN dbQueue : WriteAt(j, c) => j <= i
        BY <2>2
      <3>2. ASSUME NEW j \in DOMAIN dbQueue'
            PROVE  /\ j \in 1 .. n - 1 /\ j + 1 \in DOMAIN dbQueue /\ ~DeleteAt(j, c)'
                   /\ WriteAt(j, c)' => j + 1 <= i
        BY <1>2, <1>3, <1>5, <2>2, <3>1
      <3>3. CASE i = 1
        <4>1. \A j \in DOMAIN dbQueue' : ~WriteAt(j, c)'
          BY <3>2, <3>3
        <4>2. b.rows # <<>> /\ b.rows[Len(b.rows)].id = answer[c]
          BY <1>1, <3>1, <3>3 DEF HoldsAnswer
        <4>3. HoldsAnswer(table[c], c)'
          <5> DEFINE s == table[c]
                     t == b.rows
          <5>1. s \in Seq(Batch) /\ t \in Seq(Batch) /\ t # <<>>
            BY <1>4, <4>2
          <5> HIDE DEF s, t
          <5>2. /\ Len(s) \in Nat /\ Len(t) \in Nat /\ Len(t) > 0
                /\ Len(s \o t) = Len(s) + Len(t)
                /\ (s \o t)[Len(s) + Len(t)] = t[Len(t)]
            BY <5>1, ConcatProperties, LenProperties, EmptySeq
          <5>3. s \o t # <<>>
            BY <5>1, <5>2, EmptySeq
          <5>. QED  BY <1>4, <4>2, <5>2, <5>3 DEF s, t, HoldsAnswer
        <4>. QED  BY <4>1, <4>3 DEF NewestOf
      <3>4. CASE i # 1
        <4>1. i - 1 \in 1 .. n - 1 /\ (i - 1) + 1 = i /\ i \in Int
          BY <1>2, <3>1, <3>4
        <4>2. /\ WriteAt(i - 1, c)' /\ i - 1 \in DOMAIN dbQueue'
              /\ HoldsAnswer(dbQueue[i - 1].rows, c)'
          BY <1>3, <1>5, <3>1, <4>1 DEF HoldsAnswer
        <4>3. \A j \in DOMAIN dbQueue' : ~DeleteAt(j, c)' /\ (WriteAt(j, c)' => j <= i - 1)
          BY <3>2, <4>1
        <4>. QED  BY <4>2, <4>3 DEF NewestOf
      <3>. QED  BY <3>3, <3>4
    <2>. QED  BY <1>1, <2>1, <2>2 DEF StoreInv, NewestOf
  <1>7. OnceOf(c)'
    <2>1. requests' = requests /\ overlapped' = overlapped /\ OnceOf(c)
      BY DEF RunInsert, StoreInv
    <2> SUFFICES ASSUME c \notin overlapped
                 PROVE  OnceOf(c)'
      BY <2>1 DEF OnceOf
    <2>2. table[c] = <<>> /\ Len(b.rows) <= 1
      BY <1>1, <2>1 DEF OnceOf
    <2>3. Len(table'[c]) <= 1
      BY <1>4, <2>2, ConcatProperties, LenProperties
    <2>. QED  BY <1>1, <1>2, <2>1, <2>3, LastWriteTaken DEF Inv
  <1>. QED  BY <1>6, <1>7

\* An insert concerns its own channel only.
LEMMA RunInsertStore ==
    ASSUME Inv, Inv', StoreInv, RunInsert
    PROVE  StoreInv'
  <1>1. /\ dbQueue # <<>> /\ Head(dbQueue).op = "insert" /\ dbQueue' = Tail(dbQueue)
        /\ UNCHANGED <<requests, overlapped>>
    BY DEF RunInsert
  <1>2. CASE InsertRuns(Head(dbQueue)) /\ answer' = answer
    <2> SUFFICES ASSUME NEW c \in Channels
                 PROVE  NewestOf(c)' /\ OnceOf(c)'
      BY DEF StoreInv
    <2>1. CASE c = Head(dbQueue).channel
      BY <1>2, <2>1, InsertRunsStore
    <2>2. CASE c # Head(dbQueue).channel
      <3>1. TypeOK /\ TypeOK' /\ NewestOf(c) /\ OnceOf(c)
        BY DEF Inv, StoreInv
      <3>2. Moved(c, 1)
        BY <1>1, <2>2, <3>1, FirstBlock, QueueTaken
      <3>3. table'[c] = table[c]
        BY <1>2, <2>2, <3>1 DEF InsertRuns, TypeOK
      <3>. QED  BY <1>1, <1>2, <3>1, <3>2, <3>3, MovedNewest, MovedOnce
    <2>. QED  BY <2>1, <2>2
  <1>3. CASE InsertFails(Head(dbQueue))
    BY <1>1, <1>3, WriteFailsStore DEF InsertFails
  <1>. QED  BY <1>2, <1>3 DEF RunInsert

\* A controller that has a read under way asks for one of the channels.
LEMMA AsksForAChannel ==
    ASSUME Inv, mainQueue # <<>>
    PROVE  /\ Head(mainQueue).vc \in VC
           /\ channelName[Head(mainQueue).vc] \in Channels
  <1>1. mainQueue \in Seq(Result) /\ Head(mainQueue) \in Elements(mainQueue)
    BY ElementsTail DEF Inv, TypeOK
  <1>2. Head(mainQueue) \in Result
    BY <1>1, ElementsType
  <1>. QED  BY <1>1, <1>2 DEF Inv, ReadersAreNamed, Result

\* A request for a channel with another answer outstanding overlaps it.
LEMMA DeliverRowsStore ==
    ASSUME Inv, Inv', StoreInv, DeliverRows
    PROVE  StoreInv'
  <1> SUFFICES ASSUME NEW c \in Channels
               PROVE  NewestOf(c)' /\ OnceOf(c)'
    BY DEF StoreInv
  <1>1. /\ TypeOK /\ TypeOK' /\ NewestOf(c) /\ OnceOf(c)
        /\ dbQueue' = dbQueue /\ table' = table /\ answer' = answer /\ mainQueue # <<>>
    BY DEF DeliverRows, Inv, StoreInv
  <1>2. Moved(c, 0)
    BY <1>1, QueueUntouched
  <1>3. NewestOf(c)'
    BY <1>1, <1>2, MovedNewest
  <1>4. CASE requests' = requests /\ overlapped' = overlapped
    BY <1>1, <1>2, <1>3, <1>4, MovedOnce
  <1>5. CASE SendRequest(Head(mainQueue).vc)
    <2> DEFINE v == Head(mainQueue).vc
               d == channelName[v]
    <2>1. v \in VC /\ d \in Channels
      BY <1>1, AsksForAChannel
    <2>2. /\ requests' = requests \cup {[vc |-> v, channel |-> d, id |-> lastId + 1]}
          /\ overlapped' = IF Unsettled(d) THEN overlapped \cup {d} ELSE overlapped
      BY <1>5 DEF SendRequest
    <2> HIDE DEF v, d
    <2>3. overlapped \subseteq overlapped'
      BY <2>2
    <2>4. CASE c # d
      <3>1. \A r \in requests' : r.channel = c => r \in requests
        BY <2>2, <2>4
      <3>. QED  BY <1>1, <1>2, <1>3, <2>3, <3>1, MovedOnce
    <2>5. CASE c = d /\ Unsettled(c)
      BY <1>3, <2>2, <2>5 DEF OnceOf
    <2>6. CASE c = d /\ ~Unsettled(c)
      <3>1. /\ \A r \in requests : r.channel # c
            /\ \A i \in DOMAIN dbQueue : ~WriteAt(i, c)
        BY <2>6 DEF Unsettled, Elements, WriteAt
      <3>2. \A r, q \in requests' : r.channel = c /\ q.channel = c => r = q
        BY <2>2, <3>1
      <3>3. \A i \in DOMAIN dbQueue' : ~WriteAt(i, c)'
        BY <1>1, <3>1 DEF WriteAt
      <3>4. c \notin overlapped' => Len(table'[c]) <= 1
        BY <1>1, <2>3 DEF OnceOf
      <3>. QED  BY <1>3, <3>2, <3>3, <3>4 DEF OnceOf
    <2>. QED  BY <2>4, <2>5, <2>6
  <1>. QED  BY <1>4, <1>5 DEF DeliverRows

\* An answer queues its delete block behind all writes of its channel.
LEMMA RespondStore ==
    ASSUME Inv, Inv', StoreInv, NEW r \in requests, NEW outcome \in Outcomes,
           Respond(r, outcome)
    PROVE  StoreInv'
  <1> SUFFICES ASSUME NEW c \in Channels
               PROVE  NewestOf(c)' /\ OnceOf(c)'
    BY DEF StoreInv
  <1>0. PICK n \in Nat : n = Len(dbQueue)
    BY QueuePlaces DEF Inv
  <1> DEFINE rows == Answered(r, outcome)
             del == DeleteBlock(r, rows)
  <1>1. /\ TypeOK /\ TypeOK' /\ NewestOf(c) /\ OnceOf(c)
        /\ table' = table /\ overlapped' = overlapped /\ requests' = requests \ {r}
        /\ dbQueue' = Append(dbQueue, del)
        /\ answer' = [answer EXCEPT ![r.channel] = IF outcome = "none" THEN Unknown ELSE r.id]
    BY DEF Respond, Inv, StoreInv
  <1>2. r \in Request /\ r.channel \in Channels /\ r.id \in Nat
    BY <1>1 DEF TypeOK, Request
  <1>3. /\ rows \in Seq(Batch) /\ Len(rows) <= 1
        /\ outcome # "none" => rows # <<>> /\ rows[Len(rows)].id = r.id
    <2>1. CASE outcome = "none"
      <3>1. rows = <<>> /\ Len(<<>>) = 0
        BY <2>1 DEF Answered
      <3> HIDE DEF rows
      <3>. QED  BY <2>1, <3>1
    <2>2. CASE outcome # "none"
      <3> DEFINE batch == [channel |-> r.channel, id |-> r.id]
      <3>1. rows = <<batch>> /\ batch \in Batch /\ batch.id = r.id
        BY <1>2, <2>2 DEF Answered, Batch
      <3> HIDE DEF batch
      <3>. QED  BY <3>1
    <2>. QED  BY <2>1, <2>2
  <1>4. /\ del \in Block /\ del.op = "delete" /\ del.channel = r.channel /\ del.rows = rows
    BY <1>2, <1>3 DEF DeleteBlock, Block, Delete
  <1> HIDE DEF rows, del
  <1>5. CASE c # r.channel
    <2>1. Moved(c, 0)
      BY <1>1, <1>4, <1>5, QueueAppended
    <2>2. answer'[c] = answer[c]
      BY <1>1, <1>5 DEF TypeOK
    <2>. QED  BY <1>1, <2>1, <2>2, MovedNewest, MovedOnce
  <1>6. CASE c = r.channel
    <2>1. /\ DOMAIN dbQueue = 1 .. n /\ DOMAIN dbQueue' = 1 .. n + 1
          /\ \A i \in 1 .. n : dbQueue'[i] = dbQueue[i]
          /\ dbQueue'[n + 1] = del
      BY <1>0, <1>1, <1>4, AppendProperties, LenProperties DEF TypeOK
    <2>2. n + 1 \in DOMAIN dbQueue' /\ \A j \in DOMAIN dbQueue' : j <= n + 1
      BY <2>1
    <2>3. NewestOf(c)'
      <3> SUFFICES ASSUME answer'[c] # Unknown
                   PROVE  NewestOf(c)'
        BY DEF NewestOf
      <3>1. outcome # "none" /\ answer'[c] = r.id
        BY <1>1, <1>2, <1>6 DEF TypeOK
      <3>2. DeleteAt(n + 1, c)' /\ HoldsAnswer(dbQueue[n + 1].rows, c)'
        BY <1>3, <1>4, <1>6, <2>1, <2>2, <3>1 DEF DeleteAt, WriteAt, HoldsAnswer
      <3>. QED  BY <2>2, <3>2 DEF NewestOf
    <2>4. OnceOf(c)'
      <3> SUFFICES ASSUME c \notin overlapped
                   PROVE  OnceOf(c)'
        BY <1>1 DEF OnceOf
      <3>1. /\ \A q \in requests' : q.channel # c
            /\ \A i \in 1 .. n : ~WriteAt(i, c)
            /\ Len(table'[c]) <= 1
        BY <1>1, <1>6, <2>1 DEF OnceOf
      <3>2. ASSUME NEW i \in DOMAIN dbQueue', WriteAt(i, c)'
            PROVE  i = n + 1
        <4>1. i \in 1 .. n => WriteAt(i, c)
          BY <2>1, <3>2 DEF WriteAt
        <4>. QED  BY <2>1, <3>1, <4>1
      <3>3. Len(dbQueue'[n + 1].rows) <= 1 /\ dbQueue'[n + 1].op # "insert"
        BY <1>3, <1>4, <2>1
      <3>. QED  BY <3>1, <3>2, <3>3 DEF OnceOf
    <2>. QED  BY <2>3, <2>4
  <1>. QED  BY <1>5, <1>6

\* A request that fails is one request less.
LEMMA RequestFailsStore ==
    ASSUME Inv, Inv', StoreInv, NEW r \in requests, RequestFails(r)
    PROVE  StoreInv'
  <1>1. /\ dbQueue' = dbQueue /\ table' = table /\ answer' = answer
        /\ overlapped' = overlapped /\ requests' \subseteq requests
    BY DEF RequestFails, history
  <1>2. \A c \in Channels : Moved(c, 0)
    BY <1>1, QueueUntouched DEF Inv
  <1>. QED  BY <1>1, <1>2, MovedNewest, MovedOnce DEF StoreInv, Inv

\* A crash loses every answer and every write under way.
LEMMA CrashStore ==
    ASSUME Inv, StoreInv, Crash
    PROVE  StoreInv'
  <1>1. /\ dbQueue' = <<>> /\ requests' = {} /\ table' = table /\ overlapped' = overlapped
        /\ \A c \in Channels : answer'[c] = Unknown
    BY DEF Crash
  <1>2. DOMAIN dbQueue' = {}
    BY <1>1
  <1>. QED  BY <1>1, <1>2 DEF StoreInv, NewestOf, OnceOf

\* Nothing is under way or stored at first.
LEMMA InitStore ==
    ASSUME Init
    PROVE  StoreInv
  <1>1. DOMAIN dbQueue = {} /\ Len(<<>>) = 0
    BY DEF Init
  <1>. QED  BY <1>1 DEF Init, StoreInv, NewestOf, OnceOf

\* Nothing happens.
LEMMA StutterStore ==
    ASSUME Inv, StoreInv, UNCHANGED vars
    PROVE  StoreInv'
  <1>1. dbQueue' = dbQueue /\ table' = table /\ requests' = requests
        /\ answer' = answer /\ overlapped' = overlapped
    BY DEF vars, history
  <1>. QED  BY <1>1 DEF StoreInv, NewestOf, OnceOf, WriteAt, DeleteAt, HoldsAnswer

\* The invariant holds of the specification.
THEOREM StoreInvariance == Spec => []StoreInv
  <1>1. Inv /\ Inv' /\ StoreInv /\ [Next]_vars => StoreInv'
    <2> SUFFICES ASSUME Inv, Inv', StoreInv, [Next]_vars
                 PROVE  StoreInv'
      OBVIOUS
    <2>1. ASSUME NEW calls \in CallSequences, LoadAll(calls)
          PROVE  StoreInv'
      BY <2>1, CallsAreLoads, LoadAllStore
    <2>2. ASSUME SomeResponse
          PROVE  StoreInv'
      BY <2>2, RespondStore DEF SomeResponse
    <2>. QED
      BY <2>1, <2>2, RunGetStore, RunDeleteStore, RunInsertStore, DeliverRowsStore,
         RequestFailsStore, CrashStore, StutterStore
         DEF Next
  <1>. QED  BY <1>1, InitStore, Invariance, PTL DEF Spec

-----------------------------------------------------------------------------
(* What the table holds.                                                   *)

\* A channel never requested again before its answer was stored has the rows
\* of one response, whatever fails and whenever the process is killed.
THEOREM OneResponseStored == Spec => []StoredOnce
  <1>1. StoreInv => StoredOnce
    BY DEF StoreInv, OnceOf, StoredOnce
  <1>. QED  BY <1>1, StoreInvariance, PTL

\* Once a channel's writes have run, its last rows are those of the last
\* response that held news, even if responses for one channel overlapped.
THEOREM NoLostUpdate == Spec => []NewestIsStored
  <1>1. StoreInv => NewestIsStored
    <2> SUFFICES ASSUME StoreInv, NEW c \in Channels, answer[c] # Unknown, ~Writing(c)
                 PROVE  HoldsAnswer(table[c], c)
      BY DEF NewestIsStored, HoldsAnswer
    <2>1. \A i \in DOMAIN dbQueue : ~WriteAt(i, c)
      BY DEF Writing, Elements, WriteAt
    <2>. QED  BY <2>1 DEF StoreInv, NewestOf, DeleteAt
  <1>. QED  BY <1>1, StoreInvariance, PTL
-----------------------------------------------------------------------------
(* A controller that was given one channel, and what is on its way to it.   *)

Reads(v) == {b \in Elements(dbQueue) : b.op = "get" /\ b.vc = v}
Results(v) == {r \in Elements(mainQueue) : r.vc = v}
Asks(v) == {r \in requests : r.vc = v}

\* Everything under way for controller v is about channel c.
OnlyFor(v, c) ==
    /\ channelName[v] = c
    /\ \A b \in Reads(v) : b.channel = c
    /\ \A r \in Results(v) : \A x \in Elements(r.rows) : x.channel = c
    /\ \A r \in Asks(v) : r.channel = c

Awaits(v) == Reads(v) \cup Results(v) \cup Asks(v) # {}

Shows(v, c) == shown[v] # <<>> /\ \A x \in Elements(shown[v]) : x.channel = c

\* Controller v shows news of channel c, or is about to.
Serving(v, c) == OnlyFor(v, c) /\ (Awaits(v) \/ Shows(v, c))

\* A queue is its head and its tail.
LEMMA ElementsSplit ==
    ASSUME NEW S, NEW s \in Seq(S), s # <<>>
    PROVE  Elements(s) = {Head(s)} \cup Elements(Tail(s))
  <1>1. /\ Head(s) = s[1] /\ Len(s) \in Nat \ {0} /\ DOMAIN s = 1 .. Len(s)
        /\ DOMAIN Tail(s) = 1 .. Len(s) - 1
        /\ \A i \in 1 .. Len(s) - 1 : Tail(s)[i] = s[i + 1]
    OBVIOUS
  <1>2. ASSUME NEW i \in DOMAIN s
        PROVE  s[i] \in {Head(s)} \cup Elements(Tail(s))
    <2>1. CASE i = 1
      BY <1>1, <2>1
    <2>2. CASE i # 1
      <3>1. i - 1 \in DOMAIN Tail(s) /\ Tail(s)[i - 1] = s[i]
        BY <1>1, <2>2
      <3>. QED  BY <3>1 DEF Elements
    <2>. QED  BY <2>1, <2>2
  <1>3. Elements(s) \subseteq {Head(s)} \cup Elements(Tail(s))
    BY <1>2 DEF Elements
  <1>. QED  BY <1>3, ElementsTail

\* What is under way for one controller is not disturbed by a step about
\* another one.
LEMMA ServedAlongside ==
    ASSUME NEW v, NEW c, Serving(v, c),
           channelName'[v] = channelName[v], shown'[v] = shown[v],
           Reads(v)' = Reads(v), Results(v)' = Results(v), Asks(v)' = Asks(v)
    PROVE  Serving(v, c)'
  BY DEF Serving, OnlyFor, Awaits, Shows

\* A read gives its controller rows of the channel read.
LEMMA RunGetServes ==
    ASSUME Inv, NEW v \in VC, NEW c, Serving(v, c), RunGet
    PROVE  Serving(v, c)'
  <1> DEFINE b == Head(dbQueue)
  <1>1. /\ b \in Block /\ b.op = "get" /\ b.channel \in Channels /\ dbQueue' = Tail(dbQueue)
        /\ Elements(dbQueue) = {b} \cup Elements(dbQueue')
    BY HeadBlock, BlockKinds, ElementsSplit DEF RunGet, Inv, TypeOK
  <1>2. PICK rows \in {table[b.channel], <<>>} :
            mainQueue' = Append(mainQueue, [vc |-> b.vc, rows |-> rows])
    BY DEF RunGet, Deliver, StoredRows
  <1>3. rows \in Seq(Batch) /\ \A x \in Elements(rows) : x.channel = b.channel
    <2>1. table[b.channel] \in Seq(Batch) /\ <<>> \in Seq(Batch)
      BY <1>1, EmptySeq DEF Inv, TypeOK
    <2>2. \A x \in Elements(table[b.channel]) : x.channel = b.channel
      BY <1>1 DEF Inv, RowsMatchCategory
    <2>3. Elements(<<>>) = {}
      BY DEF Elements
    <2>4. CASE rows = table[b.channel]
      BY <2>1, <2>2, <2>4
    <2>5. CASE rows = <<>>
      BY <2>1, <2>3, <2>5
    <2>. QED  BY <1>2, <2>4, <2>5
  <1> DEFINE r == [vc |-> b.vc, rows |-> rows]
  <1>4. Elements(mainQueue') = Elements(mainQueue) \cup {r} /\ r.vc = b.vc /\ r.rows = rows
    <2>1. r \in Result
      BY <1>1, <1>3, BlockKinds DEF Result
    <2>. QED  BY <1>2, <2>1, ElementsAppend DEF Inv, TypeOK
  <1>5. UNCHANGED <<channelName, shown, requests>>
    BY DEF RunGet, vcVars
  <1> HIDE DEF b, r
  <1>6. CASE b.vc # v
    <2>1. Reads(v)' = Reads(v) /\ Results(v)' = Results(v) /\ Asks(v)' = Asks(v)
      BY <1>1, <1>4, <1>5, <1>6 DEF Reads, Results, Asks
    <2>. QED  BY <1>5, <2>1, ServedAlongside
  <1>7. CASE b.vc = v
    <2>1. b \in Reads(v) /\ b.channel = c
      BY <1>1, <1>7 DEF Reads, Serving, OnlyFor
    <2>2. /\ Reads(v)' \subseteq Reads(v) /\ Results(v)' = Results(v) \cup {r}
          /\ Asks(v)' = Asks(v)
      BY <1>1, <1>4, <1>5, <1>7 DEF Reads, Results, Asks
    <2>. QED  BY <1>3, <1>4, <1>5, <2>1, <2>2 DEF Serving, OnlyFor, Awaits
  <1>. QED  BY <1>6, <1>7

\* Writes are about no controller.
LEMMA WritesServe ==
    ASSUME Inv, NEW v \in VC, NEW c, Serving(v, c), RunDelete \/ RunInsert
    PROVE  Serving(v, c)'
  <1> DEFINE b == Head(dbQueue)
  <1>1. /\ dbQueue # <<>> /\ b \in Block /\ b.op # "get"
        /\ Elements(dbQueue) = {b} \cup Elements(Tail(dbQueue))
        /\ Tail(dbQueue) \in Seq(Block)
    BY HeadBlock, ElementsSplit DEF RunDelete, RunInsert, Inv, TypeOK
  <1>2. \/ dbQueue' = Tail(dbQueue)
        \/ RunDelete /\ dbQueue' = Append(Tail(dbQueue), InsertBlock(b))
    BY DEF RunDelete, RunInsert, DeleteRuns, DeleteFails
  <1>3. \A x : x.op = "get" => (x \in Elements(dbQueue') <=> x \in Elements(dbQueue))
    <2>1. CASE dbQueue' = Tail(dbQueue)
      BY <1>1, <2>1
    <2>2. CASE RunDelete /\ dbQueue' = Append(Tail(dbQueue), InsertBlock(b))
      <3>1. b.op = "delete"
        BY <2>2 DEF RunDelete
      <3>2. b.channel \in Channels /\ b.rows \in Seq(Batch)
        BY <1>1, BlockKinds
      <3>3. InsertBlock(b) \in Block /\ InsertBlock(b).op = "insert"
        BY <3>2 DEF InsertBlock, Block, Insert
      <3>4. Elements(dbQueue') = Elements(Tail(dbQueue)) \cup {InsertBlock(b)}
        <4> DEFINE rest == Tail(dbQueue)
                   ins  == InsertBlock(b)
        <4>1. rest \in Seq(Block) /\ ins \in Block /\ dbQueue' = Append(rest, ins)
          BY <1>1, <2>2, <3>3
        <4> HIDE DEF rest, ins
        <4>2. Elements(dbQueue') = Elements(rest) \cup {ins}
          BY <4>1, ElementsAppend
        <4>. QED  BY <4>2 DEF rest, ins
      <3>. QED  BY <1>1, <3>3, <3>4
    <2>. QED  BY <1>2, <2>1, <2>2
  <1>4. UNCHANGED <<channelName, shown, requests, mainQueue>>
    BY DEF RunDelete, RunInsert, vcVars
  <1>5. Reads(v)' = Reads(v) /\ Results(v)' = Results(v) /\ Asks(v)' = Asks(v)
    BY <1>3, <1>4 DEF Reads, Results, Asks
  <1>. QED  BY <1>4, <1>5, ServedAlongside

\* Rows that arrive are shown, and without rows the server is asked.
LEMMA DeliverRowsServes ==
    ASSUME Inv, NEW v \in VC, NEW c, Serving(v, c), DeliverRows
    PROVE  Serving(v, c)'
  <1> DEFINE r == Head(mainQueue)
  <1>1. /\ r \in Result /\ r.vc \in VC /\ r.rows \in Seq(Batch)
        /\ Elements(mainQueue) = {r} \cup Elements(mainQueue')
    BY HeadResult, ElementsSplit DEF DeliverRows, Inv, TypeOK, Result
  <1>2. UNCHANGED <<channelName, dbQueue>>
    BY DEF DeliverRows
  <1>3. shown \in [VC -> Seq(Batch)]
    BY DEF Inv, TypeOK
  <1>4. \/ r.rows # <<>> /\ shown' = [shown EXCEPT ![r.vc] = r.rows] /\ requests' = requests
        \/ r.rows = <<>> /\ shown' = shown /\ SendRequest(r.vc)
    BY DEF DeliverRows
  <1> HIDE DEF r
  <1>5. Reads(v)' = Reads(v)
    BY <1>2 DEF Reads
  <1>6. CASE r.vc # v
    <2>1. shown'[v] = shown[v] /\ Results(v)' = Results(v)
      BY <1>1, <1>3, <1>4, <1>6 DEF Results
    <2>2. Asks(v)' = Asks(v)
      BY <1>4, <1>6 DEF Asks, SendRequest
    <2>. QED  BY <1>2, <1>5, <2>1, <2>2, ServedAlongside
  <1>7. CASE r.vc = v
    <2>1. r \in Results(v) /\ Results(v)' \subseteq Results(v)
      BY <1>1, <1>7 DEF Results
    <2>2. channelName[v] = c /\ \A x \in Elements(r.rows) : x.channel = c
      BY <2>1 DEF Serving, OnlyFor
    <2>3. CASE r.rows # <<>>
      <3>1. shown'[v] = r.rows /\ requests' = requests
        BY <1>3, <1>4, <1>7, <2>3
      <3>2. Shows(v, c)'
        BY <2>2, <2>3, <3>1 DEF Shows
      <3>3. Asks(v)' = Asks(v)
        BY <3>1 DEF Asks
      <3>. QED  BY <1>2, <1>5, <2>1, <3>2, <3>3 DEF Serving, OnlyFor
    <2>4. CASE r.rows = <<>>
      <3> DEFINE q == [vc |-> v, channel |-> c, id |-> lastId + 1]
      <3>1. requests' = requests \cup {q}
        BY <1>4, <1>7, <2>2, <2>4 DEF SendRequest
      <3>2. q.vc = v /\ q.channel = c
        OBVIOUS
      <3> HIDE DEF q
      <3>3. Asks(v)' = Asks(v) \cup {q}
        BY <3>1, <3>2 DEF Asks
      <3>. QED  BY <1>2, <1>5, <2>1, <2>2, <3>2, <3>3 DEF Serving, OnlyFor, Awaits
    <2>. QED  BY <2>3, <2>4
  <1>. QED  BY <1>6, <1>7

\* An answer whose news can all be decoded is shown.
LEMMA RespondServes ==
    ASSUME Inv, NEW v \in VC, NEW c, Serving(v, c), NEW r \in requests, Respond(r, "ok")
    PROVE  Serving(v, c)'
  <1> DEFINE rows == Answered(r, "ok")
             del  == DeleteBlock(r, rows)
  <1>1. r \in Request /\ r.vc \in VC /\ r.channel \in Channels
    BY DEF Inv, TypeOK, Request
  <1>2. /\ rows \in Seq(Batch) /\ rows # <<>>
        /\ \A x \in Elements(rows) : x.channel = r.channel
    <2>1. rows # <<>>
      BY DEF Answered
    <2>. QED  BY <1>1, <2>1, AnsweredType
  <1>3. /\ shown' = [shown EXCEPT ![r.vc] = rows] /\ shown \in [VC -> Seq(Batch)]
        /\ requests' = requests \ {r} /\ dbQueue' = Append(dbQueue, del)
        /\ UNCHANGED <<channelName, mainQueue>>
    BY DEF Respond, Inv, TypeOK
  <1> HIDE DEF rows
  <1>4. Elements(dbQueue') = Elements(dbQueue) \cup {del} /\ del.op = "delete"
    <2>1. del \in Block /\ del.op = "delete"
      BY <1>1, <1>2 DEF DeleteBlock, Block, Delete
    <2>. QED  BY <1>3, <2>1, ElementsAppend DEF Inv, TypeOK
  <1> HIDE DEF del
  <1>5. Reads(v)' = Reads(v) /\ Results(v)' = Results(v)
    BY <1>3, <1>4 DEF Reads, Results
  <1>6. CASE r.vc # v
    <2>1. shown'[v] = shown[v] /\ Asks(v)' = Asks(v)
      BY <1>3, <1>6 DEF Asks
    <2>. QED  BY <1>3, <1>5, <2>1, ServedAlongside
  <1>7. CASE r.vc = v
    <2>1. r.channel = c
      BY <1>7 DEF Serving, OnlyFor, Asks
    <2>2. shown'[v] = rows /\ Asks(v)' \subseteq Asks(v)
      BY <1>3, <1>7 DEF Asks
    <2>3. Shows(v, c)'
      BY <1>2, <2>1, <2>2 DEF Shows
    <2>. QED  BY <1>3, <1>5, <2>2, <2>3 DEF Serving, OnlyFor
  <1>. QED  BY <1>6, <1>7

\* With nothing under way, a controller shows the news of its channel.
LEMMA IdleServes ==
    ASSUME NEW v, NEW c, Serving(v, c), dbQueue = <<>>, mainQueue = <<>>, requests = {}
    PROVE  Shows(v, c)
  <1>1. ~ Awaits(v)
    BY DEF Awaits, Reads, Results, Asks, Elements
  <1>. QED  BY <1>1 DEF Serving

\* Loads that come when nothing is under way: a controller that is loaded, or
\* serves its channel already, serves it.
LEMMA LoadAllServes ==
    ASSUME Inv, dbQueue = <<>>, mainQueue = <<>>, requests = {},
           NEW calls \in Seq(Load), LoadAll(calls), NEW v \in VC, NEW c \in Channels,
           \A l \in Elements(calls) : l.vc = v => l.channel = c,
           Serving(v, c) \/ \E l \in Elements(calls) : l.vc = v
    PROVE  Serving(v, c)'
  <1> DEFINE gets == [i \in DOMAIN calls |-> GetBlock(calls[i])]
  <1>1. /\ gets \in Seq(Get)
        /\ \A b \in Elements(gets) : \E l \in Elements(calls) :
              b.op = "get" /\ b.vc = l.vc /\ b.channel = l.channel
    BY GetBlocks
  <1>2. \A l \in Elements(calls) : \E b \in Elements(gets) : b.op = "get" /\ b.vc = l.vc
    <2>1. ASSUME NEW i \in DOMAIN calls
          PROVE  gets[i] \in Elements(gets) /\ gets[i].op = "get" /\ gets[i].vc = calls[i].vc
      BY DEF Elements, GetBlock
    <2> HIDE DEF gets
    <2>. QED  BY <2>1 DEF Elements
  <1>3. /\ dbQueue' = <<>> \o gets /\ channelName' = Renamed(calls)
        /\ UNCHANGED <<shown, mainQueue, requests>>
    BY DEF LoadAll
  <1> HIDE DEF gets
  <1>4. dbQueue' = gets
    BY <1>1, <1>3
  <1>5. \/ \E l \in Elements(calls) : l.vc = v /\ channelName'[v] = l.channel
        \/ channelName'[v] = channelName[v] /\ \A l \in Elements(calls) : l.vc # v
    BY <1>3, RenamedBy DEF Inv
  <1>6. Results(v)' = {} /\ Asks(v)' = {}
    BY <1>3 DEF Results, Asks, Elements
  <1>7. \A b \in Reads(v)' : b.channel = c
    BY <1>1, <1>4 DEF Reads
  <1>8. CASE \E l \in Elements(calls) : l.vc = v
    <2>1. channelName'[v] = c
      BY <1>5, <1>8
    <2>2. Reads(v)' # {}
      BY <1>2, <1>4, <1>8 DEF Reads
    <2>. QED  BY <1>6, <1>7, <2>1, <2>2 DEF Serving, OnlyFor, Awaits
  <1>9. CASE ~ \E l \in Elements(calls) : l.vc = v
    <2>1. Serving(v, c) /\ channelName'[v] = channelName[v]
      BY <1>5, <1>9
    <2>2. Shows(v, c)'
      BY <1>3, <2>1, IdleServes DEF Shows
    <2>. QED  BY <1>6, <1>7, <2>1, <2>2 DEF Serving, OnlyFor
  <1>. QED  BY <1>8, <1>9
=============================================================================
