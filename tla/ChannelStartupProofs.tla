------------------------- MODULE ChannelStartupProofs -------------------------
(* From launch to the title bar, for any lists the server answers with and  *)
(* any number of launches and failures.                                     *)
EXTENDS ChannelStartup, TLAPS

-----------------------------------------------------------------------------
(* The invariant.                                                          *)

Lists == {list \ ServerHidden : list \in ServerLists}

Delete(list) == [op |-> "delete", list |-> list]
Insert(list) == [op |-> "insert", list |-> list]

\* Each process asks for its channels once, and the question is in one place
\* only: on the database queue, answered on the main queue, with the server,
\* or settled.
Asking == dbQueue \in {<<Create, Get>>, <<Get>>} /\ mainQueue = <<>> /\ ~requesting
Answered ==
    /\ dbQueue = <<>> /\ ~requesting
    /\ \E rows \in SUBSET UNION Lists : mainQueue = <<rows>>
WithServer == dbQueue = <<>> /\ mainQueue = <<>> /\ requesting

\* Once it is settled, the table is cleared before the new list is written.
Settled ==
    /\ mainQueue = <<>> /\ ~requesting
    /\ \/ dbQueue = <<>>
       \/ \E list \in Lists : dbQueue = <<Delete(list)>>
       \/ \E list \in Lists : dbQueue = <<Insert(list)>> /\ stored = <<>>

AsksOnce ==
    \/ (Asking \/ Answered \/ WithServer) /\ setups = 0
    \/ Settled /\ setups \in {0, 1}

\* The table holds one list or none.
OneList == stored = <<>> \/ \E list \in Lists : stored = <<list>>

\* The rest of the state is well formed.
Flags ==
    /\ running \in BOOLEAN /\ tables \in BOOLEAN /\ requesting \in BOOLEAN
    /\ waiting \in BOOLEAN /\ refused \in BOOLEAN
    /\ ~running => Settled /\ dbQueue = <<>> /\ setups = 0
    /\ channels \subseteq UNION Lists

IInv == Flags /\ AsksOnce /\ OneList

-----------------------------------------------------------------------------
(* The steps.                                                              *)

\* The rows in the table are rows of some list.
LEMMA RowsAreListed ==
    ASSUME OneList
    PROVE  AllRows \in SUBSET UNION Lists
  <1>1. CASE stored = <<>>
    BY <1>1 DEF AllRows
  <1>2. ASSUME NEW list \in Lists, stored = <<list>>
        PROVE  AllRows \in SUBSET UNION Lists
    <2>1. DOMAIN stored = {1} /\ stored[1] = list
      BY <1>2
    <2>. QED  BY <2>1 DEF AllRows
  <1>. QED  BY <1>1, <1>2 DEF OneList

\* A launch asks, in a process that has nothing on its queues.
LEMMA LaunchStep ==
    ASSUME IInv, Launch
    PROVE  IInv'
  BY DEF IInv, Flags, AsksOnce, Asking, Settled, OneList, Launch, LaunchBlocks,
         diskVars, viewVars

\* A kill leaves the table as it is.
LEMMA KillStep ==
    ASSUME IInv, Kill
    PROVE  IInv'
  BY DEF IInv, Flags, AsksOnce, Settled, OneList, Kill, diskVars, viewVars

\* The block that creates the tables comes first.
LEMMA RunCreateStep ==
    ASSUME IInv, RunCreate
    PROVE  IInv'
  <1>1. dbQueue = <<Create, Get>> /\ setups = 0 /\ mainQueue = <<>> /\ ~requesting
    BY DEF IInv, AsksOnce, Asking, Answered, WithServer, Settled, RunCreate, Runs,
           Create, Get, Delete, Insert
  <1>2. dbQueue' = <<Get>>
    BY <1>1 DEF RunCreate
  <1>. QED  BY <1>1, <1>2 DEF IInv, Flags, AsksOnce, Asking, Settled, OneList,
                              RunCreate, viewVars

\* The question is answered once.
LEMMA RunGetStep ==
    ASSUME IInv, RunGet
    PROVE  IInv'
  <1>1. dbQueue = <<Get>> /\ setups = 0 /\ mainQueue = <<>> /\ ~requesting
    BY DEF IInv, AsksOnce, Asking, Answered, WithServer, Settled, RunGet, Runs,
           Create, Get, Delete, Insert
  <1>2. dbQueue' = <<>>
    BY <1>1 DEF RunGet
  <1>3. \E rows \in SUBSET UNION Lists : mainQueue' = <<rows>>
    <2>1. mainQueue' = Append(<<>>, AllRows) \/ mainQueue' = Append(<<>>, {})
      BY <1>1 DEF RunGet, ReadThrows
    <2>2. AllRows \in SUBSET UNION Lists
      BY RowsAreListed DEF IInv
    <2>. QED  BY <2>1, <2>2
  <1>4. running
    BY <1>1 DEF IInv, Flags
  <1>. QED  BY <1>1, <1>2, <1>3, <1>4 DEF IInv, Flags, AsksOnce, Answered, OneList,
                                   RunGet, viewVars, diskVars

\* After the rows are gone the new ones are queued.
LEMMA RunDeleteStep ==
    ASSUME IInv, RunDelete
    PROVE  IInv'
  <1>1. PICK list \in Lists : dbQueue = <<Delete(list)>>
    BY DEF IInv, AsksOnce, Asking, Answered, WithServer, Settled, RunDelete, Runs,
           Create, Get, Delete, Insert
  <1>2. Settled /\ setups \in {0, 1} /\ running
    BY <1>1 DEF IInv, Flags, AsksOnce, Asking, Answered, WithServer, Create, Get, Delete
  <1>3. \/ stored' = <<>> /\ dbQueue' = <<Insert(list)>>
        \/ stored' = stored /\ dbQueue' = <<>>
    BY <1>1 DEF RunDelete, AfterDelete, Delete, Insert
  <1>. QED  BY <1>2, <1>3 DEF IInv, Flags, AsksOnce, Settled, OneList, RunDelete, viewVars

\* They are written to an empty table.
LEMMA RunInsertStep ==
    ASSUME IInv, RunInsert
    PROVE  IInv'
  <1>1. PICK list \in Lists : dbQueue = <<Insert(list)>> /\ stored = <<>>
    BY DEF IInv, AsksOnce, Asking, Answered, WithServer, Settled, RunInsert, Runs,
           Create, Get, Delete, Insert
  <1>2. Settled /\ setups \in {0, 1} /\ running
    BY <1>1 DEF IInv, Flags, AsksOnce, Asking, Answered, WithServer, Create, Get, Insert
  <1>3. dbQueue' = <<>> /\ (stored' = <<>> \/ stored' = <<list>>)
    BY <1>1 DEF RunInsert, Insert
  <1>. QED  BY <1>2, <1>3 DEF IInv, Flags, AsksOnce, Settled, OneList, RunInsert, viewVars

\* The answer is shown, or else the server asked.
LEMMA DeliverRowsStep ==
    ASSUME IInv, DeliverRows
    PROVE  IInv'
  <1>1. PICK rows \in SUBSET UNION Lists : mainQueue = <<rows>>
    BY DEF IInv, AsksOnce, Asking, Answered, WithServer, Settled, DeliverRows
  <1>2. dbQueue = <<>> /\ ~requesting /\ setups = 0 /\ running
    BY <1>1 DEF IInv, Flags, AsksOnce, Asking, Answered, WithServer, Settled
  <1>3. mainQueue' = <<>> /\ (ShowLocal(rows) \/ AskServer(rows))
    BY <1>1 DEF DeliverRows
  <1>4. CASE ShowLocal(rows)
    <2>1. /\ channels' \subseteq UNION Lists /\ waiting' = FALSE /\ setups' = 1
          /\ requesting' = requesting
      BY <1>2, <1>4 DEF ShowLocal, Succeed
    <2>2. UNCHANGED <<running, tables, stored, dbQueue, refused>>
      BY DEF DeliverRows, diskVars
    <2>. QED  BY <1>2, <1>3, <2>1, <2>2 DEF IInv, Flags, AsksOnce, Settled, OneList
  <1>5. CASE AskServer(rows)
    BY <1>2, <1>3, <1>5 DEF IInv, Flags, AsksOnce, WithServer, OneList, DeliverRows,
                            AskServer, viewVars, diskVars
  <1>. QED  BY <1>3, <1>4, <1>5

\* While the server is asked nothing else is under way.
LEMMA OnlyTheServer ==
    ASSUME IInv, requesting
    PROVE  dbQueue = <<>> /\ mainQueue = <<>> /\ setups = 0 /\ running
  BY DEF IInv, Flags, AsksOnce, Asking, Answered, WithServer, Settled

\* Its answer is shown and stored.
LEMMA RespondStep ==
    ASSUME IInv, NEW list \in ServerLists, Respond(list)
    PROVE  IInv'
  <1>1. dbQueue = <<>> /\ mainQueue = <<>> /\ setups = 0 /\ running
    BY OnlyTheServer DEF Respond
  <1>2. Accepted(list) \in Lists
    BY DEF Accepted, Lists
  <1>3. dbQueue' = <<Delete(Accepted(list))>>
    BY <1>1 DEF Respond, Delete
  <1>4. channels' \subseteq UNION Lists /\ waiting' = FALSE /\ setups' = 1
    BY <1>1, <1>2 DEF Respond, Succeed
  <1>5. requesting' = FALSE /\ UNCHANGED <<running, tables, stored, mainQueue, refused>>
    BY DEF Respond, diskVars
  <1>. QED  BY <1>1, <1>2, <1>3, <1>4, <1>5 DEF IInv, Flags, AsksOnce, Settled, OneList

\* It is not a list, or there is none.
LEMMA NoListStep ==
    ASSUME IInv, RespondUndecodable \/ RequestFails
    PROVE  IInv'
  <1>1. dbQueue = <<>> /\ mainQueue = <<>> /\ setups = 0 /\ running
    BY OnlyTheServer DEF RespondUndecodable, RequestFails
  <1>. QED  BY <1>1 DEF IInv, Flags, AsksOnce, Settled, OneList, RespondUndecodable,
                        RequestFails, viewVars, diskVars

\* A step that changes nothing.
LEMMA StutterStep ==
    ASSUME IInv, UNCHANGED vars
    PROVE  IInv'
  BY DEF IInv, Flags, AsksOnce, Asking, Answered, WithServer, Settled, OneList,
         vars, diskVars, viewVars

\* Every process asks once, and the table holds one list or none.
LEMMA Inductive ==
    /\ Init => IInv
    /\ IInv /\ [Next]_vars => IInv'
  <1>1. Init => IInv
    BY DEF Init, IInv, Flags, AsksOnce, Settled, OneList
  <1>2. IInv /\ [Next]_vars => IInv'
    BY LaunchStep, KillStep, RunCreateStep, RunGetStep, RunDeleteStep, RunInsertStep,
       DeliverRowsStep, RespondStep, NoListStep, StutterStep DEF Next, DbStep, RequestEnds
  <1>. QED  BY <1>1, <1>2

-----------------------------------------------------------------------------
(* The properties.                                                         *)

\* setupUI runs at most once per process, whatever the database and the
\* server do.
THEOREM SetsUpOnce == Spec => []SetUpOnce
  <1>1. IInv => SetUpOnce
    BY DEF IInv, AsksOnce, SetUpOnce
  <1>. QED  BY <1>1, Inductive, PTL DEF Spec

\* The next launch reads one answer of the server or nothing, wherever the
\* process was killed before.
THEOREM StoresOneList == Spec => []StoredIsOneList
  <1>1. IInv => StoredIsOneList
    <2> SUFFICES ASSUME OneList
                 PROVE  StoredIsOneList
      BY DEF IInv
    <2>1. CASE stored = <<>>
      BY <2>1 DEF StoredIsOneList
    <2>2. ASSUME NEW list \in Lists, stored = <<list>>
          PROVE  StoredIsOneList
      <3>1. Len(stored) = 1 /\ DOMAIN stored = {1} /\ stored[1] = list
        BY <2>2
      <3>. QED  BY <3>1 DEF StoredIsOneList, Lists
    <2>. QED  BY <2>1, <2>2 DEF OneList
  <1>. QED  BY <1>1, Inductive, PTL DEF Spec

\* Type correctness of the state.
THEOREM TypeCorrect == Spec => []TypeOK
  <1>1. UNION Lists \subseteq Category \ ServerHidden
    BY DEF Lists, Category
  <1>2. IInv => TypeOK
    <2> SUFFICES ASSUME IInv
                 PROVE  TypeOK
      OBVIOUS
    <2>1. {running, tables, requesting, waiting, refused} \subseteq BOOLEAN
      BY DEF IInv, Flags
    <2>2. stored \in Seq(SUBSET Category)
      <3>1. \A list \in Lists : list \in SUBSET Category
        BY DEF Lists, Category
      <3>2. CASE stored = <<>>
        BY <3>2
      <3>3. ASSUME NEW list \in Lists, stored = <<list>>
            PROVE  stored \in Seq(SUBSET Category)
        BY <3>1, <3>3
      <3>. QED  BY <3>2, <3>3 DEF IInv, OneList
    <2>3. mainQueue \in Seq(SUBSET Category)
      <3>1. SUBSET UNION Lists \subseteq SUBSET Category
        BY <1>1
      <3>2. CASE mainQueue = <<>>
        BY <3>2
      <3>3. ASSUME NEW rows \in SUBSET UNION Lists, mainQueue = <<rows>>
            PROVE  mainQueue \in Seq(SUBSET Category)
        BY <3>1, <3>3
      <3>. QED  BY <3>2, <3>3 DEF IInv, AsksOnce, Asking, Answered, WithServer, Settled
    <2>4. ASSUME NEW i \in DOMAIN dbQueue
          PROVE  \/ dbQueue[i] \in {Create, Get}
                 \/ /\ dbQueue[i].op \in {"delete", "insert"}
                    /\ dbQueue[i].list \subseteq Category \ ServerHidden
      <3>1. CASE dbQueue \in {<<Create, Get>>, <<Get>>, <<>>}
        BY <2>4, <3>1
      <3>2. ASSUME NEW list \in Lists, dbQueue = <<Delete(list)>> \/ dbQueue = <<Insert(list)>>
            PROVE  /\ dbQueue[i].op \in {"delete", "insert"}
                   /\ dbQueue[i].list \subseteq Category \ ServerHidden
        <4>1. dbQueue[i] = Delete(list) \/ dbQueue[i] = Insert(list)
          BY <2>4, <3>2
        <4>2. list \subseteq UNION Lists
          OBVIOUS
        <4>. QED  BY <1>1, <4>1, <4>2 DEF Delete, Insert
      <3>. QED  BY <3>1, <3>2 DEF IInv, AsksOnce, Asking, Answered, WithServer, Settled
    <2>5. channels \subseteq Category \ ServerHidden
      BY <1>1 DEF IInv, Flags
    <2>6. setups \in Nat
      BY DEF IInv, AsksOnce
    <2>. QED  BY <2>1, <2>2, <2>3, <2>4, <2>5, <2>6 DEF TypeOK
  <1>. QED  BY <1>2, Inductive, PTL DEF Spec
=============================================================================
