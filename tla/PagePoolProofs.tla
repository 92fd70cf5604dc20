--------------------------- MODULE PagePoolProofs ---------------------------
(* The container's reuse of list controllers, for any number of pages and   *)
(* any set of controllers.                                                  *)
EXTENDS PagePool, FiniteSetTheorems, TLAPS

\* A window has at most three pages.
LEMMA WindowSize ==
    ASSUME NEW p \in Int
    PROVE  IsFiniteSet(Window(p)) /\ Cardinality(Window(p)) <= 3
  <1> DEFINE I == p - 1 .. p + 1
  <1>1. IsFiniteSet(I) /\ Cardinality(I) = 3
    <2>1. Cardinality(I) = IF p - 1 > p + 1 THEN 0 ELSE (p + 1) - (p - 1) + 1
      BY FS_Interval
    <2>2. IsFiniteSet(I)
      BY FS_Interval
    <2>. QED  BY <2>1, <2>2
  <1>2. Window(p) \subseteq I
    BY DEF Window
  <1>. QED  BY <1>1, <1>2, FS_Subset, FS_CardinalityType

\* A step keeps every controller in a place and the current page a page.
LEMMA TypeStep ==
    ASSUME NumPagesAssumption, TypeOK, [Next]_vars
    PROVE  TypeOK'
  BY DEF NumPagesAssumption, TypeOK, Next, LoadPage, vars, Pages

\* Type correctness of the container's state.
THEOREM TypeCorrect ==
    ASSUME NumPagesAssumption
    PROVE  Spec => []TypeOK
  <1>1. Init => TypeOK
    BY DEF NumPagesAssumption, Init, TypeOK, Places, Unborn, Pages
  <1>2. QED  BY <1>1, TypeStep, PTL DEF Spec

-----------------------------------------------------------------------------

\* After any load the pages that hold a controller are exactly those of the
\* window of the page loaded last.
THEOREM WindowIsServed ==
    ASSUME NumPagesAssumption
    PROVE  Spec => []WindowServed
  <1>1. Init => WindowServed
    BY DEF Init, WindowServed
  <1>2. TypeOK /\ WindowServed /\ [Next]_vars => WindowServed'
    <2> SUFFICES ASSUME TypeOK, WindowServed, [Next]_vars
                 PROVE  WindowServed'
      OBVIOUS
    <2>1. ASSUME NEW p \in Pages \cup {0}, LoadPage(p)
          PROVE  WindowServed'
      <3>1. \A v \in VC : place'[v] \in Pages => place'[v] \in Window(p)
        BY <2>1 DEF LoadPage, Clears
      <3>2. \A q \in Window(p) : \E v \in VC : place'[v] = q
        BY <2>1 DEF LoadPage, Fills
      <3>3. current' = p
        BY <2>1 DEF LoadPage
      <3>4. {place'[v] : v \in OnPages'} = Window(p)
        BY <3>1, <3>2 DEF OnPages, Window
      <3>. QED  BY <3>3, <3>4 DEF WindowServed, Window, Pages
    <2>2. CASE UNCHANGED vars
      BY <2>2 DEF vars, WindowServed, OnPages
    <2>. QED  BY <2>1, <2>2 DEF Next
  <1>3. QED  BY <1>1, <1>2, TypeCorrect, PTL DEF Spec

\* No reachable arrangement puts two controllers on one page.
THEOREM PagesAreExclusive == Spec => []OnePerPage
  <1>1. Init => OnePerPage
    BY DEF Init, OnePerPage, OnPages, Pages, Unborn
  <1>2. OnePerPage /\ [Next]_vars => OnePerPage'
    BY DEF OnePerPage, OnPages, Next, LoadPage, Exclusive, vars
  <1>3. QED  BY <1>1, <1>2, PTL DEF Spec

-----------------------------------------------------------------------------
(* The number of controllers.                                              *)

\* A load that creates a controller leaves none parked, so that everything
\* created sits on the window.
LEMMA CreatedOnlyWhenNeeded ==
    ASSUME NEW p \in Pages \cup {0}, TypeOK, LoadPage(p),
           NEW n \in VC, place[n] = Unborn, place'[n] # Unborn
    PROVE  \A v \in Born' : place'[v] \in Window(p)
  <1> SUFFICES ASSUME NEW v \in VC, place'[v] # Unborn
               PROVE  place'[v] \in Window(p)
    BY DEF Born
  <1>1. place'[v] # Parked
    BY DEF LoadPage, ReusesFirst
  <1>2. place'[v] \in Places
    BY DEF LoadPage
  <1>3. place'[v] \in Pages
    BY <1>1, <1>2 DEF Places
  <1>. QED  BY <1>3 DEF LoadPage, Clears

\* A load never brings the number of controllers above three.
LEMMA LoadKeepsCount ==
    ASSUME NumPagesAssumption, NEW p \in Pages \cup {0}, TypeOK, AtMostThree,
           LoadPage(p)
    PROVE  AtMostThree'
  <1>1. CASE \E n \in VC : place[n] = Unborn /\ place'[n] # Unborn
    <2>1. \A v \in Born' : place'[v] \in Window(p)
      BY <1>1, CreatedOnlyWhenNeeded
    <2> DEFINE f == [v \in Born' |-> place'[v]]
    <2>2. f \in [Born' -> Window(p)]
      BY <2>1
    <2>3. \A v, w \in Born' : f[v] = f[w] => v = w
      BY <2>1 DEF LoadPage, Exclusive, Born, Window
    <2>4. f \in Injection(Born', Window(p))
      BY <2>2, <2>3 DEF Injection, IsInjective
    <2>5. p \in Int
      BY DEF NumPagesAssumption, Pages
    <2>6. IsFiniteSet(Window(p)) /\ Cardinality(Window(p)) <= 3
      BY <2>5, WindowSize
    <2>7. IsFiniteSet(Born') /\ Cardinality(Born') <= Cardinality(Window(p))
      BY <2>4, <2>6, FS_Injection
    <2>. QED  BY <2>6, <2>7, FS_CardinalityType DEF AtMostThree
  <1>2. CASE ~ \E n \in VC : place[n] = Unborn /\ place'[n] # Unborn
    <2>1. Born' \subseteq Born
      BY <1>2 DEF Born
    <2>2. IsFiniteSet(Born) /\ Cardinality(Born) <= 3
      BY DEF AtMostThree
    <2>3. IsFiniteSet(Born') /\ Cardinality(Born') <= Cardinality(Born)
      BY <2>1, <2>2, FS_Subset
    <2>. QED  BY <2>2, <2>3, FS_CardinalityType DEF AtMostThree
  <1>. QED  BY <1>1, <1>2

\* The container works with at most three list controllers, for any number
\* of channels and any order of jumps.
THEOREM ThreeSuffice ==
    ASSUME NumPagesAssumption
    PROVE  Spec => []AtMostThree
  <1>1. Init => AtMostThree
    <2>1. Init => Born = {}
      BY DEF Init, Born
    <2>. QED  BY <2>1, FS_EmptySet DEF AtMostThree
  <1>2. TypeOK /\ AtMostThree /\ [Next]_vars => AtMostThree'
    <2> SUFFICES ASSUME TypeOK, AtMostThree, [Next]_vars
                 PROVE  AtMostThree'
      OBVIOUS
    <2>1. ASSUME NEW p \in Pages \cup {0}, LoadPage(p)
          PROVE  AtMostThree'
      BY <2>1, LoadKeepsCount
    <2>2. CASE UNCHANGED vars
      BY <2>2 DEF vars, AtMostThree, Born
    <2>. QED  BY <2>1, <2>2 DEF Next
  <1>3. QED  BY <1>1, <1>2, TypeCorrect, PTL DEF Spec
=============================================================================
