---------------------- MODULE PageViewControllerProofs ----------------------
(* The paging container, for any number of pages and any mixture of drags, *)
(* taps, interrupted motions and clamped offsets: title and page agree at   *)
(* rest, the arrays implement the pool of PagePool.tla and never hold a     *)
(* fourth controller, and the delegate hears of the page that settled.      *)
EXTENDS PageViewController, FiniteSetTheorems, WellFoundedInduction, TLAPS

\* What the finger, the scroll view and the title bar can hold.
ScrollTypes ==
    /\ offset \in HalfPages
    /\ motion \in {"unloaded", "rest", "dragging", "decelerating", "animating"}
    /\ target \in Pages /\ selected \in Pages

\* While the content moves, the title follows the offset, unless a tap has
\* selected the title the content is still on its way to.
TitleFollowsMotion ==
    /\ motion = "unloaded" => offset = 0 /\ selected = 0
    /\ motion \in {"dragging", "decelerating"} => selected = PageAt(offset)
    /\ motion = "animating" => selected \in {target, PageAt(offset)}

TitleInv == ScrollTypes /\ TitleFollowsMotion /\ TitleFollowsPage

-----------------------------------------------------------------------------
(* Pages and offsets.                                                      *)

\* A clamped page is a page.
LEMMA ClampIsPage ==
    ASSUME NEW p \in Int
    PROVE  Clamp(p) \in Pages
  BY TotalPagesAssumption DEF Clamp, Pages

\* Every offset rounds to a page, and that of a page to this page.
LEMMA PageAtIsPage ==
    ASSUME NEW off \in Int
    PROVE  /\ PageAt(off) \in Pages
           /\ \A p \in Pages : off = 2 * p => PageAt(off) = p
  <1>1. PageAt(off) \in Pages
    BY ClampIsPage DEF PageAt
  <1>2. ASSUME NEW p \in Pages, off = 2 * p
        PROVE  PageAt(off) = p
    <2>1. ~(off < 0) /\ (off + 1) \div 2 = p /\ 0 <= p /\ p <= TotalPages - 1
      BY <1>2, TotalPagesAssumption DEF Pages
    <2>. QED  BY <2>1, TotalPagesAssumption DEF PageAt, Clamp, Pages
  <1>. QED  BY <1>1, <1>2

\* Half pages are counted in integers.
LEMMA HalfPagesAreIntegers ==
    ASSUME NEW off \in HalfPages
    PROVE  off \in Int
  BY TotalPagesAssumption DEF HalfPages

-----------------------------------------------------------------------------
(* The steps.                                                              *)

\* At first the container shows page 0 and the title bar its title.
LEMMA InitTitle == Init => TitleInv
  BY TotalPagesAssumption
     DEF Init, TitleInv, ScrollTypes, TitleFollowsMotion, TitleFollowsPage, HalfPages, Pages

\* Every change of the offset selects the title of the nearest page.
LEMMA MoveToTitle ==
    ASSUME NEW off, MoveTo(off)
    PROVE  /\ offset' \in HalfPages /\ selected' \in Pages
           /\ selected' = PageAt(offset)'
  <1>1. off \in HalfPages /\ offset' = off /\ selected' = PageAt(off)
    BY DEF MoveTo
  <1>2. off \in Int
    BY <1>1, HalfPagesAreIntegers
  <1>. QED  BY <1>1, <1>2, PageAtIsPage DEF PageAt, Clamp

\* A step of the container or of the user keeps title and page together.
LEMMA NextTitle ==
    ASSUME TitleInv, [Next]_vars
    PROVE  TitleInv'
  <1> USE DEF TitleInv, ScrollTypes, TitleFollowsMotion, TitleFollowsPage
  <1>1. /\ offset \in Int
        /\ PageAt(offset) \in Pages
        /\ \A p \in Pages : offset = 2 * p => PageAt(offset) = p
    BY HalfPagesAreIntegers, PageAtIsPage
  <1>2. ASSUME UNCHANGED <<offset, target, selected>>
        PROVE  PageAt(offset)' = PageAt(offset)
    BY <1>2 DEF PageAt, Clamp
  <1>3. CASE ViewDidLoad
    BY <1>3 DEF ViewDidLoad
  <1>4. CASE DidEndDecelerating
    BY <1>1, <1>4 DEF DidEndDecelerating, Settle
  <1>5. CASE DidEndScrollingAnimation
    BY <1>1, <1>5 DEF DidEndScrollingAnimation, Settle
  <1>6. ASSUME NEW i \in Pages, TapTitle(i)
        PROVE  TitleInv'
    BY <1>6 DEF TapTitle
  <1>7. CASE Glide
    BY <1>7, MoveToTitle DEF Glide
  <1>8. CASE BeginDrag
    BY <1>8, MoveToTitle DEF BeginDrag
  <1>9. CASE Drag
    BY <1>9, MoveToTitle DEF Drag
  <1>10. ASSUME NEW velocity \in {-1, 0, 1}, WillEndDragging(velocity)
         PROVE  TitleInv'
    <2>1. target' \in Pages
      <3>1. (offset \div 2) + 1 \in Int /\ ((offset + 1) \div 2) - 1 \in Int
        BY <1>1
      <3>2. Clamp((offset \div 2) + 1) \in Pages /\ Clamp(((offset + 1) \div 2) - 1) \in Pages
        BY <3>1, ClampIsPage
      <3>3. target' \in {Clamp((offset \div 2) + 1), Clamp(((offset + 1) \div 2) - 1),
                         PageAt(offset)}
        BY <1>10 DEF WillEndDragging, TargetOf
      <3>. QED  BY <1>1, <3>2, <3>3
    <2>2. /\ motion = "dragging" /\ offset' = offset /\ selected' = selected
          /\ motion' = IF offset = 2 * target' THEN "rest" ELSE "decelerating"
      BY <1>10 DEF WillEndDragging
    <2>3. PageAt(offset)' = PageAt(offset)
      BY <2>2 DEF PageAt, Clamp
    <2>. QED  BY <1>1, <2>1, <2>2, <2>3
  <1>11. CASE UNCHANGED vars
    BY <1>2, <1>11 DEF vars, scrollVars
  <1>. QED
    BY <1>3, <1>4, <1>5, <1>6, <1>7, <1>8, <1>9, <1>10, <1>11 DEF Next

-----------------------------------------------------------------------------
(* The title bar.                                                          *)

\* When nothing moves, the selected title is that of the page on screen: taps
\* and scroll events both write the selection, and the last to write it is
\* always the one that decided where the content stops.
THEOREM TitleFollows == Spec => []TitleFollowsPage
  <1>1. TitleInv => TitleFollowsPage
    BY DEF TitleInv
  <1>. QED  BY <1>1, InitTitle, NextTitle, PTL DEF Spec

-----------------------------------------------------------------------------
(* Induction over the natural numbers.                                     *)

\* Every set of natural numbers that is not empty has a least member.
LEMMA LeastMember ==
    ASSUME NEW T \in SUBSET Nat, T # {}
    PROVE  \E x \in T : \A y \in T : x <= y
  <1> DEFINE R == OpToRel(<, Nat)
  <1>1. IsWellFoundedOn(R, Nat)
    BY NatLessThanWellFounded
  <1>2. \A x, y \in Nat : <<y, x>> \in R <=> y < x
    BY DEF OpToRel
  <1> HIDE DEF R
  <1>3. \E x \in T : \A y \in T : ~ (<<y, x>> \in R)
    BY <1>1, WFMin
  <1>4. PICK x \in T : \A y \in T : ~ (<<y, x>> \in R)
    BY <1>3
  <1>5. ASSUME NEW y \in T
        PROVE  x <= y
    <2>1. x \in Nat /\ y \in Nat
      OBVIOUS
    <2>2. ~ (y < x)
      BY <1>2, <1>4, <2>1, Zenon
    <2>. QED  BY <2>1, <2>2
  <1>. QED  BY <1>5

\* A set that has 0 and the successor of each of its members has them all.
LEMMA SetInduction ==
    ASSUME NEW G \in SUBSET Nat, 0 \in G, \A n \in G : n + 1 \in G
    PROVE  G = Nat
  <1> SUFFICES ASSUME Nat \ G # {}
               PROVE  FALSE
    OBVIOUS
  <1>1. PICK m \in Nat \ G : \A y \in Nat \ G : m <= y
    BY LeastMember
  <1>2. m - 1 \in G
    BY <1>1
  <1>. QED  BY <1>1, <1>2

-----------------------------------------------------------------------------
(* Sequences.                                                              *)

\* A function on 1 .. n is a sequence.
LEMMA TableIsSeq ==
    ASSUME NEW S, NEW n \in Nat, NEW f \in [1 .. n -> S]
    PROVE  f \in Seq(S)
  OBVIOUS

\* A sequence over a set is one over every larger set.
LEMMA SeqWiden ==
    ASSUME NEW S, NEW T, S \subseteq T, NEW s \in Seq(S)
    PROVE  s \in Seq(T)
  <1>1. s \in [1 .. Len(s) -> S] /\ Len(s) \in Nat
    OBVIOUS
  <1>2. s \in [1 .. Len(s) -> T]
    BY <1>1
  <1>. QED  BY <1>1, <1>2

\* What a sequence has with one more element.
LEMMA AppendFacts ==
    ASSUME NEW T, NEW s \in Seq(T), NEW e \in T
    PROVE  /\ Range(Append(s, e)) = Range(s) \cup {e}
           /\ IsInjective(s) /\ e \notin Range(s) => IsInjective(Append(s, e))
  <1>1. /\ Append(s, e) \in Seq(T)
        /\ DOMAIN Append(s, e) = 1 .. Len(s) + 1
        /\ DOMAIN s = 1 .. Len(s)
        /\ Append(s, e)[Len(s) + 1] = e
        /\ \A i \in 1 .. Len(s) : Append(s, e)[i] = s[i]
    OBVIOUS
  <1>2. Len(s) \in Nat
    OBVIOUS
  <1> DEFINE t == Append(s, e)
  <1> HIDE DEF t
  <1>3. Range(t) = Range(s) \cup {e}
    <2>1. \A i \in DOMAIN t : t[i] \in Range(s) \cup {e}
      BY <1>1, <1>2 DEF t, Range
    <2>2. \A i \in DOMAIN s : s[i] \in Range(t)
      BY <1>1, <1>2 DEF t, Range
    <2>3. e \in Range(t)
      BY <1>1, <1>2 DEF t, Range
    <2>. QED  BY <2>1, <2>2, <2>3 DEF Range
  <1>4. IsInjective(s) /\ e \notin Range(s) => IsInjective(t)
    BY <1>1, <1>2 DEF t, Range, IsInjective
  <1>. QED  BY <1>3, <1>4 DEF t

\* What two sequences have together.
LEMMA ConcatFacts ==
    ASSUME NEW T, NEW s \in Seq(T), NEW t \in Seq(T)
    PROVE  /\ s \o t \in Seq(T)
           /\ Range(s \o t) = Range(s) \cup Range(t)
           /\ IsInjective(s) /\ IsInjective(t) /\ Range(s) \cap Range(t) = {}
                => IsInjective(s \o t)
  <1> DEFINE c == s \o t
  <1>1. /\ c \in Seq(T) /\ DOMAIN c = 1 .. Len(s) + Len(t)
        /\ DOMAIN s = 1 .. Len(s) /\ DOMAIN t = 1 .. Len(t)
        /\ Len(s) \in Nat /\ Len(t) \in Nat
        /\ \A i \in 1 .. Len(s) : c[i] = s[i]
        /\ \A i \in 1 .. Len(t) : c[Len(s) + i] = t[i]
        /\ \A i \in Len(s) + 1 .. Len(s) + Len(t) : c[i] = t[i - Len(s)]
    OBVIOUS
  <1> HIDE DEF c
  <1>2. Range(c) = Range(s) \cup Range(t)
    <2>1. \A i \in DOMAIN c : c[i] \in Range(s) \cup Range(t)
      <3> SUFFICES ASSUME NEW i \in DOMAIN c
                   PROVE  c[i] \in Range(s) \cup Range(t)
        OBVIOUS
      <3>1. CASE i <= Len(s)
        BY <1>1, <3>1 DEF Range
      <3>2. CASE i > Len(s)
        <4>1. i - Len(s) \in DOMAIN t /\ c[i] = t[i - Len(s)]
          BY <1>1, <3>2
        <4>. QED  BY <4>1 DEF Range
      <3>. QED  BY <1>1, <3>1, <3>2
    <2>2. \A i \in DOMAIN s : s[i] \in Range(c)
      BY <1>1 DEF Range
    <2>3. \A i \in DOMAIN t : t[i] \in Range(c)
      <3>1. \A i \in DOMAIN t : Len(s) + i \in DOMAIN c /\ c[Len(s) + i] = t[i]
        BY <1>1
      <3>. QED  BY <3>1 DEF Range
    <2>. QED  BY <2>1, <2>2, <2>3 DEF Range
  <1>3. ASSUME IsInjective(s), IsInjective(t), Range(s) \cap Range(t) = {},
               NEW i \in DOMAIN c, NEW j \in DOMAIN c, c[i] = c[j]
        PROVE  i = j
    <2>1. CASE i <= Len(s) /\ j <= Len(s)
      BY <1>1, <1>3, <2>1 DEF IsInjective
    <2>2. CASE i > Len(s) /\ j > Len(s)
      <3>1. /\ i - Len(s) \in DOMAIN t /\ c[i] = t[i - Len(s)]
            /\ j - Len(s) \in DOMAIN t /\ c[j] = t[j - Len(s)]
        BY <1>1, <2>2
      <3>2. i - Len(s) = j - Len(s)
        BY <1>3, <3>1 DEF IsInjective
      <3>. QED  BY <1>1, <3>2
    <2>3. CASE (i <= Len(s)) # (j <= Len(s))
      <3>1. \A k \in DOMAIN c : k <= Len(s) => c[k] \in Range(s)
        BY <1>1 DEF Range
      <3>2. \A k \in DOMAIN c : k > Len(s) => c[k] \in Range(t)
        <4>1. \A k \in DOMAIN c : k > Len(s) => k - Len(s) \in DOMAIN t /\ c[k] = t[k - Len(s)]
          BY <1>1
        <4>. QED  BY <4>1 DEF Range
      <3>. QED  BY <1>1, <1>3, <2>3, <3>1, <3>2
    <2>. QED  BY <1>1, <2>1, <2>2, <2>3
  <1>. QED  BY <1>1, <1>2, <1>3 DEF c, IsInjective

\* What is left of a sequence without its first elements.
LEMMA RestFacts ==
    ASSUME NEW T, NEW s \in Seq(T), NEW n \in Nat
    PROVE  LET r == SubSeq(s, n + 1, Len(s))
           IN  /\ r \in Seq(T)
               /\ Range(r) = {s[i] : i \in n + 1 .. Len(s)}
               /\ IsInjective(s) => IsInjective(r)
  <1> DEFINE r == SubSeq(s, n + 1, Len(s))
  <1>1. /\ r \in Seq(T)
        /\ DOMAIN s = 1 .. Len(s) /\ Len(s) \in Nat
        /\ n <= Len(s) => DOMAIN r = 1 .. Len(s) - n
        /\ n > Len(s) => DOMAIN r = {}
        /\ \A i \in DOMAIN r : r[i] = s[n + i]
    OBVIOUS
  <1> HIDE DEF r
  <1>2. CASE n > Len(s)
    BY <1>1, <1>2 DEF Range, IsInjective, r
  <1>3. CASE n <= Len(s)
    <2>1. Range(r) = {s[i] : i \in n + 1 .. Len(s)}
      <3>1. \A i \in DOMAIN r : n + i \in n + 1 .. Len(s) /\ r[i] = s[n + i]
        BY <1>1, <1>3
      <3>2. \A i \in n + 1 .. Len(s) : i - n \in DOMAIN r /\ r[i - n] = s[i]
        BY SMTT(30), <1>1, <1>3
      <3>. QED  BY <3>1, <3>2 DEF Range
    <2>2. IsInjective(s) => IsInjective(r)
      <3>1. \A i \in DOMAIN r : i \in Nat /\ n + i \in DOMAIN s /\ r[i] = s[n + i]
        BY <1>1, <1>3
      <3>. QED  BY <3>1 DEF IsInjective
    <2>. QED  BY <1>1, <2>1, <2>2 DEF r
  <1>. QED  BY <1>1, <1>2, <1>3

\* A set with at most one element as a sequence.
LEMMA SetToSeqFacts ==
    ASSUME NEW S, \A x, y \in S : x = y
    PROVE  SetToSeq(S) \in Seq(S) /\ Range(SetToSeq(S)) = S
  <1>1. PICK n \in Nat : \E g : /\ Cardinality(S) = n
                                /\ g \in [1 .. n -> S] /\ IsInjective(g)
                                /\ \A f \in [1 .. n -> S] : {f[i] : i \in 1 .. n} = S
    <2>1. CASE S = {}
      <3>1. Cardinality(S) = 0 /\ 1 .. 0 = {}
        BY <2>1, FS_EmptySet
      <3> DEFINE g == [i \in 1 .. 0 |-> i]
      <3>2. g \in [1 .. 0 -> S] /\ IsInjective(g)
        BY <3>1 DEF IsInjective
      <3>3. \A f \in [1 .. 0 -> S] : {f[i] : i \in 1 .. 0} = S
        BY <2>1, <3>1
      <3> HIDE DEF g
      <3>4. 0 \in Nat
        OBVIOUS
      <3>. QED  BY <3>1, <3>2, <3>3, <3>4
    <2>2. CASE S # {}
      <3>1. PICK x : S = {x}
        BY <2>2
      <3>2. Cardinality(S) = 1 /\ 1 .. 1 = {1}
        <4>1. Cardinality({x}) = 1
          BY FS_Singleton
        <4>2. 1 .. 1 = {1}
          OBVIOUS
        <4>. QED  BY <3>1, <4>1, <4>2
      <3> DEFINE g == [i \in 1 .. 1 |-> x]
      <3>3. g \in [1 .. 1 -> S] /\ IsInjective(g)
        BY <3>1, <3>2 DEF IsInjective
      <3>4. \A f \in [1 .. 1 -> S] : {f[i] : i \in 1 .. 1} = S
        BY <3>1, <3>2
      <3>. QED  BY <3>2, <3>3, <3>4
    <2>. QED  BY <2>1, <2>2
  <1>2. SetToSeq(S) \in [1 .. n -> S]
    BY <1>1 DEF SetToSeq
  <1>. QED  BY <1>1, <1>2, TableIsSeq DEF Range

-----------------------------------------------------------------------------
(* Kept.                                                                   *)

\* f[i] holds those of the first i elements of s that are in S.
KeptOf(s, S, f, n) ==
    f = [i \in 0 .. n |->
            IF i = 0 THEN <<>>
            ELSE IF s[i] \in S THEN Append(f[i - 1], s[i]) ELSE f[i - 1]]

\* The recursion of Kept defines a function.
LEMMA KeptExists ==
    ASSUME NEW s, NEW S, NEW n \in Nat
    PROVE  \E f : KeptOf(s, S, f, n)
  <1> DEFINE G == {k \in Nat : \E f : KeptOf(s, S, f, k)}
  <1>1. 0 \in G
    <2>1. KeptOf(s, S, [i \in 0 .. 0 |-> <<>>], 0)
      BY DEF KeptOf
    <2>. QED  BY <2>1
  <1>2. ASSUME NEW k \in G
        PROVE  k + 1 \in G
    <2>1. PICK f : KeptOf(s, S, f, k)
      OBVIOUS
    <2> DEFINE g == [i \in 0 .. k + 1 |->
                        IF i \in 0 .. k THEN f[i]
                        ELSE IF s[k + 1] \in S THEN Append(f[k], s[k + 1]) ELSE f[k]]
    <2>2. KeptOf(s, S, g, k + 1)
      <3>1. ASSUME NEW i \in 0 .. k + 1
            PROVE  g[i] = IF i = 0 THEN <<>>
                          ELSE IF s[i] \in S THEN Append(g[i - 1], s[i]) ELSE g[i - 1]
        <4>1. CASE i \in 0 .. k
          <5>1. f[i] = IF i = 0 THEN <<>>
                       ELSE IF s[i] \in S THEN Append(f[i - 1], s[i]) ELSE f[i - 1]
            BY <2>1, <4>1 DEF KeptOf
          <5>2. g[i] = f[i] /\ (i # 0 => g[i - 1] = f[i - 1])
            BY <4>1
          <5>. QED  BY <5>1, <5>2
        <4>2. CASE i = k + 1
          <5>1. g[i - 1] = f[k]
            BY <4>2
          <5>. QED  BY <4>2, <5>1
        <4>. QED  BY <4>1, <4>2
      <3>2. g = [i \in 0 .. k + 1 |-> g[i]]
        OBVIOUS
      <3> HIDE DEF g
      <3>. QED  BY <3>1, <3>2 DEF KeptOf
    <2>. QED  BY <2>2
  <1> HIDE DEF G
  <1>3. G = Nat
    BY <1>1, <1>2, SetInduction DEF G
  <1>. QED  BY <1>3 DEF G

\* Kept is the last value of the recursion.
LEMMA KeptByRecursion ==
    ASSUME NEW s, NEW S, Len(s) \in Nat
    PROVE  \E f : KeptOf(s, S, f, Len(s)) /\ Kept(s, S) = f[Len(s)]
  <1> DEFINE c == CHOOSE f : KeptOf(s, S, f, Len(s))
  <1>1. KeptOf(s, S, c, Len(s))
    BY KeptExists
  <1>2. Kept(s, S) = c[Len(s)]
    BY DEF Kept, KeptOf
  <1>. QED  BY <1>1, <1>2

\* What Kept keeps of a sequence without repetitions.
LEMMA KeptFacts ==
    ASSUME NEW T, NEW s \in Seq(T), NEW S
    PROVE  /\ Kept(s, S) \in Seq(T)
           /\ Range(Kept(s, S)) = Range(s) \cap S
           /\ IsInjective(s) => IsInjective(Kept(s, S))
  <1>1. PICK f : KeptOf(s, S, f, Len(s)) /\ Kept(s, S) = f[Len(s)]
    BY KeptByRecursion
  <1> DEFINE First(k) == {s[j] : j \in 1 .. k}
             Good(k) == /\ f[k] \in Seq(T)
                        /\ Range(f[k]) = First(k) \cap S
                        /\ IsInjective(s) => IsInjective(f[k])
             G == {k \in Nat : k <= Len(s) => Good(k)}
  <1>2. 0 \in G
    <2>1. f[0] = <<>>
      BY <1>1 DEF KeptOf
    <2>2. <<>> \in Seq(T) /\ DOMAIN <<>> = {}
      OBVIOUS
    <2>3. First(0) = {}
      OBVIOUS
    <2>4. Good(0)
      BY <2>1, <2>2, <2>3 DEF Range, IsInjective
    <2>. QED  BY <2>4
  <1>3. ASSUME NEW k \in G
        PROVE  k + 1 \in G
    <2> SUFFICES ASSUME k + 1 <= Len(s)
                 PROVE  Good(k + 1)
      OBVIOUS
    <2>1. Good(k)
      OBVIOUS
    <2>0. k \in Nat /\ k + 1 \in 1 .. Len(s)
      OBVIOUS
    <2>2. f[k + 1] = IF s[k + 1] \in S THEN Append(f[k], s[k + 1]) ELSE f[k]
      <3>1. \A i \in 0 .. Len(s) :
               f[i] = IF i = 0 THEN <<>>
                      ELSE IF s[i] \in S THEN Append(f[i - 1], s[i]) ELSE f[i - 1]
        BY <1>1 DEF KeptOf
      <3>2. k + 1 \in 0 .. Len(s) /\ k + 1 # 0 /\ (k + 1) - 1 = k
        BY <2>0
      <3>. QED  BY <3>1, <3>2
    <2>3. First(k + 1) = First(k) \cup {s[k + 1]}
      OBVIOUS
    <2>4. s[k + 1] \in T
      OBVIOUS
    <2> HIDE DEF First, G
    <2>5. CASE s[k + 1] \notin S
      BY <2>1, <2>2, <2>3, <2>5
    <2>6. CASE s[k + 1] \in S
      <3>1. f[k + 1] = Append(f[k], s[k + 1])
        BY <2>2, <2>6
      <3>2. f[k + 1] \in Seq(T)
        BY <2>1, <2>4, <3>1
      <3>3. Range(f[k + 1]) = Range(f[k]) \cup {s[k + 1]}
        BY <2>1, <2>4, <3>1, AppendFacts
      <3>4. ASSUME IsInjective(s)
            PROVE  IsInjective(f[k + 1])
        <4>1. s[k + 1] \notin First(k)
          <5>1. \A j \in 1 .. k : j \in DOMAIN s /\ k + 1 \in DOMAIN s /\ j # k + 1
            BY <2>0
          <5>. QED  BY <3>4, <5>1 DEF First, IsInjective
        <4>2. s[k + 1] \notin Range(f[k])
          BY <2>1, <4>1
        <4>. QED  BY <2>1, <2>4, <3>1, <3>4, <4>2, AppendFacts
      <3>. QED  BY <2>1, <2>3, <2>6, <3>2, <3>3, <3>4
    <2>. QED  BY <2>5, <2>6
  <1>4. Len(s) \in G
    <2>1. G \in SUBSET Nat /\ Len(s) \in Nat
      OBVIOUS
    <2> HIDE DEF G
    <2>2. G = Nat
      BY <1>2, <1>3, <2>1, SetInduction
    <2>. QED  BY <2>1, <2>2
  <1>5. First(Len(s)) = Range(s)
    BY DEF Range
  <1>. QED  BY <1>1, <1>4, <1>5

-----------------------------------------------------------------------------
(* The arrays.                                                             *)

\* The window of a page, and the pages of some controllers.
Near(page) == {page - 1, page, page + 1} \cap Pages
PagesOf(vcs) == {frame[v] : v \in vcs}

\* Every controller is in one of the arrays, once, and has a page.
ArrayTypes ==
    /\ frame \in Seq(Pages)
    /\ visible \in Seq(DOMAIN frame) /\ reuse \in Seq(DOMAIN frame)
    /\ IsInjective(visible) /\ IsInjective(reuse)
    /\ Range(visible) \cup Range(reuse) = DOMAIN frame
    /\ Range(visible) \cap Range(reuse) = {}
    /\ currentPage \in Pages \cup {-1}

\* The page of every visible controller is one of the window of the page
\* loaded last, and every such page has one controller.
WindowIsServed ==
    /\ currentPage = -1 => frame = <<>>
    /\ currentPage # -1 => PagesOf(Range(visible)) = Near(currentPage)
    /\ \A v, w \in Range(visible) : frame[v] = frame[w] => v = w

\* No fourth controller.
FewControllers == Len(frame) <= 3

ArrayInv == ArrayTypes /\ WindowIsServed /\ FewControllers

\* The controllers that keep their page when p is loaded.
Keeps(p) == {v \in Range(visible) : frame[v] \in Near(p) \ {0}}

\* The controllers that stay are those of the new window, except that of
\* page 0.
LEMMA StayingFacts ==
    ASSUME ArrayTypes, WindowIsServed, NEW p \in Pages
    PROVE  /\ Staying(p) \in Seq(DOMAIN frame) /\ Leaving(p) \in Seq(DOMAIN frame)
           /\ IsInjective(Staying(p)) /\ IsInjective(Leaving(p))
           /\ Range(Staying(p)) = Keeps(p)
           /\ Range(Leaving(p)) = Range(visible) \ Keeps(p)
  <1> DEFINE L == {v \in Range(visible) : Leaves(v, p)}
             S == {v \in Range(visible) : ~Leaves(v, p)}
  <1>1. \A v \in Range(visible) : ~Leaves(v, p) <=> v \in Keeps(p)
    <2> SUFFICES ASSUME NEW v \in Range(visible)
                 PROVE  Leaves(v, p) <=> frame[v] \notin Near(p) \ {0}
      BY DEF Keeps
    <2>1. Range(WindowFrames(p)) = {p - 1, p, p + 1}
      BY DEF WindowFrames, Range
    <2>2. frame[v] \in Pages
      BY DEF ArrayTypes, Range
    <2>3. ~ \E i, j \in DOMAIN visible :
               i < j /\ visible[j] = v /\ frame[visible[i]] = frame[v]
      <3> SUFFICES ASSUME NEW i \in DOMAIN visible, NEW j \in DOMAIN visible,
                          i < j, visible[j] = v, frame[visible[i]] = frame[v]
                   PROVE  FALSE
        OBVIOUS
      <3>1. visible[i] \in Range(visible)
        BY DEF Range
      <3>2. visible[i] = visible[j]
        BY <3>1 DEF WindowIsServed
      <3>3. i = j
        BY <3>2 DEF ArrayTypes, IsInjective
      <3>4. i \in Nat /\ j \in Nat
        BY DEF ArrayTypes
      <3>. QED  BY <3>3, <3>4
    <2>. QED  BY <2>1, <2>2, <2>3 DEF Leaves, Near
  <1>2. S = Keeps(p) /\ L = Range(visible) \ Keeps(p)
    BY <1>1 DEF Keeps
  <1>3. Staying(p) = Kept(visible, S) /\ Leaving(p) = Kept(visible, L)
    BY DEF Staying, Leaving
  <1>4. visible \in Seq(DOMAIN frame) /\ IsInjective(visible)
    BY DEF ArrayTypes
  <1> HIDE DEF S, L
  <1>5. /\ Staying(p) \in Seq(DOMAIN frame) /\ IsInjective(Staying(p))
        /\ Range(Staying(p)) = Range(visible) \cap S
    BY <1>3, <1>4, KeptFacts
  <1>6. /\ Leaving(p) \in Seq(DOMAIN frame) /\ IsInjective(Leaving(p))
        /\ Range(Leaving(p)) = Range(visible) \cap L
    BY <1>3, <1>4, KeptFacts
  <1>. QED  BY <1>2, <1>5, <1>6 DEF Keeps

\* The pages of the window that no staying controller has.
LEMMA WantedFacts ==
    ASSUME ArrayTypes, WindowIsServed, NEW p \in Pages
    PROVE  /\ Wanted(p) \in Seq(Pages)
           /\ IsInjective(Wanted(p))
           /\ Range(Wanted(p)) = Near(p) \ PagesOf(Keeps(p))
  <1> DEFINE F == WindowFrames(p)
             S == Pages \ PagesOf(Keeps(p))
  <1>0. p \in Int
    BY DEF Pages
  <1>1. F \in Seq(Int) /\ IsInjective(F) /\ Range(F) = {p - 1, p, p + 1}
    BY <1>0 DEF WindowFrames, IsInjective, Range
  <1>2. Wanted(p) = Kept(F, S)
    BY StayingFacts DEF Wanted, PagesOf
  <1> HIDE DEF F, S
  <1>3. /\ Kept(F, S) \in Seq(Int) /\ IsInjective(Kept(F, S))
        /\ Range(Kept(F, S)) = Range(F) \cap S
    BY <1>1, KeptFacts
  <1>4. Kept(F, S) \in Seq(Pages)
    <2>1. \A i \in DOMAIN Kept(F, S) : Kept(F, S)[i] \in Pages
      BY <1>3 DEF Range, S
    <2>. QED  BY <1>3, <2>1
  <1>. QED  BY <1>1, <1>2, <1>3, <1>4 DEF S, Near

\* The controllers that serve the wanted pages are the first of the pool,
\* and new ones when the pool is used up.
LEMMA DequeuedFacts ==
    ASSUME frame \in Seq(Pages), NEW pool \in Seq(DOMAIN frame), IsInjective(pool),
           NEW n \in Nat
    PROVE  LET d == Dequeued(pool, n)
               m == IF n <= Len(pool) THEN Len(frame) ELSE Len(frame) + n - Len(pool)
           IN  /\ d \in Seq(1 .. m) /\ DOMAIN d = 1 .. n
               /\ m \in Nat /\ m >= Len(frame)
               /\ IsInjective(d)
               /\ Range(d) = {pool[i] : i \in {j \in DOMAIN pool : j <= n}}
                                \cup (Len(frame) + 1 .. m)
  <1> DEFINE d == Dequeued(pool, n)
             m == IF n <= Len(pool) THEN Len(frame) ELSE Len(frame) + n - Len(pool)
  <1>1. /\ Len(pool) \in Nat /\ DOMAIN pool = 1 .. Len(pool)
        /\ Len(frame) \in Nat /\ DOMAIN frame = 1 .. Len(frame)
        /\ m \in Nat /\ m >= Len(frame)
    OBVIOUS
  <1>2. \A i \in DOMAIN pool : pool[i] \in 1 .. Len(frame)
    BY <1>1
  <1>3. /\ DOMAIN d = 1 .. n
        /\ \A i \in 1 .. n : d[i] = IF i <= Len(pool) THEN pool[i]
                                    ELSE Len(frame) + i - Len(pool)
    BY DEF Dequeued
  <1>4. \A i \in 1 .. n : d[i] \in 1 .. m
    BY SMTT(30), <1>1, <1>2, <1>3
  <1>5. d \in Seq(1 .. m)
    <2>1. d = [i \in 1 .. n |-> d[i]]
      BY DEF Dequeued
    <2> HIDE DEF d, m
    <2>2. d \in [1 .. n -> 1 .. m]
      BY <1>4, <2>1
    <2>. QED  BY <2>2, TableIsSeq
  <1> HIDE DEF d
  <1>6. ASSUME NEW i \in 1 .. n, NEW j \in 1 .. n, d[i] = d[j]
        PROVE  i = j
    <2>1. CASE i <= Len(pool) /\ j <= Len(pool)
      BY SMTT(30), <1>1, <1>3, <1>6, <2>1 DEF IsInjective
    <2>2. CASE ~(i <= Len(pool) /\ j <= Len(pool))
      BY <1>1, <1>2, <1>3, <1>6, <2>2
    <2>. QED  BY <2>1, <2>2
  <1>7. Range(d) = {pool[i] : i \in {j \in DOMAIN pool : j <= n}} \cup (Len(frame) + 1 .. m)
    <2>1. ASSUME NEW i \in 1 .. n
          PROVE  d[i] \in {pool[k] : k \in {j \in DOMAIN pool : j <= n}}
                            \cup (Len(frame) + 1 .. m)
      <3>1. CASE i <= Len(pool)
        <4>1. i \in DOMAIN pool /\ d[i] = pool[i]
          BY <1>1, <1>3, <3>1
        <4>. QED  BY <4>1
      <3>2. CASE ~(i <= Len(pool))
        BY <1>1, <1>3, <3>2
      <3>. QED  BY <3>1, <3>2
    <2>2. \A k \in DOMAIN pool : k <= n => k \in DOMAIN d /\ d[k] = pool[k]
      BY <1>1, <1>3
    <2>3. \A v \in Len(frame) + 1 .. m :
             v - Len(frame) + Len(pool) \in DOMAIN d /\ d[v - Len(frame) + Len(pool)] = v
      BY <1>1, <1>3
    <2> HIDE DEF m
    <2>. QED  BY ZenonT(60), <1>3, <2>1, <2>2, <2>3 DEF Range
  <1>. QED  BY <1>1, <1>3, <1>5, <1>6, <1>7 DEF d, IsInjective

\* Controller served[i] has page pages[i]; the others keep theirs.
LEMMA PlacedFacts ==
    ASSUME frame \in Seq(Pages), NEW pages \in Seq(Pages), NEW m \in Nat,
           NEW served \in Seq(1 .. m), IsInjective(served),
           DOMAIN served = DOMAIN pages,
           DOMAIN frame \cup Range(served) = 1 .. m
    PROVE  LET new == Placed(served, pages)
           IN  /\ new \in Seq(Pages) /\ DOMAIN new = 1 .. m
               /\ \A i \in DOMAIN served : new[served[i]] = pages[i]
               /\ \A v \in DOMAIN frame \ Range(served) : new[v] = frame[v]
  <1> DEFINE new == Placed(served, pages)
  <1>1. /\ new = [v \in 1 .. m |-> new[v]] /\ DOMAIN new = 1 .. m
        /\ \A v \in 1 .. m : new[v] = IF v \in Range(served)
                                      THEN pages[CHOOSE i \in DOMAIN served : served[i] = v]
                                      ELSE frame[v]
    BY DEF Placed
  <1>2. \A i \in DOMAIN served : served[i] \in Range(served) /\ served[i] \in 1 .. m
    BY DEF Range
  <1> HIDE DEF new
  <1>3. ASSUME NEW i \in DOMAIN served
        PROVE  new[served[i]] = pages[i]
    <2>1. (CHOOSE j \in DOMAIN served : served[j] = served[i]) = i
      BY DEF IsInjective
    <2>. QED  BY <1>1, <1>2, <2>1
  <1>4. \A v \in DOMAIN frame \ Range(served) : new[v] = frame[v]
    BY <1>1
  <1>5. new \in Seq(Pages)
    <2>1. ASSUME NEW v \in 1 .. m
          PROVE  new[v] \in Pages
      <3>1. CASE v \in Range(served)
        <4>1. PICK i \in DOMAIN served : v = served[i]
          BY <3>1 DEF Range
        <4>2. i \in DOMAIN pages /\ pages[i] \in Pages
          OBVIOUS
        <4>. QED  BY <1>3, <4>1, <4>2
      <3>2. CASE v \notin Range(served)
        <4>1. v \in DOMAIN frame /\ frame[v] \in Pages
          BY <3>2
        <4>. QED  BY <1>4, <3>2, <4>1
      <3>. QED  BY <3>1, <3>2
    <2>2. new \in [1 .. m -> Pages]
      BY <1>1, <2>1
    <2>. QED  BY <2>2
  <1>. QED  BY <1>1, <1>3, <1>4, <1>5 DEF new

-----------------------------------------------------------------------------
(* Loading a page.                                                         *)

\* What loading page p does to the arrays.
LoadEffect(p) ==
    /\ currentPage' = p
    /\ frame' \in Seq(Pages) /\ DOMAIN frame \subseteq DOMAIN frame'
    /\ visible' \in Seq(DOMAIN frame') /\ reuse' \in Seq(DOMAIN frame')
    /\ IsInjective(visible') /\ IsInjective(reuse')
    /\ Range(visible') \cup Range(reuse') = DOMAIN frame'
    /\ Range(visible') \cap Range(reuse') = {}
    /\ Keeps(p) \subseteq Range(visible')
    /\ \A v \in Keeps(p) : frame'[v] = frame[v]
    /\ PagesOf(Range(visible))' = Near(p)
    /\ \A v, w \in Range(visible') : frame'[v] = frame'[w] => v = w
    /\ Range(reuse') \subseteq DOMAIN frame
    /\ DOMAIN frame' = DOMAIN frame \/ reuse' = <<>>

\* Loading another page has the effect just stated.
LEMMA LoadPageEffect ==
    ASSUME ArrayTypes, WindowIsServed, NEW p \in Pages, currentPage # p, LoadPage(p)
    PROVE  LoadEffect(p)
  <1> DEFINE pool   == reuse \o Leaving(p)
             wanted == Wanted(p)
             n      == Len(wanted)
             served == Dequeued(pool, n)
             m      == IF n <= Len(pool) THEN Len(frame) ELSE Len(frame) + n - Len(pool)
             taken  == {pool[i] : i \in {j \in DOMAIN pool : j <= n}}
             fresh  == Len(frame) + 1 .. m
             rest   == {pool[i] : i \in n + 1 .. Len(pool)}
  <1>1. /\ currentPage' = p
        /\ visible' = Staying(p) \o served
        /\ reuse' = SubSeq(pool, n + 1, Len(pool))
        /\ frame' = Placed(served, wanted)
    BY DEF LoadPage
  <1>2. /\ frame \in Seq(Pages) /\ visible \in Seq(DOMAIN frame) /\ reuse \in Seq(DOMAIN frame)
        /\ IsInjective(reuse)
        /\ Range(visible) \cup Range(reuse) = DOMAIN frame
        /\ Range(visible) \cap Range(reuse) = {}
    BY DEF ArrayTypes
  <1>3. /\ Staying(p) \in Seq(DOMAIN frame) /\ Leaving(p) \in Seq(DOMAIN frame)
        /\ IsInjective(Staying(p)) /\ IsInjective(Leaving(p))
        /\ Range(Staying(p)) = Keeps(p)
        /\ Range(Leaving(p)) = Range(visible) \ Keeps(p)
    BY StayingFacts
  <1>4. /\ wanted \in Seq(Pages) /\ IsInjective(wanted)
        /\ Range(wanted) = Near(p) \ PagesOf(Keeps(p))
        /\ n \in Nat /\ DOMAIN wanted = 1 .. n
    BY WantedFacts
  <1>5. /\ pool \in Seq(DOMAIN frame) /\ IsInjective(pool)
        /\ Range(pool) = DOMAIN frame \ Keeps(p)
    <2>1. Range(reuse) \cap Range(Leaving(p)) = {}
      BY <1>2, <1>3
    <2>2. /\ pool \in Seq(DOMAIN frame) /\ IsInjective(pool)
          /\ Range(pool) = Range(reuse) \cup Range(Leaving(p))
      BY <1>2, <1>3, <2>1, ConcatFacts
    <2>3. Keeps(p) \subseteq Range(visible)
      BY DEF Keeps
    <2>. QED  BY <1>2, <1>3, <2>2, <2>3
  <1> HIDE DEF pool, wanted
  <1>6. /\ served \in Seq(1 .. m) /\ DOMAIN served = 1 .. n
        /\ m \in Nat /\ m >= Len(frame)
        /\ IsInjective(served)
        /\ Range(served) = taken \cup fresh
    <2> HIDE DEF served, m, taken, fresh, n
    <2>. QED  BY <1>2, <1>4, <1>5, DequeuedFacts DEF served, m, taken, fresh
  <1>7. /\ reuse' \in Seq(DOMAIN frame) /\ Range(reuse') = rest /\ IsInjective(reuse')
    <2> HIDE DEF rest, n
    <2>. QED  BY <1>1, <1>4, <1>5, RestFacts DEF rest
  <1>8. Len(pool) \in Nat /\ DOMAIN pool = 1 .. Len(pool)
    BY <1>5
  <1>9. /\ taken \cup rest = Range(pool) /\ taken \cap rest = {}
    <2>1. \A i, j \in DOMAIN pool : pool[i] = pool[j] => i = j
      BY <1>5 DEF IsInjective
    <2>2. n + 1 .. Len(pool) = {i \in DOMAIN pool : ~(i <= n)}
      BY <1>4, <1>8
    <2>. QED  BY <2>1, <2>2 DEF Range
  <1>10. /\ DOMAIN frame = 1 .. Len(frame) /\ Len(frame) \in Nat
         /\ DOMAIN frame \cup fresh = 1 .. m /\ DOMAIN frame \cap fresh = {}
    BY SMTT(30), <1>2, <1>6
  <1> HIDE DEF n, m, taken, fresh, rest, served
  <1>11. /\ DOMAIN frame \cup Range(served) = 1 .. m
         /\ DOMAIN served = DOMAIN wanted
    BY <1>4, <1>5, <1>6, <1>9, <1>10
  <1>12. /\ frame' \in Seq(Pages) /\ DOMAIN frame' = 1 .. m
         /\ \A i \in DOMAIN served : frame'[served[i]] = wanted[i]
         /\ \A v \in DOMAIN frame \ Range(served) : frame'[v] = frame[v]
    <2>1. frame \in Seq(Pages) /\ wanted \in Seq(Pages) /\ m \in Nat
      BY <1>2, <1>4, <1>6
    <2>2. served \in Seq(1 .. m) /\ IsInjective(served)
      BY <1>6
    <2>. QED  BY ZenonT(60), <1>1, <1>11, <2>1, <2>2, PlacedFacts
  <1>13. Keeps(p) \subseteq DOMAIN frame /\ Keeps(p) \cap Range(served) = {}
    <2>1. Keeps(p) \subseteq Range(visible)
      BY DEF Keeps
    <2>. QED  BY <1>2, <1>5, <1>6, <1>9, <1>10, <2>1
  <1>14. \A v \in Keeps(p) : frame'[v] = frame[v]
    BY <1>12, <1>13
  <1>15. /\ visible' \in Seq(DOMAIN frame') /\ IsInjective(visible')
         /\ Range(visible') = Keeps(p) \cup Range(served)
    <2>1. DOMAIN frame \subseteq 1 .. m
      BY <1>11
    <2>2. Staying(p) \in Seq(1 .. m)
      BY <1>3, <2>1, SeqWiden
    <2>. QED  BY <1>1, <1>3, <1>6, <1>12, <1>13, <2>2, ConcatFacts
  <1>16. reuse' \in Seq(DOMAIN frame') /\ DOMAIN frame \subseteq DOMAIN frame'
    <2>1. DOMAIN frame \subseteq DOMAIN frame'
      BY <1>11, <1>12
    <2>. QED  BY <1>7, <2>1, SeqWiden
  <1>17. /\ Range(visible') \cup Range(reuse') = DOMAIN frame'
         /\ Range(visible') \cap Range(reuse') = {}
    <2>1. Range(pool) = taken \cup rest /\ taken \cap rest = {}
      BY <1>9
    <2>2. rest \subseteq DOMAIN frame
      BY <1>5, <2>1
    <2>. QED  BY <1>5, <1>6, <1>7, <1>10, <1>12, <1>13, <1>15, <2>1, <2>2
  <1>18. /\ PagesOf(Range(visible))' = Near(p)
         /\ \A v, w \in Range(visible') : frame'[v] = frame'[w] => v = w
    <2>1. \A i \in DOMAIN served : frame'[served[i]] = wanted[i] /\ wanted[i] \in Range(wanted)
      BY <1>4, <1>6, <1>12 DEF Range
    <2>2. \A v \in Range(served) : \E i \in DOMAIN served : v = served[i]
      BY DEF Range
    <2>3. \A q \in Range(wanted) : \E i \in DOMAIN served : q = wanted[i]
      BY <1>4, <1>6 DEF Range
    <2>4. \A i \in DOMAIN served : served[i] \in Range(served)
      BY DEF Range
    <2>5. PagesOf(Range(visible))' = PagesOf(Keeps(p)) \cup Range(wanted)
      <3>1. \A v \in Range(visible') : frame'[v] \in PagesOf(Keeps(p)) \cup Range(wanted)
        BY <1>14, <1>15, <2>1, <2>2 DEF PagesOf
      <3>2. \A q \in PagesOf(Keeps(p)) : \E v \in Range(visible') : frame'[v] = q
        BY <1>14, <1>15 DEF PagesOf
      <3>3. \A q \in Range(wanted) : \E v \in Range(visible') : frame'[v] = q
        BY <1>15, <2>1, <2>3, <2>4
      <3>. QED  BY <3>1, <3>2, <3>3 DEF PagesOf
    <2>6. PagesOf(Keeps(p)) \subseteq Near(p)
      BY DEF PagesOf, Keeps
    <2>7. ASSUME NEW v \in Range(visible'), NEW w \in Range(visible'), frame'[v] = frame'[w]
          PROVE  v = w
      <3>1. CASE v \in Keeps(p) /\ w \in Keeps(p)
        BY <1>14, <2>7, <3>1 DEF Keeps, WindowIsServed
      <3>2. CASE v \in Range(served) /\ w \in Range(served)
        <4>1. PICK i \in DOMAIN served, j \in DOMAIN served : v = served[i] /\ w = served[j]
          BY <2>2, <3>2
        <4>2. i \in DOMAIN wanted /\ j \in DOMAIN wanted /\ wanted[i] = wanted[j]
          BY <1>4, <1>6, <2>1, <2>7, <4>1
        <4>. QED  BY <1>4, <4>1, <4>2 DEF IsInjective
      <3>3. \A x \in Keeps(p), y \in Range(served) : frame'[x] # frame'[y]
        <4>1. \A x \in Keeps(p) : frame'[x] \in PagesOf(Keeps(p))
          BY <1>14 DEF PagesOf
        <4>2. \A y \in Range(served) : frame'[y] \notin PagesOf(Keeps(p))
          BY <1>4, <2>1, <2>2
        <4>. QED  BY <4>1, <4>2
      <3>. QED  BY <1>15, <2>7, <3>1, <3>2, <3>3
    <2>. QED  BY <1>4, <2>5, <2>6, <2>7
  <1>19. Range(reuse') \subseteq DOMAIN frame
    BY <1>7 DEF Range
  <1>20. DOMAIN frame' = DOMAIN frame \/ reuse' = <<>>
    <2>1. CASE n <= Len(pool)
      BY <1>10, <1>12, <2>1 DEF m
    <2>2. CASE n > Len(pool)
      BY <1>1, <1>4, <1>5, <1>8, <2>2
    <2>. QED  BY <1>4, <1>8, <2>1, <2>2
  <1>. QED  BY <1>1, <1>7, <1>12, <1>13, <1>14, <1>15, <1>16, <1>17, <1>18, <1>19, <1>20
            DEF LoadEffect

\* A window has at most three pages.
LEMMA NearSize ==
    ASSUME NEW p \in Int
    PROVE  IsFiniteSet(Near(p)) /\ Cardinality(Near(p)) <= 3
  <1> DEFINE I == p - 1 .. p + 1
  <1>1. IsFiniteSet(I) /\ Cardinality(I) = 3
    <2>1. Cardinality(I) = IF p - 1 > p + 1 THEN 0 ELSE (p + 1) - (p - 1) + 1
      BY FS_Interval
    <2>2. IsFiniteSet(I)
      BY FS_Interval
    <2>. QED  BY <2>1, <2>2
  <1>2. Near(p) \subseteq I
    BY DEF Near
  <1>. QED  BY <1>1, <1>2, FS_Subset, FS_CardinalityType

\* A load creates a controller only when every other one is on a page of the
\* window, so that no load leaves more than three.
LEMMA LoadKeepsFew ==
    ASSUME FewControllers, frame \in Seq(Pages), NEW p \in Pages, LoadEffect(p)
    PROVE  FewControllers'
  <1>1. /\ frame' \in Seq(Pages) /\ Len(frame') \in Nat /\ DOMAIN frame' = 1 .. Len(frame')
        /\ Len(frame) \in Nat /\ DOMAIN frame = 1 .. Len(frame)
    BY DEF LoadEffect
  <1>2. CASE DOMAIN frame' = DOMAIN frame
    BY <1>1, <1>2 DEF FewControllers
  <1>3. CASE reuse' = <<>>
    <2>1. Range(visible') = 1 .. Len(frame')
      <3>1. Range(reuse') = {}
        BY <1>3 DEF Range
      <3>. QED  BY <1>1, <3>1 DEF LoadEffect
    <2>2. /\ \A v \in 1 .. Len(frame') : frame'[v] \in Near(p)
          /\ \A v, w \in 1 .. Len(frame') : frame'[v] = frame'[w] => v = w
      BY <2>1 DEF LoadEffect, PagesOf
    <2> DEFINE f == [v \in 1 .. Len(frame') |-> frame'[v]]
    <2>3. f \in Injection(1 .. Len(frame'), Near(p))
      <3>1. f \in [1 .. Len(frame') -> Near(p)]
        BY <2>2
      <3>2. \A v, w \in 1 .. Len(frame') : f[v] = f[w] => v = w
        BY <2>2
      <3>. QED  BY <3>1, <3>2 DEF Injection, IsInjective
    <2>4. IsFiniteSet(Near(p)) /\ Cardinality(Near(p)) <= 3
      BY NearSize DEF Pages
    <2>5. Cardinality(1 .. Len(frame')) <= Cardinality(Near(p))
      BY <2>3, <2>4, FS_Injection
    <2>6. Cardinality(1 .. Len(frame')) = IF 1 > Len(frame') THEN 0 ELSE Len(frame')
      <3>1. Cardinality(1 .. Len(frame')) = IF 1 > Len(frame') THEN 0 ELSE Len(frame') - 1 + 1
        <4>1. 1 \in Int /\ Len(frame') \in Int
          BY <1>1
        <4>2. \A a, b \in Int : Cardinality(a .. b) = IF a > b THEN 0 ELSE b - a + 1
          BY FS_Interval
        <4>. QED  BY <4>1, <4>2
      <3>. QED  BY <1>1, <3>1
    <2>7. Cardinality(Near(p)) \in Nat
      BY <2>4, FS_CardinalityType
    <2>. QED  BY <1>1, <2>4, <2>5, <2>6, <2>7 DEF FewControllers
  <1>4. DOMAIN frame' = DOMAIN frame \/ reuse' = <<>>
    BY DEF LoadEffect
  <1>. QED  BY <1>2, <1>3, <1>4

\* A step that leaves the arrays alone keeps them in order.
LEMMA IdleArrays ==
    ASSUME ArrayInv, UNCHANGED containerVars
    PROVE  ArrayInv'
  <1>1. visible' = visible /\ reuse' = reuse /\ frame' = frame /\ currentPage' = currentPage
    BY DEF containerVars
  <1>2. ArrayTypes' /\ FewControllers'
    BY <1>1 DEF ArrayInv, ArrayTypes, FewControllers, Pages
  <1>3. /\ PagesOf(Range(visible))' = PagesOf(Range(visible))
        /\ Near(currentPage)' = Near(currentPage)
    BY <1>1 DEF PagesOf, Near, Pages
  <1>4. WindowIsServed'
    BY <1>1, <1>3 DEF ArrayInv, WindowIsServed
  <1>. QED  BY <1>2, <1>4 DEF ArrayInv

\* Loading a page keeps the arrays in order.
LEMMA LoadKeepsArrays ==
    ASSUME ArrayInv, NEW p \in Pages, LoadPage(p)
    PROVE  ArrayInv'
  <1>1. CASE currentPage = p
    <2>1. UNCHANGED containerVars
      BY <1>1 DEF LoadPage
    <2>. QED  BY <2>1, IdleArrays
  <1>2. CASE currentPage # p
    <2>1. LoadEffect(p)
      BY <1>2, LoadPageEffect DEF ArrayInv
    <2>2. FewControllers'
      BY <2>1, LoadKeepsFew DEF ArrayInv, ArrayTypes
    <2>3. ArrayTypes'
      BY <2>1 DEF LoadEffect, ArrayTypes, Pages
    <2>4. WindowIsServed'
      <3>1. currentPage' = p /\ p # -1
        BY <2>1 DEF LoadEffect, Pages
      <3>2. Near(currentPage)' = Near(p)
        BY <3>1 DEF Near, Pages
      <3>. QED  BY <2>1, <3>1, <3>2 DEF LoadEffect, WindowIsServed
    <2>. QED  BY <2>2, <2>3, <2>4 DEF ArrayInv
  <1>. QED  BY <1>1, <1>2

\* The first load of page 1, when nothing is parked: the controller of page 0
\* is taken down and, as the first of the pool, put back where it was, which
\* is on screen.
LEMMA PageZeroIsPutBack ==
    ASSUME ArrayInv, currentPage = 0, reuse = <<>>, 1 \in Pages, LoadPage(1),
           NEW v \in Range(visible), frame[v] = 0
    PROVE  v \in Range(visible') /\ frame'[v] = 0
  <1> DEFINE pool   == reuse \o Leaving(1)
             wanted == Wanted(1)
             n      == Len(wanted)
             served == Dequeued(pool, n)
  <1>1. frame' = Placed(served, wanted) /\ visible' = Staying(1) \o served
    BY DEF LoadPage
  <1>2. /\ frame \in Seq(Pages) /\ visible \in Seq(DOMAIN frame)
        /\ \A u, w \in Range(visible) : frame[u] = frame[w] => u = w
        /\ \A u \in Range(visible) : frame[u] \in {0, 1}
        /\ \E u \in Range(visible) : frame[u] = 1
    <2>1. 0 \in Pages /\ Near(0) = {0, 1}
      BY TotalPagesAssumption DEF Near, Pages
    <2>2. {frame[u] : u \in Range(visible)} = {0, 1}
      <3>1. PagesOf(Range(visible)) = Near(currentPage)
        BY DEF ArrayInv, WindowIsServed
      <3>. QED  BY <2>1, <3>1, Zenon DEF PagesOf
    <2>3. \A u \in Range(visible) : frame[u] \in {frame[w] : w \in Range(visible)}
      OBVIOUS
    <2>4. \E u \in Range(visible) : frame[u] = 1
      <3>1. 1 \in {frame[u] : u \in Range(visible)}
        BY <2>2
      <3>. QED  BY <3>1
    <2>5. \A u \in Range(visible) : frame[u] \in {0, 1}
      BY <2>2, <2>3
    <2>. QED  BY <2>4, <2>5 DEF ArrayInv, ArrayTypes, WindowIsServed
  <1>3. Keeps(1) = {u \in Range(visible) : frame[u] = 1}
    BY <1>2 DEF Keeps, Near
  <1>4. Leaving(1) \in Seq(DOMAIN frame) /\ IsInjective(Leaving(1)) /\ Range(Leaving(1)) = {v}
    <2>1. Range(visible) \ Keeps(1) = {v}
      BY SMTT(30), <1>2, <1>3
    <2>. QED  BY <2>1, StayingFacts DEF ArrayInv
  <1>5. pool = Leaving(1)
    BY <1>4
  <1>6. Len(pool) \in Nat /\ Len(pool) >= 1 /\ pool[1] = v
    <2>1. pool \in Seq(DOMAIN frame) /\ Range(pool) = {v}
      BY <1>4, <1>5
    <2>2. \A i \in DOMAIN pool : pool[i] = v
      BY <2>1 DEF Range
    <2>3. DOMAIN pool # {}
      BY <2>1 DEF Range
    <2> HIDE DEF pool
    <2>. QED  BY <2>1, <2>2, <2>3
  <1>7. wanted \in Seq(Pages) /\ IsInjective(wanted) /\ n >= 1 /\ wanted[1] = 0
    <2> DEFINE S == Pages \ {frame[u] : u \in Range(Staying(1))}
    <2>1. 0 \in S /\ 1 \notin S
      <3>1. Range(Staying(1)) = {u \in Range(visible) : frame[u] = 1}
        BY <1>3, StayingFacts DEF ArrayInv
      <3>2. {frame[u] : u \in Range(Staying(1))} = {1}
        BY <1>2, <3>1
      <3>3. 0 \in Pages
        BY TotalPagesAssumption DEF Pages
      <3>. QED  BY <3>2, <3>3
    <2>2. WindowFrames(1) = <<1, 0, 2>> /\ Len(WindowFrames(1)) = 3
      BY DEF WindowFrames
    <2> HIDE DEF S
    <2>3. PICK f : KeptOf(WindowFrames(1), S, f, 3) /\ Kept(WindowFrames(1), S) = f[3]
      <3> DEFINE w == WindowFrames(1)
      <3>1. Len(w) = 3 /\ Len(w) \in Nat
        BY <2>2
      <3> HIDE DEF w
      <3>2. \E f : KeptOf(w, S, f, Len(w)) /\ Kept(w, S) = f[Len(w)]
        BY <3>1, KeptByRecursion
      <3>3. \E f : KeptOf(w, S, f, 3) /\ Kept(w, S) = f[3]
        BY <3>1, <3>2
      <3>. QED  BY <3>3 DEF w
    <2>4. f[0] = <<>> /\ f[1] = <<>> /\ f[2] = << 0 >> /\ f[3] \in {<< 0 >>, Append(<< 0 >>, 2)}
      <3> DEFINE w == WindowFrames(1)
      <3>1. \A i \in 0 .. 3 :
              f[i] = IF i = 0 THEN <<>>
                     ELSE IF w[i] \in S THEN Append(f[i - 1], w[i]) ELSE f[i - 1]
        BY <2>3 DEF KeptOf
      <3>2. w[1] = 1 /\ w[2] = 0 /\ w[3] = 2
        BY <2>2
      <3> HIDE DEF w
      <3>3. f[0] = <<>>
        BY <3>1
      <3>4. f[1] = <<>>
        BY <2>1, <3>1, <3>2, <3>3
      <3>5. f[2] = << 0 >>
        <4>1. Append(<<>>, 0) = << 0 >>
          OBVIOUS
        <4>2. f[2] = Append(f[1], 0)
          <5>1. 2 \in 0 .. 3 /\ 2 # 0 /\ 2 - 1 = 1
            OBVIOUS
          <5>2. f[2] = IF w[2] \in S THEN Append(f[2 - 1], w[2]) ELSE f[2 - 1]
            BY <3>1, <5>1
          <5>. QED  BY <2>1, <3>2, <5>1, <5>2
        <4>. QED  BY <3>4, <4>1, <4>2
      <3>6. f[3] \in {<< 0 >>, Append(<< 0 >>, 2)}
        <4>1. 3 \in 0 .. 3 /\ 3 # 0 /\ 3 - 1 = 2
          OBVIOUS
        <4>2. f[3] = IF w[3] \in S THEN Append(f[3 - 1], w[3]) ELSE f[3 - 1]
          BY <3>1, <4>1
        <4>. QED  BY <3>2, <3>5, <4>1, <4>2
      <3>. QED  BY <3>3, <3>4, <3>5, <3>6
    <2>5. wanted = f[3]
      BY <2>3 DEF Wanted, S
    <2>6. ASSUME NEW s \in {<< 0 >>, Append(<< 0 >>, 2)}
          PROVE  Len(s) >= 1 /\ s[1] = 0
      <3>1. << 0 >> \in Seq(Int) /\ Len(<< 0 >>) = 1 /\ << 0 >>[1] = 0
        OBVIOUS
      <3>2. Len(Append(<< 0 >>, 2)) = 2 /\ Append(<< 0 >>, 2)[1] = 0
        BY <3>1
      <3>. QED  BY <3>1, <3>2
    <2>7. Len(f[3]) >= 1 /\ f[3][1] = 0
      BY <2>4, <2>6
    <2>8. wanted \in Seq(Pages) /\ IsInjective(wanted)
      BY WantedFacts DEF ArrayInv
    <2> HIDE DEF wanted
    <2>. QED  BY <2>5, <2>7, <2>8
  <1>8. n \in Nat
    BY <1>7
  <1> HIDE DEF pool, wanted, n
  <1>9. 1 \in DOMAIN served /\ served[1] = v /\ \A i \in DOMAIN served : served[i] = v => i = 1
    <2>1. served = [i \in 1 .. n |-> IF i <= Len(pool) THEN pool[i]
                                     ELSE Len(frame) + i - Len(pool)]
      BY DEF Dequeued
    <2>2. v \in DOMAIN frame /\ DOMAIN frame = 1 .. Len(frame) /\ Len(frame) \in Nat
      BY <1>2 DEF Range
    <2>3. \A i \in DOMAIN pool : i = 1
      <3>1. DOMAIN pool = 1 .. Len(pool) /\ \A i \in DOMAIN pool : pool[i] = v
        BY <1>4, <1>5 DEF Range
      <3>2. 1 \in DOMAIN pool
        BY <1>6, <3>1
      <3>. QED  BY <1>4, <1>5, <3>1, <3>2 DEF IsInjective
    <2>4. DOMAIN pool = 1 .. Len(pool)
      BY <1>4, <1>5
    <2>5. Len(pool) = 1
      BY <1>6, <2>3, <2>4
    <2>. QED  BY <1>6, <1>7, <1>8, <2>1, <2>2, <2>5
  <1> HIDE DEF served
  <1>10. v \in Range(served) /\ (CHOOSE i \in DOMAIN served : served[i] = v) = 1
    BY <1>9 DEF Range
  <1>11. v \in DOMAIN frame
    BY <1>2 DEF Range
  <1>12. frame'[v] = 0
    BY <1>1, <1>7, <1>10, <1>11 DEF Placed
  <1>13. v \in Range(Staying(1) \o served)
    <2> DEFINE stay == Staying(1)
    <2>1. stay \in Seq(DOMAIN frame) /\ served \in Seq(Range(served))
      <3>1. served = [i \in 1 .. n |-> served[i]] /\ DOMAIN served = 1 .. n
        BY DEF served, Dequeued
      <3>. QED  BY <1>8, <3>1, StayingFacts, TableIsSeq DEF ArrayInv, Range
    <2>2. stay \in Seq(DOMAIN frame \cup Range(served))
          /\ served \in Seq(DOMAIN frame \cup Range(served))
      BY <2>1, SeqWiden
    <2> HIDE DEF stay
    <2>3. Range(stay \o served) = Range(stay) \cup Range(served)
      BY <2>2, ConcatFacts
    <2>. QED  BY <1>10, <2>3 DEF stay
  <1>. QED  BY <1>1, <1>12, <1>13

-----------------------------------------------------------------------------
(* The steps keep the arrays in order.                                     *)

\* The page a settling handler loads is a page.
LEMMA SettlesOnPage ==
    ASSUME ScrollTypes
    PROVE  PageAt(offset) \in Pages /\ 0 \in Pages
  BY HalfPagesAreIntegers, PageAtIsPage, TotalPagesAssumption DEF ScrollTypes, Pages

\* Every step either leaves the arrays alone or loads a page.
LEMMA StepsLoad ==
    ASSUME ScrollTypes, [Next]_vars
    PROVE  UNCHANGED containerVars \/ \E p \in Pages : LoadPage(p)
  <1>1. PageAt(offset) \in Pages /\ 0 \in Pages
    BY SettlesOnPage
  <1>2. CASE ViewDidLoad
    BY <1>1, <1>2 DEF ViewDidLoad
  <1>3. CASE DidEndDecelerating \/ DidEndScrollingAnimation
    BY <1>1, <1>3 DEF DidEndDecelerating, DidEndScrollingAnimation, Settle
  <1>4. CASE (\E i \in Pages : TapTitle(i)) \/ Glide \/ BeginDrag \/ Drag
    BY <1>4 DEF TapTitle, Glide, BeginDrag, Drag
  <1>5. CASE \E velocity \in {-1, 0, 1} : WillEndDragging(velocity)
    BY <1>5 DEF WillEndDragging, DirectionOf
  <1>6. CASE UNCHANGED vars
    BY <1>6 DEF vars
  <1>. QED  BY <1>2, <1>3, <1>4, <1>5, <1>6 DEF Next

\* At first there is no controller.
LEMMA InitArrays == Init => ArrayInv
  <1> SUFFICES ASSUME Init PROVE ArrayInv
    OBVIOUS
  <1>1. /\ \A T : <<>> \in Seq(T)
        /\ DOMAIN <<>> = {} /\ Range(<<>>) = {} /\ Len(<<>>) = 0
        /\ IsInjective(<<>>)
    BY DEF Range, IsInjective
  <1>. QED  BY <1>1 DEF Init, ArrayInv, ArrayTypes, WindowIsServed, FewControllers

\* Every step keeps the arrays in order.
LEMMA NextArrays ==
    ASSUME ArrayInv, ScrollTypes, [Next]_vars
    PROVE  ArrayInv'
  <1>1. CASE UNCHANGED containerVars
    BY <1>1, IdleArrays
  <1>. QED  BY <1>1, StepsLoad, LoadKeepsArrays

\* The invariants of the scroll view and of the arrays.
LEMMA ArraysStayInOrder == Spec => [](ArrayInv /\ TitleInv)
  <1>1. TitleInv => ScrollTypes
    BY DEF TitleInv
  <1>2. TitleInv /\ ArrayInv /\ [Next]_vars => ArrayInv'
    BY <1>1, NextArrays
  <1>3. TitleInv /\ [Next]_vars => TitleInv'
    BY NextTitle
  <1>. QED  BY <1>2, <1>3, InitArrays, InitTitle, PTL DEF Spec

\* The direction of the last drag.
DirectionType == direction \in {"left", "right"}

\* A drag ends to the left or to the right.
LEMMA DirectionIsKnown == Spec => []DirectionType
  <1>1. Init => DirectionType
    BY DEF Init, DirectionType
  <1>2. DirectionType /\ [Next]_vars => DirectionType'
    BY DEF DirectionType, Next, vars, ViewDidLoad, DidEndDecelerating,
           DidEndScrollingAnimation, Settle, TapTitle, Glide, BeginDrag, Drag,
           WillEndDragging, DirectionOf
  <1>. QED  BY <1>1, <1>2, PTL DEF Spec

\* Type correctness of the container: for any number of pages and any mixture
\* of drags and taps, every controller is in exactly one of the two arrays,
\* once, has the frame of an existing page, and every index handed to the
\* title bar or to the channel list is that of a page.
THEOREM ContainerTypes == Spec => []TypeOK
  <1>1. ArrayInv /\ TitleInv /\ DirectionType => TypeOK
    <2> SUFFICES ASSUME ArrayInv, TitleInv, DirectionType
                 PROVE  TypeOK
      OBVIOUS
    <2>1. Range(frame) \subseteq Pages
      BY DEF ArrayInv, ArrayTypes, Range
    <2>. QED  BY <2>1 DEF ArrayInv, ArrayTypes, TitleInv, ScrollTypes, DirectionType, TypeOK
  <1>. QED  BY <1>1, ArraysStayInOrder, DirectionIsKnown, PTL

-----------------------------------------------------------------------------
(* The arrays implement the pool.                                          *)

\* Where the pool's controllers are in the arrays.
PlaceIsRight ==
    /\ place \in [1 .. MaxControllers -> Pages \cup {-1, -2}]
    /\ \A v \in 1 .. MaxControllers :
          /\ place[v] = -2 <=> v \notin DOMAIN frame
          /\ place[v] = -1 <=> v \in Range(reuse)
          /\ place[v] \in Pages <=> v \in Range(visible)
          /\ v \in Range(visible) => place[v] = frame[v]
    /\ Range(visible) \cup Range(reuse) = DOMAIN frame
    /\ DOMAIN frame \subseteq 1 .. MaxControllers

\* Arrays in order say where each controller is.
LEMMA ArraysPlace == ArrayInv => PlaceIsRight
  <1> SUFFICES ASSUME ArrayInv
               PROVE  PlaceIsRight
    OBVIOUS
  <1>1. /\ \A v \in DOMAIN frame : frame[v] \in Pages
        /\ Range(visible) \cup Range(reuse) = DOMAIN frame
        /\ Range(visible) \cap Range(reuse) = {}
    BY DEF ArrayInv, ArrayTypes
  <1>2. DOMAIN frame \subseteq 1 .. MaxControllers
    <2>1. DOMAIN frame = 1 .. Len(frame) /\ Len(frame) \in Nat
      BY DEF ArrayInv, ArrayTypes
    <2>. QED  BY <2>1 DEF ArrayInv, FewControllers, MaxControllers
  <1>3. -1 \notin Pages /\ -2 \notin Pages
    BY DEF Pages
  <1>. QED  BY <1>1, <1>2, <1>3 DEF place, PlaceIsRight

\* What loading a page does to the arrays is what the pool allows.
LEMMA LoadImplementsPool ==
    ASSUME PlaceIsRight, PlaceIsRight', NEW p \in Pages, currentPage # p, LoadEffect(p)
    PROVE  Pool!LoadPage(p)
  <1>1. /\ Pool!Window(p) = Near(p) /\ Pool!Pages = Pages
        /\ Near(p) \subseteq Pages
        /\ -1 \notin Pages /\ -2 \notin Pages
    BY DEF Pool!Window, Pool!Pages, Near, Pages
  <1>2. Pool!Places = Pages \cup {-1, -2}
    BY <1>1 DEF Pool!Places, Pool!Unborn, Pool!Parked
  <1>3. place' \in [1 .. MaxControllers -> Pool!Places]
    BY <1>2 DEF PlaceIsRight, Pages, MaxControllers
  <1>4. \A v \in 1 .. MaxControllers :
           /\ place'[v] = -2 <=> v \notin DOMAIN frame'
           /\ place'[v] = -1 <=> v \in Range(reuse')
           /\ place'[v] \in Pages <=> v \in Range(visible')
           /\ v \in Range(visible') => place'[v] = frame'[v]
    BY DEF PlaceIsRight, Pages, MaxControllers
  <1>5. /\ Range(visible') \subseteq 1 .. MaxControllers
        /\ DOMAIN frame' \subseteq 1 .. MaxControllers
    BY DEF PlaceIsRight, MaxControllers
  <1>6. \A v \in Pool!Stay(p) : place'[v] = place[v]
    <2> SUFFICES ASSUME NEW v \in 1 .. MaxControllers, place[v] \in Near(p) \ {0}
                 PROVE  place'[v] = place[v]
      BY <1>1 DEF Pool!Stay
    <2>1. v \in Range(visible) /\ place[v] = frame[v]
      BY <1>1 DEF PlaceIsRight
    <2>2. v \in Keeps(p)
      BY <2>1 DEF Keeps
    <2>. QED  BY <1>4, <2>1, <2>2 DEF LoadEffect
  <1>7. \A v \in Range(visible') : frame'[v] \in Near(p)
    BY DEF LoadEffect, PagesOf
  <1>8. \A q \in Near(p) : \E v \in Range(visible') : frame'[v] = q
    BY DEF LoadEffect, PagesOf
  <1>9. Pool!Clears(p)
    BY <1>1, <1>4, <1>7 DEF Pool!Clears
  <1>10. Pool!Fills(p)
    BY <1>1, <1>4, <1>5, <1>8 DEF Pool!Fills
  <1>11. Pool!Exclusive(p)
    BY <1>1, <1>4 DEF Pool!Exclusive, LoadEffect
  <1>12. Pool!ReusesFirst(p)
    <2>1. \A v \in Pool!Available(p) : place'[v] # -2
      BY <1>4 DEF Pool!Available, Pool!Unborn, PlaceIsRight, LoadEffect
    <2>2. \A v \in 1 .. MaxControllers : place[v] = -2 => place'[v] # -1
      BY <1>4 DEF PlaceIsRight, LoadEffect
    <2>3. ASSUME NEW n \in 1 .. MaxControllers, place[n] = -2, place'[n] # -2
          PROVE  \A v \in 1 .. MaxControllers : place'[v] # -1
      <3>1. n \in DOMAIN frame' /\ n \notin DOMAIN frame
        BY <1>4, <2>3 DEF PlaceIsRight
      <3>2. reuse' = <<>>
        BY <3>1 DEF LoadEffect
      <3>3. Range(reuse') = {}
        BY <3>2 DEF Range
      <3>. QED  BY <1>4, <3>3
    <2>. QED  BY <2>1, <2>2, <2>3 DEF Pool!ReusesFirst, Pool!Unborn, Pool!Parked
  <1>. QED  BY <1>3, <1>6, <1>9, <1>10, <1>11, <1>12 DEF Pool!LoadPage, LoadEffect

\* Every step of the container is one of the pool, or leaves the pool alone.
LEMMA StepImplementsPool ==
    ASSUME ArrayInv, PlaceIsRight, PlaceIsRight', ScrollTypes, [Next]_vars
    PROVE  [Pool!Next]_Pool!vars
  <1>1. CASE UNCHANGED containerVars
    <2>1. place' = place
      BY <1>1 DEF containerVars, place, MaxControllers
    <2>. QED  BY <1>1, <2>1 DEF containerVars, Pool!vars
  <1>2. ASSUME NEW p \in Pages, LoadPage(p), ~ UNCHANGED containerVars
        PROVE  Pool!Next
    <2>1. currentPage # p
      BY <1>2 DEF LoadPage
    <2>2. LoadEffect(p)
      BY <1>2, <2>1, LoadPageEffect DEF ArrayInv
    <2>3. Pool!LoadPage(p)
      BY <2>1, <2>2, LoadImplementsPool
    <2>. QED  BY <2>3 DEF Pool!Next, Pool!Pages, Pages
  <1>. QED  BY <1>1, <1>2, StepsLoad

\* The two arrays of the container implement the pool of PagePool.tla: every
\* load parks, reuses and creates as the pool allows.
THEOREM ArraysImplementPool == Spec => ImplementsPool
  <1>1. Init => Pool!Init
    BY DEF Init, Pool!Init, place, Pool!Unborn
  <1>3. TitleInv => ScrollTypes
    BY DEF TitleInv
  <1>4. ArrayInv /\ PlaceIsRight /\ PlaceIsRight' /\ TitleInv /\ [Next]_vars
          => [Pool!Next]_Pool!vars
    BY <1>3, StepImplementsPool
  <1>. QED  BY <1>1, <1>4, ArraysPlace, ArraysStayInOrder, PTL
            DEF Spec, ImplementsPool, Pool!Spec

PoolProofs == INSTANCE PagePoolProofs WITH
    NumPages <- TotalPages,
    VC       <- 1 .. MaxControllers,
    current  <- currentPage

\* Arrays that implement the pool never hold a fourth controller, for any
\* number of pages.
LEMMA PoolBoundsArrays == ImplementsPool => []AtMostThree
  <1>1. TotalPages \in Nat
    BY TotalPagesAssumption
  <1>2. PoolProofs!NumPagesAssumption
    BY <1>1 DEF PoolProofs!NumPagesAssumption
  <1>3. PoolProofs!Spec => []PoolProofs!AtMostThree
    BY <1>2, PoolProofs!ThreeSuffice
  <1>4. Pool!Init <=> PoolProofs!Init
    BY DEF Pool!Init, PoolProofs!Init, Pool!Unborn, PoolProofs!Unborn
  <1>5. [Pool!Next]_Pool!vars <=> [PoolProofs!Next]_PoolProofs!vars
    BY DEF Pool!Next, PoolProofs!Next, Pool!LoadPage, PoolProofs!LoadPage, Pool!Stay,
           PoolProofs!Stay, Pool!Available, PoolProofs!Available, Pool!Clears,
           PoolProofs!Clears, Pool!Fills, PoolProofs!Fills, Pool!Exclusive,
           PoolProofs!Exclusive, Pool!ReusesFirst, PoolProofs!ReusesFirst, Pool!Window,
           PoolProofs!Window, Pool!vars, PoolProofs!vars, Pool!Pages, PoolProofs!Pages,
           Pool!Places, PoolProofs!Places, Pool!Parked, PoolProofs!Parked, Pool!Unborn,
           PoolProofs!Unborn
  <1>6. AtMostThree <=> PoolProofs!AtMostThree
    BY DEF AtMostThree, Pool!IsFiniteSet, PoolProofs!IsFiniteSet, Pool!Cardinality,
           PoolProofs!Cardinality, Pool!AtMostThree, PoolProofs!AtMostThree, Pool!Born,
           PoolProofs!Born, Pool!Unborn, PoolProofs!Unborn
  <1>. QED  BY <1>3, <1>4, <1>5, <1>6, PTL DEF ImplementsPool, Pool!Spec, PoolProofs!Spec

\* The container never asks for a fourth list controller, for any number of
\* pages and any jumps between them.
THEOREM NeverAFourth == Spec => []AtMostThree
  BY ArraysImplementPool, PoolBoundsArrays, PTL

-----------------------------------------------------------------------------
(* The delegate.                                                           *)

\* The last element of what is kept, if anything is.
LEMMA LastFacts ==
    ASSUME NEW T, NEW s \in Seq(T)
    PROVE  /\ LastOf(s) \subseteq Range(s)
           /\ \A x, y \in LastOf(s) : x = y
           /\ Range(s) # {} => LastOf(s) # {}
  <1>1. CASE s = <<>>
    BY <1>1 DEF LastOf, Range
  <1>2. CASE s # <<>>
    <2>1. Len(s) \in DOMAIN s
      BY <1>2
    <2>. QED  BY <1>2, <2>1 DEF LastOf, Last, Range
  <1>. QED  BY <1>1, <1>2

\* The content is on the page loaded last.
OnItsPage ==
    /\ ArrayInv /\ DirectionType
    /\ currentPage \in Pages /\ offset = 2 * currentPage

\* The container at rest on a page it has loaded, other than the first.
Settled == OnItsPage /\ ScrollTypes /\ currentPage # 0

\* The neighbour on the side of the last drag.
Side == IF direction = "left" THEN currentPage - 1 ELSE currentPage + 1

\* The controllers shown or asked for are those of the page and of its
\* neighbour.
LEMMA NeighboursByFrame ==
    ASSUME OnItsPage
    PROVE  /\ OnScreen \in Seq(DOMAIN frame) /\ OnScreen # <<>>
           /\ Head(OnScreen) \in Range(visible) /\ frame[Head(OnScreen)] = currentPage
           /\ PreLoads(Head(OnScreen)) \subseteq Range(visible)
           /\ PagesOf(PreLoads(Head(OnScreen))) = {Side} \cap Pages
           /\ \A v, w \in PreLoads(Head(OnScreen)) : v = w
  <1>1. /\ visible \in Seq(DOMAIN frame)
        /\ \A v \in Range(visible) : frame[v] \in Near(currentPage)
        /\ \A q \in Near(currentPage) : \E v \in Range(visible) : frame[v] = q
    BY DEF OnItsPage, ArrayInv, ArrayTypes, WindowIsServed, PagesOf, Pages
  <1>2. currentPage \in Int /\ currentPage \in Near(currentPage) /\ currentPage \in Pages
    BY DEF OnItsPage, Near, Pages
  <1>3. /\ OnScreen \in Seq(DOMAIN frame)
        /\ Range(OnScreen) = {v \in Range(visible) : frame[v] = currentPage}
    <2>1. \A v \in Range(visible) : 2 * frame[v] = offset <=> frame[v] = currentPage
      BY <1>1, <1>2 DEF OnItsPage, Near
    <2>. QED  BY <1>1, <2>1, KeptFacts DEF OnScreen
  <1>4. OnScreen # <<>>
    <2>1. Range(OnScreen) # {}
      BY <1>1, <1>2, <1>3
    <2>. QED  BY <2>1 DEF Range
  <1> DEFINE vc == Head(OnScreen)
  <1>5. vc \in Range(OnScreen)
    <2>1. 1 \in DOMAIN OnScreen /\ vc = OnScreen[1]
      BY <1>3, <1>4
    <2>. QED  BY <2>1 DEF Range
  <1>6. frame[vc] = currentPage /\ vc \in Range(visible)
    BY <1>3, <1>5
  <1> DEFINE before == {v \in Range(visible) : frame[v] < frame[vc]}
             after  == {v \in Range(visible) : frame[v] > frame[vc]}
  <1>7. ASSUME NEW K, NEW q \in {currentPage - 1, currentPage + 1},
               K = {v \in Range(visible) : frame[v] = q}
        PROVE  /\ LastOf(Kept(visible, K)) \subseteq Range(visible)
               /\ PagesOf(LastOf(Kept(visible, K))) = {q} \cap Pages
               /\ \A v, w \in LastOf(Kept(visible, K)) : v = w
    <2>1. Kept(visible, K) \in Seq(DOMAIN frame) /\ Range(Kept(visible, K)) = K
      <3>1. /\ Kept(visible, K) \in Seq(DOMAIN frame)
            /\ Range(Kept(visible, K)) = Range(visible) \cap K
        BY <1>1, KeptFacts
      <3>2. K \subseteq Range(visible)
        BY <1>7
      <3>. QED  BY <3>1, <3>2
    <2>2. /\ LastOf(Kept(visible, K)) \subseteq K
          /\ \A v, w \in LastOf(Kept(visible, K)) : v = w
          /\ K # {} => LastOf(Kept(visible, K)) # {}
      BY <2>1, LastFacts
    <2>3. K # {} <=> q \in Pages
      BY <1>1, <1>2, <1>7 DEF Near
    <2>. QED  BY <1>7, <2>2, <2>3 DEF PagesOf
  <1>8. /\ before = {v \in Range(visible) : frame[v] = currentPage - 1}
        /\ after  = {v \in Range(visible) : frame[v] = currentPage + 1}
    BY <1>1, <1>2, <1>6 DEF Near
  <1>9. PreLoads(vc) = LastOf(Kept(visible, IF direction = "left" THEN before ELSE after))
    BY DEF PreLoads, BeforeVC, AfterVC
  <1> HIDE DEF before, after, vc
  <1>10. /\ PreLoads(vc) \subseteq Range(visible)
         /\ PagesOf(PreLoads(vc)) = {Side} \cap Pages
         /\ \A v, w \in PreLoads(vc) : v = w
    <2>1. CASE direction = "left"
      BY <1>7, <1>8, <1>9, <2>1 DEF Side
    <2>2. CASE direction # "left"
      BY SMTT(30), <1>7, <1>8, <1>9, <2>2 DEF Side
    <2>. QED  BY <2>1, <2>2
  <1>. QED  BY <1>3, <1>4, <1>6, <1>10 DEF vc

\* The calls of a handler that has settled on a page.
CallsAreRight ==
    LET calls == SettleCalls
    IN  /\ calls # <<>>
        /\ Last(calls).to = "DidChange"
        /\ Last(calls).page = currentPage /\ frame[Last(calls).vc] = currentPage
        /\ {c.page : c \in {d \in Range(calls) : d.to = "PreLoad"}} = {Side} \cap Pages

\* The calls of the delegate: the neighbour on the side of the last drag, and
\* the controller of the page.
Ask == {[to |-> "PreLoad", vc |-> v, page |-> frame[v]] : v \in PreLoads(Head(OnScreen))}
Tell == [to |-> "DidChange", vc |-> Head(OnScreen), page |-> currentPage]

\* A handler's calls are those, the one about the page itself last.
LEMMA DelegateCallsAre ==
    ASSUME OnItsPage
    PROVE  LET calls == DelegateCalls(currentPage)
           IN  /\ calls \in Seq(Ask \cup {Tell}) /\ Range(calls) = Ask \cup {Tell}
               /\ calls # <<>> /\ Last(calls) = Tell
  <1> DEFINE asks  == SetToSeq(Ask)
             calls == asks \o <<Tell>>
  <1>1. OnScreen # <<>> /\ \A v, w \in PreLoads(Head(OnScreen)) : v = w
    BY NeighboursByFrame
  <1>2. DelegateCalls(currentPage) = calls
    BY <1>1 DEF DelegateCalls, Ask, Tell
  <1>3. asks \in Seq(Ask) /\ Range(asks) = Ask
    <2>1. \A x, y \in Ask : x = y
      BY <1>1 DEF Ask
    <2>. QED  BY <2>1, SetToSeqFacts
  <1>4. /\ calls \in Seq(Ask \cup {Tell}) /\ Range(calls) = Ask \cup {Tell}
    <2> DEFINE last == <<Tell>>
    <2>1. last \in Seq(Ask \cup {Tell}) /\ Range(last) = {Tell}
      BY DEF Range
    <2>2. asks \in Seq(Ask \cup {Tell})
      BY <1>3, SeqWiden
    <2> HIDE DEF asks, last
    <2>3. /\ asks \o last \in Seq(Ask \cup {Tell})
          /\ Range(asks \o last) = Range(asks) \cup Range(last)
      BY <2>1, <2>2, ConcatFacts
    <2>. QED  BY <1>3, <2>1, <2>3 DEF last
  <1>5. calls # <<>> /\ Last(calls) = Tell
    <2>1. /\ Len(asks) \in Nat /\ Len(calls) = Len(asks) + 1 /\ calls[Len(asks) + 1] = Tell
      <3> HIDE DEF asks
      <3>. QED  BY <1>3
    <2> HIDE DEF calls
    <2>. QED  BY <2>1 DEF Last
  <1> HIDE DEF calls
  <1>. QED  BY <1>2, <1>4, <1>5

\* The pages asked for are those of the neighbour.
LEMMA AskedPages ==
    /\ {c.page : c \in Ask} = PagesOf(PreLoads(Head(OnScreen)))
    /\ \A c \in Ask : c.to = "PreLoad"
  <1>1. \A c \in Ask : c.to = "PreLoad" /\ \E v \in PreLoads(Head(OnScreen)) : c.page = frame[v]
    BY DEF Ask
  <1>2. \A v \in PreLoads(Head(OnScreen)) : \E c \in Ask : c.page = frame[v]
    <2>1. \A v \in PreLoads(Head(OnScreen)) :
             LET c == [to |-> "PreLoad", vc |-> v, page |-> frame[v]]
             IN  c \in Ask /\ c.page = frame[v]
      BY DEF Ask
    <2>. QED  BY <2>1
  <1>. QED  BY <1>1, <1>2 DEF PagesOf

\* The delegate hears of the page that settled, and of its neighbour.
LEMMA DelegateIsTold == Settled => CallsAreRight
  <1> SUFFICES ASSUME Settled
               PROVE  CallsAreRight
    OBVIOUS
  <1> DEFINE calls == DelegateCalls(currentPage)
  <1>0. OnItsPage
    BY DEF Settled
  <1>1. /\ frame[Head(OnScreen)] = currentPage
        /\ PagesOf(PreLoads(Head(OnScreen))) = {Side} \cap Pages
    BY <1>0, NeighboursByFrame
  <1>2. SettleCalls = calls
    <2>1. /\ currentPage \in Int /\ 0 < currentPage /\ currentPage < TotalPages
          /\ currentPage \in Pages /\ offset = 2 * currentPage
      BY TotalPagesAssumption DEF Settled, OnItsPage, Pages
    <2>2. Handles(offset)
      BY <2>1, TotalPagesAssumption DEF Handles
    <2>3. PageAt(offset) = currentPage
      <3>1. offset \in Int /\ currentPage \in Pages /\ offset = 2 * currentPage
        BY <2>1
      <3>. QED  BY <3>1, PageAtIsPage
    <2>. QED  BY <2>2, <2>3 DEF SettleCalls
  <1>3. /\ Range(calls) = Ask \cup {Tell} /\ calls # <<>> /\ Last(calls) = Tell
    BY <1>0, DelegateCallsAre
  <1>4. Tell.to = "DidChange" /\ Tell.page = currentPage /\ frame[Tell.vc] = currentPage
    BY <1>1 DEF Tell
  <1> HIDE DEF calls
  <1>5. {d \in Range(calls) : d.to = "PreLoad"} = Ask
    BY <1>3, <1>4, AskedPages
  <1>6. {c.page : c \in {d \in Range(calls) : d.to = "PreLoad"}} = {Side} \cap Pages
    BY <1>1, <1>5, AskedPages
  <1>. QED  BY <1>2, <1>3, <1>4, <1>6 DEF CallsAreRight

\* Every call names a controller on screen or next to it and its page; the
\* page itself is reported, and the neighbour asked for.
LEMMA CallsNamePages ==
    ASSUME OnItsPage
    PROVE  LET calls == DelegateCalls(currentPage)
           IN  /\ calls \in Seq(Range(calls))
               /\ \A d \in Range(calls) :
                     /\ d.to \in {"PreLoad", "DidChange"}
                     /\ d.vc \in Range(visible) /\ d.page = frame[d.vc]
               /\ \E d \in Range(calls) : d.to = "DidChange" /\ d.page = currentPage
               /\ Side \in Pages =>
                     \E d \in Range(calls) : d.to = "PreLoad" /\ d.page = Side
  <1> DEFINE calls == DelegateCalls(currentPage)
  <1>1. calls \in Seq(Range(calls)) /\ Range(calls) = Ask \cup {Tell}
    BY DelegateCallsAre
  <1>2. /\ Head(OnScreen) \in Range(visible) /\ frame[Head(OnScreen)] = currentPage
        /\ PreLoads(Head(OnScreen)) \subseteq Range(visible)
        /\ PagesOf(PreLoads(Head(OnScreen))) = {Side} \cap Pages
    BY NeighboursByFrame
  <1>3. \A d \in Ask : d.to = "PreLoad" /\ d.vc \in Range(visible) /\ d.page = frame[d.vc]
    BY <1>2 DEF Ask
  <1>4. /\ Tell.to = "DidChange" /\ Tell.page = currentPage
        /\ Tell.vc \in Range(visible) /\ frame[Tell.vc] = currentPage
    BY <1>2 DEF Tell
  <1>5. Side \in Pages => \E d \in Ask : d.page = Side
    <2>1. Side \in Pages => Side \in {c.page : c \in Ask}
      BY <1>2, AskedPages
    <2>. QED  BY <2>1
  <1> HIDE DEF calls
  <1>. QED  BY <1>1, <1>3, <1>4, <1>5 DEF calls

\* A handler that runs past page 0 settles on a page.
LEMMA HandlersSettle ==
    ASSUME ArrayInv', ScrollTypes, ScrollTypes', DirectionType',
           DidEndDecelerating \/ DidEndScrollingAnimation, offset > 0
    PROVE  /\ Settled' /\ currentPage' = offset \div 2
           /\ offset' = offset /\ direction' = direction
  <1>1. target \in Pages /\ target \in Int /\ offset = 2 * target
    BY DEF ScrollTypes, Pages, DidEndDecelerating, DidEndScrollingAnimation
  <1>2. PageAt(offset) = target /\ offset \div 2 = target /\ target # 0
    <2>1. PageAt(offset) = target
      BY <1>1, PageAtIsPage
    <2>. QED  BY <1>1, <2>1
  <1>3. Handles(offset)
    BY <1>1, TotalPagesAssumption DEF Handles, Pages
  <1>4. Settle
    BY DEF DidEndDecelerating, DidEndScrollingAnimation
  <1>5. LoadPage(target) /\ UNCHANGED <<direction, offset>>
    BY <1>2, <1>3, <1>4 DEF Settle
  <1>6. currentPage' = target
    BY <1>5 DEF LoadPage, containerVars
  <1>. QED  BY <1>1, <1>2, <1>5, <1>6 DEF Settled, OnItsPage, Pages

\* A handler that runs past page 0 reports the controller on the page that
\* settled, and asks for its neighbour in the direction of the last drag.
THEOREM SettlingIsReported == Spec => SettleReachesDelegate
  <1> DEFINE Reported ==
                 (DidEndDecelerating \/ DidEndScrollingAnimation) /\ offset > 0 =>
                     LET calls == SettleCalls'
                         p     == offset \div 2
                         side  == IF direction = "left" THEN p - 1 ELSE p + 1
                     IN  /\ calls # <<>>
                         /\ Last(calls).to = "DidChange"
                         /\ Last(calls).page = p /\ frame'[Last(calls).vc] = p
                         /\ {c.page : c \in {d \in Range(calls) : d.to = "PreLoad"}}
                              = {side} \cap Pages
  <1>1. /\ ArrayInv' /\ TitleInv /\ TitleInv' /\ DirectionType'
        /\ (Settled' => CallsAreRight')
        => Reported
    <2> SUFFICES ASSUME ArrayInv', TitleInv, TitleInv', DirectionType',
                        Settled' => CallsAreRight',
                        DidEndDecelerating \/ DidEndScrollingAnimation, offset > 0
                 PROVE  Reported
      OBVIOUS
    <2>1. ScrollTypes /\ ScrollTypes'
      BY DEF TitleInv
    <2>2. /\ Settled' /\ currentPage' = offset \div 2
          /\ offset' = offset /\ direction' = direction
      BY <2>1, HandlersSettle
    <2>3. CallsAreRight'
      BY <2>2
    <2>4. Side' = IF direction = "left" THEN offset \div 2 - 1 ELSE offset \div 2 + 1
      BY <2>2 DEF Side
    <2>. QED  BY <2>2, <2>3, <2>4 DEF CallsAreRight, Pages
  <1>2. SettleReachesDelegate <=> [][Reported]_vars
    BY DEF SettleReachesDelegate
  <1> HIDE DEF Reported
  <1>. QED  BY <1>1, <1>2, DelegateIsTold, ArraysStayInOrder, DirectionIsKnown, PTL DEF Spec
=============================================================================
