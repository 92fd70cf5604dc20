----------------------------- MODULE DetailText -----------------------------
(***************************************************************************)
(* DetailVC.loadHtml and replaceAllImgTag: the text of a news with its     *)
(* <a> placeholders replaced by images.                                    *)
(*                                                                         *)
(* A text is a sequence of characters.  A placeholder tag is three of      *)
(* them: "<a", the URI its href holds, and "</a>".  "wide" is a Character  *)
(* of two UTF-16 units, such as an emoji or a CR LF; every other character *)
(* is one unit.  NSRegularExpression counts units, String.index counts     *)
(* Characters, and the code hands the numbers of one to the other.         *)
(***************************************************************************)
EXTENDS Integers, Sequences, FiniteSets, SequencesExt

CONSTANTS
    URIs,       \* URIs of images, none of them a part of another one
    Picture     \* Picture[u]: the <img> tag of the image with URI u

Tag(u) == <<"<a", u, "</a>">>

IsTag(s) == \E u \in URIs : s = Tag(u)

-----------------------------------------------------------------------------
(* Counting.                                                               *)

\* Units before the k-th character; html.count is Len(html).
UnitsBefore(html, k) == (k - 1) + Cardinality({i \in 1 .. k - 1 : html[i] = "wide"})

-----------------------------------------------------------------------------
(* Steps of replaceAllImgTag.                                              *)

\* From <header> up to </header>, which stays.  An end tag that comes first
\* makes the range trap; contents that do are left out.
Headless(html) ==
    IF Contains(html, "<header>") /\ Contains(html, "</header>")
    THEN SubSeq(html, 1, SelectInSeq(html, LAMBDA c : c = "<header>") - 1)
         \o SubSeq(html, SelectInSeq(html, LAMBDA c : c = "</header>"), Len(html))
    ELSE html

\* The matches: tags that end within the first html.count units.
Matches(html) ==
    {k \in 1 .. Len(html) - 2 :
        /\ IsTag(SubSeq(html, k, k + 2))
        /\ UnitsBefore(html, k) + 3 <= Len(html)}

\* A match at a unit is cut out as if the unit were a Character.
CutAt(html, units) == SubSeq(html, units + 1, units + 3)

aTags(html) ==
    LET starts == SetToSortSeq(Matches(html), <)
    IN  [i \in DOMAIN starts |-> CutAt(html, UnitsBefore(html, starts[i]))]

\* replacingOccurrences(of: tag, with: new), from left to right.
ReplacingOccurrences(html, tag, new) ==
    LET rest[k \in 1 .. Len(html) + 3] ==
            IF k > Len(html) THEN <<>>
            ELSE IF k + Len(tag) - 1 <= Len(html) /\ SubSeq(html, k, k + Len(tag) - 1) = tag
            THEN <<new>> \o rest[k + Len(tag)]
            ELSE <<html[k]>> \o rest[k + 1]
    IN  rest[1]

ReplaceTag(html, tag, uri) ==
    IF Contains(tag, uri) THEN ReplacingOccurrences(html, tag, Picture[uri]) ELSE html

\* For every image, for every tag: the tags are those of the text before
\* the first replacement.
ReplaceTags(html, tags, images) ==
    FoldLeft(LAMBDA h, u : FoldLeft(LAMBDA g, t : ReplaceTag(g, t, u), h, tags),
             html, images)

\* loadHtml: title, content and the end of the document.
Document(content) == <<"title">> \o content \o <<"</html>">>

\* What the web view is given.
Rewritten(content, images) ==
    LET html == Headless(Document(content))
    IN  ReplaceTags(html, aTags(html), images)

-----------------------------------------------------------------------------
(* What the text should look like: every placeholder of a known image is   *)
(* its picture, and everything else is as it was.                          *)

\* The header, which is found by its first tag and the first end tag.
InHeader(content, k) ==
    /\ \E i \in 1 .. k : content[i] = "<header>"
    /\ \A i \in 1 .. k : content[i] # "</header>"
    /\ \E i \in k .. Len(content) : content[i] = "</header>"

Unpacked(html) == SelectSeq(html, LAMBDA c : c \notin {"<a", "</a>"})

Kept(content) ==
    LET marked == [k \in DOMAIN content |-> IF InHeader(content, k) THEN "" ELSE content[k]]
    IN  SelectSeq(marked, LAMBDA c : c # "")

Expected(content, images) ==
    LET text == Unpacked(Kept(content))
    IN  Document([k \in DOMAIN text |->
                     IF Contains(images, text[k]) THEN Picture[text[k]] ELSE text[k]])
=============================================================================
