------------------------------ MODULE MCReader ------------------------------
(* Reader with two channels, news of every layout and two texts.            *)
EXTENDS Reader

MCChannels == {"tech", "sport"}

\* One large image; three small ones; one small and one large image; none.
MCImageList == [large |-> NoList, three |-> <<"a", "b", "c">>, both |-> <<"b">>,
                plain |-> <<>>]
MCMiddleImage == [large |-> "a", three |-> NoImage, both |-> "b", plain |-> NoImage]

\* Ages at the turn of the minute, the hour, the day and beyond.
MCPublished == [large |-> 0, three |-> 1, both |-> -1470, plain |-> -3540]
MCClock == <<1, 61>>

MCBatches == [tech |-> {<<"large", "plain">>}, sport |-> {<<"both">>, <<"three">>}]

MCURIs == {"u1", "u2", "u3"}
MCPicture == [u1 |-> "img1", u2 |-> "img2", u3 |-> "img3"]

\* Texts with and without a header, with a placeholder in the header, in
\* front of it and behind it, twice, in another order than the images, and of
\* an image that is not among them.
T1 == <<"<a", "u1", "</a>">>
T2 == <<"<a", "u2", "</a>">>
T3 == <<"<a", "u3", "</a>">>
Header == <<"<header>">> \o T1 \o <<"text", "</header>">>
MCContents == {T1 \o T3 \o T1 \o T2, T2 \o Header \o <<"text">> \o T1}
MCImageDetails == {<<"u2", "u1">>}

\* Texts with characters of two UTF-16 units.
MCWideContents == {<<"wide">> \o T1, <<"wide">> \o T1 \o <<"text">> \o T2}
=============================================================================
