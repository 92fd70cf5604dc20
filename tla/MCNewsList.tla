----------------------------- MODULE MCNewsList -----------------------------
(* NewsList with two controllers and two channels: enough for a controller  *)
(* to be reused for another channel and for two controllers to load the     *)
(* same channel at once.                                                    *)
EXTENDS NewsList, TLC

CONSTANTS v1, v2, tech, sport

MCVC == {v1, v2}
MCChannels == {tech, sport}

Interchangeable == Permutations(MCVC) \cup Permutations(MCChannels)
=============================================================================
