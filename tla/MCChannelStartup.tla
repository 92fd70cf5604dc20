-------------------------- MODULE MCChannelStartup --------------------------
(* ChannelStartup with the lists that the two filters tell apart: one that  *)
(* only the first launch shows in full, one without hidden categories, and  *)
(* one of which the local filter leaves nothing.                            *)
EXTENDS ChannelStartup

MCServerLists == {{"news_hot", "tech", "video"}, {"tech", "sport"}, {"news_local"}}
=============================================================================
