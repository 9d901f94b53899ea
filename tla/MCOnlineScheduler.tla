-------------------------- MODULE MCOnlineScheduler --------------------------
(* OnlineScheduler with two tracks; the bounds are in the .cfg files.        *)
EXTENDS OnlineScheduler

TwoCaps == {"tags", "artwork"}
EverythingOrTags == {TwoCaps, {"tags"}}
BothForArtwork ==
    {[tracks |-> <<1, 2>>, caps |-> {"artwork"}], [tracks |-> <<2>>, caps |-> {"tags"}]}
=============================================================================
