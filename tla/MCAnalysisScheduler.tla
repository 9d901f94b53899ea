------------------------- MODULE MCAnalysisScheduler -------------------------
(* AnalysisScheduler with two tracks, or three; the bounds are in the .cfg   *)
(* files.                                                                    *)
EXTENDS AnalysisScheduler

TwoCaps == {"bpm", "audio"}
NothingOrBpm == {{}, {"bpm"}}
BothForAudio ==
    {[tracks |-> <<2, 1>>, caps |-> {"audio"}], [tracks |-> <<1>>, caps |-> TwoCaps]}
ThreeForAudio ==
    {[tracks |-> <<2, 3, 1>>, caps |-> {"audio"}], [tracks |-> <<1>>, caps |-> TwoCaps]}
=============================================================================
