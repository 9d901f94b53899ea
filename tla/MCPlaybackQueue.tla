--------------------------- MODULE MCPlaybackQueue ---------------------------
(* PlaybackQueue with small libraries.                                     *)
EXTENDS PlaybackQueue

LibraryOfTwo   == <<1, 2>>
LibraryOfThree == <<1, 2, 3>>
ListsOfTwo     == {<<2, 1>>}
ListsOfThree   == {<<2, 1>>}
=============================================================================
