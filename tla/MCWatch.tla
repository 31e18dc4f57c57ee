------------------------------- MODULE MCWatch -------------------------------
(***************************************************************************)
(* Small instances of Watch for TLC.                                       *)
(***************************************************************************)
EXTENDS Watch

CONSTANTS j1, l1, l2, e1, e2

OneJob      == {j1}
OneListing  == {l1}
TwoListings == {l1, l2}
TwoEntries  == {e1, e2}
List        == <<e1, e2>>

\* The job polls the market of all listings.
WholeMarket == [j \in Jobs |-> Listings]

\* SomeFit: both listings fit the second entry, only the first fits the first;
\* FitsBoth: the first listing fits both entries, the second fits none.
SomeFit    == {<<l1, e1>>, <<l1, e2>>, <<l2, e2>>}
FitsBoth   == {<<l1, e1>>, <<l1, e2>>}
FitsSecond == {<<l1, e2>>}
NoPair     == {}
==============================================================================
