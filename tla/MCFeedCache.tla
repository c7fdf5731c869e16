---------------------------- MODULE MCFeedCache -----------------------------
(* One feed with a cache file of its own; or two feeds whose domains name  *)
(* the same cachePath, as the defaults do.                                 *)
EXTENDS FeedCache, TLC

CONSTANTS u1, u2, shared

OneUrl == {u1}
TwoUrls == {u1, u2}
OwnFile == [u \in OneUrl |-> u]
SharedFile == [u \in TwoUrls |-> shared]

\* Slots and versions are interchangeable, and no property is temporal.
Symmetry == Permutations(Task) \union Permutations(Version)
=============================================================================
