--------------------------- MODULE MCWindowLayout ---------------------------
(* Instances of WindowLayout for TLC. *)
EXTENDS WindowLayout, TLC

CONSTANTS vu, lufs, scope, s1, s2, s3

\* Visualizers are alike, and so are addresses: whichever free one a new
\* splitter gets, the results differ by a renaming.
Symmetry == Permutations(Visualizers) \cup Permutations(Splitters)
=============================================================================
