--------------------------- MODULE MCRewriteLinks ---------------------------
(* RewriteLinks on a few files; the files are interchangeable. *)
EXTENDS RewriteLinks, TLC

ItemSymmetry == Permutations(Items)
=============================================================================
