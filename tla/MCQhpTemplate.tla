---------------------------- MODULE MCQhpTemplate ----------------------------
(* QhpTemplate on templates around the length of boost.qhpsrc. *)
EXTENDS QhpTemplate
=============================================================================
