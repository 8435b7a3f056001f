------------------------------ MODULE MCPosting ------------------------------
(* Two writes the daemon takes and one it refuses, over three starts of it. *)
EXTENDS Posting

CONSTANTS w1, w2, w3
=============================================================================
