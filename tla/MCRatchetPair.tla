---------------------------- MODULE MCRatchetPair ----------------------------
(* Instances of RatchetPair for TLC; the bounds are in the .cfg files.      *)
EXTENDS RatchetPair
=============================================================================
