---------------------------- MODULE MCLearning ----------------------------
(* Two horizons, fits from one row, a buffer of two rows, a model that is  *)
(* old after one day.                                                      *)
EXTENDS Learning
MCHorizons == {1, 2}
=============================================================================
