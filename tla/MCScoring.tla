----------------------------- MODULE MCScoring -----------------------------
(* An instance of Scoring for TLC. *)
EXTENDS Scoring

\* Negative numbers have no form in a configuration file.
Scores  == <<{-11, 1}, {-11, -3}, {-11, -9}>>
Default == -11
=============================================================================
