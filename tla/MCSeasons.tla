------------------------------- MODULE MCSeasons -------------------------------
(* Small instances of Seasons for TLC. *)
EXTENDS Seasons, TLC

CONSTANTS old, abroad, ada

\* Two accounts from before the first season, and one signup.
OldAndNew  == {old, abroad, ada}
OldAbroad  == {old, abroad}
JustAbroad == {abroad}
=============================================================================
