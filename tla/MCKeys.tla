------------------------------- MODULE MCKeys -------------------------------
(* Two keys of one player, one of the other and one that only counts as a  *)
(* key code; a report with room for two.                                   *)
EXTENDS Keys

=============================================================================
