---------------------------------- MODULE Sage ----------------------------------
(***************************************************************************)
(* What every component shares: an absent value (nil, a missing map entry, *)
(* a key that does not exist).                                             *)
(***************************************************************************)

CONSTANT None
=============================================================================
