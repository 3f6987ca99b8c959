---------------------------- MODULE MCErrorChan -----------------------------
(***************************************************************************)
(* ErrorChan with more publishers than its buffer holds, so that a         *)
(* publisher can be outpaced in every one of its tries.                    *)
(***************************************************************************)
EXTENDS ErrorChan, TLC

Perms == Permutations(Publishers)
=============================================================================
