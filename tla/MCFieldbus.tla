----------------------------- MODULE MCFieldbus -----------------------------
(***************************************************************************)
(* Fieldbus on small instances.                                            *)
(***************************************************************************)
EXTENDS Fieldbus, TLC

\* Two ways to write one queue, and a topic of the same name.
MCNames == {<<"bare", "a">>, <<"queue", "a">>, <<"topic", "a">>}

Perms == Permutations(Callers)
=============================================================================
