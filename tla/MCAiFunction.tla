---------------------------- MODULE MCAiFunction ----------------------------
(***************************************************************************)
(* The small instance of AiFunction.                                        *)
(***************************************************************************)
EXTENDS AiFunction

\* One coordinate before the picture, one inside it and one beyond it.
MCPoints == {<<1, 3>>, <<-1, 1>>}
=============================================================================
