----------------------------- MODULE MCFraming -----------------------------
(***************************************************************************)
(* Requests for module Framing, for bytes of one bit (Base = 2): lengths   *)
(* are below 16, and below 8 after the conversion to int.                  *)
(***************************************************************************)
EXTENDS Framing

\* The length prefix is told apart from the text, and texts from each other.
ShortRequests == {<<>>, <<1, 0, 1>>, <<0, 0, 0, 1, 1>>, <<1, 1, 1, 1, 0, 1, 1>>}
=============================================================================
