----------------------------- MODULE MCConsole ------------------------------
(***************************************************************************)
(* A screen of three lines of two characters, which scrolls from the       *)
(* seventh on or at a third line end, and a buffer that grows by two:      *)
(* pieces of one and two characters make it grow up to three times, and a  *)
(* refusal may come at each growth.                                        *)
(***************************************************************************)
EXTENDS Console

MCPieces == {<<"a">>, <<"nl">>, <<"hi", "b">>}
MCComplaint == <<"e", "e">>
=============================================================================
