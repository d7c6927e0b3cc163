----------------------------- MODULE MCPreview -----------------------------
(***************************************************************************)
(* Texts of up to three pieces: layers, assignments of every shape, runes  *)
(* of two bytes, comments, strings that end or do not, words of the        *)
(* manager.                                                                *)
(***************************************************************************)
EXTENDS Preview

MCPieces ==
  { <<"(", "deflayer", " ", "base", " ", "a">>,
    <<Newline, "w1", "w2">>,
    <<" ", "(", "tap", " ", "b", ")">>,
    <<" ", Quote, ")", Quote>>,
    <<" ", Quote, Escape, Quote>>,
    <<";", ")", Newline>>,
    <<")">>,
    <<" ", "device-file">>,
    <<"(", "defcfg">> }

=============================================================================
