--------------------------- MODULE MCForthDriver ---------------------------
(* Command lines with up to three inputs, and starter files, for TLC. *)
EXTENDS ForthDriver

MCCommandLines ==
  {<<0>>, <<2>>, <<MISSING, 1>>, <<2, 1>>, <<1, 2, 0>>, <<2, MISSING, 2>>, <<0, 1, 1>>}

MCStarters == {<<MISSING, 1>>, <<0, 1>>, <<2, 1>>}
=============================================================================
