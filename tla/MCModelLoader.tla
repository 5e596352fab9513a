--------------------------- MODULE MCModelLoader ----------------------------
(***************************************************************************)
(* An array of two slots, splits of zero to three ratios (three overflows *)
(* the array) and three calls of load_model: enough for a later call to   *)
(* pass a shorter split than an earlier one.                               *)
(***************************************************************************)
EXTENDS ModelLoader

MCRatios == {1, 2}

MCSplits == {<<>>, <<1>>, <<2, 1>>, <<1, 2, 1>>}

=============================================================================
