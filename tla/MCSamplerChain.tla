--------------------------- MODULE MCSamplerChain ---------------------------
(***************************************************************************)
(* Every configuration with each knob on either side of the condition the *)
(* code tests on it: temp <= 0 or not, each optional stage on or off,      *)
(* mirostat 0, 1, 2 and an out-of-range 3, and the three grammar cases.    *)
(***************************************************************************)
EXTENDS SamplerChain

MCConfigs ==
  [temp : {0, 80}, dry_multiplier : {0, 80}, repeat_penalty : {100, 110},
   frequency_penalty : {0, 10}, presence_penalty : {0},
   mirostat : {0, 1, 2, 3}, top_n_sigma : {0, 100}, typical_p : {50, 100},
   min_p : {0, 5}, xtc_probability : {0, 10}, grammar : Grammars]

=============================================================================
