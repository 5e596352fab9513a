-------------------------- MODULE MCGenerationLoop --------------------------
(***************************************************************************)
(* A small instance of GenerationLoop: a context of 8 tokens, batches of 2 *)
(* tokens, three token ids, and prompts chosen so that every branch of the *)
(* loop happens: an empty prompt (BOS fallback), a one-token prompt, a     *)
(* four-token prompt that fills the context before the budget of 6 runs   *)
(* out (the context shift), a prompt with an end-of-generation token at a  *)
(* batch boundary, and a prompt too long for the context.  Two calls share *)
(* the runtime context, so the second starts with the first one's cells.   *)
(***************************************************************************)
EXTENDS GenerationLoop

CONSTANTS a, b, eog

MCTokens == {a, b, eog}

\* a renders as "x", b as the two characters "xy", eog as "z".
MCPiece == [t \in MCTokens |-> IF t = a THEN <<"x">>
                               ELSE IF t = b THEN <<"x", "y">> ELSE <<"z">>]

MCChars == {"x", "y", "z"}

MCAntiprompts == << <<"x", "y">> >>

MCPrompts == {<<>>, <<a>>, <<a, eog, a>>, <<b, a, b, a>>, <<a, a, a, a, a>>}

=============================================================================
