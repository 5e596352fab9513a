---------------------------- MODULE SamplerChain ----------------------------
(***************************************************************************)
(* The sampler chain that llama_predict builds from binding_params before *)
(* its loop (src/pkg/llama.cpp/llama.cpp): an ordered sequence of stages,  *)
(* each named after the llama_sampler_init_* call that makes it.  A       *)
(* configuration keeps only what the code's conditions read; the sampling  *)
(* knobs are integers in hundredths (temp 80 is 0.80), the grammar is one  *)
(* of "none" (empty string), "valid" or "invalid" (a string that           *)
(* llama_sampler_init_grammar cannot parse and answers with nullptr).      *)
(*                                                                         *)
(* Each call of llama_predict builds a fresh chain once, before its loop: *)
(* a behaviour is one construction from a configuration.                   *)
(***************************************************************************)
EXTENDS Integers, Sequences

CONSTANT Configs   \* the binding_params configurations explored

Grammars == {"none", "valid", "invalid"}

ConfigType ==
  [temp : Int, dry_multiplier : Int, repeat_penalty : Int,
   frequency_penalty : Int, presence_penalty : Int, mirostat : Int,
   top_n_sigma : Int, typical_p : Int, min_p : Int, xtc_probability : Int,
   grammar : Grammars]

ASSUME ConfigsAssumption == Configs \subseteq ConfigType /\ Configs # {}

Stages == {"greedy", "dry", "penalties", "temp", "mirostat", "mirostat_v2",
           "top_n_sigma", "top_k", "typical", "top_p", "min_p", "xtc", "dist",
           "grammar"}

\* The stages that pick the token (set cur_p->selected).
Selectors == {"greedy", "mirostat", "mirostat_v2", "dist"}

\* The stages of the top-k/top-p family.
NucleusStages == {"top_n_sigma", "top_k", "typical", "top_p", "min_p", "xtc"}

\* A stage added only when its condition holds.
Opt(cond, s) == IF cond THEN <<s>> ELSE <<>>

\* Mutant: the mode-1 branch also applies the top-k/top-p filters before
\* its mirostat stage.
BranchFiltersMirostat(c) ==
  IF c.mirostat = 1
    THEN Opt(c.top_n_sigma > 0, "top_n_sigma") \o <<"top_k", "top_p">>
         \o <<"temp", "mirostat">>
  ELSE IF c.mirostat = 2 THEN <<"temp", "mirostat_v2">>
  ELSE Opt(c.top_n_sigma > 0, "top_n_sigma") \o <<"top_k">>
       \o Opt(c.typical_p < 100, "typical") \o <<"top_p">>
       \o Opt(c.min_p > 0, "min_p") \o Opt(c.xtc_probability > 0, "xtc")
       \o <<"temp", "dist">>

\* Mutant: the mirostat v2 stage left out of mode 2.
BranchNoMirostatV2(c) ==
  IF c.mirostat = 1 THEN <<"temp", "mirostat">>
  ELSE IF c.mirostat = 2 THEN <<"temp">>
  ELSE Opt(c.top_n_sigma > 0, "top_n_sigma") \o <<"top_k">>
       \o Opt(c.typical_p < 100, "typical") \o <<"top_p">>
       \o Opt(c.min_p > 0, "min_p") \o Opt(c.xtc_probability > 0, "xtc")
       \o <<"temp", "dist">>

\* The mirostat branch, or else the top-k/top-p family ending in dist.
Branch(c) ==
  IF c.mirostat = 1 THEN <<"temp", "mirostat">>
  ELSE IF c.mirostat = 2 THEN <<"temp", "mirostat_v2">>
  ELSE Opt(c.top_n_sigma > 0, "top_n_sigma") \o <<"top_k">>
       \o Opt(c.typical_p < 100, "typical") \o <<"top_p">>
       \o Opt(c.min_p > 0, "min_p") \o Opt(c.xtc_probability > 0, "xtc")
       \o <<"temp", "dist">>

\* The penalty stages, added first when temp > 0.
Penalties(c) ==
  Opt(c.dry_multiplier > 0, "dry")
  \o Opt(c.repeat_penalty # 100 \/ c.frequency_penalty # 0
           \/ c.presence_penalty # 0, "penalties")

\* Mutant: the penalty stages added after the sampling branch.
BasePenaltiesLast(c) ==
  IF c.temp <= 0 THEN <<"greedy">> ELSE Branch(c) \o Penalties(c)

\* Everything before the grammar: greedy alone when temp <= 0.
Base(c) == IF c.temp <= 0 THEN <<"greedy">> ELSE Penalties(c) \o Branch(c)

\* Mutant: the grammar_smpl != nullptr test left out; a failed parse adds a
\* null stage.
GrammarStageNoNullCheck(c) ==
  IF c.grammar = "valid" THEN <<"grammar">>
  ELSE IF c.grammar = "invalid" THEN <<"null">> ELSE <<>>

\* The grammar stage, added only when a grammar is set and its sampler was
\* created (a nullptr is skipped).
GrammarStage(c) == Opt(c.grammar = "valid", "grammar")

BuildChain(c) == Base(c) \o GrammarStage(c)

-----------------------------------------------------------------------------
VARIABLES
  cfg,     \* the binding_params of the call
  chain,   \* the stages added to smpl so far
  built    \* TRUE once the construction has run

vars == <<cfg, chain, built>>

\* llama_allocate_params has produced a configuration; llama_predict has not
\* built its chain yet.
Init ==
  /\ cfg \in Configs
  /\ chain = <<>>
  /\ built = FALSE

\* llama_predict builds the chain from cfg.  No error is raised: an
\* unparsable grammar is left out of the chain.
Build ==
  /\ ~built
  /\ chain' = BuildChain(cfg)
  /\ built' = TRUE
  /\ UNCHANGED cfg

Next == Build

Spec == Init /\ [][Next]_vars

-----------------------------------------------------------------------------
TypeOK ==
  /\ cfg \in Configs
  /\ chain \in Seq(Stages)
  /\ built \in BOOLEAN

\* The positions of chain holding a stage of the set S.
PositionsOf(S) == {i \in 1..Len(chain) : chain[i] \in S}

\* Spec 4.1: every chain picks the token exactly once: llama_sampler_sample
\* needs a selected candidate, and a second selector would override the
\* first.
ExactlyOneSelector == built => \E i \in 1..Len(chain) : PositionsOf(Selectors) = {i}

\* Spec 8: mirostat modes 1 and 2 never share a chain with the top-k/top-p
\* family.
MirostatExclusive ==
  built /\ cfg.temp > 0 /\ cfg.mirostat \in {1, 2}
    => \A i \in 1..Len(chain) : chain[i] \notin NucleusStages

\* Spec 4.1: the penalty stages run before every stage that shapes or
\* samples the distribution.
PenaltiesFirst ==
  \A i, j \in 1..Len(chain) :
    chain[i] \in {"dry", "penalties"} /\ chain[j] \notin {"dry", "penalties"}
      => i < j

=============================================================================
