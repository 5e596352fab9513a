------------------------ MODULE SamplerChainProofs -------------------------
(***************************************************************************)
(* Proofs about the sampler chain llama_predict builds, for every         *)
(* configuration of binding_params, not only the ones TLC enumerates.     *)
(*                                                                         *)
(* The argument: whatever the configuration, BuildChain is a sequence of  *)
(* penalty stages, then stages that neither penalise nor select, then one *)
(* selector, then stages that neither penalise nor select.  The lemmas    *)
(* below say what such a concatenation looks like position by position.   *)
(***************************************************************************)
EXTENDS SamplerChain, TLAPS

PenaltyStages == {"dry", "penalties"}
Shapers == Stages \ (Selectors \cup PenaltyStages)

\* The chain is empty until it is built, and then is what BuildChain says.
ChainBuilt == chain = IF built THEN BuildChain(cfg) ELSE <<>>

IInv == cfg \in Configs /\ built \in BOOLEAN /\ ChainBuilt

USE ConfigsAssumption

-----------------------------------------------------------------------------
\* A stage added on a condition is a sequence of that stage.
LEMMA OptType ==
  ASSUME NEW S, NEW s \in S, NEW cond
  PROVE  Opt(cond, s) \in Seq(S)
<1>1. <<s>> \in Seq(S) /\ <<>> \in Seq(S)
  OBVIOUS
<1> QED
  BY <1>1 DEF Opt

\* A sequence over a set is a sequence over any larger set.
LEMMA SeqMono ==
  ASSUME NEW S, NEW T, S \subseteq T, NEW s \in Seq(S)
  PROVE  s \in Seq(T)
OBVIOUS

\* Penalty stages, then stages of other kinds: every penalty stage comes
\* before every stage of another kind.
LEMMA PenaltiesBefore ==
  ASSUME NEW p \in Seq(PenaltyStages), NEW r \in Seq(Stages \ PenaltyStages),
         NEW c, c = p \o r
  PROVE  \A i, j \in 1..Len(c) :
           c[i] \in PenaltyStages /\ c[j] \notin PenaltyStages => i < j
OBVIOUS

-----------------------------------------------------------------------------
\* The pieces of a configuration's chain.
LEMMA PiecesType ==
  ASSUME NEW c \in ConfigType
  PROVE  /\ Penalties(c) \in Seq(PenaltyStages)
         /\ GrammarStage(c) \in Seq(Shapers)
<1>0. "dry" \in PenaltyStages /\ "penalties" \in PenaltyStages
      /\ "grammar" \in Shapers
  BY DEF PenaltyStages, Shapers, Stages, Selectors
<1>1. Opt(c.dry_multiplier > 0, "dry") \in Seq(PenaltyStages)
  BY <1>0, OptType
<1>2. Opt(c.repeat_penalty # 100 \/ c.frequency_penalty # 0
            \/ c.presence_penalty # 0, "penalties") \in Seq(PenaltyStages)
  BY <1>0, OptType
<1>3. GrammarStage(c) \in Seq(Shapers)
  BY <1>0, OptType DEF GrammarStage, Stages, Selectors, PenaltyStages
<1> QED
  BY <1>1, <1>2, <1>3 DEF Penalties

\* Whatever the configuration: penalty stages, shaping stages, exactly one
\* selector, shaping stages.
LEMMA ChainShape ==
  ASSUME NEW c \in ConfigType
  PROVE  \E p \in Seq(PenaltyStages), u \in Seq(Shapers), x \in Selectors,
            w \in Seq(Shapers) :
           BuildChain(c) = p \o u \o <<x>> \o w
<1> DEFINE G == GrammarStage(c)
           P == Penalties(c)
<1>0. c.temp \in Int /\ c.mirostat \in Int
  BY DEF ConfigType
<1>1. P \in Seq(PenaltyStages) /\ G \in Seq(Shapers)
  BY PiecesType
<1>6. P \in Seq(Stages) /\ G \in Seq(Stages)
  BY <1>1 DEF PenaltyStages, Shapers, Stages
<1>7. "temp" \in Shapers /\ "greedy" \in Selectors /\ "mirostat" \in Selectors
      /\ "mirostat_v2" \in Selectors /\ "dist" \in Selectors
      /\ Selectors \subseteq Stages /\ Shapers \subseteq Stages
  BY DEF Shapers, Stages, Selectors, PenaltyStages
<1>8. ASSUME NEW s \in Seq(Stages), NEW t \in Seq(Stages), NEW v \in Seq(Stages)
      PROVE  (s \o t) \o v = s \o (t \o v)
  OBVIOUS
<1>2. CASE c.temp <= 0
  <2>1. BuildChain(c) = <<>> \o <<>> \o <<"greedy">> \o G
    BY <1>1, <1>2 DEF BuildChain, Base
  <2>2. <<>> \in Seq(PenaltyStages) /\ <<>> \in Seq(Shapers)
    OBVIOUS
  <2> QED
    BY <2>1, <2>2, <1>1, <1>7, Zenon
<1>3. ASSUME NEW x \in {"mirostat", "mirostat_v2"}, c.temp > 0,
             Branch(c) = <<"temp", x>>
      PROVE  \E p \in Seq(PenaltyStages), u \in Seq(Shapers), y \in Selectors,
               w \in Seq(Shapers) :
               BuildChain(c) = p \o u \o <<y>> \o w
  <2>0. Base(c) = P \o Branch(c)
    BY <1>0, <1>3 DEF Base
  <2>1. BuildChain(c) = (P \o <<"temp", x>>) \o G
    BY <1>3, <2>0 DEF BuildChain
  <2>2. <<"temp", x>> = <<"temp">> \o <<x>>
    OBVIOUS
  <2>3. P \o (<<"temp">> \o <<x>>) = (P \o <<"temp">>) \o <<x>>
    <3>1. <<"temp">> \in Seq(Stages) /\ <<x>> \in Seq(Stages)
      BY <1>7
    <3> QED
      BY <1>6, <3>1, <1>8
  <2>4. BuildChain(c) = P \o <<"temp">> \o <<x>> \o G
    BY <2>1, <2>2, <2>3
  <2>5. <<"temp">> \in Seq(Shapers) /\ x \in Selectors
    BY <1>7
  <2> QED
    BY <2>4, <2>5, <1>1, Zenon
<1>4. CASE c.temp > 0 /\ c.mirostat \in {1, 2}
  <2>1. Branch(c) = <<"temp", "mirostat">> \/ Branch(c) = <<"temp", "mirostat_v2">>
    BY <1>4 DEF Branch
  <2> QED
    BY <1>3, <1>4, <2>1
<1>5. CASE c.temp > 0 /\ c.mirostat \notin {1, 2}
  <2> DEFINE V == Opt(c.top_n_sigma > 0, "top_n_sigma") \o <<"top_k">>
                  \o Opt(c.typical_p < 100, "typical") \o <<"top_p">>
                  \o Opt(c.min_p > 0, "min_p") \o Opt(c.xtc_probability > 0, "xtc")
             U == V \o <<"temp">>
  <2>1. /\ "top_n_sigma" \in Shapers /\ "typical" \in Shapers
        /\ "min_p" \in Shapers /\ "xtc" \in Shapers
        /\ <<"top_k">> \in Seq(Shapers) /\ <<"top_p">> \in Seq(Shapers)
        /\ <<"temp">> \in Seq(Shapers)
    BY DEF Shapers, Stages, Selectors, PenaltyStages
  <2>2. V \in Seq(Shapers)
    BY <2>1, OptType
  <2>3. U \in Seq(Shapers) /\ V \in Seq(Stages) /\ U \in Seq(Stages)
    BY <2>1, <2>2, <1>7
  <2>4. Branch(c) = V \o <<"temp", "dist">>
    BY <1>5 DEF Branch
  <2>5. Base(c) = P \o Branch(c)
    BY <1>0, <1>5 DEF Base
  <2>6. BuildChain(c) = (P \o (V \o <<"temp", "dist">>)) \o G
    BY <2>4, <2>5 DEF BuildChain
  <2>7. U = V \o <<"temp">>
    OBVIOUS
  <2> HIDE DEF U, V
  <2>8. <<"temp">> \in Seq(Stages) /\ <<"dist">> \in Seq(Stages)
        /\ <<"temp", "dist">> = <<"temp">> \o <<"dist">>
    BY <1>7
  <2>9. V \o <<"temp", "dist">> = U \o <<"dist">>
    <3>1. V \o (<<"temp">> \o <<"dist">>) = (V \o <<"temp">>) \o <<"dist">>
      BY <2>3, <2>8, <1>8
    <3> QED
      BY <3>1, <2>7, <2>8
  <2>10. P \o (U \o <<"dist">>) = (P \o U) \o <<"dist">>
    BY <2>3, <2>8, <1>6, <1>8
  <2>11. BuildChain(c) = P \o U \o <<"dist">> \o G
    BY <2>6, <2>9, <2>10
  <2> QED
    BY <2>11, <2>3, <1>1, <1>7, Zenon
<1>9. \/ c.temp <= 0
      \/ c.temp > 0 /\ c.mirostat \in {1, 2}
      \/ c.temp > 0 /\ c.mirostat \notin {1, 2}
  BY <1>0
<1> QED
  BY <1>9, <1>2, <1>4, <1>5, Zenon

\* What every configuration's chain satisfies.
LEMMA ChainFacts ==
  ASSUME NEW c \in ConfigType
  PROVE  LET ch == BuildChain(c)
         IN  /\ ch \in Seq(Stages)
             /\ \E i \in 1..Len(ch) : {j \in 1..Len(ch) : ch[j] \in Selectors} = {i}
             /\ \A i, j \in 1..Len(ch) :
                  ch[i] \in PenaltyStages /\ ch[j] \notin PenaltyStages => i < j
<1> DEFINE ch == BuildChain(c)
<1>1. PICK p \in Seq(PenaltyStages), u \in Seq(Shapers), x \in Selectors,
           w \in Seq(Shapers) : ch = p \o u \o <<x>> \o w
  BY ChainShape
<1>6. /\ PenaltyStages \subseteq Stages \ Selectors
      /\ Shapers \subseteq Stages \ Selectors
      /\ Shapers \subseteq Stages \ PenaltyStages
      /\ x \in Stages \ PenaltyStages
      /\ PenaltyStages \subseteq Stages
      /\ Shapers \subseteq Stages
      /\ x \in Stages
  BY DEF Shapers, Stages, Selectors, PenaltyStages
<1>7. /\ p \in Seq(Stages \ Selectors) /\ p \in Seq(Stages)
      /\ u \in Seq(Stages \ Selectors) /\ u \in Seq(Stages \ PenaltyStages)
      /\ u \in Seq(Stages)
      /\ w \in Seq(Stages \ Selectors) /\ w \in Seq(Stages \ PenaltyStages)
      /\ w \in Seq(Stages)
  BY <1>6, SeqMono
<1>2. /\ p \o u \in Seq(Stages \ Selectors)
      /\ w \in Seq(Stages \ Selectors)
      /\ (u \o <<x>>) \o w \in Seq(Stages \ PenaltyStages)
      /\ p \o ((u \o <<x>>) \o w) = ch
  <2>1. p \o ((u \o <<x>>) \o w) = ((p \o u) \o <<x>>) \o w
    BY <1>6, <1>7
  <2> QED
    BY <1>1, <1>6, <1>7, <2>1
<1>3. ch \in Seq(Stages)
  BY <1>1, <1>6, <1>7
<1>4. \E i \in 1..Len(ch) : {j \in 1..Len(ch) : ch[j] \in Selectors} = {i}
  <2> DEFINE q == p \o u
  <2>1. q \in Seq(Stages \ Selectors) /\ ch = q \o <<x>> \o w
    BY <1>1, <1>2
  <2> HIDE DEF ch, q
  <2>2. Len(ch) = Len(q) + 1 + Len(w)
    BY <1>7, <2>1
  <2>3. \A j \in 1..Len(ch) : ch[j] \in Selectors <=> j = Len(q) + 1
    BY <1>7, <2>1
  <2>4. {j \in 1..Len(ch) : ch[j] \in Selectors} = {Len(q) + 1}
    BY <2>2, <2>3
  <2> QED
    BY <2>2, <2>4
<1>5. \A i, j \in 1..Len(ch) :
        ch[i] \in PenaltyStages /\ ch[j] \notin PenaltyStages => i < j
  BY <1>2, PenaltiesBefore
<1> QED
  BY <1>3, <1>4, <1>5

\* A mirostat chain holds penalties, temp, its mirostat stage and the
\* grammar: nothing of the top-k/top-p family.
LEMMA MirostatChain ==
  ASSUME NEW c \in ConfigType, c.temp > 0, c.mirostat \in {1, 2}
  PROVE  BuildChain(c) \in Seq(Stages \ NucleusStages)
<1>1. Penalties(c) \in Seq(PenaltyStages) /\ GrammarStage(c) \in Seq(Shapers)
  BY PiecesType
<1>2. c.temp \in Int
  BY DEF ConfigType
<1>3. Base(c) = Penalties(c) \o Branch(c)
  BY <1>2 DEF Base
<1>4. Branch(c) \in {<<"temp", "mirostat">>, <<"temp", "mirostat_v2">>}
  BY DEF Branch
<1>5. Branch(c) \in Seq(Stages \ NucleusStages)
  <2>1. /\ <<"temp", "mirostat">> \in Seq(Stages \ NucleusStages)
        /\ <<"temp", "mirostat_v2">> \in Seq(Stages \ NucleusStages)
    BY DEF Stages, NucleusStages
  <2> QED
    BY <1>4, <2>1
<1>6. /\ PenaltyStages \subseteq Stages \ NucleusStages
      /\ "grammar" \in Stages \ NucleusStages
  BY DEF Stages, PenaltyStages, NucleusStages
<1>7. GrammarStage(c) \in Seq(Stages \ NucleusStages)
  BY <1>6, OptType DEF GrammarStage
<1>8. Penalties(c) \in Seq(Stages \ NucleusStages)
  BY <1>1, <1>6, SeqMono
<1>9. Base(c) \in Seq(Stages \ NucleusStages)
  BY <1>3, <1>5, <1>8
<1> QED
  BY <1>7, <1>9 DEF BuildChain

-----------------------------------------------------------------------------
LEMMA InitIInv == Init => IInv
BY DEF Init, IInv, ChainBuilt

LEMMA NextIInv == IInv /\ [Next]_vars => IInv'
<1> SUFFICES ASSUME IInv, [Next]_vars
             PROVE  IInv'
  OBVIOUS
<1>1. CASE Build
  BY <1>1 DEF Build, IInv, ChainBuilt
<1>2. CASE UNCHANGED vars
  BY <1>2 DEF vars, IInv, ChainBuilt
<1> QED
  BY <1>1, <1>2 DEF Next

\* Under the invariant, the chain is BuildChain of a configuration, or empty.
LEMMA ChainOfConfig ==
  ASSUME IInv, built
  PROVE  cfg \in ConfigType /\ chain = BuildChain(cfg)
BY DEF IInv, ChainBuilt

-----------------------------------------------------------------------------
\* Every chain llama_predict builds is a sequence of sampler stages.
THEOREM TypeCorrect == Spec => []TypeOK
<1>1. IInv => TypeOK
  <2> SUFFICES ASSUME IInv PROVE TypeOK
    OBVIOUS
  <2>1. CASE built
    BY <2>1, ChainOfConfig, ChainFacts DEF IInv, TypeOK
  <2>2. CASE ~built
    BY <2>2 DEF IInv, ChainBuilt, TypeOK
  <2> QED
    BY <2>1, <2>2
<1> QED
  BY InitIInv, NextIInv, <1>1, PTL DEF Spec

\* Spec 4.1: whatever the temperature, the mirostat mode, the penalties and
\* the filters of binding_params, the chain llama_predict builds has
\* exactly one stage that selects the token.
THEOREM OneSelectorPerChain == Spec => []ExactlyOneSelector
<1>1. IInv => ExactlyOneSelector
  BY ChainOfConfig, ChainFacts DEF ExactlyOneSelector, PositionsOf
<1> QED
  BY InitIInv, NextIInv, <1>1, PTL DEF Spec

\* Spec 4.1: the penalty stages come before every stage that shapes or
\* samples, for every configuration.
THEOREM PenaltiesComeFirst == Spec => []PenaltiesFirst
<1>1. IInv => PenaltiesFirst
  <2> SUFFICES ASSUME IInv PROVE PenaltiesFirst
    OBVIOUS
  <2>1. CASE built
    BY <2>1, ChainOfConfig, ChainFacts DEF PenaltiesFirst, PenaltyStages
  <2>2. CASE ~built
    BY <2>2 DEF IInv, ChainBuilt, PenaltiesFirst
  <2> QED
    BY <2>1, <2>2
<1> QED
  BY InitIInv, NextIInv, <1>1, PTL DEF Spec

\* Spec 8: with temp > 0 and mirostat mode 1 or 2, no stage of the
\* top-k/top-p family is in the chain, for every configuration.
THEOREM MirostatAlone == Spec => []MirostatExclusive
<1>1. IInv => MirostatExclusive
  BY ChainOfConfig, MirostatChain DEF MirostatExclusive
<1> QED
  BY InitIInv, NextIInv, <1>1, PTL DEF Spec

=============================================================================
