------------------------ MODULE GenerationLoopProofs ------------------------
(***************************************************************************)
(* Proofs about the streaming decode loop of llama_predict, for every      *)
(* value of the constants that satisfies the assumptions of               *)
(* GenerationLoop.                                                         *)
(*                                                                         *)
(* TypeOK is not inductive by itself: that n_remain stays within          *)
(* 0..n_predict depends on a token being sampled only after the loop test  *)
(* n_remain != 0 passed, and that kv stays within the context depends on   *)
(* the batch offset i lying inside embd whenever a batch is decoded.  The  *)
(* inductive invariant IInv adds those two facts and the accounting of the *)
(* budget: every token handed to tokenCallback took one unit of n_remain.  *)
(***************************************************************************)
EXTENDS GenerationLoop, SequenceTheorems, TLAPS

\* Inside the loop body (decoding or after embd.clear()) the loop test
\* n_remain != 0 has passed and n_remain has not been decremented since.
RemainPositive == pc \in {"decode", "next"} => n_remain >= 1

\* The for loop over batches only runs with its offset inside embd.
OffsetInBatch == pc = "decode" => bi < Len(embd)

\* Each token delivered in the current (or last) call used one unit of the
\* budget n_predict.
BudgetAccounting == Len(delivered) + n_remain = NPredict

IInv ==
  /\ TypeOK
  /\ ChainReleased
  /\ RemainPositive
  /\ OffsetInBatch
  /\ BudgetAccounting

USE NCtxAssumption, BatchAssumption, NKeepAssumption, NPredictAssumption,
    MaxCallsAssumption

-----------------------------------------------------------------------------
\* The tokenized prompt is a sequence of tokens.
LEMMA TokenizedType ==
  ASSUME NEW p \in Prompts
  PROVE  Tokenized(p) \in Seq(Tokens)
BY TokenAssumption, PromptsAssumption DEF Tokenized

\* The tokens the context shift inserts before embd form a sequence of
\* tokens, whatever the heap holds past the end of embd_inp.
LEMMA ShiftSliceType ==
  ASSUME NEW n \in Nat, NEW s \in Seq(Tokens), NEW k \in Nat,
         NEW junk \in [1..n -> Tokens]
  PROVE  [j \in 1..n |-> IF k + j <= Len(s) THEN s[k + j] ELSE junk[j]]
           \in Seq(Tokens)
<1> DEFINE f == [j \in 1..n |-> IF k + j <= Len(s) THEN s[k + j] ELSE junk[j]]
<1>1. \A j \in 1..n : f[j] \in Tokens
  OBVIOUS
<1>2. f \in [1..n -> Tokens]
  BY <1>1
<1> QED
  BY <1>2

-----------------------------------------------------------------------------
LEMMA InitIInv == Init => IInv
BY DEF Init, IInv, TypeOK, ChainReleased, RemainPositive, OffsetInBatch,
       BudgetAccounting, Outcomes

LEMMA NextIInv == IInv /\ [Next]_vars => IInv'
<1> SUFFICES ASSUME IInv, [Next]_vars
             PROVE  IInv'
  OBVIOUS
<1> USE DEF IInv, TypeOK, ChainReleased, RemainPositive, OffsetInBatch, BudgetAccounting,
           Outcomes, LoopContinues
<1>1. ASSUME NEW p \in Prompts, PromptTooLong(p)
      PROVE  IInv'
  BY <1>1, TokenizedType DEF PromptTooLong
<1>2. ASSUME NEW p \in Prompts, BeginPredict(p)
      PROVE  IInv'
  BY <1>2, TokenizedType DEF BeginPredict
<1>3. CASE BudgetExhausted
  BY <1>3 DEF BudgetExhausted, Finish, LoopContinues
<1>4. CASE SkipDecode
  BY <1>4 DEF SkipDecode
<1>5. CASE BeginDecode
  BY <1>5 DEF BeginDecode
<1>6. CASE ContextShift
  <2>1. PICK junk \in [1..NShift -> Tokens] :
          embd' = [j \in 1..NShift |-> IF NKeep + j <= Len(inp)
                                         THEN inp[NKeep + j] ELSE junk[j]] \o embd
    BY <1>6 DEF ContextShift
  <2>2. NShift \in Nat
    BY <1>6 DEF ContextShift, NShift, NLeft, CDiv
  <2>3. embd' \in Seq(Tokens) /\ Len(embd') >= Len(embd)
    BY <2>1, <2>2, ShiftSliceType
  <2>4. Len(embd) >= 1
    BY <1>6 DEF ContextShift
  <2>5. pc' = "decode" /\ bi' = 0 /\ n_past' \in Int
    BY <1>6 DEF ContextShift, StdMax
  <2>6. UNCHANGED <<inp, n_remain, n_consumed, res, delivered, chain, outcome,
                    kv, calls>>
    BY <1>6 DEF ContextShift
  <2>7. n_remain >= 1
    BY <1>6 DEF ContextShift
  <2> QED
    BY <2>3, <2>4, <2>5, <2>6, <2>7
<1>7. CASE DecodeOk
  <2>1. NEval \in 1..NBatch
    BY <1>7 DEF DecodeOk, NEval, StdMin
  <2> QED
    BY <1>7, <2>1 DEF DecodeOk
<1>8. CASE DecodeFail
  BY <1>8 DEF DecodeFail, Finish
<1>9. ASSUME NEW id \in Tokens, SampleToken(id)
      PROVE  IInv'
  <2>1. res' \in Seq(Chars)
    BY <1>9, PieceAssumption DEF SampleToken
  <2>2. pc' \in {"idle", "loop"} /\ outcome' \in Outcomes
        /\ chain' \in {"none", "live"} /\ (pc' = "idle" => chain' = "none")
    BY <1>9 DEF SampleToken, EndOfIteration, Finish
  <2>3. embd' = <<id>> /\ delivered' = Append(delivered, id)
        /\ n_remain' = n_remain - 1
    BY <1>9 DEF SampleToken
  <2>4. UNCHANGED <<inp, bi, n_past, n_consumed, kv, calls>>
    BY <1>9 DEF SampleToken
  <2>5. pc = "next"
    BY <1>9 DEF SampleToken
  <2>6. Len(delivered') = Len(delivered) + 1 /\ delivered' \in Seq(Tokens)
    BY <2>3, AppendProperties
  <2>7. embd' \in Seq(Tokens) /\ n_remain' \in 0..NPredict
    BY <2>3, <2>5
  <2>8. TypeOK'
    BY <2>1, <2>2, <2>4, <2>6, <2>7
  <2>9. ChainReleased' /\ RemainPositive' /\ OffsetInBatch'
    BY <2>2
  <2>10. BudgetAccounting'
    BY <2>3, <2>6
  <2> QED
    BY <2>8, <2>9, <2>10
<1>10. ASSUME NEW id \in Tokens, SampleCancelled(id)
       PROVE  IInv'
  <2>1. pc' = "idle" /\ outcome' = "cancelled" /\ chain' = "none"
    BY <1>10 DEF SampleCancelled, Finish
  <2>2. embd' = <<id>> /\ delivered' = Append(delivered, id)
        /\ n_remain' = n_remain - 1
    BY <1>10 DEF SampleCancelled
  <2>3. UNCHANGED <<inp, bi, n_past, n_consumed, res, kv, calls>>
    BY <1>10 DEF SampleCancelled
  <2>4. pc = "next"
    BY <1>10 DEF SampleCancelled
  <2>5. Len(delivered') = Len(delivered) + 1 /\ delivered' \in Seq(Tokens)
    BY <2>2, AppendProperties
  <2>6. embd' \in Seq(Tokens) /\ n_remain' \in 0..NPredict
    BY <2>2, <2>4
  <2>7. TypeOK'
    BY <2>1, <2>3, <2>5, <2>6
  <2>8. ChainReleased' /\ RemainPositive' /\ OffsetInBatch'
    BY <2>1
  <2>9. BudgetAccounting'
    BY <2>2, <2>5
  <2> QED
    BY <2>7, <2>8, <2>9
<1>11. CASE FeedPrompt
  <2> DEFINE k == StdMin(NBatch, Len(inp) - n_consumed)
  <2>1. k \in 1..NBatch /\ n_consumed + k <= Len(inp)
    BY <1>11 DEF FeedPrompt, StdMin
  <2>2. embd' = SubSeq(inp, n_consumed + 1, n_consumed + k)
        /\ n_consumed' = n_consumed + k
    BY <1>11 DEF FeedPrompt
  <2>3. embd' \in Seq(Tokens)
    <3>1. \A i \in (n_consumed + 1)..(n_consumed + k) : inp[i] \in Tokens
      BY <2>1
    <3> QED
      BY <2>1, <2>2, <3>1, SubSeqProperties
  <2>4. pc' \in {"idle", "loop"} /\ outcome' \in Outcomes /\ chain' \in {"none", "live"}
        /\ (pc' = "idle" => chain' = "none")
    BY <1>11 DEF FeedPrompt, EndOfIteration, Finish
  <2>5. UNCHANGED <<inp, bi, n_past, n_remain, res, delivered, kv, calls>>
    BY <1>11 DEF FeedPrompt
  <2>6. n_consumed' \in Nat
    BY <2>1, <2>2
  <2>7. TypeOK'
    BY <2>3, <2>4, <2>5, <2>6
  <2>9. ChainReleased' /\ RemainPositive' /\ OffsetInBatch'
    BY <2>4
  <2>8. BudgetAccounting'
    BY <2>5
  <2> QED
    BY <2>7, <2>8, <2>9
<1>12. ASSUME NEW p \in Prompts, GetEmbeddings(p)
       PROVE  IInv'
  <2>1. kv' \in 0..NCtx /\ calls' \in 0..MaxCalls
    BY <1>12 DEF GetEmbeddings
  <2>2. UNCHANGED <<pc, inp, embd, bi, n_past, n_remain, n_consumed, res,
                    delivered, chain, outcome>>
    BY <1>12 DEF GetEmbeddings
  <2> QED
    BY <2>1, <2>2
<1>13. CASE UNCHANGED vars
  BY <1>13 DEF vars
<1> QED
  BY <1>1, <1>2, <1>3, <1>4, <1>5, <1>6, <1>7, <1>8, <1>9, <1>10, <1>11,
     <1>13, <1>12 DEF Next, Step

-----------------------------------------------------------------------------
\* The loop state keeps its types: in particular n_remain stays within
\* 0..n_predict and the runtime never holds more cells than the context.
THEOREM TypeCorrect == Spec => []TypeOK
<1>1. IInv => TypeOK
  BY DEF IInv
<1> QED
  BY InitIInv, NextIInv, <1>1, PTL DEF Spec

\* Every return of llama_predict after the chain was built, on the normal
\* path and on the llama_decode error path alike, frees the sampler chain.
THEOREM ChainFreedOnReturn == Spec => []ChainReleased
<1>1. IInv => ChainReleased
  BY DEF IInv
<1> QED
  BY InitIInv, NextIInv, <1>1, PTL DEF Spec

\* The budget n_predict: no call hands more than n_predict tokens to
\* tokenCallback, whatever the sizes of the context, the batch and the
\* budget.
THEOREM BudgetSafety == Spec => []BudgetRespected
<1>1. IInv => BudgetRespected
  BY DEF IInv, TypeOK, BudgetAccounting, BudgetRespected
<1> QED
  BY InitIInv, NextIInv, <1>1, PTL DEF Spec

-----------------------------------------------------------------------------
(***************************************************************************)
(* Refinement: every step of llama_predict is a step of the call the host *)
(* sees, or leaves what the host sees unchanged.                          *)
(***************************************************************************)

\* A tokenized prompt is never empty: the BOS fallback covers "".
LEMMA TokenizedNonEmpty ==
  ASSUME NEW p \in Prompts
  PROVE  Len(Tokenized(p)) >= 1
<1>1. CASE p = <<>>
  BY <1>1 DEF Tokenized
<1>2. CASE p # <<>>
  <2>1. p \in Seq(Tokens)
    BY PromptsAssumption
  <2> QED
    BY <1>2, <2>1, EmptySeq DEF Tokenized
<1> QED
  BY <1>1, <1>2

\* The steps that only move the loop between its points inside a call.
LEMMA InnerStepStutters ==
  ASSUME IInv, SkipDecode \/ BeginDecode \/ ContextShift \/ DecodeOk
  PROVE  UNCHANGED Call!cvars
BY DEF SkipDecode, BeginDecode, ContextShift, DecodeOk, Call!cvars, CallPhase

LEMMA StepRefines == IInv /\ [Next]_vars => [Call!Next]_Call!cvars
<1> SUFFICES ASSUME IInv, [Next]_vars
             PROVE  [Call!Next]_Call!cvars
  OBVIOUS
<1> USE DEF IInv, TypeOK, RemainPositive, BudgetAccounting
<1>1. ASSUME NEW p \in Prompts, PromptTooLong(p)
      PROVE  Call!Reject
  BY <1>1 DEF PromptTooLong, Call!Reject, CallPhase
<1>2. ASSUME NEW p \in Prompts, BeginPredict(p)
      PROVE  Call!Start
  <2>1. Len(inp') >= 1
    BY <1>2, TokenizedNonEmpty DEF BeginPredict
  <2> QED
    BY <1>2, <2>1 DEF BeginPredict, Call!Start, CallPhase
<1>3. CASE BudgetExhausted
  <2>1. Len(delivered) = NPredict
    BY <1>3 DEF BudgetExhausted, LoopContinues
  <2>2. Call!Stop("budget")
    BY <1>3, <2>1 DEF BudgetExhausted, Finish, Call!Stop, CallPhase
  <2> QED
    BY <2>2 DEF Call!Next, Call!Progress, Call!Outcomes
<1>4. CASE SkipDecode \/ BeginDecode \/ ContextShift \/ DecodeOk
  BY <1>4, InnerStepStutters
<1>5. CASE DecodeFail
  <2>1. Call!Stop("error")
    BY <1>5 DEF DecodeFail, Finish, Call!Stop, CallPhase
  <2> QED
    BY <2>1 DEF Call!Next, Call!Progress, Call!Outcomes
<1>6. ASSUME NEW id \in Tokens, SampleToken(id) \/ SampleCancelled(id)
      PROVE  Call!Deliver(id)
  <2>0. pc = "next" /\ Len(inp) <= n_consumed
    BY <1>6 DEF SampleToken, SampleCancelled
  <2>1. pc = "next" /\ Len(inp) <= n_consumed /\ Len(delivered) < NPredict
    <3>1. n_remain >= 1 /\ Len(delivered) + n_remain = NPredict
      BY <2>0
    <3>2. Len(delivered) \in Nat /\ n_remain \in Nat
      OBVIOUS
    <3> QED
      BY <2>0, <3>1, <3>2
  <2>2. CallPhase = "generating"
    BY <2>1 DEF CallPhase
  <2>3. delivered' = Append(delivered, id) /\ UNCHANGED <<inp, n_consumed>>
    BY <1>6 DEF SampleToken, SampleCancelled
  <2>4. \/ UNCHANGED <<CallPhase, outcome>>
        \/ CallPhase' = "idle" /\ outcome' \in {"antiprompt", "eog", "cancelled"}
    BY <1>6, <2>1, <2>3 DEF SampleToken, SampleCancelled, EndOfIteration,
                            Finish, CallPhase
  <2> QED
    BY <2>1, <2>2, <2>3, <2>4 DEF Call!Deliver
<1>7. CASE FeedPrompt
  <2> DEFINE k == StdMin(NBatch, Len(inp) - n_consumed)
  <2>1. CallPhase = "feeding" /\ n_consumed' = n_consumed + k
        /\ UNCHANGED <<inp, delivered>>
    BY <1>7 DEF FeedPrompt, CallPhase
  <2>2. CASE n_consumed + k >= Len(inp)
    <3>1. \/ CallPhase' = "generating" /\ UNCHANGED outcome
          \/ CallPhase' = "idle" /\ outcome' \in {"antiprompt", "eog"}
      BY <1>7, <2>1, <2>2 DEF FeedPrompt, EndOfIteration, Finish, CallPhase
    <3> QED
      BY <2>1, <3>1 DEF Call!Next, Call!Progress, Call!Outcomes,
                        Call!PromptConsumed, Call!Stop
  <2>3. CASE n_consumed + k < Len(inp)
    <3>1. \/ UNCHANGED <<CallPhase, outcome>>
          \/ CallPhase' = "idle" /\ outcome' = "eog"
      BY <1>7, <2>1, <2>3 DEF FeedPrompt, EndOfIteration, Finish, CallPhase
    <3> QED
      BY <2>1, <3>1 DEF Call!Next, Call!Progress, Call!Outcomes, Call!Stop,
                        Call!cvars
  <2>4. k \in Int
    BY DEF StdMin
  <2> QED
    BY <2>2, <2>3, <2>4
<1>8. ASSUME NEW p \in Prompts, GetEmbeddings(p)
      PROVE  UNCHANGED Call!cvars
  BY <1>8 DEF GetEmbeddings, Call!cvars, CallPhase
<1>9. CASE UNCHANGED vars
  BY <1>9 DEF vars, Call!cvars, CallPhase
<1> QED
  BY <1>1, <1>2, <1>3, <1>4, <1>5, <1>6, <1>7, <1>9, <1>8
  DEF Next, Step, Call!Next, Call!Progress

\* llama_predict implements the call of spec 4.3 as the host sees it: its
\* initial state is an idle call, and each of its steps is a step of
\* GenerationCall (start, reject, prompt consumed, a token delivered within
\* the budget, a stop) or changes nothing the host sees.
THEOREM CallRefinement == Spec => Call!SafeSpec
<1>1. Init => Call!Init
  BY DEF Init, Call!Init, CallPhase
<1>2. IInv /\ [Next]_vars => [Call!Next]_Call!cvars
  BY StepRefines
<1> QED
  BY InitIInv, NextIInv, <1>1, <1>2, PTL DEF Spec, Call!SafeSpec

=============================================================================
