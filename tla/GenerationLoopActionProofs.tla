--------------------- MODULE GenerationLoopActionProofs ---------------------
(***************************************************************************)
(* Proofs of the action properties of llama_predict's loop: no token is   *)
(* sampled once the text ends with an antiprompt, and the batch the       *)
(* context shift leaves fits the context.                                  *)
(*                                                                         *)
(* Both rest on facts about where a call is that IInv does not state:     *)
(*   - while a call feeds its prompt (nothing delivered yet), n_past counts *)
(*     exactly the prompt tokens decoded, so n_past + |embd| never passes  *)
(*     n_consumed <= |embd_inp| <= n_ctx - 4 and no shift can happen;      *)
(*   - once it generates, embd at the loop head is the one sampled token;  *)
(*   - n_past never exceeds the cells the runtime holds;                   *)
(*   - once the prompt is consumed and the call goes on, the text does not *)
(*     end with an antiprompt (the check at the end of each iteration).   *)
(***************************************************************************)
EXTENDS GenerationLoopProofs

\* A running call's prompt passed the n_ctx - 4 check and is not empty.
PromptFits == pc # "idle" => 1 <= Len(inp) /\ Len(inp) <= NCtx - 4

\* n_past never counts more positions than the runtime holds cells.
PastWithinCells == n_past <= kv

\* While the prompt is fed, n_past counts the prompt tokens decoded: the
\* pending batch and the consumed prefix line up.
FeedingAligned ==
  pc # "idle" /\ delivered = <<>> =>
    /\ n_consumed <= Len(inp)
    /\ pc = "next" => n_past = n_consumed
    /\ pc = "loop" => n_past + Len(embd) = n_consumed
    /\ pc = "decode" => n_past + Len(embd) - bi = n_consumed

\* Once a token has been sampled the prompt is consumed, and the loop head
\* holds that one token.
GeneratingOneToken ==
  pc # "idle" /\ delivered # <<>> =>
    /\ Len(inp) <= n_consumed
    /\ pc = "loop" => Len(embd) = 1

\* A call that goes on after its prompt is consumed has text that does not
\* end with an antiprompt.
NoPendingAntiprompt ==
  pc # "idle" /\ Len(inp) <= n_consumed => ~AntipromptHit(res)

WInv ==
  /\ PromptFits
  /\ PastWithinCells
  /\ FeedingAligned
  /\ GeneratingOneToken
  /\ NoPendingAntiprompt

USE NCtxAssumption, BatchAssumption, NKeepAssumption, NPredictAssumption,
    MaxCallsAssumption

-----------------------------------------------------------------------------
\* A slice of b tokens after the first a has length b.
LEMMA SliceLen ==
  ASSUME NEW s \in Seq(Tokens), NEW a \in Nat, NEW b \in Nat, a + b <= Len(s)
  PROVE  Len(SubSeq(s, a + 1, a + b)) = b
<1>1. \A i \in (a + 1)..(a + b) : s[i] \in Tokens
  OBVIOUS
<1> QED
  BY <1>1, SubSeqProperties

LEMMA InitWInv == Init => WInv
BY DEF Init, WInv, PromptFits, PastWithinCells, FeedingAligned,
       GeneratingOneToken, NoPendingAntiprompt

LEMMA NextWInv == IInv /\ WInv /\ [Next]_vars => WInv'
<1> SUFFICES ASSUME IInv, WInv, [Next]_vars
             PROVE  WInv'
  OBVIOUS
<1> USE DEF IInv, TypeOK, RemainPositive, OffsetInBatch, WInv, PromptFits,
           PastWithinCells, FeedingAligned, GeneratingOneToken,
           NoPendingAntiprompt
<1>1. ASSUME NEW p \in Prompts, PromptTooLong(p)
      PROVE  WInv'
  BY <1>1 DEF PromptTooLong
<1>2. ASSUME NEW p \in Prompts, BeginPredict(p)
      PROVE  WInv'
  <2>1. 1 <= Len(inp') /\ Len(inp') <= NCtx - 4
    BY <1>2, TokenizedNonEmpty DEF BeginPredict
  <2>2. pc' = "loop" /\ n_past' = 0 /\ n_consumed' = 0 /\ embd' = <<>>
        /\ delivered' = <<>> /\ kv' = kv
    BY <1>2 DEF BeginPredict
  <2> QED
    BY <2>1, <2>2
<1>3. CASE BudgetExhausted
  BY <1>3 DEF BudgetExhausted, Finish
<1>4. CASE SkipDecode
  <2>1. pc = "loop" /\ embd = <<>> /\ pc' = "next"
    BY <1>4 DEF SkipDecode
  <2>2. UNCHANGED <<inp, embd, n_past, n_consumed, res, delivered, kv>>
    BY <1>4 DEF SkipDecode
  <2>3. delivered = <<>>
    BY <2>1
  <2> QED
    BY <2>1, <2>2, <2>3
<1>5. CASE BeginDecode
  <2>1. pc = "loop" /\ pc' = "decode" /\ bi' = 0
    BY <1>5 DEF BeginDecode
  <2>2. UNCHANGED <<inp, embd, n_past, n_consumed, res, delivered, kv>>
    BY <1>5 DEF BeginDecode
  <2> QED
    BY <2>1, <2>2
<1>6. CASE ContextShift
  <2>1. pc = "loop" /\ Overflow /\ pc' = "decode" /\ n_past' = StdMax(1, NKeep)
    BY <1>6 DEF ContextShift
  <2>2. UNCHANGED <<inp, n_consumed, res, delivered, kv>>
    BY <1>6 DEF ContextShift
  <2>3. delivered # <<>>
    BY <2>1 DEF Overflow
  <2>4. Len(embd) = 1
    BY <2>1, <2>3
  <2>5. n_past = NCtx /\ kv = NCtx /\ NCtx >= 5
    BY <2>1, <2>4 DEF Overflow
  <2>6. n_past' <= kv'
    BY <2>1, <2>2, <2>5 DEF StdMax
  <2> QED
    BY <2>1, <2>2, <2>3, <2>6
<1>7. CASE DecodeOk
  <2>1. pc = "decode" /\ NEval \in 1..NBatch
        /\ n_past' = n_past + NEval /\ kv' = kv + NEval /\ bi' = bi + NBatch
        /\ pc' = IF bi + NBatch < Len(embd) THEN "decode" ELSE "next"
    BY <1>7 DEF DecodeOk, NEval, StdMin
  <2>2. UNCHANGED <<inp, embd, n_consumed, res, delivered>>
    BY <1>7 DEF DecodeOk
  <2>3. pc' = "decode" => NEval = NBatch
    BY <2>1 DEF NEval, StdMin
  <2>4. pc' = "next" => NEval = Len(embd) - bi
    BY <2>1 DEF NEval, StdMin
  <2>5. PromptFits' /\ NoPendingAntiprompt' /\ GeneratingOneToken'
    BY <2>1, <2>2
  <2>6. PastWithinCells'
    BY <2>1
  <2>7. FeedingAligned'
    <3> SUFFICES ASSUME delivered' = <<>>
                 PROVE  /\ n_consumed' <= Len(inp')
                        /\ pc' = "next" => n_past' = n_consumed'
                        /\ pc' = "loop" => n_past' + Len(embd') = n_consumed'
                        /\ pc' = "decode"
                           => n_past' + Len(embd') - bi' = n_consumed'
      OBVIOUS
    <3>1. n_past + Len(embd) - bi = n_consumed /\ n_consumed <= Len(inp)
      BY <2>1, <2>2
    <3>2. pc' \in {"decode", "next"}
      BY <2>1
    <3>3. pc' = "next" => n_past' = n_consumed'
      BY <2>1, <2>2, <2>4, <3>1
    <3>4. pc' = "decode" => n_past' + Len(embd') - bi' = n_consumed'
      <4> SUFFICES ASSUME pc' = "decode"
                   PROVE  n_past' + Len(embd') - bi' = n_consumed'
        OBVIOUS
      <4>1. n_past' = n_past + NBatch /\ bi' = bi + NBatch
        BY <2>1, <2>3
      <4>2. embd' = embd /\ n_consumed' = n_consumed
        BY <2>2
      <4>3. n_past \in Int /\ bi \in Int /\ Len(embd) \in Int
        OBVIOUS
      <4> QED
        BY ONLY <3>1, <4>1, <4>2, <4>3, BatchAssumption
    <3> QED
      BY <2>2, <3>1, <3>2, <3>3, <3>4
  <2> QED
    BY <2>5, <2>6, <2>7
<1>8. CASE DecodeFail
  BY <1>8 DEF DecodeFail, Finish
<1>9. ASSUME NEW id \in Tokens, SampleToken(id)
      PROVE  WInv'
  <2>1. pc = "next" /\ Len(inp) <= n_consumed /\ embd' = <<id>>
        /\ delivered' = Append(delivered, id) /\ res' = res \o Piece[id]
    BY <1>9 DEF SampleToken
  <2>2. UNCHANGED <<inp, n_past, n_consumed, kv>>
    BY <1>9 DEF SampleToken
  <2>3. pc' \in {"idle", "loop"} /\ (pc' # "idle" => ~AntipromptHit(res'))
    BY <1>9, <2>1 DEF SampleToken, EndOfIteration, Finish
  <2>4. delivered' # <<>> /\ Len(embd') = 1
    <3>1. Len(delivered') = Len(delivered) + 1
      BY <2>1, AppendProperties
    <3> QED
      BY <2>1, <3>1
  <2>5. PromptFits' /\ PastWithinCells'
    BY <2>1, <2>2, <2>3
  <2>6. FeedingAligned' /\ GeneratingOneToken'
    BY <2>1, <2>2, <2>3, <2>4
  <2>7. NoPendingAntiprompt'
    BY <2>3
  <2> QED
    BY <2>5, <2>6, <2>7
<1>10. ASSUME NEW id \in Tokens, SampleCancelled(id)
       PROVE  WInv'
  BY <1>10 DEF SampleCancelled, Finish
<1>11. CASE FeedPrompt
  <2> DEFINE k == StdMin(NBatch, Len(inp) - n_consumed)
  <2>1. pc = "next" /\ Len(inp) > n_consumed /\ k \in 1..NBatch
        /\ n_consumed + k <= Len(inp)
    BY <1>11 DEF FeedPrompt, StdMin
  <2>2. embd' = SubSeq(inp, n_consumed + 1, n_consumed + k)
        /\ n_consumed' = n_consumed + k
    BY <1>11 DEF FeedPrompt
  <2>3. UNCHANGED <<inp, n_past, res, delivered, kv>>
    BY <1>11 DEF FeedPrompt
  <2>4. delivered = <<>> /\ n_past = n_consumed
    BY <2>1
  <2>5. Len(embd') = k
    <3>1. n_consumed \in Nat /\ k \in Nat /\ n_consumed + k <= Len(inp)
      BY <2>1
    <3>2. Len(SubSeq(inp, n_consumed + 1, n_consumed + k)) = k
      BY <3>1, SliceLen
    <3> QED
      BY <2>2, <3>2
  <2>6. pc' \in {"idle", "loop"}
        /\ (pc' # "idle" /\ n_consumed + k >= Len(inp) => ~AntipromptHit(res))
    BY <1>11 DEF FeedPrompt, EndOfIteration, Finish
  <2>7. PromptFits' /\ PastWithinCells' /\ GeneratingOneToken'
    BY <2>1, <2>3, <2>4, <2>6
  <2>8. FeedingAligned'
    BY <2>1, <2>2, <2>3, <2>4, <2>5, <2>6
  <2>9. NoPendingAntiprompt'
    BY <2>2, <2>3, <2>6
  <2> QED
    BY <2>7, <2>8, <2>9
<1>12. ASSUME NEW p \in Prompts, GetEmbeddings(p)
       PROVE  WInv'
  <2>1. kv' \in Int /\ kv' >= kv
    BY <1>12, PromptsAssumption DEF GetEmbeddings
  <2>2. UNCHANGED <<pc, inp, embd, bi, n_past, n_consumed, res, delivered>>
    BY <1>12 DEF GetEmbeddings
  <2>3. PastWithinCells'
    BY <2>1, <2>2
  <2>4. PromptFits' /\ FeedingAligned' /\ GeneratingOneToken'
        /\ NoPendingAntiprompt'
    BY <2>2
  <2> QED
    BY <2>3, <2>4
<1>13. CASE UNCHANGED vars
  BY <1>13 DEF vars
<1> QED
  BY <1>1, <1>2, <1>3, <1>4, <1>5, <1>6, <1>7, <1>8, <1>9, <1>10, <1>11,
     <1>12, <1>13 DEF Next, Step

-----------------------------------------------------------------------------
\* At the loop head an overflow only happens once the call generates: the
\* pending batch is the one sampled token and n_past has reached n_ctx,
\* with the runtime holding n_ctx cells.
LEMMA OverflowOnlyWhenFull ==
  ASSUME IInv, WInv, pc = "loop", Overflow
  PROVE  /\ delivered # <<>>
         /\ Len(embd) = 1
         /\ n_past = NCtx /\ kv = NCtx
         /\ NCtx >= 5
<1> USE DEF IInv, TypeOK, WInv, PromptFits, PastWithinCells, FeedingAligned,
           GeneratingOneToken, Overflow
<1>1. delivered # <<>>
  OBVIOUS
<1>2. Len(embd) = 1
  BY <1>1
<1> QED
  BY <1>1, <1>2

\* A suffix of the text that equals a sequence a means the text ends with a
\* in the sense of the code's substr comparison.
LEMMA SuffixEndsWith ==
  ASSUME NEW r \in Seq(Chars), NEW a \in Seq(Chars), NEW k \in 0..Len(r),
         SubSeq(r, k + 1, Len(r)) = a
  PROVE  EndsWith(r, a)
<1>1. \A i \in (k + 1)..Len(r) : r[i] \in Chars
  OBVIOUS
<1>2. Len(SubSeq(r, k + 1, Len(r))) = Len(r) - k
  BY <1>1, SubSeqProperties
<1>3. Len(a) = Len(r) - k
  BY <1>2
<1>4. Len(r) >= Len(a) /\ Len(r) - Len(a) + 1 = k + 1
  BY <1>3
<1> QED
  BY <1>3, <1>4 DEF EndsWith

\* The text ending with an antiprompt is what the antiprompt loop detects.
LEMMA OutputHit ==
  ASSUME res \in Seq(Chars), OutputEndsWithAntiprompt
  PROVE  AntipromptHit(res)
<1>1. PICK j \in 1..Len(Antiprompts), k \in 0..Len(res) :
             SubSeq(res, k + 1, Len(res)) = Antiprompts[j]
  BY DEF OutputEndsWithAntiprompt
<1>2. Antiprompts[j] \in Seq(Chars)
  BY AntipromptAssumption
<1>3. EndsWith(res, Antiprompts[j])
  BY <1>1, <1>2, SuffixEndsWith
<1> QED
  BY <1>3 DEF AntipromptHit

-----------------------------------------------------------------------------
\* A step that hands a token to tokenCallback from after embd.clear() is a
\* sampling step, so the prompt is consumed; the check at the end of the
\* previous iteration then ruled out a text ending with an antiprompt.
LEMMA SampleStep ==
  ASSUME IInv, WInv, [Next]_vars
  PROVE  [Len(delivered') > Len(delivered) /\ pc = "next"
            => ~OutputEndsWithAntiprompt]_vars
<1> SUFFICES ASSUME Len(delivered') > Len(delivered), pc = "next"
             PROVE  ~OutputEndsWithAntiprompt
  OBVIOUS
<1>1. Len(inp) <= n_consumed
  <2>1. CASE \E id \in Tokens : SampleToken(id) \/ SampleCancelled(id)
    BY <2>1 DEF SampleToken, SampleCancelled
  <2>2. CASE FeedPrompt
    BY <2>2 DEF FeedPrompt
  <2>3. CASE UNCHANGED vars
    BY <2>3 DEF vars
  <2>4. CASE \/ \E p \in Prompts : PromptTooLong(p) \/ BeginPredict(p)
                                   \/ GetEmbeddings(p)
             \/ BudgetExhausted \/ SkipDecode \/ BeginDecode \/ ContextShift
             \/ DecodeOk \/ DecodeFail
    BY <2>4 DEF PromptTooLong, BeginPredict, GetEmbeddings, BudgetExhausted,
                SkipDecode, BeginDecode, ContextShift, DecodeOk, DecodeFail
  <2> QED
    BY <2>1, <2>2, <2>3, <2>4 DEF Next, Step
<1>2. ~AntipromptHit(res)
  BY <1>1 DEF WInv, NoPendingAntiprompt
<1> QED
  BY <1>2, OutputHit DEF IInv, TypeOK

\* The loop never samples a token once the text ends with an antiprompt:
\* the stop check runs after every iteration that finished the prompt.
THEOREM AntipromptStopsSampling == Spec => NoSampleAfterAntiprompt
<1>1. Init => IInv /\ WInv
  BY InitIInv, InitWInv
<1>2. IInv /\ WInv /\ [Next]_vars => (IInv /\ WInv)'
  BY NextIInv, NextWInv
<1>3. IInv /\ WInv /\ [Next]_vars
        => [Len(delivered') > Len(delivered) /\ pc = "next"
              => ~OutputEndsWithAntiprompt]_vars
  BY SampleStep
<1> QED
  BY <1>1, <1>2, <1>3, PTL DEF Spec, NoSampleAfterAntiprompt

-----------------------------------------------------------------------------
\* The batch after a shift holds the n_left/2 inserted tokens and embd.
LEMMA ShiftBatchLen ==
  ASSUME NEW n \in Nat, NEW s \in Seq(Tokens), NEW k \in Nat,
         NEW junk \in [1..n -> Tokens], NEW e \in Seq(Tokens)
  PROVE  Len([j \in 1..n |-> IF k + j <= Len(s) THEN s[k + j] ELSE junk[j]] \o e)
           = n + Len(e)
<1> DEFINE f == [j \in 1..n |-> IF k + j <= Len(s) THEN s[k + j] ELSE junk[j]]
<1>1. \A j \in 1..n : f[j] \in Tokens
  OBVIOUS
<1>2. f \in [1..n -> Tokens]
  BY <1>1
<1>3. f \in Seq(Tokens) /\ Len(f) = n
  BY <1>2
<1> QED
  BY <1>3

\* The same, for any batch the shift can leave.
LEMMA ShiftedBatchLen ==
  ASSUME NEW n \in Nat, NEW s \in Seq(Tokens), NEW k \in Nat,
         NEW e \in Seq(Tokens), NEW b,
         \E junk \in [1..n -> Tokens] :
           b = [j \in 1..n |-> IF k + j <= Len(s) THEN s[k + j] ELSE junk[j]] \o e
  PROVE  Len(b) = n + Len(e)
<1>1. PICK junk \in [1..n -> Tokens] :
        b = [j \in 1..n |-> IF k + j <= Len(s) THEN s[k + j] ELSE junk[j]] \o e
  OBVIOUS
<1> QED
  BY <1>1, ShiftBatchLen

\* With n_keep below n_ctx, the batch a shift leaves fits: the shift is taken
\* with the one sampled token pending and n_past = n_ctx, so
\* max(1, n_keep) + (n_ctx - n_keep) \div 2 + 1 <= n_ctx.
LEMMA ShiftStep ==
  ASSUME NKeep < NCtx, IInv, WInv, [Next]_vars
  PROVE  [pc = "loop" /\ pc' = "decode" /\ Overflow
            => n_past' + Len(embd') <= NCtx]_vars
<1>0. NKeep < NCtx
  OBVIOUS
<1> SUFFICES ASSUME pc = "loop", pc' = "decode", Overflow
             PROVE  n_past' + Len(embd') <= NCtx
  OBVIOUS
<1>1. ContextShift
  <2>1. CASE UNCHANGED vars
    BY <2>1 DEF vars
  <2>2. CASE BeginDecode
    BY <2>2 DEF BeginDecode
  <2>3. CASE \/ \E p \in Prompts : PromptTooLong(p) \/ BeginPredict(p)
                                   \/ GetEmbeddings(p)
             \/ BudgetExhausted \/ SkipDecode \/ DecodeOk \/ DecodeFail
             \/ \E id \in Tokens : SampleToken(id) \/ SampleCancelled(id)
             \/ FeedPrompt
    BY <2>3 DEF PromptTooLong, BeginPredict, GetEmbeddings, BudgetExhausted,
                SkipDecode, DecodeOk, DecodeFail, SampleToken, SampleCancelled,
                FeedPrompt, Finish
  <2> QED
    BY <2>1, <2>2, <2>3 DEF Next, Step
<1>2. Len(embd) = 1 /\ n_past = NCtx /\ NCtx >= 5 /\ embd \in Seq(Tokens)
      /\ inp \in Seq(Tokens)
  BY OverflowOnlyWhenFull DEF IInv, TypeOK
<1>3. NShift = (NCtx - NKeep) \div 2 /\ NShift \in Nat
  BY <1>0, <1>2 DEF NShift, NLeft, CDiv
<1>4. Len(embd') = NShift + 1
  <2>1. \E junk \in [1..NShift -> Tokens] :
          embd' = [j \in 1..NShift |-> IF NKeep + j <= Len(inp)
                                         THEN inp[NKeep + j] ELSE junk[j]] \o embd
    BY <1>1 DEF ContextShift
  <2>2. NKeep \in Nat /\ NShift \in Nat
    BY <1>3
  <2>3. embd \in Seq(Tokens) /\ inp \in Seq(Tokens)
    BY <1>2
  <2>4. Len(embd') = NShift + Len(embd)
    BY <2>1, <2>2, <2>3, ShiftedBatchLen
  <2> QED
    BY <1>2, <2>4
<1>5. n_past' = StdMax(1, NKeep)
  BY <1>1 DEF ContextShift
<1>6. StdMax(1, NKeep) + (NCtx - NKeep) \div 2 + 1 <= NCtx
  <2>1. CASE NKeep = 0
    BY <1>2, <2>1 DEF StdMax
  <2>2. CASE NKeep >= 1
    BY <1>0, <1>2, <2>2 DEF StdMax
  <2> QED
    BY <2>1, <2>2
<1> QED
  BY <1>3, <1>4, <1>5, <1>6 DEF StdMax

\* With n_keep below n_ctx, the context shift leaves a pending batch that,
\* with the n_past it sets, fits the context: the code never checks n_keep,
\* and TLC shows the property failing when n_keep = n_ctx.
THEOREM ShiftFits ==
  ASSUME NKeep < NCtx
  PROVE  Spec => ShiftFitsWindow
<1>0. NKeep < NCtx
  OBVIOUS
<1>1. Init => IInv /\ WInv
  BY InitIInv, InitWInv
<1>2. IInv /\ WInv /\ [Next]_vars => (IInv /\ WInv)'
  BY NextIInv, NextWInv
<1>3. IInv /\ WInv /\ [Next]_vars
        => [pc = "loop" /\ pc' = "decode" /\ Overflow
              => n_past' + Len(embd') <= NCtx]_vars
  BY <1>0, ShiftStep
<1> QED
  BY <1>1, <1>2, <1>3, PTL DEF Spec, ShiftFitsWindow

-----------------------------------------------------------------------------
\* The context shift of lines 284-296 only starts from a full window while
\* generating: n_past = n_ctx, so n_left = n_ctx - n_keep is never negative
\* and the iterator range embd_inp[n_keep, n_keep + n_left/2) is never
\* reversed, and the guard NShift >= 0 of ContextShift never blocks.
ShiftFromFullWindow ==
  pc = "loop" /\ Overflow =>
    /\ delivered # <<>>
    /\ Len(embd) = 1
    /\ n_past = NCtx
    /\ NLeft >= 0 /\ NShift >= 0

THEOREM ShiftNeverReversed == Spec => []ShiftFromFullWindow
<1>1. IInv /\ WInv => ShiftFromFullWindow
  <2> SUFFICES ASSUME IInv, WInv, pc = "loop", Overflow
               PROVE  /\ delivered # <<>>
                      /\ Len(embd) = 1
                      /\ n_past = NCtx
                      /\ NLeft >= 0 /\ NShift >= 0
    BY DEF ShiftFromFullWindow
  <2>1. delivered # <<>> /\ Len(embd) = 1 /\ n_past = NCtx
    BY OverflowOnlyWhenFull
  <2>2. NLeft \in Nat
    BY <2>1 DEF NLeft
  <2> QED
    BY <2>1, <2>2 DEF NShift, CDiv
<1> QED
  BY InitIInv, InitWInv, NextIInv, NextWInv, <1>1, PTL DEF Spec

\* The antiprompt test of lines 339-346, res.length() >= a.length() and
\* res.substr(res.length() - a.length()) == a, holds exactly when a is a
\* suffix of the text: the length guard neither misses a match (as a strict
\* > would on res == a) nor admits one.
THEOREM AntipromptTestIsSuffix ==
  ASSUME NEW r \in Seq(Chars)
  PROVE  AntipromptHit(r) <=>
           \E j \in 1..Len(Antiprompts), k \in 0..Len(r) :
             SubSeq(r, k + 1, Len(r)) = Antiprompts[j]
<1>1. ASSUME NEW j \in 1..Len(Antiprompts), EndsWith(r, Antiprompts[j])
      PROVE  \E k \in 0..Len(r) : SubSeq(r, k + 1, Len(r)) = Antiprompts[j]
  <2>1. Antiprompts[j] \in Seq(Chars)
    BY AntipromptAssumption
  <2>2. Len(r) - Len(Antiprompts[j]) \in 0..Len(r)
    BY <1>1, <2>1 DEF EndsWith
  <2> QED
    BY <1>1, <2>2 DEF EndsWith
<1>2. ASSUME NEW j \in 1..Len(Antiprompts), NEW k \in 0..Len(r),
             SubSeq(r, k + 1, Len(r)) = Antiprompts[j]
      PROVE  EndsWith(r, Antiprompts[j])
  <2>1. Antiprompts[j] \in Seq(Chars)
    BY AntipromptAssumption
  <2> QED
    BY <1>2, <2>1, SuffixEndsWith
<1> QED
  BY <1>1, <1>2 DEF AntipromptHit

=============================================================================
