--------------------------- MODULE GenerationLoop ---------------------------
(***************************************************************************)
(* The streaming decode loop of llama_predict (src/pkg/llama.cpp/          *)
(* llama.cpp), together with the part of the model runtime it drives: the  *)
(* number of KV cells the runtime context holds.  One call of             *)
(* llama_predict tokenizes the prompt, builds the sampler chain, feeds the *)
(* prompt in batches of n_batch tokens, then samples one token per         *)
(* iteration, hands its text to the host's tokenCallback, and stops on the *)
(* budget n_predict, an antiprompt suffix, an end-of-generation token, a   *)
(* refusal of the callback or a decode failure.  Calls on the same        *)
(* llama_binding_state follow one another; the runtime context persists   *)
(* between them.                                                           *)
(*                                                                         *)
(* Tokens are model values; the text of a token is Piece[t], a sequence   *)
(* of characters, so that antiprompt matching over the accumulated text    *)
(* is modelled by what it does.  The sampler chain is a black box that may *)
(* return any token (see SamplerChain for how it is built).               *)
(***************************************************************************)
EXTENDS Integers, Sequences

CONSTANTS
  NCtx,         \* llama_n_ctx(ctx): capacity of the runtime context in tokens
  CtxBatch,     \* the n_batch load_model gave the context (ctx_params.n_batch)
  NBatch,       \* params_p->n_batch
  NKeep,        \* params_p->n_keep
  NPredict,     \* params_p->n_predict
  Tokens,       \* token ids the tokenizer and the sampler can produce
  EOG,          \* an end-of-generation token (llama_vocab_is_eog)
  BOS,          \* llama_vocab_bos(vocab)
  Chars,        \* the characters of token texts
  Piece,        \* token_to_piece: the text of each token
  Antiprompts,  \* params_p->antiprompt, in configuration order
  Prompts,      \* the token sequences tokenize_prompt may return
  MaxCalls      \* bound on the number of llama_predict calls explored

ASSUME NCtxAssumption == NCtx \in Nat
ASSUME BatchAssumption == NBatch \in Nat \ {0} /\ CtxBatch \in Nat \ {0}
ASSUME NKeepAssumption == NKeep \in 0..NCtx
ASSUME NPredictAssumption == NPredict \in Nat
ASSUME TokenAssumption == EOG \in Tokens /\ BOS \in Tokens
ASSUME PieceAssumption == Piece \in [Tokens -> Seq(Chars)]
ASSUME AntipromptAssumption == Antiprompts \in Seq(Seq(Chars))
ASSUME PromptsAssumption == Prompts \subseteq Seq(Tokens)
ASSUME MaxCallsAssumption == MaxCalls \in Nat

VARIABLES
  pc,          \* where the call is: "idle" between calls, "loop" at the
               \* head of the while loop, "decode" inside the batch for loop,
               \* "next" after embd.clear()
  inp,         \* embd_inp: the tokenized prompt
  embd,        \* embd: the pending batch
  bi,          \* i of the for loop over batches of embd
  n_past,
  n_remain,
  n_consumed,
  res,         \* res: the accumulated output text
  delivered,   \* the tokens whose text was passed to tokenCallback
  chain,       \* "live" while the sampler chain smpl is allocated, else "none"
  outcome,     \* how the last call ended
  kv,          \* KV cells in use in the runtime context
  calls        \* llama_predict calls made so far

vars == <<pc, inp, embd, bi, n_past, n_remain, n_consumed, res, delivered,
          chain, outcome, kv, calls>>

Outcomes == {"none", "running", "rejected", "budget", "antiprompt", "eog",
             "cancelled", "error"}

StdMax(a, b) == IF a >= b THEN a ELSE b
StdMin(a, b) == IF a <= b THEN a ELSE b

\* C++ integer division, which truncates towards zero.
CDiv(a, b) == IF a >= 0 THEN a \div b ELSE -((-a) \div b)

\* Mutant: the length test written res.length() > antiprompt.length().
EndsWithStrict(s, a) ==
  Len(s) > Len(a) /\ SubSeq(s, Len(s) - Len(a) + 1, Len(s)) = a

\* res.substr(res.length() - antiprompt.length()) == antiprompt
EndsWith(s, a) ==
  Len(s) >= Len(a) /\ SubSeq(s, Len(s) - Len(a) + 1, Len(s)) = a

\* The antiprompt loop: some configured antiprompt is a suffix of the text.
AntipromptHit(r) == \E j \in 1..Len(Antiprompts) : EndsWith(r, Antiprompts[j])

\* tokenize_prompt result, with the BOS fallback for an empty prompt.
Tokenized(p) == IF p = <<>> THEN <<BOS>> ELSE p

-----------------------------------------------------------------------------
\* No call has been made.  embd, bi, n_past, n_remain and n_consumed are
\* locals of a call: their values between calls are never read.
Init ==
  /\ pc = "idle"
  /\ inp = <<>>
  /\ embd = <<>>
  /\ bi = 0
  /\ n_past = 0
  /\ n_remain = NPredict
  /\ n_consumed = 0
  /\ res = <<>>
  /\ delivered = <<>>
  /\ chain = "none"
  /\ outcome = "none"
  /\ kv = 0
  /\ calls = 0

\* Leaving llama_predict after llama_sampler_free(smpl).
Finish(o) == pc' = "idle" /\ chain' = "none" /\ outcome' = o

\* llama_predict with a prompt longer than n_ctx - 4: return 1 before the
\* chain is built or anything is decoded.
PromptTooLong(p) ==
  /\ pc = "idle"
  /\ calls < MaxCalls
  /\ Len(Tokenized(p)) > NCtx - 4
  /\ calls' = calls + 1
  /\ inp' = Tokenized(p)
  /\ outcome' = "rejected"
  /\ UNCHANGED <<pc, embd, bi, n_past, n_remain, n_consumed, res, delivered,
                 chain, kv>>

\* Mutant: the budget counter started one short (n_remain = n_predict - 1).
BeginPredictShortBudget(p) ==
  /\ pc = "idle"
  /\ calls < MaxCalls
  /\ Len(Tokenized(p)) <= NCtx - 4
  /\ calls' = calls + 1
  /\ inp' = Tokenized(p)
  /\ chain' = "live"
  /\ pc' = "loop"
  /\ n_past' = 0
  /\ n_remain' = StdMax(NPredict - 1, 0)
  /\ n_consumed' = 0
  /\ embd' = <<>>
  /\ res' = <<>>
  /\ delivered' = <<>>
  /\ outcome' = "running"
  /\ UNCHANGED <<bi, kv>>

\* llama_predict up to the while loop: tokenize, build the chain, set the
\* loop state.
BeginPredict(p) ==
  /\ pc = "idle"
  /\ calls < MaxCalls
  /\ Len(Tokenized(p)) <= NCtx - 4
  /\ calls' = calls + 1
  /\ inp' = Tokenized(p)
  /\ chain' = "live"
  /\ pc' = "loop"
  /\ n_past' = 0
  /\ n_remain' = NPredict
  /\ n_consumed' = 0
  /\ embd' = <<>>
  /\ res' = <<>>
  /\ delivered' = <<>>
  /\ outcome' = "running"
  /\ UNCHANGED <<bi, kv>>

\* Mutant: the loop condition written n_remain >= 0.
LoopContinuesGE == n_remain >= 0

\* while (n_remain != 0)
LoopContinues == n_remain # 0

\* The loop condition fails: leave the loop.
BudgetExhausted ==
  /\ pc = "loop"
  /\ ~LoopContinues
  /\ Finish("budget")
  /\ UNCHANGED <<inp, embd, bi, n_past, n_remain, n_consumed, res, delivered,
                 kv, calls>>

\* Loop head with an empty embd: nothing to decode.
SkipDecode ==
  /\ pc = "loop"
  /\ LoopContinues
  /\ embd = <<>>
  /\ pc' = "next"
  /\ UNCHANGED <<inp, embd, bi, n_past, n_remain, n_consumed, res, delivered,
                 chain, outcome, kv, calls>>

Overflow == n_past + Len(embd) > NCtx
NLeft == n_past - NKeep
\* Mutant: the whole of n_left re-fed instead of its half.
NShiftWhole == NLeft

NShift == CDiv(NLeft, 2)

\* Loop head with a pending batch that fits: go decode it.
BeginDecode ==
  /\ pc = "loop"
  /\ LoopContinues
  /\ embd # <<>>
  /\ ~Overflow
  /\ pc' = "decode"
  /\ bi' = 0
  /\ UNCHANGED <<inp, embd, n_past, n_remain, n_consumed, res, delivered,
                 chain, outcome, kv, calls>>

\* The context shift: n_past = max(1, n_keep) and the tokens
\* embd_inp[n_keep, n_keep + n_left/2) are inserted before embd.  Past the
\* end of embd_inp the iterators read whatever the heap holds there: any
\* token.  The runtime is not told; its KV cells stay as they are.
ContextShift ==
  /\ pc = "loop"
  /\ LoopContinues
  /\ embd # <<>>
  /\ Overflow
  /\ NShift >= 0
  /\ \E junk \in [1..NShift -> Tokens] :
       embd' = [j \in 1..NShift |-> IF NKeep + j <= Len(inp)
                                      THEN inp[NKeep + j] ELSE junk[j]] \o embd
  /\ n_past' = StdMax(1, NKeep)
  /\ pc' = "decode"
  /\ bi' = 0
  /\ UNCHANGED <<inp, n_remain, n_consumed, res, delivered, chain, outcome,
                 kv, calls>>

\* n_eval for the batch at offset i.
NEval == StdMin(Len(embd) - bi, NBatch)

\* llama_decode of a batch succeeds when the context accepts a batch of this
\* size and has free cells for it; positions follow the runtime's own.
DecodeOk ==
  /\ pc = "decode"
  /\ NEval <= CtxBatch
  /\ kv + NEval <= NCtx
  /\ kv' = kv + NEval
  /\ n_past' = n_past + NEval
  /\ bi' = bi + NBatch
  /\ pc' = IF bi + NBatch < Len(embd) THEN "decode" ELSE "next"
  /\ UNCHANGED <<inp, embd, n_remain, n_consumed, res, delivered, chain,
                 outcome, calls>>

\* Mutant: return 1 without llama_sampler_free(smpl).
DecodeFailLeak ==
  /\ pc = "decode"
  /\ NEval > CtxBatch \/ kv + NEval > NCtx
  /\ pc' = "idle" /\ outcome' = "error"
  /\ UNCHANGED <<inp, embd, bi, n_past, n_remain, n_consumed, res, delivered,
                 chain, kv, calls>>

\* Mutant: a failed decode is retried, which changes nothing.
DecodeFailRetry ==
  /\ pc = "decode"
  /\ NEval > CtxBatch \/ kv + NEval > NCtx
  /\ UNCHANGED vars

\* llama_decode fails: free the chain and return 1.
DecodeFail ==
  /\ pc = "decode"
  /\ NEval > CtxBatch \/ kv + NEval > NCtx
  /\ Finish("error")
  /\ UNCHANGED <<inp, embd, bi, n_past, n_remain, n_consumed, res, delivered,
                 kv, calls>>

\* The checks at the end of an iteration: the antiprompt loop (only once the
\* prompt is consumed), then the end-of-generation test on embd.back().
EndOfIteration(consumedAll, r, e) ==
  IF consumedAll /\ AntipromptHit(r) THEN Finish("antiprompt")
  ELSE IF e # <<>> /\ e[Len(e)] = EOG THEN Finish("eog")
  ELSE pc' = "loop" /\ UNCHANGED <<chain, outcome>>

\* Mutant: --n_remain left out.
SampleTokenNoDecrement(id) ==
  /\ pc = "next"
  /\ Len(inp) <= n_consumed
  /\ embd' = <<id>>
  /\ delivered' = Append(delivered, id)
  /\ res' = res \o Piece[id]
  /\ EndOfIteration(TRUE, res \o Piece[id], <<id>>)
  /\ UNCHANGED <<inp, bi, n_past, n_remain, n_consumed, kv, calls>>

\* Prompt consumed: sample a token, accept it, push it to embd and pass its
\* text to tokenCallback, which asks to go on.
SampleToken(id) ==
  /\ pc = "next"
  /\ Len(inp) <= n_consumed
  /\ embd' = <<id>>
  /\ n_remain' = n_remain - 1
  /\ delivered' = Append(delivered, id)
  /\ res' = res \o Piece[id]
  /\ EndOfIteration(TRUE, res \o Piece[id], <<id>>)
  /\ UNCHANGED <<inp, bi, n_past, n_consumed, kv, calls>>

\* As SampleToken, but tokenCallback returns false: break before the text
\* is added to res.
SampleCancelled(id) ==
  /\ pc = "next"
  /\ Len(inp) <= n_consumed
  /\ embd' = <<id>>
  /\ n_remain' = n_remain - 1
  /\ delivered' = Append(delivered, id)
  /\ Finish("cancelled")
  /\ UNCHANGED <<inp, bi, n_past, n_consumed, res, kv, calls>>

\* Prompt not consumed: move up to n_batch prompt tokens into embd.
FeedPrompt ==
  /\ pc = "next"
  /\ Len(inp) > n_consumed
  /\ LET k == StdMin(NBatch, Len(inp) - n_consumed)
     IN  /\ embd' = SubSeq(inp, n_consumed + 1, n_consumed + k)
         /\ n_consumed' = n_consumed + k
         /\ EndOfIteration(n_consumed + k >= Len(inp), res,
                            SubSeq(inp, n_consumed + 1, n_consumed + k))
  /\ UNCHANGED <<inp, bi, n_past, n_remain, res, delivered, kv, calls>>

\* get_embeddings (get_token_embeddings renders its tokens to text and calls
\* it): the prompt is tokenized without the BOS fallback and decoded as one
\* batch in the same context.  An empty prompt or a failed decode returns 1
\* and leaves the context as it was; a decode that succeeds leaves its
\* cells in use, whether or not the embeddings can then be read.
GetEmbeddings(p) ==
  /\ pc = "idle"
  /\ calls < MaxCalls
  /\ calls' = calls + 1
  /\ \/ /\ p # <<>>
        /\ Len(p) <= CtxBatch
        /\ kv + Len(p) <= NCtx
        /\ kv' = kv + Len(p)
     \/ /\ p = <<>> \/ Len(p) > CtxBatch \/ kv + Len(p) > NCtx
        /\ UNCHANGED kv
  /\ UNCHANGED <<pc, inp, embd, bi, n_past, n_remain, n_consumed, res,
                 delivered, chain, outcome>>

\* The steps of a call in progress.
Step ==
  \/ BudgetExhausted
  \/ SkipDecode
  \/ BeginDecode
  \/ ContextShift
  \/ DecodeOk
  \/ DecodeFail
  \/ \E id \in Tokens : SampleToken(id) \/ SampleCancelled(id)
  \/ FeedPrompt

Next ==
  \/ \E p \in Prompts : PromptTooLong(p) \/ BeginPredict(p) \/ GetEmbeddings(p)
  \/ Step

\* The call runs on the host's thread without interruption, and
\* tokenCallback returns: a call that has started keeps taking steps.
Spec == Init /\ [][Next]_vars /\ WF_vars(Step)

-----------------------------------------------------------------------------
(***************************************************************************)
(* Properties.                                                             *)
(***************************************************************************)

TypeOK ==
  /\ pc \in {"idle", "loop", "decode", "next"}
  /\ inp \in Seq(Tokens)
  /\ embd \in Seq(Tokens)
  /\ bi \in Nat
  /\ n_past \in Int
  /\ n_remain \in 0..NPredict
  /\ n_consumed \in Nat
  /\ res \in Seq(Chars)
  /\ delivered \in Seq(Tokens)
  /\ chain \in {"none", "live"}
  /\ outcome \in Outcomes
  /\ kv \in 0..NCtx
  /\ calls \in 0..MaxCalls

\* The budget n_predict: a call never hands more than n_predict tokens to
\* tokenCallback (the while (n_remain != 0) loop with one --n_remain per
\* sampled token).
BudgetRespected == Len(delivered) <= NPredict

\* The output text ends with one of the configured antiprompts.
OutputEndsWithAntiprompt ==
  \E j \in 1..Len(Antiprompts), k \in 0..Len(res) :
    SubSeq(res, k + 1, Len(res)) = Antiprompts[j]

\* The antiprompt stop: once the accumulated output ends with an
\* antiprompt, no further token is sampled in that call.
NoSampleAfterAntiprompt ==
  [][Len(delivered') > Len(delivered) /\ pc = "next"
       => ~OutputEndsWithAntiprompt]_vars

\* Every exit path of llama_predict releases the sampler chain: whenever no
\* call is in progress, smpl has been freed.
ChainReleased == pc = "idle" => chain = "none"

\* The context shift leaves a pending batch that, with the n_past it sets,
\* fits the context size: max(1, n_keep) + n_left/2 + |embd| <= n_ctx.
ShiftFitsWindow ==
  [][pc = "loop" /\ pc' = "decode" /\ Overflow
        => n_past' + Len(embd') <= NCtx]_vars

\* Every call returns: a call that has started ends, by the budget, a stop
\* condition, the callback or a decode error.
CallTerminates == pc # "idle" ~> pc = "idle"

-----------------------------------------------------------------------------
(***************************************************************************)
(* Refinement: llama_predict implements the call GenerationCall describes. *)
(* The host sees a call feeding its prompt while prompt tokens remain to   *)
(* be moved into embd, and generating once n_consumed has reached the end *)
(* of embd_inp; the tokens delivered and the outcome are the same.        *)
(***************************************************************************)
CallPhase ==
  IF pc = "idle" THEN "idle"
  ELSE IF n_consumed < Len(inp) THEN "feeding" ELSE "generating"

Call == INSTANCE GenerationCall WITH phase <- CallPhase

\* Each call of llama_predict behaves as spec 4.3's state machine: tokens
\* reach tokenCallback only once the prompt is consumed and within the
\* budget, the budget stop comes exactly after n_predict tokens, a refusal
\* ends the call on the token refused, and every call returns.
ImplementsCall == Call!Spec

(***************************************************************************)
(* What the spec says and the code does not do (checked as a violation).     *)
(***************************************************************************)

\* Spec 4.2/3: the windowing pass keeps the pending work within the
\* runtime's capacity and 7: prompts that fit are decoded; so, with a
\* context that accepts n_batch tokens, no call ends in a decode error.
NoDecodeError == outcome # "error"

=============================================================================
