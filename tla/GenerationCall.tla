-------------------------- MODULE GenerationCall ---------------------------
(***************************************************************************)
(* What one call of llama_predict promises its host, as seen from the      *)
(* host: the state machine of spec 4.3 (feeding the prompt, generating,   *)
(* and a terminal outcome) and the tokens handed to tokenCallback.        *)
(* Nothing here is about batches, positions or the context: those are the *)
(* business of GenerationLoop, which implements this specification under  *)
(* the mapping given there.                                               *)
(*                                                                         *)
(* The promise is the code's, not the spec's wherever they differ: an     *)
(* end-of-generation token inside the prompt ends a call that is still    *)
(* feeding it (spec 4.3 stops on EOG only while generating).              *)
(***************************************************************************)
EXTENDS Naturals, Sequences

CONSTANTS
  NPredict,   \* the budget n_predict
  Tokens      \* the tokens a call may hand to the host

VARIABLES
  phase,      \* "idle" between calls, "feeding" the prompt, "generating"
  delivered,  \* the tokens handed to tokenCallback by the current (last) call
  outcome     \* how the last call ended; "running" while it runs

cvars == <<phase, delivered, outcome>>

Init ==
  /\ phase = "idle"
  /\ delivered = <<>>
  /\ outcome = "none"

\* A prompt that does not fit is refused before any work (TokenizeError).
Reject ==
  /\ phase = "idle"
  /\ outcome' = "rejected"
  /\ UNCHANGED <<phase, delivered>>

\* A call starts with its prompt to feed and nothing delivered.
Start ==
  /\ phase = "idle"
  /\ phase' = "feeding"
  /\ delivered' = <<>>
  /\ outcome' = "running"

\* The last prompt tokens have been submitted: generation begins.
PromptConsumed ==
  /\ phase = "feeding"
  /\ phase' = "generating"
  /\ UNCHANGED <<delivered, outcome>>

\* One generated token is handed to the host, within the budget; the call
\* goes on, or ends on it: the text now ends with an antiprompt, the token
\* ends generation, or the host refused it.
Deliver(t) ==
  /\ phase = "generating"
  /\ Len(delivered) < NPredict
  /\ delivered' = Append(delivered, t)
  /\ \/ UNCHANGED <<phase, outcome>>
     \/ /\ phase' = "idle"
        /\ outcome' \in {"antiprompt", "eog", "cancelled"}

\* The call ends without handing over a token: a decode error, a stop
\* condition seen on the prompt, or the budget spent to the last token.
Stop(o) ==
  /\ phase # "idle"
  /\ o = "budget" => Len(delivered) = NPredict
  /\ phase' = "idle"
  /\ outcome' = o
  /\ UNCHANGED delivered

Outcomes == {"budget", "antiprompt", "eog", "error"}

\* The steps of a call in progress.
Progress ==
  \/ PromptConsumed
  \/ \E t \in Tokens : Deliver(t)
  \/ \E o \in Outcomes : Stop(o)

Next == Reject \/ Start \/ Progress

SafeSpec == Init /\ [][Next]_cvars

\* A call that has started keeps running until it returns.
Spec == SafeSpec /\ WF_cvars(Progress)

=============================================================================
