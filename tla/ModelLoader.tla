--------------------------- MODULE ModelLoader ----------------------------
(***************************************************************************)
(* load_model and llama_binding_free_model of src/pkg/llama.cpp/llama.cpp: *)
(* the model and context handles the binding allocates and frees, and the *)
(* static float tensor_split_values[128] that load_model fills from the   *)
(* tensorsplit argument.  The array has Slots entries here, and a         *)
(* tensorsplit string is the sequence of the ratios it parses to (the     *)
(* regex split on [,/]+ and std::stof).  Loads are numbered: load n       *)
(* creates model n and context n.                                          *)
(***************************************************************************)
EXTENDS Naturals, Sequences

CONSTANTS
  Slots,      \* the length of tensor_split_values (128 in the code)
  Ratios,     \* the nonzero ratios a tensorsplit string may give
  Splits,     \* the tensorsplit arguments explored, as sequences of Ratios
  MaxLoads    \* bound on the calls of load_model

ASSUME LoaderAssumption ==
  /\ Slots \in Nat \ {0}
  /\ 0 \notin Ratios
  /\ Splits \subseteq Seq(Ratios)
  /\ MaxLoads \in Nat

VARIABLES
  splitValues,  \* tensor_split_values: static, zero-initialised once
  passed,       \* the tensor_split the last model was loaded with (<<>>:
                \* nullptr, the runtime's default)
  lastSplit,    \* the tensorsplit argument of that load
  created,      \* models llama_model_load_from_file has created
  models,       \* model handles allocated and not freed
  ctxs,         \* context handles allocated and not freed
  handles,      \* llama_binding_state objects returned to the host
  loads         \* calls of load_model so far

vars == <<splitValues, passed, lastSplit, created, models, ctxs, handles,
          loads>>

Init ==
  /\ splitValues = [i \in 1..Slots |-> 0]
  /\ passed = <<>>
  /\ lastSplit = <<>>
  /\ created = {}
  /\ models = {}
  /\ ctxs = {}
  /\ handles = {}
  /\ loads = 0

\* Mutant: the i < 128 test dropped; a longer split writes past the array.
FilledUncapped(split) ==
  [i \in 1..(IF Len(split) > Slots THEN Len(split) ELSE Slots) |->
     IF i <= Len(split) THEN split[i] ELSE splitValues[i]]

\* The copy loop: for (i = 0; i < 128 && i < split_arg.size(); ++i).
Filled(split) ==
  [i \in 1..Slots |-> IF i <= Len(split) THEN split[i] ELSE splitValues[i]]

\* What load_model does up to llama_model_load_from_file: an empty
\* tensorsplit leaves model_params.tensor_split at its default, else the
\* array is filled and passed.
ParseSplit(split) ==
  /\ IF split = <<>>
       THEN UNCHANGED splitValues /\ passed' = <<>>
       ELSE splitValues' = Filled(split) /\ passed' = Filled(split)
  /\ lastSplit' = split
  /\ loads' = loads + 1

\* llama_model_load_from_file returns nullptr: return nullptr.
LoadModelFail(split) ==
  /\ loads < MaxLoads
  /\ ParseSplit(split)
  /\ UNCHANGED <<created, models, ctxs, handles>>

\* Mutant: the context failure path returns without llama_model_free.
LoadContextFailLeak(split) ==
  /\ loads < MaxLoads
  /\ ParseSplit(split)
  /\ created' = created \cup {loads + 1}
  /\ models' = models \cup {loads + 1}
  /\ UNCHANGED <<ctxs, handles>>

\* llama_init_from_model returns nullptr: the model is freed, return
\* nullptr.
LoadContextFail(split) ==
  /\ loads < MaxLoads
  /\ ParseSplit(split)
  /\ created' = created \cup {loads + 1}
  /\ UNCHANGED <<models, ctxs, handles>>

\* Model and context created (a LoRA adapter that fails to load is only
\* warned about): a new llama_binding_state holding both is returned.
LoadOk(split) ==
  /\ loads < MaxLoads
  /\ ParseSplit(split)
  /\ created' = created \cup {loads + 1}
  /\ models' = models \cup {loads + 1}
  /\ ctxs' = ctxs \cup {loads + 1}
  /\ handles' = handles \cup {[model |-> loads + 1, ctx |-> loads + 1]}

\* llama_binding_free_model: llama_free(ctx), llama_model_free(model),
\* delete state.
FreeModel(h) ==
  /\ h \in handles
  /\ ctxs' = ctxs \ {h.ctx}
  /\ models' = models \ {h.model}
  /\ handles' = handles \ {h}
  /\ UNCHANGED <<splitValues, passed, lastSplit, created, loads>>

Next ==
  \/ \E split \in Splits :
       LoadModelFail(split) \/ LoadContextFail(split) \/ LoadOk(split)
  \/ \E h \in handles : FreeModel(h)

Spec == Init /\ [][Next]_vars

-----------------------------------------------------------------------------
TypeOK ==
  /\ splitValues \in [1..Slots -> Ratios \cup {0}]
  /\ passed \in [1..Slots -> Ratios \cup {0}] \cup {<<>>}
  /\ lastSplit \in Splits \cup {<<>>}
  /\ created \subseteq 1..MaxLoads
  /\ models \subseteq created
  /\ ctxs \subseteq 1..MaxLoads
  /\ handles \subseteq [model : 1..MaxLoads, ctx : 1..MaxLoads]
  /\ loads \in 0..MaxLoads

\* Every model and context the binding allocated is reachable from exactly
\* one handle the host holds: the failure paths of load_model free what
\* they made, and llama_binding_free_model frees both.
HandlesOwnResources ==
  /\ models = {h.model : h \in handles}
  /\ ctxs = {h.ctx : h \in handles}
  /\ \A h, g \in handles : h.model = g.model => h = g

(***************************************************************************)
(* What the spec says and the code does not do (checked as a violation).   *)
(***************************************************************************)

\* Spec 9: the tensor-split ratios a model is loaded with are those of its
\* own call, followed by zeros: no value left from an earlier load_model.
TensorSplitFresh ==
  passed # <<>>
    => passed = [i \in 1..Slots |-> IF i <= Len(lastSplit) THEN lastSplit[i]
                                                          ELSE 0]

=============================================================================
