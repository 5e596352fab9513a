# TLA+ models of the llama.cpp binding and its desktop shell

This directory holds TLA+ models of the C++ code under `src/`, the TLC configurations that check them, and TLAPS proofs. The code has three parts:

- `src/pkg/llama.cpp/llama.cpp` is the C binding that a host program calls to generate text with llama.cpp. The core is:
  - `llama_predict`, the streaming decode loop;
  - the sampler chain that the loop builds;
  - `save_state`/`load_state`, which snapshot and restore a session;
  - `load_model`/`llama_binding_free_model`.
- `src/client-side/linux/runner/my_application.cc` is the GTK application shell: a window that closes to a status icon.
- `src/client-side/windows/runner/tray_icon.cpp` is the Windows notification-area icon.

`PROJECT.json` lists every component, run, mutant, mapped line range, finding, hazard and theorem.

## 1. Inventory

### How the parts interact

The host allocates a parameter struct (`llama_allocate_params`) and a model/context handle (`load_model`). It then calls:

- `llama_predict`, which streams each token's text to the host callback `tokenCallback`;
- `get_embeddings`/`get_token_embeddings`, which decode a prompt in the same context;
- `save_state`/`load_state`, on the same handle, between calls.

Finally it frees the handle.

All of these are synchronous on the caller's thread (spec §5). The runtime context, and with it its KV cells, lives as long as the handle. It is shared by every later call of `llama_predict` and `get_embeddings`, and by the state functions.

The two desktop shells are independent of the binding. Each is a set of callbacks run one at a time by its UI toolkit.

### State and operations

| Component | State | Operations (code) |
|---|---|---|
| Embeddings | the runtime's KV cells | `get_embeddings` (113-147), `get_token_embeddings` (150-163) |
| Decode loop | `embd_inp`, `embd`, `n_past`, `n_remain`, `n_consumed`, `res`, the chain `smpl`, the runtime's KV cells | prompt check (185-189), loop test (282), context shift (286-293), batch decode (295-309), sample and callback (314-326), prompt feed (327-335), antiprompt and end-of-generation stops (337-354), free and return (357-364) |
| Sampler chain | the ordered stages of `smpl` | construction (191-271) |
| Persistence | the session state in the runtime, the state file | `save_state` (446-467), `load_state` (411-444) |
| Loader | `static tensor_split_values[128]`, model and context handles | `load_model` (579-673), `llama_binding_free_model` (367-376) |
| Linux shell | `g_main_window`, `g_status_icon`, the popup menu | activate, first frame, delete-event, icon activate, popup menu, Exit item, shutdown |
| Windows tray | `nid`, `visible` | `Create`, `Show`, `Hide`, `Destroy`, `IsVisible` |

### What makes it hard

- **The loop across calls.** The binding never removes a KV cell:
  - `llama_batch_get_one` gives no positions, so the runtime appends every batch after the cells it holds;
  - the context shift only resets the local `n_past`;
  - a new call only resets its locals.

  Whether a decode fails therefore depends on what earlier iterations and earlier calls did.
- **Text-level stops over token-level steps.** Antiprompts are matched as suffixes of the accumulated text. One token's text can hold several characters.
- **Error and cancel paths.** Every `return` after the chain is built must free it. The cancel `break` sits between delivering a token and adding it to `res`.
- **A persistent file written in place.** The file is written in place, with a crash possible between truncation and write. The read size comes from the current state, not from the snapshot.
- **Process-wide statics** (`tensor_split_values`, `g_main_window`, `nid`/`visible`) that outlive the call that set them.

## 2. Modules

| Module | Models | Variables ↔ code |
|---|---|---|
| `GenerationLoop` | `llama_predict` (165-365) and the runtime's KV occupancy | `pc` is the control point ("idle", loop head, inside the batch `for`, after `embd.clear()`). `inp`=`embd_inp`. `bi`=`i`. `n_past`, `n_remain` and `n_consumed` as in the code. `res` is the text. `delivered` holds the tokens given to `tokenCallback`. `chain` says whether `smpl` is allocated. `kv` counts the KV cells in use. |
| `GenerationCall` | one call of `llama_predict` as the host sees it | `phase` is "idle", "feeding" or "generating". `delivered` holds the tokens handed over. `outcome` is how the call ended. |
| `SamplerChain` | chain construction (191-271) | `cfg` holds the fields the conditions read (in hundredths). `chain` is the sequence of stage names. |
| `SessionPersistence` | `save_state`, `load_state` | `live` is the session state (cells in use, content tag). `file` holds the snapshot it was taken of, how many bytes of it are written, and whether the file exists. `pc` is "saving" between fopen and fwrite. |
| `ModelLoader` | `load_model`, `llama_binding_free_model` | `splitValues` is the static array. `passed` is what the runtime received. `models`, `ctxs` and `handles` are the live allocations. |
| `AppShell` | `my_application.cc` | `window`/`icon` are the two statics. `menu` is the popup menu. `running` says whether the application is running. |
| `TrayIcon` | `tray_icon.cpp` | `created` says whether `Create` filled `nid`. `visible` is the flag. `shown` is what the shell shows. |
| `GenerationLoopProofs`, `GenerationLoopActionProofs`, `SamplerChainProofs`, `SessionPersistenceProofs`, `ModelLoaderProofs`, `AppShellProofs`, `TrayIconProofs` | TLAPS proofs about the module each is named after | |
| `MC*` | TLC instances | |

Each action is one whole handler or one step between two points where the code can be interrupted or observed:

- **`GenerationLoop`**: each action runs from one loop point to the next. `BeginPredict` covers tokenization, the chain build and the initialisation of the locals. `SampleToken` covers sample, accept, push, decrement, callback, `res +=` and the two stop checks. `GetEmbeddings` is a whole call of `get_embeddings`. It returns 1 on an empty prompt. Otherwise it decodes the prompt as one batch into the shared context and leaves the cells there, including when no embeddings can then be read.
- **`SessionPersistence`**: `save_state` is split at `fopen` (`SaveOpen`/`SaveWrite`), because a crash there is the interesting case.

Abstractions:

- **Data.** Tokens are model values, and a token's text is a short sequence of characters. The sampler is a nondeterministic choice of any token.
- **The runtime.** It is modelled only through what the binding observes:
  - `llama_decode` fails when the batch exceeds the context's `n_batch` or the free cells;
  - the state size is `1 + cells`;
  - `llama_state_set_data` accepts exactly a whole snapshot with as many cells as the context uses.
- **Undefined behaviour.** Reading past the end of `embd_inp` gives any token (`junk`).

## 3. Runs

Every run's module is an `MC*` module that extends the component and supplies small model values.

| Run | Bounds | Checks |
|---|---|---|
| `gen_loop` | `n_ctx` 8, both batches 2, `n_keep` 1, `n_predict` 6, 2 calls (`llama_predict` or `get_embeddings`); prompts `<<>>`, `a`, `a eog a`, `b a b a`, `a a a a a`; antiprompt "xy"; `b` has text "xy" | `TypeOK`, `BudgetRespected`, `ChainReleased`, `NoSampleAfterAntiprompt` (action), `ShiftFitsWindow` (action), `CallTerminates` (liveness), `ImplementsCall` (refinement) |
| `chain` | 3072 configurations, covering both sides of every condition of 191-271 | `TypeOK`, `ExactlyOneSelector`, `MirostatExclusive`, `PenaltiesFirst` |
| `persistence` | 3 cells, 2 contents, 6 operations including crashes | `TruncatedRestoreHarmless` |
| `loader` | 2 slots, splits of length 0-3, 3 loads | `TypeOK`, `HandlesOwnResources` |
| `shell` | buttons 1 and 3, 7 signals | `HiddenWindowRecoverable` |
| `tray` | 24 calls | `NoStrayIcon` |

The bounds are chosen so that the cases that matter happen:

- **`gen_loop`**:
  - the three- and four-token prompts take two batches each;
  - the five-token prompt is rejected by the length check at line 185 (5 > `n_ctx` - 4);
  - `b`'s two-character text can overshoot the antiprompt;
  - an EOG token occurs inside a prompt;
  - six tokens in a context of eight force the context shift;
  - the second call meets the cells of the first `llama_predict` or `get_embeddings`.
- **`persistence`**: six operations are enough for save, generate, crash in a save, and restore from every kind of file.
- **`loader`**: a split longer than the array and a later shorter split both occur.

Deadlock is not checked: every model ends when its operation bound is used up.

Every property of a passing run has a mutant in `PROJECT.json`: a plausible bug in a mapped definition that TLC finds.

### Violation runs

Each violation run checks one statement of the spec or of the code about itself, and TLC finds it violated:

- **`gen_shift_error`** (`NoDecodeError`): `llama_decode` fails after a context shift. It also fails in a call that follows an earlier `llama_predict` or `get_embeddings` on the same state. The binding never removes KV cells, so the shift frees nothing and a new call starts behind the old cells.
- **`persist_snapshot_kept`**: `save_state` truncates the only snapshot before it has the new one. A failed `get_data`, a short write or a crash in between leaves no snapshot.
- **`persist_restore_own`**: a whole snapshot cannot be restored into the context it came from once generation has added cells, because `load_state` sizes its read from the current state.
- **`loader_tensor_split`**: stale tensor-split ratios from an earlier call are passed to the runtime.
- **`shell_quit`**: the Exit item does nothing, because `gtk_main_quit` has no `gtk_main` loop to leave.
- **`tray_flag`**: `IsVisible()` does not match the shell after a failed `NIM_ADD` or an Explorer restart.

### Other divergences

These were found while modelling and are not kept as runs:

- **Cancel** (`llama.cpp:322`): the loop breaks before `res += token_str`, so a cancelled result lacks the last delivered token. Spec §8 (and §6, "partial output is preserved") expects a sink that stops on the *k*-th token to leave exactly *k* tokens in the result. No run checks this: the project already has as many runs as it keeps, and the model (`SampleCancelled`) does what the code does, leaving `res` without the refused piece.
- **`ignore_eos`** is never read (`llama.cpp:352`).
- **EOG inside a prompt**: the EOG test looks at `embd.back()` after a prompt batch too, so an EOG token in the prompt stops the call (`llama.cpp:352`).
- **Shift slice**: the shift copies `embd_inp[n_keep, n_keep + n_left/2)`, which runs past a short prompt's end (`llama.cpp:291`).
- **Unparsable grammar**: a grammar that fails to parse is left out of the chain without an error (`llama.cpp:268`). Spec §7 calls it a ConfigError.
- **Grammar stage order**: the grammar stage is appended after the selecting stage, as spec §4.1 orders it (`llama.cpp:269`). So spec §8's "output never violates the grammar" cannot rest on the chain.
- **`save_state` returns void** (`llama.cpp:446`). Spec §6 asks for a success or error result.
- **Rejected restore**: a restore the runtime rejects may already have cleared the session (`llama.cpp:433`).

### Refinement: the loop implements the host-level call

`GenerationCall` says what one call of `llama_predict` promises its host, with no batches, positions or KV cells. A call is rejected before it starts, or it starts, feeds its prompt, generates, and ends with one outcome. Each generated token is handed over within the budget `n_predict`. A call that has started keeps going until it returns (`WF` on its progress steps).

`GenerationLoop` instantiates it as `Call == INSTANCE GenerationCall WITH phase <- CallPhase`. `delivered` and `outcome` map to themselves. `CallPhase` is:

- "idle" when `pc = "idle"`;
- "feeding" while `n_consumed < |embd_inp|`;
- "generating" after that.

The run `gen_loop` checks `ImplementsCall == Call!Spec`, including the fairness. Steps correspond as follows:

- `PromptTooLong` is `Reject`, and `BeginPredict` is `Start`.
- The `FeedPrompt` that consumes the last prompt tokens is `PromptConsumed`, or a stop if an EOG token ends the prompt batch.
- `SampleToken` and `SampleCancelled` are `Deliver`.
- `BudgetExhausted` and `DecodeFail` are `Stop`.
- Everything else stutters: decoding, the context shift, earlier prompt batches, and `get_embeddings`.

The mutant `BeginPredictShortBudget` starts the budget one short. The loop is then no longer a refinement, because the abstract call promises the whole budget before `Stop("budget")`.

The abstract spec follows the code where the code and spec §4.3 differ: an EOG token inside the prompt ends a call that is still feeding.

## 4. Fairness

`GenerationLoop`'s `Spec` has `WF_vars(Step)`. A call runs on the host's thread without interruption, and `tokenCallback` returns (spec §5: the sink must not block indefinitely). So once a call has started, its next step is always taken. Two properties rest on this:

- `CallTerminates`: every call returns.
- The fairness part of `ImplementsCall`: `WF_cvars(Progress)` of `GenerationCall`.

The choice of a new call (`BeginPredict`, `GetEmbeddings`) is not fair, because the host may stop calling. The other models check no liveness.

## 5. Proofs

Seven modules hold TLAPS proofs. Each proof holds for every value of the constants that satisfies the named assumptions of the module it extends. Each safety theorem has the form `Spec => []P`. It is proved from an inductive invariant `IInv`:

- `InitIInv`: `Init => IInv`;
- `NextIInv`: `IInv /\ [Next]_vars => IInv'`, with one step per action;
- `IInv => P`;
- PTL combines the three.

TLC checked each `IInv` as an invariant of the component's passing run before it was proved.

### `GenerationLoopProofs`

**Assumptions:**

- `n_ctx`, `n_predict` and `MaxCalls` are naturals;
- both batch sizes are at least 1;
- `n_keep` is in 0..`n_ctx`;
- `Piece` gives each token a character sequence;
- the prompts are token sequences.

**Theorems:**

- `TypeCorrect`: `Spec => []TypeOK`.
- `ChainFreedOnReturn`: `Spec => []ChainReleased`.
- `BudgetSafety`: `Spec => []BudgetRespected`.
- `CallRefinement`: `Spec => Call!SafeSpec`. `LEMMA StepRefines` shows that every step of `Next`, under `IInv`, is a step of `GenerationCall` or a stutter of its variables. `Init` maps to `Call!Init`.

**Inductive invariant.** `TypeOK` is not inductive alone, because bounding `n_remain` and `kv` needs facts about where the loop is. `IInv` adds:

- `ChainReleased`;
- `RemainPositive`: inside the loop body, `n_remain >= 1`;
- `OffsetInBatch`: inside the batch loop, `i < |embd|`;
- `BudgetAccounting`: `|delivered| + n_remain = n_predict`.

The refinement needs `BudgetAccounting` and `RemainPositive` to show that a delivered token is within the abstract budget.

**Lemmas:**

- `TokenizedType` and `TokenizedNonEmpty`;
- `ShiftSliceType`;
- `InnerStepStutters`.

### `GenerationLoopActionProofs`

This module proves the loop's action properties and two facts about the context shift. It extends `GenerationLoopProofs` and reuses `IInv`. `IInv` alone cannot rule out a shift during the prompt, or a sample after an antiprompt, so the module adds a second invariant `WInv`:

- `PromptFits`: a running call's prompt is non-empty and at most `n_ctx - 4` tokens long;
- `PastWithinCells`: `n_past <= kv`;
- `FeedingAligned`: while nothing is delivered, `n_past` plus the undecoded part of `embd` equals `n_consumed`, and `n_consumed <= |embd_inp|`;
- `GeneratingOneToken`: once a token is delivered, the prompt is consumed, and at the loop head `embd` is that one token;
- `NoPendingAntiprompt`: a call that goes on with its prompt consumed has text that does not end with an antiprompt.

`WInv` was checked by TLC on the `gen_loop` instance before it was proved, with `n_keep` in {0, 1, 7, 8} and with other batch sizes. `InitWInv` and `NextWInv` prove it inductive together with `IInv`.

**The key lemma.** `OverflowOnlyWhenFull` says that an overflow at the loop head happens only while generating, with one pending token and `n_past = kv = n_ctx`. During the prompt, `n_past + |embd| = n_consumed <= n_ctx - 4`.

**Theorems:**

- `AntipromptStopsSampling`: `Spec => NoSampleAfterAntiprompt`. A step that delivers a token from `pc = "next"` samples, so the prompt is consumed. `NoPendingAntiprompt` then excludes an antiprompt suffix. `SuffixEndsWith` connects the property's suffix form to the code's `substr` test.
- `ShiftFits`: `ASSUME NKeep < NCtx PROVE Spec => ShiftFitsWindow`. At a shift, `n_past = n_ctx` and `|embd| = 1`, so the shift leaves `max(1, n_keep) + (n_ctx - n_keep) \div 2 + 1` positions, which is at most `n_ctx` exactly when `n_keep < n_ctx`. The hypothesis is needed. With `n_keep = n_ctx` (allowed by the code, which never checks `n_keep`; line 530 copies it), the shift inserts nothing and keeps `n_past = n_ctx`. Then `n_past + 1 = n_ctx + 1`, so `ShiftFitsWindow` fails there by the arithmetic of lines 287-295. No run of the project takes `NKeep = NCtx`; the `gen_loop` run uses `n_keep = 1`.
- `ShiftNeverReversed`: `Spec => []ShiftFromFullWindow` for every `n_keep` in 0..`n_ctx`. Since `n_past = n_ctx` at a shift, `n_left >= 0`. The reversed iterator range of line 287 is unreachable, and the guard `NShift >= 0` of `ContextShift` never blocks.
- `AntipromptTestIsSuffix`: the code's test (length guard, then `substr` comparison) holds exactly when an antiprompt is a suffix of the text.

### `SamplerChainProofs`

These theorems hold for every configuration (`Configs \subseteq ConfigType`), not just the 3072 configurations TLC enumerates:

- `TypeCorrect`;
- `OneSelectorPerChain` (`ExactlyOneSelector`);
- `PenaltiesComeFirst` (`PenaltiesFirst`);
- `MirostatAlone` (`MirostatExclusive`).

**The argument.** `ChainShape` shows that every `BuildChain(c)` is penalty stages, then shaping stages, then one selector, then shaping stages. It covers the three branches of `Base`/`Branch`, with `Opt` stages on or off. `ChainFacts` then reads the properties off that shape. The invariant is only `chain = IF built THEN BuildChain(cfg) ELSE <<>>`.

### `SessionPersistenceProofs`

- `TypeCorrect`: `Spec => []TypeOK` (not a run property; the next proof rests on it).
- `TruncatedRestoreIsHarmless` (`TruncatedRestoreHarmless`).

`TypeOK` is inductive as it stands, and it is all the action property needs: a short read leaves `live` and `file` unchanged.

### `ModelLoaderProofs`

- `TypeCorrect`: the copy loop stays inside the static array.
- `NoLeakedHandles` (`HandlesOwnResources`).

The invariant adds `HandlesFromOneLoad`: each handle holds the model and the context of one earlier load. Freeing one handle then cannot remove another's resources, and a new load's resources are fresh.

### `AppShellProofs` and `TrayIconProofs`

- `WindowAlwaysRecoverable` (`HiddenWindowRecoverable`).
- `NoIconWhenHidden` (`NoStrayIcon`).

Both invariants are inductive as they stand: the step that hides, or clears the flag, does the other half in the same callback.

### What stays with TLC

- **Liveness and the fairness part of the refinement** (`CallTerminates`, `ImplementsCall`'s `WF`). TLAPS cannot reason about `ENABLED` and fairness here.
- **`ShiftFitsWindow` at `n_keep = n_ctx`**, where it fails by the arithmetic above. No run checks this instance; it is recorded with the hazard at line 287.
- **The violation runs.** They show counterexamples, which is TLC's job.

## 6. Not modelled

- **Parameter allocation** (`llama_allocate_params`, 469-577) copies arguments into a struct. `SamplerChain`'s `Configs` and `GenerationLoop`'s constants stand for the struct it produces. The logit-bias parse reads one entry, and the bias is never used (listed as a hazard). `n_keep` is copied unchecked (line 530), and the model assumes it is in 0..`n_ctx`.
- **`llama_tokenize_string`, the getters and `apply_chat_template`**:
  - `llama_tokenize_string` is a read into a caller buffer;
  - the getters are pure reads of the runtime;
  - `apply_chat_template` is a stub returning -1.

  None of them changes state the binding keeps.
- **The copy of the embedding vector** out of the runtime is a read. Only the decode of `get_embeddings` is modelled.
- **`sigint_handler`** (80-84) is never installed, since nothing calls `signal` or `sigaction`.
- **`local_command_line`/`startup`/`dispose`** in the shell only chain to GApplication.
- **The headers** `llama.h` and `tray_icon.h` hold declarations only.
- **The host** (Go side, Flutter side) is not in the repository. The models assume its calls are serialised, as spec §5 requires.

## 7. Plan for later work

1. A session composition: `GenerationLoop`'s `kv` driving `SessionPersistence`'s `live.cells`, so that a restore between calls is checked against the loop.
2. A violation run for the cancel divergence (line 322 against spec §8), stating that a call stopped by the sink on the *k*-th token returns the text of all *k* tokens.
