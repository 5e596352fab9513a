------------------------- MODULE SessionPersistence -------------------------
(***************************************************************************)
(* save_state and load_state of src/pkg/llama.cpp/llama.cpp: the runtime's *)
(* session state (its KV cells and what they hold) written to a file and  *)
(* read back.  The runtime serialises only the cells in use, so the size  *)
(* llama_state_get_size reports grows with them: SnapshotSize(c) bytes for *)
(* c cells.  A file holds the first len bytes of the serialisation of one *)
(* session state.  The caller's modes are the ones the host passes, "wb"  *)
(* for save_state (fopen truncates) and "rb" for load_state.              *)
(*                                                                         *)
(* Between save_state's fopen and its fwrite the process may die; a       *)
(* restarted process has a fresh context.  llama_predict, which fills the  *)
(* cells, is one step (Generate) here; GenerationLoop models it in full.  *)
(***************************************************************************)
EXTENDS Naturals

CONSTANTS
  NCtx,     \* n_ctx: the cells of the context
  Tags,     \* what the cells of a session may hold, abstractly
  MaxOps    \* bound on the operations of a behaviour

ASSUME PersistenceAssumption ==
  NCtx \in Nat /\ Tags # {} /\ "empty" \notin Tags /\ MaxOps \in Nat

\* The state of a fresh context: no cells in use.
Fresh == [cells |-> 0, tag |-> "empty"]

SessionStates == [cells : 0..NCtx, tag : Tags \cup {"empty"}]

\* llama_state_get_size: a header and one unit per cell in use.
SnapshotSize(c) == 1 + c

NoFile == [snap |-> Fresh, len |-> 0, exists |-> FALSE]

VARIABLES
  live,     \* the runtime's session state in the process
  file,     \* the state file: the first len bytes of the snapshot of snap
  pc,       \* "idle", or "saving" between fopen and fwrite of save_state
  lastOp,   \* what the last step returned to the host ("none": nothing)
  ops       \* operations so far

vars == <<live, file, pc, lastOp, ops>>

\* The file holds the whole snapshot of the state it was taken of.
FileComplete == file.exists /\ file.len = SnapshotSize(file.snap.cells)

Init ==
  /\ live = Fresh
  /\ file = NoFile
  /\ pc = "idle"
  /\ lastOp = "none"
  /\ ops = 0

\* An operation of the host starts only when none is in progress.
Begin == pc = "idle" /\ ops < MaxOps /\ ops' = ops + 1

\* llama_predict decodes tokens into further cells; the binding never
\* removes one.
Generate ==
  /\ Begin
  /\ \E c \in (live.cells + 1)..NCtx, t \in Tags : live' = [cells |-> c, tag |-> t]
  /\ lastOp' = "generate"
  /\ UNCHANGED <<file, pc>>

\* save_state: fopen(dst, modes) fails; the function returns (void).
SaveOpenFail ==
  /\ Begin
  /\ lastOp' = "save_returned"
  /\ UNCHANGED <<live, file, pc>>

\* save_state: fopen(dst, "wb") succeeds and truncates the file.
SaveOpen ==
  /\ Begin
  /\ file' = [snap |-> live, len |-> 0, exists |-> TRUE]
  /\ pc' = "saving"
  /\ lastOp' = "none"
  /\ UNCHANGED live

\* save_state: llama_state_get_data fills the buffer (0 bytes when it
\* fails); fwrite writes what it can of them, its count unchecked; fclose;
\* return (void).
SaveWrite ==
  /\ pc = "saving"
  /\ \E written \in {0, SnapshotSize(live.cells)} :
       \E n \in 0..written : file' = [file EXCEPT !.len = n]
  /\ pc' = "idle"
  /\ lastOp' = "save_returned"
  /\ UNCHANGED <<live, ops>>

\* load_state: fopen(statefile, "rb") fails; return 1.
LoadOpenFail ==
  /\ Begin
  /\ ~file.exists
  /\ lastOp' = "load_error"
  /\ UNCHANGED <<live, file, pc>>

\* fread(state_mem, 1, state_size, fp) with state_size taken from the
\* current context.
ReadCount == IF file.len < SnapshotSize(live.cells)
               THEN file.len ELSE SnapshotSize(live.cells)

\* Mutant: llama_state_set_data called on the buffer before fread's count
\* is checked.
LoadShortReadSetFirst ==
  /\ Begin
  /\ file.exists
  /\ ReadCount # SnapshotSize(live.cells)
  /\ live' \in {live, Fresh}
  /\ lastOp' = "load_error"
  /\ UNCHANGED <<file, pc>>

\* load_state: fread returns fewer than state_size bytes; return 1.
LoadShortRead ==
  /\ Begin
  /\ file.exists
  /\ ReadCount # SnapshotSize(live.cells)
  /\ lastOp' = "load_error"
  /\ UNCHANGED <<live, file, pc>>

\* llama_state_set_data accepts the state_size bytes read: they are the
\* whole snapshot of a state with as many cells as the context uses now.
SetDataAccepts ==
  /\ file.snap.cells = live.cells
  /\ file.len = SnapshotSize(file.snap.cells)

\* load_state: state_size bytes read and llama_state_set_data called on
\* them.  It installs the snapshot, or returns 0 (return 1), after the
\* runtime has cleared the cells it failed to read or left them as they
\* were.
LoadSetData ==
  /\ Begin
  /\ file.exists
  /\ ReadCount = SnapshotSize(live.cells)
  /\ \/ /\ SetDataAccepts
        /\ live' = file.snap
        /\ lastOp' = "load_ok"
     \/ /\ ~SetDataAccepts
        /\ live' \in {live, Fresh}
        /\ lastOp' = "load_error"
  /\ UNCHANGED <<file, pc>>

\* The process dies, at any point, and is restarted with a fresh context;
\* the file stays as it is.
Crash ==
  /\ ops < MaxOps
  /\ ops' = ops + 1
  /\ live' = Fresh
  /\ pc' = "idle"
  /\ lastOp' = "crash"
  /\ UNCHANGED file

Next ==
  \/ Generate
  \/ SaveOpenFail \/ SaveOpen \/ SaveWrite
  \/ LoadOpenFail \/ LoadShortRead \/ LoadSetData
  \/ Crash

Spec == Init /\ [][Next]_vars

-----------------------------------------------------------------------------
TypeOK ==
  /\ live \in SessionStates
  /\ file \in [snap : SessionStates, len : 0..SnapshotSize(NCtx), exists : BOOLEAN]
  /\ pc \in {"idle", "saving"}
  /\ lastOp \in {"none", "generate", "save_returned", "load_ok", "load_error",
                 "crash"}
  /\ ops \in 0..MaxOps

\* Spec 4.4: restoring from a file shorter than the state size fails
\* (fread's count is checked before llama_state_set_data) and leaves the
\* live session as it was.
TruncatedRestoreHarmless ==
  [][lastOp' = "load_error" /\ file.len < SnapshotSize(live.cells)
       => live' = live]_vars

(***************************************************************************)
(* What the spec says and the code does not do (checked as violations).    *)
(***************************************************************************)

\* Spec 3, 4.4: one file holds exactly one snapshot: once a whole
\* snapshot is on disk, no step leaves the file without one.
CompleteSnapshotKept == [][FileComplete => FileComplete']_vars

\* Spec 4.4: a snapshot is valid for the runtime it was taken from (same
\* context size, same model): restoring a whole snapshot into the same
\* context succeeds.
RestoreOwnSnapshot ==
  [][lastOp' \in {"load_ok", "load_error"} /\ FileComplete
       => lastOp' = "load_ok"]_vars

=============================================================================
