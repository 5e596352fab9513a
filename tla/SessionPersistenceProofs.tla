--------------------- MODULE SessionPersistenceProofs ----------------------
(***************************************************************************)
(* Proofs about save_state and load_state, for every context size, every  *)
(* set of session contents and every bound on the operations.             *)
(*                                                                         *)
(* TruncatedRestoreHarmless compares the file with the live state, so    *)
(* the proof needs both to keep their types; TypeOK is inductive as it    *)
(* stands.                                                                 *)
(***************************************************************************)
EXTENDS SessionPersistence, TLAPS

IInv == TypeOK

USE PersistenceAssumption

-----------------------------------------------------------------------------
LEMMA InitIInv == Init => IInv
BY DEF Init, IInv, TypeOK, Fresh, NoFile, SessionStates,
       SnapshotSize

\* Every snapshot size of a state of the context is a possible file length.
LEMMA SizeBound ==
  ASSUME NEW s \in SessionStates
  PROVE  SnapshotSize(s.cells) \in 0..SnapshotSize(NCtx)
BY DEF SessionStates, SnapshotSize

LEMMA NextIInv == IInv /\ [Next]_vars => IInv'
<1> SUFFICES ASSUME IInv, [Next]_vars
             PROVE  IInv'
  OBVIOUS
<1> USE DEF IInv, TypeOK
<1>1. CASE Generate
  BY <1>1 DEF Generate, Begin, SessionStates
<1>2. CASE SaveOpenFail
  BY <1>2 DEF SaveOpenFail, Begin
<1>3. CASE SaveOpen
  BY <1>3 DEF SaveOpen, Begin, SnapshotSize
<1>4. CASE SaveWrite
  <2>1. SnapshotSize(live.cells) \in 0..SnapshotSize(NCtx)
    BY SizeBound
  <2>2. PICK written \in {0, SnapshotSize(live.cells)} :
          \E n \in 0..written : file' = [file EXCEPT !.len = n]
    BY <1>4 DEF SaveWrite
  <2>3. PICK n \in 0..written : file' = [file EXCEPT !.len = n]
    BY <2>2
  <2>4. n \in 0..SnapshotSize(NCtx)
    BY <2>1, <2>2, <2>3 DEF SnapshotSize, SessionStates
  <2>5. file' \in [snap : SessionStates, len : 0..SnapshotSize(NCtx), exists : BOOLEAN]
    BY <2>3, <2>4
  <2> QED
    BY <1>4, <2>5 DEF SaveWrite
<1>5. CASE LoadOpenFail
  BY <1>5 DEF LoadOpenFail, Begin
<1>6. CASE LoadShortRead
  BY <1>6 DEF LoadShortRead, Begin
<1>7. CASE LoadSetData
  <2>1. live' \in SessionStates
    BY <1>7 DEF LoadSetData, Fresh, SessionStates
  <2> QED
    BY <1>7, <2>1 DEF LoadSetData, Begin
<1>8. CASE Crash
  BY <1>8 DEF Crash, Fresh, SessionStates
<1>9. CASE UNCHANGED vars
  BY <1>9 DEF vars
<1> QED
  BY <1>1, <1>2, <1>3, <1>4, <1>5, <1>6, <1>7, <1>8, <1>9 DEF Next

-----------------------------------------------------------------------------
\* The session state, the file and the operation bookkeeping keep their
\* types: in particular no file is ever longer than the snapshot of a full
\* context, and a restore only ever installs a state of the context.
THEOREM TypeCorrect == Spec => []TypeOK
<1>1. IInv => TypeOK
  BY DEF IInv
<1> QED
  BY InitIInv, NextIInv, <1>1, PTL DEF Spec

\* Spec 4.4: a restore from a file shorter than the state size fails
\* before llama_state_set_data is called, and leaves the live session as
\* it was: fread's count is checked first.
THEOREM TruncatedRestoreIsHarmless == Spec => TruncatedRestoreHarmless
<1>1. IInv /\ [Next]_vars
        => [lastOp' = "load_error" /\ file.len < SnapshotSize(live.cells)
              => live' = live]_vars
  <2> SUFFICES ASSUME IInv, [Next]_vars, lastOp' = "load_error",
                      file.len < SnapshotSize(live.cells)
               PROVE  live' = live
    BY DEF vars
  <2> USE DEF IInv, TypeOK
  <2>1. CASE LoadSetData
    <3>1. ReadCount = file.len
      BY DEF ReadCount
    <3>2. ReadCount # SnapshotSize(live.cells)
      BY <3>1
    <3> QED
      BY <2>1, <3>2 DEF LoadSetData
  <2>2. CASE ~LoadSetData
    BY <2>2 DEF Next, vars, Generate, SaveOpenFail, SaveOpen, SaveWrite,
                LoadOpenFail, LoadShortRead, Crash
  <2> QED
    BY <2>1, <2>2
<1> QED
  BY InitIInv, NextIInv, <1>1, PTL DEF Spec, TruncatedRestoreHarmless

=============================================================================
