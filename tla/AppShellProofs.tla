-------------------------- MODULE AppShellProofs ---------------------------
(***************************************************************************)
(* Proofs about the GTK shell of my_application.cc, for every bound on    *)
(* the signals and every set of mouse buttons.                             *)
(*                                                                         *)
(* HiddenWindowRecoverable is inductive as it stands: the only callback   *)
(* that hides a shown window (window_delete_cb) makes the icon visible in *)
(* the same step, a window created hidden by activate waits for its first  *)
(* frame, and only shutdown, which ends the run, releases the icon.       *)
(***************************************************************************)
EXTENDS AppShell, TLAPS

-----------------------------------------------------------------------------
\* Closing the window to the tray never strands it, whatever order GTK
\* delivers activate, delete-event, first-frame, the icon's signals, the
\* Exit item and shutdown in, and however many of them there are.
THEOREM WindowAlwaysRecoverable == Spec => []HiddenWindowRecoverable
<1>1. Init => HiddenWindowRecoverable
  BY DEF Init, HiddenWindowRecoverable
<1>2. HiddenWindowRecoverable /\ [Next]_vars => HiddenWindowRecoverable'
  <2> SUFFICES ASSUME HiddenWindowRecoverable, [Next]_vars
               PROVE  HiddenWindowRecoverable'
    OBVIOUS
  <2> USE DEF HiddenWindowRecoverable
  <2>1. CASE Activate
    BY <2>1 DEF Activate
  <2>2. CASE FirstFrame
    BY <2>2 DEF FirstFrame
  <2>3. CASE WindowDelete
    BY <2>3 DEF WindowDelete
  <2>4. CASE IconActivate
    BY <2>4 DEF IconActivate
  <2>5. ASSUME NEW b \in Buttons, PopupMenu(b)
        PROVE  HiddenWindowRecoverable'
    BY <2>5 DEF PopupMenu
  <2>6. CASE QuitItem
    BY <2>6 DEF QuitItem
  <2>7. CASE Shutdown
    BY <2>7 DEF Shutdown
  <2>8. CASE UNCHANGED vars
    BY <2>8 DEF vars
  <2> QED
    BY <2>1, <2>2, <2>3, <2>4, <2>5, <2>6, <2>7, <2>8 DEF Next
<1> QED
  BY <1>1, <1>2, PTL DEF Spec

=============================================================================
