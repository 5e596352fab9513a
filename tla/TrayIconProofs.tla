-------------------------- MODULE TrayIconProofs ---------------------------
(***************************************************************************)
(* Proofs about tray_icon.cpp, for every bound on the calls.              *)
(*                                                                         *)
(* NoStrayIcon is inductive as it stands: only Show sets the flag, only   *)
(* Hide and Destroy clear it and they delete the icon in the same step,   *)
(* and neither Create nor an Explorer restart can add an icon.            *)
(***************************************************************************)
EXTENDS TrayIcon, TLAPS

-----------------------------------------------------------------------------
\* Once Hide or Destroy has cleared the flag, the shell shows no icon of
\* this window, whatever order Create, Show, Hide, Destroy and Explorer
\* restarts came in and whatever NIM_ADD returned.
THEOREM NoIconWhenHidden == Spec => []NoStrayIcon
<1>1. Init => NoStrayIcon
  BY DEF Init, NoStrayIcon
<1>2. NoStrayIcon /\ [Next]_vars => NoStrayIcon'
  <2> SUFFICES ASSUME NoStrayIcon, [Next]_vars
               PROVE  NoStrayIcon'
    OBVIOUS
  <2> USE DEF NoStrayIcon
  <2>1. CASE Create
    BY <2>1 DEF Create
  <2>2. CASE Show
    BY <2>2 DEF Show
  <2>3. CASE Hide
    BY <2>3 DEF Hide
  <2>4. CASE ShellRestart
    BY <2>4 DEF ShellRestart
  <2>5. CASE UNCHANGED vars
    BY <2>5 DEF vars
  <2> QED
    BY <2>1, <2>2, <2>3, <2>4, <2>5 DEF Next
<1> QED
  BY <1>1, <1>2, PTL DEF Spec

=============================================================================
