----------------------------- MODULE TrayIcon ------------------------------
(***************************************************************************)
(* The Windows notification-area icon of src/client-side/windows/runner/  *)
(* tray_icon.cpp: the static NOTIFYICONDATAW nid, which Create fills, the *)
(* flag visible, and what the shell really shows.  Shell_NotifyIconW is   *)
(* called with NIM_ADD and NIM_DELETE and its BOOL result is ignored:      *)
(* NIM_ADD fails for an nid Create has not filled (cbSize 0) and may fail  *)
(* while the shell is not ready; a restart of Explorer drops every icon.   *)
(* The window procedure that calls these functions is not in the          *)
(* repository: any order of calls is explored.                             *)
(***************************************************************************)
EXTENDS Naturals

CONSTANT MaxCalls   \* bound on the calls of a behaviour

ASSUME TrayAssumption == MaxCalls \in Nat

VARIABLES
  created,    \* Create has filled nid
  visible,    \* the flag visible of tray_icon.cpp
  shown,      \* the shell shows the icon
  calls       \* calls and shell events so far

vars == <<created, visible, shown, calls>>

Init ==
  /\ created = FALSE
  /\ visible = FALSE
  /\ shown = FALSE
  /\ calls = 0

Call == calls < MaxCalls /\ calls' = calls + 1

\* Create: fill nid (hWnd, uID 1, icon, callback message, tip).
Create ==
  /\ Call
  /\ created' = TRUE
  /\ UNCHANGED <<visible, shown>>

\* Show: if not visible, Shell_NotifyIconW(NIM_ADD) (which may fail, and
\* always does for an unfilled nid) and set visible.
Show ==
  /\ Call
  /\ ~visible
  /\ \E ok \in BOOLEAN : shown' = (ok /\ created)
  /\ visible' = TRUE
  /\ UNCHANGED created

\* Mutant: Hide clears the flag without NIM_DELETE.
HideFlagOnly ==
  /\ Call
  /\ visible
  /\ visible' = FALSE
  /\ UNCHANGED <<created, shown>>

\* Hide and Destroy (the same code): if visible, NIM_DELETE and clear
\* visible.
Hide ==
  /\ Call
  /\ visible
  /\ shown' = FALSE
  /\ visible' = FALSE
  /\ UNCHANGED created

\* Explorer restarts: the shell forgets the icon; tray_icon.cpp is not
\* told (no TaskbarCreated handling here).
ShellRestart ==
  /\ Call
  /\ shown' = FALSE
  /\ UNCHANGED <<created, visible>>

Next == Create \/ Show \/ Hide \/ ShellRestart

Spec == Init /\ [][Next]_vars

-----------------------------------------------------------------------------
\* No stray icon: when the flag says hidden (after Hide or Destroy) the
\* shell shows no icon of this window, whatever order Create, Show, Hide
\* and shell restarts came in.
NoStrayIcon == ~visible => ~shown

(***************************************************************************)
(* What the code says and does not do (checked as a violation).            *)
(***************************************************************************)

\* IsVisible() tells whether the icon is in the notification area.
FlagMatchesShell == visible = shown

=============================================================================
