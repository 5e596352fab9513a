----------------------------- MODULE MCTrayIcon -----------------------------
(***************************************************************************)
(* The tray icon for TLC: every order of up to 24 calls and shell        *)
(* restarts, so Show comes before and after Create, restarts fall between  *)
(* Show and Hide, and each pattern repeats.                                *)
(***************************************************************************)
EXTENDS TrayIcon

=============================================================================
