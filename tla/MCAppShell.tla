----------------------------- MODULE MCAppShell -----------------------------
(***************************************************************************)
(* The shell for TLC: the left and the right mouse button, and seven      *)
(* signals, enough to open the window, close it to the tray, reopen it    *)
(* and choose Exit from the icon's menu.                                   *)
(***************************************************************************)
EXTENDS AppShell

MCButtons == {1, 3}

=============================================================================
