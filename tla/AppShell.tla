----------------------------- MODULE AppShell ------------------------------
(***************************************************************************)
(* The GTK application shell of src/client-side/linux/runner/             *)
(* my_application.cc: the main window, the status (tray) icon that closing *)
(* the window turns it into, the icon's popup menu with its "Выход" (Exit) *)
(* item, and shutdown.  The statics g_main_window and g_status_icon are    *)
(* the variables window and icon; "none" is nullptr.  The signals GTK      *)
(* delivers (activate, delete-event, first-frame, the icon's activate and  *)
(* popup-menu, the menu item's activate) are the actions; the callbacks    *)
(* run one at a time on the GTK main context.                              *)
(*                                                                         *)
(* The application runs under g_application_run (the Flutter runner's     *)
(* main); nothing in the runner calls gtk_main, so gtk_main_quit finds no  *)
(* main loop of its own to leave and returns at once.                     *)
(***************************************************************************)
EXTENDS Naturals

CONSTANTS
  Buttons,    \* mouse buttons the popup-menu signal may report
  MaxEvents   \* bound on the signals of a behaviour

ASSUME ShellAssumption == 3 \in Buttons /\ MaxEvents \in Nat

VARIABLES
  window,     \* g_main_window: "none", or the window "hidden" or "shown"
  framePending, \* the view has not rendered its first frame yet
  icon,       \* g_status_icon: "none", or the icon, "visible"
  menu,       \* the popup menu with the Exit item is open
  running,    \* the application has not shut down
  lastEvent,  \* the last signal handled
  events      \* signals so far

vars == <<window, framePending, icon, menu, running, lastEvent, events>>

Init ==
  /\ window = "none"
  /\ framePending = FALSE
  /\ icon = "none"
  /\ menu = FALSE
  /\ running = TRUE
  /\ lastEvent = "none"
  /\ events = 0

\* A signal is delivered to the running application.
Signal(e) ==
  /\ running
  /\ events < MaxEvents
  /\ events' = events + 1
  /\ lastEvent' = e

\* my_application_activate (from local_command_line, or forwarded from a
\* second instance): present the existing window, or create it; the view
\* shows it on its first frame.
Activate ==
  /\ Signal("activate")
  /\ IF window # "none"
       THEN window' = "shown" /\ UNCHANGED framePending
       ELSE window' = "hidden" /\ framePending' = TRUE
  /\ UNCHANGED <<icon, menu, running>>

\* first_frame_cb: show the toplevel.
FirstFrame ==
  /\ Signal("first_frame")
  /\ framePending
  /\ window' = "shown"
  /\ framePending' = FALSE
  /\ UNCHANGED <<icon, menu, running>>

\* Mutant: the window hidden, the status icon block left out.
WindowDeleteNoIcon ==
  /\ Signal("delete")
  /\ window = "shown"
  /\ window' = "hidden"
  /\ UNCHANGED <<framePending, icon, menu, running>>

\* window_delete_cb: hide the window, create the status icon once, make it
\* visible, and return TRUE so that the window is not destroyed.
WindowDelete ==
  /\ Signal("delete")
  /\ window = "shown"
  /\ window' = "hidden"
  /\ icon' = "visible"
  /\ UNCHANGED <<framePending, menu, running>>

\* status_icon_activate_cb: show and present the window if there is one.
IconActivate ==
  /\ Signal("icon_activate")
  /\ icon = "visible"
  /\ window' = IF window # "none" THEN "shown" ELSE window
  /\ UNCHANGED <<framePending, icon, menu, running>>

\* status_icon_popup_menu_cb: only the right button opens the menu.
PopupMenu(button) ==
  /\ Signal("popup")
  /\ icon = "visible"
  /\ menu' = (menu \/ button = 3)
  /\ UNCHANGED <<window, framePending, icon, running>>

\* The Exit item activated: the menu closes and gtk_main_quit runs; with
\* no gtk_main loop to leave it returns without effect.
QuitItem ==
  /\ Signal("quit")
  /\ menu
  /\ menu' = FALSE
  /\ UNCHANGED <<window, framePending, icon, running>>

\* GApplication::shutdown (the session ends or the application is told to
\* quit from outside): my_application_shutdown_cleanup hides and releases
\* the icon and forgets the window.
Shutdown ==
  /\ running
  /\ running' = FALSE
  /\ icon' = "none"
  /\ window' = "none"
  /\ menu' = FALSE
  /\ lastEvent' = "shutdown"
  /\ UNCHANGED <<framePending, events>>

Next ==
  \/ Activate \/ FirstFrame \/ WindowDelete \/ IconActivate
  \/ \E b \in Buttons : PopupMenu(b)
  \/ QuitItem \/ Shutdown

Spec == Init /\ [][Next]_vars

-----------------------------------------------------------------------------
\* Closing the window never strands it: while the application runs, a
\* window the user hid (not one still waiting for its first frame) can be
\* brought back from a visible status icon.
HiddenWindowRecoverable ==
  running /\ window = "hidden" /\ ~framePending => icon = "visible"

(***************************************************************************)
(* What the code says and does not do (checked as a violation).            *)
(***************************************************************************)

\* The popup menu's "Выход" (Exit) item ends the application.
QuitStopsApp == [][lastEvent' = "quit" => ~running']_vars

=============================================================================
