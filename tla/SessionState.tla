---------------------------- MODULE SessionState ----------------------------
(***************************************************************************)
(* The session state machine of session/state.hpp: the states, the events  *)
(* and the transition table.  Rows of the table are grouped by event.      *)
(***************************************************************************)

States ==
  {"Disconnected", "SocketConnected", "LogonSent", "LogonReceived", "Active",
   "LogoutPending", "LogoutReceived", "Reconnecting", "Error"}

Events ==
  {"Connect", "Disconnect", "LogonSent", "LogonReceived", "LogonAcknowledged",
   "LogonRejected", "LogoutSent", "LogoutReceived", "HeartbeatTimeout",
   "TestRequestSent", "TestRequestReceived", "MessageReceived", "Error"}

(* A cell the table leaves at NO_TRANSITION keeps the current state.        *)
next_state(cur, ev) ==
  CASE ev = "Connect" /\ cur \in {"Disconnected", "Reconnecting", "Error"}
         -> "SocketConnected"
    [] ev = "Disconnect" /\ cur = "Active"
         -> "Reconnecting"
    [] ev = "Disconnect" /\ cur \in {"SocketConnected", "LogonSent", "LogonReceived",
                                     "LogoutPending", "LogoutReceived"}
         -> "Disconnected"
    [] ev = "LogonSent" /\ cur = "SocketConnected"          -> "LogonSent"
    [] ev = "LogonReceived" /\ cur = "SocketConnected"      -> "LogonReceived"
    [] ev = "LogonReceived" /\ cur = "LogonSent"            -> "Active"
    [] ev = "LogonAcknowledged" /\ cur = "LogonReceived"    -> "Active"
    [] ev = "LogonRejected" /\ cur \in {"LogonSent", "LogonReceived"}
         -> "Disconnected"
    [] ev = "LogoutSent" /\ cur = "Active"                  -> "LogoutPending"
    [] ev = "LogoutSent" /\ cur = "LogoutReceived"          -> "Disconnected"
    [] ev = "LogoutReceived" /\ cur = "Active"              -> "LogoutReceived"
    [] ev = "LogoutReceived" /\ cur = "LogoutPending"       -> "Disconnected"
    [] ev = "HeartbeatTimeout" /\ cur \in {"LogonSent", "Active"} -> "Error"
    [] ev = "HeartbeatTimeout" /\ cur = "LogoutPending"     -> "Disconnected"
    [] ev = "Error" /\ cur \in {"Active", "Reconnecting"}   -> "Error"
    [] OTHER -> cur

can_send_app_messages(state) == state = "Active"
=============================================================================
