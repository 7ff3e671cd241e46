------------------------------ MODULE MCSession ------------------------------
(***************************************************************************)
(* Instances of Session for TLC.                                           *)
(***************************************************************************)
EXTENDS Session

(* The application's messages: 1 is an ordinary one, 2 has a MsgType of two *)
(* characters, the first that of a Logon, 3 fills the buffer, and 4 has     *)
(* more fields than the parser takes.                                       *)
Size(m) == IF m.type = "App" /\ m.x = 3 THEN 2 ELSE 1
Char(m) == IF m.type = "App" /\ m.x = 2 THEN "Logon" ELSE m.type
FieldCount(m) == IF m.type = "App" /\ m.x = 4 THEN 2 ELSE 1

Config(role, hb, kept, reset) ==
  [role |-> role, heart_bt_int |-> hb, store |-> kept, reset_seq_num_on_logon |-> reset,
   validate_comp_ids |-> TRUE, check_latency |-> TRUE]

StoreConfigs ==
  {Config("initiator", 1, TRUE, FALSE), Config("initiator", 1, TRUE, TRUE),
   Config("initiator", 1, FALSE, FALSE), Config("acceptor", 1, TRUE, FALSE)}
TimeConfigs == {Config("initiator", hb, FALSE, FALSE) : hb \in {1, 2}}

Dup(ms) == {[m EXCEPT !.dup = TRUE, !.orig = TRUE] : m \in ms}

(* Every type of message, in and out of sequence, and the malformed ones.   *)
NumberMessages ==
  {Message("Logon", 1, 1, 0),
   Message("TestRequest", 1, Absent, Absent), Message("TestRequest", 2, Absent, Absent),
   Message("Logout", 2, Absent, Absent),
   Message("ResendRequest", 2, 1, 0), Message("ResendRequest", 2, 2, 2),
   Message("ResendRequest", 2, 1, Absent),
   Message("SequenceReset", 2, 1, 0), Message("SequenceReset", 2, 0, 1),
   Message("SequenceReset", 2, 3, 1), Message("SequenceReset", 2, Absent, 1),
   Message("Reject", 2, 1, 1), Message("Heartbeat", 2, Absent, Absent)}
    \cup Dup({Message("App", 1, 1, Absent)})
    \cup {[Message("App", 2, 1, Absent) EXCEPT !.dup = TRUE],
          [Message("App", 2, 1, Absent) EXCEPT !.comp = FALSE],
          [Message("App", 2, 1, Absent) EXCEPT !.time = FALSE]}

TimeMessages ==
  {Message("Logon", 1, 1, 0), Message("Logon", 1, 0, 0), Message("Logon", 1, Absent, 0),
   Message("Heartbeat", 2, Absent, Absent), Message("TestRequest", 2, Absent, Absent)}

NoFailure == {{}}
AnyFailure == {{}, {1}, {2}}
=============================================================================
