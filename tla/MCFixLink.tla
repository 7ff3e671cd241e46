------------------------------ MODULE MCFixLink ------------------------------
(***************************************************************************)
(* Instances of FixLink for TLC.                                           *)
(***************************************************************************)
EXTENDS FixLink

One(m) == 1
Type(m) == m.type

Config(reset) ==
  [role |-> "either", heart_bt_int |-> 1, store |-> FALSE, reset_seq_num_on_logon |-> reset,
   validate_comp_ids |-> TRUE, check_latency |-> TRUE]

Acceptor == Config(FALSE)
Resetting == {Config(TRUE)}
Continuing == {Config(FALSE)}

AnyFailure == {{}, {1}}
NoFailure == {{}}
=============================================================================
