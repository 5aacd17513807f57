---------------------------- MODULE ErrorClasses ----------------------------
(***************************************************************************)
(* The exceptions of the client: which class throw_error picks for an      *)
(* error_code, which code an object of that class carries, and which base  *)
(* class catches it.  An exception is its class and what code() returns; a *)
(* class that stands for one code has the name of the code.                *)
(***************************************************************************)
EXTENDS RawCodes

is_transport_error(code) == code \in {"connection_loss", "marshalling_error"}

is_invalid_arguments(code) == code \in {"invalid_arguments", "authentication_failed"}

is_invalid_ensemble_state(code) ==
  code \in {"new_configuration_no_quorum", "reconfiguration_disabled", "reconfiguration_in_progress"}

is_invalid_connection_state(code) ==
  code \in {"closed", "ephemeral_on_local_session", "not_authorized", "read_only_connection",
            "session_expired"}

is_check_failed(code) ==
  code \in {"no_children_for_ephemerals", "no_entry", "entry_exists", "not_empty",
            "transaction_failed", "version_mismatch"}

(* The classes a base class catches. *)
transport_error == {"connection_loss", "marshalling_error"}

invalid_arguments == {"invalid_arguments", "authentication_failed"}

invalid_ensemble_state ==
  {"new_configuration_no_quorum", "reconfiguration_in_progress", "reconfiguration_disabled"}

invalid_connection_state ==
  {"session_expired", "not_authorized", "closed", "ephemeral_on_local_session",
   "read_only_connection"}

check_failed ==
  {"no_entry", "entry_exists", "not_empty", "version_mismatch", "no_children_for_ephemerals",
   "transaction_failed"}

(* Every class for one code passes this code to its base. *)
construct(class) == [class |-> class, code |-> class]

(* The cases of the switch in throw_error, in its order; each constructs   *)
(* the class that has the name of its code.                                *)
throw_error_cases ==
  {"connection_loss", "marshalling_error", "not_implemented", "invalid_arguments",
   "new_configuration_no_quorum", "reconfiguration_in_progress", "no_entry", "not_authorized",
   "version_mismatch", "no_children_for_ephemerals", "entry_exists", "not_empty",
   "session_expired", "authentication_failed", "closed", "read_only_connection",
   "ephemeral_on_local_session", "reconfiguration_disabled", "transaction_failed"}

unknown(code) == [class |-> "error", code |-> code]

(* Mutant: a case is missing. *)
throw_error_no_loss(code) ==
  IF code \in throw_error_cases \ {"connection_loss"} THEN construct(code) ELSE unknown(code)

throw_error(code) == IF code \in throw_error_cases THEN construct(code) ELSE unknown(code)

(* The predicates on code() agree with the base classes that catch e. *)
Classified(e) ==
  /\ is_transport_error(e.code) <=> e.class \in transport_error
  /\ is_invalid_arguments(e.code) <=> e.class \in invalid_arguments
  /\ is_invalid_ensemble_state(e.code) <=> e.class \in invalid_ensemble_state
  /\ is_invalid_connection_state(e.code) <=> e.class \in invalid_connection_state
  /\ is_check_failed(e.code) <=> e.class \in check_failed
=============================================================================
