------------------------------ MODULE RawCodes ------------------------------
(***************************************************************************)
(* The adaptors between the ZooKeeper C library and the C++ enumerations:  *)
(* result codes, session states and events.  A raw code is named after its *)
(* macro in zookeeper.h.  A cast (static_cast in the code) keeps the       *)
(* value, so a raw code with the value of an enumerator becomes that       *)
(* enumerator and any other raw code stays what it is: the code builds a   *)
(* generic error "unknown" from it.                                        *)
(***************************************************************************)

(* error_code: the enumerator that has the value of a raw code. *)
error_code ==
  [ ZOK                        |-> "ok",
    ZCONNECTIONLOSS            |-> "connection_loss",
    ZMARSHALLINGERROR          |-> "marshalling_error",
    ZUNIMPLEMENTED             |-> "not_implemented",
    ZBADARGUMENTS              |-> "invalid_arguments",
    ZNEWCONFIGNOQUORUM         |-> "new_configuration_no_quorum",
    ZRECONFIGINPROGRESS        |-> "reconfiguration_in_progress",
    ZNONODE                    |-> "no_entry",
    ZNOAUTH                    |-> "not_authorized",
    ZBADVERSION                |-> "version_mismatch",
    ZNOCHILDRENFOREPHEMERALS   |-> "no_children_for_ephemerals",
    ZNODEEXISTS                |-> "entry_exists",
    ZNOTEMPTY                  |-> "not_empty",
    ZSESSIONEXPIRED            |-> "session_expired",
    ZAUTHFAILED                |-> "authentication_failed",
    ZCLOSING                   |-> "closed",
    ZNOTREADONLY               |-> "read_only_connection",
    ZEPHEMERALONLOCALSESSION   |-> "ephemeral_on_local_session",
    ZRECONFIGDISABLED          |-> "reconfiguration_disabled" ]

(* Raw codes that have no enumerator of their own. *)
UnnamedRaw == {"ZOPERATIONTIMEOUT", "ZINVALIDCALLBACK", "ZINVALIDACL", "ZSESSIONMOVED",
               "ZINVALIDSTATE", "ZRUNTIMEINCONSISTENCY"}

RawCode == DOMAIN error_code \union UnnamedRaw

cast(raw) == IF raw \in DOMAIN error_code THEN error_code[raw] ELSE raw

error_code_from_raw(raw) ==
  IF raw \in {"ZOPERATIONTIMEOUT", "ZSESSIONMOVED"} THEN cast("ZCONNECTIONLOSS")
  ELSE IF raw \in {"ZINVALIDCALLBACK", "ZINVALIDACL"} THEN cast("ZBADARGUMENTS")
  ELSE cast(raw)

(* What an exception of the client may carry: the enumerators, and the two *)
(* unnamed raw codes that error_code_from_raw does not replace.            *)
ErrorCode == {error_code_from_raw(raw) : raw \in RawCode}

(* The session states of the C library, and what the client calls them. *)
RawState == {"ZOO_NOTCONNECTED_STATE", "ZOO_CONNECTING_STATE", "ZOO_ASSOCIATING_STATE",
             "ZOO_CONNECTED_STATE", "ZOO_READONLY_STATE", "ZOO_EXPIRED_SESSION_STATE",
             "ZOO_AUTH_FAILED_STATE"}

(* zk::state: the enumerator that has the value of a raw state. *)
state ==
  [ ZOO_CONNECTING_STATE      |-> "connecting",
    ZOO_CONNECTED_STATE       |-> "connected",
    ZOO_READONLY_STATE        |-> "read_only",
    ZOO_EXPIRED_SESSION_STATE |-> "expired_session",
    ZOO_AUTH_FAILED_STATE     |-> "authentication_failed" ]

state_from_raw(raw) ==
  IF raw \in {"ZOO_NOTCONNECTED_STATE", "ZOO_ASSOCIATING_STATE"} THEN state["ZOO_CONNECTING_STATE"]
  ELSE state[raw]
=============================================================================
