--------------------------- MODULE PackageRegistry ---------------------------
(***************************************************************************)
(* server::package_registry: the map from version strings to classpaths,   *)
(* the registrations handed out for its entries, and the destructors of    *)
(* both.  Every operation holds _protect, so each is one step.  The        *)
(* registry must not be destroyed while a registration is unregistered     *)
(* (package_registry.hpp, Thread Safety): the two do not overlap here.     *)
(*                                                                         *)
(* A registration g stands for the classpath it was made with.             *)
(***************************************************************************)
CONSTANTS
  Registration,  (* The registrations that may be made.                    *)
  Version,       (* The version strings.                                   *)
  None

ASSUME PackageAssumption == None \notin Registration /\ None \notin Version

VARIABLES
  registrations, (* _registrations: which registration made the entry.     *)
  name,          (* registration_info::name.                               *)
  held,          (* Registrations some shared_ptr refers to.               *)
  made,          (* Registrations that were ever made.                     *)
  unregistered,  (* History: registrations the program has unregistered    *)
                 (* itself, other than by dropping them.                   *)
  alive          (* The registry exists: _lifetime is not reset.           *)

vars == <<registrations, name, held, made, unregistered, alive>>

Registered == {v \in Version : registrations[v] # None}

-----------------------------------------------------------------------------
(* Mutant: an entry that is there is overwritten. *)
register_or_assign(g, v) ==
  /\ alive /\ g \notin made
  /\ registrations' = [registrations EXCEPT ![v] = g]
  /\ name' = [name EXCEPT ![g] = v]
  /\ held' = held \union {g} /\ made' = made \union {g}
  /\ UNCHANGED <<unregistered, alive>>

(* A version that is registered is refused with an exception, which leaves *)
(* everything as it was.                                                   *)
register_classpath_server(g, v) ==
  /\ alive
  /\ g \notin made
  /\ registrations[v] = None
  /\ registrations' = [registrations EXCEPT ![v] = g]
  /\ name' = [name EXCEPT ![g] = v]
  /\ held' = held \union {g}
  /\ made' = made \union {g}
  /\ UNCHANGED <<unregistered, alive>>

(* The entry of that name is erased, whoever made it. *)
unregister_server(g) ==
  /\ alive
  /\ g \in held
  /\ registrations' = [registrations EXCEPT ![name[g]] = None]
  /\ unregistered' = unregistered \union {g}
  /\ UNCHANGED <<name, held, made, alive>>

(* Mutant: the destructor does not unregister. *)
drop_only(g) ==
  g \in held /\ held' = held \ {g} /\ UNCHANGED <<registrations, name, made, unregistered, alive>>

(* ~registration_info, when the last shared_ptr goes: it unregisters if    *)
(* the registry still exists.                                              *)
drop_registration(g) ==
  /\ g \in held
  /\ held' = held \ {g}
  /\ registrations' = IF alive THEN [registrations EXCEPT ![name[g]] = None] ELSE registrations
  /\ UNCHANGED <<name, made, unregistered, alive>>

destroy_registry ==
  /\ alive
  /\ alive' = FALSE
  /\ registrations' = [v \in Version |-> None]
  /\ UNCHANGED <<name, held, made, unregistered>>

-----------------------------------------------------------------------------
Init ==
  /\ registrations = [v \in Version |-> None]
  /\ name = [g \in Registration |-> None]
  /\ held = {}
  /\ made = {}
  /\ unregistered = {}
  /\ alive = TRUE

Next ==
  \/ \E g \in Registration :
       \/ \E v \in Version : register_classpath_server(g, v)
       \/ drop_registration(g)
       \/ unregister_server(g)
  \/ destroy_registry

Spec == Init /\ [][Next]_vars

-----------------------------------------------------------------------------
(* The map never outlives the claim to it: the registration that made an   *)
(* entry is still held by somebody, so that every entry will be removed.   *)
EveryEntryIsHeld ==
  \A v \in Registered : registrations[v] \in held /\ name[registrations[v]] = v

(* A program that leaves it to the destructors to unregister never loses   *)
(* an entry it has a claim to: while the registration of a version is held *)
(* and no registration of this version was unregistered by a call, the     *)
(* registry has its entry and no other, whichever registrations of the     *)
(* version were made and dropped before.                                   *)
EntryLastsWhileHeld ==
  \A g \in held : alive /\ (\A h \in unregistered : name[h] # name[g]) => registrations[name[g]] = g

(* "Attempt to unregister the server associated with the provided          *)
(* registration" (package_registry.hpp): only for its own registration is  *)
(* an entry taken away.  What is held and has not been unregistered itself *)
(* is in the registry.                                                     *)
OnlyOwnEntryIsRemoved ==
  \A g \in held \ unregistered : alive => registrations[name[g]] = g
=============================================================================
