------------------------ MODULE PackageRegistryProofs ------------------------
(***************************************************************************)
(* Proofs about the package registry, for any set of registrations and     *)
(* versions.                                                               *)
(***************************************************************************)
EXTENDS PackageRegistry, TLAPS

PackageTypes ==
  /\ registrations \in [Version -> Registration \union {None}]
  /\ name \in [Registration -> Version \union {None}]
  /\ held \subseteq made
  /\ made \subseteq Registration
  /\ unregistered \subseteq made
  /\ alive \in BOOLEAN

(* Every registration that was made has its name for good, so the entry    *)
(* that goes with a registration is the one under its name; a registration *)
(* that is dropped later than the registry finds no entries.  Two          *)
(* registrations of one version are held together only if one of them was  *)
(* unregistered before the other was made.                                 *)
PackageInv ==
  /\ PackageTypes
  /\ \A g \in made : name[g] \in Version
  /\ alive = FALSE => Registered = {}
  /\ EveryEntryIsHeld
  /\ EntryLastsWhileHeld

(* A new registry has no entries. *)
LEMMA InitPackages == Init => PackageInv
BY PackageAssumption DEF Init, PackageInv, PackageTypes, EveryEntryIsHeld, EntryLastsWhileHeld, Registered

(* Without the entry under the name of a registration, the others are held *)
(* by others; it was the only one of its version unless one of them was    *)
(* unregistered.                                                           *)
LEMMA EraseKeepsOthers ==
  ASSUME PackageInv, NEW g \in held, alive,
         registrations' = [registrations EXCEPT ![name[g]] = None],
         \/ held' = held \ {g} /\ unregistered' = unregistered
         \/ held' = held /\ unregistered' = unregistered \union {g},
         UNCHANGED <<name, made, alive>>
  PROVE  PackageInv'
<1>1. g \in made /\ g \in Registration /\ name[g] \in Version
  BY DEF PackageInv, PackageTypes
<1>2. /\ PackageTypes' /\ \A h \in made' : name'[h] \in Version
      /\ alive' = FALSE => Registered' = {}
  BY <1>1 DEF PackageInv, PackageTypes, Registered
<1>3. ASSUME NEW v \in Registered' PROVE registrations'[v] \in held' /\ name'[registrations'[v]] = v
  <2>1. v \in Version /\ registrations'[v] # None
    BY <1>3 DEF Registered
  <2>2. v # name[g] /\ registrations'[v] = registrations[v]
    BY <1>1, <2>1 DEF PackageInv, PackageTypes
  <2>3. registrations[v] \in held /\ name[registrations[v]] = v
    BY <2>1, <2>2 DEF PackageInv, EveryEntryIsHeld, Registered
  <2> QED
    BY <2>2, <2>3
<1>4. ASSUME NEW h \in held', \A u \in unregistered' : name'[u] # name'[h]
      PROVE  registrations'[name'[h]] = h
  <2>1. h \in held /\ h # g /\ name' = name /\ unregistered \subseteq unregistered'
    BY <1>4
  <2>2. registrations[name[h]] = h
    BY <1>4, <2>1 DEF PackageInv, EntryLastsWhileHeld
  <2>3. name[h] # name[g]
    <3>1. CASE g \in unregistered'
      BY <1>4, <2>1, <3>1
    <3>2. CASE g \notin unregistered'
      <4>1. unregistered' = unregistered
        BY <3>2
      <4>2. name[h] = name[g] => registrations[name[g]] = g
        BY <1>4, <2>1, <4>1 DEF PackageInv, EntryLastsWhileHeld
      <4> QED
        BY <2>1, <2>2, <4>2
    <3> QED
      BY <3>1, <3>2
  <2> QED
    BY <1>1, <2>1, <2>2, <2>3 DEF PackageInv, PackageTypes
<1> QED
  BY <1>2, <1>3, <1>4, Zenon DEF PackageInv, EveryEntryIsHeld, EntryLastsWhileHeld

(* Every operation keeps the invariant. *)
LEMMA NextPackages ==
  ASSUME PackageInv, [Next]_vars
  PROVE  PackageInv'
<1>1. ASSUME NEW g \in Registration, NEW v \in Version, register_classpath_server(g, v) PROVE PackageInv'
  <2>1. /\ g \notin made /\ g # None
        /\ registrations' = [registrations EXCEPT ![v] = g]
        /\ name' = [name EXCEPT ![g] = v]
        /\ held' = held \union {g} /\ made' = made \union {g} /\ alive' = alive /\ alive
        /\ unregistered' = unregistered /\ registrations[v] = None
    BY <1>1, PackageAssumption DEF register_classpath_server
  <2>2. PackageTypes' /\ (\A h \in made' : name'[h] \in Version) /\ alive' = TRUE
    BY <1>1, <2>1 DEF PackageInv, PackageTypes, register_classpath_server
  <2>3. ASSUME NEW w \in Registered' PROVE registrations'[w] \in held' /\ name'[registrations'[w]] = w
    <3>1. CASE w = v
      BY <2>1, <3>1 DEF PackageInv, PackageTypes
    <3>2. CASE w # v
      <4>1. w \in Registered /\ registrations'[w] = registrations[w]
        BY <2>1, <2>3, <3>2 DEF PackageInv, PackageTypes, Registered
      <4>2. registrations[w] \in held /\ name[registrations[w]] = w /\ registrations[w] # g
        BY <2>1, <4>1 DEF PackageInv, PackageTypes, EveryEntryIsHeld
      <4> QED
        BY <2>1, <4>1, <4>2 DEF PackageInv, PackageTypes
    <3> QED
      BY <3>1, <3>2
  <2>4. ASSUME NEW h \in held', \A u \in unregistered' : name'[u] # name'[h]
        PROVE  registrations'[name'[h]] = h
    <3>1. CASE h = g
      BY <2>1, <3>1 DEF PackageInv, PackageTypes
    <3>2. CASE h # g
      <4>1. h \in held /\ h \in Registration /\ name'[h] = name[h] /\ name[h] \in Version
        BY <2>1, <3>2 DEF PackageInv, PackageTypes
      <4>2. \A u \in unregistered : name'[u] = name[u]
        BY <2>1 DEF PackageInv, PackageTypes
      <4>3. registrations[name[h]] = h /\ h # None
        BY <2>1, <2>4, <4>1, <4>2, PackageAssumption DEF PackageInv, EntryLastsWhileHeld
      <4> QED
        BY <2>1, <4>1, <4>3 DEF PackageInv, PackageTypes
    <3> QED
      BY <3>1, <3>2
  <2> QED
    BY <2>2, <2>3, <2>4, Zenon DEF PackageInv, EveryEntryIsHeld, EntryLastsWhileHeld
<1>2. ASSUME NEW g \in Registration, unregister_server(g) PROVE PackageInv'
  BY <1>2, EraseKeepsOthers DEF unregister_server
<1>3. ASSUME NEW g \in Registration, drop_registration(g) PROVE PackageInv'
  <2>1. CASE alive
    BY <1>3, <2>1, EraseKeepsOthers DEF drop_registration
  <2>2. CASE ~alive
    BY <1>3, <2>2 DEF drop_registration, PackageInv, PackageTypes, EveryEntryIsHeld, EntryLastsWhileHeld,
       Registered
  <2> QED
    BY <2>1, <2>2
<1>4. CASE destroy_registry
  BY <1>4 DEF destroy_registry, PackageInv, PackageTypes, EveryEntryIsHeld, EntryLastsWhileHeld, Registered
<1>5. CASE UNCHANGED vars
  BY <1>5 DEF vars, PackageInv, PackageTypes, EveryEntryIsHeld, EntryLastsWhileHeld, Registered
<1> QED
  BY <1>1, <1>2, <1>3, <1>4, <1>5 DEF Next

LEMMA PackageAlways == Spec => []PackageInv
<1>1. PackageInv /\ [Next]_vars => PackageInv'
  BY NextPackages
<1> QED
  BY <1>1, InitPackages, PTL DEF Spec

(* No entry outlives the registration that was handed out for it, however  *)
(* registrations are copied, unregistered and dropped and the registry is  *)
(* destroyed.                                                              *)
THEOREM EntriesAreHeld == Spec => []EveryEntryIsHeld
<1>1. PackageInv => EveryEntryIsHeld
  BY DEF PackageInv
<1> QED
  BY <1>1, PackageAlways, PTL

(* While a registration is held and no registration of its version was     *)
(* unregistered by a call, its entry is in the registry: the destructors   *)
(* of other registrations and register_classpath_server never take it away *)
(* or replace it.                                                          *)
THEOREM EntriesLast == Spec => []EntryLastsWhileHeld
<1>1. PackageInv => EntryLastsWhileHeld
  BY DEF PackageInv
<1> QED
  BY <1>1, PackageAlways, PTL
=============================================================================
