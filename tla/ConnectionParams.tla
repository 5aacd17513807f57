-------------------------- MODULE ConnectionParams --------------------------
(***************************************************************************)
(* connection_params, and the connection strings it is parsed from and     *)
(* printed as.                                                             *)
(*                                                                         *)
(* A string is what its delimiters make of it: the schema, the pieces of   *)
(* the host list, the path (<<>> if there is no slash) and the pieces of   *)
(* the query, each a key and a value.  A host and a path are sequences of  *)
(* words; a host is <<>> if there is nothing between two commas, and a     *)
(* path has its slashes as words.  A value is its kind (true and false     *)
(* stand for every word that starts like them, missing for a piece without *)
(* "=") and, if it is a number of seconds, that number in milliseconds.    *)
(***************************************************************************)
EXTENDS Naturals, Sequences, FiniteSets

CONSTANTS
  BelowInBinary,   (* Times n in ms for which the double nearest to        *)
                   (* n/1000, times 1000, is less than n, like 1001.       *)
  RoundsUp         (* Times n in ms, half way between two that six digits  *)
                   (* of seconds can express, that are printed as the      *)
                   (* larger one: the double nearest to n/1000 decides.    *)

default_timeout == 10000

connection_params ==
  [schema |-> "zk", hosts |-> <<>>, chroot |-> <<"/">>, randomize_hosts |-> TRUE, read_only |-> FALSE,
   timeout |-> default_timeout]

(* A word has no delimiters in it. *)
UrlWord == STRING \ {"", "/", ",", "?"}

(* Any connection_params whose hosts and chroot have no comma and no       *)
(* question mark in them, and whose timeout is not negative.               *)
Params ==
  [schema : STRING, hosts : Seq(Seq(UrlWord)), chroot : Seq(UrlWord \union {"/"}),
   randomize_hosts : BOOLEAN, read_only : BOOLEAN, timeout : Nat]

-----------------------------------------------------------------------------
(* The regular expression wants a schema and something before the slash.   *)
(* Without a slash, a query is part of the last host.                      *)
Matches(text) == text.schema # "" /\ text.hosts \notin {<<>>, <<<<>>>>}

Last(s) == s[Len(s)]

(* The last piece goes on with more words. *)
glued(hosts, words) ==
  IF hosts = <<>> THEN <<words>> ELSE [hosts EXCEPT ![Len(hosts)] = @ \o words]

HostPieces(text) ==
  IF text.path = <<>> /\ text.query # <<>> THEN glued(text.hosts, <<"?">>) ELSE text.hosts

(* Mutant: the last piece is lost. *)
extract_host_list_short(pieces) == SubSeq(pieces, 1, Len(pieces) - 1)

(* An empty piece at the end is not a host; any other is. *)
extract_host_list(pieces) ==
  IF Last(pieces) = <<>> THEN SubSeq(pieces, 1, Len(pieces) - 1) ELSE pieces

(* The pieces of the query parse accepts. *)
extract_bool_accepts(val)   == val.kind \in {"true", "false"}
extract_millis_accepts(val) == val.kind = "number"

(* The seconds are read as a double and cut to milliseconds. *)
extract_millis(val) == IF val.ms \in BelowInBinary THEN val.ms - 1 ELSE val.ms

Understood(part) ==
  \/ part.key \in {"randomize_hosts", "read_only"} /\ extract_bool_accepts(part.val)
  \/ part.key = "timeout" /\ extract_millis_accepts(part.val)

(* The last piece for a key counts. *)
Option(query, key, default) ==
  LET at == {i \in DOMAIN query : query[i].key = key}
  IN  IF at = {} THEN default ELSE query[CHOOSE i \in at : \A j \in at : j <= i].val

Truth(b) == [kind |-> IF b THEN "true" ELSE "false", ms |-> 0]
Millis(n) == [kind |-> "number", ms |-> n]

(* Whether every piece is a key and a value of it. *)
extract_advanced_options(query) == \A i \in DOMAIN query : Understood(query[i])

Query(text) == IF text.path = <<>> THEN <<>> ELSE text.query

parses(text) == Matches(text) /\ extract_advanced_options(Query(text))

parse(text) ==
  LET query == Query(text)
  IN  [schema |-> text.schema,
       hosts |-> extract_host_list(HostPieces(text)),
       chroot |-> IF text.path = <<>> THEN <<"/">> ELSE text.path,
       randomize_hosts |-> Option(query, "randomize_hosts", Truth(TRUE)).kind = "true",
       read_only |-> Option(query, "read_only", Truth(FALSE)).kind = "true",
       timeout |-> IF \E i \in DOMAIN query : query[i].key = "timeout"
                   THEN extract_millis(Option(query, "timeout", Millis(0))) ELSE default_timeout]

-----------------------------------------------------------------------------
(* The stream prints six digits of the seconds: a multiple of Unit.        *)
Unit[n \in Nat] == IF n < 10^6 THEN 1 ELSE 10 * Unit[n \div 10]

(* Mutant: whole seconds are printed. *)
WholeSeconds(ms) == (ms \div 1000) * 1000

SixDigits(ms) ==
  LET unit == Unit[ms]
      rest == ms % unit
  IN  IF 2 * rest > unit \/ (2 * rest = unit /\ ms \in RoundsUp) THEN ms - rest + unit ELSE ms - rest

(* How many words come before the first slash: they are printed right      *)
(* behind the last host and belong to it.                                  *)
BeforeSlash(words) == Cardinality({i \in DOMAIN words : \A j \in 1..i : words[j] # "/"})

to_string(x) ==
  LET if(cond, key, val) == IF cond THEN <<[key |-> key, val |-> val]>> ELSE <<>>
      n == BeforeSlash(x.chroot)
  IN  [schema |-> x.schema,
       hosts |-> IF n = 0 THEN x.hosts ELSE glued(x.hosts, SubSeq(x.chroot, 1, n)),
       path |-> SubSeq(x.chroot, n + 1, Len(x.chroot)),
       query |-> if(~x.randomize_hosts, "randomize_hosts", Truth(FALSE))
                 \o if(x.read_only, "read_only", Truth(TRUE))
                 \o if(x.timeout # default_timeout, "timeout", Millis(SixDigits(x.timeout)))]

(* What can be told apart again once it is printed: there are a schema and *)
(* hosts, none of them empty at the end, and the chroot starts with its    *)
(* slash.                                                                  *)
Readable(x) ==
  /\ x.schema # ""
  /\ x.hosts # <<>> /\ Last(x.hosts) # <<>>
  /\ x.chroot # <<>> /\ x.chroot[1] = "/"

(* It is read as it was if its timeout, too, has six digits that survive   *)
(* the double.                                                             *)
Printable(x) ==
  Readable(x) /\ SixDigits(x.timeout) = x.timeout /\ x.timeout \notin BelowInBinary
=============================================================================
