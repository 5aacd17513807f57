---------------------------- MODULE Configuration ----------------------------
(***************************************************************************)
(* server::configuration: the lines of a configuration file, the settings  *)
(* found in them, and the line each setting is kept on.                    *)
(*                                                                         *)
(* A key is a name, with the number of the server in server.N.  A text is  *)
(* a number (not a negative one), the words w between commas (or a single  *)
(* word), or an address or subdirectory, a word with numbers p.  A value   *)
(* is modelled by the text it is printed as.  Lines are counted from 1,    *)
(* and 0 is not_a_line.                                                    *)
(***************************************************************************)
EXTENDS Integers, Sequences, FiniteSets

CONSTANTS
  Unknown,    (* Names of settings the library does not know.              *)
  ServerNo,   (* Numbers that occur in server.N.                           *)
  Word,       (* Words of which texts are made.                            *)
  Spaced,     (* Those with a space or a # in them.                        *)
  Trim,       (* Each word without white space (tabs) at its ends.         *)
  LongMax     (* Bound: the largest number of a long (2^63 - 1).           *)

ASSUME ConfigurationAssumption ==
  /\ ServerNo \subseteq Nat
  /\ {"yes", "no", "srvr", "peer", "127.0.0.1"} \subseteq Word
  /\ Spaced \subseteq Word
  /\ Trim \in [Word -> Word]
  /\ LongMax \in Nat

Known == {"clientPort", "dataDir", "tickTime", "initLimit", "syncLimit", "leaderServes",
          "4lw.commands.whitelist"}

key(name)    == [name |-> name, id |-> 0]
server_id(i) == [name |-> "server", id |-> i]
NoKey        == key("")

Key == {key(name) : name \in Known \union Unknown} \union {server_id(i) : i \in ServerNo}

Num(n)   == [n |-> n, w |-> <<>>, p |-> <<>>]
Words(w) == [n |-> -1, w |-> w, p |-> <<>>]
Path(word, numbers) == [n |-> -1, w |-> <<word>>, p |-> numbers]
Empty    == Words(<<>>)
nullopt  == [n |-> -2, w |-> <<>>, p |-> <<>>]

(* A line is a key and a text, which is never nothing at all. *)
Text == [n : Int, w : Seq(Word), p : Seq(Int)]
Line == [key : [name : Known \union Unknown \union {"server", ""}, id : Nat], data : Text \ {nullopt}]

Blank == [key |-> NoKey, data |-> Empty]

(* What ([^ #]+)[ #]* matches: no spaces, and not nothing. *)
Regular(text) ==
  text \notin {Empty, Words(<<"">>)} /\ \A i \in DOMAIN text.w : text.w[i] \notin Spaced

valid_id(i) == i \in 1..255

default_client_port == Num(2181)
default_init_limit  == Num(10)
default_sync_limit  == Num(5)

default(k) ==
  IF k = key("clientPort") THEN default_client_port
  ELSE IF k = key("tickTime") THEN Num(2000)
  ELSE IF k = key("initLimit") THEN default_init_limit
  ELSE IF k = key("syncLimit") THEN default_sync_limit
  ELSE IF k = key("leaderServes") THEN Words(<<"yes">>)
  ELSE IF k = key("4lw.commands.whitelist") THEN Words(<<"srvr">>)
  ELSE nullopt

-----------------------------------------------------------------------------
(* from_lines *)

uint16(n) == n % 65536

(* Text that is no number is 0, and a number too large the largest.  (atoi *)
(* is the lower bits of it.)                                               *)
atol(text) == IF text.n < 0 THEN 0 ELSE IF text.n > LongMax THEN LongMax ELSE text.n

(* The words between the commas.  Where there is nothing between two       *)
(* commas there is no word; where there is only white space there is one.  *)
parse_whitelist(words) == {Trim[words[i]] : i \in {i \in DOMAIN words : words[i] # ""}}

(* The words of a std::set in its order (here: any one). *)
listing(words) ==
  CHOOSE f \in [1..Cardinality(words) -> words] : \A x \in words : \E i \in DOMAIN f : f[i] = x

whitelist(words) == Words(listing(words))

(* The value read from a text: a port has 16 bits, and everything but yes  *)
(* is no.  A number or a path in the whitelist is a word like any other.   *)
decode(k, text) ==
  IF k.name = "clientPort" THEN Num(uint16(atol(text)))
  ELSE IF k.name \in {"tickTime", "initLimit", "syncLimit"} THEN Num(atol(text))
  ELSE IF k.name = "leaderServes" THEN (IF text = Words(<<"yes">>) THEN text ELSE Words(<<"no">>))
  ELSE IF k.name = "4lw.commands.whitelist" /\ text.n < 0 /\ text.p = <<>>
       THEN whitelist(parse_whitelist(text.w))
  ELSE text

LinesOf(lines, k) == {i \in DOMAIN lines : lines[i].key = k /\ Regular(lines[i].data)}

(* The last line of a known setting counts, the first of any other. *)
line_of(lines, k) ==
  LET at == LinesOf(lines, k)
  IN  IF at = {} THEN 0
      ELSE IF k.name \in Known THEN CHOOSE i \in at : \A j \in at : j <= i
      ELSE CHOOSE i \in at : \A j \in at : i <= j

from_lines_throws(lines) ==
  \E i \in DOMAIN lines :
    lines[i].key.name = "server" /\ ~valid_id(lines[i].key.id) /\ Regular(lines[i].data)

from_lines(lines) ==
  [lines |-> lines,
   line |-> [k \in Key |-> line_of(lines, k)],
   value |-> [k \in Key |-> IF line_of(lines, k) = 0 THEN nullopt
                            ELSE decode(k, lines[line_of(lines, k)].data)]]

no_lines == from_lines(<<>>)

-----------------------------------------------------------------------------
(* Mutant: the new line is the last one there was. *)
set_on_last_line(c, k, v) ==
  IF c.line[k] # 0
  THEN [c EXCEPT !.lines[c.line[k]] = IF v = nullopt THEN Blank ELSE [key |-> k, data |-> v],
                 !.value[k] = v]
  ELSE IF v = nullopt THEN c
  ELSE [lines |-> Append(c.lines, [key |-> k, data |-> v]),
        line |-> [c.line EXCEPT ![k] = Len(c.lines)],
        value |-> [c.value EXCEPT ![k] = v]]

(* A setting without a line gets one at the end, unless there is nothing   *)
(* to set; otherwise its line is written again, or left blank.             *)
set(c, k, v) ==
  IF c.line[k] # 0
  THEN [c EXCEPT !.lines[c.line[k]] = IF v = nullopt THEN Blank ELSE [key |-> k, data |-> v],
                 !.value[k] = v]
  ELSE IF v = nullopt THEN c
  ELSE [lines |-> Append(c.lines, [key |-> k, data |-> v]),
        line |-> [c.line EXCEPT ![k] = Len(c.lines) + 1],
        value |-> [c.value EXCEPT ![k] = v]]

get(c, k) == IF c.value[k] = nullopt THEN default(k) ELSE c.value[k]

minimal(directory, port) ==
  LET c1 == set(no_lines, key("dataDir"), directory)
      c2 == set(c1, key("clientPort"), port)
      c3 == set(c2, key("initLimit"), default_init_limit)
  IN  set(c3, key("syncLimit"), default_sync_limit)

(* Mutant: the number of lines is not looked at. *)
is_minimal_any_lines(c) ==
  /\ c.value[key("dataDir")] # nullopt
  /\ c.value[key("clientPort")] # nullopt
  /\ c.value[key("initLimit")] = default_init_limit
  /\ c.value[key("syncLimit")] = default_sync_limit

is_minimal(c) ==
  /\ c.value[key("dataDir")] # nullopt
  /\ c.value[key("clientPort")] # nullopt
  /\ c.value[key("initLimit")] = default_init_limit
  /\ c.value[key("syncLimit")] = default_sync_limit
  /\ Len(c.lines) = 4

(* add_server takes a valid number that is not there yet. *)
can_add_server(c, i) == valid_id(i) /\ c.line[server_id(i)] = 0

server_address(host, peer_port, leader_port) == Path(host, <<peer_port, leader_port>>)

(* Mutant: the lines are not read again. *)
appended_setting(c, k, text) == [c EXCEPT !.lines = Append(c.lines, [key |-> k, data |-> text])]

(* add_setting reads all lines again. *)
added_setting(c, k, text) == from_lines(Append(c.lines, [key |-> k, data |-> text]))

(* operator== *)
Same(c, d) ==
  /\ \A name \in Known : get(c, key(name)) = get(d, key(name))
  /\ \A k \in Key : k.name \notin Known => c.value[k] = d.value[k]
=============================================================================
