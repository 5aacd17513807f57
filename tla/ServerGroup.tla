----------------------------- MODULE ServerGroup -----------------------------
(***************************************************************************)
(* A program that makes or loads a configuration, edits and saves it, and  *)
(* then starts a server with it, or a server_group whose members are       *)
(* copies of it.                                                           *)
(*                                                                         *)
(* The program keeps its configuration in one file; each member of a group *)
(* has a directory with a file, a data directory and the id in it.  java   *)
(* (external) reads the last line of each key, when it gets to it.  The    *)
(* program makes a server or a group, which has its own copy of the        *)
(* configuration, and leaves that alone from then on; it may still save    *)
(* what it gave to a server.                                               *)
(***************************************************************************)
EXTENDS Configuration, ConnectionParams

CONSTANTS
  Values,      (* What the program sets the known settings to.             *)
  Added,       (* Lines the program gives to add_setting.                  *)
  Files,       (* Files written by hand, as sequences of lines.            *)
  MaxSize,     (* Bound: members of a group.                               *)
  MaxEdits     (* Bound: edits of the configuration.                       *)

ASSUME ServerGroupAssumption ==
  /\ Values \in [Known -> SUBSET Text]
  /\ Added \subseteq Line
  /\ \A lines \in Files : lines \in Seq(Line)
  /\ MaxSize \in 0..255 /\ 1..MaxSize \subseteq ServerNo
  /\ MaxEdits \in Nat

VARIABLES
  conf,        (* The configuration; no lines before it is made.           *)
  edits,       (* How often it was edited; -1 before it is made.           *)
  source,      (* _source_file is set.                                     *)
  file,        (* The lines on disk.                                       *)
  unsaved,     (* conf was made or edited, or a save has failed, since it  *)
               (* was last saved or loaded.                                *)
  ran,         (* The server of the program: how java got its settings     *)
               (* (none, args, file, or read once it has read the file),   *)
               (* the settings, the lines java has read, and whether the   *)
               (* file was stale (unsaved) then.                           *)
  stage,       (* make_ensemble: none, planned, making, made or failed.    *)
  members,     (* _servers: settings, peer_port and leader_port.           *)
  dirs,        (* Base directories that exist.                             *)
  added,       (* Servers added to the settings of the member in turn.     *)
  files,       (* What is in settings.cfg of the members made.             *)
  hosts,       (* The hosts of conn_str_os so far.                         *)
  starting,    (* start_all_servers: the next member; 0 outside.           *)
  starts       (* How often an instance was made for a member.             *)

confVars  == <<conf, edits, source, file, unsaved>>
groupVars == <<stage, members, dirs, added, files, hosts, starting, starts>>
vars      == <<confVars, ran, groupVars>>

-----------------------------------------------------------------------------
make_minimal ==
  /\ edits = -1
  /\ \E directory \in Values["dataDir"], port \in Values["clientPort"] : conf' = minimal(directory, port)
  /\ edits' = 0
  /\ unsaved' = TRUE
  /\ UNCHANGED <<source, file, ran, groupVars>>

(* from_file and from_string, which does not know the file.  A server of   *)
(* an invalid number makes them throw.  The file may be loaded again, also *)
(* by a program that was ended and comes back.                             *)
from_stream ==
  /\ edits \in -1..(MaxEdits - 1)
  /\ stage = "none" /\ ran.how = "none"
  /\ ~from_lines_throws(file)
  /\ conf' = from_lines(file)
  /\ edits' = edits + 1
  /\ source' \in BOOLEAN
  /\ unsaved' = FALSE
  /\ UNCHANGED <<file, ran, groupVars>>

edit(c) ==
  /\ edits \in 0..(MaxEdits - 1)
  /\ stage = "none" /\ ran.how = "none"
  /\ conf' = c
  /\ edits' = edits + 1
  /\ unsaved' = TRUE
  /\ UNCHANGED <<source, file, ran, groupVars>>

setter(name) == \E v \in Values[name] \union {nullopt} : edit(set(conf, key(name), v))

client_port    == setter("clientPort")
data_directory == setter("dataDir")
tick_time      == setter("tickTime")
init_limit     == setter("initLimit")
sync_limit     == setter("syncLimit")
leader_serves  == setter("leaderServes")

(* The star stands alone: with other words the setter throws. *)
four_letter_word_whitelist ==
  \E v \in Values["4lw.commands.whitelist"] \union {nullopt} :
    /\ (\E i \in DOMAIN v.w : v.w[i] = "*") => Len(v.w) = 1
    /\ edit(set(conf, key("4lw.commands.whitelist"), v))

add_server ==
  \E i \in ServerNo :
    can_add_server(conf, i) /\ edit(set(conf, server_id(i), server_address("peer", 2888, 3888)))

(* Any key may be named; a server of an invalid number throws. *)
add_setting ==
  \E line \in Added :
    /\ ~from_lines_throws(Append(conf.lines, line))
    /\ edit(added_setting(conf, line.key, line.data))

save_file ==
  /\ edits >= 0
  /\ stage = "none"
  /\ file' = conf.lines
  /\ source' = TRUE
  /\ unsaved' = FALSE
  /\ UNCHANGED <<conf, edits, ran, groupVars>>

(* The disk is full: only some lines are in the file, and _source_file,    *)
(* which may name it, stays what it is.                                    *)
save_file_fails ==
  /\ edits >= 0
  /\ stage = "none"
  /\ \E n \in 1..Len(conf.lines) : file' = SubSeq(conf.lines, 1, n - 1)
  /\ unsaved' = TRUE
  /\ UNCHANGED <<conf, edits, source, ran, groupVars>>

-----------------------------------------------------------------------------
(* server(settings): validate_settings refuses a configuration that is     *)
(* neither minimal nor in a file; run_process gives java the port and the  *)
(* directory, or the file, ...                                             *)
launch ==
  /\ edits >= 0
  /\ stage = "none" /\ ran.how = "none"
  /\ is_minimal(conf) \/ source
  /\ ran' = [ran EXCEPT !.how = IF is_minimal(conf) THEN "args" ELSE "file", !.settings = conf]
  /\ UNCHANGED <<confVars, groupVars>>

(* ... which java reads later on. *)
java_reads ==
  /\ ran.how = "file"
  /\ ran' = [ran EXCEPT !.how = "read", !.lines = file, !.stale = unsaved]
  /\ UNCHANGED <<confVars, groupVars>>

JavaReads(lines, k) ==
  LET at == {i \in DOMAIN lines : lines[i].key = k}
  IN  IF at = {} THEN nullopt ELSE lines[CHOOSE i \in at : \A j \in at : j <= i].data

-----------------------------------------------------------------------------
directory_of(c) == c.value[key("dataDir")]

(* x.path + "/data" *)
data_of(directory, i) == [n |-> directory.n, w |-> directory.w, p |-> directory.p \o <<i>>]

(* base_port++, an uint16_t. *)
port(c, n) ==
  LET base == IF get(c, key("clientPort")) = default_client_port THEN 18500 ELSE get(c, key("clientPort")).n
  IN  uint16(base + n)

(* Mutant: the leader port is not counted. *)
member_two_ports(c, i) ==
  [settings |-> set(set(c, key("clientPort"), Num(port(c, 2 * (i - 1)))),
                    key("dataDir"), data_of(directory_of(c), i)),
   peer |-> port(c, 2 * (i - 1) + 1),
   leader |-> port(c, 2 * (i - 1) + 2)]

member(c, i) ==
  [settings |-> set(set(c, key("clientPort"), Num(port(c, 3 * (i - 1)))),
                    key("dataDir"), data_of(directory_of(c), i)),
   peer |-> port(c, 3 * (i - 1) + 1),
   leader |-> port(c, 3 * (i - 1) + 2)]

(* make_ensemble: the members are planned, ... *)
make_ensemble(size) ==
  /\ edits >= 0
  /\ ran.how = "none"
  /\ stage \in {"none", "failed"}
  /\ directory_of(conf) # nullopt
  /\ stage' = "planned"
  /\ members' = [i \in 1..size |-> member(conf, i)]
  /\ added' = 0 /\ files' = <<>> /\ hosts' = <<>>
  /\ starts' = [i \in 1..size |-> 0]
  /\ UNCHANGED <<confVars, ran, dirs, starting>>

(* An exception destroys what there is of the group, not its directories. *)
no_group ==
  /\ stage' = "failed" /\ members' = <<>> /\ starts' = <<>>
  /\ added' = 0 /\ files' = <<>> /\ hosts' = <<>>

(* ... the base directory is made, which fails if it is there, ... *)
create_base_directory ==
  /\ stage = "planned"
  /\ \/ /\ directory_of(conf) \notin dirs
        /\ dirs' = dirs \union {directory_of(conf)}
        /\ stage' = "making"
        /\ UNCHANGED <<members, added, files, hosts, starts>>
     \/ no_group /\ UNCHANGED dirs
  /\ UNCHANGED <<confVars, ran, starting>>

(* The member whose turn it is. *)
turn == Len(files) + 1

(* ... and for one member after the other all servers are added, unless    *)
(* the configuration has had one of that number, ...                       *)
add_member ==
  LET j == added + 1
  IN  /\ stage = "making"
      /\ turn <= Len(members) /\ j <= Len(members)
      /\ can_add_server(members[turn].settings, j)
      /\ members' = [members EXCEPT ![turn].settings =
                       set(@, server_id(j), server_address("127.0.0.1", members[j].peer, members[j].leader))]
      /\ added' = j
      /\ UNCHANGED <<confVars, ran, stage, dirs, files, hosts, starting, starts>>

(* ... and the directories, myid and the settings file are made; ... *)
make_member ==
  /\ stage = "making"
  /\ turn <= Len(members) /\ added = Len(members)
  /\ added' = 0
  /\ files' = Append(files, members[turn].settings.lines)
  /\ hosts' = Append(hosts, <<"127.0.0.1", get(members[turn].settings, key("clientPort")).n>>)
  /\ UNCHANGED <<confVars, ran, stage, members, dirs, starting, starts>>

(* ... anything else that goes wrong throws, and there is no group. *)
make_member_throws ==
  /\ stage = "making"
  /\ turn <= Len(members)
  /\ no_group
  /\ UNCHANGED <<confVars, ran, dirs, starting>>

ensemble_made ==
  /\ stage = "making"
  /\ turn = Len(members) + 1
  /\ stage' = "made"
  /\ UNCHANGED <<confVars, ran, members, dirs, added, files, hosts, starting, starts>>

conn_string == [schema |-> "zk", hosts |-> IF hosts = <<>> THEN <<<<>>>> ELSE hosts, path |-> <<"/">>,
                query |-> <<>>]

-----------------------------------------------------------------------------
start_all_servers ==
  /\ stage = "made"
  /\ starting = 0
  /\ starting' = 1
  /\ UNCHANGED <<confVars, ran, stage, members, dirs, added, files, hosts, starts>>

(* Mutant: a member that runs is started again. *)
start_again ==
  /\ starting \in 1..Len(members)
  /\ starts' = [starts EXCEPT ![starting] = @ + 1]
  /\ starting' = starting + 1
  /\ UNCHANGED <<confVars, ran, stage, members, dirs, added, files, hosts>>

(* A member without an instance gets one, unless its constructor throws    *)
(* (no thread) out of start_all_servers.                                   *)
start_member ==
  /\ starting \in 1..Len(members)
  /\ IF starts[starting] > 0 THEN starting' = starting + 1 /\ UNCHANGED starts
     ELSE \/ /\ starts' = [starts EXCEPT ![starting] = @ + 1]
             /\ starting' = starting + 1
          \/ starting' = 0 /\ UNCHANGED starts
  /\ UNCHANGED <<confVars, ran, stage, members, dirs, added, files, hosts>>

all_started ==
  /\ starting = Len(members) + 1
  /\ starting' = 0
  /\ UNCHANGED <<confVars, ran, stage, members, dirs, added, files, hosts, starts>>

-----------------------------------------------------------------------------
Init ==
  /\ conf = no_lines /\ edits = -1 /\ source = FALSE
  /\ file \in Files /\ unsaved = TRUE
  /\ ran = [how |-> "none", settings |-> no_lines, lines |-> <<>>, stale |-> FALSE]
  /\ stage = "none" /\ members = <<>> /\ dirs = {}
  /\ added = 0 /\ files = <<>> /\ hosts = <<>>
  /\ starting = 0 /\ starts = <<>>

Program ==
  \/ make_minimal \/ from_stream \/ save_file \/ save_file_fails \/ launch
  \/ client_port \/ data_directory \/ tick_time \/ init_limit \/ sync_limit \/ leader_serves
  \/ four_letter_word_whitelist \/ add_server \/ add_setting

Group ==
  \/ \E size \in 0..MaxSize : make_ensemble(size)
  \/ create_base_directory \/ add_member \/ make_member \/ make_member_throws \/ ensemble_made
  \/ start_all_servers \/ start_member \/ all_started

Next == Program \/ java_reads \/ Group

Spec == Init /\ [][Next]_vars

-----------------------------------------------------------------------------
(* Properties *)

OwnsLines(c) ==
  \A k \in Key :
    IF c.line[k] = 0 THEN c.value[k] = nullopt
    ELSE /\ c.line[k] \in DOMAIN c.lines
         /\ \A j \in Key \ {k} : c.line[j] # c.line[k]
         /\ IF c.value[k] = nullopt THEN c.lines[c.line[k]] = Blank
            ELSE /\ c.lines[c.line[k]].key = k
                 /\ c.value[k] \in {c.lines[c.line[k]].data, decode(k, c.lines[c.line[k]].data)}

(* In every configuration, those of a group included, each setting has a   *)
(* line of its own that is what its value is printed as, or what it was    *)
(* read from, and is blank if it has none, whatever was loaded, set,       *)
(* unset, added and set again (configuration::set).                        *)
LinesAreOwned ==
  OwnsLines(conf) /\ \A i \in DOMAIN members : OwnsLines(members[i].settings)

(* Every configuration can be saved and loaded again.  If it was saved     *)
(* since its last edit, each setting is loaded with the value it has,      *)
(* provided its line can be told from a comment and the library reads the  *)
(* value from its own text: not so a limit a long does not hold, nor       *)
(* whitelisted words that are empty, padded or have a comma.  The whole is *)
(* the same if nothing that was unset is still on another line (save,      *)
(* from_lines).                                                            *)
ReloadKeepsSettings ==
  LET again == from_lines(file)
      has(k) == conf.value[k] # nullopt
      readable(k) == /\ has(k)
                     /\ Regular(conf.lines[conf.line[k]].data)
                     /\ decode(k, conf.value[k]) = conf.value[k]
  IN  /\ ~from_lines_throws(conf.lines)
      /\ ~unsaved => \A k \in Key : readable(k) => again.value[k] = conf.value[k]
      /\ ~unsaved /\ (\A k \in Key : readable(k) \/ (~has(k) /\ LinesOf(conf.lines, k) = {})) => Same(conf, again)

(* No line of the setting is one that only java understands. *)
Clear(c, k) == \A i \in DOMAIN c.lines : c.lines[i].key = k => i = c.line[k] \/ Regular(c.lines[i].data)

(* java runs with the settings its server was given.  Started with only    *)
(* the port and the directory, nothing else was set.  Started with a file  *)
(* that was saved or loaded since the last edit, it reads every setting    *)
(* from the line the library keeps for it, if no other line is one that    *)
(* only java understands (validate_settings, is_minimal, run_process).     *)
(* That line is the value as a setter has printed it; what stands in a     *)
(* line by hand may mean something else to java (clientPort=70000 is 4464  *)
(* to the library).  A file that is stale or cut is given to java, too;    *)
(* then nothing is said.                                                   *)
RunsItsSettings ==
  LET c == ran.settings
  IN  /\ ran.how = "args" =>
           \A k \in Key \ {key("dataDir"), key("clientPort")} : get(c, k) = default(k)
      /\ ran.how = "read" /\ ~ran.stale =>
           \A name \in Known :
             c.value[key(name)] # nullopt /\ Clear(c, key(name)) =>
               JavaReads(ran.lines, key(name)) = c.lines[c.line[key(name)]].data

PortsOf(i) == <<get(members[i].settings, key("clientPort")).n, members[i].peer, members[i].leader>>

(* The members of a group that was made know each other: the file of each  *)
(* names all of them with the ports they have, and its own data directory, *)
(* and no two ports of the group are the same (make_ensemble).  Ports      *)
(* count on from 0 after 65535, which this allows.                         *)
EnsembleAgrees ==
  stage = "made" =>
    \A i, j \in DOMAIN members :
      /\ JavaReads(files[i], server_id(j)) = server_address("127.0.0.1", PortsOf(j)[2], PortsOf(j)[3])
      /\ Clear(conf, key("dataDir")) =>
           JavaReads(files[i], key("dataDir")) = data_of(directory_of(conf), i)
      /\ \A m, n \in 1..3 : PortsOf(i)[m] = PortsOf(j)[n] => i = j /\ m = n

(* The connection string of a group that has members is one connection     *)
(* understands, and names where each member listens, in order              *)
(* (make_ensemble, connection_params::parse).                              *)
ConnectionStringNamesAll ==
  stage = "made" /\ members # <<>> =>
    /\ parses(conn_string)
    /\ Clear(conf, key("clientPort")) =>
         parse(conn_string).hosts =
           [i \in DOMAIN members |-> <<"127.0.0.1", JavaReads(files[i], key("clientPort")).n>>]

(* start_all_servers makes one instance for each member it has passed, and *)
(* never a second one, also if it threw half way and is called again.      *)
EveryMemberStartsOnce ==
  \A i \in DOMAIN starts : starts[i] <= 1 /\ (i < starting => starts[i] = 1)
=============================================================================
