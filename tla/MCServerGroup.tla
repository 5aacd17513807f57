--------------------------- MODULE MCServerGroup ---------------------------
(* Instances of ServerGroup: what the program sets, and files by hand. *)
EXTENDS ServerGroup

SomeTrim == [word \in Word |-> IF word = "ruok<tab>" THEN "ruok" ELSE word]

SomeValues ==
  [name \in Known |->
     CASE name = "clientPort"   -> {Num(2181), Num(65534)}
       [] name = "dataDir"      -> {Path("/d", <<>>), Path("/a b", <<>>)}
       [] name = "tickTime"     -> {Num(500)}
       [] name = "initLimit"    -> {Num(LongMax + 1)}
       [] name = "syncLimit"    -> {default_sync_limit}
       [] name = "leaderServes" -> {Words(<<"no">>)}
       [] OTHER                 -> {whitelist({"*", "ruok"}), whitelist({"", "stat"}), whitelist({"ruok", "stat"})}]

line(k, text) == [key |-> k, data |-> text]

SomeAdded ==
  {line(key("clientPort"), Num(70000)), line(key("dataDir"), Path("/a b", <<>>)),
   line(key("4lw.commands.whitelist"), Words(<<"ruok<tab>", "", "stat">>)), line(key("other"), Num(3)),
   line(server_id(2), Num(3)), line(server_id(300), Num(3))}

(* A setting and a server twice, and a directory only java understands;    *)
(* two ports, the first too large, and an unknown setting twice; a server  *)
(* that cannot be.                                                         *)
SomeFiles ==
  {<<line(key("tickTime"), Num(1)), line(server_id(1), Num(1)), line(key("tickTime"), Num(2)), Blank,
     line(server_id(1), Num(2)), line(key("dataDir"), Path("/a b", <<>>))>>,
   <<line(key("clientPort"), Num(70000)), line(key("dataDir"), Path("/d", <<>>)),
     line(key("clientPort"), Num(3000)), line(key("other"), Num(1)), line(key("other"), Num(2))>>,
   <<line(server_id(300), Num(1))>>}
=============================================================================
