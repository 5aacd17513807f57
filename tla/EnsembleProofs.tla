--------------------------- MODULE EnsembleProofs ---------------------------
(***************************************************************************)
(* Proofs about the group of servers that ServerGroup plans, makes and     *)
(* starts, for every configuration, base port and size of the group.       *)
(*                                                                         *)
(* The argument: the members start as copies, and what one setter writes   *)
(* no other disturbs (SetKeeps): so every member still has its own port    *)
(* and directory when all servers have been added (EnsembleInv), and the   *)
(* files the servers read say so to java.                                  *)
(***************************************************************************)
EXTENDS ServerGroupProofs

(* The line of k is the last one of that key, and says v. *)
Tells(c, k, v) ==
  /\ c.line[k] \in DOMAIN c.lines
  /\ c.lines[c.line[k]] = [key |-> k, data |-> v]
  /\ IsLast(c, k)

(* java reads what it says. *)
LEMMA JavaIsTold ==
  ASSUME NEW c, c \in Conf, NEW k, NEW v, Tells(c, k, v)
  PROVE  JavaReads(c.lines, k) = v
  <1>1. /\ c.lines \in Seq(Line) /\ c.line[k] \in DOMAIN c.lines
        /\ c.lines[c.line[k]].key = k /\ c.lines[c.line[k]].data = v
    BY DEF Conf, Tells
  <1> QED BY <1>1, JavaTakesLast DEF Tells, IsLast

(* A setting is told when it is set, unless another line for it comes      *)
(* later, ...                                                              *)
LEMMA SetTells ==
  ASSUME NEW c, ConfOK(c), NEW k \in Key, NEW v \in Text \ {nullopt}, c.line[k] # 0 => IsLast(c, k)
  PROVE  Tells(set(c, k, v), k, v) /\ set(c, k, v).value[k] = v
  <1> DEFINE d == set(c, k, v)
             n == line_for(c, k)
  <1>1. n \in Nat \ {0} /\ Rewritten(c, d, k, v, n)
    BY SetIs
  <1>2. c.lines \in Seq(Line) /\ DOMAIN c.lines = 1..Len(c.lines) /\ Len(c.lines) \in Nat
    BY DEF ConfOK, Conf
  <1>3. n = IF c.line[k] # 0 THEN c.line[k] ELSE Len(c.lines) + 1
    BY DEF line_for
  <1> HIDE DEF d, n
  <1>4. d.line[k] = n /\ n \in DOMAIN d.lines /\ d.lines[n] = [key |-> k, data |-> v] /\ d.value[k] = v
    BY <1>1 DEF Rewritten
  <1>5. ASSUME NEW i \in DOMAIN d.lines, d.lines[i].key = k PROVE i <= n
    <2>1. CASE i = n
      BY <1>1, <2>1
    <2>2. CASE i # n
      <3>1. i \in DOMAIN c.lines /\ c.lines[i].key = k
        BY <1>1, <1>5, <2>2 DEF Rewritten
      <3> QED BY <1>2, <1>3, <3>1 DEF IsLast
    <2> QED BY <2>1, <2>2
  <1> QED BY <1>4, <1>5 DEF Tells, IsLast, d

(* ... and setting another one changes nothing for it. *)
LEMMA SetKeeps ==
  ASSUME NEW c, ConfOK(c), NEW k \in Key, NEW v \in Text, NEW j \in Key, j # k, j # NoKey
  PROVE  /\ set(c, k, v).line[j] = c.line[j] /\ set(c, k, v).value[j] = c.value[j]
         /\ IsLast(c, j) => IsLast(set(c, k, v), j)
         /\ \A w : Tells(c, j, w) => Tells(set(c, k, v), j, w)
  <1> DEFINE d == set(c, k, v)
             n == line_for(c, k)
  <1>1. CASE d = c
    BY <1>1
  <1>2. CASE Rewritten(c, d, k, v, n)
    <2> HIDE DEF d, n
    <2>1. d.line[j] = c.line[j] /\ d.value[j] = c.value[j] /\ c.line[j] # n
      BY <1>2 DEF Rewritten
    <2>2. ASSUME NEW i \in DOMAIN d.lines, d.lines[i].key = j
          PROVE  i \in DOMAIN c.lines /\ c.lines[i].key = j
      <3>1. d.lines[n] = Blank \/ d.lines[n].key = k
        BY <1>2 DEF Rewritten
      <3>2. Blank.key = NoKey
        BY DEF Blank
      <3>3. i # n
        BY <2>2, <3>1, <3>2
      <3> QED BY <1>2, <2>2, <3>3 DEF Rewritten
    <2>3. IsLast(c, j) => IsLast(d, j)
      BY <2>1, <2>2 DEF IsLast
    <2>4. ASSUME NEW w, Tells(c, j, w) PROVE Tells(d, j, w)
      <3>1. c.line[j] \in DOMAIN d.lines /\ d.lines[c.line[j]] = c.lines[c.line[j]]
        BY <1>2, <2>1, <2>4 DEF Rewritten, Tells
      <3> QED BY <2>1, <2>3, <2>4, <3>1 DEF Tells
    <2> QED BY <2>1, <2>3, <2>4 DEF d
  <1> QED BY <1>1, <1>2, SetIs

client_port_of(c, i) == port(c, 3 * (i - 1))
address_of(c, j) == server_address("127.0.0.1", port(c, 3 * (j - 1) + 1), port(c, 3 * (j - 1) + 2))

(* What the settings s of the member i of a group made of c say: its port  *)
(* and its directory, ...                                                  *)
MemberSays(c, s, i) ==
  /\ s.value[key("clientPort")] = Num(client_port_of(c, i))
  /\ Clear(c, key("clientPort")) => Tells(s, key("clientPort"), Num(client_port_of(c, i)))
  /\ Clear(c, key("dataDir")) => Tells(s, key("dataDir"), data_of(directory_of(c), i))

(* ... and the address of a server that was added. *)
HasServer(c, s, j) == Tells(s, server_id(j), address_of(c, j))

(* The keys a member sets are different. *)
LEMMA MemberKeys ==
  /\ key("clientPort") \in Key /\ key("dataDir") \in Key
  /\ key("clientPort").name \in Known /\ key("dataDir").name \in Known
  /\ key("clientPort") # key("dataDir") /\ key("clientPort") # NoKey /\ key("dataDir") # NoKey
  /\ \A i \in ServerNo : /\ server_id(i) \in Key /\ server_id(i) # NoKey
                         /\ server_id(i) # key("clientPort") /\ server_id(i) # key("dataDir")
  /\ \A i, j \in ServerNo : server_id(i) = server_id(j) => i = j
  <1>1. "clientPort" \in Known /\ "dataDir" \in Known
    BY DEF Known
  <1>2. /\ key("clientPort") \in Key /\ key("dataDir") \in Key
        /\ \A i \in ServerNo : server_id(i) \in Key
    BY <1>1, Keys
  <1>3. key("clientPort").name = "clientPort" /\ key("dataDir").name = "dataDir" /\ NoKey.name = ""
    BY DEF key, NoKey
  <1>4. \A i \in ServerNo : server_id(i).name = "server" /\ server_id(i).id = i
    BY DEF server_id
  <1> QED BY <1>1, <1>2, <1>3, <1>4

(* A member that is planned says its port and its directory, ... *)
LEMMA PlannedSays ==
  ASSUME NEW c, Fine(c), NEW i \in Nat \ {0}
  PROVE  MemberSays(c, member(c, i).settings, i)
  <1> DEFINE kp == key("clientPort")
             kd == key("dataDir")
             p == Num(client_port_of(c, i))
             x == data_of(directory_of(c), i)
             d == set(c, kp, p)
             e == set(d, kd, x)
  <1>0. ConfOK(c) /\ 3 * (i - 1) \in Nat
    BY DEF Fine
  <1>1. port(c, 3 * (i - 1)) \in Nat /\ uint16(port(c, 3 * (i - 1))) = port(c, 3 * (i - 1))
    BY <1>0, PortOK
  <1>2. p \in Text \ {nullopt}
    BY <1>1, Texts DEF client_port_of
  <1>3. x \in Text \ {nullopt}
    <2>1. directory_of(c) \in Text
      BY <1>0, MemberKeys DEF directory_of, ConfOK, Conf
    <2>2. directory_of(c).p \o <<i>> \in Seq(Int) /\ directory_of(c).p \o <<i>> # <<>>
      BY <2>1 DEF Text
    <2> QED BY <2>1, <2>2 DEF data_of, Text, nullopt
  <1>4. ConfOK(d)
    BY <1>0, <1>1, NumberOK DEF client_port_of
  <1>5. kp \in Key /\ kd \in Key /\ kp # kd /\ kp # NoKey /\ kd # NoKey /\ kp.name \in Known /\ kd.name \in Known
    BY MemberKeys
  <1>6. member(c, i).settings = e
    BY DEF member, client_port_of
  <1> HIDE DEF p, x, d, e, kp, kd
  <1>7. d.value[kp] = p /\ (Clear(c, kp) => Tells(d, kp, p))
    <2>1. d.value[kp] = p
      <3>1. Rewritten(c, d, kp, p, line_for(c, kp))
        BY <1>0, <1>2, <1>5, SetIs DEF d
      <3> QED BY <3>1 DEF Rewritten
    <2>2. ASSUME Clear(c, kp) PROVE Tells(d, kp, p)
      BY <1>0, <1>2, <1>5, <2>2, ClearIsLast, SetTells DEF d
    <2> QED BY <2>1, <2>2
  <1>8. e.value[kp] = p /\ (Clear(c, kp) => Tells(e, kp, p))
    <2>1. e.value[kp] = d.value[kp] /\ \A w : Tells(d, kp, w) => Tells(e, kp, w)
      BY <1>3, <1>4, <1>5, SetKeeps DEF e
    <2> QED BY <1>7, <2>1
  <1>9. ASSUME Clear(c, kd) PROVE Tells(e, kd, x)
    <2>1. d.line[kd] = c.line[kd] /\ (IsLast(c, kd) => IsLast(d, kd))
      BY <1>0, <1>2, <1>5, SetKeeps DEF d
    <2>2. d.line[kd] # 0 => IsLast(d, kd)
      BY <1>5, <1>9, <2>1, ClearIsLast
    <2> QED BY <1>3, <1>4, <1>5, <2>2, SetTells DEF e
  <1> QED BY <1>6, <1>8, <1>9 DEF MemberSays, p, x, kp, kd

(* ... and still does when a server is added, which it then has beside     *)
(* those it had before.                                                    *)
LEMMA AddedSays ==
  ASSUME NEW c, ConfOK(c), NEW s, ConfOK(s), NEW i, NEW j \in ServerNo, j > 0,
         MemberSays(c, s, i), can_add_server(s, j)
  PROVE  LET d == set(s, server_id(j), address_of(c, j))
         IN  /\ MemberSays(c, d, i)
             /\ HasServer(c, d, j)
             /\ \A n \in ServerNo : HasServer(c, s, n) => HasServer(c, d, n)
  <1> DEFINE k == server_id(j)
             v == address_of(c, j)
             d == set(s, k, v)
  <1>1. v \in Text \ {nullopt}
    <2>1. 3 * (j - 1) + 1 \in Nat /\ 3 * (j - 1) + 2 \in Nat
      BY ConfigurationAssumption
    <2>2. port(c, 3 * (j - 1) + 1) \in Int /\ port(c, 3 * (j - 1) + 2) \in Int
      BY <2>1, PortOK
    <2>3. "127.0.0.1" \in Word
      BY ConfigurationAssumption
    <2> QED BY <2>2, <2>3, AddressText DEF address_of
  <1>2. k \in Key /\ k # key("clientPort") /\ k # key("dataDir") /\ s.line[k] = 0
    BY MemberKeys DEF can_add_server
  <1> HIDE DEF v, d
  <1>3. HasServer(c, d, j)
    BY <1>1, <1>2, SetTells DEF HasServer, v, d
  <1>4. ASSUME NEW n \in ServerNo, HasServer(c, s, n) PROVE HasServer(c, d, n)
    <2>1. CASE n = j
      BY <1>3, <2>1
    <2>2. CASE n # j
      <3>1. server_id(n) \in Key /\ server_id(n) # k /\ server_id(n) # NoKey
        BY <2>2, MemberKeys
      <3> QED BY <1>1, <1>2, <1>4, <3>1, SetKeeps DEF HasServer, d
    <2> QED BY <2>1, <2>2
  <1> HIDE DEF k
  <1>5. ASSUME NEW kk \in {key("clientPort"), key("dataDir")}
        PROVE  d.value[kk] = s.value[kk] /\ \A w : Tells(s, kk, w) => Tells(d, kk, w)
    <2>1. kk \in Key /\ kk # k /\ kk # NoKey
      BY <1>2, MemberKeys
    <2> QED BY <1>1, <1>2, <2>1, SetKeeps DEF d
  <1>6. MemberSays(c, d, i)
    BY <1>5 DEF MemberSays
  <1> QED BY <1>3, <1>4, <1>6 DEF v, d, k

HostNames == {<<"127.0.0.1", n>> : n \in Nat}

(* The members are copies of the configuration with the ports counted from *)
(* its own; those whose turn is over have all servers and are in their     *)
(* files, and the hosts so far are theirs.  An edit is not possible any    *)
(* more.                                                                   *)
EnsembleInv ==
  /\ edits \in Int
  /\ stage # "none" => edits >= 0
  /\ stage \in {"none", "failed"} => members = <<>>
  /\ Len(files) <= Len(members)
  /\ stage = "made" => Len(files) = Len(members)
  /\ \A i \in DOMAIN members :
       /\ MemberSays(conf, members[i].settings, i)
       /\ members[i].peer = port(conf, 3 * (i - 1) + 1)
       /\ members[i].leader = port(conf, 3 * (i - 1) + 2)
  /\ \A i, j \in DOMAIN members :
       i < turn \/ (i = turn /\ j <= added) => HasServer(conf, members[i].settings, j)
  /\ \A i \in DOMAIN files : files[i] = members[i].settings.lines
  /\ hosts \in Seq(HostNames) /\ Len(hosts) = Len(files)
  /\ \A i \in DOMAIN files : hosts[i] = <<"127.0.0.1", client_port_of(conf, i)>>

(* Without members there is nothing to say. *)
LEMMA NoMembers ==
  ASSUME edits' \in Int, stage' # "none" => edits' >= 0, members' = <<>>, files' = <<>>, hosts' = <<>>
  PROVE  EnsembleInv'
  <1>1. DOMAIN <<>> = {} /\ Len(<<>>) = 0 /\ <<>> \in Seq(HostNames)
    OBVIOUS
  <1> QED BY <1>1 DEF EnsembleInv

(* A step that leaves the members and what was made of them alone. *)
LEMMA MembersUnchanged ==
  ASSUME EnsembleInv, UNCHANGED <<conf, edits, members, added, files, hosts>>,
         stage' # "none" => stage # "none",
         stage' \in {"none", "failed"} => stage \in {"none", "failed"},
         stage' = "made" => Len(files) = Len(members)
  PROVE  EnsembleInv'
  BY DEF EnsembleInv, turn

(* The members are planned. *)
LEMMA EnsemblePlanned ==
  ASSUME GroupInv, SettingsInv, EnsembleInv, NEW size \in 0..MaxSize, make_ensemble(size)
  PROVE  EnsembleInv'
  <1>1. /\ members' = [i \in 1..size |-> member(conf, i)]
        /\ files' = <<>> /\ hosts' = <<>> /\ added' = 0 /\ stage' = "planned"
        /\ UNCHANGED <<conf, edits>> /\ edits >= 0 /\ edits \in Int
    BY DEF make_ensemble, confVars, EnsembleInv
  <1>2. size \in Nat /\ 1..size \subseteq Nat \ {0}
    BY ServerGroupAssumption, SMT
  <1>3. DOMAIN members' = 1..size /\ \A i \in 1..size : members'[i] = member(conf, i)
    BY <1>1
  <1>4. Len(members') = size
    BY <1>1, <1>2
  <1>5. /\ DOMAIN files' = {} /\ Len(files') = 0 /\ turn' = 1
        /\ hosts' \in Seq(HostNames) /\ Len(hosts') = 0
    BY <1>1 DEF turn
  <1>6. ASSUME NEW i \in 1..size
        PROVE  /\ MemberSays(conf, members'[i].settings, i)
               /\ members'[i].peer = port(conf, 3 * (i - 1) + 1)
               /\ members'[i].leader = port(conf, 3 * (i - 1) + 2)
    <2>1. MemberSays(conf, member(conf, i).settings, i)
      BY <1>2, PlannedSays DEF SettingsInv
    <2>2. /\ member(conf, i).peer = port(conf, 3 * (i - 1) + 1)
          /\ member(conf, i).leader = port(conf, 3 * (i - 1) + 2)
      BY DEF member
    <2> QED BY <1>3, <2>1, <2>2
  <1>7. \A i, j \in 1..size : ~(i < turn' \/ (i = turn' /\ j <= added'))
    BY <1>1, <1>2, <1>5
  <1> HIDE DEF turn
  <1>8. \A i, j \in DOMAIN members' :
          i < turn' \/ (i = turn' /\ j <= added') => HasServer(conf', members'[i].settings, j)
    BY <1>3, <1>7
  <1>9. Len(files') <= Len(members')
    BY <1>2, <1>4, <1>5
  <1> QED BY <1>1, <1>3, <1>5, <1>6, <1>8, <1>9 DEF EnsembleInv

(* A server is added to the member whose turn it is. *)
LEMMA ServerAdded ==
  ASSUME GroupInv, SettingsInv, EnsembleInv, add_member
  PROVE  EnsembleInv'
  <1> DEFINE j == added + 1
             t == turn
             s == members[t].settings
             d == set(s, server_id(j), address_of(conf, j))
  <1>0. /\ members \in Seq(Member) /\ files \in Seq(Seq(Line)) /\ added \in Nat
        /\ DOMAIN members = 1..Len(members) /\ DOMAIN files = 1..Len(files)
        /\ Len(members) \in Nat /\ Len(files) \in Nat
        /\ ConfOK(conf)
    BY DEF GroupInv
  <1>1. /\ t \in DOMAIN members /\ j \in DOMAIN members /\ j > 0 /\ t = Len(files) + 1
        /\ can_add_server(s, j)
        /\ UNCHANGED <<conf, edits, stage, files, hosts>>
        /\ added' = j /\ turn' = t
    BY <1>0 DEF add_member, turn, confVars
  <1>2. DOMAIN members \subseteq ServerNo
    BY <1>0, ServerGroupAssumption DEF GroupInv
  <1>3. members' = [members EXCEPT ![t].settings = d]
    <2>1. members[j].peer = port(conf, 3 * (j - 1) + 1) /\ members[j].leader = port(conf, 3 * (j - 1) + 2)
      BY <1>1 DEF EnsembleInv
    <2> HIDE DEF j
    <2>2. members' = [members EXCEPT ![t].settings =
            set(s, server_id(j), server_address("127.0.0.1", members[j].peer, members[j].leader))]
      BY DEF add_member, j
    <2> QED BY <2>1, <2>2 DEF address_of
  <1>4. ConfOK(s) /\ members[t] \in Member
    <2>1. members \in Seq(Member) /\ t \in DOMAIN members
      BY <1>0, <1>1
    <2>2. members[t] \in Member
      BY <2>1
    <2>3. OwnsLines(s)
      BY <1>1 DEF GroupInv
    <2> QED BY <2>2, <2>3 DEF Member, ConfOK
  <1>5. MemberSays(conf, s, t)
    BY <1>1 DEF EnsembleInv
  <1>6. /\ MemberSays(conf, d, t) /\ HasServer(conf, d, j)
        /\ \A n \in ServerNo : HasServer(conf, s, n) => HasServer(conf, d, n)
    BY <1>0, <1>1, <1>2, <1>4, <1>5, AddedSays
  <1> HIDE DEF d
  <1>7. /\ DOMAIN members' = DOMAIN members /\ Len(members') = Len(members)
        /\ members'[t].settings = d
        /\ \A i \in DOMAIN members : i # t => members'[i] = members[i]
        /\ \A i \in DOMAIN members : members'[i].peer = members[i].peer /\ members'[i].leader = members[i].leader
    <2>1. members \in Seq(Member) /\ t \in DOMAIN members /\ members[t] \in Member
      BY <1>0, <1>1, <1>4
    <2> DEFINE m == [members[t] EXCEPT !.settings = d]
    <2>2. members' = [members EXCEPT ![t] = m]
      BY <1>3
    <2>3. m \in [settings : {d}, peer : Int, leader : Int] /\ m.settings = d /\ m.peer = members[t].peer
          /\ m.leader = members[t].leader
      BY <2>1 DEF Member
    <2> HIDE DEF m, t
    <2>4. /\ DOMAIN members' = DOMAIN members /\ members'[t] = m
          /\ \A i \in DOMAIN members : i # t => members'[i] = members[i]
      BY <2>1, <2>2
    <2>5. members \in Seq(Member \union {m}) /\ members' \in Seq(Member \union {m})
      <3>1. members' \in [1..Len(members) -> Member \union {m}]
        BY <2>1, <2>2
      <3> QED BY <2>1, <3>1
    <2>6. Len(members') = Len(members)
      BY <2>4, <2>5
    <2> QED BY <2>3, <2>4, <2>6
  <1>8. ASSUME NEW i \in DOMAIN members
        PROVE  /\ MemberSays(conf, members'[i].settings, i)
               /\ members'[i].peer = port(conf, 3 * (i - 1) + 1)
               /\ members'[i].leader = port(conf, 3 * (i - 1) + 2)
    BY <1>6, <1>7 DEF EnsembleInv
  <1>9. ASSUME NEW i \in DOMAIN members, NEW n \in DOMAIN members, i < t \/ (i = t /\ n <= j)
        PROVE  HasServer(conf, members'[i].settings, n)
    <2>1. CASE i # t
      <3>1. i < t
        BY <1>9, <2>1
      <3> QED BY <1>7, <2>1, <3>1 DEF EnsembleInv
    <2>2. CASE i = t /\ n = j
      BY <1>6, <1>7, <2>2
    <2>3. CASE i = t /\ n # j
      <3>1. n <= added
        BY <1>0, <1>9, <2>3
      <3>2. HasServer(conf, s, n)
        BY <1>1, <2>3, <3>1 DEF EnsembleInv
      <3> QED BY <1>2, <1>6, <1>7, <2>3, <3>2
    <2> QED BY <2>1, <2>2, <2>3
  <1>10. ASSUME NEW i \in DOMAIN files PROVE files[i] = members'[i].settings.lines
    <2>1. i # t /\ i \in DOMAIN members
      BY <1>0, <1>1 DEF EnsembleInv
    <2> QED BY <1>7, <2>1 DEF EnsembleInv
  <1> HIDE DEF j, t, s
  <1>11. stage \notin {"none", "failed"}
    BY DEF add_member
  <1>12. /\ Len(files) <= Len(members) /\ (stage = "made" => Len(files) = Len(members))
         /\ edits \in Int /\ (stage # "none" => edits >= 0)
         /\ hosts \in Seq(HostNames) /\ Len(hosts) = Len(files)
         /\ \A i \in DOMAIN files : hosts[i] = <<"127.0.0.1", client_port_of(conf, i)>>
    BY DEF EnsembleInv
  <1> QED BY <1>1, <1>7, <1>8, <1>9, <1>10, <1>11, <1>12 DEF EnsembleInv

(* A member is made, and the next one has its turn. *)
LEMMA MemberMade ==
  ASSUME GroupInv, SettingsInv, EnsembleInv, make_member
  PROVE  EnsembleInv'
  <1> DEFINE t == Len(files) + 1
             s == members[t].settings
             h == <<"127.0.0.1", client_port_of(conf, t)>>
  <1>0. /\ members \in Seq(Member) /\ files \in Seq(Seq(Line)) /\ added \in Nat
        /\ DOMAIN members = 1..Len(members) /\ DOMAIN files = 1..Len(files)
        /\ Len(members) \in Nat /\ Len(files) \in Nat
        /\ hosts \in Seq(HostNames) /\ Len(hosts) = Len(files)
        /\ ConfOK(conf)
    BY DEF GroupInv, EnsembleInv
  <1>1. /\ t \in DOMAIN members /\ added = Len(members) /\ turn = t /\ t \in Nat /\ t > 0
        /\ stage = "making"
        /\ UNCHANGED <<conf, edits, stage, members>>
        /\ added' = 0
        /\ files' = Append(files, s.lines)
        /\ hosts' = Append(hosts, <<"127.0.0.1", get(s, key("clientPort")).n>>)
    BY <1>0 DEF make_member, turn, confVars
  <1>2. client_port_of(conf, t) \in Nat
    <2>1. 3 * (t - 1) \in Nat
      BY <1>0
    <2> QED BY <1>0, <2>1, PortOK DEF client_port_of
  <1>3. get(s, key("clientPort")).n = client_port_of(conf, t)
    <2>1. s.value[key("clientPort")] = Num(client_port_of(conf, t))
      BY <1>1 DEF EnsembleInv, MemberSays
    <2> QED BY <1>2, <2>1, Texts DEF get, Num
  <1>4. s.lines \in Seq(Line) /\ h \in HostNames
    <2>1. members[t] \in Member
      BY <1>0, <1>1
    <2> QED BY <1>2, <2>1 DEF Member, Conf, HostNames
  <1> HIDE DEF h
  <1>5. hosts' = Append(hosts, h)
    BY <1>1, <1>3 DEF h
  <1> HIDE DEF s
  <1>6. /\ files' \in Seq(Seq(Line)) /\ Len(files') = t /\ DOMAIN files' = 1..t /\ files'[t] = s.lines
        /\ \A i \in 1..Len(files) : files'[i] = files[i]
    BY <1>0, <1>1, <1>4
  <1>7. /\ hosts' \in Seq(HostNames) /\ Len(hosts') = t /\ hosts'[t] = h
        /\ \A i \in 1..Len(files) : hosts'[i] = hosts[i]
    BY <1>0, <1>4, <1>5
  <1>8. \A i \in 1..t : i = t \/ i \in 1..Len(files)
    BY <1>0
  <1>9. turn' = t + 1
    BY <1>6 DEF turn
  <1>10. ASSUME NEW i \in DOMAIN members, NEW j \in DOMAIN members, i < t + 1 \/ (i = t + 1 /\ j <= 0)
         PROVE  HasServer(conf, members[i].settings, j)
    <2>1. j <= added /\ ~(j <= 0) /\ (i < turn \/ i = turn)
      BY <1>0, <1>1, <1>10
    <2> QED BY <2>1 DEF EnsembleInv
  <1>11. Len(files') <= Len(members)
    BY <1>0, <1>1, <1>6
  <1> HIDE DEF t
  <1>12. \A i \in DOMAIN files' : files'[i] = members[i].settings.lines
    BY <1>0, <1>6, <1>8 DEF EnsembleInv, s
  <1>13. \A i \in DOMAIN files' : hosts'[i] = <<"127.0.0.1", client_port_of(conf, i)>>
    BY <1>0, <1>6, <1>7, <1>8 DEF EnsembleInv, h
  <1>14. /\ edits \in Int /\ (stage # "none" => edits >= 0)
         /\ \A i \in DOMAIN members :
              /\ MemberSays(conf, members[i].settings, i)
              /\ members[i].peer = port(conf, 3 * (i - 1) + 1)
              /\ members[i].leader = port(conf, 3 * (i - 1) + 2)
    BY DEF EnsembleInv
  <1> QED BY <1>1, <1>6, <1>7, <1>9, <1>10, <1>11, <1>12, <1>13, <1>14 DEF EnsembleInv

(* The invariant of a group. *)
LEMMA EnsembleAlways == Spec => []EnsembleInv
  <1>1. Init => EnsembleInv
    <2>1. DOMAIN <<>> = {} /\ Len(<<>>) = 0 /\ <<>> \in Seq(HostNames)
      OBVIOUS
    <2> QED BY <2>1 DEF Init, EnsembleInv
  <1>2. GroupInv /\ SettingsInv /\ EnsembleInv /\ [Next]_vars => EnsembleInv'
    <2> SUFFICES ASSUME GroupInv, SettingsInv, EnsembleInv, [Next]_vars PROVE EnsembleInv'
      OBVIOUS
    <2>0. edits \in Int /\ (stage \in {"none", "failed"} => members = <<>> /\ files = <<>> /\ hosts = <<>>)
      <3>1. ASSUME members = <<>> PROVE files = <<>> /\ hosts = <<>>
        <4>1. Len(files) = 0 /\ Len(hosts) = 0 /\ files \in Seq(Seq(Line)) /\ hosts \in Seq(HostNames)
          BY <3>1 DEF EnsembleInv, GroupInv
        <4> QED BY <4>1
      <3> QED BY <3>1 DEF EnsembleInv
    <2>1. CASE Program
      <3>1. ASSUME NEW c, edit(c) PROVE edits' \in Int /\ stage = "none" /\ UNCHANGED groupVars
        BY <2>0, <3>1 DEF edit
      <3>2. edits' \in Int /\ stage = "none" /\ UNCHANGED groupVars
        <4>1. CASE make_minimal \/ from_stream \/ save_file \/ save_file_fails \/ launch
          BY <2>0, <4>1 DEF make_minimal, from_stream, save_file, save_file_fails, launch, confVars, EnsembleInv
        <4>2. CASE client_port \/ data_directory \/ tick_time \/ init_limit \/ sync_limit \/ leader_serves
          BY <3>1, <4>2, Zenon DEF client_port, data_directory, tick_time, init_limit, sync_limit,
                                   leader_serves, setter
        <4>3. CASE four_letter_word_whitelist \/ add_server \/ add_setting
          BY <3>1, <4>3 DEF four_letter_word_whitelist, add_server, add_setting
        <4> QED BY <2>1, <4>1, <4>2, <4>3, Zenon DEF Program
      <3> QED BY <2>0, <3>2, NoMembers DEF groupVars
    <2>2. CASE \E size \in 0..MaxSize : make_ensemble(size)
      BY <2>2, EnsemblePlanned
    <2>3. CASE create_base_directory \/ make_member_throws
      <3>1. UNCHANGED <<conf, edits>> /\ edits >= 0
        BY <2>3 DEF create_base_directory, make_member_throws, confVars, EnsembleInv
      <3>2. CASE no_group
        BY <2>0, <3>1, <3>2, NoMembers DEF no_group
      <3>3. CASE stage = "planned" /\ stage' = "making" /\ UNCHANGED <<members, added, files, hosts, starts>>
        BY <3>1, <3>3, MembersUnchanged
      <3> QED BY <2>3, <3>2, <3>3 DEF create_base_directory, make_member_throws
    <2>4. CASE add_member
      BY <2>4, ServerAdded
    <2>5. CASE make_member
      BY <2>5, MemberMade
    <2>6. CASE ensemble_made
      <3>1. Len(files) = Len(members)
        BY <2>6 DEF ensemble_made, turn, GroupInv
      <3> QED BY <2>6, <3>1, MembersUnchanged DEF ensemble_made, confVars
    <2>7. CASE start_all_servers \/ start_member \/ all_started \/ java_reads \/ UNCHANGED vars
      <3>1. UNCHANGED <<conf, edits, stage, members, added, files, hosts>>
        BY <2>7 DEF start_all_servers, start_member, all_started, java_reads, vars, confVars, groupVars
      <3>2. stage = "made" => Len(files) = Len(members)
        BY DEF EnsembleInv
      <3> QED BY <3>1, <3>2, MembersUnchanged
    <2> QED BY <2>1, <2>2, <2>3, <2>4, <2>5, <2>6, <2>7, Zenon DEF Next, Group
  <1> QED BY <1>1, <1>2, GroupAlways, SettingsAlways, PTL DEF Spec

(* In a group that was made, the file of every member says what its        *)
(* settings say, and these name every server.                              *)
LEMMA MadeFiles ==
  ASSUME GroupInv, EnsembleInv, stage = "made"
  PROVE  /\ DOMAIN files = DOMAIN members
         /\ \A i \in DOMAIN members :
              /\ members[i].settings \in Conf /\ files[i] = members[i].settings.lines
              /\ \A j \in DOMAIN members : HasServer(conf, members[i].settings, j)
  <1>1. /\ members \in Seq(Member) /\ files \in Seq(Seq(Line))
        /\ Len(files) = Len(members) /\ Len(members) \in Nat
    BY DEF GroupInv, EnsembleInv
  <1>2. DOMAIN files = 1..Len(members) /\ DOMAIN members = 1..Len(members)
    BY <1>1
  <1>3. ASSUME NEW i \in DOMAIN members, NEW j \in DOMAIN members
        PROVE  HasServer(conf, members[i].settings, j)
    <2>1. i < turn
      BY <1>1, <1>2 DEF turn
    <2> QED BY <2>1 DEF EnsembleInv
  <1>4. ASSUME NEW i \in DOMAIN members
        PROVE  members[i].settings \in Conf /\ files[i] = members[i].settings.lines
    <2>1. members[i] \in Member /\ i \in DOMAIN files
      BY <1>1, <1>2
    <2>2. members[i].settings \in Conf
      BY <2>1 DEF Member
    <2> QED BY <2>1, <2>2 DEF EnsembleInv
  <1> QED BY <1>2, <1>3, <1>4

(* The ports of a member are the three after those of the one before. *)
LEMMA PortsAre ==
  ASSUME GroupInv, EnsembleInv, NEW i \in DOMAIN members, NEW m \in 1..3
  PROVE  /\ PortsOf(i)[m] = port(conf, 3 * (i - 1) + (m - 1))
         /\ 3 * (i - 1) + (m - 1) \in PortNo
  <1>1. i \in Nat /\ i > 0 /\ i < 256
    <2>1. Len(members) \in Nat /\ Len(members) <= 255 /\ i \in 1..Len(members)
      <3>1. members \in Seq(Member) /\ Len(members) <= MaxSize
        BY DEF GroupInv
      <3>2. MaxSize \in 0..255
        BY ServerGroupAssumption
      <3> QED BY <3>1, <3>2
    <2> QED BY <2>1
  <1>2. get(members[i].settings, key("clientPort")).n = client_port_of(conf, i)
    <2>1. client_port_of(conf, i) \in Nat
      <3>1. 3 * (i - 1) \in Nat /\ ConfOK(conf)
        BY <1>1 DEF GroupInv
      <3> QED BY <3>1, PortOK DEF client_port_of
    <2>2. members[i].settings.value[key("clientPort")] = Num(client_port_of(conf, i))
      BY DEF EnsembleInv, MemberSays
    <2> QED BY <2>1, <2>2, Texts DEF get, Num
  <1>3. /\ members[i].peer = port(conf, 3 * (i - 1) + 1)
        /\ members[i].leader = port(conf, 3 * (i - 1) + 2)
    BY DEF EnsembleInv
  <1>4. /\ PortsOf(i)[1] = port(conf, 3 * (i - 1))
        /\ PortsOf(i)[2] = port(conf, 3 * (i - 1) + 1)
        /\ PortsOf(i)[3] = port(conf, 3 * (i - 1) + 2)
    BY <1>2, <1>3 DEF PortsOf, client_port_of
  <1>5. m = 1 \/ m = 2 \/ m = 3
    OBVIOUS
  <1>6. 3 * (i - 1) + 0 = 3 * (i - 1)
    BY <1>1
  <1>7. PortsOf(i)[m] = port(conf, 3 * (i - 1) + (m - 1))
    <2>1. CASE m = 1
      <3>1. m - 1 = 0
        BY <2>1
      <3> QED BY <1>4, <1>6, <2>1, <3>1
    <2>2. CASE m = 2
      <3>1. m - 1 = 1
        BY <2>2
      <3> QED BY <1>4, <2>2, <3>1
    <2>3. CASE m = 3
      <3>1. m - 1 = 2
        BY <2>3
      <3> QED BY <1>4, <2>3, <3>1
    <2> QED BY <1>5, <2>1, <2>2, <2>3
  <1> QED BY <1>1, <1>7 DEF PortNo

(* The members of a group that was made agree on who they are and where    *)
(* they listen, for every size and every configuration the group was made  *)
(* of (server_group::make_ensemble).                                       *)
THEOREM MembersAgree == Spec => []EnsembleAgrees
  <1>1. GroupInv /\ EnsembleInv => EnsembleAgrees
    <2> SUFFICES ASSUME GroupInv, EnsembleInv, stage = "made",
                        NEW i \in DOMAIN members, NEW j \in DOMAIN members
                 PROVE  /\ JavaReads(files[i], server_id(j)) =
                             server_address("127.0.0.1", PortsOf(j)[2], PortsOf(j)[3])
                        /\ Clear(conf, key("dataDir")) =>
                             JavaReads(files[i], key("dataDir")) = data_of(directory_of(conf), i)
                        /\ \A m, n \in 1..3 : PortsOf(i)[m] = PortsOf(j)[n] => i = j /\ m = n
      BY DEF EnsembleAgrees
    <2>1. members[i].settings \in Conf /\ files[i] = members[i].settings.lines
      BY MadeFiles
    <2>2. JavaReads(files[i], server_id(j)) = server_address("127.0.0.1", PortsOf(j)[2], PortsOf(j)[3])
      <3>1. Tells(members[i].settings, server_id(j), address_of(conf, j))
        BY MadeFiles DEF HasServer
      <3>2. JavaReads(files[i], server_id(j)) = address_of(conf, j)
        BY <2>1, <3>1, JavaIsTold
      <3>3. PortsOf(j)[2] = members[j].peer /\ PortsOf(j)[3] = members[j].leader
        BY DEF PortsOf
      <3>4. members[j].peer = port(conf, 3 * (j - 1) + 1) /\ members[j].leader = port(conf, 3 * (j - 1) + 2)
        BY DEF EnsembleInv
      <3> QED BY <3>2, <3>3, <3>4 DEF address_of
    <2>3. ASSUME Clear(conf, key("dataDir"))
          PROVE  JavaReads(files[i], key("dataDir")) = data_of(directory_of(conf), i)
      <3>1. Tells(members[i].settings, key("dataDir"), data_of(directory_of(conf), i))
        BY <2>3 DEF EnsembleInv, MemberSays
      <3> QED BY <2>1, <3>1, JavaIsTold
    <2>4. ASSUME NEW m \in 1..3, NEW n \in 1..3, PortsOf(i)[m] = PortsOf(j)[n] PROVE i = j /\ m = n
      <3>1. i \in Nat /\ j \in Nat /\ m \in Nat /\ n \in Nat
        BY DEF GroupInv
      <3>2. ConfOK(conf)
        BY DEF GroupInv
      <3>3. 3 * (i - 1) + (m - 1) = 3 * (j - 1) + (n - 1)
        <4> DEFINE a == 3 * (i - 1) + (m - 1)
                   b == 3 * (j - 1) + (n - 1)
        <4>1. PortsOf(i)[m] = port(conf, a) /\ a \in PortNo
          BY PortsAre, Zenon
        <4>2. PortsOf(j)[n] = port(conf, b) /\ b \in PortNo
          BY PortsAre, Zenon
        <4> HIDE DEF a, b
        <4>3. a = b
          BY <2>4, <3>2, <4>1, <4>2, PortsDiffer
        <4> QED BY <4>3 DEF a, b
      <3> QED BY <3>1, <3>3
    <2> QED BY <2>2, <2>3, <2>4
  <1> QED BY <1>1, GroupAlways, EnsembleAlways, PTL

(* The connection string of a group is parsed to the addresses its members *)
(* listen at, in order, for every size (server_group::make_ensemble,       *)
(* connection_params::parse).                                              *)
THEOREM ConnectionStringIsComplete == Spec => []ConnectionStringNamesAll
  <1>1. GroupInv /\ EnsembleInv => ConnectionStringNamesAll
    <2> SUFFICES ASSUME GroupInv, EnsembleInv, stage = "made", members # <<>>
                 PROVE  /\ parses(conn_string)
                        /\ Clear(conf, key("clientPort")) =>
                             parse(conn_string).hosts =
                               [i \in DOMAIN members |->
                                  <<"127.0.0.1", JavaReads(files[i], key("clientPort")).n>>]
      BY DEF ConnectionStringNamesAll
    <2>1. /\ members \in Seq(Member) /\ Len(members) \in Nat /\ DOMAIN members = 1..Len(members)
          /\ hosts \in Seq(HostNames) /\ Len(hosts) = Len(members)
          /\ \A i \in DOMAIN members : hosts[i] = <<"127.0.0.1", client_port_of(conf, i)>>
      <3>1. members \in Seq(Member) /\ hosts \in Seq(HostNames) /\ Len(hosts) = Len(members)
        BY DEF GroupInv, EnsembleInv
      <3>2. Len(members) \in Nat /\ DOMAIN members = 1..Len(members)
        BY <3>1
      <3>3. \A i \in DOMAIN members : hosts[i] = <<"127.0.0.1", client_port_of(conf, i)>>
        BY MadeFiles DEF EnsembleInv
      <3> QED BY <3>1, <3>2, <3>3
    <2>2. Len(members) > 0
      BY <2>1
    <2>3. hosts # <<>> /\ \A i \in 1..Len(hosts) : hosts[i] # <<>>
      <3>1. \A h \in HostNames : h # <<>>
        BY DEF HostNames
      <3>2. hosts # <<>>
        BY <2>1, <2>2
      <3>3. \A i \in 1..Len(hosts) : hosts[i] \in HostNames
        BY <2>1
      <3> QED BY <3>1, <3>2, <3>3
    <2>4. /\ conn_string.schema = "zk" /\ conn_string.hosts = hosts /\ conn_string.path = <<"/">>
          /\ conn_string.query = <<>>
      BY <2>3 DEF conn_string
    <2>5. hosts # <<<<>>>>
      <3>1. Len(<<<<>>>>) = 1 /\ <<<<>>>>[1] = <<>>
        OBVIOUS
      <3> QED BY <2>1, <2>2, <2>3, <3>1
    <2>6. parses(conn_string)
      <3>1. Query(conn_string) = <<>> /\ DOMAIN <<>> = {}
        BY <2>4 DEF Query
      <3> QED BY <2>3, <2>4, <2>5, <3>1 DEF parses, Matches, extract_advanced_options
    <2>7. parse(conn_string).hosts = hosts
      <3>1. HostPieces(conn_string) = hosts
        BY <2>4 DEF HostPieces
      <3>2. Last(hosts) # <<>>
        BY <2>1, <2>2, <2>3 DEF Last
      <3>3. extract_host_list(HostPieces(conn_string)) = hosts
        BY <3>1, <3>2 DEF extract_host_list
      <3> QED BY <3>3 DEF parse
    <2>8. ASSUME Clear(conf, key("clientPort"))
          PROVE  hosts = [i \in DOMAIN members |->
                            <<"127.0.0.1", JavaReads(files[i], key("clientPort")).n>>]
      <3>1. ASSUME NEW i \in DOMAIN members
            PROVE  JavaReads(files[i], key("clientPort")).n = client_port_of(conf, i)
        <4>1. Tells(members[i].settings, key("clientPort"), Num(client_port_of(conf, i)))
          BY <2>8 DEF EnsembleInv, MemberSays
        <4>2. JavaReads(files[i], key("clientPort")) = Num(client_port_of(conf, i))
          BY <4>1, MadeFiles, JavaIsTold
        <4> QED BY <4>2 DEF Num
      <3> DEFINE f == [i \in DOMAIN members |-> <<"127.0.0.1", JavaReads(files[i], key("clientPort")).n>>]
      <3>2. DOMAIN f = 1..Len(hosts) /\ \A i \in 1..Len(hosts) : f[i] = hosts[i]
        BY <2>1, <3>1
      <3>3. hosts = [i \in 1..Len(hosts) |-> hosts[i]]
        BY <2>1
      <3>4. f = [i \in 1..Len(hosts) |-> f[i]]
        BY <2>1
      <3> HIDE DEF f
      <3>5. hosts = f
        BY <3>2, <3>3, <3>4
      <3> QED BY <3>5 DEF f
    <2> QED BY <2>6, <2>7, <2>8
  <1> QED BY <1>1, GroupAlways, EnsembleAlways, PTL
=============================================================================
