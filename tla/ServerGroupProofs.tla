------------------------- MODULE ServerGroupProofs -------------------------
(***************************************************************************)
(* Proofs about ServerGroup, for every file, value, size of a group and    *)
(* number of edits.                                                        *)
(*                                                                         *)
(* The argument: set writes the one line that is the setting's own         *)
(* (ConfOK), and that line stays the one from_lines would choose           *)
(* (Indexed), so the lines say what the settings are, to the library and,  *)
(* where no line is left that only java understands, to java.              *)
(* EnsembleProofs builds on this.                                          *)
(***************************************************************************)
EXTENDS ServerGroup, FiniteSetTheorems, TLAPS

(* Every set of numbers that is not empty has a least one, ... *)
LEMMA Least ==
  ASSUME NEW at \in SUBSET Nat, at # {}
  PROVE  \E i \in at : \A j \in at : i <= j
  <1>1. PICK i \in at : \A j \in at : <<j, i>> \notin OpToRel(<, Nat)
    BY NatLessThanWellFounded, WFMin, Zenon
  <1>2. ASSUME NEW j \in at PROVE ~(j < i)
    BY <1>1, <1>2 DEF OpToRel
  <1> QED BY <1>2

(* ... and if it is bounded a greatest one. *)
LEMMA Greatest ==
  ASSUME NEW n \in Nat, NEW at \in SUBSET (1..n), at # {}
  PROVE  \E i \in at : \A j \in at : j <= i
  <1> DEFINE above == {m \in Nat : \A j \in at : j <= m}
  <1>1. n \in above
    OBVIOUS
  <1>2. PICK m \in above : \A k \in above : m <= k
    BY <1>1, Least, Zenon
  <1>3. m \in at
    <2>1. SUFFICES ASSUME m \notin at PROVE FALSE
      OBVIOUS
    <2>2. ASSUME NEW j \in at PROVE j <= m - 1 /\ m - 1 \in Nat
      <3>1. j \in 1..n /\ j <= m /\ j # m /\ m \in Nat
        BY <2>1, <1>2
      <3> QED BY <3>1
    <2>3. m - 1 \in above
      BY <2>2
    <2> QED BY <2>3, <1>2
  <1> QED BY <1>3

-----------------------------------------------------------------------------
(* Configurations. *)
Conf == [lines : Seq(Line), line : [Key -> Nat], value : [Key -> Text]]

ConfOK(c) == c \in Conf /\ OwnsLines(c)

(* The keys are keys of lines, and those of the settings are among them. *)
LEMMA Keys ==
  /\ Key \subseteq [name : Known \union Unknown \union {"server", ""}, id : Nat]
  /\ \A name \in Known : key(name) \in Key
  /\ \A i \in ServerNo : server_id(i) \in Key
  <1>1. \A name \in Known \union Unknown : key(name) \in Key
    BY Zenon DEF Key
  <1>2. \A i \in ServerNo : server_id(i) \in Key
    BY Zenon DEF Key
  <1>3. ASSUME NEW name \in Known \union Unknown
        PROVE  key(name) \in [name : Known \union Unknown \union {"server", ""}, id : Nat]
    BY DEF key
  <1>4. ASSUME NEW i \in ServerNo
        PROVE  server_id(i) \in [name : Known \union Unknown \union {"server", ""}, id : Nat]
    BY ConfigurationAssumption DEF server_id
  <1> QED BY <1>1, <1>2, <1>3, <1>4, Zenon DEF Key

(* Numbers, no text and blank lines have their types. *)
LEMMA Texts ==
  /\ nullopt \in Text
  /\ Blank \in Line
  /\ \A n \in Nat : Num(n) \in Text /\ Num(n) # nullopt
  <1>1. <<>> \in Seq(Int) /\ <<>> \in Seq(Word)
    OBVIOUS
  <1>3. nullopt \in Text /\ Empty \in Text /\ Empty # nullopt
    BY <1>1 DEF nullopt, Text, Empty, Words
  <1>4. Blank \in Line
    BY <1>3 DEF Blank, Line, NoKey, key
  <1>5. ASSUME NEW n \in Nat PROVE Num(n) \in Text /\ Num(n) # nullopt
    BY <1>1 DEF nullopt, Text, Num
  <1> QED BY <1>3, <1>4, <1>5

(* A number of 16 bits stays what it is when it is cut to 16 bits. *)
LEMMA Uint16 ==
  \A n \in Int : uint16(n) \in Nat /\ uint16(uint16(n)) = uint16(n)
  BY SMT DEF uint16

(* There are finitely many words between commas, ... *)
LEMMA WhitelistFinite ==
  ASSUME NEW words \in Seq(Word)
  PROVE  parse_whitelist(words) \subseteq Word /\ IsFiniteSet(parse_whitelist(words))
  <1> DEFINE at == {i \in DOMAIN words : words[i] # ""}
             f == [i \in at |-> Trim[words[i]]]
             found == parse_whitelist(words)
  <1>1. IsFiniteSet(at)
    <2>1. IsFiniteSet(1..Len(words))
      BY FS_Interval
    <2>2. at \subseteq 1..Len(words)
      <3>1. DOMAIN words = 1..Len(words)
        OBVIOUS
      <3> QED BY <3>1, Zenon
    <2> HIDE DEF at
    <2> QED BY <2>1, <2>2, FS_Subset, Zenon
  <1>2. found = {Trim[words[i]] : i \in at}
    BY DEF parse_whitelist
  <1>3. found \subseteq Word
    <2>1. ASSUME NEW i \in at PROVE Trim[words[i]] \in Word
      <3>1. i \in DOMAIN words
        BY Zenon
      <3> HIDE DEF at, f, found
      <3>2. words[i] \in Word
        BY <3>1
      <3> QED BY <3>2, ConfigurationAssumption
    <2> HIDE DEF at, found
    <2> QED BY <1>2, <2>1, Zenon
  <1> HIDE DEF at, found
  <1>4. f \in Surjection(at, found)
    BY <1>2 DEF Surjection
  <1>5. IsFiniteSet(found)
    BY <1>1, <1>4, FS_Surjection, Zenon DEF ExistsSurjection
  <1> QED BY <1>3, <1>5 DEF found

(* ... and they can be listed. *)
LEMMA ListingOK ==
  ASSUME NEW words, words \subseteq Word, IsFiniteSet(words)
  PROVE  listing(words) \in Seq(Word)
  <1> DEFINE n == Cardinality(words)
  <1>1. n \in Nat /\ ExistsBijection(1..n, words)
    BY FS_CardinalityType
  <1> HIDE DEF n
  <1>2. PICK g \in Bijection(1..n, words) : TRUE
    BY <1>1, Zenon DEF ExistsBijection
  <1>3. g \in [1..n -> words] /\ \A x \in words : \E i \in DOMAIN g : g[i] = x
    BY <1>2 DEF Bijection, Surjection, Injection
  <1>4. listing(words) \in [1..n -> words]
    BY <1>3, Zenon DEF listing, n
  <1> QED BY <1>1, <1>4

(* What is read from a text is a value. *)
LEMMA DecodeOK ==
  ASSUME NEW k, NEW text \in Text, text # nullopt
  PROVE  decode(k, text) \in Text /\ decode(k, text) # nullopt
  <1>1. atol(text) \in Nat /\ uint16(atol(text)) \in Nat
    BY Uint16, ConfigurationAssumption DEF atol, Text
  <1>2. ASSUME NEW words \in Seq(Word) PROVE Words(words) \in Text /\ Words(words) # nullopt
    <2>1. <<>> \in Seq(Int)
      OBVIOUS
    <2> QED BY <2>1 DEF Words, Text, nullopt
  <1>3. <<"no">> \in Seq(Word)
    BY ConfigurationAssumption
  <1>4. whitelist(parse_whitelist(text.w)) \in Text \ {nullopt}
    <2>1. text.w \in Seq(Word)
      BY DEF Text
    <2> QED BY <1>2, <2>1, WhitelistFinite, ListingOK DEF whitelist
  <1> QED BY <1>1, <1>2, <1>3, <1>4, Texts DEF decode

(* The line from_lines keeps for a setting is one of its lines. *)
LEMMA LineOf ==
  ASSUME NEW lines \in Seq(Line), NEW k
  PROVE  \/ line_of(lines, k) = 0
         \/ line_of(lines, k) \in DOMAIN lines /\ lines[line_of(lines, k)].key = k
            /\ Regular(lines[line_of(lines, k)].data)
  <1> DEFINE at == LinesOf(lines, k)
  <1>1. at \in SUBSET (1..Len(lines)) /\ at \in SUBSET Nat /\ Len(lines) \in Nat
    BY DEF LinesOf
  <1>2. at = {} => line_of(lines, k) = 0
    BY DEF line_of
  <1>3. ASSUME at # {} PROVE line_of(lines, k) \in at
    <2>1. (CHOOSE i \in at : \A j \in at : i <= j) \in at
      BY <1>1, <1>3, Least, Zenon
    <2>2. (CHOOSE i \in at : \A j \in at : j <= i) \in at
      BY <1>1, <1>3, Greatest, Zenon
    <2> QED BY <1>3, <2>1, <2>2, Zenon DEF line_of
  <1> QED BY <1>2, <1>3 DEF LinesOf

(* from_lines makes a configuration of any lines. *)
LEMMA FromLines ==
  ASSUME NEW lines \in Seq(Line)
  PROVE  ConfOK(from_lines(lines))
  <1> DEFINE c == from_lines(lines)
  <1>1. /\ c.lines = lines
        /\ c.line = [k \in Key |-> line_of(lines, k)]
        /\ c.value = [k \in Key |-> IF line_of(lines, k) = 0 THEN nullopt
                                    ELSE decode(k, lines[line_of(lines, k)].data)]
    BY DEF from_lines
  <1>2. ASSUME NEW k \in Key, line_of(lines, k) # 0
        PROVE  /\ line_of(lines, k) \in 1..Len(lines)
               /\ lines[line_of(lines, k)].key = k
               /\ decode(k, lines[line_of(lines, k)].data) \in Text \ {nullopt}
    <2>1. line_of(lines, k) \in DOMAIN lines /\ lines[line_of(lines, k)].key = k
      BY <1>2, LineOf
    <2>2. lines[line_of(lines, k)].data \in Text \ {nullopt}
      <3>1. lines[line_of(lines, k)] \in Line
        BY <2>1
      <3> QED BY <3>1 DEF Line
    <2> QED BY <2>1, <2>2, DecodeOK
  <1>3. c.line \in [Key -> Nat]
    BY <1>1, <1>2
  <1>4. c.value \in [Key -> Text]
    BY <1>1, <1>2, Texts
  <1>5. c \in Conf
    BY <1>1, <1>3, <1>4 DEF Conf, from_lines
  <1>6. ASSUME NEW k \in Key, c.line[k] # 0
        PROVE  /\ c.line[k] \in DOMAIN c.lines
               /\ c.lines[c.line[k]].key = k
               /\ c.value[k] # nullopt
               /\ decode(k, c.lines[c.line[k]].data) = c.value[k]
    BY <1>1, <1>2, <1>6
  <1>7. ASSUME NEW k \in Key, c.line[k] = 0 PROVE c.value[k] = nullopt
    BY <1>1, <1>7
  <1>8. OwnsLines(c)
    <2> HIDE DEF c
    <2> QED BY <1>6, <1>7 DEF OwnsLines
  <1> QED BY <1>5, <1>8 DEF ConfOK

(* set writes the line of the setting, or a new one at the end. *)
LEMMA SetOK ==
  ASSUME NEW c, ConfOK(c), NEW k \in Key, NEW v \in Text
  PROVE  ConfOK(set(c, k, v))
  <1> DEFINE text == IF v = nullopt THEN Blank ELSE [key |-> k, data |-> v]
             d == set(c, k, v)
  <1>0. /\ c.lines \in Seq(Line) /\ c.line \in [Key -> Nat] /\ c.value \in [Key -> Text]
        /\ c = [lines |-> c.lines, line |-> c.line, value |-> c.value]
    BY DEF ConfOK, Conf
  <1>1. text \in Line
    BY Keys, Texts DEF Line
  <1>2. CASE c.line[k] = 0 /\ v = nullopt
    BY <1>2 DEF set
  <1>3. CASE c.line[k] # 0
    <2>1. c.line[k] \in DOMAIN c.lines
      BY <1>3 DEF ConfOK, OwnsLines
    <2>2. /\ d.lines = [c.lines EXCEPT ![c.line[k]] = text]
          /\ d.line = c.line
          /\ d.value = [c.value EXCEPT ![k] = v]
          /\ d = [lines |-> d.lines, line |-> d.line, value |-> d.value]
      BY <1>3, <1>0 DEF set
    <2> HIDE DEF d
    <2>3. d.lines \in Seq(Line) /\ DOMAIN d.lines = DOMAIN c.lines
      BY <2>1, <2>2, <1>0, <1>1
    <2>4. d \in Conf
      <3>1. d.line \in [Key -> Nat] /\ d.value \in [Key -> Text]
        BY <2>2, <1>0
      <3> QED BY <2>2, <2>3, <3>1, Zenon DEF Conf
    <2>5. d.lines[d.line[k]] = text /\ d.value[k] = v
      BY <2>1, <2>2, <1>0
    <2>6. ASSUME NEW j \in Key, j # k
          PROVE  /\ d.value[j] = c.value[j]
                 /\ c.line[j] # 0 => d.lines[c.line[j]] = c.lines[c.line[j]]
      <3>1. c.line[j] # 0 => c.line[j] # c.line[k] /\ c.line[j] \in DOMAIN c.lines
        BY <1>3, <2>6 DEF ConfOK, OwnsLines
      <3> QED BY <3>1, <2>2, <2>6, <1>0
    <2>7. OwnsLines(d)
      <3> SUFFICES ASSUME NEW j \in Key
                   PROVE  IF d.line[j] = 0 THEN d.value[j] = nullopt
                          ELSE /\ d.line[j] \in DOMAIN d.lines
                               /\ \A i \in Key \ {j} : d.line[i] # d.line[j]
                               /\ IF d.value[j] = nullopt THEN d.lines[d.line[j]] = Blank
                                  ELSE /\ d.lines[d.line[j]].key = j
                                       /\ d.value[j] \in {d.lines[d.line[j]].data, decode(j, d.lines[d.line[j]].data)}
        BY DEF OwnsLines
      <3>1. CASE j = k
        BY <3>1, <1>3, <2>1, <2>2, <2>3, <2>5 DEF ConfOK, OwnsLines
      <3>2. CASE j # k
        <4>1. IF c.line[j] = 0 THEN c.value[j] = nullopt
              ELSE /\ c.line[j] \in DOMAIN c.lines
                   /\ \A i \in Key \ {j} : c.line[i] # c.line[j]
                   /\ IF c.value[j] = nullopt THEN c.lines[c.line[j]] = Blank
                      ELSE /\ c.lines[c.line[j]].key = j
                           /\ c.value[j] \in {c.lines[c.line[j]].data, decode(j, c.lines[c.line[j]].data)}
          BY DEF ConfOK, OwnsLines
        <4>2. d.line = c.line /\ d.value[j] = c.value[j] /\ DOMAIN d.lines = DOMAIN c.lines
              /\ (c.line[j] # 0 => d.lines[c.line[j]] = c.lines[c.line[j]])
          BY <3>2, <2>2, <2>3, <2>6
        <4> QED BY <4>1, <4>2, Zenon
      <3> QED BY <3>1, <3>2
    <2> QED BY <2>4, <2>7 DEF ConfOK, d
  <1>4. CASE c.line[k] = 0 /\ v # nullopt
    <2> DEFINE n == Len(c.lines) + 1
    <2>1. /\ d.lines = Append(c.lines, text)
          /\ d.line = [c.line EXCEPT ![k] = n]
          /\ d.value = [c.value EXCEPT ![k] = v]
          /\ d = [lines |-> d.lines, line |-> d.line, value |-> d.value]
      BY <1>4 DEF set
    <2> HIDE DEF d
    <2>2. /\ d.lines \in Seq(Line) /\ n \in DOMAIN d.lines /\ n \in Nat /\ n # 0 /\ d.lines[n] = text
          /\ \A i \in DOMAIN c.lines : i \in DOMAIN d.lines /\ i # n /\ d.lines[i] = c.lines[i]
      BY <2>1, <1>0, <1>1
    <2> HIDE DEF n
    <2>3. d \in Conf
      BY <2>1, <2>2, <1>0 DEF Conf
    <2>4. d.line[k] = n /\ d.value[k] = v
      BY <2>1, <1>0
    <2>5. ASSUME NEW j \in Key, j # k
          PROVE  /\ d.value[j] = c.value[j] /\ d.line[j] = c.line[j]
                 /\ d.line[j] # n
                 /\ c.line[j] # 0 => c.line[j] \in DOMAIN c.lines
      <3>1. c.line[j] # 0 => c.line[j] \in DOMAIN c.lines
        BY DEF ConfOK, OwnsLines
      <3> QED BY <3>1, <2>1, <2>2, <2>5, <1>0
    <2>6. OwnsLines(d)
      <3> SUFFICES ASSUME NEW j \in Key
                   PROVE  IF d.line[j] = 0 THEN d.value[j] = nullopt
                          ELSE /\ d.line[j] \in DOMAIN d.lines
                               /\ \A i \in Key \ {j} : d.line[i] # d.line[j]
                               /\ IF d.value[j] = nullopt THEN d.lines[d.line[j]] = Blank
                                  ELSE /\ d.lines[d.line[j]].key = j
                                       /\ d.value[j] \in {d.lines[d.line[j]].data, decode(j, d.lines[d.line[j]].data)}
        BY DEF OwnsLines
      <3>1. CASE j = k
        BY <3>1, <1>4, <2>2, <2>4, <2>5
      <3>2. CASE j # k
        <4>1. IF c.line[j] = 0 THEN c.value[j] = nullopt
              ELSE /\ c.line[j] \in DOMAIN c.lines
                   /\ \A i \in Key \ {j} : c.line[i] # c.line[j]
                   /\ IF c.value[j] = nullopt THEN c.lines[c.line[j]] = Blank
                      ELSE /\ c.lines[c.line[j]].key = j
                           /\ c.value[j] \in {c.lines[c.line[j]].data, decode(j, c.lines[c.line[j]].data)}
          BY DEF ConfOK, OwnsLines
        <4>2. d.line[j] = c.line[j] /\ d.value[j] = c.value[j]
              /\ (c.line[j] # 0 => c.line[j] \in DOMAIN d.lines /\ d.lines[c.line[j]] = c.lines[c.line[j]])
          BY <3>2, <2>2, <2>5
        <4>3. c.line[j] # 0 => \A i \in Key \ {j} : d.line[i] # d.line[j]
          <5> SUFFICES ASSUME c.line[j] # 0, NEW i \in Key \ {j} PROVE d.line[i] # d.line[j]
            OBVIOUS
          <5>1. CASE i = k
            BY <5>1, <2>4, <2>5, <3>2
          <5>2. CASE i # k
            BY <5>2, <2>5, <4>1, <4>2
          <5> QED BY <5>1, <5>2
        <4> QED BY <4>1, <4>2, <4>3, Zenon
      <3> QED BY <3>1, <3>2
    <2> QED BY <2>3, <2>6 DEF ConfOK, d
  <1> QED BY <1>2, <1>3, <1>4

-----------------------------------------------------------------------------
(* What set does to the lines.                                             *)

line_for(c, k) == IF c.line[k] # 0 THEN c.line[k] ELSE Len(c.lines) + 1

(* d is c with the setting k set to v, on the line n. *)
Rewritten(c, d, k, v, n) ==
  /\ n \in DOMAIN d.lines
  /\ d.lines[n] = IF v = nullopt THEN Blank ELSE [key |-> k, data |-> v]
  /\ \A i \in DOMAIN d.lines : i # n => i \in DOMAIN c.lines /\ d.lines[i] = c.lines[i]
  /\ \A i \in DOMAIN c.lines : i \in DOMAIN d.lines
  /\ d.line[k] = n /\ d.value[k] = v
  /\ \A j \in Key : j # k => d.line[j] = c.line[j] /\ d.value[j] = c.value[j] /\ c.line[j] # n

(* set does nothing if there is nothing to unset, and writes one line      *)
(* otherwise.                                                              *)
LEMMA SetIs ==
  ASSUME NEW c, ConfOK(c), NEW k \in Key, NEW v \in Text
  PROVE  \/ c.line[k] = 0 /\ v = nullopt /\ set(c, k, v) = c
         \/ line_for(c, k) \in Nat \ {0} /\ Rewritten(c, set(c, k, v), k, v, line_for(c, k))
  <1> DEFINE text == IF v = nullopt THEN Blank ELSE [key |-> k, data |-> v]
             d == set(c, k, v)
             n == line_for(c, k)
  <1>0. /\ c.lines \in Seq(Line) /\ c.line \in [Key -> Nat] /\ c.value \in [Key -> Text]
        /\ DOMAIN c.lines = 1..Len(c.lines) /\ Len(c.lines) \in Nat
    BY DEF ConfOK, Conf
  <1>1. text \in Line
    BY Keys, Texts DEF Line
  <1>2. \A j \in Key : c.line[j] # 0 => c.line[j] \in DOMAIN c.lines
    BY DEF ConfOK, OwnsLines
  <1>3. CASE c.line[k] = 0 /\ v = nullopt
    BY <1>3 DEF set
  <1>4. CASE c.line[k] # 0
    <2>1. n = c.line[k] /\ n \in DOMAIN c.lines /\ n \in Nat \ {0}
      BY <1>0, <1>2, <1>4 DEF line_for
    <2>2. /\ d.lines = [c.lines EXCEPT ![n] = text]
          /\ d.line = c.line
          /\ d.value = [c.value EXCEPT ![k] = v]
      BY <1>4, <2>1 DEF set, ConfOK, Conf
    <2>3. \A j \in Key : j # k => c.line[j] # n
      BY <1>4, <2>1 DEF ConfOK, OwnsLines
    <2> HIDE DEF d, n
    <2>4. /\ DOMAIN d.lines = DOMAIN c.lines /\ d.lines[n] = text
          /\ \A i \in DOMAIN c.lines : i # n => d.lines[i] = c.lines[i]
      BY <1>0, <2>1, <2>2
    <2> HIDE DEF text
    <2>5. Rewritten(c, d, k, v, n)
      BY <1>0, <2>1, <2>2, <2>3, <2>4 DEF Rewritten, text
    <2> QED BY <2>1, <2>5 DEF d, n
  <1>5. CASE c.line[k] = 0 /\ v # nullopt
    <2>1. n = Len(c.lines) + 1 /\ n \in Nat \ {0}
      BY <1>0, <1>5 DEF line_for
    <2>2. /\ d.lines = Append(c.lines, text)
          /\ d.line = [c.line EXCEPT ![k] = n]
          /\ d.value = [c.value EXCEPT ![k] = v]
      BY <1>5, <2>1 DEF set
    <2> HIDE DEF d, n
    <2>3. /\ d.lines \in Seq(Line) /\ DOMAIN d.lines = 1..n /\ d.lines[n] = text
          /\ \A i \in 1..Len(c.lines) : d.lines[i] = c.lines[i]
      BY <1>0, <1>1, <2>1, <2>2
    <2>4. \A i \in 1..n : i # n => i \in 1..Len(c.lines)
      BY <1>0, <2>1
    <2>5. \A j \in Key : c.line[j] # n
      BY <1>0, <1>2, <2>1
    <2>6. \A i \in 1..Len(c.lines) : i \in 1..n
      BY <1>0, <2>1
    <2>7. n \in 1..n
      BY <2>1
    <2> HIDE DEF text
    <2>8. /\ d.line[k] = n /\ d.value[k] = v
          /\ \A j \in Key : j # k => d.line[j] = c.line[j] /\ d.value[j] = c.value[j]
      BY <1>0, <2>2
    <2>9. Rewritten(c, d, k, v, n)
      BY <1>0, <2>3, <2>4, <2>5, <2>6, <2>7, <2>8 DEF Rewritten, text
    <2> QED BY <2>1, <2>9 DEF d, n
  <1> QED BY <1>3, <1>4, <1>5

(* The line kept for a setting is the one from_lines would keep: the last  *)
(* of those that can be read for a known setting, the first for any other. *)
Indexed(c) ==
  \A k \in Key :
    IF c.line[k] = 0 THEN LinesOf(c.lines, k) = {}
    ELSE \A i \in LinesOf(c.lines, k) : IF k.name \in Known THEN i <= c.line[k] ELSE c.line[k] <= i

(* from_lines takes the last or the first line. *)
LEMMA LineOfExtreme ==
  ASSUME NEW lines \in Seq(Line), NEW k, NEW i \in LinesOf(lines, k)
  PROVE  /\ line_of(lines, k) \in LinesOf(lines, k) /\ line_of(lines, k) # 0
         /\ IF k.name \in Known THEN i <= line_of(lines, k) ELSE line_of(lines, k) <= i
  <1> DEFINE at == LinesOf(lines, k)
  <1>1. at \in SUBSET (1..Len(lines)) /\ at \in SUBSET Nat /\ Len(lines) \in Nat /\ at # {} /\ i \in at
    BY DEF LinesOf
  <1> HIDE DEF at
  <1>2. CASE k.name \in Known
    <2>1. line_of(lines, k) = CHOOSE m \in at : \A j \in at : j <= m
      BY <1>1, <1>2 DEF line_of, at
    <2>2. line_of(lines, k) \in at /\ \A j \in at : j <= line_of(lines, k)
      BY <1>1, <2>1, Greatest, Zenon
    <2> QED BY <1>1, <1>2, <2>2 DEF at
  <1>3. CASE k.name \notin Known
    <2>1. line_of(lines, k) = CHOOSE m \in at : \A j \in at : m <= j
      BY <1>1, <1>3 DEF line_of, at
    <2>2. line_of(lines, k) \in at /\ \A j \in at : line_of(lines, k) <= j
      BY <1>1, <2>1, Least, Zenon
    <2> QED BY <1>1, <1>3, <2>2 DEF at
  <1> QED BY <1>2, <1>3

(* There is only one line that is the last, or the first. *)
LEMMA LineOfIs ==
  ASSUME NEW lines \in Seq(Line), NEW k, NEW n \in LinesOf(lines, k),
         \A i \in LinesOf(lines, k) : IF k.name \in Known THEN i <= n ELSE n <= i
  PROVE  line_of(lines, k) = n
  <1>1. LinesOf(lines, k) \subseteq Nat
    BY DEF LinesOf
  <1>2. /\ line_of(lines, k) \in LinesOf(lines, k)
        /\ IF k.name \in Known THEN n <= line_of(lines, k) ELSE line_of(lines, k) <= n
    BY LineOfExtreme
  <1> QED BY <1>1, <1>2

(* What from_lines makes is indexed, ... *)
LEMMA FromLinesIndexed ==
  ASSUME NEW lines \in Seq(Line)
  PROVE  Indexed(from_lines(lines))
  <1>1. from_lines(lines).lines = lines /\ \A k \in Key : from_lines(lines).line[k] = line_of(lines, k)
    BY DEF from_lines
  <1> QED BY <1>1, LineOfExtreme, Zenon DEF Indexed

(* ... and stays so when a setting is set or unset. *)
LEMMA SetIndexed ==
  ASSUME NEW c, ConfOK(c), Indexed(c), NEW k \in Key, NEW v \in Text
  PROVE  Indexed(set(c, k, v))
  <1> DEFINE d == set(c, k, v)
             n == line_for(c, k)
  <1>1. CASE d = c
    BY <1>1
  <1>2. CASE n \in Nat \ {0} /\ Rewritten(c, d, k, v, n)
    <2>0. c.lines \in Seq(Line) /\ DOMAIN c.lines \subseteq Nat /\ Len(c.lines) \in Nat
      BY DEF ConfOK, Conf
    <2>1. n = IF c.line[k] # 0 THEN c.line[k] ELSE Len(c.lines) + 1
      BY DEF line_for
    <2> HIDE DEF d, n
    <2>2. ASSUME NEW j \in Key, NEW i \in LinesOf(d.lines, j)
          PROVE  (i = n /\ j = k) \/ i \in LinesOf(c.lines, j)
      <3>1. CASE i = n
        <4>1. d.lines[n].key = j /\ Regular(d.lines[n].data)
          BY <2>2, <3>1 DEF LinesOf
        <4>2. ~Regular(Blank.data)
          BY DEF Blank, Regular
        <4>3. v # nullopt
          BY <1>2, <4>1, <4>2, Zenon DEF Rewritten
        <4> QED BY <1>2, <3>1, <4>1, <4>3 DEF Rewritten
      <3>2. CASE i # n
        BY <1>2, <2>2, <3>2 DEF Rewritten, LinesOf
      <3> QED BY <3>1, <3>2
    <2> SUFFICES ASSUME NEW j \in Key
                 PROVE  IF d.line[j] = 0 THEN LinesOf(d.lines, j) = {}
                        ELSE \A i \in LinesOf(d.lines, j) :
                               IF j.name \in Known THEN i <= d.line[j] ELSE d.line[j] <= i
      BY DEF Indexed, d
    <2>3. CASE j = k
      <3>1. d.line[j] = n /\ n # 0 /\ n \in Nat
        BY <1>2, <2>3 DEF Rewritten
      <3>2. ASSUME NEW i \in LinesOf(c.lines, k)
            PROVE  IF k.name \in Known THEN i <= n ELSE n <= i
        <4>1. c.line[k] # 0
          BY <3>2 DEF Indexed
        <4> QED BY <2>1, <3>2, <4>1 DEF Indexed
      <3> QED BY <2>2, <2>3, <3>1, <3>2
    <2>4. CASE j # k
      <3>1. d.line[j] = c.line[j] /\ \A i \in LinesOf(d.lines, j) : i \in LinesOf(c.lines, j)
        BY <1>2, <2>2, <2>4 DEF Rewritten
      <3> QED BY <3>1 DEF Indexed
    <2> QED BY <2>3, <2>4
  <1> QED BY <1>1, <1>2, SetIs

(* A server of a number that is not valid is never set. *)
LEMMA SetValid ==
  ASSUME NEW c, ConfOK(c), ~from_lines_throws(c.lines), NEW k \in Key, NEW v \in Text,
         k.name = "server" => valid_id(k.id)
  PROVE  ~from_lines_throws(set(c, k, v).lines)
  <1> DEFINE d == set(c, k, v)
             n == line_for(c, k)
  <1>1. CASE d = c
    BY <1>1
  <1>2. CASE Rewritten(c, d, k, v, n)
    <2> HIDE DEF d, n
    <2> SUFFICES ASSUME NEW i \in DOMAIN d.lines, d.lines[i].key.name = "server",
                        ~valid_id(d.lines[i].key.id), Regular(d.lines[i].data)
                 PROVE  FALSE
      BY DEF from_lines_throws, d
    <2>1. CASE i = n
      <3>1. d.lines[n] = Blank \/ d.lines[n].key = k
        BY <1>2 DEF Rewritten
      <3>2. Blank.key.name = ""
        BY DEF Blank, NoKey, key
      <3> QED BY <2>1, <3>1, <3>2
    <2>2. CASE i # n
      BY <1>2, <2>2 DEF Rewritten, from_lines_throws
    <2> QED BY <2>1, <2>2
  <1> QED BY <1>1, <1>2, SetIs

-----------------------------------------------------------------------------
Member == [settings : Conf, peer : Int, leader : Int]

(* The configurations are proper ones, the members start_all_servers has   *)
(* passed have an instance, and only a group that was made is started.     *)
GroupInv ==
  /\ ConfOK(conf)
  /\ file \in Seq(Line)
  /\ members \in Seq(Member)
  /\ Len(members) <= MaxSize
  /\ \A i \in DOMAIN members : OwnsLines(members[i].settings)
  /\ files \in Seq(Seq(Line))
  /\ added \in Nat
  /\ starts \in [DOMAIN members -> {0, 1}]
  /\ starting \in Nat
  /\ starting # 0 => stage = "made"
  /\ \A i \in DOMAIN starts : i < starting => starts[i] = 1

(* A setter takes a value of its setting, or none. *)
LEMMA SetterOK ==
  ASSUME NEW c, ConfOK(c), NEW name \in Known, NEW v \in Values[name] \union {nullopt}
  PROVE  ConfOK(set(c, key(name), v))
  <1>1. v \in Text
    BY ServerGroupAssumption, Texts
  <1> QED BY <1>1, SetOK, Keys

(* The address of a server is a text, ... *)
LEMMA AddressText ==
  ASSUME NEW host \in Word, NEW m \in Int, NEW n \in Int
  PROVE  server_address(host, m, n) \in Text /\ server_address(host, m, n) # nullopt
  <1>1. <<m, n>> \in Seq(Int) /\ <<host>> \in Seq(Word)
    OBVIOUS
  <1> QED BY <1>1 DEF server_address, Path, Text, nullopt

(* ... which is kept as it is. *)
LEMMA AddressOK ==
  ASSUME NEW c, ConfOK(c), NEW i \in ServerNo, NEW host \in Word, NEW m \in Int, NEW n \in Int
  PROVE  ConfOK(set(c, server_id(i), server_address(host, m, n)))
  <1>1. server_address(host, m, n) \in Text
    BY AddressText
  <1> QED BY <1>1, SetOK, Keys

(* A port may be any number, and so may a limit. *)
LEMMA NumberOK ==
  ASSUME NEW c, ConfOK(c), NEW n \in Nat
  PROVE  /\ ConfOK(set(c, key("clientPort"), Num(n)))
         /\ ConfOK(set(c, key("initLimit"), Num(n)))
         /\ ConfOK(set(c, key("syncLimit"), Num(n)))
  <1>1. Num(n) \in Text
    BY Texts
  <1>2. key("clientPort") \in Key /\ key("initLimit") \in Key /\ key("syncLimit") \in Key
    BY Keys DEF Known
  <1> QED BY <1>1, <1>2, SetOK, Zenon

(* make_minimal makes a configuration. *)
LEMMA MinimalOK ==
  ASSUME NEW directory \in Values["dataDir"], NEW p \in Values["clientPort"]
  PROVE  ConfOK(minimal(directory, p))
  <1> DEFINE c1 == set(no_lines, key("dataDir"), directory)
             c2 == set(c1, key("clientPort"), p)
             c3 == set(c2, key("initLimit"), default_init_limit)
  <1>1. ConfOK(no_lines)
    <2>1. <<>> \in Seq(Line)
      OBVIOUS
    <2> QED BY <2>1, FromLines, Zenon DEF no_lines
  <1>2. ConfOK(c1)
    BY <1>1, SetterOK DEF Known
  <1> HIDE DEF c1
  <1>3. ConfOK(c2)
    BY <1>2, SetterOK DEF Known
  <1> HIDE DEF c2
  <1>4. ConfOK(c3)
    BY <1>3, NumberOK DEF default_init_limit
  <1> HIDE DEF c3
  <1>5. ConfOK(set(c3, key("syncLimit"), default_sync_limit))
    BY <1>4, NumberOK DEF default_sync_limit
  <1> QED BY <1>5 DEF minimal, c1, c2, c3

(* Numbers that are the same when cut to 16 bits are the same or far       *)
(* apart.                                                                  *)
LEMMA NearPorts ==
  ASSUME NEW x \in Int, NEW y \in Int, uint16(x) = uint16(y), x - y < 65536, y - x < 65536
  PROVE  x = y
  <1>1. /\ x = 65536 * (x \div 65536) + uint16(x) /\ x \div 65536 \in Int
        /\ y = 65536 * (y \div 65536) + uint16(y) /\ y \div 65536 \in Int
    BY SMT DEF uint16
  <1>2. uint16(x) \in Int
    BY Uint16, SMT
  <1>3. \A p, q, r \in Int :
          (65536 * p + r) - (65536 * q + r) < 65536 /\ (65536 * q + r) - (65536 * p + r) < 65536 => p = q
    BY SMT
  <1>4. x \div 65536 = y \div 65536
    BY <1>1, <1>2, <1>3, SMT
  <1> QED BY <1>1, <1>4, SMT

(* Ports are counted from some number and have 16 bits: *)
LEMMA PortOK ==
  ASSUME NEW c, ConfOK(c)
  PROVE  /\ \E b \in Int : \A n \in Nat : port(c, n) = uint16(b + n)
         /\ \A n \in Nat : port(c, n) \in Nat /\ uint16(port(c, n)) = port(c, n)
  <1>1. key("clientPort") \in Key
    BY Keys DEF Known
  <1>2. c.value[key("clientPort")].n \in Int
    BY <1>1 DEF ConfOK, Conf, Text
  <1>3. get(c, key("clientPort")).n \in Int
    BY <1>2, SMT DEF get, default, default_client_port, Num, key
  <1> DEFINE b == IF get(c, key("clientPort")) = default_client_port THEN 18500
                  ELSE get(c, key("clientPort")).n
  <1>4. b \in Int /\ \A n \in Nat : port(c, n) = uint16(b + n)
    BY <1>3, SMT DEF port
  <1> HIDE DEF b
  <1>5. \A n \in Nat : port(c, n) \in Nat /\ uint16(port(c, n)) = port(c, n)
    BY <1>4, Uint16, SMT
  <1> QED BY <1>4, <1>5

(* three of them for each of up to 255 members, ... *)
PortNo == {n \in Nat : n < 3 * 255}

(* ... which are all different, although the count goes on from 0 after    *)
(* 65535.                                                                  *)
LEMMA PortsDiffer ==
  ASSUME NEW c, ConfOK(c), NEW m \in PortNo, NEW n \in PortNo, port(c, m) = port(c, n)
  PROVE  m = n
  <1>0. m \in Nat /\ n \in Nat /\ m < 765 /\ n < 765
    BY SMT DEF PortNo
  <1>1. PICK b \in Int : \A i \in Nat : port(c, i) = uint16(b + i)
    BY PortOK
  <1>2. uint16(b + m) = uint16(b + n)
    BY <1>0, <1>1, SMT
  <1>3. b + m = b + n
    BY <1>0, <1>2, NearPorts, SMT
  <1> QED BY <1>0, <1>3, SMT

(* The settings of a member are a configuration, too. *)
LEMMA MemberOK ==
  ASSUME NEW c, ConfOK(c), NEW i \in Nat \ {0}
  PROVE  member(c, i) \in Member /\ OwnsLines(member(c, i).settings)
  <1>1. \A n \in Nat : port(c, n) \in Nat /\ uint16(port(c, n)) = port(c, n)
    BY PortOK
  <1>2. directory_of(c) \in Text
    BY Keys DEF directory_of, ConfOK, Conf, Known
  <1>3. data_of(directory_of(c), i) \in Text
    BY <1>2 DEF data_of, Text
  <1> DEFINE d == set(c, key("clientPort"), Num(port(c, 3 * (i - 1))))
             e == set(d, key("dataDir"), data_of(directory_of(c), i))
  <1>4. ConfOK(d)
    BY <1>1, NumberOK
  <1> HIDE DEF d
  <1>6. key("dataDir") \in Key
    BY Keys DEF Known
  <1>7. ConfOK(e)
    BY <1>3, <1>4, <1>6, SetOK, Zenon
  <1>8. member(c, i) = [settings |-> e, peer |-> port(c, 3 * (i - 1) + 1), leader |-> port(c, 3 * (i - 1) + 2)]
    BY DEF member, d
  <1> HIDE DEF e
  <1>9. port(c, 3 * (i - 1) + 1) \in Int /\ port(c, 3 * (i - 1) + 2) \in Int
    BY <1>1
  <1> QED BY <1>7, <1>8, <1>9 DEF Member, ConfOK

-----------------------------------------------------------------------------
(* A step that leaves the group alone only has to leave a configuration    *)
(* and a file.                                                             *)
LEMMA GroupUnchanged ==
  ASSUME GroupInv, UNCHANGED groupVars, ConfOK(conf'), file' \in Seq(Line)
  PROVE  GroupInv'
  BY DEF GroupInv, groupVars

(* An edit leaves the configuration it makes. *)
LEMMA EditOK ==
  ASSUME GroupInv, NEW c, ConfOK(c), edit(c)
  PROVE  GroupInv'
  <1>1. conf' = c /\ file' = file /\ UNCHANGED groupVars
    BY DEF edit
  <1>2. file \in Seq(Line)
    BY DEF GroupInv
  <1> QED BY <1>1, <1>2, GroupUnchanged

(* What the program does with its configuration. *)
LEMMA ProgramOK ==
  ASSUME GroupInv, Program \/ java_reads
  PROVE  GroupInv'
  <1>0. ConfOK(conf) /\ file \in Seq(Line) /\ conf.lines \in Seq(Line)
    BY DEF GroupInv, ConfOK, Conf
  <1>1. CASE make_minimal
    <2>1. ConfOK(conf')
      BY <1>1, MinimalOK DEF make_minimal
    <2> QED BY <1>0, <1>1, <2>1, GroupUnchanged DEF make_minimal
  <1>2. CASE from_stream
    <2>1. ConfOK(conf')
      BY <1>0, <1>2, FromLines DEF from_stream
    <2> QED BY <1>0, <1>2, <2>1, GroupUnchanged DEF from_stream
  <1>3. CASE save_file
    BY <1>0, <1>3, GroupUnchanged DEF save_file
  <1>4. CASE save_file_fails
    <2>1. PICK n \in 1..Len(conf.lines) : file' = SubSeq(conf.lines, 1, n - 1)
      BY <1>4 DEF save_file_fails
    <2>2. file' \in Seq(Line)
      BY <1>0, <2>1
    <2> QED BY <1>0, <1>4, <2>2, GroupUnchanged DEF save_file_fails
  <1>5. CASE launch \/ java_reads
    <2>1. UNCHANGED <<conf, file, groupVars>>
      BY <1>5 DEF launch, java_reads, confVars
    <2> QED BY <1>0, <2>1, GroupUnchanged
  <1>6. ASSUME NEW name \in Known, setter(name) PROVE GroupInv'
    <2>1. PICK v \in Values[name] \union {nullopt} : edit(set(conf, key(name), v))
      BY <1>6 DEF setter
    <2>2. ConfOK(set(conf, key(name), v))
      BY <1>0, SetterOK
    <2> QED BY <2>1, <2>2, EditOK
  <1>7. CASE four_letter_word_whitelist
    <2>1. PICK v \in Values["4lw.commands.whitelist"] \union {nullopt} :
            edit(set(conf, key("4lw.commands.whitelist"), v))
      BY <1>7 DEF four_letter_word_whitelist
    <2>2. ConfOK(set(conf, key("4lw.commands.whitelist"), v))
      BY <1>0, SetterOK DEF Known
    <2> QED BY <2>1, <2>2, EditOK
  <1>8. CASE add_server
    <2>1. PICK i \in ServerNo : edit(set(conf, server_id(i), server_address("peer", 2888, 3888)))
      BY <1>8, SMT DEF add_server
    <2>2. ConfOK(set(conf, server_id(i), server_address("peer", 2888, 3888)))
      BY <1>0, AddressOK, ConfigurationAssumption, SMT
    <2> QED BY <2>1, <2>2, EditOK, SMT
  <1>9. CASE add_setting
    <2>1. PICK line \in Added : edit(added_setting(conf, line.key, line.data))
      BY <1>9 DEF add_setting
    <2>2. line \in Line
      BY ServerGroupAssumption
    <2>3. [key |-> line.key, data |-> line.data] \in Line
      BY <2>2 DEF Line
    <2>4. Append(conf.lines, [key |-> line.key, data |-> line.data]) \in Seq(Line)
      BY <1>0, <2>3
    <2>5. ConfOK(added_setting(conf, line.key, line.data))
      BY <2>4, FromLines DEF added_setting
    <2> QED BY <2>1, <2>5, EditOK
  <1>10. CASE client_port \/ data_directory \/ tick_time \/ init_limit \/ sync_limit \/ leader_serves
    BY <1>6, <1>10, Zenon DEF client_port, data_directory, tick_time, init_limit, sync_limit,
                              leader_serves, Known
  <1> QED BY <1>1, <1>2, <1>3, <1>4, <1>5, <1>7, <1>8, <1>9, <1>10, Zenon DEF Program

(* make_ensemble, step by step. *)
LEMMA EnsembleOK ==
  ASSUME GroupInv,
         \/ \E size \in 0..MaxSize : make_ensemble(size)
         \/ create_base_directory \/ add_member \/ make_member \/ make_member_throws \/ ensemble_made
  PROVE  GroupInv'
  <1>0. MaxSize \in Nat /\ 1..MaxSize \subseteq ServerNo
    BY ServerGroupAssumption, SMT
  <1>1. ASSUME NEW size \in 0..MaxSize, make_ensemble(size) PROVE GroupInv'
    <2>1. /\ members' = [i \in 1..size |-> member(conf, i)]
          /\ starts' = [i \in 1..size |-> 0]
          /\ files' = <<>> /\ added' = 0
          /\ UNCHANGED <<conf, file, starting>>
          /\ starting = 0
      BY <1>1 DEF make_ensemble, confVars, GroupInv
    <2>2. \A i \in 1..size : member(conf, i) \in Member /\ OwnsLines(member(conf, i).settings)
      <3>1. ConfOK(conf) /\ 1..size \subseteq Nat \ {0}
        BY <1>0 DEF GroupInv
      <3> QED BY <3>1, MemberOK, Zenon
    <2>3. members' \in Seq(Member) /\ Len(members') = size /\ DOMAIN members' = 1..size
      BY <1>0, <2>1, <2>2
    <2>4. \A i \in DOMAIN members' : OwnsLines(members'[i].settings)
      BY <2>1, <2>2, <2>3
    <2>5. starts' \in [DOMAIN members' -> {0, 1}] /\ \A i \in DOMAIN starts' : ~(i < starting')
      BY <1>0, <2>1, <2>3
    <2>6. Len(members') <= MaxSize /\ files' \in Seq(Seq(Line)) /\ added' \in Nat
      BY <1>0, <2>1, <2>3
    <2>7. ConfOK(conf)' /\ file' \in Seq(Line) /\ starting' \in Nat /\ starting' = 0
      BY <2>1 DEF GroupInv
    <2> QED BY <2>3, <2>4, <2>5, <2>6, <2>7 DEF GroupInv
  <1>2. ASSUME no_group, UNCHANGED <<conf, file, starting>>, starting = 0 PROVE GroupInv'
    <2>1. /\ members' \in Seq(Member) /\ Len(members') = 0 /\ DOMAIN members' = {}
          /\ starts' \in [DOMAIN members' -> {0, 1}] /\ DOMAIN starts' = {}
          /\ files' \in Seq(Seq(Line)) /\ added' \in Nat
      BY <1>2 DEF no_group
    <2> QED BY <1>0, <1>2, <2>1 DEF GroupInv
  <1>3. CASE create_base_directory
    <2>1. UNCHANGED <<conf, file, starting>> /\ starting = 0
      BY <1>3 DEF create_base_directory, confVars, GroupInv
    <2>2. CASE no_group
      BY <1>2, <2>1, <2>2
    <2>3. CASE UNCHANGED <<members, added, files, hosts, starts>>
      BY <2>1, <2>3 DEF GroupInv
    <2> QED BY <1>3, <2>2, <2>3 DEF create_base_directory
  <1>4. CASE add_member
    <2> DEFINE j == added + 1
               c == set(members[turn].settings, server_id(j),
                        server_address("127.0.0.1", members[j].peer, members[j].leader))
    <2>1. /\ turn \in DOMAIN members /\ j \in DOMAIN members /\ j \in 1..MaxSize
          /\ members[turn] \in Member /\ members[j] \in Member
      BY <1>0, <1>4 DEF add_member, turn, GroupInv
    <2>2. /\ members' = [members EXCEPT ![turn].settings = c]
          /\ added' = j
          /\ UNCHANGED <<conf, file, stage, files, starting, starts>>
      BY <1>4 DEF add_member, confVars
    <2>3. ConfOK(c)
      <3>1. ConfOK(members[turn].settings)
        BY <2>1 DEF GroupInv, ConfOK, Member
      <3>2. members[j].peer \in Int /\ members[j].leader \in Int /\ j \in ServerNo
        BY <1>0, <2>1 DEF Member
      <3>3. "127.0.0.1" \in Word
        BY ConfigurationAssumption
      <3> QED BY <3>1, <3>2, <3>3, AddressOK
    <2> HIDE DEF c, j
    <2>4. [members[turn] EXCEPT !.settings = c] \in Member /\ [members[turn] EXCEPT !.settings = c].settings = c
      BY <2>1, <2>3 DEF Member, ConfOK
    <2>5. /\ members' \in Seq(Member) /\ Len(members') = Len(members) /\ DOMAIN members' = DOMAIN members
          /\ \A i \in DOMAIN members : members'[i].settings = IF i = turn THEN c ELSE members[i].settings
      BY <2>1, <2>2, <2>4 DEF GroupInv
    <2>6. \A i \in DOMAIN members' : OwnsLines(members'[i].settings)
      BY <2>3, <2>5 DEF GroupInv, ConfOK
    <2>7. added' \in Nat
      BY <2>2 DEF j, GroupInv
    <2> QED BY <2>2, <2>5, <2>6, <2>7 DEF GroupInv
  <1>5. CASE make_member
    <2>1. turn \in DOMAIN members /\ members[turn] \in Member
      BY <1>5 DEF make_member, turn, GroupInv
    <2>2. members[turn].settings.lines \in Seq(Line)
      BY <2>1 DEF Member, Conf
    <2>3. files' \in Seq(Seq(Line)) /\ added' \in Nat
      BY <1>5, <2>2 DEF make_member, GroupInv
    <2> QED BY <1>5, <2>3 DEF make_member, confVars, GroupInv
  <1>6. CASE make_member_throws
    <2>1. no_group /\ UNCHANGED <<conf, file, starting>> /\ starting = 0
      BY <1>6 DEF make_member_throws, confVars, GroupInv
    <2> QED BY <1>2, <2>1
  <1>7. CASE ensemble_made
    BY <1>7 DEF ensemble_made, confVars, GroupInv
  <1> QED BY <1>1, <1>3, <1>4, <1>5, <1>6, <1>7

(* start_all_servers, member by member. *)
LEMMA StartOK ==
  ASSUME GroupInv, start_all_servers \/ start_member \/ all_started
  PROVE  GroupInv'
  <1>1. CASE start_all_servers
    <2>1. starting' = 1 /\ stage = "made" /\ UNCHANGED <<conf, file, stage, members, files, added, starts>>
      BY <1>1 DEF start_all_servers, confVars
    <2>2. \A i \in DOMAIN starts : ~(i < 1)
      BY DEF GroupInv
    <2> QED BY <2>1, <2>2 DEF GroupInv
  <1>2. CASE start_member
    <2>1. /\ starting \in DOMAIN starts /\ starting \in Nat \ {0} /\ stage = "made"
          /\ UNCHANGED <<conf, file, stage, members, files, added>>
      BY <1>2 DEF start_member, confVars, GroupInv
    <2>2. CASE starts[starting] > 0 /\ starting' = starting + 1 /\ UNCHANGED starts
      <3>1. starts[starting] = 1
        BY <2>1, <2>2 DEF GroupInv
      <3>2. \A i \in DOMAIN starts : i < starting + 1 => i < starting \/ i = starting
        BY <2>1 DEF GroupInv
      <3> QED BY <2>1, <2>2, <3>1, <3>2 DEF GroupInv
    <2>3. CASE ~(starts[starting] > 0) /\ starts' = [starts EXCEPT ![starting] = @ + 1] /\ starting' = starting + 1
      <3>1. starts[starting] = 0
        BY <2>1, <2>3 DEF GroupInv
      <3>2. starts' \in [DOMAIN members -> {0, 1}] /\ DOMAIN starts' = DOMAIN starts /\ starts'[starting] = 1
            /\ \A i \in DOMAIN starts : i # starting => starts'[i] = starts[i]
        BY <2>1, <2>3, <3>1 DEF GroupInv
      <3>3. \A i \in DOMAIN starts : i < starting + 1 => i < starting \/ i = starting
        BY <2>1 DEF GroupInv
      <3> QED BY <2>1, <2>3, <3>2, <3>3 DEF GroupInv
    <2>4. CASE starting' = 0 /\ UNCHANGED starts
      <3>1. \A i \in DOMAIN starts : ~(i < 0)
        BY DEF GroupInv
      <3> QED BY <2>1, <2>4, <3>1 DEF GroupInv
    <2> QED BY <1>2, <2>2, <2>3, <2>4 DEF start_member
  <1>3. CASE all_started
    <2>1. starting' = 0 /\ UNCHANGED <<conf, file, stage, members, files, added, starts>>
      BY <1>3 DEF all_started, confVars
    <2>2. \A i \in DOMAIN starts : ~(i < 0)
      BY DEF GroupInv
    <2> QED BY <2>1, <2>2 DEF GroupInv
  <1> QED BY <1>1, <1>2, <1>3

(* The invariant holds for ever. *)
LEMMA GroupAlways == Spec => []GroupInv
  <1>1. Init => GroupInv
    <2> SUFFICES ASSUME Init PROVE GroupInv
      OBVIOUS
    <2>1. <<>> \in Seq(Line) /\ <<>> \in Seq(Seq(Line)) /\ <<>> \in Seq(Member) /\ Len(<<>>) = 0
          /\ DOMAIN <<>> = {} /\ <<>> \in [{} -> {0, 1}]
      OBVIOUS
    <2>2. ConfOK(conf)
      BY <2>1, FromLines DEF Init, no_lines
    <2>3. file \in Seq(Line) /\ 0 <= MaxSize
      BY ServerGroupAssumption, SMT DEF Init
    <2> QED BY <2>1, <2>2, <2>3 DEF Init, GroupInv
  <1>2. GroupInv /\ [Next]_vars => GroupInv'
    <2> SUFFICES ASSUME GroupInv, [Next]_vars PROVE GroupInv'
      OBVIOUS
    <2>1. CASE UNCHANGED vars
      <3>1. UNCHANGED <<conf, file>> /\ UNCHANGED groupVars
        BY <2>1 DEF vars, confVars
      <3> QED BY <3>1, GroupUnchanged DEF GroupInv
    <2>2. CASE Next
      BY <2>2, ProgramOK, EnsembleOK, StartOK, Zenon DEF Next, Group
    <2> QED BY <2>1, <2>2
  <1> QED BY <1>1, <1>2, PTL DEF Spec

(* However a configuration was loaded, set, unset and added to, each of    *)
(* its settings has a line of its own that says its value, and so it is in *)
(* every member of a group, whatever its size (configuration::set).        *)
THEOREM SettingsOwnTheirLines == Spec => []LinesAreOwned
  <1>1. GroupInv => LinesAreOwned
    BY DEF GroupInv, ConfOK, LinesAreOwned
  <1> QED BY <1>1, GroupAlways, PTL

(* start_all_servers never makes a second instance for a member, and has   *)
(* made one for each it has passed, however often it is called and throws. *)
THEOREM MembersStartOnce == Spec => []EveryMemberStartsOnce
  <1>1. GroupInv => EveryMemberStartsOnce
    BY DEF GroupInv, EveryMemberStartsOnce
  <1> QED BY <1>1, GroupAlways, PTL

-----------------------------------------------------------------------------
(* Configurations that are saved, and what a server runs with.             *)

Fine(c) == ConfOK(c) /\ Indexed(c) /\ ~from_lines_throws(c.lines)

(* The configuration could be read again from its lines, and so could the  *)
(* one the server was given.  If nothing is unsaved the file has those     *)
(* lines, and they are the ones java has read if the file was not stale,   *)
(* as the configuration stays the same once a server has it.               *)
SettingsInv ==
  /\ Fine(conf)
  /\ Fine(ran.settings)
  /\ ran.how = "args" => is_minimal(ran.settings)
  /\ unsaved \in BOOLEAN /\ ran.stale \in BOOLEAN
  /\ unsaved = FALSE => file = conf.lines
  /\ ran.how # "none" => edits # -1 /\ ran.settings = conf
  /\ ran.how = "read" /\ ran.stale = FALSE => ran.lines = ran.settings.lines
  /\ ran = [how |-> ran.how, settings |-> ran.settings, lines |-> ran.lines, stale |-> ran.stale]

(* Nothing at all is a configuration. *)
LEMMA NoLinesFine == Fine(no_lines)
  <1>1. <<>> \in Seq(Line) /\ DOMAIN <<>> = {}
    OBVIOUS
  <1>2. ConfOK(no_lines) /\ Indexed(no_lines)
    BY <1>1, FromLines, FromLinesIndexed, Zenon DEF no_lines
  <1>3. no_lines.lines = <<>>
    BY DEF no_lines, from_lines
  <1> QED BY <1>1, <1>2, <1>3 DEF Fine, from_lines_throws

(* A known setting may be set to anything that is kept as it is. *)
LEMMA SetFine ==
  ASSUME NEW c, Fine(c), NEW name \in Known, NEW v \in Text, ConfOK(set(c, key(name), v))
  PROVE  Fine(set(c, key(name), v))
  <1>1. key(name) \in Key /\ key(name).name # "server"
    BY Keys DEF Known, key
  <1> QED BY <1>1, SetIndexed, SetValid DEF Fine

(* make_minimal makes such a configuration, ... *)
LEMMA MinimalFine ==
  ASSUME NEW directory \in Values["dataDir"], NEW p \in Values["clientPort"]
  PROVE  Fine(minimal(directory, p))
  <1> DEFINE c1 == set(no_lines, key("dataDir"), directory)
             c2 == set(c1, key("clientPort"), p)
             c3 == set(c2, key("initLimit"), default_init_limit)
             c4 == set(c3, key("syncLimit"), default_sync_limit)
  <1>0. /\ {"dataDir", "clientPort", "initLimit", "syncLimit"} \subseteq Known
        /\ default_init_limit \in Text /\ default_sync_limit \in Text
        /\ directory \in Text /\ p \in Text
    BY Texts, ServerGroupAssumption DEF Known, default_init_limit, default_sync_limit
  <1>1. Fine(c1)
    <2>1. ConfOK(c1)
      BY <1>0, NoLinesFine, SetterOK DEF Fine
    <2> QED BY <1>0, <2>1, NoLinesFine, SetFine
  <1> HIDE DEF c1
  <1>2. Fine(c2)
    <2>1. ConfOK(c2)
      BY <1>0, <1>1, SetterOK DEF Fine
    <2> QED BY <1>0, <1>1, <2>1, SetFine
  <1> HIDE DEF c2
  <1>3. Fine(c3)
    <2>1. ConfOK(c3)
      BY <1>2, NumberOK DEF default_init_limit, Fine
    <2> QED BY <1>0, <1>2, <2>1, SetFine
  <1> HIDE DEF c3
  <1>4. Fine(c4)
    <2>1. ConfOK(c4)
      BY <1>3, NumberOK DEF default_sync_limit, Fine
    <2> QED BY <1>0, <1>3, <2>1, SetFine
  <1> QED BY <1>4 DEF minimal, c1, c2, c3

(* ... and so does every edit of one. *)
LEMMA EditFine ==
  ASSUME GroupInv, SettingsInv,
         \/ \E name \in Known : setter(name)
         \/ four_letter_word_whitelist \/ add_server \/ add_setting
  PROVE  Fine(conf') /\ ran' = ran /\ ran.how = "none" /\ unsaved' = TRUE
  <1>0. Fine(conf) /\ ConfOK(conf) /\ conf.lines \in Seq(Line)
    BY DEF SettingsInv, Fine, ConfOK, Conf
  <1>1. ASSUME NEW c, edit(c) PROVE conf' = c /\ ran' = ran /\ ran.how = "none" /\ unsaved' = TRUE
    BY <1>1 DEF edit
  <1>2. ASSUME NEW name \in Known, NEW v \in Values[name] \union {nullopt}, edit(set(conf, key(name), v))
        PROVE  Fine(conf') /\ ran' = ran /\ ran.how = "none" /\ unsaved' = TRUE
    <2>1. ConfOK(set(conf, key(name), v)) /\ v \in Text
      BY <1>0, SetterOK, ServerGroupAssumption, Texts
    <2>2. Fine(set(conf, key(name), v))
      BY <1>0, <2>1, SetFine
    <2> QED BY <1>1, <1>2, <2>2, Zenon
  <1>3. CASE \E name \in Known : setter(name)
    BY <1>2, <1>3 DEF setter
  <1>4. CASE four_letter_word_whitelist
    BY <1>2, <1>4 DEF four_letter_word_whitelist, Known
  <1>5. CASE add_server
    <2>1. PICK i \in ServerNo : /\ valid_id(i)
                                /\ edit(set(conf, server_id(i), server_address("peer", 2888, 3888)))
      BY <1>5, SMT DEF add_server, can_add_server
    <2> DEFINE v == server_address("peer", 2888, 3888)
               d == set(conf, server_id(i), v)
    <2>2. v \in Text
      BY AddressText, ConfigurationAssumption, SMT
    <2>3. server_id(i) \in Key /\ server_id(i).id = i
      BY Keys DEF server_id
    <2>4. ConfOK(d)
      BY <1>0, AddressOK, ConfigurationAssumption, SMT
    <2>5. edit(d)
      BY <2>1, SMT
    <2> HIDE DEF v
    <2>6. Indexed(d)
      BY <1>0, <2>2, <2>3, SetIndexed DEF Fine
    <2>7. ~from_lines_throws(d.lines)
      BY <1>0, <2>1, <2>2, <2>3, SetValid DEF Fine
    <2> HIDE DEF d
    <2> QED BY <1>1, <2>4, <2>5, <2>6, <2>7 DEF Fine
  <1>6. CASE add_setting
    <2>1. PICK line \in Added : /\ ~from_lines_throws(Append(conf.lines, line))
                                /\ edit(added_setting(conf, line.key, line.data))
      BY <1>6 DEF add_setting
    <2>2. line \in Line
      BY ServerGroupAssumption
    <2>3. [key |-> line.key, data |-> line.data] = line
      BY <2>2 DEF Line
    <2> DEFINE lines == Append(conf.lines, line)
    <2>4. lines \in Seq(Line)
      BY <1>0, <2>2
    <2> HIDE DEF lines
    <2>5. Fine(from_lines(lines))
      <3>1. from_lines(lines).lines = lines
        BY DEF from_lines
      <3> QED BY <2>1, <2>4, <3>1, FromLines, FromLinesIndexed DEF Fine, lines
    <2>6. added_setting(conf, line.key, line.data) = from_lines(lines)
      BY <2>3 DEF added_setting, lines
    <2> QED BY <1>1, <2>1, <2>5, <2>6
  <1> QED BY <1>3, <1>4, <1>5, <1>6

(* The settings stay such. *)
LEMMA SettingsAlways == Spec => []SettingsInv
  <1>1. Init => SettingsInv
    BY NoLinesFine DEF Init, SettingsInv
  <1>2. GroupInv /\ SettingsInv /\ [Next]_vars => SettingsInv'
    <2> SUFFICES ASSUME GroupInv, SettingsInv, [Next]_vars PROVE SettingsInv'
      OBVIOUS
    <2>1. ASSUME Fine(conf'), ran' = ran, ran.how = "none", unsaved' \in BOOLEAN,
                 unsaved' = FALSE => file' = conf'.lines
          PROVE  SettingsInv'
      BY <2>1 DEF SettingsInv
    <2>2. CASE make_minimal
      <3>1. edits = -1 /\ ran' = ran /\ unsaved' = TRUE
        BY <2>2 DEF make_minimal
      <3>2. Fine(conf')
        BY <2>2, MinimalFine DEF make_minimal
      <3> QED BY <2>1, <3>1, <3>2 DEF SettingsInv
    <2>3. CASE from_stream
      <3>1. /\ file \in Seq(Line) /\ ~from_lines_throws(file) /\ from_lines(file).lines = file
            /\ file' = file /\ conf' = from_lines(file) /\ ran' = ran /\ ran.how = "none" /\ unsaved' = FALSE
        BY <2>3 DEF from_stream, GroupInv, from_lines
      <3>2. Fine(from_lines(file))
        BY <3>1, FromLines, FromLinesIndexed DEF Fine
      <3> QED BY <2>1, <3>1, <3>2
    <2>4. CASE client_port \/ data_directory \/ tick_time \/ init_limit \/ sync_limit \/ leader_serves
      <3>1. \E name \in Known : setter(name)
        BY <2>4, Zenon DEF client_port, data_directory, tick_time, init_limit, sync_limit, leader_serves,
                           Known
      <3> QED BY <2>1, <3>1, EditFine
    <2>5. CASE four_letter_word_whitelist \/ add_server \/ add_setting
      BY <2>1, <2>5, EditFine
    <2>6. CASE launch
      <3>1. /\ conf' = conf /\ edits' = edits /\ edits # -1 /\ unsaved' = unsaved /\ file' = file
            /\ ran' = [ran EXCEPT !.how = IF is_minimal(conf) THEN "args" ELSE "file", !.settings = conf]
        BY <2>6 DEF launch, confVars
      <3>2. /\ ran'.settings = conf /\ (ran'.how = "args" => is_minimal(conf))
            /\ ran'.how # "read" /\ ran'.stale = ran.stale
            /\ ran' = [how |-> ran'.how, settings |-> ran'.settings, lines |-> ran'.lines,
                       stale |-> ran'.stale]
        BY <3>1 DEF SettingsInv
      <3> QED BY <3>1, <3>2 DEF SettingsInv
    <2>7. CASE java_reads
      <3>1. /\ ran.how = "file" /\ conf' = conf /\ edits' = edits /\ unsaved' = unsaved /\ file' = file
            /\ ran' = [ran EXCEPT !.how = "read", !.lines = file, !.stale = unsaved]
        BY <2>7 DEF java_reads, confVars
      <3>2. /\ ran'.settings = ran.settings /\ ran'.how = "read"
            /\ ran'.lines = file /\ ran'.stale = unsaved
            /\ ran' = [how |-> ran'.how, settings |-> ran'.settings, lines |-> ran'.lines,
                       stale |-> ran'.stale]
        BY <3>1 DEF SettingsInv
      <3> QED BY <3>1, <3>2 DEF SettingsInv
    <2>8. CASE save_file \/ save_file_fails
      <3>1. /\ conf' = conf /\ ran' = ran /\ edits' = edits /\ unsaved' \in BOOLEAN
            /\ unsaved' = FALSE => file' = conf.lines
        BY <2>8 DEF save_file, save_file_fails
      <3> QED BY <3>1 DEF SettingsInv
    <2>9. CASE Group \/ UNCHANGED vars
      <3>1. conf' = conf /\ ran' = ran /\ edits' = edits /\ unsaved' = unsaved /\ file' = file
        BY <2>9 DEF Group, make_ensemble, create_base_directory, add_member,
           make_member, make_member_throws, ensemble_made, start_all_servers, start_member,
           all_started, vars, confVars
      <3> QED BY <3>1 DEF SettingsInv
    <2> QED BY <2>2, <2>3, <2>4, <2>5, <2>6, <2>7, <2>8, <2>9, Zenon DEF Next, Program
  <1> QED BY <1>1, <1>2, GroupAlways, PTL DEF Spec

(* A setting that can be told from a comment is read from its own line,    *)
(* and so is its value if that is what its own text is read as.            *)
LEMMA ReadAgain ==
  ASSUME NEW c, Fine(c), NEW k \in Key, c.value[k] # nullopt, Regular(c.lines[c.line[k]].data),
         decode(k, c.value[k]) = c.value[k]
  PROVE  from_lines(c.lines).value[k] = c.value[k]
  <1>1. c.lines \in Seq(Line)
    BY DEF Fine, ConfOK, Conf
  <1>2. /\ c.line[k] # 0 /\ c.line[k] \in DOMAIN c.lines
        /\ c.lines[c.line[k]].key = k /\ decode(k, c.lines[c.line[k]].data) = c.value[k]
    BY DEF Fine, ConfOK, OwnsLines
  <1>3. c.line[k] \in LinesOf(c.lines, k)
    BY <1>2 DEF LinesOf
  <1>4. \A i \in LinesOf(c.lines, k) : IF k.name \in Known THEN i <= c.line[k] ELSE c.line[k] <= i
    BY <1>2 DEF Fine, Indexed
  <1>5. line_of(c.lines, k) = c.line[k]
    BY <1>1, <1>3, <1>4, LineOfIs
  <1> QED BY <1>2, <1>5 DEF from_lines

(* What was set is there again when a configuration that was saved since   *)
(* its last edit is loaded, if it can be read from its own text, and       *)
(* nothing else is if nothing that was unset is left on another line       *)
(* (configuration::save, from_lines).                                      *)
THEOREM SavedSettingsAreReloaded == Spec => []ReloadKeepsSettings
  <1>1. SettingsInv => ReloadKeepsSettings
    <2> SUFFICES ASSUME SettingsInv PROVE ReloadKeepsSettings
      OBVIOUS
    <2> DEFINE again == from_lines(conf.lines)
               has(k) == conf.value[k] # nullopt
               readable(k) == /\ has(k)
                              /\ Regular(conf.lines[conf.line[k]].data)
                              /\ decode(k, conf.value[k]) = conf.value[k]
               whole == \A k \in Key : readable(k) \/ (~has(k) /\ LinesOf(conf.lines, k) = {})
    <2>1. Fine(conf) /\ (~unsaved => file = conf.lines)
      BY DEF SettingsInv
    <2>2. \A k \in Key : readable(k) => again.value[k] = conf.value[k]
      BY <2>1, ReadAgain
    <2>3. ASSUME whole PROVE Same(conf, again)
      <3>1. ASSUME NEW k \in Key, ~has(k), LinesOf(conf.lines, k) = {}
            PROVE  again.value[k] = conf.value[k]
        <4>1. line_of(conf.lines, k) = 0
          BY <3>1 DEF line_of
        <4> QED BY <3>1, <4>1 DEF from_lines
      <3>2. \A k \in Key : again.value[k] = conf.value[k]
        BY <2>2, <2>3, <3>1
      <3> HIDE DEF again
      <3> QED BY <3>2, Keys DEF Same, get
    <2>4. ~from_lines_throws(conf.lines)
      BY <2>1 DEF Fine
    <2>5. ASSUME ~unsaved PROVE from_lines(file) = again
      BY <2>1, <2>5
    <2> HIDE DEF again
    <2> QED BY <2>2, <2>3, <2>4, <2>5, Zenon DEF ReloadKeepsSettings
  <1> QED BY <1>1, SettingsAlways, PTL

(* java takes the last line of a key. *)
LEMMA JavaTakesLast ==
  ASSUME NEW lines \in Seq(Line), NEW k, NEW n \in DOMAIN lines, lines[n].key = k,
         \A i \in DOMAIN lines : lines[i].key = k => i <= n
  PROVE  JavaReads(lines, k) = lines[n].data
  <1> DEFINE at == {i \in DOMAIN lines : lines[i].key = k}
  <1>1. n \in at /\ at # {} /\ \A j \in at : j <= n
    OBVIOUS
  <1>2. at \subseteq Nat
    OBVIOUS
  <1> HIDE DEF at
  <1>3. (CHOOSE i \in at : \A j \in at : j <= i) = n
    <2>1. ASSUME NEW i \in at, \A j \in at : j <= i PROVE i = n
      <3>1. i <= n /\ n <= i /\ i \in Nat /\ n \in Nat
        BY <1>1, <1>2, <2>1
      <3> QED BY <3>1
    <2> QED BY <1>1, <2>1
  <1> QED BY <1>1, <1>3 DEF JavaReads, at

(* The line of k is not followed by another one of that key, ... *)
IsLast(c, k) == \A i \in DOMAIN c.lines : c.lines[i].key = k => i <= c.line[k]

(* ... as it is if all others can be read by the library, too. *)
LEMMA ClearIsLast ==
  ASSUME NEW c, Fine(c), NEW k \in Key, k.name \in Known, c.line[k] # 0, Clear(c, k)
  PROVE  IsLast(c, k)
  <1> SUFFICES ASSUME NEW i \in DOMAIN c.lines, c.lines[i].key = k PROVE i <= c.line[k]
    BY DEF IsLast
  <1>1. c.lines \in Seq(Line) /\ i \in Nat
    BY DEF Fine, ConfOK, Conf
  <1>2. CASE i = c.line[k]
    BY <1>1, <1>2
  <1>3. CASE i # c.line[k]
    <2>1. i \in LinesOf(c.lines, k)
      BY <1>3 DEF Clear, LinesOf
    <2> QED BY <2>1 DEF Fine, Indexed
  <1> QED BY <1>2, <1>3

(* Four settings of a configuration with four lines are all there is. *)
LEMMA NothingElse ==
  ASSUME NEW c, ConfOK(c), is_minimal(c), NEW k \in Key,
         k \notin {key("dataDir"), key("clientPort"), key("initLimit"), key("syncLimit")}
  PROVE  c.value[k] = nullopt
  <1> DEFINE a == key("dataDir")
             b == key("clientPort")
             d == key("initLimit")
             e == key("syncLimit")
  <1>1. /\ a \in Key /\ b \in Key /\ d \in Key /\ e \in Key
        /\ a # b /\ a # d /\ a # e /\ b # d /\ b # e /\ d # e
    <2>1. a \in Key /\ b \in Key /\ d \in Key /\ e \in Key
      BY Keys DEF Known
    <2> QED BY <2>1 DEF key
  <1>2. c.value[a] # nullopt /\ c.value[b] # nullopt /\ c.value[d] # nullopt /\ c.value[e] # nullopt
    BY DEF is_minimal, default_init_limit, default_sync_limit, Num, nullopt
  <1>3. k # a /\ k # b /\ k # d /\ k # e
    OBVIOUS
  <1> HIDE DEF a, b, d, e
  <1>4. DOMAIN c.lines = 1..4
    BY DEF is_minimal, ConfOK, Conf
  <1>5. \A j \in Key : c.value[j] # nullopt => c.line[j] # 0
    BY DEF ConfOK, OwnsLines
  <1>6. \A j \in Key : c.line[j] # 0 => c.line[j] \in 1..4
    BY <1>4 DEF ConfOK, OwnsLines
  <1>7. \A i, j \in Key : i # j /\ c.line[j] # 0 => c.line[i] # c.line[j]
    BY DEF ConfOK, OwnsLines
  <1>8. c.line[a] \in 1..4 /\ c.line[b] \in 1..4 /\ c.line[d] \in 1..4 /\ c.line[e] \in 1..4
    BY <1>1, <1>2, <1>5, <1>6
  <1>9. /\ c.line[a] # c.line[b] /\ c.line[a] # c.line[d] /\ c.line[a] # c.line[e]
        /\ c.line[b] # c.line[d] /\ c.line[b] # c.line[e] /\ c.line[d] # c.line[e]
    BY <1>1, <1>2, <1>5, <1>7
  <1>10. ASSUME c.value[k] # nullopt PROVE FALSE
    <2>1. /\ c.line[k] \in 1..4
          /\ c.line[k] # c.line[a] /\ c.line[k] # c.line[b] /\ c.line[k] # c.line[d] /\ c.line[k] # c.line[e]
      BY <1>1, <1>2, <1>3, <1>5, <1>6, <1>7, <1>10
    <2> QED BY <1>8, <1>9, <2>1
  <1> QED BY <1>10

(* java runs with what its server was given: on the command line there is  *)
(* all of it, and in a file saved or loaded since the last edit it takes   *)
(* the line the library keeps for a setting (validate_settings,            *)
(* is_minimal, run_process).                                               *)
THEOREM ServersRunTheirSettings == Spec => []RunsItsSettings
  <1>1. SettingsInv => RunsItsSettings
    <2> SUFFICES ASSUME SettingsInv PROVE RunsItsSettings
      OBVIOUS
    <2> DEFINE c == ran.settings
    <2>0. Fine(c) /\ ConfOK(c) /\ c.lines \in Seq(Line)
      BY DEF SettingsInv, Fine, ConfOK, Conf
    <2>1. ASSUME ran.how = "args", NEW k \in Key \ {key("dataDir"), key("clientPort")}
          PROVE  get(c, k) = default(k)
      <3>1. is_minimal(c)
        BY <2>1 DEF SettingsInv
      <3>2. CASE k \in {key("initLimit"), key("syncLimit")}
        <4>1. /\ c.value[key("initLimit")] = default_init_limit
              /\ c.value[key("syncLimit")] = default_sync_limit
          BY <3>1 DEF is_minimal
        <4>2. /\ default(key("initLimit")) = default_init_limit
              /\ default(key("syncLimit")) = default_sync_limit
          BY DEF default, key
        <4> QED BY <3>2, <4>1, <4>2 DEF get
      <3>3. CASE k \notin {key("initLimit"), key("syncLimit")}
        <4>1. c.value[k] = nullopt
          BY <2>0, <2>1, <3>1, <3>3, NothingElse
        <4> QED BY <4>1 DEF get
      <3> QED BY <3>2, <3>3
    <2>2. ASSUME ran.how = "read", ~ran.stale, NEW name \in Known,
                 c.value[key(name)] # nullopt, Clear(c, key(name))
          PROVE  JavaReads(ran.lines, key(name)) = c.lines[c.line[key(name)]].data
      <3> DEFINE k == key(name)
      <3>1. k \in Key /\ k.name \in Known
        BY Keys DEF key
      <3> HIDE DEF k, c
      <3>2. /\ c.line[k] # 0 /\ c.line[k] \in DOMAIN c.lines
            /\ c.lines[c.line[k]].key = k
        BY <2>0, <2>2, <3>1 DEF ConfOK, OwnsLines, k
      <3>3. IsLast(c, k)
        BY <2>0, <2>2, <3>1, <3>2, ClearIsLast DEF k
      <3>4. JavaReads(c.lines, k) = c.lines[c.line[k]].data
        BY <2>0, <3>2, <3>3, JavaTakesLast DEF IsLast
      <3>5. ran.lines = c.lines
        BY <2>2 DEF SettingsInv, c
      <3> QED BY <3>4, <3>5 DEF k
    <2> QED BY <2>1, <2>2 DEF RunsItsSettings
  <1> QED BY <1>1, SettingsAlways, PTL
=============================================================================
