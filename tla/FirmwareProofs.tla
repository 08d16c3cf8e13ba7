---------------------------- MODULE FirmwareProofs ----------------------------
(***************************************************************************)
(* Proofs of the safety properties of Firmware, for command lines of any   *)
(* length and any number of interventions by other processes.              *)
(*                                                                         *)
(* The inductive invariant adds three things: how many messages a place in *)
(* the command line stands for, that a refused request has ended the       *)
(* process, and that under -v the output ends with the section of the      *)
(* command in hand, so that the next line of it is below its own heading.  *)
(* For the report it says in addition what the output holds so far: a line *)
(* about each device asked for, in order, and as many about a property as  *)
(* its command has been given.  FlattenSeq is reasoned about by induction  *)
(* over the length, from the well-foundedness of < on Nat.                 *)
(***************************************************************************)
EXTENDS Firmware, SequenceTheorems, FiniteSetTheorems, TLAPS

Informing == Lists \union Singles

Titles ==
  {VoltageNames[i] : i \in 1 .. 4} \union {PowerNames[i] : i \in 1 .. 9}
    \union {ClockNames[i] : i \in 1 .. 14} \union Commands
    \union {"Model", "Revision", "Serial", "MAC", "ARM", "GPU", "C", "Variant",
            "Enabling QPUs", "Disabling QPUs"}

Tags == {"divider", "switch"} \union UNION {TagsOf[cmd] : cmd \in Informing}

LineType == [title : Titles, tag : Tags, id : Nat]

\* Every line of s that is neither heading nor announcement is in the section
\* of its own command.
Headed(s) ==
  \A i \in 1 .. Len(s) :
    s[i].tag \notin {"divider", "switch"} =>
      \E j \in 1 .. i - 1 :
        /\ s[j].tag = "divider"
        /\ \A k \in j + 1 .. i : s[k].tag \in TagsOf[s[j].title]

\* The output s ends within a section of cmd.
OpenFor(s, cmd) ==
  \E j \in 1 .. Len(s) :
    /\ s[j].tag = "divider" /\ s[j].title = cmd
    /\ \A k \in j + 1 .. Len(s) : s[k].tag \in TagsOf[cmd]

WellTyped ==
  /\ args \in Seq(Commands \union {"?"}) /\ Len(args) <= MaxArgs
  /\ verbose \in BOOLEAN
  /\ status \in {"running", "SUCCESS", "FAILURE"}
  /\ refused \in BOOLEAN /\ qpus \in BOOLEAN
  /\ stdout \in Seq(LineType)
  /\ optind \in 1 .. Len(args) + 1
  /\ request \in Nat /\ sent \in Nat /\ others \in Nat
  /\ left \in [place : Nat, on : BOOLEAN] /\ left.place <= optind - 1

\* A request is one of those of the command in hand.
RequestInHand ==
  request > 0 =>
    /\ optind <= Len(args) /\ Command \in Commands
    /\ request <= Len(Requests(Command))

\* A command sends at most 14 messages.
SentBound ==
  /\ refused => request > 0 /\ status = "FAILURE"
  /\ sent <= 14 * (optind - 1) + request
  /\ ~refused /\ request > 0 => sent <= 14 * (optind - 1) + request - 1

\* In the middle of a command's lines, the output ends in its section.
SectionOpen ==
  verbose /\ request > 0 /\ Command \in Lists => OpenFor(stdout, Command)

\* The switch is as the command line or another process has left it, unless
\* the request for it that ended the process has had its effect.
Follows ==
  \/ \E k \in left.place + 1 .. optind - 1 :
       LastSwitch(k, optind - 1) /\ (qpus <=> args[k] = "enable")
  \/ /\ \A k \in left.place + 1 .. optind - 1 : args[k] \notin Switches
     /\ qpus <=> left.on
  \/ /\ refused /\ optind <= Len(args) /\ Command \in Switches
     /\ qpus <=> Command = "enable"

\* The last announcement in the output s is that of the last switch command
\* among the first n words of w.
ToldLast(s, w, n) ==
  \/ /\ \A k \in 1 .. n : w[k] \notin Switches
     /\ \A i \in 1 .. Len(s) : s[i].tag # "switch"
  \/ \E k \in 1 .. n, i \in 1 .. Len(s) :
       /\ w[k] \in Switches /\ \A j \in k + 1 .. n : w[j] \notin Switches
       /\ s[i].tag = "switch" /\ \A j \in i + 1 .. Len(s) : s[j].tag # "switch"
       /\ s[i].id = 1 <=> w[k] = "enable"

IInv ==
  /\ WellTyped /\ RequestInHand /\ SentBound /\ Follows
  /\ verbose => Headed(stdout) /\ ToldLast(stdout, args, Entered)
  /\ SectionOpen

-----------------------------------------------------------------------------
(* The requests                                                            *)

\* A sequence of one line.
LEMMA OneLine ==
  ASSUME NEW l \in LineType
  PROVE  <<l>> \in Seq(LineType) /\ Len(<<l>>) = 1 /\ <<l>>[1] = l
OBVIOUS

\* Every command has at least one and at most 14 requests, all of whose lines
\* carry tags of that command; the switch has one, without lines.
LEMMA RequestsShape ==
  ASSUME NEW cmd \in Commands
  PROVE  /\ Len(Requests(cmd)) \in 1 .. 14
         /\ \A r \in 1 .. Len(Requests(cmd)) :
              /\ Requests(cmd)[r] \in Seq(LineType)
              /\ cmd \in Informing =>
                   \A i \in 1 .. Len(Requests(cmd)[r]) : Requests(cmd)[r][i].tag \in TagsOf[cmd]
         /\ cmd \notin Lists => Len(Requests(cmd)) = 1
         /\ cmd \in Switches => Requests(cmd)[1] = <<>>
<1>1. CASE cmd = "voltage"
  <2>1. Requests(cmd) = Voltages
    BY <1>1 DEF Requests
  <2>2. Len(VoltageNames) = 4
    BY DEF VoltageNames
  <2>3. Len(Voltages) = 4
    BY <2>2 DEF Voltages
  <2>5. "voltage" \in TagsOf["voltage"]
    BY DEF TagsOf
  <2>6. cmd \in Lists /\ cmd \notin Switches
    BY <1>1 DEF Lists, Switches
  <2>4. ASSUME NEW r \in 1 .. 4
        PROVE  /\ Voltages[r] \in Seq(LineType)
               /\ Len(Voltages[r]) = 1 /\ Voltages[r][1].tag = "voltage"
    <3>1. VoltageNames[r] \in Titles /\ "voltage" \in Tags
      BY <1>1, <2>5, <2>6 DEF Titles, Tags, Informing
    <3>2. Voltages[r] = InfoVoltage(r, VoltageNames[r])
      BY <2>2 DEF Voltages
    <3>3. Line(VoltageNames[r], "voltage", r) \in LineType
      BY <3>1 DEF Line, LineType
    <3> QED
      BY <3>2, <3>3, OneLine DEF InfoVoltage, Line
  <2>7. \A i \in 1 .. 1 : i = 1
    OBVIOUS
  <2>8. Len(Requests(cmd)) \in 1 .. 14
    BY <2>1, <2>3
  <2>9. ASSUME NEW r \in 1 .. Len(Requests(cmd))
        PROVE  /\ Requests(cmd)[r] \in Seq(LineType)
               /\ \A i \in 1 .. Len(Requests(cmd)[r]) : Requests(cmd)[r][i].tag \in TagsOf[cmd]
    BY <1>1, <2>1, <2>3, <2>4, <2>5, <2>7
  <2> QED
    BY <2>6, <2>8, <2>9
<1>2. CASE cmd = "power"
  <2>1. Requests(cmd) = Powers
    BY <1>2 DEF Requests
  <2>2. Len(PowerNames) = 9
    BY DEF PowerNames
  <2>3. Len(Powers) = 9
    BY <2>2 DEF Powers
  <2>5. "power" \in TagsOf["power"]
    BY DEF TagsOf
  <2>6. cmd \in Lists /\ cmd \notin Switches
    BY <1>2 DEF Lists, Switches
  <2>4. ASSUME NEW r \in 1 .. 9
        PROVE  /\ Powers[r] \in Seq(LineType)
               /\ Len(Powers[r]) = 1 /\ Powers[r][1].tag = "power"
    <3>1. PowerNames[r] \in Titles /\ "power" \in Tags
      BY <1>2, <2>5, <2>6 DEF Titles, Tags, Informing
    <3>2. Powers[r] = InfoPower(r - 1, PowerNames[r])
      BY <2>2 DEF Powers
    <3>3. Line(PowerNames[r], "power", r - 1) \in LineType
      BY <3>1 DEF Line, LineType
    <3> QED
      BY <3>2, <3>3, OneLine DEF InfoPower, Line
  <2>7. \A i \in 1 .. 1 : i = 1
    OBVIOUS
  <2>8. Len(Requests(cmd)) \in 1 .. 14
    BY <2>1, <2>3
  <2>9. ASSUME NEW r \in 1 .. Len(Requests(cmd))
        PROVE  /\ Requests(cmd)[r] \in Seq(LineType)
               /\ \A i \in 1 .. Len(Requests(cmd)[r]) : Requests(cmd)[r][i].tag \in TagsOf[cmd]
    BY <1>2, <2>1, <2>3, <2>4, <2>5, <2>7
  <2> QED
    BY <2>6, <2>8, <2>9
<1>3. CASE cmd = "clocks"
  <2>1. Requests(cmd) = Clocks
    BY <1>3 DEF Requests
  <2>2. Len(ClockNames) = 14
    BY DEF ClockNames
  <2>3. Len(Clocks) = 14
    BY <2>2 DEF Clocks
  <2>5. "clock" \in TagsOf["clocks"]
    BY DEF TagsOf
  <2>6. cmd \in Lists /\ cmd \notin Switches
    BY <1>3 DEF Lists, Switches
  <2>4. ASSUME NEW r \in 1 .. 14
        PROVE  /\ Clocks[r] \in Seq(LineType)
               /\ Len(Clocks[r]) = 1 /\ Clocks[r][1].tag = "clock"
    <3>1. ClockNames[r] \in Titles /\ "clock" \in Tags
      BY <1>3, <2>5, <2>6 DEF Titles, Tags, Informing
    <3>2. Clocks[r] = InfoClocks(r, ClockNames[r])
      BY <2>2 DEF Clocks
    <3>3. Line(ClockNames[r], "clock", r) \in LineType
      BY <3>1 DEF Line, LineType
    <3> QED
      BY <3>2, <3>3, OneLine DEF InfoClocks, Line
  <2>7. \A i \in 1 .. 1 : i = 1
    OBVIOUS
  <2>8. Len(Requests(cmd)) \in 1 .. 14
    BY <2>1, <2>3
  <2>9. ASSUME NEW r \in 1 .. Len(Requests(cmd))
        PROVE  /\ Requests(cmd)[r] \in Seq(LineType)
               /\ \A i \in 1 .. Len(Requests(cmd)[r]) : Requests(cmd)[r][i].tag \in TagsOf[cmd]
    BY <1>3, <2>1, <2>3, <2>4, <2>5, <2>7
  <2> QED
    BY <2>6, <2>8, <2>9
<1>4. CASE cmd = "board"
  <2>1. Requests(cmd) = <<Board>>
    BY <1>4 DEF Requests
  <2>2. Board \in Seq(LineType) /\ Len(Board) = 4
    <3>1. {"board", "memory", "temp", "version"} \subseteq Informing
      BY DEF Informing, Singles
    <3>2. {"bd_model", "bd_revision", "bd_serial", "bd_mac"} \subseteq Tags
      BY <3>1 DEF Tags, TagsOf
    <3>3. {"Model", "Revision", "Serial", "MAC"} \subseteq Titles
      BY DEF Titles
    <3>4. /\ Line("Model", "bd_model", 0) \in LineType
          /\ Line("Revision", "bd_revision", 0) \in LineType
          /\ Line("Serial", "bd_serial", 0) \in LineType
          /\ Line("MAC", "bd_mac", 0) \in LineType
      BY <3>2, <3>3 DEF Line, LineType
    <3> QED
      BY <3>4 DEF Board
  <2>3. /\ Board[1].tag \in TagsOf["board"]
        /\ Board[2].tag \in TagsOf["board"]
        /\ Board[3].tag \in TagsOf["board"]
        /\ Board[4].tag \in TagsOf["board"]
    BY DEF Board, Line, TagsOf
  <2>4. \A i \in 1 .. 4 : i = 1 \/ i = 2 \/ i = 3 \/ i = 4
    OBVIOUS
  <2>5. cmd \notin Lists /\ cmd \notin Switches
    BY <1>4 DEF Lists, Switches
  <2>6. /\ Len(<<Board>>) = 1 /\ <<Board>>[1] = Board
        /\ \A r \in 1 .. 1 : r = 1
    OBVIOUS
  <2> QED
    BY <1>4, <2>1, <2>2, <2>3, <2>4, <2>5, <2>6
<1>5. CASE cmd = "memory"
  <2>1. Requests(cmd) = <<Memory>>
    BY <1>5 DEF Requests
  <2>2. Memory \in Seq(LineType) /\ Len(Memory) = 2
    <3>1. {"board", "memory", "temp", "version"} \subseteq Informing
      BY DEF Informing, Singles
    <3>2. {"mem_arm", "mem_vc4"} \subseteq Tags
      BY <3>1 DEF Tags, TagsOf
    <3>3. {"ARM", "GPU"} \subseteq Titles
      BY DEF Titles
    <3>4. /\ Line("ARM", "mem_arm", 0) \in LineType
          /\ Line("GPU", "mem_vc4", 0) \in LineType
      BY <3>2, <3>3 DEF Line, LineType
    <3> QED
      BY <3>4 DEF Memory
  <2>3. /\ Memory[1].tag \in TagsOf["memory"]
        /\ Memory[2].tag \in TagsOf["memory"]
    BY DEF Memory, Line, TagsOf
  <2>4. \A i \in 1 .. 2 : i = 1 \/ i = 2
    OBVIOUS
  <2>5. cmd \notin Lists /\ cmd \notin Switches
    BY <1>5 DEF Lists, Switches
  <2>6. /\ Len(<<Memory>>) = 1 /\ <<Memory>>[1] = Memory
        /\ \A r \in 1 .. 1 : r = 1
    OBVIOUS
  <2> QED
    BY <1>5, <2>1, <2>2, <2>3, <2>4, <2>5, <2>6
<1>6. CASE cmd = "temp"
  <2>1. Requests(cmd) = <<Temp>>
    BY <1>6 DEF Requests
  <2>2. Temp \in Seq(LineType) /\ Len(Temp) = 1
    <3>1. {"board", "memory", "temp", "version"} \subseteq Informing
      BY DEF Informing, Singles
    <3>2. {"temp"} \subseteq Tags
      BY <3>1 DEF Tags, TagsOf
    <3>3. {"C"} \subseteq Titles
      BY DEF Titles
    <3>4. Line("C", "temp", 0) \in LineType
      BY <3>2, <3>3 DEF Line, LineType
    <3> QED
      BY <3>4 DEF Temp
  <2>3. Temp[1].tag \in TagsOf["temp"]
    BY DEF Temp, Line, TagsOf
  <2>4. \A i \in 1 .. 1 : i = 1
    OBVIOUS
  <2>5. cmd \notin Lists /\ cmd \notin Switches
    BY <1>6 DEF Lists, Switches
  <2>6. /\ Len(<<Temp>>) = 1 /\ <<Temp>>[1] = Temp
        /\ \A r \in 1 .. 1 : r = 1
    OBVIOUS
  <2> QED
    BY <1>6, <2>1, <2>2, <2>3, <2>4, <2>5, <2>6
<1>7. CASE cmd = "version"
  <2>1. Requests(cmd) = <<Version>>
    BY <1>7 DEF Requests
  <2>2. Version \in Seq(LineType) /\ Len(Version) = 2
    <3>1. {"board", "memory", "temp", "version"} \subseteq Informing
      BY DEF Informing, Singles
    <3>2. {"fw_revision", "fw_variant"} \subseteq Tags
      BY <3>1 DEF Tags, TagsOf
    <3>3. {"Revision", "Variant"} \subseteq Titles
      BY DEF Titles
    <3>4. /\ Line("Revision", "fw_revision", 0) \in LineType
          /\ Line("Variant", "fw_variant", 0) \in LineType
      BY <3>2, <3>3 DEF Line, LineType
    <3> QED
      BY <3>4 DEF Version
  <2>3. /\ Version[1].tag \in TagsOf["version"]
        /\ Version[2].tag \in TagsOf["version"]
    BY DEF Version, Line, TagsOf
  <2>4. \A i \in 1 .. 2 : i = 1 \/ i = 2
    OBVIOUS
  <2>5. cmd \notin Lists /\ cmd \notin Switches
    BY <1>7 DEF Lists, Switches
  <2>6. /\ Len(<<Version>>) = 1 /\ <<Version>>[1] = Version
        /\ \A r \in 1 .. 1 : r = 1
    OBVIOUS
  <2> QED
    BY <1>7, <2>1, <2>2, <2>3, <2>4, <2>5, <2>6
<1>8. CASE cmd \in Switches
  <2>1. Requests(cmd) = << <<>> >>
    BY <1>8 DEF Requests, Switches
  <2>2. /\ Len(<< <<>> >>) = 1 /\ << <<>> >>[1] = <<>>
        /\ \A r \in 1 .. 1 : r = 1
    OBVIOUS
  <2>3. <<>> \in Seq(LineType) /\ Len(<<>>) = 0
    OBVIOUS
  <2>4. cmd \notin Informing /\ cmd \notin Lists
    BY <1>8 DEF Lists, Singles, Informing, Switches
  <2>5. ASSUME NEW r \in 1 .. Len(Requests(cmd))
        PROVE  Requests(cmd)[r] \in Seq(LineType)
    BY <2>1, <2>2, <2>3
  <2> QED
    BY <2>1, <2>2, <2>4, <2>5
<1> QED
  BY <1>1, <1>2, <1>3, <1>4, <1>5, <1>6, <1>7, <1>8 DEF Commands, Lists, Singles, Switches

-----------------------------------------------------------------------------
(* Sections of the output                                                  *)

\* Lines of a command may follow wherever its section is open.
LEMMA SectionGrows ==
  ASSUME NEW s \in Seq(LineType), NEW t \in Seq(LineType), NEW cmd \in Informing,
         Headed(s), OpenFor(s, cmd),
         \A i \in 1 .. Len(t) : t[i].tag \in TagsOf[cmd]
  PROVE  Headed(s \o t) /\ OpenFor(s \o t, cmd)
<1> DEFINE u == s \o t
<1>1. /\ Len(u) = Len(s) + Len(t)
      /\ \A i \in 1 .. Len(s) : u[i] = s[i]
      /\ \A i \in Len(s) + 1 .. Len(s) + Len(t) : u[i] = t[i - Len(s)]
      /\ Len(s) \in Nat /\ Len(t) \in Nat
  BY ConcatProperties, LenProperties
<1>2. PICK j \in 1 .. Len(s) :
        /\ s[j].tag = "divider" /\ s[j].title = cmd
        /\ \A k \in j + 1 .. Len(s) : s[k].tag \in TagsOf[cmd]
  BY DEF OpenFor
<1>3. \A k \in Len(s) + 1 .. Len(u) : u[k].tag \in TagsOf[cmd]
  <2>1. TAKE k \in Len(s) + 1 .. Len(u)
  <2>2. k - Len(s) \in 1 .. Len(t)
    BY <1>1, <2>1
  <2>3. u[k] = t[k - Len(s)]
    BY <1>1, <2>1
  <2> QED
    BY <2>2, <2>3
<1>4. /\ u[j].tag = "divider" /\ u[j].title = cmd
      /\ \A k \in j + 1 .. Len(u) : u[k].tag \in TagsOf[cmd]
  BY <1>1, <1>2, <1>3
<1>5. OpenFor(u, cmd)
  BY <1>1, <1>4 DEF OpenFor
<1>6. ASSUME NEW i \in 1 .. Len(u), u[i].tag \notin {"divider", "switch"}
      PROVE  \E h \in 1 .. i - 1 :
               /\ u[h].tag = "divider"
               /\ \A k \in h + 1 .. i : u[k].tag \in TagsOf[u[h].title]
  <2>1. CASE i <= Len(s)
    <3>1. PICK h \in 1 .. i - 1 :
            /\ s[h].tag = "divider"
            /\ \A k \in h + 1 .. i : s[k].tag \in TagsOf[s[h].title]
      BY <1>1, <1>6, <2>1 DEF Headed
    <3>2. h \in 1 .. Len(s) /\ \A k \in h + 1 .. i : k \in 1 .. Len(s)
      BY <1>1, <2>1
    <3> QED
      BY <1>1, <3>1, <3>2
  <2>2. CASE i > Len(s)
    <3>1. j \in 1 .. i - 1 /\ \A k \in j + 1 .. i : k \in j + 1 .. Len(u)
      BY <1>1, <2>2
    <3> QED
      BY <1>4, <3>1
  <2>3. i \in Int /\ Len(s) \in Int
    BY <1>1
  <2> QED
    BY <2>1, <2>2, <2>3
<1> QED
  BY <1>5, <1>6 DEF Headed

\* A heading or an announcement may follow anywhere; a heading opens its
\* command's section.
LEMMA HeadingOpens ==
  ASSUME NEW s \in Seq(LineType), NEW l \in LineType,
         Headed(s), l.tag \in {"divider", "switch"}
  PROVE  /\ Headed(s \o <<l>>)
         /\ l.tag = "divider" => OpenFor(s \o <<l>>, l.title)
<1> DEFINE u == s \o <<l>>
<1>1. /\ Len(u) = Len(s) + 1 /\ u[Len(s) + 1] = l
      /\ \A i \in 1 .. Len(s) : u[i] = s[i]
      /\ Len(s) \in Nat
  BY ConcatProperties, LenProperties
<1>2. ASSUME NEW i \in 1 .. Len(u), u[i].tag \notin {"divider", "switch"}
      PROVE  \E h \in 1 .. i - 1 :
               /\ u[h].tag = "divider"
               /\ \A k \in h + 1 .. i : u[k].tag \in TagsOf[u[h].title]
  <2>1. i \in 1 .. Len(s)
    BY <1>1, <1>2
  <2>2. PICK h \in 1 .. i - 1 :
          /\ s[h].tag = "divider"
          /\ \A k \in h + 1 .. i : s[k].tag \in TagsOf[s[h].title]
    BY <1>1, <1>2, <2>1 DEF Headed
  <2>3. h \in 1 .. Len(s) /\ \A k \in h + 1 .. i : k \in 1 .. Len(s)
    BY <1>1, <2>1
  <2> QED
    BY <1>1, <2>2, <2>3
<1>3. Headed(u)
  BY <1>2 DEF Headed
<1>4. ASSUME l.tag = "divider"
      PROVE  OpenFor(u, l.title)
  <2>1. Len(u) \in 1 .. Len(u) /\ \A k \in Len(u) + 1 .. Len(u) : FALSE
    BY <1>1
  <2> QED
    BY <1>1, <1>4, <2>1 DEF OpenFor
<1> QED
  BY <1>3, <1>4

-----------------------------------------------------------------------------
(* Announcements of the switch                                             *)

\* Lines that announce nothing, and a word that is not for the switch.
LEMMA AnnouncedKept ==
  ASSUME NEW s \in Seq(LineType), NEW t \in Seq(LineType), NEW w, NEW n \in Nat, NEW m \in Nat,
         ToldLast(s, w, n), \A i \in 1 .. Len(t) : t[i].tag # "switch",
         m = n \/ (m = n + 1 /\ w[m] \notin Switches)
  PROVE  ToldLast(s \o t, w, m)
<1>1. PICK u : u = s \o t
  OBVIOUS
<1>2. /\ Len(u) = Len(s) + Len(t)
      /\ \A i \in 1 .. Len(s) : u[i] = s[i]
      /\ \A i \in Len(s) + 1 .. Len(s) + Len(t) : u[i] = t[i - Len(s)]
      /\ Len(s) \in Nat /\ Len(t) \in Nat
  BY <1>1, ConcatProperties, LenProperties
<1>3. ASSUME NEW i \in Len(s) + 1 .. Len(u)
      PROVE  u[i].tag # "switch"
  <2>1. i - Len(s) \in 1 .. Len(t) /\ u[i] = t[i - Len(s)]
    BY <1>2
  <2> QED
    BY <2>1
<1>4. CASE /\ \A k \in 1 .. n : w[k] \notin Switches
           /\ \A i \in 1 .. Len(s) : s[i].tag # "switch"
  <2>1. \A k \in 1 .. m : w[k] \notin Switches
    BY <1>4
  <2>2. \A i \in 1 .. Len(u) : u[i].tag # "switch"
    <3>1. TAKE i \in 1 .. Len(u)
    <3>2. i \in 1 .. Len(s) \/ i \in Len(s) + 1 .. Len(u)
      BY <1>2
    <3> QED
      BY <1>2, <1>3, <1>4, <3>2
  <2> QED
    BY <1>1, <2>1, <2>2 DEF ToldLast
<1>5. CASE ~(/\ \A k \in 1 .. n : w[k] \notin Switches
             /\ \A i \in 1 .. Len(s) : s[i].tag # "switch")
  <2>1. PICK k \in 1 .. n, i \in 1 .. Len(s) :
          /\ w[k] \in Switches /\ \A j \in k + 1 .. n : w[j] \notin Switches
          /\ s[i].tag = "switch" /\ \A j \in i + 1 .. Len(s) : s[j].tag # "switch"
          /\ s[i].id = 1 <=> w[k] = "enable"
    BY <1>5 DEF ToldLast
  <2>2. k \in 1 .. m /\ \A j \in k + 1 .. m : w[j] \notin Switches
    BY <2>1
  <2>3. i \in 1 .. Len(u) /\ u[i] = s[i]
    BY <1>2
  <2>4. \A j \in i + 1 .. Len(u) : u[j].tag # "switch"
    <3>1. TAKE j \in i + 1 .. Len(u)
    <3>2. (j \in i + 1 .. Len(s) /\ j \in 1 .. Len(s)) \/ j \in Len(s) + 1 .. Len(u)
      BY <1>2
    <3> QED
      BY <1>2, <1>3, <2>1, <3>2
  <2> QED
    BY <1>1, <2>1, <2>2, <2>3, <2>4 DEF ToldLast
<1> QED
  BY <1>4, <1>5

\* The announcement of a word that is for the switch.
LEMMA AnnouncedMore ==
  ASSUME NEW s \in Seq(LineType), NEW l \in LineType, NEW w, NEW n \in Nat,
         l.tag = "switch", w[n + 1] \in Switches, l.id = 1 <=> w[n + 1] = "enable"
  PROVE  ToldLast(s \o <<l>>, w, n + 1)
<1>1. PICK u, k, i : u = s \o <<l>> /\ k = n + 1 /\ i = Len(s) + 1
  OBVIOUS
<1>2. Len(u) = i /\ u[i] = l /\ i \in Nat \ {0}
  BY <1>1, ConcatProperties, LenProperties
<1>3. /\ k \in 1 .. k /\ i \in 1 .. Len(u)
      /\ \A j \in k + 1 .. k : FALSE
      /\ \A j \in i + 1 .. Len(u) : FALSE
  BY <1>1, <1>2
<1> QED
  BY <1>1, <1>2, <1>3 DEF ToldLast

-----------------------------------------------------------------------------
(* The steps                                                               *)

\* What the first states establish.
LEMMA InitIInv == Init => IInv
<1> SUFFICES ASSUME Init PROVE IInv
  OBVIOUS
<1>1. PICK n \in 0 .. MaxArgs : args \in [1 .. n -> Commands \union {"?"}]
  BY DEF Init, BoundedSeq, SeqOf
<1>2. args \in Seq(Commands \union {"?"}) /\ Len(args) = n
  BY <1>1
<1>3. n <= MaxArgs /\ n \in Nat
  BY <1>1, BoundsAssumption
<1>4. stdout \in Seq(LineType) /\ Len(stdout) = 0
  BY DEF Init
<1>5. WellTyped
  <2>1. 1 \in 1 .. Len(args) + 1 /\ Len(args) <= MaxArgs
    BY <1>2, <1>3
  <2>2. left \in [place : Nat, on : BOOLEAN] /\ left.place = 0 /\ 0 <= 1 - 1
    BY DEF Init
  <2> QED
    BY <1>2, <1>4, <2>1, <2>2 DEF Init, WellTyped
<1>6. RequestInHand /\ SentBound /\ Follows /\ SectionOpen
  BY DEF Init, RequestInHand, SentBound, Follows, SectionOpen
<1>7. Headed(stdout) /\ ToldLast(stdout, args, Entered)
  BY <1>4 DEF Init, Headed, ToldLast, Entered
<1> QED
  BY <1>5, <1>6, <1>7 DEF IInv

\* Steps that leave the program's place and its messages alone; the switch
\* changes, if at all, by another process.
LEMMA Elsewhere ==
  ASSUME IInv, UNCHANGED <<args, verbose, optind, request, stdout, sent, refused>>,
         status' \in {"running", "SUCCESS", "FAILURE"}, refused => status' = status,
         qpus' \in BOOLEAN, others' \in Nat,
         (left' = left /\ qpus' = qpus) \/ left' = [place |-> optind - 1, on |-> qpus']
  PROVE  IInv'
<1>1. WellTyped'
  <2>1. left' \in [place : Nat, on : BOOLEAN] /\ left'.place <= optind - 1
    <3>1. CASE left' = left
      BY <3>1 DEF IInv, WellTyped
    <3>2. CASE left' = [place |-> optind - 1, on |-> qpus']
      <4>1. optind - 1 \in Nat
        BY DEF IInv, WellTyped
      <4> QED
        BY <3>2, <4>1
    <3> QED
      BY <3>1, <3>2
  <2> QED
    BY <2>1 DEF IInv, WellTyped
<1>2. /\ RequestInHand' /\ SentBound' /\ SectionOpen'
      /\ (verbose => Headed(stdout) /\ ToldLast(stdout, args, Entered))'
  <2>1. RequestInHand' /\ SentBound'
    BY DEF IInv, RequestInHand, SentBound, Command
  <2>2. SectionOpen'
    BY DEF IInv, SectionOpen, Command, OpenFor
  <2>3. (verbose => Headed(stdout))'
    BY DEF IInv, Headed
  <2>4. (verbose => ToldLast(stdout, args, Entered))'
    BY DEF IInv, ToldLast, Entered
  <2> QED
    BY <2>1, <2>2, <2>3, <2>4
<1>3. Follows'
  <2>1. CASE left' = left /\ qpus' = qpus
    BY <2>1 DEF IInv, Follows, LastSwitch, Command
  <2>2. CASE left' = [place |-> optind - 1, on |-> qpus']
    <3>1. left'.place = optind - 1 /\ left'.on = qpus' /\ optind \in Nat
      BY <2>2 DEF IInv, WellTyped
    <3>2. \A k \in left'.place + 1 .. optind' - 1 : FALSE
      BY <3>1
    <3> QED
      BY <3>1, <3>2 DEF Follows
  <2> QED
    BY <2>1, <2>2
<1> QED
  BY <1>1, <1>2, <1>3 DEF IInv

\* The first step of a command.
LEMMA BeginIInv == ASSUME IInv, Begin PROVE IInv'
<1>1. /\ status = "running" /\ optind \in 1 .. Len(args) /\ request = 0 /\ request' = 1
      /\ Command \in Commands /\ Command' = Command
      /\ UNCHANGED <<args, verbose, optind, status, sent, refused, qpus, others, left>>
  BY DEF Begin, InHand, Command, IInv, WellTyped
<1>2. stdout \in Seq(LineType) /\ verbose \in BOOLEAN
  BY DEF IInv, WellTyped
<1>3. /\ stdout' \in Seq(LineType)
      /\ verbose => Headed(stdout')
      /\ verbose /\ Command \in Lists => OpenFor(stdout', Command)
  <2>1. stdout' = stdout \o Heading
    BY DEF Begin
  <2>2. CASE Heading = <<>>
    <3>1. stdout' = stdout
      BY <1>2, <2>1, <2>2, ConcatEmptySeq
    <3>2. ~(verbose /\ Command \in Lists)
      BY <2>2 DEF Heading, Divider, Line
    <3> QED
      BY <1>2, <3>1, <3>2 DEF IInv
  <2>3. ASSUME verbose, Command \in Lists
        PROVE  Heading = <<Divider(Command)>>
    BY <2>3 DEF Heading, Lists
  <2>4. ASSUME verbose, Command \in Lists
        PROVE  /\ stdout' \in Seq(LineType)
               /\ Headed(stdout') /\ OpenFor(stdout', Command)
    <3>1. /\ Divider(Command) \in LineType
          /\ Divider(Command).tag = "divider" /\ Divider(Command).title = Command
      BY <1>1 DEF Divider, Line, LineType, Titles, Tags
    <3>2. <<Divider(Command)>> \in Seq(LineType)
      BY <3>1
    <3> QED
      BY <1>2, <2>1, <2>3, <2>4, <3>1, <3>2, HeadingOpens, ConcatProperties DEF IInv
  <2>5. ASSUME Heading # <<>>, Command \notin Lists
        PROVE  stdout' \in Seq(LineType) /\ (verbose => Headed(stdout'))
    <3>1. PICK l \in {Line("Enabling QPUs", "switch", 1), Line("Disabling QPUs", "switch", 0)} :
            Heading = <<l>>
      BY <2>5 DEF Heading
    <3>2. "switch" \in Tags /\ {"Enabling QPUs", "Disabling QPUs"} \subseteq Titles
      BY DEF Tags, Titles
    <3>3. l \in LineType /\ l.tag = "switch"
      <4>1. CASE l = Line("Enabling QPUs", "switch", 1)
        BY <3>2, <4>1 DEF Line, LineType
      <4>2. CASE l = Line("Disabling QPUs", "switch", 0)
        BY <3>2, <4>2 DEF Line, LineType
      <4> QED
        BY <3>1, <4>1, <4>2
    <3>4. <<l>> \in Seq(LineType)
      BY <3>3, OneLine
    <3> QED
      BY <1>2, <2>1, <3>1, <3>3, <3>4, HeadingOpens, ConcatProperties DEF IInv
  <2>6. verbose \/ Heading = <<>>
    BY DEF Heading
  <2> QED
    BY <2>2, <2>4, <2>5, <2>6
<1>4. WellTyped'
  BY <1>1, <1>3 DEF IInv, WellTyped
<1>5. RequestInHand'
  <2>1. \A cmd \in Commands : Len(Requests(cmd)) \in 1 .. 14
    BY RequestsShape
  <2> DEFINE n == Len(Requests(Command))
  <2> HIDE DEF n
  <2>2. n \in 1 .. 14
    BY <1>1, <2>1 DEF n
  <2>3. 1 <= n
    BY <2>2
  <2>4. Requests(Command)' = Requests(Command)
    BY <1>1 DEF Command
  <2> QED
    BY <1>1, <2>3, <2>4 DEF n, RequestInHand
<1>6. SentBound'
  BY <1>1 DEF IInv, WellTyped, SentBound
<1>7. Follows'
  BY <1>1 DEF IInv, Follows, LastSwitch, Command
<1>9. ASSUME verbose
      PROVE  ToldLast(stdout', args', Entered')
  <2>1. PICK n : n = optind - 1
    OBVIOUS
  <2>2. /\ n \in Nat /\ optind = n + 1 /\ Command = args[n + 1]
        /\ Entered = n /\ Entered' = n + 1 /\ args' = args
    BY <1>1, <2>1 DEF Entered, Command
  <2>3. ToldLast(stdout, args, n) /\ stdout' = stdout \o Heading
    BY <1>9, <2>2 DEF IInv, Begin
  <2>4. CASE Command \in Switches
    <3>1. PICK l : Heading = <<l>> /\ l = IF Command = "enable"
                                          THEN Line("Enabling QPUs", "switch", 1)
                                          ELSE Line("Disabling QPUs", "switch", 0)
      BY <1>9, <2>4 DEF Heading, Switches, Lists
    <3>2. "switch" \in Tags /\ {"Enabling QPUs", "Disabling QPUs"} \subseteq Titles
      BY DEF Tags, Titles
    <3>3. l \in LineType /\ l.tag = "switch" /\ (l.id = 1 <=> Command = "enable")
      <4>1. CASE Command = "enable"
        <5>1. l = Line("Enabling QPUs", "switch", 1)
          BY <3>1, <4>1
        <5> QED
          BY <3>2, <4>1, <5>1 DEF Line, LineType
      <4>2. CASE Command # "enable"
        <5>1. l = Line("Disabling QPUs", "switch", 0)
          BY <3>1, <4>2
        <5>2. l \in LineType /\ l.tag = "switch" /\ l.id = 0
          BY <3>2, <5>1 DEF Line, LineType
        <5>3. 0 # 1
          OBVIOUS
        <5> QED
          BY <4>2, <5>2, <5>3
      <4> QED
        BY <4>1, <4>2
    <3>4. ToldLast(stdout \o <<l>>, args, n + 1)
      BY <1>2, <2>2, <2>4, <3>3, AnnouncedMore
    <3> QED
      BY <2>2, <2>3, <3>1, <3>4
  <2>5. CASE Command \notin Switches
    <3>1. Heading = <<>> \/ Heading = <<Divider(Command)>>
      BY <1>9, <2>5 DEF Heading, Switches
    <3>2. Divider(Command) \in LineType /\ Divider(Command).tag # "switch"
      BY <1>1 DEF Divider, Line, LineType, Titles, Tags
    <3>3. PICK t : t = Heading
      OBVIOUS
    <3>4. t \in Seq(LineType) /\ \A i \in 1 .. Len(t) : t[i].tag # "switch"
      <4>1. CASE t = <<>>
        BY <4>1
      <4>2. CASE t = <<Divider(Command)>>
        BY <3>2, <4>2, OneLine
      <4> QED
        BY <3>1, <3>3, <4>1, <4>2
    <3>5. args[n + 1] \notin Switches /\ n + 1 \in Nat
      BY <2>2, <2>5
    <3>6. ToldLast(stdout \o t, args, n + 1)
      <4>1. PICK m : m = n + 1
        OBVIOUS
      <4>2. m \in Nat /\ (m = n \/ (m = n + 1 /\ args[m] \notin Switches))
        BY <3>5, <4>1
      <4>3. ToldLast(stdout \o t, args, m)
        BY <1>2, <2>2, <2>3, <3>4, <4>2, AnnouncedKept
      <4> QED
        BY <4>1, <4>3
    <3> QED
      BY <2>2, <2>3, <3>3, <3>6
  <2> QED
    BY <2>4, <2>5
<1>8. SectionOpen'
  BY <1>1, <1>3 DEF SectionOpen
<1> QED
  BY <1>1, <1>3, <1>4, <1>5, <1>6, <1>7, <1>8, <1>9 DEF IInv

\* An answer: its lines belong to the section of the command in hand.
LEMMA AnsweredIInv == ASSUME IInv, Answered PROVE IInv'
<1>1. /\ status = "running" /\ optind \in 1 .. Len(args) /\ request > 0
      /\ Command \in Commands /\ request \in 1 .. Len(Requests(Command))
      /\ sent' = sent + 1 /\ ~refused
      /\ UNCHANGED <<args, verbose, status, refused, others, left>>
  BY DEF Answered, Asking, InHand, IInv, WellTyped, RequestInHand, SentBound
<1>2. Len(Requests(Command)) \in 1 .. 14
  <2>1. \A cmd \in Commands : Len(Requests(cmd)) \in 1 .. 14
    BY RequestsShape
  <2> QED
    BY <1>1, <2>1
<1>3. /\ Requests(Command)[request] \in Seq(LineType)
      /\ Command \in Informing =>
           \A i \in 1 .. Len(Requests(Command)[request]) :
             Requests(Command)[request][i].tag \in TagsOf[Command]
  <2>1. \A cmd \in Commands : \A r \in 1 .. Len(Requests(cmd)) :
          /\ Requests(cmd)[r] \in Seq(LineType)
          /\ cmd \in Informing =>
               \A i \in 1 .. Len(Requests(cmd)[r]) : Requests(cmd)[r][i].tag \in TagsOf[cmd]
    BY RequestsShape
  <2> QED
    BY <1>1, <2>1
<1>4. stdout \in Seq(LineType) /\ verbose \in BOOLEAN
  BY DEF IInv, WellTyped
<1>5. /\ stdout' \in Seq(LineType)
      /\ verbose => Headed(stdout')
      /\ verbose /\ Command \in Informing => OpenFor(stdout', Command)
  <2> DEFINE lines == Requests(Command)[request]
             head  == <<Divider(Command)>>
  <2>1. stdout' = stdout \o Answer
    BY DEF Answered
  <2>2. /\ Divider(Command) \in LineType
        /\ Divider(Command).tag = "divider" /\ Divider(Command).title = Command
    BY <1>1 DEF Divider, Line, LineType, Titles, Tags
  <2>3. head \in Seq(LineType)
    BY <2>2
  <2> HIDE DEF lines
  <2>4. lines \in Seq(LineType)
    BY <1>3 DEF lines
  <2>5. CASE verbose /\ Command \in Singles
    <3>1. stdout' = (stdout \o head) \o lines
      <4>1. Answer = head \o lines
        BY <2>5 DEF Answer, lines
      <4> QED
        BY <1>4, <2>1, <2>3, <2>4, <4>1, ConcatAssociative
    <3>2. stdout \o head \in Seq(LineType)
      BY <1>4, <2>3, ConcatProperties
    <3>3. Headed(stdout \o head) /\ OpenFor(stdout \o head, Command)
      BY <1>4, <2>2, <2>5, HeadingOpens DEF IInv
    <3>4. Command \in Informing
      BY <2>5 DEF Informing
    <3>5. \A i \in 1 .. Len(lines) : lines[i].tag \in TagsOf[Command]
      BY <1>3, <3>4 DEF lines
    <3> HIDE DEF head
    <3> QED
      BY <2>4, <3>1, <3>2, <3>3, <3>4, <3>5, SectionGrows, ConcatProperties
  <2>6. CASE ~(verbose /\ Command \in Singles)
    <3>1. stdout' = stdout \o lines
      BY <2>1, <2>4, <2>6, ConcatEmptySeq DEF Answer, lines
    <3>2. stdout' \in Seq(LineType)
      BY <1>4, <2>4, <3>1, ConcatProperties
    <3>3. CASE verbose /\ Command \in Lists
      <4>1. Headed(stdout) /\ OpenFor(stdout, Command) /\ Command \in Informing
        BY <1>1, <3>3 DEF IInv, SectionOpen, Informing
      <4>2. \A i \in 1 .. Len(lines) : lines[i].tag \in TagsOf[Command]
        BY <1>3, <4>1 DEF lines
      <4> QED
        BY <1>4, <2>4, <3>1, <3>2, <4>1, <4>2, SectionGrows
    <3>4. CASE verbose /\ Command \in Switches
      <4>1. lines = <<>>
        <5>1. \A cmd \in Switches :
                cmd \in Commands => Len(Requests(cmd)) = 1 /\ Requests(cmd)[1] = <<>>
          BY RequestsShape DEF Switches, Lists
        <5> QED
          BY <1>1, <3>4, <5>1 DEF lines
      <4>2. stdout' = stdout /\ Command \notin Informing
        BY <1>4, <3>1, <3>4, <4>1, ConcatEmptySeq DEF Switches, Informing, Lists, Singles
      <4> QED
        BY <3>2, <3>4, <4>2 DEF IInv
    <3> QED
      BY <1>1, <1>4, <2>6, <3>2, <3>3, <3>4 DEF Commands
  <2> QED
    BY <2>5, <2>6
<1>6. \/ /\ request < Len(Requests(Command))
         /\ request' = request + 1 /\ optind' = optind /\ Command' = Command
      \/ /\ request = Len(Requests(Command))
         /\ request' = 0 /\ optind' = optind + 1
  <2>1. Advance
    BY DEF Answered
  <2> QED
    BY <1>1, <1>2, <2>1 DEF Advance, Command
<1>7. qpus' = Switched /\ qpus' \in BOOLEAN
  BY DEF Answered, Switched, IInv, WellTyped
<1>8. WellTyped'
  BY <1>1, <1>2, <1>5, <1>6, <1>7 DEF IInv, WellTyped
<1>9. RequestInHand'
  BY <1>1, <1>2, <1>6 DEF RequestInHand, Command
<1>10. SentBound'
  <2>1. sent <= 14 * (optind - 1) + request - 1 /\ sent \in Nat
    BY <1>1 DEF IInv, WellTyped, SentBound
  <2>2. CASE request' = request + 1 /\ optind' = optind
    BY <1>1, <2>1, <2>2 DEF SentBound
  <2>3. CASE request' = 0 /\ optind' = optind + 1
    <3> DEFINE n == Len(Requests(Command))
    <3> HIDE DEF n
    <3>1. request <= 14 /\ optind \in Nat /\ request \in Nat
      <4>1. request \in 1 .. n /\ n \in 1 .. 14 /\ optind \in 1 .. Len(args)
        BY <1>1, <1>2 DEF n
      <4> QED
        BY <4>1
    <3>2. 14 * (optind' - 1) + request' = 14 * (optind - 1) + 14
      BY <2>3, <3>1
    <3>3. sent' <= 14 * (optind' - 1) + request'
      BY <1>1, <2>1, <3>1, <3>2
    <3> QED
      BY <1>1, <2>3, <3>3 DEF SentBound
  <2> QED
    BY <1>6, <2>2, <2>3
<1>11. Follows'
  <2>1. PICK n, m, o : n = optind - 1 /\ m = optind' - 1 /\ o = left.place + 1
    OBVIOUS
  <2>2. /\ n \in Nat /\ optind = n + 1 /\ o \in 1 .. n + 1 /\ Command = args[n + 1]
        /\ m = n \/ m = n + 1
        /\ left' = left /\ args' = args
    BY <1>1, <1>6, <2>1 DEF Command, IInv, WellTyped
  <2>3. CASE Command \in Switches
    <3>1. m = n + 1
      <4>1. \A cmd \in Switches : cmd \in Commands => Len(Requests(cmd)) = 1
        BY RequestsShape DEF Switches, Lists
      <4>2. Len(Requests(Command)) = 1
        BY <1>1, <2>3, <4>1
      <4>3. optind' = optind + 1
        BY <1>1, <1>6, <4>2
      <4> QED
        BY <2>1, <2>2, <4>3
    <3>2. qpus' <=> args[m] = "enable"
      BY <1>7, <2>2, <2>3, <3>1 DEF Switched
    <3>3. m \in o .. m /\ args[m] \in Switches /\ \A j \in m + 1 .. m : FALSE
      BY <2>2, <2>3, <3>1
    <3> QED
      BY <2>1, <2>2, <3>2, <3>3 DEF Follows, LastSwitch
  <2>4. CASE Command \notin Switches
    <3>1. qpus' = qpus
      BY <1>7, <2>4 DEF Switched
    <3>2. \A j \in n + 1 .. m : args[j] \notin Switches
      BY <2>2, <2>4
    <3>3. CASE \E k \in o .. n : LastSwitch(k, n) /\ (qpus <=> args[k] = "enable")
      <4>1. PICK k \in o .. n : LastSwitch(k, n) /\ (qpus <=> args[k] = "enable")
        BY <3>3
      <4>2. k \in o .. m
        BY <2>2
      <4>3. \A j \in k + 1 .. m : args[j] \notin Switches
        BY <2>2, <3>2, <4>1 DEF LastSwitch
      <4> QED
        BY <2>1, <2>2, <3>1, <4>1, <4>2, <4>3 DEF Follows, LastSwitch
    <3>4. CASE (\A k \in o .. n : args[k] \notin Switches) /\ (qpus <=> left.on)
      <4>1. \A k \in o .. m : args[k] \notin Switches
        BY <2>2, <3>2, <3>4
      <4> QED
        BY <2>1, <2>2, <3>1, <3>4, <4>1 DEF Follows
    <3> QED
      BY <1>1, <2>1, <3>3, <3>4 DEF IInv, Follows
  <2> QED
    BY <2>3, <2>4
<1>13. ASSUME verbose
       PROVE  ToldLast(stdout', args', Entered')
  <2>1. PICK t : t = Answer
    OBVIOUS
  <2>2. t \in Seq(LineType) /\ \A i \in 1 .. Len(t) : t[i].tag # "switch"
    <3>1. PICK lines : lines = Requests(Command)[request]
      OBVIOUS
    <3>2. lines \in Seq(LineType) /\ \A i \in 1 .. Len(lines) : lines[i].tag # "switch"
      <4>1. CASE Command \in Informing
        <5>1. "switch" \notin TagsOf[Command]
          BY <4>1 DEF Informing, Lists, Singles, TagsOf
        <5> QED
          BY <1>3, <3>1, <4>1, <5>1
      <4>2. CASE Command \in Switches
        <5>1. \A cmd \in Switches :
                cmd \in Commands => Len(Requests(cmd)) = 1 /\ Requests(cmd)[1] = <<>>
          BY RequestsShape DEF Switches, Lists
        <5>2. lines = <<>>
          BY <1>1, <3>1, <4>2, <5>1
        <5> QED
          BY <5>2
      <4> QED
        BY <1>1, <4>1, <4>2 DEF Commands, Informing
    <3>3. PICK head : t = head \o lines /\ (head = <<>> \/ head = <<Divider(Command)>>)
      BY <2>1, <3>1 DEF Answer
    <3>4. head \in Seq(LineType) /\ \A i \in 1 .. Len(head) : head[i].tag # "switch"
      <4>1. Divider(Command) \in LineType /\ Divider(Command).tag # "switch"
        BY <1>1 DEF Divider, Line, LineType, Titles, Tags
      <4>2. CASE head = <<>>
        BY <4>2
      <4>3. CASE head = <<Divider(Command)>>
        BY <4>1, <4>3, OneLine
      <4> QED
        BY <3>3, <4>2, <4>3
    <3>5. /\ t \in Seq(LineType) /\ Len(t) = Len(head) + Len(lines)
          /\ \A i \in 1 .. Len(head) : t[i] = head[i]
          /\ \A i \in Len(head) + 1 .. Len(head) + Len(lines) : t[i] = lines[i - Len(head)]
          /\ Len(head) \in Nat /\ Len(lines) \in Nat
      BY <3>2, <3>3, <3>4, ConcatProperties, LenProperties
    <3>6. ASSUME NEW i \in 1 .. Len(t)
          PROVE  t[i].tag # "switch"
      <4>1. CASE i <= Len(head)
        BY <3>4, <3>5, <4>1
      <4>2. CASE i > Len(head)
        <5>1. i - Len(head) \in 1 .. Len(lines) /\ t[i] = lines[i - Len(head)]
          BY <3>5, <4>2
        <5> QED
          BY <3>2, <5>1
      <4> QED
        BY <3>5, <4>1, <4>2
    <3> QED
      BY <3>5, <3>6
  <2>3. Entered \in Nat /\ Entered' = Entered /\ args' = args
    BY <1>1, <1>6 DEF Entered
  <2>4. ToldLast(stdout, args, Entered)
    BY <1>13 DEF IInv
  <2>5. PICK n : n = Entered
    OBVIOUS
  <2>6. ToldLast(stdout \o t, args, n)
    BY <1>4, <2>2, <2>3, <2>4, <2>5, AnnouncedKept
  <2> QED
    BY <2>1, <2>3, <2>5, <2>6 DEF Answered
<1>12. SectionOpen'
  <2>1. Command \in Lists => Command \in Informing
    BY DEF Informing
  <2> QED
    BY <1>1, <1>5, <1>6, <2>1 DEF SectionOpen
<1> QED
  BY <1>1, <1>5, <1>8, <1>9, <1>10, <1>11, <1>12, <1>13 DEF IInv

\* A refused request ends the process where it stands.
LEMMA RefusedIInv == ASSUME IInv, Refused PROVE IInv'
<1>1. /\ optind <= Len(args) /\ request > 0 /\ ~refused /\ refused' = TRUE
      /\ sent' = sent + 1 /\ status' = "FAILURE"
      /\ UNCHANGED <<args, verbose, optind, request, stdout, others, left>>
  BY DEF Refused, Fail, Asking, InHand, IInv, WellTyped, SentBound
<1>2. qpus' \in BOOLEAN
  BY DEF Refused, Switched, IInv, WellTyped
<1>3. WellTyped'
  BY <1>1, <1>2 DEF IInv, WellTyped
<1>4. /\ RequestInHand' /\ SectionOpen'
      /\ (verbose => Headed(stdout) /\ ToldLast(stdout, args, Entered))'
  <2>1. RequestInHand'
    BY <1>1 DEF IInv, RequestInHand, Command
  <2>2. SectionOpen'
    BY <1>1 DEF IInv, SectionOpen, Command, OpenFor
  <2>3. (verbose => Headed(stdout))'
    BY <1>1 DEF IInv, Headed
  <2>4. (verbose => ToldLast(stdout, args, Entered))'
    BY <1>1 DEF IInv, ToldLast, Entered
  <2> QED
    BY <2>1, <2>2, <2>3, <2>4
<1>5. SentBound'
  BY <1>1 DEF IInv, WellTyped, SentBound
<1>6. Follows'
  <2>1. CASE qpus' = qpus
    BY <1>1, <2>1 DEF IInv, Follows, LastSwitch
  <2>2. CASE qpus' # qpus
    <3>1. Command \in Switches /\ (qpus' <=> Command = "enable")
      BY <2>2 DEF Refused, Switched
    <3>2. Command' = Command
      BY <1>1 DEF Command
    <3> QED
      BY <1>1, <3>1, <3>2 DEF Follows
  <2> QED
    BY <2>1, <2>2
<1> QED
  BY <1>3, <1>4, <1>5, <1>6 DEF IInv

\* Every step keeps the invariant.
LEMMA NextIInv == ASSUME IInv, [Next]_vars PROVE IInv'
<1>1. CASE Reject
  <2>1. /\ UNCHANGED <<args, verbose, optind, request, stdout, sent, refused, qpus, others, left>>
        /\ status = "running" /\ status' = "FAILURE"
    BY <1>1 DEF Reject, Fail
  <2> QED
    BY <2>1, Elsewhere DEF IInv, WellTyped, SentBound
<1>2. CASE Finish
  <2>1. /\ UNCHANGED <<args, verbose, optind, request, stdout, sent, refused, qpus, others, left>>
        /\ status = "running" /\ status' = "SUCCESS"
    BY <1>2 DEF Finish
  <2> QED
    BY <2>1, Elsewhere DEF IInv, WellTyped, SentBound
<1>3. CASE OtherSwitches
  <2>1. /\ UNCHANGED <<args, verbose, optind, request, stdout, sent, refused, status>>
        /\ others' = others + 1 /\ qpus' = ~qpus
        /\ left' = [place |-> optind - 1, on |-> qpus']
    BY <1>3 DEF OtherSwitches, process
  <2>2. others' \in Nat /\ qpus' \in BOOLEAN
    BY <2>1 DEF IInv, WellTyped
  <2> QED
    BY <2>1, <2>2, Elsewhere DEF IInv, WellTyped
<1>4. CASE UNCHANGED vars
  BY <1>4, Elsewhere DEF vars, process, IInv, WellTyped
<1> QED
  BY <1>1, <1>2, <1>3, <1>4, BeginIInv, AnsweredIInv, RefusedIInv DEF Next, Program, Terminated

-----------------------------------------------------------------------------
(* The theorems                                                            *)

\* Every state of every command line satisfies the inductive invariant.
THEOREM Invariant == Spec => []IInv
<1>1. Init => IInv
  BY InitIInv
<1>2. IInv /\ [Next]_vars => IInv'
  BY NextIInv
<1> QED
  BY <1>1, <1>2, PTL DEF Spec

\* Type correctness: the loop of command_firmware stays in its arguments and a
\* command in its requests, of which a line of MaxArgs sends at most 14 * MaxArgs.
THEOREM TypeCorrect == Spec => []TypeOK
<1>1. IInv => TypeOK
  <2> SUFFICES ASSUME IInv PROVE TypeOK
    OBVIOUS
  <2>1. request > 0 => /\ optind <= Len(args) /\ Command \in Commands
                       /\ request <= 14
    <3>1. \A cmd \in Commands : Len(Requests(cmd)) \in 1 .. 14
      BY RequestsShape
    <3>2. request > 0 => /\ optind <= Len(args) /\ Command \in Commands
                         /\ request <= Len(Requests(Command)) /\ request \in Nat
      BY DEF IInv, WellTyped, RequestInHand
    <3>3. Command \in Commands => Len(Requests(Command)) \in 1 .. 14
      BY <3>1
    <3> DEFINE n == Len(Requests(Command))
    <3> HIDE DEF n
    <3>4. request > 0 => request \in Nat /\ request <= n /\ n \in 1 .. 14
      BY <3>2, <3>3 DEF n
    <3>5. request > 0 => request <= 14
      BY <3>4
    <3> QED
      BY <3>2, <3>5
  <2>2. request \in 0 .. 14
    BY <2>1 DEF IInv, WellTyped
  <2>3. sent <= 14 * MaxArgs
    <3>1. sent <= 14 * Len(args)
      BY <2>1, <2>2 DEF IInv, WellTyped, SentBound
    <3>2. Len(args) \in Nat /\ Len(args) <= MaxArgs
      BY DEF IInv, WellTyped
    <3> QED
      BY <3>1, <3>2, BoundsAssumption DEF IInv, WellTyped
  <2>4. "?" \notin Commands
    BY DEF Commands, Switches, Lists, Singles
  <2> QED
    BY <2>1, <2>2, <2>3, <2>4, BoundsAssumption DEF IInv, WellTyped, TypeOK
<1> QED
  BY <1>1, Invariant, PTL

\* At every moment, with any number of other users of the switch in between
\* and whatever request has failed: the QPUs are as the last enable or disable
\* carried out or another process has left them, unless the request for the
\* switch itself failed, and under -v the last announcement is that of the last
\* switch command entered.
THEOREM Switching == Spec => []SwitchFollows
<1>1. IInv => SwitchFollows
  BY DEF IInv, Follows, ToldLast, SwitchFollows, LastSwitch, LastAnnounced
<1> QED
  BY <1>1, Invariant, PTL

\* Under -v every line of a report stands below its own command's heading.
THEOREM Sections == Spec => []UnderOwnHeading
<1>1. IInv => UnderOwnHeading
  <2> SUFFICES ASSUME IInv PROVE UnderOwnHeading
    OBVIOUS
  <2>1. DOMAIN stdout = 1 .. Len(stdout)
    BY LenProperties DEF IInv, WellTyped
  <2> QED
    BY <2>1 DEF IInv, UnderOwnHeading, Headed
<1> QED
  BY <1>1, Invariant, PTL

\* The first refused request is the last one sent, nothing is written after
\* it, and it is reported.
THEOREM FirstFailureEnds == Spec => StopsAtFirstFailure
<1>1. IInv /\ [Next]_vars =>
        [refused => status = "FAILURE" /\ UNCHANGED <<sent, stdout, optind>>]_vars
  <2> SUFFICES ASSUME IInv, Next, refused
               PROVE  status = "FAILURE" /\ UNCHANGED <<sent, stdout, optind>>
    OBVIOUS
  <2>1. status = "FAILURE"
    BY DEF IInv, SentBound
  <2>2. Terminated
    BY <2>1 DEF Next, Program, Reject, Begin, Answered, Refused, Finish, Asking, InHand,
                OtherSwitches
  <2> QED
    BY <2>1, <2>2 DEF Terminated, vars, process
<1> QED
  BY <1>1, Invariant, PTL DEF Spec, StopsAtFirstFailure

-----------------------------------------------------------------------------
(* Induction over numbers and what FlattenSeq returns                      *)

\* A set that holds 0 and with each number the next one holds them all.
LEMMA NumbersAll ==
  ASSUME NEW S, 0 \in S, \A n \in Nat : n \in S => n + 1 \in S
  PROVE  \A n \in Nat : n \in S
<1> DEFINE bad == {n \in Nat : n \notin S}
<1>1. SUFFICES ASSUME bad # {} PROVE FALSE
  OBVIOUS
<1>2. bad \subseteq Nat
  OBVIOUS
<1>3. PICK n \in bad : \A m \in bad : ~(<<m, n>> \in OpToRel(<, Nat))
  <2> HIDE DEF bad
  <2>1. QED
    BY <1>1, <1>2, NatLessThanWellFounded, WFMin
<1>4. n \in Nat /\ n # 0 /\ n - 1 \in Nat /\ n - 1 < n /\ (n - 1) + 1 = n
  OBVIOUS
<1>5. n - 1 \in bad
  BY <1>4
<1>6. <<n - 1, n>> \in OpToRel(<, Nat)
  BY <1>4 DEF OpToRel
<1> QED
  BY <1>3, <1>5, <1>6

\* f joins the first n sequences of ss as FlattenSeq does.
Joins(f, ss, n) == f = [i \in 1 .. n |-> IF i = 1 THEN ss[i] ELSE f[i-1] \o ss[i]]

\* There is such a function for every n.
LEMMA JoinsExist == \A ss : \A n \in Nat : \E f : Joins(f, ss, n)
<1> TAKE ss
<1> DEFINE S == {n \in Nat : \E f : Joins(f, ss, n)}
<1>1. 0 \in S
  <2>1. Joins(<<>>, ss, 0)
    BY DEF Joins
  <2> QED
    BY <2>1
<1>2. ASSUME NEW n \in Nat, n \in S
      PROVE  n + 1 \in S
  <2>1. PICK f : Joins(f, ss, n)
    BY <1>2
  <2> DEFINE g == [i \in 1 .. n + 1 |->
                     IF i = n + 1 THEN (IF i = 1 THEN ss[i] ELSE f[n] \o ss[i]) ELSE f[i]]
  <2>2. \A i \in 1 .. n : f[i] = IF i = 1 THEN ss[i] ELSE f[i-1] \o ss[i]
    BY <2>1 DEF Joins
  <2>3. ASSUME NEW i \in 1 .. n + 1
        PROVE  g[i] = IF i = 1 THEN ss[i] ELSE g[i-1] \o ss[i]
    <3>1. CASE i = n + 1
      BY <3>1
    <3>2. CASE i # n + 1
      <4>1. i \in 1 .. n /\ g[i] = f[i] /\ (i # 1 => i - 1 \in 1 .. n /\ g[i-1] = f[i-1])
        BY <3>2
      <4> QED
        BY <2>2, <4>1
    <3> QED
      BY <3>1, <3>2
  <2>4. g = [i \in 1 .. n + 1 |-> g[i]]
    OBVIOUS
  <2>5. Joins(g, ss, n + 1)
    <3> HIDE DEF g
    <3> QED
      BY <2>3, <2>4 DEF Joins
  <2> QED
    BY <2>5
<1> QED
  <2> HIDE DEF S
  <2>1. \A n \in Nat : n \in S
    BY <1>1, <1>2, NumbersAll
  <2> QED
    BY <2>1 DEF S

\* The first n elements of ss and tt are the same.
SamePrefix(ss, tt, n) == \A i \in 1 .. n : ss[i] = tt[i]

\* Functions that join the same sequences agree where both do.
LEMMA JoinsAgree ==
  ASSUME NEW ss, NEW tt, NEW f, NEW g, NEW m \in Nat, NEW n \in Nat, m <= n,
         SamePrefix(ss, tt, m), Joins(f, ss, m), Joins(g, tt, n)
  PROVE  SamePrefix(f, g, m)
<1> DEFINE S == {i \in Nat : i \in 1 .. m => f[i] = g[i]}
<1>1. /\ \A i \in 1 .. m : f[i] = IF i = 1 THEN ss[i] ELSE f[i-1] \o ss[i]
      /\ \A i \in 1 .. m : g[i] = IF i = 1 THEN tt[i] ELSE g[i-1] \o tt[i]
  <2>1. \A i \in 1 .. n : g[i] = IF i = 1 THEN tt[i] ELSE g[i-1] \o tt[i]
    BY DEF Joins
  <2>2. \A i \in 1 .. m : f[i] = IF i = 1 THEN ss[i] ELSE f[i-1] \o ss[i]
    BY DEF Joins
  <2>3. \A i \in 1 .. m : i \in 1 .. n
    OBVIOUS
  <2> QED
    BY <2>1, <2>2, <2>3
<1>2. 0 \in S
  OBVIOUS
<1>3. ASSUME NEW i \in Nat, i \in S
      PROVE  i + 1 \in S
  <2>1. CASE i + 1 \in 1 .. m /\ i = 0
    BY <1>1, <2>1 DEF SamePrefix
  <2>2. CASE i + 1 \in 1 .. m /\ i # 0
    <3>1. i \in 1 .. m /\ f[i] = g[i] /\ (i + 1) - 1 = i
      BY <1>3, <2>2
    <3>2. PICK j : j = i + 1
      OBVIOUS
    <3>3. j \in 1 .. m /\ j # 1 /\ j - 1 = i
      BY <2>2, <3>2
    <3>4. f[j] = f[i] \o ss[j] /\ g[j] = g[i] \o tt[j]
      BY <1>1, <3>3
    <3>5. ss[j] = tt[j]
      BY <3>3 DEF SamePrefix
    <3>6. f[j] = g[j]
      BY <3>1, <3>4, <3>5
    <3> QED
      BY <3>2, <3>6
  <2> QED
    BY <2>1, <2>2
<1> QED
  <2> HIDE DEF S
  <2>1. \A i \in Nat : i \in S
    BY <1>2, <1>3, NumbersAll
  <2> QED
    BY <2>1 DEF S, SamePrefix

\* What FlattenSeq is made of.
LEMMA Flattened ==
  ASSUME NEW ss, Len(ss) \in Nat \ {0}
  PROVE  \E f : Joins(f, ss, Len(ss)) /\ FlattenSeq(ss) = f[Len(ss)]
<1>1. \E f : f = [i \in 1 .. Len(ss) |-> IF i = 1 THEN ss[i] ELSE f[i-1] \o ss[i]]
  BY JoinsExist DEF Joins
<1> QED
  BY <1>1 DEF FlattenSeq, Joins

\* Flattening one sequence more appends it.
LEMMA FlattenMore ==
  ASSUME NEW X, NEW ss \in Seq(Seq(X)), NEW tt \in Seq(Seq(X)), Len(tt) = Len(ss) + 1,
         \A i \in 1 .. Len(ss) : tt[i] = ss[i]
  PROVE  FlattenSeq(tt) = FlattenSeq(ss) \o tt[Len(tt)]
<1>1. PICK m : m = Len(ss)
  OBVIOUS
<1>2. m \in Nat /\ Len(tt) = m + 1 /\ Len(ss) = m
  BY <1>1
<1>3. PICK g : Joins(g, tt, m + 1) /\ FlattenSeq(tt) = g[m + 1]
  BY <1>2, Flattened
<1>4. g[m + 1] = IF m + 1 = 1 THEN tt[m + 1] ELSE g[m] \o tt[m + 1]
  <2>1. m + 1 \in 1 .. m + 1 /\ (m + 1) - 1 = m
    BY <1>2
  <2> QED
    BY <1>3, <2>1 DEF Joins
<1>5. tt[m + 1] \in Seq(X)
  BY <1>2
<1>6. CASE m = 0
  <2>1. ss = <<>> /\ FlattenSeq(ss) = <<>>
    BY <1>2, <1>6 DEF FlattenSeq
  <2>2. <<>> \o tt[m + 1] = tt[m + 1]
    BY <1>5
  <2> QED
    BY <1>2, <1>3, <1>4, <1>6, <2>1, <2>2
<1>7. CASE m # 0
  <2>1. PICK f : Joins(f, ss, m) /\ FlattenSeq(ss) = f[m]
    BY <1>2, <1>7, Flattened
  <2>2. f[m] = g[m]
    <3>0. /\ m \in Nat /\ m + 1 \in Nat /\ m <= m + 1 /\ SamePrefix(ss, tt, m)
          /\ Joins(f, ss, m) /\ Joins(g, tt, m + 1)
      BY <1>2, <1>3, <2>1 DEF SamePrefix
    <3>1. SamePrefix(f, g, m)
      BY <3>0, JoinsAgree
    <3>2. m \in 1 .. m
      BY <1>2, <1>7
    <3> QED
      BY <3>1, <3>2 DEF SamePrefix
  <2>3. m + 1 # 1
    BY <1>2, <1>7
  <2>4. g[m + 1] = f[m] \o tt[m + 1]
    BY <1>4, <2>2, <2>3
  <2> QED
    BY <1>2, <1>3, <2>1, <2>4
<1> QED
  BY <1>6, <1>7

\* What is flattened is a sequence.
LEMMA FlattenType ==
  ASSUME NEW X, NEW ss \in Seq(Seq(X))
  PROVE  FlattenSeq(ss) \in Seq(X)
<1>1. CASE Len(ss) = 0
  <2>1. ss = <<>> /\ FlattenSeq(ss) = ss
    BY <1>1 DEF FlattenSeq
  <2>2. <<>> \in Seq(X)
    OBVIOUS
  <2> QED
    BY <2>1, <2>2
<1>2. CASE Len(ss) # 0
  <2>1. PICK m : m = Len(ss)
    OBVIOUS
  <2>2. m \in Nat \ {0} /\ \A i \in 1 .. m : ss[i] \in Seq(X)
    BY <1>2, <2>1
  <2>3. PICK f : Joins(f, ss, m) /\ FlattenSeq(ss) = f[m]
    BY <2>1, <2>2, Flattened
  <2> DEFINE S == {i \in Nat : i \in 1 .. m => f[i] \in Seq(X)}
  <2>4. 0 \in S
    OBVIOUS
  <2>5. ASSUME NEW i \in Nat, i \in S
        PROVE  i + 1 \in S
    <3>1. PICK j : j = i + 1
      OBVIOUS
    <3>2. CASE j \in 1 .. m
      <4>1. f[j] = IF j = 1 THEN ss[j] ELSE f[j - 1] \o ss[j]
        BY <2>3, <3>2 DEF Joins
      <4>2. j # 1 => f[j - 1] \in Seq(X)
        <5>1. j - 1 = i /\ (j # 1 => i \in 1 .. m)
          BY <2>2, <3>1, <3>2
        <5> QED
          BY <2>5, <5>1
      <4>3. ss[j] \in Seq(X)
        BY <2>2, <3>2
      <4>4. f[j] \in Seq(X)
        BY <4>1, <4>2, <4>3, ConcatProperties
      <4> QED
        BY <3>1, <4>4
    <3> QED
      BY <3>1, <3>2
  <2>6. \A i \in Nat : i \in S
    <3> HIDE DEF S
    <3> QED
      BY <2>4, <2>5, NumbersAll
  <2> QED
    BY <2>2, <2>3, <2>6
<1> QED
  BY <1>1, <1>2

-----------------------------------------------------------------------------
(* The devices of a list                                                   *)

\* The first n names with their numbers.
Numbered(n, first, names) == {<<i + first, names[i]>> : i \in 1 .. n}

\* They are n.
LEMMA NumberedNames ==
  ASSUME NEW n \in Nat, NEW first \in Int, NEW names
  PROVE  IsFiniteSet(Numbered(n, first, names)) /\ Cardinality(Numbered(n, first, names)) = n
<1> DEFINE T == {<<i + first, names[i]>> : i \in 1 .. n}
           f == [i \in 1 .. n |-> <<i + first, names[i]>>]
<1>1. f \in Bijection(1 .. n, T)
  <2>1. f \in [1 .. n -> T]
    OBVIOUS
  <2>2. \A i, j \in 1 .. n : f[i] = f[j] => i = j
    OBVIOUS
  <2>3. \A t \in T : \E i \in 1 .. n : f[i] = t
    OBVIOUS
  <2> QED
    BY <2>1, <2>2, <2>3 DEF Bijection, Injection, Surjection, IsInjective
<1>2. ExistsBijection(1 .. n, T)
  BY <1>1 DEF ExistsBijection
<1>3. IsFiniteSet(1 .. n) /\ Cardinality(1 .. n) = n
  BY FS_Interval
<1> HIDE DEF T
<1>4. IsFiniteSet(T) /\ Cardinality(T) = n
  BY <1>2, <1>3, FS_Bijection
<1> QED
  BY <1>4 DEF T, Numbered

\* Listed by id they come in the order of their numbers.
LEMMA NumberedById ==
  ASSUME NEW n \in Nat, NEW first \in Int, NEW names,
         NEW ds, ds = Numbered(n, first, names)
  PROVE  ById(ds) = [i \in 1 .. n |-> <<i + first, names[i]>>]
<1>1. Cardinality(ds) = n
  BY NumberedNames
<1>2. ASSUME NEW i \in 1 .. n
      PROVE  Cardinality({e \in ds : e[1] < i + first}) = i - 1
  <2>1. {e \in ds : e[1] < i + first} = Numbered(i - 1, first, names)
    BY DEF Numbered
  <2>2. i - 1 \in Nat
    OBVIOUS
  <2> QED
    BY <2>1, <2>2, NumberedNames
<1>3. ASSUME NEW i \in 1 .. n
      PROVE  (CHOOSE d \in ds : Cardinality({e \in ds : e[1] < d[1]}) = i - 1) = <<i + first, names[i]>>
  <2>1. ASSUME NEW d \in ds
        PROVE  Cardinality({e \in ds : e[1] < d[1]}) = i - 1 <=> d = <<i + first, names[i]>>
    <3>1. PICK j \in 1 .. n : d = <<j + first, names[j]>>
      BY DEF Numbered
    <3>2. d[1] = j + first /\ Cardinality({e \in ds : e[1] < j + first}) = j - 1
      BY <1>2, <3>1
    <3>3. Cardinality({e \in ds : e[1] < d[1]}) = j - 1
      BY <3>2
    <3> QED
      BY <3>1, <3>3
  <2>2. <<i + first, names[i]>> \in ds
    BY DEF Numbered
  <2> QED
    BY <2>1, <2>2
<1> QED
  BY <1>1, <1>3 DEF ById

\* What a line consists of.
LEMMA LineFields ==
  ASSUME NEW t, NEW g, NEW d
  PROVE  Line(t, g, d).title = t /\ Line(t, g, d).tag = g /\ Line(t, g, d).id = d
BY DEF Line

\* One line for each of the first n names.
Answers(n, first, names, tag) == [i \in 1 .. n |-> <<Line(names[i], tag, i + first)>>]

\* What the requests of a list are answered with: the id and the name of each
\* of its devices, in the order of the ids.
LEMMA ListAsked ==
  ASSUME NEW cmd \in Lists
  PROVE  /\ Asked(cmd) \in Seq(Nat \X Titles) /\ Len(Asked(cmd)) = Len(Requests(cmd))
         /\ \A r \in 1 .. Len(Requests(cmd)) :
              /\ Len(Requests(cmd)[r]) = 1
              /\ Requests(cmd)[r][1].tag \in ListTags
              /\ Asked(cmd)[r] = <<Requests(cmd)[r][1].id, Requests(cmd)[r][1].title>>
<1>1. ASSUME NEW n \in Nat, NEW first \in {0, -1}, NEW names, NEW tag \in ListTags,
             \A i \in 1 .. n : names[i] \in Titles,
             Devices[cmd] = Numbered(n, first, names),
             Requests(cmd) = Answers(n, first, names, tag)
      PROVE  /\ Asked(cmd) \in Seq(Nat \X Titles) /\ Len(Asked(cmd)) = Len(Requests(cmd))
             /\ \A r \in 1 .. Len(Requests(cmd)) :
                  /\ Len(Requests(cmd)[r]) = 1
                  /\ Requests(cmd)[r][1].tag \in ListTags
                  /\ Asked(cmd)[r] = <<Requests(cmd)[r][1].id, Requests(cmd)[r][1].title>>
  <2>1. Asked(cmd) = [i \in 1 .. n |-> <<i + first, names[i]>>]
    BY <1>1, NumberedById DEF Asked
  <2>2. \A i \in 1 .. n : <<i + first, names[i]>> \in Nat \X Titles
    BY <1>1
  <2>3. Asked(cmd) \in Seq(Nat \X Titles) /\ Len(Asked(cmd)) = n
    BY <2>1, <2>2
  <2>4. Len(Requests(cmd)) = n
    BY <1>1 DEF Answers
  <2>5. ASSUME NEW r \in 1 .. n
        PROVE  /\ Len(Requests(cmd)[r]) = 1
               /\ Requests(cmd)[r][1] = Line(names[r], tag, r + first)
    BY <1>1 DEF Answers
  <2>6. ASSUME NEW r \in 1 .. n
        PROVE  /\ Requests(cmd)[r][1].tag = tag
               /\ Asked(cmd)[r] = <<Requests(cmd)[r][1].id, Requests(cmd)[r][1].title>>
    <3>1. /\ Requests(cmd)[r][1].tag = tag /\ Requests(cmd)[r][1].id = r + first
          /\ Requests(cmd)[r][1].title = names[r]
      BY <2>5, LineFields
    <3>2. Asked(cmd)[r] = <<r + first, names[r]>>
      BY <2>1
    <3> QED
      BY <3>1, <3>2
  <2> QED
    BY <2>3, <2>4, <2>5, <2>6
<1>2. CASE cmd = "voltage"
  <2>1. (\A i \in 1 .. 4 : VoltageNames[i] \in Titles) /\ Len(VoltageNames) = 4
    <3>1. \A i \in 1 .. 4 : VoltageNames[i] \in Titles
      BY DEF Titles
    <3>2. Len(VoltageNames) = 4
      BY DEF VoltageNames
    <3> QED
      BY <3>1, <3>2
  <2>2. Devices["voltage"] = Numbered(4, 0, VoltageNames)
    <3>1. Numbered(4, 0, VoltageNames) = {<<i, VoltageNames[i]>> : i \in {1, 2, 3, 4}}
      BY DEF Numbered
    <3> QED
      BY <3>1 DEF Devices, VoltageNames
  <2>3. Requests(cmd) = Answers(4, 0, VoltageNames, "voltage")
    BY <1>2, <2>1 DEF Answers, Requests, Voltages, InfoVoltage
  <2>4. "voltage" \in ListTags
    BY DEF ListTags, TagsOf, Lists
  <2> QED
    BY <1>1, <1>2, <2>1, <2>2, <2>3, <2>4
<1>3. CASE cmd = "power"
  <2>1. (\A i \in 1 .. 9 : PowerNames[i] \in Titles) /\ Len(PowerNames) = 9
    <3>1. \A i \in 1 .. 9 : PowerNames[i] \in Titles
      BY DEF Titles
    <3>2. Len(PowerNames) = 9
      BY DEF PowerNames
    <3> QED
      BY <3>1, <3>2
  <2>2. Devices["power"] = Numbered(9, -1, PowerNames)
    <3>1. Numbered(9, -1, PowerNames) = {<<i - 1, PowerNames[i]>> : i \in {1, 2, 3, 4, 5, 6, 7, 8, 9}}
      BY DEF Numbered
    <3> QED
      BY <3>1 DEF Devices, PowerNames
  <2>3. Requests(cmd) = Answers(9, -1, PowerNames, "power")
    BY <1>3, <2>1 DEF Answers, Requests, Powers, InfoPower
  <2>4. "power" \in ListTags
    BY DEF ListTags, TagsOf, Lists
  <2> QED
    <3>1. PICK first : first = -1
      OBVIOUS
    <3>2. first \in {0, -1} /\ 9 \in Nat
      BY <3>1
    <3>3. /\ Devices[cmd] = Numbered(9, first, PowerNames)
          /\ Requests(cmd) = Answers(9, first, PowerNames, "power")
      BY <1>3, <2>2, <2>3, <3>1
    <3> QED
      BY <1>1, <2>1, <2>4, <3>2, <3>3
<1>4. CASE cmd = "clocks"
  <2>1. (\A i \in 1 .. 14 : ClockNames[i] \in Titles) /\ Len(ClockNames) = 14
    <3>1. \A i \in 1 .. 14 : ClockNames[i] \in Titles
      BY DEF Titles
    <3>2. Len(ClockNames) = 14
      BY DEF ClockNames
    <3> QED
      BY <3>1, <3>2
  <2>2. Devices["clocks"] = Numbered(14, 0, ClockNames)
    <3>1. Numbered(14, 0, ClockNames) =
            {<<i, ClockNames[i]>> : i \in {1, 2, 3, 4, 5, 6, 7, 8, 9, 10, 11, 12, 13, 14}}
      BY DEF Numbered
    <3> QED
      BY <3>1 DEF Devices, ClockNames
  <2>3. Requests(cmd) = Answers(14, 0, ClockNames, "clock")
    BY <1>4, <2>1 DEF Answers, Requests, Clocks, InfoClocks
  <2>4. "clock" \in ListTags
    BY DEF ListTags, TagsOf, Lists
  <2> QED
    BY <1>1, <1>4, <2>1, <2>2, <2>3, <2>4
<1> QED
  BY <1>2, <1>3, <1>4 DEF Lists

-----------------------------------------------------------------------------
(* Where the lines are                                                     *)

\* The places of the lines of s about tags.
Places(s, tags) == {i \in 1 .. Len(s) : s[i].tag \in tags}

\* The lines of s about devices are about those of r, one by one.
Reports(s, r) ==
  LET listed == Places(s, ListTags)
  IN  /\ Cardinality(listed) = Len(r)
      /\ \A i \in listed : <<s[i].id, s[i].title>> = r[Cardinality(listed \intersect 1 .. i)]

\* They are finitely many.
LEMMA PlacesFinite ==
  ASSUME NEW s \in Seq(LineType), NEW tags
  PROVE  IsFiniteSet(Places(s, tags)) /\ Cardinality(Places(s, tags)) \in Nat
<1>1. IsFiniteSet(1 .. Len(s))
  BY FS_Interval
<1>2. Places(s, tags) \subseteq 1 .. Len(s)
  BY DEF Places
<1> QED
  BY <1>1, <1>2, FS_Subset, FS_CardinalityType

\* What comes behind the lines that there are.
LEMMA LinesAdded ==
  ASSUME NEW s \in Seq(LineType), NEW t \in Seq(LineType)
  PROVE  /\ s \o t \in Seq(LineType) /\ Len(s \o t) = Len(s) + Len(t)
         /\ \A i \in 1 .. Len(s) : (s \o t)[i] = s[i]
         /\ \A i \in 1 .. Len(t) : (s \o t)[Len(s) + i] = t[i]
OBVIOUS

\* Lines about other things leave the places as they are.
LEMMA PlacesKept ==
  ASSUME NEW s \in Seq(LineType), NEW t \in Seq(LineType), NEW tags, Places(t, tags) = {}
  PROVE  Places(s \o t, tags) = Places(s, tags)
<1>1. /\ Len(s \o t) = Len(s) + Len(t)
      /\ \A i \in 1 .. Len(s) : (s \o t)[i] = s[i]
      /\ \A i \in 1 .. Len(t) : (s \o t)[Len(s) + i] = t[i]
  BY LinesAdded
<1>2. ASSUME NEW i \in 1 .. Len(s) + Len(t), i > Len(s)
      PROVE  (s \o t)[i].tag \notin tags
  <2>1. i - Len(s) \in 1 .. Len(t) /\ i = Len(s) + (i - Len(s))
    BY <1>2
  <2>2. (s \o t)[i] = t[i - Len(s)]
    BY <1>1, <2>1
  <2> QED
    BY <2>1, <2>2 DEF Places
<1> QED
  BY <1>1, <1>2 DEF Places

\* One line about them adds its place.
LEMMA PlacesMore ==
  ASSUME NEW s \in Seq(LineType), NEW t \in Seq(LineType), NEW tags,
         NEW j, Places(t, tags) = {j}
  PROVE  /\ Places(s \o t, tags) = Places(s, tags) \union {Len(s) + j}
         /\ Len(s) + j \notin Places(s, tags)
         /\ Cardinality(Places(s \o t, tags)) = Cardinality(Places(s, tags)) + 1
<1>1. /\ Len(s \o t) = Len(s) + Len(t)
      /\ \A i \in 1 .. Len(s) : (s \o t)[i] = s[i]
      /\ \A i \in 1 .. Len(t) : (s \o t)[Len(s) + i] = t[i]
  BY LinesAdded
<1>2. j \in 1 .. Len(t) /\ t[j].tag \in tags /\ Len(s) \in Nat
  BY DEF Places
<1>3. ASSUME NEW i \in 1 .. Len(s) + Len(t), i > Len(s)
      PROVE  (s \o t)[i].tag \in tags <=> i = Len(s) + j
  <2>1. i - Len(s) \in 1 .. Len(t) /\ i = Len(s) + (i - Len(s))
    BY <1>3
  <2>2. (s \o t)[i] = t[i - Len(s)]
    BY <1>1, <2>1
  <2>3. t[i - Len(s)].tag \in tags <=> i - Len(s) = j
    BY <2>1 DEF Places
  <2> QED
    BY <1>2, <2>1, <2>2, <2>3
<1>4. Places(s \o t, tags) = Places(s, tags) \union {Len(s) + j}
  <2>1. Len(s) + j \in 1 .. Len(s) + Len(t) /\ Len(s) + j > Len(s)
    BY <1>2
  <2>2. ASSUME NEW i \in 1 .. Len(s) + Len(t)
        PROVE  (s \o t)[i].tag \in tags <=> i = Len(s) + j \/ (i \in 1 .. Len(s) /\ s[i].tag \in tags)
    BY <1>1, <1>3, <2>1
  <2> QED
    BY <1>1, <2>1, <2>2 DEF Places
<1>5. Len(s) + j \notin Places(s, tags)
  BY <1>2 DEF Places
<1>6. Cardinality(Places(s, tags) \union {Len(s) + j}) = Cardinality(Places(s, tags)) + 1
  <2>1. PICK p : p = Places(s, tags)
    OBVIOUS
  <2>2. IsFiniteSet(p)
    BY <2>1, PlacesFinite
  <2>3. PICK x : x = Len(s) + j
    OBVIOUS
  <2>4. x \notin p
    BY <1>5, <2>1, <2>3
  <2>5. Cardinality(p \union {x}) = Cardinality(p) + 1
    BY <2>2, <2>4, FS_AddElement
  <2> QED
    BY <2>1, <2>3, <2>5
<1> QED
  BY <1>4, <1>5, <1>6

\* Lines about other things than devices leave the report as it is.
LEMMA ReportsKept ==
  ASSUME NEW s \in Seq(LineType), NEW t \in Seq(LineType), NEW r,
         Places(t, ListTags) = {}, Reports(s, r)
  PROVE  Reports(s \o t, r)
<1>1. Places(s \o t, ListTags) = Places(s, ListTags)
  BY PlacesKept
<1>2. \A i \in Places(s, ListTags) : (s \o t)[i] = s[i]
  BY DEF Places
<1> QED
  BY <1>1, <1>2 DEF Reports

\* A line about a device adds it to the report.
LEMMA ReportsMore ==
  ASSUME NEW s \in Seq(LineType), NEW t \in Seq(LineType), Len(t) = 1, t[1].tag \in ListTags,
         NEW r \in Seq(Nat \X Titles), Reports(s, r)
  PROVE  Reports(s \o t, Append(r, <<t[1].id, t[1].title>>))
<1>1. Places(t, ListTags) = {1}
  BY DEF Places
<1>2. PICK p : p = Places(s, ListTags)
  OBVIOUS
<1>3. PICK n : n = Len(s)
  OBVIOUS
<1>4. n \in Nat /\ p \subseteq 1 .. n /\ IsFiniteSet(p)
  <2>1. Len(s) \in Nat
    OBVIOUS
  <2>2. IsFiniteSet(p)
    BY <1>2, PlacesFinite
  <2>3. p \subseteq 1 .. Len(s)
    BY <1>2 DEF Places
  <2> QED
    BY <1>3, <2>1, <2>2, <2>3
<1>5. /\ Places(s \o t, ListTags) = p \union {n + 1} /\ Cardinality(p \union {n + 1}) = Cardinality(p) + 1
      /\ Cardinality(p) = Len(r) /\ Len(r) \in Nat
  <2>1. /\ Places(s \o t, ListTags) = Places(s, ListTags) \union {Len(s) + 1}
        /\ Cardinality(Places(s \o t, ListTags)) = Cardinality(Places(s, ListTags)) + 1
    <3>1. PICK g, j : g = ListTags /\ j = 1
      OBVIOUS
    <3>2. Places(t, g) = {j}
      BY <1>1, <3>1
    <3>3. /\ Places(s \o t, g) = Places(s, g) \union {Len(s) + j}
          /\ Cardinality(Places(s \o t, g)) = Cardinality(Places(s, g)) + 1
      BY <3>2, PlacesMore
    <3> QED
      BY <3>1, <3>3
  <2>2. Cardinality(p) = Len(r)
    BY <1>2 DEF Reports
  <2>3. Len(r) \in Nat
    OBVIOUS
  <2>4. Places(s \o t, ListTags) = p \union {n + 1}
    BY <1>2, <1>3, <2>1
  <2>5. Cardinality(p \union {n + 1}) = Cardinality(p) + 1
    BY <1>2, <2>1, <2>4
  <2> QED
    BY <2>2, <2>3, <2>4, <2>5
<1>6. ASSUME NEW i \in p
      PROVE  /\ (p \union {n + 1}) \intersect 1 .. i = p \intersect 1 .. i
             /\ Cardinality(p \intersect 1 .. i) \in 1 .. Len(r)
             /\ (s \o t)[i] = s[i]
             /\ <<s[i].id, s[i].title>> = r[Cardinality(p \intersect 1 .. i)]
  <2>1. i \in 1 .. n
    BY <1>4
  <2>2. (p \union {n + 1}) \intersect 1 .. i = p \intersect 1 .. i
    BY <1>4, <2>1
  <2>3. PICK q : q = p \intersect 1 .. i
    OBVIOUS
  <2>4. q \subseteq p
    BY <2>3
  <2>5. IsFiniteSet(q) /\ Cardinality(q) <= Cardinality(p)
    BY <1>4, <2>4, FS_Subset
  <2>6. Cardinality(q) \in Nat /\ Cardinality(q) # 0
    <3>1. i \in q
      BY <2>1, <2>3
    <3> QED
      BY <2>5, <3>1, FS_EmptySet, FS_CardinalityType
  <2>7. Cardinality(q) \in 1 .. Len(r)
    BY <1>5, <2>5, <2>6
  <2>8. (s \o t)[i] = s[i]
    BY <1>3, <2>1
  <2>9. <<s[i].id, s[i].title>> = r[Cardinality(p \intersect 1 .. i)]
    BY <1>2 DEF Reports
  <2> QED
    BY <2>2, <2>3, <2>7, <2>8, <2>9
<1>7. /\ (p \union {n + 1}) \intersect 1 .. n + 1 = p \union {n + 1}
      /\ (s \o t)[n + 1] = t[1]
  <2>1. (p \union {n + 1}) \intersect 1 .. n + 1 = p \union {n + 1}
    <3>1. \A i \in p \union {n + 1} : i \in 1 .. (n + 1)
      BY <1>4
    <3> QED
      BY <3>1
  <2>2. (s \o t)[Len(s) + 1] = t[1]
    <3>1. \A i \in 1 .. Len(t) : (s \o t)[Len(s) + i] = t[i]
      BY LinesAdded
    <3>2. 1 \in 1 .. Len(t)
      OBVIOUS
    <3> QED
      BY <3>1, <3>2
  <2> QED
    BY <1>3, <2>1, <2>2
<1>8. PICK d : d = <<t[1].id, t[1].title>>
  OBVIOUS
<1>9. /\ Len(Append(r, d)) = Len(r) + 1 /\ Append(r, d)[Len(r) + 1] = d
      /\ \A i \in 1 .. Len(r) : Append(r, d)[i] = r[i]
  <2>1. r \in Seq(Nat \X Titles)
    OBVIOUS
  <2> QED
    BY <2>1, AppendProperties
<1>10. PICK u : u = s \o t
  OBVIOUS
<1>11. PICK w : w = Append(r, d)
  OBVIOUS
<1>12. ASSUME NEW i \in p \union {n + 1}
       PROVE  <<u[i].id, u[i].title>> = w[Cardinality((p \union {n + 1}) \intersect 1 .. i)]
  <2>1. CASE i \in p
    <3>1. PICK c : c = Cardinality(p \intersect 1 .. i)
      OBVIOUS
    <3>2. c \in 1 .. Len(r) /\ <<s[i].id, s[i].title>> = r[c] /\ u[i] = s[i]
      BY <1>6, <1>10, <2>1, <3>1
    <3>3. w[c] = r[c]
      BY <1>9, <1>11, <3>2
    <3>4. c = Cardinality((p \union {n + 1}) \intersect 1 .. i)
      BY <1>6, <2>1, <3>1
    <3> QED
      BY <3>2, <3>3, <3>4
  <2>2. CASE i = n + 1
    <3>1. u[i] = t[1]
      BY <1>7, <1>10, <2>2
    <3>2. Cardinality((p \union {n + 1}) \intersect 1 .. i) = Len(r) + 1
      BY <1>5, <1>7, <2>2
    <3>3. w[Len(r) + 1] = d
      BY <1>9, <1>11
    <3> QED
      BY <1>8, <3>1, <3>2, <3>3
  <2> QED
    BY <2>1, <2>2
<1>13. Cardinality(Places(u, ListTags)) = Len(w)
  BY <1>5, <1>9, <1>10, <1>11
<1>14. Places(u, ListTags) = p \union {n + 1}
  BY <1>5, <1>10
<1>15. Reports(u, w)
  BY <1>12, <1>13, <1>14 DEF Reports
<1> QED
  BY <1>8, <1>10, <1>11, <1>15

-----------------------------------------------------------------------------
(* What a command line asks for                                            *)

Requested == Nat \X Titles

\* The devices that the first k arguments of w ask for.
AskedTo(w, k) == FlattenSeq([a \in 1 .. k |-> Asked(w[a])])

\* How often cmd is among them.
Told(w, cmd, k) == Cardinality({i \in 1 .. k : w[i] = cmd})

\* What an argument asks for is a sequence of devices.
LEMMA AskedType ==
  ASSUME NEW word
  PROVE  Asked(word) \in Seq(Requested)
<1>1. CASE word \in Lists
  BY <1>1, ListAsked DEF Requested
<1>2. CASE word \notin Lists
  <2>1. Asked(word) = <<>>
    BY <1>2 DEF Asked
  <2>2. <<>> \in Seq(Requested)
    OBVIOUS
  <2> QED
    BY <2>1, <2>2
<1> QED
  BY <1>1, <1>2

\* Nothing is asked for at the start, and each argument appends its devices.
LEMMA AskedMore ==
  ASSUME NEW w, NEW k \in Nat
  PROVE  /\ AskedTo(w, k) \in Seq(Requested)
         /\ AskedTo(w, 0) = <<>>
         /\ AskedTo(w, k + 1) = AskedTo(w, k) \o Asked(w[k + 1])
<1> DEFINE ss == [a \in 1 .. k |-> Asked(w[a])]
           tt == [a \in 1 .. k + 1 |-> Asked(w[a])]
<1>1. ss \in Seq(Seq(Requested)) /\ tt \in Seq(Seq(Requested)) /\ Len(ss) = k /\ Len(tt) = k + 1
  BY AskedType
<1>2. \A i \in 1 .. k : tt[i] = ss[i]
  OBVIOUS
<1>3. tt[k + 1] = Asked(w[k + 1])
  OBVIOUS
<1> HIDE DEF ss, tt
<1>4. FlattenSeq(tt) = FlattenSeq(ss) \o tt[Len(tt)]
  BY <1>1, <1>2, FlattenMore
<1>5. FlattenSeq(ss) \in Seq(Requested)
  BY <1>1, FlattenType
<1>6. FlattenSeq(tt) = FlattenSeq(ss) \o Asked(w[k + 1])
  BY <1>1, <1>3, <1>4
<1>7. AskedTo(w, 0) = <<>>
  <2>1. PICK e : e = [a \in 1 .. 0 |-> Asked(w[a])]
    OBVIOUS
  <2>2. e = <<>>
    BY <2>1
  <2>3. FlattenSeq(e) = <<>>
    BY <2>2 DEF FlattenSeq
  <2> QED
    BY <2>1, <2>3 DEF AskedTo
<1> QED
  BY <1>5, <1>6, <1>7 DEF AskedTo, ss, tt

\* Each argument is counted for its own command.
LEMMA ToldMore ==
  ASSUME NEW w, NEW cmd, NEW k \in Nat
  PROVE  /\ Told(w, cmd, 0) = 0 /\ Told(w, cmd, k) \in Nat
         /\ Told(w, cmd, k + 1) = IF w[k + 1] = cmd THEN Told(w, cmd, k) + 1 ELSE Told(w, cmd, k)
<1> DEFINE T(n) == {i \in 1 .. n : w[i] = cmd}
<1>1. \A n \in Nat : IsFiniteSet(T(n)) /\ Cardinality(T(n)) \in Nat
  <2>1. TAKE n \in Nat
  <2>2. IsFiniteSet(1 .. n) /\ T(n) \subseteq 1 .. n
    BY FS_Interval
  <2> QED
    BY <2>2, FS_Subset, FS_CardinalityType
<1>2. T(0) = {}
  OBVIOUS
<1>3. CASE w[k + 1] = cmd
  <2>1. T(k + 1) = T(k) \union {k + 1}
    BY <1>3
  <2>2. k + 1 \notin T(k)
    OBVIOUS
  <2> HIDE DEF T
  <2>3. Cardinality(T(k) \union {k + 1}) = Cardinality(T(k)) + 1
    <3>1. PICK p, x : p = T(k) /\ x = k + 1
      OBVIOUS
    <3>2. IsFiniteSet(p) /\ x \notin p
      BY <1>1, <2>2, <3>1
    <3>3. Cardinality(p \union {x}) = Cardinality(p) + 1
      BY <3>2, FS_AddElement
    <3> QED
      BY <3>1, <3>3
  <2>4. Cardinality(T(k + 1)) = Cardinality(T(k)) + 1
    BY <2>1, <2>3
  <2> QED
    BY <1>1, <1>2, <1>3, <2>4, FS_EmptySet DEF Told, T
<1>4. CASE w[k + 1] # cmd
  <2>1. T(k + 1) = T(k)
    BY <1>4
  <2> HIDE DEF T
  <2> QED
    BY <1>1, <1>2, <1>4, <2>1, FS_EmptySet DEF Told, T
<1> QED
  BY <1>3, <1>4

-----------------------------------------------------------------------------
(* What an answer reports                                                  *)

\* The properties of a single command are its own: they are no devices,
\* headings or announcements.
LEMMA TagsApart ==
  ASSUME NEW cmd \in Singles, NEW tag \in TagsOf[cmd]
  PROVE  /\ tag \notin ListTags /\ tag \notin {"divider", "switch"}
         /\ \A other \in Singles : tag \in TagsOf[other] => other = cmd
BY DEF Singles, Lists, TagsOf, ListTags

\* What lists write is no heading or announcement, and nobody else writes it.
LEMMA ListTagsApart ==
  /\ "divider" \notin ListTags /\ "switch" \notin ListTags
  /\ \A cmd \in Lists : TagsOf[cmd] \subseteq ListTags
  /\ \A cmd \in Singles : TagsOf[cmd] \intersect ListTags = {}
BY DEF Singles, Lists, TagsOf, ListTags

\* A single command's answer has one line about each of its properties.
LEMMA SingleAnswered ==
  ASSUME NEW cmd \in Singles, NEW tag \in TagsOf[cmd]
  PROVE  \E j : Places(Requests(cmd)[1], {tag}) = {j}
<1> DEFINE lines == Requests(cmd)[1]
<1>1. CASE cmd = "board"
  <2>1. lines = Board
    BY <1>1 DEF Requests
  <2>2. /\ Len(Board) = 4 /\ Board[1].tag = "bd_model" /\ Board[2].tag = "bd_revision"
        /\ Board[3].tag = "bd_serial" /\ Board[4].tag = "bd_mac"
    BY DEF Board, Line
  <2>3. tag \in {"bd_model", "bd_revision", "bd_serial", "bd_mac"}
    BY <1>1 DEF TagsOf
  <2>4. Places(Board, {tag}) = {i \in {1, 2, 3, 4} : Board[i].tag = tag}
    BY <2>2 DEF Places
  <2>5. \E j \in {1, 2, 3, 4} : {i \in {1, 2, 3, 4} : Board[i].tag = tag} = {j}
    BY <2>2, <2>3
  <2> QED
    BY <2>1, <2>4, <2>5
<1>2. CASE cmd = "memory"
  <2>1. lines = Memory
    BY <1>2 DEF Requests
  <2>2. Len(Memory) = 2 /\ Memory[1].tag = "mem_arm" /\ Memory[2].tag = "mem_vc4"
    BY DEF Memory, Line
  <2>3. tag \in {"mem_arm", "mem_vc4"}
    BY <1>2 DEF TagsOf
  <2>4. Places(Memory, {tag}) = {i \in {1, 2} : Memory[i].tag = tag}
    BY <2>2 DEF Places
  <2>5. \E j \in {1, 2} : {i \in {1, 2} : Memory[i].tag = tag} = {j}
    BY <2>2, <2>3
  <2> QED
    BY <2>1, <2>4, <2>5
<1>3. CASE cmd = "temp"
  <2>1. lines = Temp
    BY <1>3 DEF Requests
  <2>2. Len(Temp) = 1 /\ Temp[1].tag = "temp"
    BY DEF Temp, Line
  <2>3. tag = "temp"
    BY <1>3 DEF TagsOf
  <2>4. Places(Temp, {tag}) = {1}
    BY <2>2, <2>3 DEF Places
  <2> QED
    BY <2>1, <2>4
<1>4. CASE cmd = "version"
  <2>1. lines = Version
    BY <1>4 DEF Requests
  <2>2. Len(Version) = 2 /\ Version[1].tag = "fw_revision" /\ Version[2].tag = "fw_variant"
    BY DEF Version, Line
  <2>3. tag \in {"fw_revision", "fw_variant"}
    BY <1>4 DEF TagsOf
  <2>4. Places(Version, {tag}) = {i \in {1, 2} : Version[i].tag = tag}
    BY <2>2 DEF Places
  <2>5. \E j \in {1, 2} : {i \in {1, 2} : Version[i].tag = tag} = {j}
    BY <2>2, <2>3
  <2> QED
    BY <2>1, <2>4, <2>5
<1> QED
  BY <1>1, <1>2, <1>3, <1>4 DEF Singles

\* A heading before the first request is no part of a report.
LEMMA HeadingApart ==
  ASSUME verbose => Command \in Titles
  PROVE  /\ Heading \in Seq(LineType)
         /\ \A tags : "divider" \notin tags /\ "switch" \notin tags => Places(Heading, tags) = {}
<1>1. \/ Heading = <<>>
      \/ \E l \in LineType : l.tag \in {"divider", "switch"} /\ Heading = <<l>>
  <2>1. CASE verbose /\ Command \in Lists
    <3>1. Heading = <<Divider(Command)>>
      BY <2>1 DEF Heading, Lists
    <3>2. Divider(Command) \in LineType /\ Divider(Command).tag = "divider"
      BY <2>1 DEF Divider, Line, LineType, Tags
    <3> QED
      BY <3>1, <3>2
  <2>2. CASE verbose /\ Command \notin Lists /\ Heading # <<>>
    <3>1. PICK l \in {Line("Enabling QPUs", "switch", 1), Line("Disabling QPUs", "switch", 0)} :
            Heading = <<l>>
      BY <2>2 DEF Heading
    <3>2. "switch" \in Tags /\ {"Enabling QPUs", "Disabling QPUs"} \subseteq Titles
      BY DEF Tags, Titles
    <3>3. l \in LineType /\ l.tag = "switch"
      <4>1. CASE l = Line("Enabling QPUs", "switch", 1)
        BY <3>2, <4>1 DEF Line, LineType
      <4>2. CASE l = Line("Disabling QPUs", "switch", 0)
        BY <3>2, <4>2 DEF Line, LineType
      <4> QED
        BY <3>1, <4>1, <4>2
    <3> QED
      BY <3>1, <3>3
  <2> QED
    BY <2>1, <2>2 DEF Heading
<1>2. CASE Heading = <<>>
  BY <1>2 DEF Places
<1>3. ASSUME NEW l \in LineType, l.tag \in {"divider", "switch"}, Heading = <<l>>
      PROVE  /\ Heading \in Seq(LineType)
             /\ \A tags : "divider" \notin tags /\ "switch" \notin tags => Places(Heading, tags) = {}
  <2>1. Heading \in Seq(LineType) /\ Len(Heading) = 1 /\ Heading[1] = l
    BY <1>3, OneLine
  <2>2. \A i \in 1 .. 1 : i = 1
    OBVIOUS
  <2> QED
    BY <1>3, <2>1, <2>2 DEF Places
<1> QED
  BY <1>1, <1>2, <1>3

-----------------------------------------------------------------------------
(* The report up to the place in the command line                          *)

\* A list's requests asked so far, one by one.
LEMMA PrefixMore ==
  ASSUME NEW X, NEW r \in Seq(X), NEW s \in Seq(X), NEW i \in 1 .. Len(s)
  PROVE  /\ r \o SubSeq(s, 1, i) = Append(r \o SubSeq(s, 1, i - 1), s[i])
         /\ SubSeq(s, 1, i - 1) \in Seq(X)
         /\ r \o SubSeq(s, 1, 0) = r /\ SubSeq(s, 1, Len(s)) = s
<1>1. /\ SubSeq(s, 1, i - 1) \in Seq(X) /\ Len(SubSeq(s, 1, i - 1)) = i - 1
      /\ SubSeq(s, 1, i) \in Seq(X) /\ Len(SubSeq(s, 1, i)) = i
      /\ \A k \in 1 .. i : SubSeq(s, 1, i)[k] = s[k]
      /\ \A k \in 1 .. i - 1 : SubSeq(s, 1, i - 1)[k] = s[k]
  OBVIOUS
<1>2. SubSeq(s, 1, 0) = <<>> /\ r \o <<>> = r /\ SubSeq(s, 1, Len(s)) = s
  OBVIOUS
<1>3. SubSeq(s, 1, i) = Append(SubSeq(s, 1, i - 1), s[i])
  OBVIOUS
<1>4. PICK u, x : u = SubSeq(s, 1, i - 1) /\ x = s[i]
  OBVIOUS
<1>5. u \in Seq(X) /\ x \in X
  BY <1>1, <1>4
<1>6. r \o Append(u, x) = Append(r \o u, x)
  BY <1>5
<1> QED
  BY <1>1, <1>2, <1>3, <1>4, <1>6

\* The devices asked for up to the place in the command line.
AskedNow ==
  IF request > 0 /\ Command \in Lists
  THEN AskedTo(args, optind - 1) \o SubSeq(Asked(Command), 1, request - 1)
  ELSE AskedTo(args, optind - 1)

\* The report is complete up to the place in the command line.
ReportInv ==
  /\ Reports(stdout, AskedNow)
  /\ \A cmd \in Singles : \A tag \in TagsOf[cmd] :
       Cardinality(Places(stdout, {tag})) = Told(args, cmd, optind - 1)
  /\ \A k \in 1 .. optind - 1 : args[k] # "?"
  /\ status = "SUCCESS" => optind = Len(args) + 1

\* At the start nothing has been asked for.
LEMMA InitReport == Init => ReportInv
<1> SUFFICES ASSUME Init PROVE ReportInv
  OBVIOUS
<1>1. stdout = <<>> /\ optind - 1 = 0 /\ request = 0 /\ status = "running"
  BY DEF Init
<1>2. AskedNow = <<>>
  BY <1>1, AskedMore DEF AskedNow
<1>3. \A tags : Places(<<>>, tags) = {}
  BY DEF Places
<1>4. Reports(stdout, AskedNow)
  BY <1>1, <1>2, <1>3, FS_EmptySet DEF Reports
<1>5. \A cmd : Told(args, cmd, 0) = 0
  BY ToldMore
<1>7. \A cmd : Told(args, cmd, optind - 1) = 0
  BY <1>1, <1>5
<1>8. \A tags : Cardinality(Places(stdout, tags)) = 0
  BY <1>1, <1>3, FS_EmptySet
<1>9. \A k \in 1 .. optind - 1 : args[k] # "?"
  BY <1>1
<1> QED
  BY <1>1, <1>4, <1>7, <1>8, <1>9 DEF ReportInv

\* Steps that write nothing and keep the place in the command line.
LEMMA ReportElsewhere ==
  ASSUME ReportInv, UNCHANGED <<args, optind, request, stdout>>,
         status' = "SUCCESS" => optind = Len(args) + 1
  PROVE  ReportInv'
<1>1. Command' = Command
  BY DEF Command
<1>2. AskedNow' = AskedNow
  BY <1>1 DEF AskedNow
<1>3. Reports(stdout, AskedNow)'
  <2>1. PICK r : r = AskedNow
    OBVIOUS
  <2>2. Reports(stdout, r) /\ r' = r
    BY <2>1 DEF ReportInv
  <2> QED
    BY <1>2, <2>1, <2>2
<1>4. stdout' = stdout /\ args' = args /\ optind' = optind
  OBVIOUS
<1> QED
  BY <1>3, <1>4 DEF ReportInv

\* The first step of a command asks for nothing yet.
LEMMA BeginReport == ASSUME IInv, ReportInv, Begin PROVE ReportInv'
<1>1. /\ request = 0 /\ request' = 1 /\ Command' = Command /\ Command \in Commands
      /\ UNCHANGED <<args, optind, status>> /\ stdout' = stdout \o Heading
  BY DEF Begin, Command
<1>2. stdout \in Seq(LineType) /\ optind - 1 \in Nat
  BY DEF IInv, WellTyped
<1>3. /\ Heading \in Seq(LineType)
      /\ \A tags : "divider" \notin tags /\ "switch" \notin tags => Places(Heading, tags) = {}
  BY <1>1, HeadingApart DEF Titles
<1>4. PICK r, h, s, o : r = AskedNow /\ h = Heading /\ s = stdout /\ o = optind - 1
  OBVIOUS
<1>5. AskedNow' = r
  <2>1. r = AskedTo(args, optind - 1)
    BY <1>1, <1>4 DEF AskedNow
  <2>2. CASE Command \in Lists
    <3>1. r \in Seq(Requested) /\ Asked(Command) \in Seq(Requested)
      BY <1>2, <2>1, AskedMore, AskedType
    <3>2. r \o SubSeq(Asked(Command), 1, 0) = r
      BY <3>1
    <3>3. AskedNow' = AskedTo(args, optind - 1) \o SubSeq(Asked(Command), 1, 0)
      BY <1>1, <2>2 DEF AskedNow
    <3> QED
      BY <2>1, <3>2, <3>3
  <2>3. CASE Command \notin Lists
    BY <1>1, <2>1, <2>3 DEF AskedNow
  <2> QED
    BY <2>2, <2>3
<1>6. Reports(s \o h, r)
  <2>1. Places(h, ListTags) = {}
    BY <1>3, <1>4, ListTagsApart
  <2>2. Reports(s, r) /\ s \in Seq(LineType) /\ h \in Seq(LineType)
    BY <1>2, <1>3, <1>4 DEF ReportInv
  <2> QED
    BY <2>1, <2>2, ReportsKept
<1>7. ASSUME NEW cmd \in Singles, NEW tag \in TagsOf[cmd]
      PROVE  Places(s \o h, {tag}) = Places(s, {tag})
  <2>1. tag \notin {"divider", "switch"}
    BY TagsApart
  <2>2. Places(h, {tag}) = {}
    BY <1>3, <1>4, <2>1
  <2>3. s \in Seq(LineType) /\ h \in Seq(LineType)
    BY <1>2, <1>3, <1>4
  <2> QED
    BY <2>2, <2>3, PlacesKept
<1>8. stdout' = s \o h
  BY <1>1, <1>4
<1>9. Reports(stdout', AskedNow')
  BY <1>5, <1>6, <1>8
<1>10. ASSUME NEW cmd \in Singles, NEW tag \in TagsOf[cmd]
       PROVE  Cardinality(Places(stdout', {tag})) = Told(args', cmd, optind' - 1)
  <2>1. Cardinality(Places(s, {tag})) = Told(args, cmd, optind - 1)
    BY <1>4 DEF ReportInv
  <2> QED
    BY <1>1, <1>7, <1>8, <2>1
<1> QED
  BY <1>1, <1>9, <1>10 DEF ReportInv

\* Behind s, the lines t add one about each property of the single command cmd,
\* and none about those of the others.
Counted(s, t, cmd) ==
  \A single \in Singles : \A tag \in TagsOf[single] :
    Cardinality(Places(s \o t, {tag}))
      = IF single = cmd THEN Cardinality(Places(s, {tag})) + 1 ELSE Cardinality(Places(s, {tag}))

\* The answer to a single command adds one line about each of its properties
\* and no line about a device.
LEMMA SingleCounted ==
  ASSUME NEW s \in Seq(LineType), NEW r, Reports(s, r), NEW cmd \in Singles, NEW head,
         head = <<>> \/ head = <<Divider(cmd)>>
  PROVE  Reports(s \o (head \o Requests(cmd)[1]), r) /\ Counted(s, head \o Requests(cmd)[1], cmd)
<1>1. cmd \in Commands /\ cmd \in Informing /\ cmd \notin Lists
  BY DEF Commands, Informing, Singles, Lists
<1>2. PICK lines : lines = Requests(cmd)[1]
  OBVIOUS
<1>3. lines \in Seq(LineType) /\ \A i \in 1 .. Len(lines) : lines[i].tag \in TagsOf[cmd]
  <2>1. \A c \in Commands :
          /\ Len(Requests(c)) \in 1 .. 14
          /\ \A i \in 1 .. Len(Requests(c)) :
               /\ Requests(c)[i] \in Seq(LineType)
               /\ c \in Informing =>
                    \A k \in 1 .. Len(Requests(c)[i]) : Requests(c)[i][k].tag \in TagsOf[c]
    BY RequestsShape
  <2>2. 1 \in 1 .. Len(Requests(cmd))
    <3>1. PICK n : n = Len(Requests(cmd))
      OBVIOUS
    <3>2. n \in 1 .. 14
      BY <1>1, <2>1, <3>1
    <3>3. 1 \in 1 .. n
      BY <3>2
    <3> QED
      BY <3>1, <3>3
  <2> QED
    BY <1>1, <1>2, <2>1, <2>2
<1>4. head \in Seq(LineType) /\ \A i \in 1 .. Len(head) : head[i].tag = "divider"
  <2>1. Divider(cmd) \in LineType /\ Divider(cmd).tag = "divider"
    BY <1>1 DEF Divider, Line, LineType, Titles, Tags
  <2>2. CASE head = <<>>
    <3>1. <<>> \in Seq(LineType) /\ Len(<<>>) = 0
      OBVIOUS
    <3> QED
      BY <2>2, <3>1
  <2>3. CASE head = <<Divider(cmd)>>
    <3>1. head \in Seq(LineType) /\ Len(head) = 1 /\ head[1] = Divider(cmd)
      BY <2>1, <2>3, OneLine
    <3>2. \A i \in 1 .. 1 : i = 1
      OBVIOUS
    <3> QED
      BY <2>1, <3>1, <3>2
  <2> QED
    BY <2>2, <2>3
<1>5. PICK u : u = s \o head
  OBVIOUS
<1>6. u \in Seq(LineType) /\ s \o (head \o lines) = u \o lines
  BY <1>3, <1>4, <1>5, LinesAdded, ConcatAssociative
<1>7. Reports(u \o lines, r)
  <2>1. Places(head, ListTags) = {}
    BY <1>4, ListTagsApart DEF Places
  <2>2. Reports(u, r)
    BY <1>4, <1>5, <2>1, ReportsKept
  <2>3. Places(lines, ListTags) = {}
    BY <1>3, ListTagsApart DEF Places
  <2> QED
    BY <1>3, <1>6, <2>2, <2>3, ReportsKept
<1>8. ASSUME NEW single \in Singles, NEW tag \in TagsOf[single]
      PROVE  Cardinality(Places(u \o lines, {tag}))
               = IF single = cmd THEN Cardinality(Places(s, {tag})) + 1 ELSE Cardinality(Places(s, {tag}))
  <2>1. Places(u, {tag}) = Places(s, {tag})
    <3>1. tag # "divider"
      BY TagsApart
    <3>2. Places(head, {tag}) = {}
      BY <1>4, <3>1 DEF Places
    <3> QED
      BY <1>4, <1>5, <3>2, PlacesKept
  <2>2. CASE single = cmd
    <3>1. PICK j : Places(lines, {tag}) = {j}
      BY <1>2, <2>2, SingleAnswered
    <3>2. Cardinality(Places(u \o lines, {tag})) = Cardinality(Places(u, {tag})) + 1
      <4>1. PICK g : g = {tag}
        OBVIOUS
      <4>2. Places(lines, g) = {j}
        BY <3>1, <4>1
      <4>3. u \in Seq(LineType) /\ lines \in Seq(LineType)
        BY <1>3, <1>6
      <4>4. /\ Places(u \o lines, g) = Places(u, g) \union {Len(u) + j}
            /\ Len(u) + j \notin Places(u, g)
            /\ Cardinality(Places(u \o lines, g)) = Cardinality(Places(u, g)) + 1
        BY <4>2, <4>3, PlacesMore
      <4> QED
        BY <4>1, <4>4
    <3> QED
      BY <2>1, <2>2, <3>2
  <2>3. CASE single # cmd
    <3>1. tag \notin TagsOf[cmd]
      BY <2>3, TagsApart
    <3>2. Places(lines, {tag}) = {}
      BY <1>3, <3>1 DEF Places
    <3>3. Places(u \o lines, {tag}) = Places(u, {tag})
      BY <1>3, <1>6, <3>2, PlacesKept
    <3> QED
      BY <2>1, <2>3, <3>3
  <2> QED
    BY <2>2, <2>3
<1>9. Counted(s, head \o lines, cmd)
  BY <1>6, <1>8 DEF Counted
<1>10. Reports(s \o (head \o lines), r)
  BY <1>6, <1>7
<1> QED
  BY <1>2, <1>9, <1>10

\* The answer to a request of a list adds its device to the report.
LEMMA ListCounted ==
  ASSUME NEW s \in Seq(LineType), NEW r \in Seq(Requested), Reports(s, r), NEW cmd \in Lists,
         NEW i \in 1 .. Len(Requests(cmd))
  PROVE  /\ Reports(s \o Requests(cmd)[i], Append(r, Asked(cmd)[i]))
         /\ Counted(s, Requests(cmd)[i], cmd)
<1>1. cmd \in Commands /\ cmd \notin Singles
  BY DEF Commands, Singles, Lists
<1>2. PICK lines : lines = Requests(cmd)[i]
  OBVIOUS
<1>3. /\ Len(lines) = 1 /\ lines[1].tag \in ListTags
      /\ Asked(cmd)[i] = <<lines[1].id, lines[1].title>>
  BY <1>2, ListAsked
<1>4. lines \in Seq(LineType)
  <2>1. \A c \in Commands : \A k \in 1 .. Len(Requests(c)) : Requests(c)[k] \in Seq(LineType)
    BY RequestsShape
  <2> QED
    BY <1>1, <1>2, <2>1
<1>5. Reports(s \o lines, Append(r, <<lines[1].id, lines[1].title>>))
  BY <1>3, <1>4, ReportsMore DEF Requested
<1>6. ASSUME NEW single \in Singles, NEW tag \in TagsOf[single]
      PROVE  Places(s \o lines, {tag}) = Places(s, {tag})
  <2>1. tag \notin ListTags
    BY TagsApart
  <2>2. Places(lines, {tag}) = {}
    <3>1. \A k \in 1 .. 1 : k = 1
      OBVIOUS
    <3> QED
      BY <1>3, <2>1, <3>1 DEF Places
  <2> QED
    BY <1>4, <2>2, PlacesKept
<1>7. Counted(s, lines, cmd)
  BY <1>1, <1>6 DEF Counted
<1>8. Reports(s \o lines, Append(r, Asked(cmd)[i]))
  BY <1>3, <1>5
<1> QED
  BY <1>2, <1>7, <1>8

\* An answer: one line about each property of a single command, the next
\* device of a list, or nothing about a switch.
LEMMA AnsweredReport == ASSUME IInv, ReportInv, Answered PROVE ReportInv'
<1>1. /\ optind \in Nat \ {0} /\ optind <= Len(args) /\ request > 0 /\ request \in Nat
      /\ Command \in Commands /\ request \in 1 .. Len(Requests(Command))
      /\ UNCHANGED <<args, status>> /\ stdout' = stdout \o Answer /\ status = "running"
  BY DEF Answered, Asking, InHand, IInv, WellTyped, RequestInHand
<1>2. Len(Requests(Command)) \in 1 .. 14
  <2>1. \A cmd \in Commands : Len(Requests(cmd)) \in 1 .. 14
    BY RequestsShape
  <2> QED
    BY <1>1, <2>1
<1>3. \/ /\ request < Len(Requests(Command))
         /\ request' = request + 1 /\ optind' = optind /\ Command' = Command
      \/ /\ request = Len(Requests(Command))
         /\ request' = 0 /\ optind' = optind + 1
  <2>1. Advance
    BY DEF Answered
  <2> QED
    BY <1>1, <1>2, <2>1 DEF Advance, Command
<1>4. PICK k, c, i, w, s : k = optind - 1 /\ c = Command /\ i = request /\ w = args /\ s = stdout
  OBVIOUS
<1>5. /\ k \in Nat /\ c = w[k + 1] /\ c \in Commands /\ i \in 1 .. Len(Requests(c))
      /\ optind = k + 1 /\ (k + 1) - 1 = k
  BY <1>1, <1>4 DEF Command
<1>6. s \in Seq(LineType)
  BY <1>4 DEF IInv, WellTyped
<1>7. PICK r : r = AskedNow
  OBVIOUS
<1>8. /\ Reports(s, r)
      /\ \A single \in Singles : \A tag \in TagsOf[single] :
           Cardinality(Places(s, {tag})) = Told(w, single, k)
      /\ \A a \in 1 .. k : w[a] # "?"
  BY <1>4, <1>7 DEF ReportInv
<1>9. c # "?"
  BY <1>5 DEF Commands, Switches, Lists, Singles
<1>10. PICK t : t = Answer
  OBVIOUS
<1>11. stdout' = s \o t /\ args' = w
  BY <1>1, <1>4, <1>10
<1>12. /\ AskedTo(w, k) \in Seq(Requested) /\ Asked(c) \in Seq(Requested)
       /\ AskedTo(w, k + 1) = AskedTo(w, k) \o Asked(c)
  BY <1>5, AskedMore, AskedType
<1>13. \A single : Told(w, single, k + 1) = IF c = single THEN Told(w, single, k) + 1
                                                          ELSE Told(w, single, k)
  <2>1. TAKE single
  <2>2. /\ Told(w, single, 0) = 0 /\ Told(w, single, k) \in Nat
        /\ Told(w, single, k + 1) = IF w[k + 1] = single THEN Told(w, single, k) + 1
                                                         ELSE Told(w, single, k)
    BY <1>5, ToldMore
  <2>3. c = w[k + 1]
    BY <1>5
  <2> QED
    BY <2>2, <2>3
<1>14. \A a \in 1 .. k + 1 : w[a] # "?"
  BY <1>5, <1>8, <1>9
<1>15. SUFFICES /\ Reports(s \o t, AskedNow')
                /\ \A single \in Singles : \A tag \in TagsOf[single] :
                     Cardinality(Places(s \o t, {tag})) = Told(w, single, optind' - 1)
  <2>1. \A a \in 1 .. optind' - 1 : w[a] # "?"
    BY <1>3, <1>5, <1>8, <1>14
  <2> QED
    BY <1>1, <1>11, <2>1 DEF ReportInv
<1>16. CASE c \in Singles
  <2>1. c \notin Lists /\ Len(Requests(c)) = 1
    <3>1. \A cmd \in Commands : cmd \notin Lists => Len(Requests(cmd)) = 1
      BY RequestsShape
    <3> QED
      BY <1>5, <1>16, <3>1 DEF Lists, Singles
  <2>2. i = 1 /\ request' = 0 /\ optind' = k + 2 /\ optind' - 1 = k + 1
    <3>1. PICK n : n = Len(Requests(c))
      OBVIOUS
    <3>2. n = 1 /\ i \in 1 .. n
      BY <1>5, <2>1, <3>1
    <3>3. (i < n /\ request' = i + 1 /\ optind' = optind) \/ (request' = 0 /\ optind' = optind + 1)
      BY <1>3, <1>4, <3>1
    <3> QED
      BY <1>5, <3>2, <3>3
  <2>3. r = AskedTo(w, k) /\ AskedNow' = AskedTo(w, k + 1)
    <3>1. r = AskedTo(args, optind - 1)
      BY <1>4, <1>7, <2>1 DEF AskedNow
    <3>2. AskedNow' = AskedTo(args', optind' - 1)
      BY <2>2 DEF AskedNow
    <3> QED
      BY <1>4, <1>11, <2>2, <3>1, <3>2
  <2>4. AskedTo(w, k + 1) = r
    <3>1. Asked(c) = <<>>
      BY <2>1 DEF Asked
    <3>2. PICK q : q = AskedTo(w, k)
      OBVIOUS
    <3>3. q \o <<>> = q
      BY <1>12, <3>2, ConcatEmptySeq
    <3> QED
      BY <1>12, <2>3, <3>1, <3>2, <3>3
  <2>5. PICK head : /\ head = <<>> \/ head = <<Divider(c)>>
                    /\ t = head \o Requests(c)[1]
    BY <1>4, <1>10, <2>2 DEF Answer
  <2>6. Reports(s \o t, r) /\ Counted(s, t, c)
    BY <1>6, <1>8, <1>16, <2>5, SingleCounted
  <2>7. \A single \in Singles : \A tag \in TagsOf[single] :
          Cardinality(Places(s \o t, {tag})) = Told(w, single, k + 1)
    BY <1>8, <1>13, <2>6 DEF Counted
  <2> QED
    BY <2>2, <2>3, <2>4, <2>6, <2>7
<1>17. CASE c \in Switches
  <2>1. /\ c \notin Lists /\ c \notin Singles
        /\ Len(Requests(c)) = 1 /\ Requests(c)[1] = <<>>
    <3>1. \A cmd \in Commands :
            /\ cmd \notin Lists => Len(Requests(cmd)) = 1
            /\ cmd \in Switches => Requests(cmd)[1] = <<>>
      BY RequestsShape
    <3> QED
      BY <1>5, <1>17, <3>1 DEF Lists, Singles, Switches
  <2>2. i = 1 /\ request' = 0 /\ optind' = k + 2 /\ optind' - 1 = k + 1
    <3>1. PICK n : n = Len(Requests(c))
      OBVIOUS
    <3>2. n = 1 /\ i \in 1 .. n
      BY <1>5, <2>1, <3>1
    <3>3. (i < n /\ request' = i + 1 /\ optind' = optind) \/ (request' = 0 /\ optind' = optind + 1)
      BY <1>3, <1>4, <3>1
    <3> QED
      BY <1>5, <3>2, <3>3
  <2>3. r = AskedTo(w, k) /\ AskedNow' = AskedTo(w, k + 1)
    <3>1. r = AskedTo(args, optind - 1)
      BY <1>4, <1>7, <2>1 DEF AskedNow
    <3>2. AskedNow' = AskedTo(args', optind' - 1)
      BY <2>2 DEF AskedNow
    <3> QED
      BY <1>4, <1>11, <2>2, <3>1, <3>2
  <2>4. AskedTo(w, k + 1) = r
    <3>1. Asked(c) = <<>>
      BY <2>1 DEF Asked
    <3>2. PICK q : q = AskedTo(w, k)
      OBVIOUS
    <3>3. q \o <<>> = q
      BY <1>12, <3>2, ConcatEmptySeq
    <3> QED
      BY <1>12, <2>3, <3>1, <3>2, <3>3
  <2>5. s \o t = s
    <3>1. t = <<>> \o <<>>
      BY <1>4, <1>10, <2>1, <2>2 DEF Answer
    <3>2. <<>> \o <<>> = <<>> /\ s \o <<>> = s
      BY <1>6, ConcatEmptySeq
    <3> QED
      BY <3>1, <3>2
  <2>6. \A single \in Singles : Told(w, single, k + 1) = Told(w, single, k)
    BY <1>13, <2>1
  <2> QED
    BY <1>8, <2>2, <2>3, <2>4, <2>5, <2>6
<1>18. CASE c \in Lists
  <2>1. c \notin Singles
    BY <1>18 DEF Lists, Singles
  <2>2. PICK all, q : all = Asked(c) /\ q = AskedTo(w, k)
    OBVIOUS
  <2>3. all \in Seq(Requested) /\ q \in Seq(Requested) /\ Len(all) = Len(Requests(c))
    BY <1>12, <1>18, <2>2, ListAsked
  <2>4. i \in 1 .. Len(all)
    BY <1>5, <2>3
  <2>5. /\ q \o SubSeq(all, 1, i) = Append(q \o SubSeq(all, 1, i - 1), all[i])
        /\ SubSeq(all, 1, i - 1) \in Seq(Requested)
        /\ SubSeq(all, 1, Len(all)) = all
    BY <2>3, <2>4, PrefixMore
  <2>6. r = q \o SubSeq(all, 1, i - 1)
    BY <1>1, <1>4, <1>5, <1>7, <1>18, <2>2 DEF AskedNow
  <2>7. r \in Seq(Requested)
    BY <2>3, <2>5, <2>6, ConcatProperties
  <2>8. t = Requests(c)[i]
    <3>1. t = <<>> \o Requests(c)[i]
      BY <1>4, <1>10, <2>1 DEF Answer
    <3>2. Requests(c)[i] \in Seq(LineType)
      <4>1. \A cmd \in Commands : \A a \in 1 .. Len(Requests(cmd)) : Requests(cmd)[a] \in Seq(LineType)
        BY RequestsShape
      <4> QED
        BY <1>5, <4>1
    <3> QED
      BY <3>1, <3>2, ConcatEmptySeq
  <2>9. Reports(s \o t, Append(r, all[i])) /\ Counted(s, t, c)
    BY <1>5, <1>6, <1>8, <1>18, <2>2, <2>7, <2>8, ListCounted
  <2>10. Reports(s \o t, q \o SubSeq(all, 1, i))
    BY <2>5, <2>6, <2>9
  <2>11. ASSUME NEW single \in Singles, NEW tag \in TagsOf[single]
         PROVE  /\ Cardinality(Places(s \o t, {tag})) = Told(w, single, k)
                /\ Told(w, single, k + 1) = Told(w, single, k)
    BY <1>8, <1>13, <2>1, <2>9 DEF Counted
  <2>12. CASE request' = request + 1 /\ optind' = optind /\ Command' = Command
    <3>1. optind' - 1 = k /\ request' - 1 = i /\ request' > 0
      BY <1>4, <1>5, <2>12
    <3>2. AskedNow' = q \o SubSeq(all, 1, i)
      BY <1>4, <1>11, <1>18, <2>2, <2>12, <3>1 DEF AskedNow
    <3> QED
      BY <2>10, <2>11, <3>1, <3>2
  <2>13. CASE request = Len(Requests(Command)) /\ request' = 0 /\ optind' = optind + 1
    <3>1. optind' - 1 = k + 1 /\ i = Len(all)
      <4>1. i = Len(all)
        BY <1>4, <2>3, <2>13
      <4>2. optind' = (k + 1) + 1
        BY <1>5, <2>13
      <4> QED
        BY <1>5, <4>1, <4>2
    <3>2. AskedNow' = q \o all
      <4>1. AskedNow' = AskedTo(args', optind' - 1)
        BY <2>13 DEF AskedNow
      <4> QED
        BY <1>11, <1>12, <2>2, <3>1, <4>1
    <3> QED
      BY <2>5, <2>10, <2>11, <3>1, <3>2
  <2> QED
    BY <1>3, <2>12, <2>13
<1> QED
  BY <1>5, <1>16, <1>17, <1>18 DEF Commands

\* Every step keeps the report complete up to the place in the command line.
LEMMA NextReport == ASSUME IInv, ReportInv, [Next]_vars PROVE ReportInv'
<1>1. CASE Reject
  BY <1>1, ReportElsewhere DEF Reject, Fail
<1>2. CASE Refused
  BY <1>2, ReportElsewhere DEF Refused, Fail
<1>3. CASE Finish
  <2>1. optind = Len(args) + 1
    BY <1>3 DEF Finish, IInv, WellTyped
  <2> QED
    BY <1>3, <2>1, ReportElsewhere DEF Finish
<1>4. CASE OtherSwitches
  BY <1>4, ReportElsewhere DEF OtherSwitches, process, ReportInv
<1>5. CASE UNCHANGED vars
  BY <1>5, ReportElsewhere DEF vars, process, ReportInv
<1> QED
  BY <1>1, <1>2, <1>3, <1>4, <1>5, BeginReport, AnsweredReport DEF Next, Program, Terminated

\* A successful command line has reported each device of its lists, in the
\* order of ids and under its name, and each property of its other commands as
\* often as they were given: mbox_clocks, mbox_power and mbox_voltage write
\* one line for each id, command_firmware leaves no argument out.
THEOREM Complete == Spec => []ReportComplete
<1>1. Init => ReportInv
  BY InitReport
<1>2. IInv /\ ReportInv /\ [Next]_vars => ReportInv'
  BY NextReport
<1>3. IInv /\ ReportInv => ReportComplete
  <2> SUFFICES ASSUME IInv, ReportInv, status = "SUCCESS" PROVE ReportComplete
    BY DEF ReportComplete
  <2>1. optind - 1 = Len(args) /\ Len(args) \in Nat
    BY DEF IInv, WellTyped, ReportInv
  <2>2. request = 0
    <3>1. ~(optind <= Len(args))
      BY <2>1 DEF IInv, WellTyped
    <3> QED
      BY <3>1 DEF IInv, WellTyped, RequestInHand
  <2>3. DOMAIN args = 1 .. Len(args) /\ DOMAIN stdout = 1 .. Len(stdout)
    BY LenProperties DEF IInv, WellTyped
  <2>4. \A tags : Lines(tags) = Places(stdout, tags)
    BY <2>3 DEF Lines, Places
  <2>5. FlattenSeq([k \in DOMAIN args |-> Asked(args[k])]) = AskedNow
    BY <2>1, <2>2, <2>3 DEF AskedNow, AskedTo
  <2>6. \A cmd : Times(cmd) = Told(args, cmd, Len(args))
    BY <2>3 DEF Times, Told
  <2>7. Reports(stdout, AskedNow)
    BY DEF ReportInv
  <2>8. \A cmd \in Singles : \A tag \in TagsOf[cmd] : Cardinality(Lines({tag})) = Times(cmd)
    BY <2>1, <2>4, <2>6 DEF ReportInv
  <2>9. Times("?") = 0
    <3>1. {k \in DOMAIN args : args[k] = "?"} = {}
      BY <2>1, <2>3 DEF ReportInv
    <3> QED
      BY <3>1, FS_EmptySet DEF Times
  <2>10. PICK asked : asked = FlattenSeq([k \in DOMAIN args |-> Asked(args[k])])
    OBVIOUS
  <2>11. PICK listed : listed = Lines(ListTags)
    OBVIOUS
  <2>12. /\ Cardinality(listed) = Len(asked)
         /\ \A i \in listed : <<stdout[i].id, stdout[i].title>> = asked[Cardinality(listed \intersect 1 .. i)]
    BY <2>4, <2>5, <2>7, <2>10, <2>11 DEF Reports
  <2> QED
    BY <2>8, <2>9, <2>10, <2>11, <2>12 DEF ReportComplete
<1> QED
  BY <1>1, <1>2, <1>3, Invariant, PTL DEF Spec
=============================================================================
