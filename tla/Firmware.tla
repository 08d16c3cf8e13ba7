------------------------------ MODULE Firmware ------------------------------
(***************************************************************************)
(* `qpu firmware`: command_firmware of main.c, with the calls of mbox.c    *)
(* that turn the QPUs on and off and those that ask the firmware about     *)
(* board, clocks, memory, power, temperature, version and voltages.        *)
(*                                                                         *)
(* A request is one message that asks for one or more things; its answer   *)
(* is complete or it fails.  What an answer says is abstracted to what it  *)
(* is about: the property tag and the id of the device, and a line is an   *)
(* answer under a title.  A failed request for the switch may have had its *)
(* effect.  Other processes use the switch too.                            *)
(*                                                                         *)
(* Bounds: MaxArgs arguments, MaxOthers uses of the switch by others.      *)
(* Definitions named Def_Suffix are mutants of Def.                        *)
(***************************************************************************)
EXTENDS Integers, Sequences, FiniteSets, SequencesExt

CONSTANTS
  MaxArgs,     \* bound: the arguments of a command line
  MaxOthers    \* bound: how often other processes use the switch

ASSUME BoundsAssumption == MaxArgs \in Nat /\ MaxOthers \in Nat

Switches == {"enable", "disable"}
Lists    == {"clocks", "power", "voltage"}
Singles  == {"board", "memory", "temp", "version"}
Commands == Switches \union Lists \union Singles

Line(title, tag, id) == [title |-> title, tag |-> tag, id |-> id]

Divider(cmd) == Line(cmd, "divider", 0)

-----------------------------------------------------------------------------
(* The requests of each command, and the lines their answers make          *)

InfoVoltage(id, name) == <<Line(name, "voltage", id)>>
InfoPower(id, name)   == <<Line(name, "power", id)>>
InfoClocks(id, name)  == <<Line(name, "clock", id)>>

VoltageNames == <<"Core", "SDRAM-Core", "SDRAM-Phy", "SDRAM-I/O">>
PowerNames   == <<"SDCARD", "UART0", "UART1", "USBHCD", "I2C0", "I2C1", "I2C2", "SPI", "CCP2TX">>
ClockNames   == <<"EMMC", "UART", "ARM", "CORE", "V3D", "H264", "ISP", "SDRAM", "PIXEL", "PWM",
                  "HEVC", "EMMC2", "M2MC", "PIXELBVB">>

\* mbox_voltage: info_voltage for each id in turn.
Voltages == [i \in 1 .. Len(VoltageNames) |-> InfoVoltage(i, VoltageNames[i])]

Powers_FromOne == [i \in 1 .. Len(PowerNames) |-> InfoPower(i, PowerNames[i])]
\* mbox_power: the ids of power domains start at 0.
Powers == [i \in 1 .. Len(PowerNames) |-> InfoPower(i - 1, PowerNames[i])]

\* mbox_clocks
Clocks == [i \in 1 .. Len(ClockNames) |-> InfoClocks(i, ClockNames[i])]

Board == <<Line("Model", "bd_model", 0), Line("Revision", "bd_revision", 0),
           Line("Serial", "bd_serial", 0), Line("MAC", "bd_mac", 0)>>
Memory == <<Line("ARM", "mem_arm", 0), Line("GPU", "mem_vc4", 0)>>
Temp == <<Line("C", "temp", 0)>>
Version == <<Line("Revision", "fw_revision", 0), Line("Variant", "fw_variant", 0)>>

Requests(cmd) ==
  CASE cmd = "voltage" -> Voltages
    [] cmd = "power"   -> Powers
    [] cmd = "clocks"  -> Clocks
    [] cmd = "board"   -> <<Board>>
    [] cmd = "memory"  -> <<Memory>>
    [] cmd = "temp"    -> <<Temp>>
    [] cmd = "version" -> <<Version>>
    [] OTHER           -> << <<>> >>

-----------------------------------------------------------------------------

VARIABLES
  args,      \* the arguments behind `firmware'; "?" is any other word
  verbose,   \* -v
  optind,    \* the argument in hand, from 1
  request,   \* the request of its command that is next, 0 before its first step
  status,    \* "running", "SUCCESS" or "FAILURE"
  stdout,    \* the lines written
  sent,      \* the messages sent
  refused,   \* whether one of them failed
  qpus,      \* whether the firmware's switch is on
  others,    \* the uses of the switch by other processes
  left       \* history: what the last of them, or the start, has left, and how
             \* many arguments had been carried out by then

process == <<optind, request, status, stdout, sent, refused>>
vars    == <<args, verbose, process, qpus, others, left>>

Init ==
  /\ args \in BoundedSeq(Commands \union {"?"}, MaxArgs)
  /\ verbose \in BOOLEAN
  /\ optind = 1 /\ request = 0
  /\ status = "running"
  /\ stdout = <<>> /\ sent = 0 /\ refused = FALSE
  /\ qpus \in BOOLEAN
  /\ others = 0
  /\ left = [place |-> 0, on |-> qpus]

Command == args[optind]
InHand  == status = "running" /\ optind <= Len(args)

Fail == status' = "FAILURE" /\ UNCHANGED <<optind, request, stdout>>

\* The checks of command_firmware: an argument is missing or unknown.
Reject ==
  /\ status = "running"
  /\ args = <<>> \/ (InHand /\ Command = "?")
  /\ Fail
  /\ UNCHANGED <<args, verbose, sent, refused, qpus, others, left>>

Heading_Singles ==
  IF verbose /\ Command \in Singles THEN <<Divider(Command)>> ELSE <<>>
\* The lines written before the command's first request is sent.
Heading ==
  IF ~verbose THEN <<>>
  ELSE CASE Command \in Lists -> <<Divider(Command)>>
         [] Command = "enable"  -> <<Line("Enabling QPUs", "switch", 1)>>
         [] Command = "disable" -> <<Line("Disabling QPUs", "switch", 0)>>
         [] OTHER -> <<>>

\* HANDLE_FIRMWARE enters the command's function.
Begin ==
  /\ InHand /\ request = 0
  /\ Command \in Commands
  /\ stdout' = stdout \o Heading
  /\ request' = 1
  /\ UNCHANGED <<args, verbose, optind, status, sent, refused, qpus, others, left>>

\* The lines of an answer; commands of one request head them now.
Answer ==
  (IF verbose /\ Command \in Singles THEN <<Divider(Command)>> ELSE <<>>)
    \o Requests(Command)[request]

\* The next request, or back to the loop of command_firmware.
Advance ==
  IF request < Len(Requests(Command))
  THEN request' = request + 1 /\ UNCHANGED optind
  ELSE request' = 0 /\ optind' = optind + 1

Asking == InHand /\ request > 0

\* What an enable or disable leaves.
Switched == IF Command \in Switches THEN Command = "enable" ELSE qpus

\* do_ioctl succeeds, and so does the firmware.
Answered ==
  /\ Asking
  /\ sent' = sent + 1
  /\ qpus' = Switched
  /\ stdout' = stdout \o Answer
  /\ Advance
  /\ UNCHANGED <<args, verbose, status, refused, others, left>>

Refused_Continues ==
  /\ Asking
  /\ refused' = TRUE
  /\ sent' = sent + 1
  /\ qpus' \in {qpus, Switched}
  /\ Advance
  /\ UNCHANGED <<args, verbose, status, stdout, others, left>>
\* ioctl fails, or the firmware reports an error or a timeout.
Refused ==
  /\ Asking
  /\ refused' = TRUE
  /\ sent' = sent + 1
  /\ qpus' \in {qpus, Switched}
  /\ Fail
  /\ UNCHANGED <<args, verbose, others, left>>

\* The arguments are used up; main has no task to execute then.
Finish ==
  /\ status = "running"
  /\ args # <<>> /\ optind > Len(args)
  /\ status' = "SUCCESS"
  /\ UNCHANGED <<args, verbose, optind, request, stdout, sent, refused, qpus, others, left>>

OtherSwitches ==
  /\ status = "running" /\ others < MaxOthers
  /\ others' = others + 1
  /\ qpus' = ~qpus
  /\ left' = [place |-> optind - 1, on |-> ~qpus]
  /\ UNCHANGED <<args, verbose, process>>

Terminated == status # "running" /\ UNCHANGED vars

Program == Reject \/ Begin \/ Answered \/ Refused \/ Finish

Next == Program \/ OtherSwitches \/ Terminated

\* The process is scheduled, and the kernel's driver returns from ioctl.
Spec == Init /\ [][Next]_vars /\ WF_vars(Program)

-----------------------------------------------------------------------------
(* Properties                                                              *)

\* Type invariant.
TypeOK ==
  /\ optind \in 1 .. Len(args) + 1
  /\ request \in 0 .. 14
  /\ optind <= Len(args) /\ Command = "?" => request = 0
  /\ optind > Len(args) => request = 0
  /\ sent \in 0 .. 14 * MaxArgs
  /\ qpus \in BOOLEAN
  /\ left \in [place : 0 .. optind - 1, on : BOOLEAN]

\* The devices that a list names, by the ids of mbox.c's enumerations.
Devices ==
  [voltage |-> {<<1, "Core">>, <<2, "SDRAM-Core">>, <<3, "SDRAM-Phy">>, <<4, "SDRAM-I/O">>},
   power |-> {<<0, "SDCARD">>, <<1, "UART0">>, <<2, "UART1">>, <<3, "USBHCD">>, <<4, "I2C0">>,
              <<5, "I2C1">>, <<6, "I2C2">>, <<7, "SPI">>, <<8, "CCP2TX">>},
   clocks |-> {<<1, "EMMC">>, <<2, "UART">>, <<3, "ARM">>, <<4, "CORE">>, <<5, "V3D">>,
               <<6, "H264">>, <<7, "ISP">>, <<8, "SDRAM">>, <<9, "PIXEL">>, <<10, "PWM">>,
               <<11, "HEVC">>, <<12, "EMMC2">>, <<13, "M2MC">>, <<14, "PIXELBVB">>}]

ById(devices) ==
  [i \in 1 .. Cardinality(devices) |->
     CHOOSE d \in devices : Cardinality({e \in devices : e[1] < d[1]}) = i - 1]

TagsOf ==
  [clocks |-> {"clock"}, power |-> {"power"}, voltage |-> {"voltage"},
   board |-> {"bd_model", "bd_revision", "bd_serial", "bd_mac"},
   memory |-> {"mem_arm", "mem_vc4"}, temp |-> {"temp"},
   version |-> {"fw_revision", "fw_variant"}]

Times(word) == Cardinality({i \in DOMAIN args : args[i] = word})

ListTags == UNION {TagsOf[cmd] : cmd \in Lists}

\* The devices an argument asks for, in the order of their ids.
Asked(word) == IF word \in Lists THEN ById(Devices[word]) ELSE <<>>

\* The places of the lines about tags.
Lines(tags) == {i \in DOMAIN stdout : stdout[i].tag \in tags}

\* A command line that succeeds has reported, for each of its lists, every
\* device of the enumeration once and under its own name, in the order of ids,
\* and nothing between one list's lines (the n-th line about a device is about
\* the n-th device asked for); and each property of a command that is no list
\* as often as the command was given.
ReportComplete ==
  status = "SUCCESS" =>
    LET asked  == FlattenSeq([k \in DOMAIN args |-> Asked(args[k])])
        listed == Lines(ListTags)
    IN  /\ Cardinality(listed) = Len(asked)
        /\ \A i \in listed :
             <<stdout[i].id, stdout[i].title>> = asked[Cardinality(listed \intersect 1 .. i)]
        /\ \A cmd \in Singles : \A tag \in TagsOf[cmd] : Cardinality(Lines({tag})) = Times(cmd)
        /\ Times("?") = 0

\* With -v every line stands below the divider or announcement of its own
\* command, so that a reader can tell whose it is, even when a request fails
\* in the middle or the same command comes twice.
UnderOwnHeading ==
  verbose =>
    \A i \in DOMAIN stdout :
      stdout[i].tag \notin {"divider", "switch"} =>
        \E j \in 1 .. i - 1 :
          /\ stdout[j].tag = "divider"
          /\ \A k \in j + 1 .. i : stdout[k].tag \in TagsOf[stdout[j].title]

\* The first request that fails is the last that is sent; nothing is written
\* or carried out after it, and the process reports the failure.
StopsAtFirstFailure ==
  [][refused => status = "FAILURE" /\ UNCHANGED <<sent, stdout, optind>>]_vars

\* Argument k is the last of the first n that is for the switch.
LastSwitch(k, n) == args[k] \in Switches /\ \A j \in k + 1 .. n : args[j] \notin Switches

\* Line i is the last of the announcements.
LastAnnounced(i) ==
  /\ stdout[i].tag = "switch"
  /\ \A j \in i + 1 .. Len(stdout) : stdout[j].tag # "switch"

\* The arguments that the program has entered.
Entered == IF request > 0 THEN optind ELSE optind - 1

\* At every moment, also after a list has failed half-way or another process
\* has used the switch in between, the switch is as the last enable or disable
\* carried out since then has left it, or as the other process has left it; only
\* a request for the switch itself that failed leaves either value.  And the
\* last announcement that -v makes, if any, is that of the last one entered.
SwitchFollows ==
  /\ \/ \E k \in left.place + 1 .. optind - 1 :
          LastSwitch(k, optind - 1) /\ (qpus <=> args[k] = "enable")
     \/ /\ \A k \in left.place + 1 .. optind - 1 : args[k] \notin Switches
        /\ qpus <=> left.on
     \/ /\ refused /\ optind <= Len(args) /\ Command \in Switches
        /\ qpus <=> Command = "enable"
  /\ verbose =>
       \/ /\ \A k \in 1 .. Entered : args[k] \notin Switches
          /\ \A i \in 1 .. Len(stdout) : stdout[i].tag # "switch"
       \/ \E k \in 1 .. Entered, i \in 1 .. Len(stdout) :
            /\ LastSwitch(k, Entered) /\ LastAnnounced(i)
            /\ stdout[i].id = 1 <=> args[k] = "enable"

\* Every command line ends.
Terminates == <>(status # "running")
=============================================================================
