------------------------- MODULE ConfigLife_proofs -------------------------
(***************************************************************************)
(* Whatever the server publishes, whatever commands it queues and wherever *)
(* crashes and failed writes fall: the variables keep their types, what is *)
(* on flash between two polls is what is in use, a command is carried out  *)
(* once, and a network is not kept before the server answered over it.     *)
(***************************************************************************)
EXTENDS ConfigLife, TLAPS

\* The typing, by kind of variable.
NumbersTyped ==
    /\ config \in 0..MaxVersion /\ bak \in 0..MaxVersion
    /\ live \in 0..MaxVersion /\ candidate \in 0..MaxVersion
    /\ server \in Versions
    /\ idFile \in 0..MaxCommands /\ lastId \in 0..MaxCommands
    /\ command \in 0..MaxCommands
    /\ rapid \in 0..3 /\ image \in Nat /\ faults \in 0..MaxFaults
NamesTyped ==
    /\ stage \in Setup \cup Handling \cup Cycle
    /\ registration \in Pins \cup {"none"} /\ regBackup \in Pins \cup {"none"}
    /\ pin \in Pins \cup {"none"}
    /\ network \in Networks /\ netBackup \in Networks
    /\ channel \in {"none", "poll", "mqtt"}
WorldTyped ==
    /\ issued \in Seq(Actions) /\ Len(issued) <= MaxCommands
    /\ unacked \subseteq DOMAIN issued
    /\ executed \in [Commands -> Nat]
FlagsTyped ==
    /\ idLost \in BOOLEAN /\ saveLost \in BOOLEAN
    /\ verified \in BOOLEAN /\ refused \in BOOLEAN

\* Once a configuration is loaded, there is one in use, and the count of quick
\* reboots is below the one that rolls back.
Loaded == stage \in Handling \cup Cycle => live # 0 /\ rapid < 3

\* One is in hand from a poll that was answered on.
Received ==
    /\ stage \in Setup \cup {"idle"} => candidate = 0
    /\ stage \in {"backup", "save"} => candidate # 0

TypeInv ==
    /\ NumbersTyped /\ NamesTyped /\ WorldTyped /\ FlagsTyped
    /\ Loaded /\ Received

\* The bundles of variables, for UNCHANGED.
USE DEF files, nvs, inHand, ram, world, history

LEMMA Bounds ==
  /\ MaxVersion \in Nat /\ 1 \in Versions /\ 0 \in 0..MaxVersion
  /\ Versions \subseteq 0..MaxVersion
  /\ MaxCommands \in Nat /\ 0 \in 0..MaxCommands
  /\ MaxFaults \in Nat
  /\ \A v \in Versions : Offers[v] \in Nat
  BY ConfigAssumption DEF ConfigAssumption, Versions

LEMMA InitTypeInv == ConfigInit => TypeInv
<1> SUFFICES ASSUME ConfigInit PROVE TypeInv
  OBVIOUS
<1> USE DEF ConfigInit
<1>1. issued \in Seq(Actions) /\ Len(issued) = 0
  OBVIOUS
<1>2. executed \in [Commands -> Nat]
  OBVIOUS
<1>3. NumbersTyped
  BY Bounds DEF NumbersTyped
<1>4. NamesTyped
  BY DEF NamesTyped, Setup, Networks
<1>5. WorldTyped
  BY <1>1, <1>2, Bounds DEF WorldTyped
<1>6. FlagsTyped
  BY Zenon DEF FlagsTyped
<1>7. Loaded /\ Received
  BY DEF Loaded, Received, Setup, Handling, Cycle
<1> QED
  BY <1>3, <1>4, <1>5, <1>6, <1>7 DEF TypeInv

-----------------------------------------------------------------------------
(* Types *)

LEMMA IssuedBounds ==
  ASSUME WorldTyped
  PROVE  DOMAIN issued \subseteq Commands /\ unacked \subseteq 0..MaxCommands
  BY Bounds DEF WorldTyped, Commands

\* A number stays in its range: an image is only installed where one is offered,
\* a reboot only counted below the rollback.
LEMMA NumbersStep ==
  ASSUME TypeInv, [ConfigNext]_configVars PROVE NumbersTyped'
<1> USE DEF TypeInv, NumbersTyped, Fault, Restart, Format, Reset
<1>1. CASE Load
  BY <1>1, Bounds DEF Load, RapidConsumed
<1>2. CASE PollAnswered
  BY <1>2, Bounds, IssuedBounds DEF PollAnswered
<1>3. ASSUME NEW c \in Commands, MqttCommand(c)
      PROVE  NumbersTyped'
  BY <1>3, Bounds DEF MqttCommand, Commands
<1>4. CASE UpdateVerified
  BY <1>4, Bounds DEF UpdateVerified, Current, Loaded, Handling, Cycle, Versions
<1>5. CASE CommitByReboot
  BY <1>5, Bounds DEF CommitByReboot, Loaded, Cycle
<1>6. CASE HotApply
  BY <1>6, Bounds DEF HotApply, Current
<1>7. CASE NewVersion
  BY <1>7, Bounds DEF NewVersion, Versions
<1>8. ASSUME NEW p \in Pins, Provision(p)
      PROVE  NumbersTyped'
  BY <1>8, Bounds DEF Provision
<1>9. ASSUME NEW a \in Actions, IssueCommand(a)
      PROVE  NumbersTyped'
  BY <1>9, Bounds DEF IssueCommand
<1>10. CASE \/ Boot \/ MirrorRegistration \/ Connect \/ Registered
          \/ RegisterFails \/ RegisterRefused \/ PollEmpty \/ HardReset
          \/ BackUpConfig \/ SaveConfig \/ DropCommand \/ AcceptCommand
          \/ Acknowledge \/ Execute \/ TryNetwork \/ KeepNetwork
          \/ RevertNetwork \/ JoinAccessPoint \/ OtaGate \/ UpdateAborted
          \/ Crash
  BY <1>10, Bounds DEF Boot, MirrorRegistration, Connect, Registered,
         RegisterFails, RegisterRefused, PollEmpty, HardReset, BackUpConfig,
         SaveConfig, DropCommand, AcceptCommand, Acknowledge, Execute,
         TryNetwork, KeepNetwork, RevertNetwork, JoinAccessPoint, OtaGate,
         UpdateAborted, Crash
<1>11. CASE UNCHANGED configVars
  BY <1>11 DEF configVars
<1> QED
  BY <1>1, <1>2, <1>3, <1>4, <1>5, <1>6, <1>7, <1>8, <1>9, <1>10, <1>11
     DEF ConfigNext, DeviceStep

LEMMA NamesStep ==
  ASSUME TypeInv, [ConfigNext]_configVars PROVE NamesTyped'
<1> USE DEF TypeInv, NamesTyped, Setup, Handling, Cycle, Networks, Fault,
            Restart, Format, Reset
<1>1. CASE Execute
  BY <1>1 DEF Execute, Continue, ExecuteStage
<1>2. ASSUME NEW p \in Pins, Provision(p)
      PROVE  NamesTyped'
  BY <1>2 DEF Provision
<1>3. ASSUME NEW c \in Commands, MqttCommand(c)
      PROVE  NamesTyped'
  BY <1>3 DEF MqttCommand
<1>4. ASSUME NEW a \in Actions, IssueCommand(a)
      PROVE  NamesTyped'
  BY <1>4 DEF IssueCommand
<1>5. CASE \/ Boot \/ MirrorRegistration \/ Connect \/ Load \/ Registered
          \/ RegisterFails \/ RegisterRefused \/ PollAnswered \/ PollEmpty
          \/ HardReset \/ BackUpConfig \/ SaveConfig \/ DropCommand
          \/ AcceptCommand \/ Acknowledge \/ TryNetwork \/ KeepNetwork
          \/ RevertNetwork \/ JoinAccessPoint \/ OtaGate \/ UpdateVerified
          \/ UpdateAborted \/ CommitByReboot \/ HotApply \/ NewVersion
          \/ Crash
  BY <1>5 DEF Boot, MirrorRegistration, Connect, Load, Registered,
         RegisterFails, RegisterRefused, PollAnswered, PollEmpty, HardReset,
         BackUpConfig, SaveConfig, DropCommand, AcceptCommand, Acknowledge,
         TryNetwork, KeepNetwork, RevertNetwork, JoinAccessPoint, OtaGate,
         UpdateVerified, UpdateAborted, CommitByReboot, HotApply, NewVersion,
         Crash, Continue
<1>6. CASE UNCHANGED configVars
  BY <1>6 DEF configVars
<1> QED
  BY <1>1, <1>2, <1>3, <1>4, <1>5, <1>6
     DEF ConfigNext, DeviceStep

LEMMA WorldStep ==
  ASSUME TypeInv, [ConfigNext]_configVars PROVE WorldTyped'
<1> USE DEF TypeInv, WorldTyped, Fault, Restart, Format, Reset
<1>1. CASE Acknowledge
  BY <1>1 DEF Acknowledge
<1>2. CASE Execute
  <2>1. executed' = [executed EXCEPT ![command] = executed[command] + 1]
    BY <1>2 DEF Execute
  <2>2. executed' \in [Commands -> Nat]
    BY <2>1, \A c \in Commands : executed[c] + 1 \in Nat
  <2> QED
    BY <1>2, <2>2 DEF Execute
<1>3. ASSUME NEW a \in Actions, IssueCommand(a)
      PROVE  WorldTyped'
  BY <1>3, Bounds DEF IssueCommand
<1>4. ASSUME NEW p \in Pins, Provision(p)
      PROVE  WorldTyped'
  BY <1>4 DEF Provision
<1>5. ASSUME NEW c \in Commands, MqttCommand(c)
      PROVE  WorldTyped'
  BY <1>5 DEF MqttCommand
<1>6. CASE \/ Boot \/ MirrorRegistration \/ Connect \/ Load \/ Registered
          \/ RegisterFails \/ RegisterRefused \/ PollAnswered \/ PollEmpty
          \/ HardReset \/ BackUpConfig \/ SaveConfig \/ DropCommand
          \/ AcceptCommand \/ TryNetwork \/ KeepNetwork \/ RevertNetwork
          \/ JoinAccessPoint \/ OtaGate \/ UpdateVerified \/ UpdateAborted
          \/ CommitByReboot \/ HotApply \/ NewVersion \/ Crash
  BY <1>6 DEF Boot, MirrorRegistration, Connect, Load, Registered,
         RegisterFails, RegisterRefused, PollAnswered, PollEmpty, HardReset,
         BackUpConfig, SaveConfig, DropCommand, AcceptCommand, TryNetwork,
         KeepNetwork, RevertNetwork, JoinAccessPoint, OtaGate, UpdateVerified,
         UpdateAborted, CommitByReboot, HotApply, NewVersion, Crash
<1>7. CASE UNCHANGED configVars
  BY <1>7 DEF configVars
<1> QED
  BY <1>1, <1>2, <1>3, <1>4, <1>5, <1>6, <1>7
     DEF ConfigNext, DeviceStep

LEMMA FlagsStep ==
  ASSUME TypeInv, [ConfigNext]_configVars PROVE FlagsTyped'
<1> USE DEF TypeInv, FlagsTyped, Fault, Restart, Format, Reset
<1>1. ASSUME NEW p \in Pins, Provision(p)
      PROVE  FlagsTyped'
  BY <1>1 DEF Provision
<1>2. ASSUME NEW c \in Commands, MqttCommand(c)
      PROVE  FlagsTyped'
  BY <1>2 DEF MqttCommand
<1>3. ASSUME NEW a \in Actions, IssueCommand(a)
      PROVE  FlagsTyped'
  BY <1>3 DEF IssueCommand
<1>4. CASE \/ Boot \/ MirrorRegistration \/ Connect \/ Load \/ Registered
          \/ RegisterFails \/ RegisterRefused \/ PollAnswered \/ PollEmpty
          \/ HardReset \/ BackUpConfig \/ SaveConfig \/ DropCommand
          \/ AcceptCommand \/ Acknowledge \/ Execute \/ TryNetwork
          \/ KeepNetwork \/ RevertNetwork \/ JoinAccessPoint \/ OtaGate
          \/ UpdateVerified \/ UpdateAborted \/ CommitByReboot \/ HotApply
          \/ NewVersion \/ Crash
  BY <1>4 DEF Boot, MirrorRegistration, Connect, Load, Registered,
         RegisterFails, RegisterRefused, PollAnswered, PollEmpty, HardReset,
         BackUpConfig, SaveConfig, DropCommand, AcceptCommand, Acknowledge,
         Execute, TryNetwork, KeepNetwork, RevertNetwork, JoinAccessPoint,
         OtaGate, UpdateVerified, UpdateAborted, CommitByReboot, HotApply,
         NewVersion, Crash
<1>5. CASE UNCHANGED configVars
  BY <1>5 DEF configVars
<1> QED
  BY <1>1, <1>2, <1>3, <1>4, <1>5
     DEF ConfigNext, DeviceStep

LEMMA StagedStep ==
  ASSUME TypeInv, [ConfigNext]_configVars PROVE (Loaded /\ Received)'
<1> USE DEF TypeInv, NumbersTyped, Loaded, Received, Setup, Handling, Cycle,
            Fault, Restart, Format, Reset
<1>1. CASE Load
  BY <1>1, Bounds DEF Load, RapidConsumed
<1>2. CASE PollAnswered
  BY <1>2, Bounds DEF PollAnswered, Versions
<1>3. CASE Execute
  BY <1>3, Bounds DEF Execute, Continue, ExecuteStage
<1>4. CASE HotApply
  BY <1>4, Bounds DEF HotApply, Current
<1>5. ASSUME NEW p \in Pins, Provision(p)
      PROVE  (Loaded /\ Received)'
  BY <1>5, Bounds DEF Provision
<1>6. ASSUME NEW c \in Commands, MqttCommand(c)
      PROVE  (Loaded /\ Received)'
  BY <1>6, Bounds DEF MqttCommand
<1>7. ASSUME NEW a \in Actions, IssueCommand(a)
      PROVE  (Loaded /\ Received)'
  BY <1>7, Bounds DEF IssueCommand
<1>8. CASE \/ Boot \/ MirrorRegistration \/ Connect \/ Registered
          \/ RegisterFails \/ RegisterRefused \/ PollEmpty \/ HardReset
          \/ BackUpConfig \/ SaveConfig \/ DropCommand \/ AcceptCommand
          \/ Acknowledge \/ TryNetwork \/ KeepNetwork \/ RevertNetwork
          \/ JoinAccessPoint \/ OtaGate \/ UpdateVerified \/ UpdateAborted
          \/ CommitByReboot \/ NewVersion \/ Crash
  BY <1>8, Bounds DEF Boot, MirrorRegistration, Connect, Registered,
         RegisterFails, RegisterRefused, PollEmpty, HardReset, BackUpConfig,
         SaveConfig, DropCommand, AcceptCommand, Acknowledge, TryNetwork,
         KeepNetwork, RevertNetwork, JoinAccessPoint, OtaGate, UpdateVerified,
         UpdateAborted, CommitByReboot, NewVersion, Crash, Continue
<1>9. CASE UNCHANGED configVars
  BY <1>9 DEF configVars
<1> QED
  BY <1>1, <1>2, <1>3, <1>4, <1>5, <1>6, <1>7, <1>8, <1>9
     DEF ConfigNext, DeviceStep

LEMMA StepTypeInv == TypeInv /\ [ConfigNext]_configVars => TypeInv'
<1> SUFFICES ASSUME TypeInv, [ConfigNext]_configVars PROVE TypeInv'
  OBVIOUS
<1> QED
  BY NumbersStep, NamesStep, WorldStep, FlagsStep, StagedStep DEF TypeInv

\* Every variable keeps its type, whatever the number of versions, commands and
\* faults: a rollback is always counted down, and an image is only installed
\* where the configuration at hand offers one.
THEOREM ConfigTypeCorrect == ConfigSpec => []ConfigTypeOK
<1>1. TypeInv => ConfigTypeOK
  BY DEF TypeInv, ConfigTypeOK, NumbersTyped, NamesTyped, WorldTyped, FlagsTyped
<1> QED
  BY InitTypeInv, StepTypeInv, <1>1, PTL DEF ConfigSpec

-----------------------------------------------------------------------------
(* What is on flash *)

\* As long as every save succeeded: before a body is saved the file is what is
\* in use, afterwards it is what the commit will put into use.
DiskInv ==
    ~saveLost =>
        /\ stage \in {"idle", "backup", "save"} => config = live
        /\ stage \in Handling \cup {"inbox", "ota", "flash", "commit"} =>
              config = Current


LEMMA StepDiskInv ==
  ASSUME TypeInv, DiskInv, [ConfigNext]_configVars PROVE DiskInv'
<1> USE DEF TypeInv, NumbersTyped, NamesTyped, FlagsTyped, Received, DiskInv,
            Current, Setup, Handling, Cycle, Fault, Restart, Format, Reset
<1>1. CASE Load
  BY <1>1 DEF Load
<1>2. CASE SaveConfig
  BY <1>2 DEF SaveConfig
<1>3. CASE Execute
  BY <1>3 DEF Execute, Continue, ExecuteStage
<1>4. CASE HotApply
  BY <1>4 DEF HotApply
<1>5. ASSUME NEW p \in Pins, Provision(p)
      PROVE  DiskInv'
  BY <1>5 DEF Provision
<1>6. ASSUME NEW c \in Commands, MqttCommand(c)
      PROVE  DiskInv'
  BY <1>6 DEF MqttCommand
<1>7. ASSUME NEW a \in Actions, IssueCommand(a)
      PROVE  DiskInv'
  BY <1>7 DEF IssueCommand
<1>8. CASE \/ Boot \/ MirrorRegistration \/ Connect \/ Registered
          \/ RegisterFails \/ RegisterRefused \/ PollAnswered \/ PollEmpty
          \/ HardReset \/ BackUpConfig \/ DropCommand \/ AcceptCommand
          \/ Acknowledge \/ TryNetwork \/ KeepNetwork \/ RevertNetwork
          \/ JoinAccessPoint \/ OtaGate \/ UpdateVerified \/ UpdateAborted
          \/ CommitByReboot \/ NewVersion \/ Crash
  BY <1>8 DEF Boot, MirrorRegistration, Connect, Registered, RegisterFails,
         RegisterRefused, PollAnswered, PollEmpty, HardReset, BackUpConfig,
         DropCommand, AcceptCommand, Acknowledge, TryNetwork, KeepNetwork,
         RevertNetwork, JoinAccessPoint, OtaGate, UpdateVerified,
         UpdateAborted, CommitByReboot, NewVersion, Crash, Continue
<1>9. CASE UNCHANGED configVars
  BY <1>9 DEF configVars
<1> QED
  BY <1>1, <1>2, <1>3, <1>4, <1>5, <1>6, <1>7, <1>8, <1>9
     DEF ConfigNext, DeviceStep

\* Between two polls config.json is the configuration in use, so no restart
\* brings an older one back, unless a save failed or LittleFS was formatted.
THEOREM DiskFollows == ConfigSpec => []DiskIsLive
<1>1. ConfigInit => DiskInv
  BY DEF ConfigInit, DiskInv, Handling
<1>2. DiskInv => DiskIsLive
  BY DEF DiskInv, DiskIsLive
<1> QED
  BY InitTypeInv, StepTypeInv, <1>1, StepDiskInv, <1>2, PTL DEF ConfigSpec

-----------------------------------------------------------------------------
(* Commands *)

\* As long as every number was written, the file has the highest one accepted:
\* nothing above it was carried out, nothing below it twice, and the command in
\* hand not yet.
NumberInv ==
    /\ stage \in {"ack", "execute"} => command = lastId /\ command \in Commands
    /\ ~idLost =>
          /\ stage # "boot" => lastId = idFile
          /\ \A c \in Commands :
                /\ executed[c] <= 1
                /\ executed[c] = 1 => c <= idFile
          /\ stage \in {"ack", "execute"} => executed[command] = 0


LEMMA StepNumberInv ==
  ASSUME TypeInv, NumberInv, [ConfigNext]_configVars PROVE NumberInv'
<1> USE DEF TypeInv, NumbersTyped, WorldTyped, FlagsTyped, NumberInv, Commands,
            Setup, Handling, Cycle, Fault, Restart, Format, Reset
<1>1. CASE AcceptCommand
  BY <1>1 DEF AcceptCommand
<1>2. CASE Execute
  BY <1>2 DEF Execute, Continue, ExecuteStage
<1>3. ASSUME NEW p \in Pins, Provision(p)
      PROVE  NumberInv'
  BY <1>3 DEF Provision
<1>4. ASSUME NEW c \in Commands, MqttCommand(c)
      PROVE  NumberInv'
  BY <1>4 DEF MqttCommand
<1>5. ASSUME NEW a \in Actions, IssueCommand(a)
      PROVE  NumberInv'
  BY <1>5 DEF IssueCommand
<1>6. CASE \/ Boot \/ MirrorRegistration \/ Connect \/ Load \/ Registered
          \/ RegisterFails \/ RegisterRefused \/ PollAnswered \/ PollEmpty
          \/ HardReset \/ BackUpConfig \/ SaveConfig \/ DropCommand
          \/ Acknowledge \/ TryNetwork \/ KeepNetwork \/ RevertNetwork
          \/ JoinAccessPoint \/ OtaGate \/ UpdateVerified \/ UpdateAborted
          \/ CommitByReboot \/ HotApply \/ NewVersion \/ Crash
  BY <1>6 DEF Boot, MirrorRegistration, Connect, Load, Registered,
         RegisterFails, RegisterRefused, PollAnswered, PollEmpty, HardReset,
         BackUpConfig, SaveConfig, DropCommand, Acknowledge, TryNetwork,
         KeepNetwork, RevertNetwork, JoinAccessPoint, OtaGate, UpdateVerified,
         UpdateAborted, CommitByReboot, HotApply, NewVersion, Crash, Continue
<1>7. CASE UNCHANGED configVars
  BY <1>7 DEF configVars
<1> QED
  BY <1>1, <1>2, <1>3, <1>4, <1>5, <1>6, <1>7
     DEF ConfigNext, DeviceStep

\* No command is carried out twice, over whichever channels it comes and
\* wherever a crash falls, unless its number could not be written or LittleFS
\* was formatted.
THEOREM ExecutedOnce == ConfigSpec => []CommandsOnce
<1>1. ConfigInit => NumberInv
  BY DEF ConfigInit, NumberInv
<1>2. TypeInv /\ NumberInv => CommandsOnce
  BY DEF TypeInv, WorldTyped, NumberInv, CommandsOnce
<1> QED
  BY InitTypeInv, StepTypeInv, <1>1, StepNumberInv, <1>2, PTL DEF ConfigSpec

-----------------------------------------------------------------------------
(* The trial network *)

\* The new network is written only after it has answered.
TrialInv ==
    /\ stage = "keep" => verified
    /\ network = "new" \/ netBackup = "new" => verified


LEMMA StepTrialInv ==
  ASSUME TypeInv, TrialInv, [ConfigNext]_configVars PROVE TrialInv'
<1> USE DEF TypeInv, FlagsTyped, TrialInv, Fault, Restart, Format, Reset
<1>1. CASE Connect
  BY <1>1 DEF Connect
<1>2. CASE TryNetwork
  BY <1>2 DEF TryNetwork
<1>3. CASE KeepNetwork
  BY <1>3 DEF KeepNetwork, Continue
<1>4. CASE RevertNetwork
  BY <1>4 DEF RevertNetwork, Continue
<1>5. CASE Execute
  BY <1>5 DEF Execute, Continue, ExecuteStage
<1>6. ASSUME NEW p \in Pins, Provision(p)
      PROVE  TrialInv'
  BY <1>6 DEF Provision
<1>7. ASSUME NEW c \in Commands, MqttCommand(c)
      PROVE  TrialInv'
  BY <1>7 DEF MqttCommand
<1>8. ASSUME NEW a \in Actions, IssueCommand(a)
      PROVE  TrialInv'
  BY <1>8 DEF IssueCommand
<1>9. CASE \/ Boot \/ MirrorRegistration \/ Load \/ Registered \/ RegisterFails
          \/ RegisterRefused \/ PollAnswered \/ PollEmpty \/ HardReset
          \/ BackUpConfig \/ SaveConfig \/ DropCommand \/ AcceptCommand
          \/ Acknowledge \/ JoinAccessPoint \/ OtaGate \/ UpdateVerified
          \/ UpdateAborted \/ CommitByReboot \/ HotApply \/ NewVersion
          \/ Crash
  BY <1>9 DEF Boot, MirrorRegistration, Load, Registered, RegisterFails,
         RegisterRefused, PollAnswered, PollEmpty, HardReset, BackUpConfig,
         SaveConfig, DropCommand, AcceptCommand, Acknowledge, JoinAccessPoint,
         OtaGate, UpdateVerified, UpdateAborted, CommitByReboot, HotApply,
         NewVersion, Crash, Continue
<1>10. CASE UNCHANGED configVars
  BY <1>10 DEF configVars
<1> QED
  BY <1>1, <1>2, <1>3, <1>4, <1>5, <1>6, <1>7, <1>8, <1>9, <1>10
     DEF ConfigNext, DeviceStep

\* A network is neither kept nor copied before the server has answered over it,
\* so a crash in the middle of a trial comes back on the old one.
THEOREM TrialSafe == ConfigSpec => []TrialNotKept
<1>1. ConfigInit => TrialInv
  BY DEF ConfigInit, TrialInv
<1>2. TrialInv => TrialNotKept
  BY DEF TrialInv, TrialNotKept
<1> QED
  BY InitTypeInv, StepTypeInv, <1>1, StepTrialInv, <1>2, PTL DEF ConfigSpec

=============================================================================
