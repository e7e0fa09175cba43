----------------------------- MODULE ConfigLife -----------------------------
(***************************************************************************)
(* What a WiFi device keeps across a reboot, and what a poll may do to it: *)
(* the registration and its NVS copy, the configuration and its backup,    *)
(* the number of the last command, the WiFi network, the running image.    *)
(* A configuration is its version; a reboot or a reset, and a crash between *)
(* any two writes, starts the device again with the files it left.         *)
(*                                                                         *)
(* The server and the commands it queues are the environment.              *)
(***************************************************************************)
EXTENDS Naturals, Sequences

CONSTANTS
    MaxVersion,     \* bound: the configurations 1..MaxVersion the server goes through
    BootFields,     \* BootFields[v]: the fields of v read only at boot
    Offers,         \* Offers[v]: the image v asks to install, 0 for none
    MaxCommands,    \* bound: the commands 1..MaxCommands
    Actions,        \* what a command may ask for
    Pins,           \* the registrations an owner may enter: right, wrong
    MaxFaults       \* bound: crashes, failed writes and resets together

Versions == 1..MaxVersion
Commands == 1..MaxCommands
ActionTypes == {"reboot", "forceOta", "report", "wifi", "provision"}

ASSUME ConfigAssumption ==
    /\ MaxVersion \in Nat \ {0} /\ MaxCommands \in Nat /\ MaxFaults \in Nat
    /\ Offers \in [Versions -> Nat]
    /\ Actions \subseteq ActionTypes
    /\ Pins \subseteq {"right", "wrong"}

VARIABLES
    stage,          \* where setup(), apiConfig() or a command is
    \* LittleFS: config.json and its .bak (0: no file), deviceRegistration.json,
    \* and the inbox's last command
    config, bak, registration, idFile,
    \* NVS: the registration's copy, the network WiFi.begin() keeps, its copy
    regBackup, network, netBackup,
    rapid,          \* rtcRapidConfigRebootCount, in RTC memory
    image,          \* the running image
    \* RAM: deviceConfig, configCandidate (0: none received), the command in
    \* hand (0: none) and its channel, lastProcessedId, the registration in use
    live, candidate, command, channel, lastId, pin,
    \* the server: its version, what each command issued so far asks for, and
    \* the commands not acknowledged
    server, issued, unacked,
    faults,
    \* history: executions of a command; whether a number was not written, the
    \* last configuration; whether the trial network answered, the registration
    \* entered last was refused
    executed, idLost, saveLost, verified, refused

files == <<config, bak, registration, idFile>>
nvs == <<regBackup, network, netBackup>>
inHand == <<candidate, command, channel>>
ram == <<live, lastId, pin, inHand>>
world == <<server, issued, unacked>>
history == <<executed, idLost, saveLost, verified, refused>>
configVars == <<stage, files, nvs, rapid, image, ram, world, faults, history>>

Networks == {"none", "home", "new", "ap"}
Served == {"home", "new"}       \* the networks with a way to the server
Setup == {"boot", "provision", "mirror", "connect", "load", "register"}
Handling == {"ack", "execute", "flashForced", "trial", "keep", "revert", "away"}
Cycle == {"idle", "backup", "save", "inbox", "ota", "flash", "commit"}

ConfigTypeOK ==
    /\ stage \in Setup \cup Handling \cup Cycle
    /\ {config, bak, live, candidate} \subseteq 0..MaxVersion
    /\ server \in Versions
    /\ {idFile, lastId, command} \subseteq 0..MaxCommands
    /\ issued \in Seq(Actions) /\ Len(issued) <= MaxCommands
    /\ unacked \subseteq DOMAIN issued
    /\ {registration, regBackup, pin} \subseteq Pins \cup {"none"}
    /\ {network, netBackup} \subseteq Networks
    /\ channel \in {"none", "poll", "mqtt"}
    /\ rapid \in 0..3 /\ image \in Nat /\ faults \in 0..MaxFaults
    /\ executed \in [Commands -> Nat]
    /\ {idLost, saveLost, verified, refused} \subseteq BOOLEAN

ConfigInit ==
    /\ stage = "boot"
    /\ config = 0 /\ bak = 0 /\ registration = "none" /\ idFile = 0
    /\ regBackup = "none" /\ network = "none" /\ netBackup = "none"
    /\ rapid = 0 /\ image = 1
    /\ live = 0 /\ lastId = 0 /\ pin = "none"
    /\ candidate = 0 /\ command = 0 /\ channel = "none"
    /\ server = 1 /\ issued = << >> /\ unacked = {}
    /\ faults = 0
    /\ executed = [c \in Commands |-> 0]
    /\ idLost = FALSE /\ saveLost = FALSE /\ verified = FALSE
    /\ refused = FALSE

-----------------------------------------------------------------------------
(* Files.  saveFile writes a .tmp and renames it: a file changes whole or  *)
(* not at all.  After three failures to open in a row it formats.          *)

Fault == faults < MaxFaults /\ faults' = faults + 1

Restart ==
    /\ stage' = "boot"
    /\ live' = 0 /\ lastId' = 0 /\ pin' = "none"
    /\ candidate' = 0 /\ command' = 0 /\ channel' = "none"

Format ==
    /\ config' = 0 /\ bak' = 0 /\ registration' = "none" /\ idFile' = 0
    /\ idLost' = TRUE /\ saveLost' = TRUE

(* PowerController::reset: only LittleFS is formatted. *)
Reset == Format /\ Restart /\ UNCHANGED <<nvs, rapid, image>>

(***************************************************************************)
(* setup()                                                                 *)
(***************************************************************************)

(* The inbox's number, then loadRegistrationWithFallback. *)
Boot ==
    /\ stage = "boot"
    /\ lastId' = idFile
    /\ \/ /\ registration # "none"
          /\ stage' = "connect" /\ pin' = registration
          /\ UNCHANGED <<registration, faults>>
       \/ /\ registration = "none" /\ regBackup # "none"
          /\ stage' = "connect" /\ pin' = regBackup
          /\ \/ registration' = regBackup /\ UNCHANGED faults
             \/ Fault /\ UNCHANGED registration
       \/ /\ registration = "none" /\ regBackup = "none"
          /\ stage' = "provision"
          /\ UNCHANGED <<registration, pin, faults>>
    /\ UNCHANGED <<config, bak, idFile, nvs, rapid, image, live, inHand, world,
                   history>>

(* The serial window or the captive portal: the owner's network and pin. *)
Provision(p) ==
    /\ stage = "provision"
    /\ stage' = "mirror" /\ pin' = p /\ network' = "home" /\ refused' = FALSE
    /\ \/ registration' = p /\ UNCHANGED faults
       \/ Fault /\ UNCHANGED registration
    /\ UNCHANGED <<config, bak, idFile, regBackup, netBackup, rapid, image,
                   live, lastId, inHand, world, executed, idLost, saveLost,
                   verified>>

(* saveRegistrationBackup.  The portal then reboots; the serial path reads  *)
(* the registration again, which is the same step here.                    *)
MirrorRegistration ==
    /\ stage = "mirror"
    /\ \/ regBackup' = pin /\ UNCHANGED faults
       \/ Fault /\ UNCHANGED regBackup
    /\ Restart
    /\ UNCHANGED <<files, network, netBackup, rapid, image, world, history>>

(* initializeWifi: the kept network, or one entered in its portal, is       *)
(* copied once joined; a portal that times out leaves the retry to loop(). *)
Connect ==
    /\ stage = "connect" /\ stage' = "load"
    /\ \/ \E n \in {network, "home"} \ {"none"} :
             /\ network' = n
             /\ \/ netBackup' = n /\ UNCHANGED faults
                \/ Fault /\ UNCHANGED netBackup
       \/ UNCHANGED <<network, netBackup, faults>>
    /\ UNCHANGED <<files, regBackup, rapid, image, ram, world, history>>

\* (mutant) The rollback leaves its trigger armed.
MutRapidConsumed == rapid

\* Three quick reboots in a row trigger it once.
RapidConsumed == IF rapid >= 3 THEN 0 ELSE rapid

(* consumeRollbackTrigger: the third quick reboot in a row loads the backup *)
(* and saves it over config.json.                                          *)
Load ==
    LET rollback == rapid >= 3 /\ bak # 0
        loaded == IF rollback THEN bak ELSE config
    IN  /\ stage = "load"
        /\ rapid' = RapidConsumed
        /\ live' = loaded
        /\ stage' = IF loaded = 0 THEN "register" ELSE "idle"
        /\ \/ config' = loaded /\ saveLost' = FALSE /\ UNCHANGED faults
           \/ /\ rollback /\ Fault
              /\ saveLost' = TRUE /\ UNCHANGED config
        /\ UNCHANGED <<bak, registration, idFile, nvs, image, lastId, pin,
                       inHand, world, executed, idLost, verified, refused>>

(* registerDevice: the configuration of a registration the server accepts. *)
Registered ==
    /\ stage = "register" /\ pin = "right" /\ network \in Served
    /\ \/ config' = server /\ UNCHANGED <<faults, saveLost>>
       \/ Fault /\ saveLost' = TRUE /\ UNCHANGED config
    /\ Restart
    /\ UNCHANGED <<bak, registration, idFile, nvs, rapid, image, world,
                   executed, idLost, verified, refused>>

RegisterFails ==
    /\ stage = "register"
    /\ Restart
    /\ UNCHANGED <<files, nvs, rapid, image, world, faults, history>>

RegisterRefused ==
    /\ stage = "register" /\ pin = "wrong" /\ network \in Served
    /\ Reset
    /\ refused' = TRUE
    /\ UNCHANGED <<world, faults, executed, verified>>

(***************************************************************************)
(* apiConfig(), from loop() or from a ForceConfigSync over MQTT            *)
(***************************************************************************)

(* The body carries a command the server still waits for, if there is one. *)
PollAnswered ==
    /\ stage = "idle" /\ network \in Served
    /\ server # live \/ unacked # {}
    /\ stage' = "backup" /\ candidate' = server /\ channel' = "poll"
    /\ \/ unacked = {} /\ command' = 0
       \/ command' \in unacked
    /\ UNCHANGED <<files, nvs, rapid, image, live, lastId, pin, world, faults,
                   history>>

(* No body, an error, or one that does not parse: only the image offered by *)
(* the configuration in use is looked at.                                  *)
PollEmpty ==
    /\ stage = "idle" /\ stage' = "ota" /\ channel' = "poll"
    /\ UNCHANGED <<files, nvs, rapid, image, live, candidate, command, lastId,
                   pin, world, faults, history>>

(* The reset flag, in a body or after a 401. *)
HardReset ==
    /\ stage = "idle" /\ network \in Served
    /\ Fault /\ Reset
    /\ UNCHANGED <<world, executed, verified, refused>>

(* saveConfigFile: the file there, if any, becomes the backup; failing to   *)
(* open it may format the file system all the same...                      *)
BackUpConfig ==
    /\ stage = "backup" /\ stage' = "save"
    /\ \/ /\ bak' = IF config = 0 THEN bak ELSE config
          /\ UNCHANGED <<config, registration, idFile, faults, saveLost,
                          idLost>>
       \/ config # 0 /\ Fault /\ UNCHANGED <<files, saveLost, idLost>>
       \/ config # 0 /\ Fault /\ Format
    /\ UNCHANGED <<nvs, rapid, image, ram, world, executed, verified,
                   refused>>

\* (mutant) Only a configuration that needs a reboot is saved.
MutSaveConfig ==
    /\ stage = "save" /\ stage' = "inbox"
    /\ config' = IF BootFields[candidate] # BootFields[live]
                 THEN candidate ELSE config
    /\ UNCHANGED <<bak, registration, idFile, nvs, rapid, image, ram, world,
                   faults, history>>

(* ...and the body the file; whether it did is not looked at. *)
SaveConfig ==
    /\ stage = "save" /\ stage' = "inbox"
    /\ \/ /\ config' = candidate /\ saveLost' = FALSE
          /\ UNCHANGED <<bak, registration, idFile, faults, idLost>>
       \/ Fault /\ saveLost' = TRUE /\ UNCHANGED <<files, idLost>>
       \/ Fault /\ Format
    /\ UNCHANGED <<nvs, rapid, image, ram, world, executed, verified,
                   refused>>

(***************************************************************************)
(* The inbox and the commands                                              *)
(***************************************************************************)

(* A message on the command topic; a repeated one can come at any time. *)
MqttCommand(c) ==
    /\ stage = "idle" /\ network \in Served /\ c \in DOMAIN issued
    /\ stage' = "inbox" /\ command' = c /\ channel' = "mqtt"
    /\ UNCHANGED <<files, nvs, rapid, image, live, candidate, lastId, pin,
                   world, faults, history>>

(* A command ends where its channel goes on. *)
Continue == IF channel = "poll" THEN "ota" ELSE "commit"

(* None there, one already seen, expired, or not to be dated yet. *)
DropCommand ==
    /\ stage = "inbox" /\ stage' = Continue /\ command' = 0
    /\ UNCHANGED <<files, nvs, rapid, image, live, candidate, channel, lastId,
                   pin, world, faults, history>>

\* (mutant) The number is kept in RAM only.
MutAcceptCommand ==
    /\ stage = "inbox" /\ command > lastId
    /\ stage' = "ack" /\ lastId' = command
    /\ UNCHANGED <<files, nvs, rapid, image, live, pin, inHand, world,
                   faults, history>>

(* Its number is kept before the ack and before it is carried out.  The    *)
(* file is written in place: not opened it stays, cut short it reads as 0. *)
AcceptCommand ==
    /\ stage = "inbox" /\ command > lastId
    /\ stage' = "ack" /\ lastId' = command
    /\ \/ idFile' = command /\ UNCHANGED <<faults, idLost>>
       \/ Fault /\ idLost' = TRUE /\ idFile' \in {idFile, 0}
    /\ UNCHANGED <<config, bak, registration, nvs, rapid, image, live, pin,
                   inHand, world, executed, saveLost, verified,
                   refused>>

(* The ack is sent once; lost, the server goes on sending the command. *)
Acknowledge ==
    /\ stage = "ack" /\ stage' = "execute"
    /\ \E got \in BOOLEAN :
          unacked' = IF got THEN unacked \ {command} ELSE unacked
    /\ UNCHANGED <<files, nvs, rapid, image, ram, server, issued, faults,
                   history>>

(* The configuration a command or the image gate reads. *)
Current == IF candidate # 0 THEN candidate ELSE live

(* Where processPendingCommand goes for each kind of command. *)
ExecuteStage(action) ==
    CASE action = "forceOta" /\ Offers[Current] # 0 -> "flashForced"
      [] action = "wifi" -> "trial"
      [] action = "provision" -> "away"
      [] OTHER -> Continue

Execute ==
    /\ stage = "execute"
    /\ executed' = [executed EXCEPT ![command] = @ + 1]
    /\ \/ issued[command] = "reboot" /\ Restart
       \/ /\ issued[command] # "reboot"
          /\ stage' = ExecuteStage(issued[command])
          /\ command' = 0
          /\ UNCHANGED <<live, candidate, channel, lastId, pin>>
    /\ UNCHANGED <<files, nvs, rapid, image, world, faults, idLost, saveLost,
                   verified, refused>>

\* (mutant) The trial is made with persistence on.
MutTryNetwork ==
    /\ stage = "trial"
    /\ network' = "new"
    /\ \/ stage' = "keep" /\ verified' = TRUE
       \/ stage' = "revert" /\ UNCHANGED verified
    /\ UNCHANGED <<files, regBackup, netBackup, rapid, image, ram, world,
                   faults, executed, idLost, saveLost, refused>>

(* switchWifiNetwork: the new network is tried with persistence off, and   *)
(* kept when a poll over it is answered.                                   *)
TryNetwork ==
    /\ stage = "trial"
    /\ \/ stage' = "keep" /\ verified' = TRUE
       \/ stage' = "revert" /\ UNCHANGED verified
    /\ UNCHANGED <<files, nvs, rapid, image, ram, world, faults, executed,
                   idLost, saveLost, refused>>

KeepNetwork ==
    /\ stage = "keep"
    /\ \/ /\ network # "new" /\ network' = "new"
          /\ UNCHANGED <<stage, netBackup, faults>>
       \/ /\ network = "new" /\ stage' = Continue
          /\ \/ netBackup' = "new" /\ UNCHANGED faults
             \/ Fault /\ UNCHANGED netBackup
          /\ UNCHANGED network
    /\ UNCHANGED <<files, regBackup, rapid, image, ram, world, history>>

(* Back to the copied network, blank when no boot ever joined one.  Also   *)
(* the end of provisionDiscoveredDevice.                                   *)
RevertNetwork ==
    /\ stage = "revert" /\ stage' = Continue
    /\ network' = netBackup
    /\ UNCHANGED <<files, regBackup, netBackup, rapid, image, ram, world,
                   faults, history>>

(* provisionDiscoveredDevice joins the other device's access point with    *)
(* persistence on, posts to it, and comes back.                            *)
JoinAccessPoint ==
    /\ stage = "away" /\ stage' = "revert"
    /\ network' = "ap"
    /\ UNCHANGED <<files, regBackup, netBackup, rapid, image, ram, world,
                   faults, history>>

(***************************************************************************)
(* The image, and the commit                                               *)
(***************************************************************************)

OtaGate ==
    /\ stage = "ota"
    /\ stage' = IF Offers[Current] \in {0, image} THEN "commit" ELSE "flash"
    /\ UNCHANGED <<files, nvs, rapid, image, ram, world, faults, history>>

(* Downloaded, hashed and finished; the reboot is not counted. *)
UpdateVerified ==
    /\ stage \in {"flash", "flashForced"}
    /\ image' = Offers[Current]
    /\ Restart
    /\ UNCHANGED <<files, nvs, rapid, world, faults, history>>

(* Anything short of that aborts before the image is made bootable. *)
UpdateAborted ==
    /\ stage \in {"flash", "flashForced"}
    /\ stage' = IF stage = "flashForced" THEN Continue ELSE "commit"
    /\ UNCHANGED <<files, nvs, rapid, image, ram, world, faults, history>>

(* A field read at boot has changed. *)
RebootRequired == candidate # 0 /\ BootFields[candidate] # BootFields[live]

(* Then reboot, counting one within a minute of the boot. *)
CommitByReboot ==
    /\ stage = "commit" /\ RebootRequired
    /\ rapid' \in {0, rapid + 1}
    /\ Restart
    /\ UNCHANGED <<files, nvs, image, world, faults, history>>

\* (mutant) The configuration received is not put into use.
MutHotApply ==
    /\ stage = "commit" /\ ~RebootRequired
    /\ stage' = "idle"
    /\ live' = live
    /\ candidate' = 0 /\ command' = 0 /\ channel' = "none"
    /\ UNCHANGED <<files, nvs, rapid, image, lastId, pin, world, faults,
                   history>>

(* Otherwise it is in use at once, or nothing was received. *)
HotApply ==
    /\ stage = "commit" /\ ~RebootRequired
    /\ stage' = "idle"
    /\ live' = Current
    /\ candidate' = 0 /\ command' = 0 /\ channel' = "none"
    /\ UNCHANGED <<files, nvs, rapid, image, lastId, pin, world, faults,
                   history>>

(***************************************************************************)
(* The environment, and the whole                                          *)
(***************************************************************************)

NewVersion ==
    /\ server < MaxVersion /\ server' = server + 1
    /\ UNCHANGED <<stage, files, nvs, rapid, image, ram, issued, unacked,
                   faults, history>>

IssueCommand(a) ==
    /\ Len(issued) < MaxCommands
    /\ issued' = Append(issued, a)
    /\ unacked' = unacked \cup {Len(issued) + 1}
    /\ UNCHANGED <<stage, files, nvs, rapid, image, ram, server, faults,
                   history>>

(* A panic, a watchdog reset or a power cut; only the last is sure to clear *)
(* RTC memory.                                                             *)
Crash ==
    /\ stage # "boot"
    /\ Fault /\ Restart
    /\ rapid' \in {0, rapid}
    /\ UNCHANGED <<files, nvs, image, world, history>>

DeviceStep ==
    \/ Boot \/ MirrorRegistration \/ Connect \/ Load
    \/ \E p \in Pins : Provision(p)
    \/ Registered \/ RegisterFails \/ RegisterRefused
    \/ PollAnswered \/ PollEmpty \/ BackUpConfig \/ SaveConfig
    \/ DropCommand \/ AcceptCommand \/ Acknowledge \/ Execute
    \/ TryNetwork \/ KeepNetwork \/ RevertNetwork \/ JoinAccessPoint
    \/ OtaGate \/ UpdateVerified \/ UpdateAborted
    \/ CommitByReboot \/ HotApply

ConfigNext ==
    \/ DeviceStep
    \/ HardReset \/ Crash
    \/ NewVersion \/ \E a \in Actions : IssueCommand(a)
    \/ \E c \in Commands : MqttCommand(c)

ConfigSpec == ConfigInit /\ [][ConfigNext]_configVars

(* The device runs; a server it can reach sooner or later registers it and *)
(* answers a poll with a body, when it has one.                            *)
ConfigFairSpec ==
    /\ ConfigSpec
    /\ WF_configVars(DeviceStep)
    /\ SF_configVars(PollAnswered)
    /\ SF_configVars(Registered)

-----------------------------------------------------------------------------
(* Between two polls the configuration in use is the one on flash, so a    *)
(* restart does not go back to an older one - unless the last save failed, *)
(* which apiConfig does not look at (ServiceController.cpp:521), or the    *)
(* file system was formatted since.                                        *)
DiskIsLive == stage = "idle" /\ ~saveLost => config = live

(* A command is carried out once, over whichever channels and however often *)
(* it comes and wherever a crash falls - unless its number could not be    *)
(* written or the file system was formatted.                               *)
CommandsOnce == \A c \in Commands : executed[c] > 1 => idLost

(* A network is neither kept nor copied before the server has answered over *)
(* it: a crash in the middle of the trial comes back on the old one.       *)
TrialNotKept == "new" \in {network, netBackup} => verified

(* The device ends up on the server's configuration - or its owner entered *)
(* a registration the server refuses, or it was left on a network from     *)
(* which there is no server: by a crash in provisionDiscoveredDevice, or a *)
(* revert to a copy that was never made.                                   *)
ConfigConverges ==
    <>[](\/ live = server
         \/ "wrong" \in {registration, regBackup}
         \/ network \notin Served)

(* DeviceController.cpp:509: a refused registration is not tried again     *)
(* before the owner has entered one, "wiping and restarting the config     *)
(* portal".                                                                *)
RefusedAsksAgain == stage = "register" => ~refused
=============================================================================
