--------------------------- MODULE UplinkBuffers ---------------------------
(***************************************************************************)
(* What a WiFi device still owes its server: sensor readings in the RAM    *)
(* array and in the files of /buffer (SensorController), the uplinks of    *)
(* LoRa nodes it relays in the files of /relaybuffer                       *)
(* (LoRaGatewayRelayController), both on one LittleFS partition            *)
(* (StorageController).  The loop task is the only one to touch them, so a *)
(* step is one call of loop(); mishaps strike between any two steps.       *)
(*                                                                         *)
(* A reading or an uplink is its number.  A payload's bytes, its encoding  *)
(* and the retry after a 401 are left out, and a result's error flag is    *)
(* taken at its word (DeviceCycle shows when that may be done).            *)
(***************************************************************************)
EXTENDS Naturals, FiniteSets

CONSTANTS
    MaxItems,       \* bound: how many readings and uplinks are made
    MaxMishaps,     \* bound: how many mishaps happen
    LastName,       \* bound: file names (five digits in the code)
    SpillAt,        \* readings that make SENSOR_BUFFER_SPILL_BYTES
    Capacity,       \* files that make the partition 70 % full
    MAX_CONSECUTIVE_OPEN_FAILURES   \* 3 in the code

Buffers == {"sensor", "relay"}

ASSUME UplinkAssumption ==
    /\ MaxItems \in [Buffers -> Nat]
    /\ MaxMishaps \in Nat /\ LastName \in Nat /\ Capacity \in Nat
    /\ SpillAt \in Nat \ {0}
    /\ MAX_CONSECUTIVE_OPEN_FAILURES \in Nat \ {0}

VARIABLES
    site,           \* where loop() is
    answer,         \* result of the request made there: "none", "ok", "error"
    ram,            \* sensorDataJsonArray
    current,        \* the uplink poll() is relaying, {} when there is none
    files,          \* the files of each buffer: a name and the items in it
    orphans,        \* names of the .tmp files left in each
    folders,        \* buffers whose directory exists
    nextIndex,      \* the static of that name, 0 for -1
    openFailures,   \* consecutiveOpenFailures
    made, got, lost,    \* items so far; had by the server; by nobody
    mishaps

requestVars == <<site, answer>>
memory == <<ram, current>>
flash == <<files, orphans, folders, nextIndex, openFailures>>
history == <<made, got, lost, mishaps>>
vars == <<requestVars, memory, flash, history>>

Sites == {"poll", "save", "radio", "relayFlush", "relaySend", "flush", "read",
          "drain", "push", "keep", "idle"}
FlushSites == {"relayFlush", "flush", "drain"}
BufferOf == [s \in Sites |-> IF s \in {"relayFlush", "relaySend"}
                             THEN "relay" ELSE "sensor"]

File == [name : Nat, items : SUBSET Nat]
Stored(b) == UNION {f.items : f \in files[b]}
InRam(b) == IF b = "sensor" THEN ram ELSE current
Held(b) == InRam(b) \cup Stored(b)

TypeOK ==
    /\ site \in Sites
    /\ answer \in {"none", "ok", "error"}
    /\ ram \subseteq Nat /\ current \subseteq Nat
    /\ files \in [Buffers -> SUBSET File]
    /\ orphans \in [Buffers -> SUBSET Nat]
    /\ folders \subseteq Buffers
    /\ nextIndex \in [Buffers -> Nat]
    /\ openFailures \in 0..MAX_CONSECUTIVE_OPEN_FAILURES - 1
    /\ made \in [Buffers -> Nat]
    /\ got \in [Buffers -> SUBSET Nat]
    /\ lost \in [Buffers -> SUBSET Nat]
    /\ mishaps \in Nat

Init ==
    /\ site = "poll" /\ answer = "none"
    /\ ram = {} /\ current = {}
    /\ files = [b \in Buffers |-> {}] /\ orphans = [b \in Buffers |-> {}]
    /\ folders = {} /\ nextIndex = [b \in Buffers |-> 0] /\ openFailures = 0
    /\ made = [b \in Buffers |-> 0]
    /\ got = [b \in Buffers |-> {}] /\ lost = [b \in Buffers |-> {}]
    /\ mishaps = 0

-----------------------------------------------------------------------------
(* StorageController *)

Names(b) == {f.name : f \in files[b]} \cup orphans[b]
Used == Cardinality(files["sensor"]) + Cardinality(files["relay"])
          + Cardinality(orphans["sensor"]) + Cardinality(orphans["relay"])

\* Names have five digits, so the order of the names is that of the numbers.
IsOldest(b, f) == f \in files[b] /\ \A g \in files[b] : f.name <= g.name

\* The number of the next file: after the highest survivor, .tmp files
\* included, for the first file of a boot.
IsNextIndex(b, n) ==
    IF nextIndex[b] = 0
    THEN (\A m \in Names(b) : m < n) /\ (n = 1 \/ n - 1 \in Names(b))
    ELSE n = nextIndex[b]

\* The directory is made once per boot, before the first file.
FoldersAfter(b) == IF nextIndex[b] = 0 THEN folders \cup {b} ELSE folders

\* A fault of the environment is a mishap by chance; a full partition or a
\* directory that is gone makes one whenever it is met.
Counted == mishaps' = mishaps + 1
Chance == mishaps < MaxMishaps /\ Counted

\* Flash that fails once may go on failing.
OpenFault == Counted /\ (mishaps < MaxMishaps \/ openFailures > 0)

Lost(b, S) == lost[b] \cup (S \ got[b])

\* (mutant) The partition is formatted one failure late.
MutFormatted == openFailures = MAX_CONSECUTIVE_OPEN_FAILURES

Formatted == openFailures + 1 = MAX_CONSECUTIVE_OPEN_FAILURES

\* saveFile cannot open its .tmp file; the third time in a row it formats the
\* partition: nothing of either buffer is left, nor its directory.
OpenFails(foldersNow, dropped) ==
    /\ openFailures' = IF Formatted THEN 0 ELSE openFailures + 1
    /\ files' = IF Formatted THEN [b \in Buffers |-> {}] ELSE files
    /\ orphans' = IF Formatted THEN [b \in Buffers |-> {}] ELSE orphans
    /\ folders' = IF Formatted THEN {} ELSE foldersNow
    /\ lost' = [b \in Buffers |->
                  Lost(b, dropped[b] \cup IF Formatted THEN Stored(b) ELSE {})]

\* All of RAM is gone: what was not on flash, and the statics.
Restarted ==
    /\ site' = "poll" /\ answer' = "none"
    /\ ram' = {} /\ current' = {}
    /\ nextIndex' = [b \in Buffers |-> 0] /\ openFailures' = 0
    /\ lost' = [b \in Buffers |-> Lost(b, InRam(b))]
    /\ UNCHANGED <<made, got>>

\* A power failure, a panic, the watchdog, or a restart the code asks for.
Reboot ==
    /\ Chance
    /\ Restarted
    /\ UNCHANGED <<files, orphans, folders>>

-----------------------------------------------------------------------------
(* bufferSensorDataToDisk, bufferRelayUplinkToDisk *)

Spilling(b) ==
    \/ b = "sensor" /\ site = "keep" /\ Cardinality(ram) >= SpillAt
    \/ b = "relay" /\ site = "relaySend" /\ answer = "error"

\* RAM restarts empty, whether the spill succeeded or not.
AfterSpill(b) ==
    /\ \/ b = "sensor" /\ site' = "idle" /\ ram' = {} /\ UNCHANGED current
       \/ b = "relay" /\ site' \in {"flush", "idle"} /\ current' = {}
          /\ UNCHANGED ram
    /\ answer' = "none"
    /\ UNCHANGED <<made, got>>

Dropped(b) == [c \in Buffers |-> IF c = b THEN InRam(b) ELSE {}]

\* The 70 % cap, and for sensor data the heap, are looked at first.
Discarded(b) ==
    /\ Spilling(b)
    /\ \/ Used >= Capacity /\ Counted
       \/ b = "sensor" /\ Chance
    /\ lost' = [c \in Buffers |-> Lost(c, Dropped(b)[c])]
    /\ AfterSpill(b)
    /\ UNCHANGED flash

\* What follows once the file has its name, used up whatever comes of it.
Named(b, n) ==
    /\ Spilling(b) /\ Used < Capacity
    /\ n \in 1..LastName /\ IsNextIndex(b, n)
    /\ nextIndex' = [nextIndex EXCEPT ![b] = n + 1]

Saved(b) ==
    /\ \E n \in 1..LastName :
          /\ Named(b, n)
          /\ files' = [files EXCEPT ![b] =
                          @ \cup {[name |-> n, items |-> InRam(b)]}]
    /\ b \in FoldersAfter(b) /\ folders' = FoldersAfter(b)
    /\ openFailures' = 0
    /\ AfterSpill(b)
    /\ UNCHANGED <<orphans, lost, mishaps>>

NotOpened(b) ==
    /\ \E n \in 1..LastName : Named(b, n)
    /\ IF b \in FoldersAfter(b) THEN OpenFault ELSE Counted
    /\ OpenFails(FoldersAfter(b), Dropped(b))
    /\ AfterSpill(b)

\* The write is short and the .tmp file removed, or the rename fails and it
\* stays.
NotWritten(b) ==
    /\ b \in FoldersAfter(b) /\ folders' = FoldersAfter(b)
    /\ Chance
    /\ \E n \in 1..LastName :
          /\ Named(b, n)
          /\ orphans' \in {orphans, [orphans EXCEPT ![b] = @ \cup {n}]}
    /\ openFailures' = 0
    /\ lost' = [c \in Buffers |-> Lost(c, Dropped(b)[c])]
    /\ AfterSpill(b)
    /\ UNCHANGED files

\* The device stops between opening the .tmp file and renaming it.
CutShort(b) ==
    /\ Spilling(b) /\ Used < Capacity
    /\ b \in FoldersAfter(b) /\ folders' = FoldersAfter(b)
    /\ Chance
    /\ \E n \in 1..LastName :
          /\ IsNextIndex(b, n)
          /\ orphans' = [orphans EXCEPT ![b] = @ \cup {n}]
    /\ Restarted
    /\ UNCHANGED files

-----------------------------------------------------------------------------
(* One request *)

Offered(b, S) ==
    \/ site \in FlushSites /\ BufferOf[site] = b
       /\ \E f \in files[b] : IsOldest(b, f) /\ S = f.items
    \/ site = "push" /\ b = "sensor" /\ S = ram
    \/ site = "relaySend" /\ b = "relay" /\ S = current

\* The server has the batch and says so; or does not say so in time; or never
\* gets it.
PostAnswered ==
    /\ answer = "none" /\ answer' = "ok"
    /\ \E b \in Buffers : \E S \in {InRam(b)} \cup {f.items : f \in files[b]} :
          Offered(b, S) /\ got' = [got EXCEPT ![b] = @ \cup S]
    /\ UNCHANGED <<site, memory, flash, made, lost, mishaps>>

PostFails ==
    /\ answer = "none" /\ answer' = "error"
    /\ \E b \in Buffers : \E S \in {InRam(b)} \cup {f.items : f \in files[b]} :
          /\ Offered(b, S)
          /\ got' \in {got, [got EXCEPT ![b] = @ \cup S]}
    /\ UNCHANGED <<site, memory, flash, made, lost, mishaps>>

-----------------------------------------------------------------------------
(* flushBufferedSensorData, flushBufferedRelayUplinks *)

RemoveFile(b, f) ==
    /\ files' = [files EXCEPT ![b] = @ \ {f}]
    /\ UNCHANGED <<orphans, folders, nextIndex, openFailures>>

\* (mutant) A file is deleted whatever its post came to.
MutFileFlushed ==
    /\ site \in FlushSites /\ answer # "none" /\ answer' = "none"
    /\ \E f \in files[BufferOf[site]] :
          IsOldest(BufferOf[site], f) /\ RemoveFile(BufferOf[site], f)
    /\ UNCHANGED <<site, memory, history>>

\* Per-file delete, after its own 2xx.
FileFlushed ==
    /\ site \in FlushSites /\ answer = "ok" /\ answer' = "none"
    /\ \E f \in files[BufferOf[site]] :
          IsOldest(BufferOf[site], f) /\ RemoveFile(BufferOf[site], f)
    /\ UNCHANGED <<site, memory, history>>

\* A file that cannot be read is dropped unsent.
FileUnreadable ==
    /\ site \in FlushSites /\ answer = "none"
    /\ Chance
    /\ \E f \in files[BufferOf[site]] :
          /\ IsOldest(BufferOf[site], f) /\ RemoveFile(BufferOf[site], f)
          /\ lost' = [lost EXCEPT ![BufferOf[site]] =
                         Lost(BufferOf[site], f.items)]
    /\ UNCHANGED <<requestVars, memory, made, got>>

\* (mutant) The live attempt is made although the backlog is not cleared.
MutAfterFlush(cleared) ==
    CASE site = "relayFlush" -> "relaySend"
      [] site = "flush"      -> "read"
      [] site = "drain"      -> "push"

\* poll() sends the new uplink however the flush ended; pushSensorData skips
\* the live attempt when it broke off.
AfterFlush(cleared) ==
    CASE site = "relayFlush" -> "relaySend"
      [] site = "flush"      -> "read"
      [] site = "drain"      -> IF cleared THEN "push" ELSE "keep"

FlushEnds ==
    /\ site \in FlushSites
    /\ \/ answer = "none" /\ files[BufferOf[site]] = {}
          /\ site' = AfterFlush(TRUE)
       \/ answer = "error" /\ site' = AfterFlush(FALSE)
    /\ answer' = "none"
    /\ UNCHANGED <<memory, flash, history>>

-----------------------------------------------------------------------------
(* loop() *)

\* apiConfig, without a body or with one to be saved (saveConfigFile): the
\* file there, if any, is copied first, through the same saveFile.
ApiConfig ==
    /\ site = "poll"
    /\ \/ site' = "radio" /\ UNCHANGED openFailures
       \/ site' = "save" /\ openFailures' \in {openFailures, 0}
    /\ UNCHANGED <<answer, memory, files, orphans, folders, nextIndex, history>>

ConfigSaved ==
    /\ site = "save" /\ site' = "radio"
    /\ openFailures' = 0
    /\ UNCHANGED <<answer, memory, files, orphans, folders, nextIndex, history>>

\* The copy's file cannot be opened, and the save goes on; or the save's.
ConfigNotOpened ==
    /\ \/ site = "poll" /\ site' = "save"
       \/ site = "save" /\ site' = "radio"
    /\ OpenFault
    /\ OpenFails(folders, [b \in Buffers |-> {}])
    /\ UNCHANGED <<answer, memory, nextIndex, made, got>>

\* Nothing in the air; then the sensor cycle, unless the device is disabled
\* or told to wait.
RadioSilent ==
    /\ site = "radio" /\ site' \in {"flush", "idle"}
    /\ UNCHANGED <<answer, memory, flash, history>>

MakeItem(b) ==
    /\ made[b] < MaxItems[b]
    /\ made' = [made EXCEPT ![b] = @ + 1]
    /\ UNCHANGED <<got, lost, mishaps>>

UplinkReceived ==
    /\ site = "radio" /\ site' = "relayFlush"
    /\ MakeItem("relay")
    /\ current' = {made["relay"] + 1}
    /\ UNCHANGED <<answer, ram, flash>>

UplinkRelayed ==
    /\ site = "relaySend" /\ answer = "ok"
    /\ site' \in {"flush", "idle"} /\ answer' = "none"
    /\ current' = {}
    /\ UNCHANGED <<ram, flash, history>>

\* Nothing new is read once the bound is reached.
BuildSensorData ==
    /\ site = "read" /\ site' = "drain"
    /\ \/ MakeItem("sensor") /\ ram' = ram \cup {made["sensor"] + 1}
       \/ made["sensor"] = MaxItems["sensor"] /\ UNCHANGED <<ram, history>>
    /\ UNCHANGED <<answer, current, flash>>

\* (mutant) The array is not emptied after it was delivered.
MutPushEnds ==
    /\ site = "push" /\ answer # "none" /\ answer' = "none"
    /\ site' = IF answer = "ok" THEN "idle" ELSE "keep"
    /\ UNCHANGED <<memory, flash, history>>

PushEnds ==
    /\ site = "push" /\ answer # "none" /\ answer' = "none"
    /\ \/ answer = "ok" /\ ram' = {} /\ site' = "idle"
       \/ answer = "error" /\ site' = "keep" /\ UNCHANGED ram
    /\ UNCHANGED <<current, flash, history>>

KeptInRam ==
    /\ site = "keep" /\ Cardinality(ram) < SpillAt
    /\ site' = "idle"
    /\ UNCHANGED <<answer, memory, flash, history>>

Idle ==
    /\ site = "idle" /\ site' = "poll"
    /\ UNCHANGED <<answer, memory, flash, history>>

-----------------------------------------------------------------------------
Spill(b) == Saved(b) \/ Discarded(b) \/ NotOpened(b) \/ NotWritten(b)

UplinkNext ==
    \/ ApiConfig \/ ConfigSaved \/ ConfigNotOpened
    \/ RadioSilent \/ UplinkReceived \/ UplinkRelayed
    \/ PostAnswered \/ PostFails
    \/ FileFlushed \/ FileUnreadable \/ FlushEnds
    \/ BuildSensorData \/ PushEnds \/ KeptInRam \/ Idle
    \/ \E b \in Buffers : Spill(b) \/ CutShort(b)
    \/ Reboot

UplinkSpec == Init /\ [][UplinkNext]_vars

\* The loop task keeps running; again and again the device is enabled and not
\* told to wait, and at each of the three requests the server answers.
Fairness ==
    /\ WF_vars(UplinkNext)
    /\ SF_vars(RadioSilent /\ site' = "flush")
    /\ \A s \in {"flush", "drain", "push"} : SF_vars(site = s /\ PostAnswered)

FairSpec == UplinkSpec /\ Fairness

\* Every reading leaves the device some day: nothing wedges the queue.
ReadingsDrain ==
    \A i \in 1..MaxItems["sensor"] :
        i \in Held("sensor") ~> i \notin Held("sensor")

-----------------------------------------------------------------------------
(* Refinement *)

SensorLine == INSTANCE StoreAndForward
    WITH Ordered <- TRUE, made <- made["sensor"], held <- Held("sensor"),
         got <- got["sensor"], lost <- lost["sensor"],
         safe <- mishaps = 0
RelayLine == INSTANCE StoreAndForward
    WITH Ordered <- FALSE, made <- made["relay"], held <- Held("relay"),
         got <- got["relay"], lost <- lost["relay"],
         safe <- mishaps = 0
ImplementsSensorLine == SensorLine!Spec
ImplementsRelayLine == RelayLine!Spec
=============================================================================
