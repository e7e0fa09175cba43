------------------------ MODULE UplinkBuffers_proofs ------------------------
(***************************************************************************)
(* Readings and relayed uplinks keep the promises of StoreAndForward, for  *)
(* any number of items and mishaps, any spill size and any capacity: each  *)
(* is with the device, with the server, or lost in a mishap, and readings  *)
(* reach the server oldest first.                                          *)
(***************************************************************************)
EXTENDS UplinkBuffers, TLAPS

USE DEF requestVars, memory, flash, history

-----------------------------------------------------------------------------
(* Types *)

PlaceTyped ==
    /\ site \in Sites /\ answer \in {"none", "ok", "error"}
    /\ ram \in SUBSET Nat /\ current \in SUBSET Nat
FlashTyped ==
    /\ files \in [Buffers -> SUBSET File]
    /\ orphans \in [Buffers -> SUBSET Nat]
    /\ folders \subseteq Buffers
    /\ nextIndex \in [Buffers -> Nat]
FailuresTyped == openFailures \in 0..MAX_CONSECUTIVE_OPEN_FAILURES - 1
HistoryTyped ==
    /\ made \in [Buffers -> Nat]
    /\ got \in [Buffers -> SUBSET Nat] /\ lost \in [Buffers -> SUBSET Nat]
    /\ mishaps \in Nat

Typed == PlaceTyped /\ FlashTyped /\ FailuresTyped /\ HistoryTyped

LEMMA TypedIsTypeOK == Typed <=> TypeOK
  BY DEF Typed, PlaceTyped, FlashTyped, FailuresTyped, HistoryTyped, TypeOK

LEMMA InitTyped == Init => Typed
<1> SUFFICES ASSUME Init PROVE Typed
  OBVIOUS
<1>1. PlaceTyped
  BY DEF Init, PlaceTyped, Sites
<1>2. FlashTyped
  BY DEF Init, FlashTyped
<1>3. FailuresTyped
  BY UplinkAssumption DEF UplinkAssumption, Init, FailuresTyped
<1>4. HistoryTyped
  BY DEF Init, HistoryTyped
<1> QED
  BY <1>1, <1>2, <1>3, <1>4 DEF Typed

\* The items a buffer has in RAM or on flash.
LEMMA ItemsTyped ==
  ASSUME Typed, NEW b \in Buffers
  PROVE  /\ InRam(b) \in SUBSET Nat
         /\ Stored(b) \in SUBSET Nat
         /\ \A f \in files[b] : f.name \in Nat /\ f.items \in SUBSET Nat
<1> USE DEF Typed
<1>1. InRam(b) \in SUBSET Nat
  BY DEF PlaceTyped, InRam
<1>2. \A f \in files[b] : f.name \in Nat /\ f.items \in SUBSET Nat
  BY DEF FlashTyped, File
<1>3. \A i \in Stored(b) : \E f \in files[b] : i \in f.items
  BY DEF Stored
<1> QED
  BY <1>1, <1>2, <1>3

LEMMA PlaceStep == ASSUME Typed, [UplinkNext]_vars PROVE PlaceTyped'
<1> USE DEF Typed, PlaceTyped, Sites
<1>1. CASE ApiConfig \/ ConfigSaved \/ RadioSilent \/ UplinkRelayed
           \/ PushEnds \/ KeptInRam \/ Idle \/ ConfigNotOpened \/ PostAnswered \/ PostFails
           \/ FileFlushed \/ FileUnreadable \/ Reboot
  BY <1>1 DEF ApiConfig, ConfigSaved, RadioSilent, UplinkRelayed, PushEnds,
     KeptInRam, Idle,
     ConfigNotOpened, PostAnswered, PostFails, FileFlushed, FileUnreadable,
     Reboot, Restarted
<1>2. CASE UplinkReceived \/ BuildSensorData
  <2>1. made["sensor"] + 1 \in Nat /\ made["relay"] + 1 \in Nat
    BY DEF HistoryTyped, Buffers
  <2> QED
    BY <1>2, <2>1 DEF UplinkReceived, BuildSensorData
<1>3. CASE FlushEnds
  BY <1>3 DEF FlushEnds, FlushSites, AfterFlush
<1>4. ASSUME NEW b \in Buffers, Spill(b) \/ CutShort(b) PROVE PlaceTyped'
  BY <1>4 DEF Spill, Saved, Discarded, NotOpened, NotWritten, CutShort,
     AfterSpill, Restarted
<1>5. CASE UNCHANGED vars
  BY <1>5 DEF vars
<1> QED
  BY <1>1, <1>2, <1>3, <1>4, <1>5 DEF UplinkNext

LEMMA FlashStep == ASSUME Typed, [UplinkNext]_vars PROVE FlashTyped'
<1> USE DEF Typed, FlashTyped
<1>1. CASE ApiConfig \/ ConfigSaved
  BY <1>1 DEF ApiConfig, ConfigSaved
<1>2. CASE Reboot
  BY <1>2 DEF Reboot, Restarted
<1>7. CASE PostAnswered \/ PostFails
  BY <1>7 DEF PostAnswered, PostFails
<1>8. CASE RadioSilent \/ UplinkReceived \/ UplinkRelayed \/ FlushEnds
           \/ BuildSensorData \/ PushEnds \/ KeptInRam \/ Idle
  BY <1>8 DEF RadioSilent, UplinkReceived, UplinkRelayed, FlushEnds,
     BuildSensorData, PushEnds, KeptInRam, Idle
<1>9. CASE FileFlushed
  BY <1>9 DEF FileFlushed, FlushSites, BufferOf, RemoveFile, Sites, Buffers
<1>10. CASE FileUnreadable
  BY <1>10 DEF FileUnreadable, FlushSites, BufferOf, RemoveFile, Sites, Buffers
<1>3. CASE ConfigNotOpened
  BY <1>3 DEF ConfigNotOpened, OpenFails
<1>4. ASSUME NEW b \in Buffers, NEW n \in 1..LastName
      PROVE  /\ n \in Nat /\ n + 1 \in Nat
             /\ [name |-> n, items |-> InRam(b)] \in File
             /\ FoldersAfter(b) \subseteq Buffers
  BY UplinkAssumption, ItemsTyped DEF UplinkAssumption, File, FoldersAfter
<1>5. ASSUME NEW b \in Buffers, Spill(b) \/ CutShort(b) PROVE FlashTyped'
  <2>1. CASE Saved(b)
    <3>1. PICK n \in 1..LastName :
            /\ nextIndex' = [nextIndex EXCEPT ![b] = n + 1]
            /\ files' = [files EXCEPT ![b] =
                            @ \cup {[name |-> n, items |-> InRam(b)]}]
      BY <2>1 DEF Saved, Named
    <3> QED
      BY <2>1, <3>1, <1>4 DEF Saved
  <2>2. CASE Discarded(b)
    BY <2>2 DEF Discarded
  <2>3. CASE NotOpened(b)
    BY <2>3, <1>4 DEF NotOpened, Named, OpenFails
  <2>4. CASE NotWritten(b)
    <3>1. PICK n \in 1..LastName :
            /\ nextIndex' = [nextIndex EXCEPT ![b] = n + 1]
            /\ orphans' \in {orphans, [orphans EXCEPT ![b] = @ \cup {n}]}
      BY <2>4 DEF NotWritten, Named
    <3> QED
      BY <2>4, <3>1, <1>4 DEF NotWritten
  <2>5. CASE CutShort(b)
    BY <2>5, <1>4 DEF CutShort, Restarted
  <2> QED
    BY <1>5, <2>1, <2>2, <2>3, <2>4, <2>5 DEF Spill
<1>6. CASE UNCHANGED vars
  BY <1>6 DEF vars
<1> QED
  BY <1>1, <1>2, <1>3, <1>5, <1>6, <1>7, <1>8, <1>9, <1>10 DEF UplinkNext

LEMMA FailuresStep == ASSUME Typed, [UplinkNext]_vars PROVE FailuresTyped'
<1> USE UplinkAssumption DEF UplinkAssumption, Typed, FailuresTyped
<1>1. CASE ApiConfig \/ ConfigSaved \/ Reboot
  BY <1>1 DEF ApiConfig, ConfigSaved, Reboot, Restarted
<1>5. CASE PostAnswered \/ PostFails
  BY <1>5 DEF PostAnswered, PostFails
<1>6. CASE RadioSilent \/ UplinkReceived \/ UplinkRelayed \/ FlushEnds
           \/ BuildSensorData \/ PushEnds \/ KeptInRam \/ Idle
  BY <1>6 DEF RadioSilent, UplinkReceived, UplinkRelayed, FlushEnds,
     BuildSensorData, PushEnds, KeptInRam, Idle
<1>7. CASE FileFlushed \/ FileUnreadable
  BY <1>7 DEF FileFlushed, FileUnreadable, RemoveFile
<1>2. CASE ConfigNotOpened
  BY <1>2 DEF ConfigNotOpened, OpenFails, Formatted
<1>3. ASSUME NEW b \in Buffers, Spill(b) \/ CutShort(b) PROVE FailuresTyped'
  BY <1>3 DEF Spill, Saved, Discarded, NotOpened, NotWritten, CutShort,
     OpenFails, Formatted, Restarted
<1>4. CASE UNCHANGED vars
  BY <1>4 DEF vars
<1> QED
  BY <1>1, <1>2, <1>3, <1>4, <1>5, <1>6, <1>7 DEF UplinkNext

LEMMA HistoryStep == ASSUME Typed, [UplinkNext]_vars PROVE HistoryTyped'
<1> USE DEF Typed, HistoryTyped
<1>1. CASE ApiConfig \/ ConfigSaved \/ RadioSilent \/ UplinkRelayed
           \/ FlushEnds \/ PushEnds
           \/ KeptInRam \/ Idle \/ FileFlushed
  BY <1>1 DEF ApiConfig, ConfigSaved, RadioSilent, UplinkRelayed, FlushEnds,
     PushEnds,
     KeptInRam, Idle, FileFlushed
<1>2. CASE UplinkReceived \/ BuildSensorData
  BY <1>2 DEF UplinkReceived, BuildSensorData, MakeItem
<1>3. ASSUME NEW b \in Buffers,
             NEW S \in {InRam(b)} \cup {f.items : f \in files[b]}
      PROVE  S \in SUBSET Nat
  BY ItemsTyped, <1>3
<1>4. CASE PostAnswered
  BY <1>4, <1>3 DEF PostAnswered
<1>5. CASE PostFails
  BY <1>5, <1>3 DEF PostFails
<1>6. ASSUME NEW b \in Buffers, NEW S \in SUBSET Nat PROVE Lost(b, S) \in SUBSET Nat
  BY DEF Lost
<1>7. CASE FileUnreadable
  <2>1. BufferOf[site] \in Buffers
    BY DEF PlaceTyped, BufferOf, Buffers
  <2> QED
    BY <1>7, <1>6, <2>1, ItemsTyped
       DEF FileUnreadable, Chance, Counted
<1>8. \A b \in Buffers : Dropped(b) \in [Buffers -> SUBSET Nat]
  BY ItemsTyped DEF Dropped
<1>9. \A b \in Buffers : InRam(b) \in SUBSET Nat /\ Stored(b) \in SUBSET Nat
  BY ItemsTyped
<1>10. ASSUME NEW S \in [Buffers -> SUBSET Nat]
       PROVE  [b \in Buffers |-> Lost(b, S[b])] \in [Buffers -> SUBSET Nat]
  BY <1>6
<1>11. ASSUME NEW b \in Buffers, Spill(b) \/ CutShort(b) PROVE HistoryTyped'
  <2>1. CASE Saved(b)
    BY <2>1 DEF Saved, AfterSpill
  <2>2. CASE Discarded(b) \/ NotWritten(b)
    BY <2>2, <1>8, <1>10
       DEF Discarded, NotWritten, AfterSpill, Counted, Chance
  <2>3. CASE NotOpened(b)
    BY <2>3, <1>6, <1>8, <1>9
       DEF NotOpened, OpenFails, AfterSpill, Counted, OpenFault
  <2>4. CASE CutShort(b)
    BY <2>4, <1>6, <1>9 DEF CutShort, Restarted, Counted, Chance
  <2> QED
    BY <1>11, <2>1, <2>2, <2>3, <2>4 DEF Spill
<1>12. CASE ConfigNotOpened \/ Reboot
  BY <1>12, <1>6, <1>9 DEF ConfigNotOpened, Reboot, OpenFails, Restarted,
     Counted, Chance, OpenFault
<1>13. CASE UNCHANGED vars
  BY <1>13 DEF vars
<1> QED
  BY <1>1, <1>2, <1>4, <1>5, <1>7, <1>11, <1>12, <1>13 DEF UplinkNext

LEMMA StepTyped == Typed /\ [UplinkNext]_vars => Typed'
<1> SUFFICES ASSUME Typed, [UplinkNext]_vars PROVE Typed'
  OBVIOUS
<1> QED
  BY PlaceStep, FlashStep, FailuresStep, HistoryStep DEF Typed

\* Every variable keeps its type, whatever the bounds.
THEOREM UplinkTypeCorrect == UplinkSpec => []TypeOK
  BY InitTyped, StepTyped, TypedIsTypeOK, PTL DEF UplinkSpec

-----------------------------------------------------------------------------
(* Items in files *)

ItemsOf(F) == UNION {f.items : f \in F}

LEMMA ItemsAdded ==
  ASSUME NEW F, NEW f
  PROVE  ItemsOf(F \cup {f}) = ItemsOf(F) \cup f.items
  BY DEF ItemsOf

LEMMA ItemsRemoved ==
  ASSUME NEW F, NEW f \in F,
         \A g \in F : g # f => g.items \cap f.items = {}
  PROVE  /\ ItemsOf(F \ {f}) = ItemsOf(F) \ f.items
         /\ f.items \subseteq ItemsOf(F)
  BY DEF ItemsOf

LEMMA NoItems == ItemsOf({}) = {}
  BY DEF ItemsOf

LEMMA HeldIs ==
  ASSUME NEW b
  PROVE  /\ Stored(b) = ItemsOf(files[b])
         /\ Stored(b)' = ItemsOf(files'[b])
         /\ Held(b) = InRam(b) \cup ItemsOf(files[b])
         /\ Held(b)' = InRam(b)' \cup ItemsOf(files'[b])
         /\ InRam(b) = (IF b = "sensor" THEN ram ELSE current)
         /\ InRam(b)' = (IF b = "sensor" THEN ram' ELSE current')
  BY DEF Stored, ItemsOf, Held, InRam

-----------------------------------------------------------------------------
(* The invariant *)

\* The files of a buffer are in the order of their names, what is in RAM is
\* younger than all of them, and the next name is above them.
Line(b) ==
    /\ \A f, g \in files[b] :
          /\ f # g => f.name # g.name
          /\ f.name < g.name => \A i \in f.items : \A j \in g.items : i < j
    /\ \A f \in files[b] : \A i \in f.items :
          i <= made[b] /\ \A j \in InRam(b) : i < j
    /\ \A i \in InRam(b) : i <= made[b]
    /\ nextIndex[b] # 0 => \A m \in Names(b) : m < nextIndex[b]

\* What is true where loop() is: an answer is awaited only at a request, an
\* uplink is in hand only while it is relayed, live readings are posted only
\* when no file is left.
Situated ==
    /\ site \notin FlushSites \cup {"push", "relaySend"} => answer = "none"
    /\ site \notin {"relayFlush", "relaySend"} => current = {}
    /\ site = "push" => files["sensor"] = {}

\* A 2xx means the server has what is released on it.
Acked ==
    answer = "ok" =>
        /\ site \in FlushSites =>
              \A f \in files[BufferOf[site]] :
                  IsOldest(BufferOf[site], f) => f.items \subseteq got[BufferOf[site]]
        /\ site = "push" => ram \subseteq got["sensor"]
        /\ site = "relaySend" => current \subseteq got["relay"]

Lines == \A b \in Buffers : Line(b)
UplinkInv == Typed /\ Lines /\ Situated /\ Acked

LEMMA InitInv == Init => UplinkInv
<1> SUFFICES ASSUME Init PROVE UplinkInv
  OBVIOUS
<1>1. Lines
  BY DEF Init, Lines, Line, InRam, Names, Buffers
<1>2. Situated /\ Acked
  BY DEF Init, Situated, Acked, FlushSites
<1> QED
  BY InitTyped, <1>1, <1>2 DEF UplinkInv

LEMMA SituatedStep ==
  ASSUME UplinkInv, [UplinkNext]_vars PROVE Situated'
<1> USE DEF UplinkInv, Situated, FlushSites
<1>1. CASE ApiConfig \/ ConfigSaved \/ RadioSilent \/ UplinkReceived
           \/ UplinkRelayed
  BY <1>1 DEF ApiConfig, ConfigSaved, RadioSilent, UplinkReceived,
     UplinkRelayed
<1>2. CASE PostAnswered \/ PostFails \/ BuildSensorData \/ PushEnds
           \/ KeptInRam \/ Idle
  BY <1>2 DEF PostAnswered, PostFails, BuildSensorData, PushEnds, KeptInRam,
     Idle, Offered
<1>3. CASE FileFlushed \/ FileUnreadable
  BY <1>3 DEF FileFlushed, FileUnreadable, RemoveFile
<1>4. CASE FlushEnds
  BY <1>4 DEF FlushEnds, AfterFlush, BufferOf, Sites
<1>5. CASE ConfigNotOpened \/ Reboot
  BY <1>5 DEF ConfigNotOpened, OpenFails, Reboot, Restarted, Typed, FlashTyped,
     Buffers
<1>6. ASSUME NEW b \in Buffers, Spill(b) \/ CutShort(b) PROVE Situated'
  <2>1. CASE CutShort(b)
    BY <2>1 DEF CutShort, Restarted
  <2>2. CASE Spill(b)
    <3>1. AfterSpill(b) /\ Spilling(b)
      BY <2>2 DEF Spill, Saved, Discarded, NotOpened, NotWritten, Named
    <3> QED
      BY <3>1 DEF AfterSpill, Spilling
  <2> QED
    BY <1>6, <2>1, <2>2
<1>7. CASE UNCHANGED vars
  BY <1>7 DEF vars
<1> QED
  BY <1>1, <1>2, <1>3, <1>4, <1>5, <1>6, <1>7 DEF UplinkNext

LEMMA AckedStep ==
  ASSUME UplinkInv, [UplinkNext]_vars PROVE Acked'
<1> USE DEF UplinkInv
<1>1. CASE PostAnswered
  <2>1. PICK b \in Buffers :
          \E S \in {InRam(b)} \cup {f.items : f \in files[b]} :
              Offered(b, S) /\ got' = [got EXCEPT ![b] = @ \cup S]
    BY <1>1 DEF PostAnswered
  <2>2. PICK S \in {InRam(b)} \cup {f.items : f \in files[b]} :
          Offered(b, S) /\ got' = [got EXCEPT ![b] = @ \cup S]
    BY <2>1
  <2>3. S \subseteq got'[b]
    BY <2>2 DEF Typed, HistoryTyped
  <2>4. UNCHANGED <<site, ram, current, files>>
    BY <1>1 DEF PostAnswered
  <2>5. CASE site = "push"
    BY <2>5, <2>2, <2>3, <2>4 DEF Offered, FlushSites, Acked
  <2>6. CASE site = "relaySend"
    BY <2>6, <2>2, <2>3, <2>4 DEF Offered, FlushSites, Acked
  <2>7. CASE site \in FlushSites
    <3>1. PICK f \in files[b] : IsOldest(b, f) /\ S = f.items
      BY <2>7, <2>2 DEF Offered, FlushSites
    <3>2. b = BufferOf[site]
      BY <2>7, <2>2 DEF Offered, FlushSites
    <3>3. ASSUME NEW g \in files[b], \A h \in files[b] : g.name <= h.name
          PROVE  g = f
      <4>1. g.name <= f.name /\ f.name <= g.name
        BY <3>1, <3>3 DEF IsOldest
      <4>2. g.name \in Nat /\ f.name \in Nat
        BY ItemsTyped
      <4>3. g.name = f.name
        BY <4>1, <4>2
      <4> QED
        BY <4>3 DEF Lines, Line
    <3> QED
      BY <2>7, <2>3, <2>4, <3>1, <3>2, <3>3 DEF Acked, FlushSites, IsOldest
  <2> QED
    BY <2>4, <2>5, <2>6, <2>7 DEF Acked
<1>2. CASE ApiConfig \/ ConfigSaved \/ RadioSilent \/ UplinkReceived
           \/ BuildSensorData
           \/ KeptInRam \/ Idle \/ ConfigNotOpened
  BY <1>2 DEF ApiConfig, ConfigSaved, RadioSilent, UplinkReceived,
     BuildSensorData,
     KeptInRam, Idle, ConfigNotOpened, Situated, FlushSites, Acked
<1>3. CASE UplinkRelayed \/ PostFails \/ PushEnds \/ FlushEnds \/ FileFlushed
           \/ FileUnreadable \/ Reboot
  BY <1>3 DEF UplinkRelayed, PostFails, PushEnds, FlushEnds, FileFlushed,
     FileUnreadable, Reboot, Restarted, Acked
<1>4. ASSUME NEW b \in Buffers, Spill(b) \/ CutShort(b) PROVE Acked'
  BY <1>4 DEF Spill, Saved, Discarded, NotOpened, NotWritten, CutShort,
     AfterSpill, Restarted, Acked
<1>5. CASE UNCHANGED vars
  BY <1>5 DEF vars, Acked, IsOldest
<1> QED
  BY <1>1, <1>2, <1>3, <1>4, <1>5 DEF UplinkNext

\* Nothing new in the buffer.
LEMMA LineKept ==
  ASSUME UplinkInv, NEW b \in Buffers,
         files'[b] \subseteq files[b], orphans'[b] \subseteq orphans[b],
         InRam(b)' \subseteq InRam(b), made'[b] = made[b],
         nextIndex'[b] \in {0, nextIndex[b]}
  PROVE  Line(b)'
<1>1. Line(b)
  BY DEF UplinkInv, Lines
<1>2. \A m \in Names(b)' : m \in Names(b)
  BY DEF Names
<1> QED
  BY <1>1, <1>2 DEF Line

\* A file or a .tmp file with a name above all others.
LEMMA LineNamed ==
  ASSUME UplinkInv, NEW b \in Buffers, NEW n \in Nat,
         \A m \in Names(b) : m < n,
         files'[b] \subseteq
             files[b] \cup {[name |-> n, items |-> InRam(b)]},
         orphans'[b] \subseteq orphans[b] \cup {n},
         InRam(b)' = {}, made'[b] = made[b],
         nextIndex'[b] \in {0, n + 1}
  PROVE  Line(b)'
<1> DEFINE new == [name |-> n, items |-> InRam(b)]
<1>1. Line(b)
  BY DEF UplinkInv, Lines
<1>2. \A f \in files[b] : f.name \in Nat /\ f.name < n
  BY ItemsTyped DEF UplinkInv, Names
<1>3. new.name = n /\ new.items = InRam(b)
  OBVIOUS
<1> HIDE DEF new
<1>4. \A f, g \in files'[b] :
        /\ f # g => f.name # g.name
        /\ f.name < g.name => \A i \in f.items : \A j \in g.items : i < j
  <2> TAKE f, g \in files'[b]
  <2>1. f \in files[b] \/ f = new
    BY DEF new
  <2>2. g \in files[b] \/ g = new
    BY DEF new
  <2> QED
    BY <2>1, <2>2, <1>1, <1>2, <1>3 DEF Line
<1>5. \A f \in files'[b] : \A i \in f.items : i <= made'[b]
  <2> TAKE f \in files'[b]
  <2>1. f \in files[b] \/ f = new
    BY DEF new
  <2> QED
    BY <2>1, <1>1, <1>3 DEF Line
<1>6. \A m \in Names(b)' : m \in Names(b) \/ m = n
  <2>1. \A f \in files'[b] : f.name \in Names(b) \/ f.name = n
    BY <1>3 DEF new, Names
  <2> QED
    BY <2>1 DEF Names
<1>7. \A m \in Names(b) : m \in Nat
  BY ItemsTyped DEF UplinkInv, Typed, FlashTyped, Names
<1>8. nextIndex'[b] # 0 => \A m \in Names(b)' : m < nextIndex'[b]
  BY <1>6, <1>7
<1> QED
  BY <1>4, <1>5, <1>8 DEF Line

LEMMA NextIndexAbove ==
  ASSUME UplinkInv, NEW b \in Buffers, NEW n \in 1..LastName,
         IsNextIndex(b, n)
  PROVE  n \in Nat /\ \A m \in Names(b) : m < n
  BY UplinkAssumption
     DEF UplinkAssumption, IsNextIndex, UplinkInv, Lines, Line

\* The new reading or uplink is the youngest.
LEMMA LineMade ==
  ASSUME UplinkInv, NEW b \in Buffers,
         files' = files, orphans' = orphans, nextIndex' = nextIndex,
         made'[b] = made[b] + 1,
         InRam(b)' \subseteq InRam(b) \cup {made[b] + 1}
  PROVE  Line(b)'
<1>1. Line(b) /\ made[b] \in Nat
  BY DEF UplinkInv, Lines, Typed, HistoryTyped
<1>2. \A f \in files[b] : f.items \in SUBSET Nat
  BY ItemsTyped DEF UplinkInv
<1>3. InRam(b) \in SUBSET Nat
  BY ItemsTyped DEF UplinkInv
<1>4. Names(b)' = Names(b)
  BY DEF Names
<1>5. \A i \in InRam(b)' : i <= made'[b]
  BY <1>1, <1>3 DEF Line
<1>6. \A f \in files'[b] : \A i \in f.items :
        i <= made'[b] /\ \A j \in InRam(b)' : i < j
  BY <1>1, <1>2 DEF Line
<1> QED
  BY <1>1, <1>4, <1>5, <1>6 DEF Line

\* How each step leaves the buffer c.
LEMMA LinesStep ==
  ASSUME UplinkInv, [UplinkNext]_vars PROVE Lines'
<1> SUFFICES ASSUME NEW c \in Buffers PROVE Line(c)'
  BY DEF Lines
<1> USE DEF InRam
<1>1. CASE ApiConfig \/ ConfigSaved \/ RadioSilent \/ KeptInRam \/ Idle
           \/ FlushEnds
           \/ PostAnswered \/ PostFails
  BY <1>1, LineKept DEF ApiConfig, ConfigSaved, RadioSilent, KeptInRam, Idle,
     FlushEnds,
     PostAnswered, PostFails
<1>2. CASE UplinkRelayed \/ PushEnds
  BY <1>2, LineKept DEF UplinkRelayed, PushEnds
<1>3. CASE UplinkReceived
  <2>1. current = {}
    BY <1>3 DEF UplinkReceived, UplinkInv, Situated
  <2>2. made' = [made EXCEPT !["relay"] = made["relay"] + 1]
    BY <1>3 DEF UplinkReceived, MakeItem
  <2>3. CASE c = "sensor"
    BY <1>3, <2>2, <2>3, LineKept
       DEF UplinkReceived, UplinkInv, Typed, HistoryTyped
  <2>4. CASE c = "relay"
    BY <1>3, <2>1, <2>2, <2>4, LineMade
       DEF UplinkReceived, UplinkInv, Typed, HistoryTyped
  <2> QED
    BY <2>3, <2>4 DEF Buffers
<1>4. CASE BuildSensorData
  <2>1. CASE made' = made
    BY <1>4, <2>1, LineKept DEF BuildSensorData, MakeItem, UplinkInv, Typed, HistoryTyped
  <2>2. CASE /\ made' = [made EXCEPT !["sensor"] = made["sensor"] + 1]
             /\ ram' = ram \cup {made["sensor"] + 1}
    <3>1. CASE c = "relay"
      BY <1>4, <2>2, <3>1, LineKept
         DEF BuildSensorData, UplinkInv, Typed, HistoryTyped
    <3>2. CASE c = "sensor"
      BY <1>4, <2>2, <3>2, LineMade
         DEF BuildSensorData, UplinkInv, Typed, HistoryTyped
    <3> QED
      BY <3>1, <3>2 DEF Buffers
  <2> QED
    BY <1>4, <2>1, <2>2 DEF BuildSensorData, MakeItem
<1>5. CASE FileFlushed \/ FileUnreadable
  <2>1. PICK b, f : files' = [files EXCEPT ![b] = @ \ {f}]
    BY <1>5 DEF FileFlushed, FileUnreadable, RemoveFile
  <2>2. files'[c] \subseteq files[c]
    BY <2>1 DEF UplinkInv, Typed, FlashTyped
  <2> QED
    BY <1>5, <2>2, LineKept DEF FileFlushed, FileUnreadable, RemoveFile
<1>6. CASE ConfigNotOpened
  BY <1>6, LineKept DEF ConfigNotOpened, OpenFails
<1>7. CASE Reboot
  BY <1>7, LineKept DEF Reboot, Restarted
<1>8. ASSUME NEW b \in Buffers, Spill(b) PROVE Line(c)'
  <2>1. AfterSpill(b) /\ made' = made
    BY <1>8 DEF Spill, Saved, Discarded, NotOpened, NotWritten, AfterSpill
  <2>2. InRam(c)' \subseteq InRam(c) /\ InRam(b)' = {}
    BY <2>1 DEF AfterSpill, Buffers
  <2>3. CASE Discarded(b)
    BY <2>1, <2>2, <2>3, LineKept DEF Discarded
  <2>4. CASE ~Discarded(b)
    <3>1. PICK n \in 1..LastName :
            /\ IsNextIndex(b, n)
            /\ nextIndex' = [nextIndex EXCEPT ![b] = n + 1]
            /\ \/ files' = [files EXCEPT ![b] =
                               @ \cup {[name |-> n, items |-> InRam(b)]}]
               \/ files' = files \/ files' = [d \in Buffers |-> {}]
            /\ \/ orphans' = [orphans EXCEPT ![b] = @ \cup {n}]
               \/ orphans' = orphans \/ orphans' = [d \in Buffers |-> {}]
      <4>1. CASE Saved(b)
        BY <4>1 DEF Saved, Named
      <4>2. CASE NotOpened(b)
        BY <4>2 DEF NotOpened, Named, OpenFails
      <4>3. CASE NotWritten(b)
        BY <4>3 DEF NotWritten, Named
      <4> QED
        BY <1>8, <2>4, <4>1, <4>2, <4>3 DEF Spill
    <3>2. n \in Nat /\ \A m \in Names(b) : m < n
      BY <3>1, NextIndexAbove
    <3>3. CASE c = b
      <4>1. files'[c] \subseteq
                files[c] \cup {[name |-> n, items |-> InRam(c)]}
        BY <3>1, <3>3 DEF UplinkInv, Typed, FlashTyped
      <4>2. orphans'[c] \subseteq orphans[c] \cup {n}
        BY <3>1, <3>3 DEF UplinkInv, Typed, FlashTyped
      <4>3. nextIndex'[c] = n + 1
        BY <3>1, <3>3 DEF UplinkInv, Typed, FlashTyped
      <4> QED
        BY <2>1, <2>2, <3>2, <3>3, <4>1, <4>2, <4>3, LineNamed
    <3>4. CASE c # b
      BY <2>1, <2>2, <3>1, <3>4, LineKept DEF UplinkInv, Typed, FlashTyped
    <3> QED
      BY <3>3, <3>4
  <2> QED
    BY <2>3, <2>4
<1>9. ASSUME NEW b \in Buffers, CutShort(b) PROVE Line(c)'
  <2>1. PICK n \in 1..LastName :
          IsNextIndex(b, n) /\ orphans' = [orphans EXCEPT ![b] = @ \cup {n}]
    BY <1>9 DEF CutShort
  <2>2. n \in Nat /\ \A m \in Names(b) : m < n
    BY <2>1, NextIndexAbove
  <2>3. /\ files' = files /\ made' = made
        /\ nextIndex'[c] = 0 /\ InRam(c)' = {}
    BY <1>9 DEF CutShort, Restarted
  <2>4. CASE c = b
    BY <2>1, <2>2, <2>3, <2>4, LineNamed DEF UplinkInv, Typed, FlashTyped
  <2>5. CASE c # b
    BY <2>1, <2>3, <2>5, LineKept DEF UplinkInv, Typed, FlashTyped
  <2> QED
    BY <2>4, <2>5
<1>10. CASE UNCHANGED vars
  BY <1>10, LineKept DEF vars
<1> QED
  BY <1>1, <1>2, <1>3, <1>4, <1>5, <1>6, <1>7, <1>8, <1>9, <1>10
     DEF UplinkNext

LEMMA StepInv == UplinkInv /\ [UplinkNext]_vars => UplinkInv'
<1> SUFFICES ASSUME UplinkInv, [UplinkNext]_vars PROVE UplinkInv'
  OBVIOUS
<1>1. Typed'
  BY StepTyped DEF UplinkInv
<1> QED
  BY <1>1, LinesStep, SituatedStep, AckedStep DEF UplinkInv

-----------------------------------------------------------------------------
(* What a step is to a buffer, in the terms of StoreAndForward *)

Rests(b) ==
    /\ made'[b] = made[b] /\ Held(b)' = Held(b) /\ got'[b] = got[b]
    /\ lost'[b] = lost[b] /\ mishaps' = mishaps
Makes(b) ==
    /\ made'[b] = made[b] + 1 /\ Held(b)' = Held(b) \cup {made[b] + 1}
    /\ got'[b] = got[b] /\ lost'[b] = lost[b] /\ mishaps' = mishaps
HandsOver(b, S) ==
    /\ S \subseteq Held(b)
    /\ b = "sensor" => \A i \in S : \A j \in Held(b) : j < i => j \in S
    /\ made'[b] = made[b] /\ Held(b)' = Held(b) /\ got'[b] = got[b] \cup S
    /\ lost'[b] = lost[b] /\ mishaps' = mishaps
Releases(b, S) ==
    /\ S \subseteq Held(b) \cap got[b]
    /\ made'[b] = made[b] /\ Held(b)' = Held(b) \ S /\ got'[b] = got[b]
    /\ lost'[b] = lost[b] /\ mishaps' = mishaps
Suffers(b, S) ==
    /\ S \subseteq Held(b)
    /\ made'[b] = made[b] /\ Held(b)' = Held(b) \ S /\ got'[b] = got[b]
    /\ lost'[b] = lost[b] \cup (S \ got[b]) /\ mishaps' = mishaps + 1

Simulated(b) ==
    \/ Rests(b) \/ Makes(b)
    \/ \E S \in SUBSET Held(b) : HandsOver(b, S) \/ Releases(b, S) \/ Suffers(b, S)

\* No item is in two places.
LEMMA Apart ==
  ASSUME UplinkInv, NEW b \in Buffers
  PROVE  /\ InRam(b) \cap Stored(b) = {}
         /\ \A f, g \in files[b] : f # g => f.items \cap g.items = {}
<1>1. Line(b)
  BY DEF UplinkInv, Lines
<1>2. \A f \in files[b] : f.name \in Nat /\ f.items \in SUBSET Nat
  BY ItemsTyped DEF UplinkInv
<1>3. \A f \in files[b] : \A i \in f.items : i \in Nat /\ i \notin InRam(b)
  BY <1>1, <1>2 DEF Line
<1>4. ASSUME NEW f \in files[b], NEW g \in files[b], f # g, NEW i \in f.items,
             i \in g.items
      PROVE  FALSE
  <2>1. i \in Nat /\ (f.name < g.name \/ g.name < f.name)
    BY <1>1, <1>2, <1>4 DEF Line
  <2> QED
    BY <1>1, <1>4, <2>1 DEF Line
<1> QED
  BY <1>3, <1>4 DEF Stored

\* Nothing moves.
LEMMA Still ==
  ASSUME NEW b \in Buffers, files'[b] = files[b], InRam(b)' = InRam(b),
         made'[b] = made[b], got'[b] = got[b], lost'[b] = lost[b],
         mishaps' = mishaps
  PROVE  Simulated(b)
  BY HeldIs DEF Simulated, Rests

\* Of RAM and of flash, all or nothing is lost.
LEMMA PartsLost ==
  ASSUME UplinkInv, NEW b \in Buffers,
         NEW R \in {{}, InRam(b)}, NEW F \in {{}, Stored(b)},
         InRam(b)' = InRam(b) \ R, Stored(b)' = Stored(b) \ F,
         lost'[b] = Lost(b, R \cup F), made'[b] = made[b], got'[b] = got[b],
         mishaps' = mishaps + 1
  PROVE  Simulated(b)
<1>1. R \cup F \subseteq Held(b)
  BY DEF Held
<1>2. Held(b)' = Held(b) \ (R \cup F)
  <2>1. InRam(b) \cap Stored(b) = {}
    BY Apart
  <2> QED
    BY <2>1, Zenon DEF Held
<1>3. Suffers(b, R \cup F)
  BY <1>1, <1>2 DEF Suffers, Lost
<1> QED
  BY <1>1, <1>3 DEF Simulated

\* A file goes.
LEMMA FileGoes ==
  ASSUME UplinkInv, NEW b \in Buffers, NEW f \in files[b],
         files'[b] = files[b] \ {f}, InRam(b)' = InRam(b)
  PROVE  /\ f.items \subseteq Held(b)
         /\ Held(b)' = Held(b) \ f.items
<1>1. \A g \in files[b] : g # f => g.items \cap f.items = {}
  BY Apart
<1>2. /\ ItemsOf(files[b] \ {f}) = ItemsOf(files[b]) \ f.items
      /\ f.items \subseteq ItemsOf(files[b])
  BY <1>1, ItemsRemoved
<1>3. InRam(b) \cap ItemsOf(files[b]) = {}
  BY Apart, HeldIs
<1>4. /\ Held(b) = InRam(b) \cup ItemsOf(files[b])
      /\ Held(b)' = InRam(b) \cup ItemsOf(files[b] \ {f})
  BY HeldIs
<1> QED
  BY <1>2, <1>3, <1>4, Zenon

\* What a request offers: readings oldest first.
LEMMA OfferedOldest ==
  ASSUME UplinkInv, NEW b \in Buffers, NEW S, Offered(b, S)
  PROVE  /\ S \subseteq Held(b)
         /\ b = "sensor" => \A i \in S : \A j \in Held(b) : j < i => j \in S
<1>1. Line(b)
  BY DEF UplinkInv, Lines
<1>2. Held(b) = InRam(b) \cup ItemsOf(files[b])
  BY HeldIs
<1>3. CASE \E f \in files[b] : IsOldest(b, f) /\ S = f.items
  <2>1. PICK f \in files[b] : IsOldest(b, f) /\ S = f.items
    BY <1>3
  <2>2. S \subseteq Held(b)
    BY <1>2, <2>1 DEF ItemsOf
  <2>3. ASSUME NEW i \in S, NEW j \in Held(b), j < i PROVE j \in S
    <3>1. i \in Nat /\ j \in Nat
      <4>1. Held(b) \in SUBSET Nat
        BY ItemsTyped DEF UplinkInv, Held
      <4> QED
        BY <4>1, <2>2, <2>3
    <3>2. CASE j \in InRam(b)
      BY <1>1, <2>1, <2>3, <3>1, <3>2 DEF Line
    <3>3. CASE j \in ItemsOf(files[b])
      <4>1. PICK g \in files[b] : j \in g.items
        BY <3>3 DEF ItemsOf
      <4>2. CASE g = f
        BY <2>1, <4>1, <4>2
      <4>3. CASE g # f
        <5>1. f.name \in Nat /\ g.name \in Nat
          BY ItemsTyped DEF UplinkInv
        <5>2. f.name < g.name
          BY <1>1, <2>1, <4>3, <5>1 DEF Line, IsOldest
        <5> QED
          BY <1>1, <2>1, <2>3, <3>1, <4>1, <5>2 DEF Line
      <4> QED
        BY <4>2, <4>3
    <3> QED
      BY <1>2, <2>3, <3>2, <3>3
  <2> QED
    BY <2>2, <2>3
<1>4. CASE site = "push" /\ b = "sensor" /\ S = ram
  <2>1. Held(b) = S
    BY <1>2, <1>4, NoItems DEF UplinkInv, Situated, InRam
  <2> QED
    BY <2>1
<1>5. CASE b = "relay" /\ S = current
  BY <1>2, <1>5 DEF InRam
<1> QED
  BY <1>3, <1>4, <1>5 DEF Offered

LEMMA Answered ==
  ASSUME UplinkInv, PostAnswered \/ PostFails, NEW c \in Buffers
  PROVE  Simulated(c)
<1>1. PICK b \in Buffers : \E S \in {InRam(b)} \cup {f.items : f \in files[b]} :
         /\ Offered(b, S)
         /\ got' = got \/ got' = [got EXCEPT ![b] = @ \cup S]
  BY DEF PostAnswered, PostFails
<1>2. PICK S \in {InRam(b)} \cup {f.items : f \in files[b]} :
         /\ Offered(b, S)
         /\ got' = got \/ got' = [got EXCEPT ![b] = @ \cup S]
  BY <1>1
<1>3. /\ files' = files /\ ram' = ram /\ current' = current
      /\ made' = made /\ lost' = lost /\ mishaps' = mishaps
  BY DEF PostAnswered, PostFails
<1>4. got \in [Buffers -> SUBSET Nat]
  BY DEF UplinkInv, Typed, HistoryTyped
<1>5. InRam(c)' = InRam(c)
  BY <1>3 DEF InRam
<1>6. CASE got'[c] = got[c]
  BY <1>3, <1>5, <1>6, Still
<1>7. CASE c = b /\ got'[c] = got[c] \cup S
  <2>1. Held(c)' = Held(c)
    BY <1>3, <1>5, HeldIs
  <2>2. HandsOver(c, S)
    BY <1>2, <1>3, <1>7, <2>1, OfferedOldest DEF HandsOver
  <2> QED
    BY <2>2 DEF Simulated, HandsOver
<1> QED
  BY <1>2, <1>4, <1>6, <1>7

LEMMA Flushed ==
  ASSUME UplinkInv, FileFlushed \/ FileUnreadable, NEW c \in Buffers
  PROVE  Simulated(c)
<1> DEFINE b == BufferOf[site]
<1>1. PICK f \in files[b] :
         /\ IsOldest(b, f) /\ files' = [files EXCEPT ![b] = @ \ {f}]
         /\ FileUnreadable => lost' = [lost EXCEPT ![b] = Lost(b, f.items)]
  BY DEF FileFlushed, FileUnreadable, RemoveFile
<1>2. ram' = ram /\ current' = current /\ made' = made /\ got' = got
  BY DEF FileFlushed, FileUnreadable
<1>3. b \in Buffers
  BY DEF UplinkInv, Typed, PlaceTyped, BufferOf, Buffers
<1>4. InRam(c)' = InRam(c)
  BY <1>2 DEF InRam
<1>5. files \in [Buffers -> SUBSET File] /\ lost \in [Buffers -> SUBSET Nat]
  BY DEF UplinkInv, Typed, FlashTyped, HistoryTyped
<1> HIDE DEF b
<1>6. CASE c = b
  <2>1. f.items \subseteq Held(c) /\ Held(c)' = Held(c) \ f.items
    BY <1>1, <1>4, <1>5, <1>6, FileGoes
  <2>2. CASE FileFlushed
    <3>1. f.items \subseteq got[c]
      BY <1>1, <1>6, <2>2 DEF FileFlushed, UplinkInv, Acked, b
    <3>2. Releases(c, f.items)
      BY <1>2, <2>1, <2>2, <3>1 DEF FileFlushed, Releases
    <3> QED
      BY <2>1, <3>2 DEF Simulated
  <2>3. CASE FileUnreadable
    <3>1. lost'[c] = lost[c] \cup (f.items \ got[c])
      BY <1>1, <1>5, <1>6, <2>3 DEF Lost
    <3>2. Suffers(c, f.items)
      BY <1>2, <2>1, <2>3, <3>1 DEF FileUnreadable, Chance, Counted, Suffers
    <3> QED
      BY <2>1, <3>2 DEF Simulated
  <2> QED
    BY <2>2, <2>3
<1>7. CASE c # b
  <2>1. files'[c] = files[c]
    BY <1>1, <1>5, <1>7
  <2>2. CASE FileFlushed
    BY <1>2, <1>4, <2>1, <2>2, Still DEF FileFlushed
  <2>3. CASE FileUnreadable
    <3>1. lost'[c] = Lost(c, {} \cup {})
      BY <1>1, <1>5, <1>7, <2>3 DEF Lost
    <3>2. Stored(c)' = Stored(c) \ {}
      BY <2>1, HeldIs
    <3> QED
      BY <1>2, <1>4, <2>3, <3>1, <3>2, PartsLost
         DEF FileUnreadable, Chance, Counted
  <2> QED
    BY <2>2, <2>3
<1> QED
  BY <1>6, <1>7

LEMMA Spilled ==
  ASSUME UplinkInv, NEW b \in Buffers, Spill(b), NEW c \in Buffers
  PROVE  Simulated(c)
<1>1. AfterSpill(b) /\ made' = made /\ got' = got
  BY DEF Spill, Saved, Discarded, NotOpened, NotWritten, AfterSpill
<1>2. InRam(c)' = IF c = b THEN {} ELSE InRam(c)
  BY <1>1 DEF AfterSpill, InRam, Buffers
<1>3. Dropped(b)[c] = IF c = b THEN InRam(c) ELSE {}
  BY DEF Dropped
<1>4. InRam(c)' = InRam(c) \ Dropped(b)[c] /\ Dropped(b)[c] \in {{}, InRam(c)}
  BY <1>2, <1>3
<1>5. CASE Saved(b)
  <2>1. PICK n : files' = [files EXCEPT ![b] =
                              @ \cup {[name |-> n, items |-> InRam(b)]}]
    BY <1>5 DEF Saved
  <2>2. files \in [Buffers -> SUBSET File]
    BY DEF UplinkInv, Typed, FlashTyped
  <2>3. CASE c = b
    <3>1. ItemsOf(files'[c]) = ItemsOf(files[c]) \cup InRam(c)
      BY <2>1, <2>2, <2>3, ItemsAdded
    <3>2. Held(c)' = Held(c)
      BY <1>2, <2>3, <3>1, HeldIs
    <3> QED
      BY <1>1, <1>5, <3>2 DEF Saved, Simulated, Rests
  <2>4. CASE c # b
    BY <1>1, <1>2, <1>5, <2>1, <2>2, <2>4, Still DEF Saved
  <2> QED
    BY <2>3, <2>4
<1>6. CASE Discarded(b) \/ NotWritten(b)
  <2>1. lost'[c] = Lost(c, Dropped(b)[c] \cup {}) /\ files' = files
    BY <1>6 DEF Discarded, NotWritten
  <2>2. Stored(c)' = Stored(c) \ {}
    BY <2>1, HeldIs
  <2>3. mishaps' = mishaps + 1
    BY <1>6 DEF Discarded, NotWritten, Chance, Counted
  <2> QED
    BY <1>1, <1>4, <2>1, <2>2, <2>3, PartsLost
<1>7. CASE NotOpened(b)
  <2> DEFINE F == IF Formatted THEN Stored(c) ELSE {}
  <2>1. lost'[c] = Lost(c, Dropped(b)[c] \cup F)
    BY <1>7 DEF NotOpened, OpenFails
  <2>2. Stored(c)' = Stored(c) \ F
    BY <1>7, HeldIs, NoItems DEF NotOpened, OpenFails
  <2>3. mishaps' = mishaps + 1
    BY <1>7 DEF NotOpened, OpenFault, Counted
  <2> QED
    BY <1>1, <1>4, <2>1, <2>2, <2>3, PartsLost
<1> QED
  BY <1>5, <1>6, <1>7 DEF Spill

\* Every step is, to each buffer, a step of StoreAndForward or none.
LEMMA StepSimulated ==
  ASSUME UplinkInv, [UplinkNext]_vars, NEW c \in Buffers
  PROVE  Simulated(c)
<1> USE DEF InRam
<1>1. CASE ApiConfig \/ ConfigSaved \/ RadioSilent \/ KeptInRam \/ Idle
           \/ FlushEnds
  BY <1>1, Still DEF ApiConfig, ConfigSaved, RadioSilent, KeptInRam, Idle,
     FlushEnds
<1>2. CASE PostAnswered \/ PostFails
  BY <1>2, Answered
<1>3. CASE FileFlushed \/ FileUnreadable
  BY <1>3, Flushed
<1>4. ASSUME NEW b \in Buffers, Spill(b) PROVE Simulated(c)
  BY <1>4, Spilled
<1>5. CASE UplinkReceived \/ BuildSensorData
  <2>1. /\ files' = files /\ got' = got /\ lost' = lost /\ mishaps' = mishaps
    BY <1>5 DEF UplinkReceived, BuildSensorData, MakeItem
  <2>2. made \in [Buffers -> Nat]
    BY DEF UplinkInv, Typed, HistoryTyped
  <2>3. \/ made'[c] = made[c] /\ InRam(c)' = InRam(c)
        \/ /\ made'[c] = made[c] + 1
           /\ InRam(c)' = InRam(c) \cup {made[c] + 1}
    <3>1. CASE UplinkReceived
      BY <2>2, <3>1 DEF UplinkReceived, MakeItem, UplinkInv, Situated, Buffers
    <3>2. CASE BuildSensorData
      BY <2>2, <3>2 DEF BuildSensorData, MakeItem, Buffers
    <3> QED
      BY <1>5, <3>1, <3>2
  <2>4. CASE made'[c] = made[c] /\ InRam(c)' = InRam(c)
    BY <2>1, <2>4, Still
  <2>5. CASE /\ made'[c] = made[c] + 1
             /\ InRam(c)' = InRam(c) \cup {made[c] + 1}
    <3>1. Held(c)' = Held(c) \cup {made[c] + 1}
      BY <2>1, <2>5, HeldIs
    <3> QED
      BY <2>1, <2>5, <3>1 DEF Simulated, Makes
  <2> QED
    BY <2>3, <2>4, <2>5
<1>6. CASE UplinkRelayed \/ PushEnds
  <2>1. /\ files' = files /\ made' = made /\ got' = got /\ lost' = lost
        /\ mishaps' = mishaps
    BY <1>6 DEF UplinkRelayed, PushEnds
  <2>2. CASE InRam(c)' = InRam(c)
    BY <2>1, <2>2, Still
  <2>3. CASE InRam(c)' = {} /\ InRam(c) \subseteq got[c]
    <3>1. InRam(c) \cap ItemsOf(files[c]) = {}
      BY Apart, HeldIs
    <3>2. Held(c)' = Held(c) \ InRam(c) /\ InRam(c) \subseteq Held(c)
      BY <2>1, <2>3, <3>1, HeldIs, Zenon
    <3>3. Releases(c, InRam(c))
      BY <2>1, <2>3, <3>2 DEF Releases
    <3> QED
      BY <3>2, <3>3 DEF Simulated
  <2>4. InRam(c)' = InRam(c) \/ (InRam(c)' = {} /\ InRam(c) \subseteq got[c])
    BY <1>6 DEF UplinkRelayed, PushEnds, UplinkInv, Acked, Buffers
  <2> QED
    BY <2>2, <2>3, <2>4
<1>7. CASE ConfigNotOpened
  <2> DEFINE F == IF Formatted THEN Stored(c) ELSE {}
  <2>1. lost'[c] = Lost(c, {} \cup F)
    BY <1>7 DEF ConfigNotOpened, OpenFails
  <2>2. Stored(c)' = Stored(c) \ F
    BY <1>7, HeldIs, NoItems DEF ConfigNotOpened, OpenFails
  <2>3. InRam(c)' = InRam(c) \ {} /\ made' = made /\ got' = got
    BY <1>7 DEF ConfigNotOpened
  <2>4. mishaps' = mishaps + 1
    BY <1>7 DEF ConfigNotOpened, OpenFault, Counted
  <2> HIDE DEF F
  <2>5. F \in {{}, Stored(c)}
    BY DEF F
  <2> QED
    BY <2>1, <2>2, <2>3, <2>4, <2>5, PartsLost
<1>8. CASE Reboot \/ \E b \in Buffers : CutShort(b)
  <2>1. /\ lost'[c] = Lost(c, InRam(c) \cup {}) /\ InRam(c)' = InRam(c) \ InRam(c)
        /\ files' = files /\ made' = made /\ got' = got
    BY <1>8 DEF Reboot, CutShort, Restarted
  <2>2. Stored(c)' = Stored(c) \ {}
    BY <2>1, HeldIs
  <2>3. mishaps' = mishaps + 1
    BY <1>8 DEF Reboot, CutShort, Chance, Counted
  <2> QED
    BY <2>1, <2>2, <2>3, PartsLost
<1>9. CASE UNCHANGED vars
  BY <1>9, Still DEF vars
<1> QED
  BY <1>1, <1>2, <1>3, <1>4, <1>5, <1>6, <1>7, <1>8, <1>9 DEF UplinkNext

-----------------------------------------------------------------------------
(* Refinement *)

\* The readings keep what StoreAndForward promises of an ordered line, for any
\* bounds: none is lost but in a mishap, none overtakes an older one.
THEOREM SensorLineImplemented == UplinkSpec => ImplementsSensorLine
<1>1. Init => SensorLine!Init
  <2>1. ASSUME Init PROVE Held("sensor") = {}
    BY <2>1, HeldIs, NoItems DEF Init, InRam, Buffers
  <2>2. Init => (mishaps = 0) = TRUE
    BY DEF Init
  <2> QED
    BY <2>1, <2>2 DEF Init, SensorLine!Init, Buffers
<1>2. ASSUME UplinkInv, [UplinkNext]_vars
      PROVE  [SensorLine!Next]_(SensorLine!vars)
  <2>1. Simulated("sensor") /\ mishaps \in Nat
    BY <1>2, StepSimulated DEF UplinkInv, Typed, HistoryTyped, Buffers
  <2>2. CASE Rests("sensor")
    BY <2>2 DEF Rests, SensorLine!vars
  <2>3. CASE Makes("sensor")
    BY <2>3 DEF Makes, SensorLine!Next, SensorLine!Make
  <2>4. ASSUME NEW S \in SUBSET Held("sensor"), HandsOver("sensor", S)
        PROVE  SensorLine!HandOver(S)
    BY <2>4 DEF HandsOver, SensorLine!HandOver
  <2>5. ASSUME NEW S \in SUBSET Held("sensor"), Releases("sensor", S)
        PROVE  SensorLine!Release(S)
    BY <2>5 DEF Releases, SensorLine!Release
  <2>6. ASSUME NEW S \in SUBSET Held("sensor"), Suffers("sensor", S)
        PROVE  SensorLine!Mishap(S)
    <3>1. (mishaps' = 0) = FALSE
      BY <2>1, <2>6 DEF Suffers
    <3> QED
      BY <2>6, <3>1 DEF Suffers, SensorLine!Mishap
  <2> QED
    BY <2>1, <2>2, <2>3, <2>4, <2>5, <2>6 DEF Simulated, SensorLine!Next
<1> QED
  BY InitInv, StepInv, <1>1, <1>2, PTL
     DEF UplinkSpec, ImplementsSensorLine, SensorLine!Spec

\* So do the relayed uplinks, but for their order, which nobody keeps.
THEOREM RelayLineImplemented == UplinkSpec => ImplementsRelayLine
<1>1. Init => RelayLine!Init
  <2>1. ASSUME Init PROVE Held("relay") = {}
    BY <2>1, HeldIs, NoItems DEF Init, InRam, Buffers
  <2>2. Init => (mishaps = 0) = TRUE
    BY DEF Init
  <2> QED
    BY <2>1, <2>2 DEF Init, RelayLine!Init, Buffers
<1>2. ASSUME UplinkInv, [UplinkNext]_vars
      PROVE  [RelayLine!Next]_(RelayLine!vars)
  <2>1. Simulated("relay") /\ mishaps \in Nat
    BY <1>2, StepSimulated DEF UplinkInv, Typed, HistoryTyped, Buffers
  <2>2. CASE Rests("relay")
    BY <2>2 DEF Rests, RelayLine!vars
  <2>3. CASE Makes("relay")
    BY <2>3 DEF Makes, RelayLine!Next, RelayLine!Make
  <2>4. ASSUME NEW S \in SUBSET Held("relay"), HandsOver("relay", S)
        PROVE  RelayLine!HandOver(S)
    BY <2>4 DEF HandsOver, RelayLine!HandOver
  <2>5. ASSUME NEW S \in SUBSET Held("relay"), Releases("relay", S)
        PROVE  RelayLine!Release(S)
    BY <2>5 DEF Releases, RelayLine!Release
  <2>6. ASSUME NEW S \in SUBSET Held("relay"), Suffers("relay", S)
        PROVE  RelayLine!Mishap(S)
    <3>1. (mishaps' = 0) = FALSE
      BY <2>1, <2>6 DEF Suffers
    <3> QED
      BY <2>6, <3>1 DEF Suffers, RelayLine!Mishap
  <2> QED
    BY <2>1, <2>2, <2>3, <2>4, <2>5, <2>6 DEF Simulated, RelayLine!Next
<1> QED
  BY InitInv, StepInv, <1>1, <1>2, PTL
     DEF UplinkSpec, ImplementsRelayLine, RelayLine!Spec

-----------------------------------------------------------------------------
(* What the lines inherit *)

SensorPromise == INSTANCE StoreAndForward_proofs
    WITH Ordered <- TRUE, made <- made["sensor"], held <- Held("sensor"),
         got <- got["sensor"], lost <- lost["sensor"],
         safe <- mishaps = 0
RelayPromise == INSTANCE StoreAndForward_proofs
    WITH Ordered <- FALSE, made <- made["relay"], held <- Held("relay"),
         got <- got["relay"], lost <- lost["relay"],
         safe <- mishaps = 0

LEMMA SensorsPromise == ImplementsSensorLine => SensorPromise!Spec
  BY PTL
     DEF SensorLine!Spec, SensorPromise!Spec, SensorLine!Init,
         SensorPromise!Init, SensorLine!Next, SensorPromise!Next,
         SensorLine!vars, SensorPromise!vars, SensorLine!Make,
         SensorPromise!Make, SensorLine!HandOver, SensorPromise!HandOver,
         SensorLine!Release, SensorPromise!Release, SensorLine!Mishap,
         SensorPromise!Mishap,
         ImplementsSensorLine

LEMMA RelayPromises == ImplementsRelayLine => RelayPromise!Spec
  BY PTL
     DEF RelayLine!Spec, RelayPromise!Spec, RelayLine!Init,
         RelayPromise!Init, RelayLine!Next, RelayPromise!Next,
         RelayLine!vars, RelayPromise!vars, RelayLine!Make,
         RelayPromise!Make, RelayLine!HandOver, RelayPromise!HandOver,
         RelayLine!Release, RelayPromise!Release, RelayLine!Mishap,
         RelayPromise!Mishap,
         ImplementsRelayLine

\* No reading and no relayed uplink is ever unaccounted for: it is with the
\* device, with the server or lost, and without a mishap none is lost
\* (pushSensorData, flushBufferedSensorData, LoRaGatewayRelayController::poll).
THEOREM NothingForgotten ==
    UplinkSpec => [](SensorLine!Accounted /\ RelayLine!Accounted)
<1>1. SensorPromise!Accounted => SensorLine!Accounted
  BY DEF SensorPromise!Accounted, SensorLine!Accounted
<1>2. RelayPromise!Accounted => RelayLine!Accounted
  BY DEF RelayPromise!Accounted, RelayLine!Accounted
<1>3. SensorPromise!Spec => []SensorPromise!Accounted
  BY SensorPromise!EveryItemAccounted
<1>4. RelayPromise!Spec => []RelayPromise!Accounted
  BY RelayPromise!EveryItemAccounted
<1> QED
  BY <1>1, <1>2, <1>3, <1>4, SensorLineImplemented, RelayLineImplemented,
     SensorsPromise, RelayPromises, PTL

\* A reading the server gets for the first time is younger than all it has,
\* whatever is retried, spilled, replayed or lost in between
\* (flushBufferedSensorData before pushSensorData).
THEOREM ReadingsInOrder == UplinkSpec => SensorLine!Chronological
<1>1. SensorPromise!Spec => SensorPromise!Chronological
  BY SensorPromise!DeliveredInOrder
<1>2. SensorPromise!Chronological => SensorLine!Chronological
  BY PTL DEF SensorPromise!Chronological, SensorLine!Chronological,
             SensorPromise!vars, SensorLine!vars
<1> QED
  BY <1>1, <1>2, SensorLineImplemented, SensorsPromise, PTL

=============================================================================
