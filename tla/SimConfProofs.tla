--------------------------- MODULE SimConfProofs ---------------------------
(***************************************************************************)
(* Proofs about SimConf for every number of request threads, every set of  *)
(* files and every choice of the sleeps and of the longest lookup that     *)
(* keeps ConfAssumption.                                                   *)
(*                                                                         *)
(* ReadersDisjoint rests on how long ago the map that is not served was    *)
(* left: a thread that is still in it has been there since before the      *)
(* switch, so its lookup is at least as old as the sleeps since then       *)
(* (AgeInv), and no lookup grows as old as both sleeps together.           *)
(* LookupsForward rests on ReadersDisjoint: a map a thread is in keeps its *)
(* version (VersionInv).                                                   *)
(* ServedWhole rests on FilledInv: the map being filled is the image of    *)
(* the entries read so far.                                                *)
(***************************************************************************)
EXTENDS SimConf, TLAPS

(* The loop of load_product_conf stays within the file it read.            *)
EntryInv ==
  /\ pc = "set" => entry \in 1 .. Len(conf)
  /\ pc # "set" => entry = 1

TypeInv == TypeOK /\ EntryInv

(* How old, at least, a lookup in the map that is not served is.           *)
Elapsed ==
  IF pc = "grace" THEN Grace - timer
  ELSE IF pc \in {"client", "clientGrace"} THEN Grace
  ELSE IF pc = "sleep" THEN Grace + ReloadTime - timer
  ELSE Grace + ReloadTime

AgeInv ==
  \A r \in Readers :
    /\ idx[r] = NoMap => age[r] = 0
    /\ idx[r] # NoMap => age[r] <= LookupTime
    /\ idx[r] = Spare /\ pc \notin {"boot", "exited"} => age[r] >= Elapsed
    /\ idx[r] = Spare => pc # "boot"

VersionInv ==
  /\ \A i \in {0, 1} : version[i] <= loads
  /\ pc \in {"set", "switch"} => version[Spare] = loads
  /\ \A r \in Readers :
       /\ seen[r] <= version[gIndex]
       /\ idx[r] # NoMap => /\ seen[r] <= version[idx[r]]
                            /\ version[idx[r]] <= version[gIndex]

-----------------------------------------------------------------------------
(* A file that is loaded is a sequence of entries.                         *)
LEMMA FilesAreEntries ==
  ASSUME NEW f \in Files
  PROVE  f \in Seq(Entry)
BY ConfAssumption

(* What a whole valid file is loaded into has known patterns and keys.     *)
LEMMA ImageType ==
  ASSUME NEW f \in Files, Valid(f), NEW p \in DOMAIN Image(f, Len(f))
  PROVE  Image(f, Len(f))[p] \in Conf
<1>1. f \in Seq(Entry)
  BY FilesAreEntries
<1>2. \A i \in 1 .. Len(f) : f[i] \in Entry
  BY <1>1
<1>3. p \in {f[i].pid : i \in 1 .. Len(f)}
  BY DEF Image
<1>4. PICK i \in 1 .. Len(f) :
        Image(f, Len(f))[p] = [pattern |-> f[i].pattern, keys |-> KeysUpTo(f, i)]
  <2> DEFINE j == CHOOSE k \in 1 .. Len(f) : f[k].pid = p
  <2>1. j \in 1 .. Len(f)
    BY <1>3
  <2>2. Image(f, Len(f))[p] = [pattern |-> f[j].pattern, keys |-> KeysUpTo(f, j)]
    BY <1>3 DEF Image
  <2> QED
    BY <2>1, <2>2
<1>5. f[i].pattern \in 0 .. Sentence
  BY <1>2 DEF Valid, Entry, Sentence
<1>6. KeysUpTo(f, i) \subseteq Keys
  <2>1. Len(f) \in Nat
    BY <1>1
  <2>2. \A k \in 1 .. i : k \in 1 .. Len(f)
    BY <2>1
  <2>3. \A k \in 1 .. Len(f) : f[k].keys \subseteq Keys
    BY <1>2 DEF Entry
  <2> QED
    BY <2>2, <2>3 DEF KeysUpTo
<1> QED
  BY <1>4, <1>5, <1>6 DEF Conf

LEMMA TypeInit == Init => TypeInv
<1> SUFFICES ASSUME Init PROVE TypeInv
  OBVIOUS
<1>1. \A i \in {0, 1} : \A p \in DOMAIN maps[i] : maps[i][p] \in Conf
  <2>1. file \in Files /\ Valid(file)
    BY DEF Init
  <2>2. maps[0] = Image(file, Len(file)) /\ maps[1] = Empty
    BY DEF Init
  <2>3. DOMAIN Empty = {}
    BY DEF Empty
  <2> QED
    BY <2>1, <2>2, <2>3, ImageType
<1>2. conf \in Seq(Entry)
  BY DEF Init
<1>3. TypeOK
  <2>1. /\ file \in Files /\ mtime \in Nat /\ fresh \in BOOLEAN /\ edits \in Nat
        /\ pc \in Pcs /\ timer \in Nat /\ confMtime \in Nat
        /\ entry \in Nat /\ permanent \subseteq Keys /\ DOMAIN maps = {0, 1}
        /\ gIndex \in {0, 1} /\ ubmgrIndex \in {0, 1} /\ loads \in Nat
    BY DEF Init, Pcs, LoadPcs
  <2>2. version \in [{0, 1} -> Nat]
    BY DEF Init
  <2>3. /\ idx \in [Readers -> {0, 1, NoMap}]
        /\ age \in [Readers -> Nat] /\ seen \in [Readers -> Nat]
    BY DEF Init
  <2> QED
    BY <1>1, <1>2, <2>1, <2>2, <2>3 DEF TypeOK
<1> QED
  BY <1>3 DEF Init, TypeInv, EntryInv

(* Steps of the reload thread that fill no map keep every type.             *)
LEMMA PlainReloadType ==
  ASSUME TypeInv,
         \/ Boot \/ WakeUp \/ CheckUnchanged \/ CheckMissing \/ CheckModified
         \/ LoadRefused \/ LoadFile \/ BadPattern \/ DuplicateProduct \/ Switch
         \/ GraceEnds \/ ClientKept \/ ClientSwitched \/ ClientGraceEnds
  PROVE  TypeInv'
<1> USE ConfAssumption DEF TypeInv, TypeOK, EntryInv, fileVars, loadVars,
      mapVars, readerVars, Pcs, LoadPcs, Goto, SleepThen, Return
<1>1. CASE Boot
  <2>1. mtime' \in Nat /\ file' \in Files \union {Unreadable, Missing}
    BY <1>1 DEF Boot, MakeFile, Touch
  <2>2. /\ fresh' \in BOOLEAN /\ edits' \in Nat
        /\ pc' \in {"sleep", "exited"} /\ timer' \in Nat /\ confMtime' \in Nat
    BY <1>1 DEF Boot, MakeFile, Touch
  <2>3. UNCHANGED <<conf, entry, permanent, mapVars, readerVars>> /\ pc = "boot"
    BY <1>1 DEF Boot
  <2> QED
    BY <2>1, <2>2, <2>3
<1>2. CASE WakeUp
  BY <1>2 DEF WakeUp
<1>3. CASE CheckUnchanged
  BY <1>3 DEF CheckUnchanged
<1>4. CASE CheckMissing
  <2>1. mtime' \in Nat /\ file' \in Files \union {Unreadable, Missing}
    BY <1>4 DEF CheckMissing, MakeFile, Touch
  <2>2. /\ fresh' \in BOOLEAN /\ edits' \in Nat
        /\ pc' \in {"client", "exited"} /\ timer' \in Nat
    BY <1>4 DEF CheckMissing, MakeFile, Touch
  <2>3. UNCHANGED <<loadVars, mapVars, readerVars>> /\ pc = "check"
    BY <1>4 DEF CheckMissing
  <2> QED
    BY <2>1, <2>2, <2>3
<1>5. CASE CheckModified
  BY <1>5 DEF CheckModified
<1>6. CASE LoadRefused
  BY <1>6 DEF LoadRefused
<1>7. CASE LoadFile
  BY <1>7, FilesAreEntries DEF LoadFile
<1>8. CASE BadPattern
  BY <1>8 DEF BadPattern
<1>9. CASE DuplicateProduct
  BY <1>9 DEF DuplicateProduct
<1>10. CASE Switch
  BY <1>10 DEF Switch, Spare
<1>11. CASE GraceEnds
  BY <1>11 DEF GraceEnds
<1>12. CASE ClientKept
  BY <1>12 DEF ClientKept
<1>13. CASE ClientSwitched
  BY <1>13 DEF ClientSwitched
<1>14. CASE ClientGraceEnds
  BY <1>14 DEF ClientGraceEnds
<1> QED
  BY <1>1, <1>2, <1>3, <1>4, <1>5, <1>6, <1>7, <1>8, <1>9, <1>10, <1>11,
     <1>12, <1>13, <1>14

(* ClearSpare empties a map.                                               *)
LEMMA ClearType ==
  ASSUME TypeInv, ClearSpare
  PROVE  TypeInv'
<1> USE DEF TypeInv, TypeOK, EntryInv, fileVars, loadVars, mapVars,
      readerVars, Pcs, LoadPcs, Goto, Return
<1>1. /\ maps' = [maps EXCEPT ![Spare] = Empty] /\ loads' = loads + 1
      /\ version' = [version EXCEPT ![Spare] = loads + 1]
      /\ UNCHANGED <<fileVars, confMtime, gIndex, ubmgrIndex, readerVars>>
  BY DEF ClearSpare
<1>2. Spare \in {0, 1} /\ DOMAIN Empty = {}
  BY DEF Spare, Empty
<1>3. DOMAIN maps' = {0, 1}
  BY <1>1
<1>4. \A i \in {0, 1} : \A p \in DOMAIN maps'[i] : maps'[i][p] \in Conf
  BY <1>1, <1>2
<1>5. version' \in [{0, 1} -> Nat] /\ loads' \in Nat
  BY <1>1, <1>2
<1>6. /\ pc' \in Pcs /\ timer' \in Nat /\ confMtime' \in Nat
      /\ conf' \in Seq(Entry) /\ entry' \in Nat /\ permanent' \subseteq Keys
  BY <1>1 DEF ClearSpare
<1>7. TypeOK'
  BY <1>1, <1>3, <1>4, <1>5, <1>6
<1>8. EntryInv'
  <2>1. CASE conf = <<>>
    BY <2>1 DEF ClearSpare
  <2>2. CASE conf # <<>>
    <3>1. Len(conf) \in Nat /\ Len(conf) >= 1
      BY <2>2
    <3>2. pc' = "set" /\ entry' = entry /\ conf' = conf /\ entry = 1
      BY <2>2 DEF ClearSpare
    <3> QED
      BY <3>1, <3>2
  <2> QED
    BY <2>1, <2>2
<1> QED
  BY <1>7, <1>8

(* SetProduct puts an entry with a known pattern into a map.               *)
LEMMA SetType ==
  ASSUME TypeInv, SetProduct
  PROVE  TypeInv'
<1> USE DEF TypeInv, TypeOK, EntryInv, fileVars, loadVars, mapVars,
      readerVars, Pcs, LoadPcs, Goto, Return
<1> DEFINE e == conf[entry]
           added == [pattern |-> e.pattern, keys |-> permanent \union e.keys]
<1>1. entry \in 1 .. Len(conf) /\ e \in Entry
  BY DEF SetProduct
<1>2. added \in Conf
  <2>1. e.pattern \in Nat /\ e.keys \subseteq Keys /\ e.pattern <= Sentence
    BY <1>1 DEF Entry, SetProduct
  <2>2. \A n \in Nat : n <= Sentence => n \in 0 .. Sentence
    BY DEF Sentence
  <2>3. e.pattern \in 0 .. Sentence
    BY <2>1, <2>2
  <2> QED
    BY <2>1, <2>3 DEF Conf
<1>3. maps' = [maps EXCEPT ![Spare] =
                 [p \in DOMAIN maps[Spare] \union {e.pid} |->
                    IF p = e.pid THEN added ELSE maps[Spare][p]]]
  BY DEF SetProduct, AddProduct
<1>4. Spare \in {0, 1}
  BY DEF Spare
<1>5. DOMAIN maps' = {0, 1}
  BY <1>3
<1>6. \A i \in {0, 1} : \A p \in DOMAIN maps'[i] : maps'[i][p] \in Conf
  <2> SUFFICES ASSUME NEW i \in {0, 1}, NEW p \in DOMAIN maps'[i]
               PROVE  maps'[i][p] \in Conf
    OBVIOUS
  <2>1. CASE i # Spare
    BY <1>3, <2>1
  <2>2. CASE i = Spare
    <3> HIDE DEF added, e
    <3>1. maps'[i] = [q \in DOMAIN maps[Spare] \union {e.pid} |->
                       IF q = e.pid THEN added ELSE maps[Spare][q]]
      BY <1>3, <1>4, <2>2
    <3> QED
      BY <1>2, <1>4, <3>1
  <2> QED
    BY <2>1, <2>2
<1>7. UNCHANGED <<fileVars, confMtime, gIndex, ubmgrIndex, version, loads,
                  readerVars>>
  BY DEF SetProduct
<1>8. /\ pc' \in Pcs /\ timer' \in Nat
      /\ conf' \in Seq(Entry) /\ entry' \in Nat /\ permanent' \subseteq Keys
  <2>1. e.keys \subseteq Keys
    BY <1>1 DEF Entry
  <2>2. CASE entry = Len(conf)
    <3>1. ~(entry < Len(conf))
      BY <1>1, <2>2
    <3>2. /\ pc' = "switch" /\ timer' = timer /\ conf' = <<>> /\ entry' = 1
          /\ permanent' = {}
      BY <3>1 DEF SetProduct
    <3> QED
      BY <3>2
  <2>3. CASE entry # Len(conf)
    <3>1. /\ pc' = "set" /\ timer' = timer /\ conf' = conf /\ entry' = entry + 1
          /\ permanent' = permanent \union e.keys
      BY <2>3 DEF SetProduct
    <3> QED
      BY <2>1, <3>1
  <2> QED
    BY <2>2, <2>3
<1>9. EntryInv'
  BY <1>1 DEF SetProduct
<1> QED
  BY <1>5, <1>6, <1>7, <1>8, <1>9

(* Request threads, the operator and the clock keep every type.            *)
LEMMA OtherType ==
  ASSUME TypeInv,
         \/ \E r \in Readers : StartLookup(r) \/ EndLookup(r)
         \/ \E f \in Files \union {Unreadable} : EditFile(f)
         \/ RemoveFile \/ Tick
  PROVE  TypeInv'
<1> USE DEF TypeInv, TypeOK, EntryInv, fileVars, loadVars, mapVars, readerVars
<1>1. ASSUME NEW r \in Readers, StartLookup(r) PROVE TypeInv'
  BY <1>1 DEF StartLookup
<1>2. ASSUME NEW r \in Readers, EndLookup(r) PROVE TypeInv'
  <2>1. version[idx[r]] \in Nat
    BY <1>2 DEF EndLookup, NoMap
  <2>2. seen' \in [Readers -> Nat] /\ age' \in [Readers -> Nat]
    BY <1>2, <2>1 DEF EndLookup
  <2>3. idx' \in [Readers -> {0, 1, NoMap}]
    BY <1>2 DEF EndLookup
  <2>4. UNCHANGED <<fileVars, pc, timer, loadVars, mapVars>>
    BY <1>2 DEF EndLookup
  <2> QED
    BY <2>2, <2>3, <2>4
<1>3. ASSUME NEW f \in Files \union {Unreadable}, EditFile(f) PROVE TypeInv'
  <2>1. /\ file' = f /\ mtime' \in Nat /\ fresh' \in BOOLEAN /\ edits' \in Nat
    BY <1>3 DEF EditFile, Touch
  <2>2. UNCHANGED <<pc, timer, loadVars, mapVars, readerVars>>
    BY <1>3 DEF EditFile
  <2> QED
    BY <2>1, <2>2
<1>4. CASE RemoveFile
  BY <1>4 DEF RemoveFile
<1>5. CASE Tick
  <2>1. timer' \in Nat
    BY <1>5 DEF Tick
  <2>2. age' \in [Readers -> Nat]
    BY <1>5 DEF Tick
  <2>3. fresh' = FALSE /\ UNCHANGED <<file, mtime, edits, pc, loadVars, mapVars, idx, seen>>
    BY <1>5 DEF Tick
  <2> QED
    BY <2>1, <2>2, <2>3
<1> QED
  BY <1>1, <1>2, <1>3, <1>4, <1>5

LEMMA TypeStep == TypeInv /\ [Next]_vars => TypeInv'
<1> SUFFICES ASSUME TypeInv, [Next]_vars PROVE TypeInv'
  OBVIOUS
<1>1. CASE Reload
  BY <1>1, PlainReloadType, ClearType, SetType DEF Reload
<1>2. CASE Next /\ ~Reload
  BY <1>2, OtherType DEF Next
<1>3. CASE UNCHANGED vars
  BY <1>3 DEF vars, fileVars, loadVars, mapVars, readerVars, TypeInv, TypeOK,
     EntryInv
<1> QED
  BY <1>1, <1>2, <1>3

(* Every variable keeps its type, and no map ever holds a product whose    *)
(* pattern load_product_conf refuses.                                      *)
THEOREM TypeCorrect == Spec => []TypeOK
<1>1. TypeInv => TypeOK
  BY DEF TypeInv
<1> QED
  BY <1>1, TypeInit, TypeStep, PTL DEF Spec

-----------------------------------------------------------------------------
(* A step that moves no request thread and does not switch keeps AgeInv if *)
(* it does not ask for more than has elapsed.                              *)
LEMMA AgeKept ==
  ASSUME TypeInv, TypeInv', AgeInv, UNCHANGED <<gIndex, idx, age>>, pc' # "boot",
         pc = "boot" \/ pc' = "exited" \/ (pc # "exited" /\ Elapsed' <= Elapsed)
  PROVE  AgeInv'
<1>1. Elapsed \in Int /\ Elapsed' \in Int
  <2>1. timer \in Nat /\ timer' \in Nat
    BY DEF TypeInv, TypeOK
  <2> QED
    BY <2>1, ConfAssumption DEF Elapsed
<1> SUFFICES ASSUME NEW r \in Readers
             PROVE  /\ idx'[r] = NoMap => age'[r] = 0
                    /\ idx'[r] # NoMap => age'[r] <= LookupTime
                    /\ idx'[r] = Spare' /\ pc' \notin {"boot", "exited"} => age'[r] >= Elapsed'
                    /\ idx'[r] = Spare' => pc' # "boot"
  BY DEF AgeInv
<1>2. Spare' = Spare
  BY DEF Spare
<1>3. age[r] \in Nat
  BY DEF TypeInv, TypeOK
<1> QED
  BY <1>1, <1>2, <1>3 DEF AgeInv

(* A reload step asks for no more than has elapsed, except Switch, which   *)
(* asks for nothing.                                                       *)
LEMMA AgeReload ==
  ASSUME TypeInv, TypeInv', AgeInv, Reload
  PROVE  AgeInv'
<1> USE ConfAssumption DEF fileVars, loadVars, mapVars, readerVars, Goto,
      SleepThen, Return
<1>1. CASE Boot
  BY <1>1, AgeKept DEF Boot, MakeFile
<1>2. CASE WakeUp
  BY <1>2, AgeKept DEF WakeUp, Elapsed
<1>3. CASE CheckUnchanged
  BY <1>3, AgeKept DEF CheckUnchanged, Elapsed
<1>4. CASE CheckMissing
  BY <1>4, AgeKept DEF CheckMissing, MakeFile, Elapsed
<1>5. CASE CheckModified
  BY <1>5, AgeKept DEF CheckModified, Elapsed
<1>6. CASE LoadRefused
  BY <1>6, AgeKept DEF LoadRefused, Elapsed
<1>7. CASE LoadFile
  BY <1>7, AgeKept DEF LoadFile, Elapsed
<1>8. CASE ClearSpare
  BY <1>8, AgeKept DEF ClearSpare, Elapsed
<1>9. CASE SetProduct
  BY <1>9, AgeKept DEF SetProduct, Elapsed
<1>10. CASE BadPattern
  BY <1>10, AgeKept DEF BadPattern, Elapsed
<1>11. CASE DuplicateProduct
  BY <1>11, AgeKept DEF DuplicateProduct, Elapsed
<1>12. CASE Switch
  <2>1. /\ pc' = "grace" /\ timer' = Grace /\ gIndex' = Spare
        /\ UNCHANGED <<idx, age>>
    BY <1>12 DEF Switch
  <2>2. Elapsed' = 0
    BY <2>1 DEF Elapsed
  <2>3. \A r \in Readers : age[r] \in Nat
    BY DEF TypeInv, TypeOK
  <2> QED
    BY <2>1, <2>2, <2>3 DEF AgeInv
<1>13. CASE GraceEnds
  BY <1>13, AgeKept DEF GraceEnds, Elapsed
<1>14. CASE ClientKept
  BY <1>14, AgeKept DEF ClientKept, Elapsed
<1>15. CASE ClientSwitched
  BY <1>15, AgeKept DEF ClientSwitched, Elapsed
<1>16. CASE ClientGraceEnds
  BY <1>16, AgeKept DEF ClientGraceEnds, Elapsed
<1> QED
  BY <1>1, <1>2, <1>3, <1>4, <1>5, <1>6, <1>7, <1>8, <1>9, <1>10, <1>11,
     <1>12, <1>13, <1>14, <1>15, <1>16 DEF Reload

LEMMA AgeStep == TypeInv /\ TypeInv' /\ AgeInv /\ [Next]_vars => AgeInv'
<1> SUFFICES ASSUME TypeInv, TypeInv', AgeInv, [Next]_vars PROVE AgeInv'
  OBVIOUS
<1> USE DEF fileVars, loadVars, mapVars, readerVars
<1>1. CASE Reload
  BY <1>1, AgeReload
<1>2. ASSUME NEW r \in Readers, StartLookup(r) PROVE AgeInv'
  <2>1. /\ idx' = [idx EXCEPT ![r] = gIndex] /\ idx[r] = NoMap
        /\ UNCHANGED <<pc, timer, gIndex, age>>
    BY <1>2 DEF StartLookup
  <2>2. gIndex # Spare /\ Spare' = Spare /\ Elapsed' = Elapsed
    BY <2>1 DEF Spare, Elapsed, TypeInv, TypeOK
  <2>3. age[r] = 0 /\ gIndex # NoMap /\ idx'[r] = gIndex
    BY <2>1 DEF AgeInv, TypeInv, TypeOK, NoMap
  <2>4. \A q \in Readers : q # r => idx'[q] = idx[q]
    BY <2>1 DEF TypeInv, TypeOK
  <2> QED
    BY <2>1, <2>2, <2>3, <2>4, ConfAssumption DEF AgeInv
<1>3. ASSUME NEW r \in Readers, EndLookup(r) PROVE AgeInv'
  <2>1. /\ idx' = [idx EXCEPT ![r] = NoMap] /\ age' = [age EXCEPT ![r] = 0]
        /\ UNCHANGED <<pc, timer, gIndex>>
    BY <1>3 DEF EndLookup
  <2>2. NoMap # Spare /\ Spare' = Spare /\ Elapsed' = Elapsed
    <3>1. gIndex \in {0, 1}
      BY DEF TypeInv, TypeOK
    <3>2. NoMap # Spare /\ Spare' = Spare
      BY <2>1, <3>1 DEF Spare, NoMap
    <3>3. Elapsed' = Elapsed
      BY <2>1 DEF Elapsed
    <3> QED
      BY <3>2, <3>3
  <2>3. age'[r] = 0 /\ idx'[r] = NoMap
    BY <2>1 DEF TypeInv, TypeOK
  <2>4. \A q \in Readers : q # r => idx'[q] = idx[q] /\ age'[q] = age[q]
    BY <2>1 DEF TypeInv, TypeOK
  <2> QED
    BY <2>1, <2>2, <2>3, <2>4 DEF AgeInv
<1>4. CASE \/ \E f \in Files \union {Unreadable} : EditFile(f)
           \/ RemoveFile \/ UNCHANGED vars
  <2>1. UNCHANGED <<pc, timer, gIndex, idx, age>>
    BY <1>4 DEF EditFile, RemoveFile, vars
  <2> QED
    BY <2>1 DEF AgeInv, Elapsed, Spare
<1>5. CASE Tick
  <2>1. /\ pc # "exited" /\ UNCHANGED <<pc, gIndex, idx>>
        /\ timer' = IF timer = 0 THEN 0 ELSE timer - 1
    BY <1>5 DEF Tick
  <2>2. Spare' = Spare
    BY <2>1 DEF Spare
  <2>3. /\ Elapsed \in Int /\ Elapsed' \in Int
        /\ pc \notin {"boot", "exited"} => Elapsed' <= Elapsed + 1
    <3>1. timer \in Nat /\ timer' \in Nat /\ timer' <= timer /\ timer' >= timer - 1
      BY <2>1 DEF TypeInv, TypeOK
    <3> QED
      BY <2>1, <3>1, ConfAssumption DEF Elapsed
  <2> SUFFICES ASSUME NEW r \in Readers
               PROVE  /\ idx'[r] = NoMap => age'[r] = 0
                      /\ idx'[r] # NoMap => age'[r] <= LookupTime
                      /\ idx'[r] = Spare' /\ pc' \notin {"boot", "exited"} => age'[r] >= Elapsed'
                      /\ idx'[r] = Spare' => pc' # "boot"
    BY DEF AgeInv
  <2>4. age[r] \in Nat /\ NoMap # Spare
    <3>1. gIndex \in {0, 1} /\ age[r] \in Nat
      BY DEF TypeInv, TypeOK
    <3> QED
      BY <3>1 DEF Spare, NoMap
  <2>5. /\ age'[r] = IF idx[r] = NoMap THEN age[r] ELSE age[r] + 1
        /\ idx[r] # NoMap => age[r] < LookupTime
    BY <1>5 DEF Tick
  <2> QED
    BY <2>1, <2>2, <2>3, <2>4, <2>5, ConfAssumption DEF AgeInv
<1> QED
  BY <1>1, <1>2, <1>3, <1>4, <1>5 DEF Next

LEMMA AgeInit == Init => AgeInv
BY ConfAssumption DEF Init, AgeInv, Spare, NoMap, Elapsed

(* No thread can be in a map that is being filled: it would have been there *)
(* for both sleeps, longer than a lookup lasts.                             *)
LEMMA AgeDisjoint == TypeInv /\ AgeInv => ReadersDisjoint
<1> SUFFICES ASSUME TypeInv, AgeInv, pc \in LoadPcs, NEW r \in Readers,
                    idx[r] = Spare
             PROVE  FALSE
  BY DEF ReadersDisjoint
<1>1. age[r] >= Grace + ReloadTime
  BY DEF AgeInv, Elapsed, LoadPcs
<1>2. age[r] <= LookupTime /\ age[r] \in Nat
  BY DEF AgeInv, TypeInv, TypeOK, Spare, NoMap
<1> QED
  BY <1>1, <1>2, ConfAssumption

Disjoint == TypeInv /\ AgeInv

LEMMA DisjointSpec == Spec => []Disjoint
<1>1. Init => Disjoint
  BY TypeInit, AgeInit DEF Disjoint
<1>2. Disjoint /\ [Next]_vars => Disjoint'
  BY TypeStep, AgeStep DEF Disjoint
<1> QED
  BY <1>1, <1>2, PTL DEF Spec

(* No request thread is inside a lookup of the map that load_product_conf   *)
(* clears and fills (sim_conf.cpp:134-140), for any sleeps that together    *)
(* outlast a lookup.                                                        *)
THEOREM NoReaderInFilledMap == Spec => []ReadersDisjoint
<1>1. Disjoint => ReadersDisjoint
  BY AgeDisjoint DEF Disjoint
<1> QED
  BY <1>1, DisjointSpec, PTL

-----------------------------------------------------------------------------
(* A step that touches no version, no index and no thread keeps VersionInv  *)
(* if it does not claim that a map has been filled.                        *)
LEMMA VersionKept ==
  ASSUME VersionInv, UNCHANGED <<gIndex, version, loads, idx, seen>>,
         pc' \in {"set", "switch"} => pc \in {"set", "switch"}
  PROVE  VersionInv'
BY DEF VersionInv, Spare

LEMMA VersionReload ==
  ASSUME TypeInv, ReadersDisjoint, VersionInv, Reload
  PROVE  VersionInv'
<1> USE DEF fileVars, loadVars, mapVars, readerVars, Goto, SleepThen, Return
<1>1. CASE Boot
  BY <1>1, VersionKept DEF Boot, MakeFile
<1>2. CASE \/ WakeUp \/ CheckUnchanged \/ CheckModified \/ LoadRefused
           \/ LoadFile \/ BadPattern \/ GraceEnds \/ ClientKept
           \/ ClientSwitched \/ ClientGraceEnds
  BY <1>2, VersionKept DEF WakeUp, CheckUnchanged, CheckModified, LoadRefused,
     LoadFile, BadPattern, GraceEnds, ClientKept, ClientSwitched,
     ClientGraceEnds
<1>3. CASE CheckMissing
  BY <1>3, VersionKept DEF CheckMissing, MakeFile
<1>4. CASE SetProduct
  BY <1>4, VersionKept DEF SetProduct
<1>5. CASE DuplicateProduct
  BY <1>5, VersionKept DEF DuplicateProduct
<1>6. CASE ClearSpare
  <2>1. /\ loads' = loads + 1 /\ version' = [version EXCEPT ![Spare] = loads + 1]
        /\ pc = "clear" /\ UNCHANGED <<gIndex, idx, seen>>
    BY <1>6 DEF ClearSpare
  <2>2. /\ Spare \in {0, 1} /\ gIndex \in {0, 1} /\ gIndex # Spare /\ loads \in Nat
        /\ version \in [{0, 1} -> Nat]
    BY DEF Spare, TypeInv, TypeOK
  <2>3. /\ version'[Spare] = loads + 1 /\ version'[gIndex] = version[gIndex]
        /\ Spare' = Spare
    BY <2>1, <2>2 DEF Spare
  <2>4. \A i \in {0, 1} : version'[i] <= loads'
    BY <2>1, <2>2 DEF VersionInv
  <2>5. \A r \in Readers : idx[r] # NoMap => idx[r] = gIndex
    BY <2>1, <2>2 DEF ReadersDisjoint, LoadPcs, TypeInv, TypeOK, NoMap, Spare
  <2> QED
    BY <2>1, <2>3, <2>4, <2>5 DEF VersionInv
<1>7. CASE Switch
  <2>1. /\ gIndex' = Spare /\ pc = "switch" /\ pc' = "grace"
        /\ UNCHANGED <<version, loads, idx, seen>>
    BY <1>7 DEF Switch
  <2>2. /\ Spare \in {0, 1} /\ gIndex \in {0, 1} /\ loads \in Nat
        /\ version \in [{0, 1} -> Nat] /\ seen \in [Readers -> Nat]
        /\ idx \in [Readers -> {0, 1, NoMap}]
    BY DEF Spare, TypeInv, TypeOK
  <2>3. version[Spare] = loads /\ \A i \in {0, 1} : version[i] <= version[Spare]
    BY <2>1 DEF VersionInv
  <2>4. \A r \in Readers : seen[r] <= version[Spare]
    BY <2>2, <2>3 DEF VersionInv
  <2>5. \A r \in Readers : idx[r] # NoMap => /\ seen[r] <= version[idx[r]]
                                             /\ version[idx[r]] <= version[Spare]
    BY <2>2, <2>3 DEF VersionInv
  <2> QED
    BY <2>1, <2>2, <2>3, <2>4, <2>5 DEF VersionInv
<1> QED
  BY <1>1, <1>2, <1>3, <1>4, <1>5, <1>6, <1>7 DEF Reload

LEMMA VersionStep ==
  TypeInv /\ ReadersDisjoint /\ VersionInv /\ [Next]_vars => VersionInv'
<1> SUFFICES ASSUME TypeInv, ReadersDisjoint, VersionInv, [Next]_vars
             PROVE  VersionInv'
  OBVIOUS
<1> USE DEF fileVars, loadVars, mapVars, readerVars
<1>1. CASE Reload
  BY <1>1, VersionReload
<1>2. ASSUME NEW r \in Readers, StartLookup(r) PROVE VersionInv'
  <2>1. /\ idx' = [idx EXCEPT ![r] = gIndex]
        /\ UNCHANGED <<pc, gIndex, version, loads, seen>>
    BY <1>2 DEF StartLookup
  <2>2. /\ idx'[r] = gIndex /\ \A q \in Readers : q # r => idx'[q] = idx[q]
        /\ version[gIndex] \in Nat /\ Spare' = Spare
    BY <2>1 DEF TypeInv, TypeOK, Spare
  <2> QED
    BY <2>1, <2>2 DEF VersionInv
<1>3. ASSUME NEW r \in Readers, EndLookup(r) PROVE VersionInv'
  <2>1. /\ idx' = [idx EXCEPT ![r] = NoMap] /\ idx[r] # NoMap
        /\ seen' = [seen EXCEPT ![r] = version[idx[r]]]
        /\ UNCHANGED <<pc, gIndex, version, loads>>
    BY <1>3 DEF EndLookup
  <2>2. /\ idx'[r] = NoMap /\ seen'[r] = version[idx[r]]
        /\ \A q \in Readers : q # r => idx'[q] = idx[q] /\ seen'[q] = seen[q]
        /\ Spare' = Spare
    BY <2>1 DEF TypeInv, TypeOK, Spare
  <2> QED
    BY <2>1, <2>2 DEF VersionInv
<1>4. CASE \/ \E f \in Files \union {Unreadable} : EditFile(f)
           \/ RemoveFile \/ Tick \/ UNCHANGED vars
  BY <1>4, VersionKept DEF EditFile, RemoveFile, Tick, vars
<1> QED
  BY <1>1, <1>2, <1>3, <1>4 DEF Next

LEMMA VersionInit == Init => VersionInv
<1> SUFFICES ASSUME Init PROVE VersionInv
  OBVIOUS
<1>1. /\ version[0] = 1 /\ version[1] = 0 /\ loads = 1 /\ gIndex = 0
      /\ pc = "boot" /\ \A r \in Readers : idx[r] = NoMap /\ seen[r] = 0
  BY DEF Init
<1> QED
  BY <1>1 DEF VersionInv

(* What a thread reads at the end of a lookup is no older than what it read *)
(* before.                                                                 *)
LEMMA ForwardStep ==
  ASSUME TypeInv, VersionInv, [Next]_vars
  PROVE  [\A r \in Readers : seen'[r] >= seen[r]]_vars
<1> SUFFICES ASSUME NEW r \in Readers, Next PROVE seen'[r] >= seen[r]
  OBVIOUS
<1> USE DEF fileVars, loadVars, mapVars, readerVars
<1>1. seen[r] \in Nat
  BY DEF TypeInv, TypeOK
<1>2. ASSUME NEW q \in Readers, EndLookup(q) PROVE seen'[r] >= seen[r]
  <2>1. idx[q] # NoMap /\ seen' = [seen EXCEPT ![q] = version[idx[q]]]
    BY <1>2 DEF EndLookup
  <2>2. seen'[r] = IF r = q THEN version[idx[q]] ELSE seen[r]
    BY <2>1 DEF TypeInv, TypeOK
  <2>3. version[idx[q]] \in Nat
    BY <2>1 DEF TypeInv, TypeOK, NoMap
  <2> QED
    BY <1>1, <2>1, <2>2, <2>3 DEF VersionInv
<1>3. CASE Reload
  <2>1. seen' = seen
    BY <1>3 DEF Reload, Boot, WakeUp, CheckUnchanged, CheckMissing,
       CheckModified, LoadRefused, LoadFile, ClearSpare, SetProduct,
       BadPattern, DuplicateProduct, Switch, GraceEnds, ClientKept,
       ClientSwitched, ClientGraceEnds
  <2> QED
    BY <1>1, <2>1
<1>4. CASE \/ \E q \in Readers : StartLookup(q)
           \/ \E f \in Files \union {Unreadable} : EditFile(f)
           \/ RemoveFile \/ Tick
  <2>1. seen' = seen
    BY <1>4 DEF StartLookup, EditFile, RemoveFile, Tick
  <2> QED
    BY <1>1, <2>1
<1> QED
  BY <1>2, <1>3, <1>4 DEF Next

(* A request thread never sees an older configuration after a newer one,   *)
(* however often the file is reloaded between its lookups.                  *)
THEOREM LookupsNeverBack == Spec => LookupsForward
<1>1. Init => VersionInv
  BY VersionInit
<1>2. Disjoint /\ VersionInv /\ [Next]_vars => VersionInv'
  BY VersionStep, AgeDisjoint DEF Disjoint
<1>3. Disjoint /\ VersionInv /\ [Next]_vars
        => [\A r \in Readers : seen'[r] >= seen[r]]_vars
  BY ForwardStep DEF Disjoint
<1> QED
  BY <1>1, <1>2, <1>3, DisjointSpec, PTL DEF Spec, LookupsForward

-----------------------------------------------------------------------------
(* A map that is the image of a whole file.                                *)
Whole(m) ==
  \E f \in Files :
    \E n \in 1 .. Len(f) :
      /\ Distinct(f, n) /\ m = Image(f, n)
      /\ \/ n = Len(f)
         \/ HashExist = 0 /\ ~Distinct(f, n + 1)

(* While a map is filled it is the image of the entries read so far, and   *)
(* ctmp has the keys of all of them.                                       *)
FilledInv ==
  /\ pc \in LoadPcs => conf \in Files
  /\ pc = "set" => /\ Distinct(conf, entry - 1)
                   /\ maps[Spare] = Image(conf, entry - 1)
                   /\ permanent = KeysUpTo(conf, entry - 1)
  /\ pc = "clear" => entry = 1 /\ permanent = {}
  /\ pc \notin LoadPcs => permanent = {}
  /\ pc = "switch" => Whole(maps[Spare])
  /\ Whole(maps[gIndex])

(* What Image says of an entry, when no product is named twice.            *)
LEMMA ImageOf ==
  ASSUME NEW f, NEW n \in Nat, Distinct(f, n), NEW i \in 1 .. n
  PROVE  /\ f[i].pid \in DOMAIN Image(f, n)
         /\ Image(f, n)[f[i].pid] = [pattern |-> f[i].pattern, keys |-> KeysUpTo(f, i)]
<1> DEFINE p == f[i].pid
           j == CHOOSE k \in 1 .. n : f[k].pid = p
<1>1. j \in 1 .. n /\ f[j].pid = p
  OBVIOUS
<1>2. j = i
  BY <1>1 DEF Distinct
<1>3. p \in {f[k].pid : k \in 1 .. n}
  OBVIOUS
<1>4. Image(f, n)[p] = [pattern |-> f[j].pattern, keys |-> KeysUpTo(f, j)]
  BY <1>3 DEF Image
<1>5. DOMAIN Image(f, n) = {f[k].pid : k \in 1 .. n}
  BY DEF Image
<1> QED
  BY <1>2, <1>3, <1>4, <1>5

(* One more entry of a product that is not there yet: the keys gathered    *)
(* before are the new product's, too.                                      *)
LEMMA ImageGrows ==
  ASSUME NEW f, NEW n \in Nat, Distinct(f, n),
         f[n + 1].pid \notin DOMAIN Image(f, n)
  PROVE  /\ Distinct(f, n + 1)
         /\ KeysUpTo(f, n + 1) = KeysUpTo(f, n) \union f[n + 1].keys
         /\ Image(f, n + 1)
              = [p \in DOMAIN Image(f, n) \union {f[n + 1].pid} |->
                   IF p = f[n + 1].pid
                   THEN [pattern |-> f[n + 1].pattern,
                         keys |-> KeysUpTo(f, n) \union f[n + 1].keys]
                   ELSE Image(f, n)[p]]
<1> DEFINE m == n + 1
           e == f[m]
<1>1. DOMAIN Image(f, n) = {f[k].pid : k \in 1 .. n}
  BY DEF Image
<1>2. DOMAIN Image(f, m) = {f[k].pid : k \in 1 .. m}
  BY DEF Image
<1>3. \A k : k \in 1 .. m <=> k \in 1 .. n \/ k = m
  OBVIOUS
<1>4. Distinct(f, m)
  BY <1>1, <1>3 DEF Distinct
<1>5. KeysUpTo(f, m) = KeysUpTo(f, n) \union e.keys
  <2>1. {f[k].keys : k \in 1 .. m} = {f[k].keys : k \in 1 .. n} \union {e.keys}
    BY <1>3
  <2> QED
    BY <2>1 DEF KeysUpTo
<1>6. DOMAIN Image(f, m) = DOMAIN Image(f, n) \union {e.pid}
  BY <1>1, <1>2, <1>3
<1>7. ASSUME NEW p \in DOMAIN Image(f, m)
      PROVE  Image(f, m)[p] =
               IF p = e.pid
               THEN [pattern |-> e.pattern, keys |-> KeysUpTo(f, n) \union e.keys]
               ELSE Image(f, n)[p]
  <2>1. PICK i \in 1 .. m : f[i].pid = p
    BY <1>2
  <2>2. Image(f, m)[p] = [pattern |-> f[i].pattern, keys |-> KeysUpTo(f, i)]
    BY <1>4, <2>1, ImageOf
  <2>3. CASE i = m
    BY <1>5, <2>1, <2>2, <2>3
  <2>4. CASE i # m
    <3>1. i \in 1 .. n
      BY <1>3, <2>4
    <3>2. p # e.pid
      BY <1>1, <2>1, <3>1
    <3>3. Image(f, n)[p] = [pattern |-> f[i].pattern, keys |-> KeysUpTo(f, i)]
      BY <2>1, <3>1, ImageOf
    <3> QED
      BY <2>2, <3>2, <3>3
  <2> QED
    BY <2>3, <2>4
<1>8. Image(f, m) = [p \in DOMAIN Image(f, m) |-> Image(f, m)[p]]
  BY DEF Image
<1>9. Image(f, m) = [p \in DOMAIN Image(f, n) \union {e.pid} |->
                       IF p = e.pid
                       THEN [pattern |-> e.pattern,
                             keys |-> KeysUpTo(f, n) \union e.keys]
                       ELSE Image(f, n)[p]]
  BY <1>6, <1>7, <1>8
<1> QED
  BY <1>4, <1>5, <1>9

(* Nothing has been read of a file.                                        *)
LEMMA ImageEmpty ==
  ASSUME NEW f
  PROVE  Distinct(f, 0) /\ Image(f, 0) = Empty /\ KeysUpTo(f, 0) = {}
<1>1. 1 .. 0 = {}
  OBVIOUS
<1>2. {f[i].pid : i \in 1 .. 0} = {} /\ {f[i].keys : i \in 1 .. 0} = {}
  BY <1>1
<1>3. Distinct(f, 0)
  BY <1>1 DEF Distinct
<1>4. Image(f, 0) = Empty
  BY <1>2 DEF Image, Empty
<1>5. KeysUpTo(f, 0) = {}
  BY <1>2 DEF KeysUpTo
<1> QED
  BY <1>3, <1>4, <1>5

LEMMA FilledInit == Init => FilledInv
<1> SUFFICES ASSUME Init PROVE FilledInv
  OBVIOUS
<1>1. /\ file \in Files /\ Valid(file) /\ pc = "boot" /\ permanent = {}
      /\ maps[gIndex] = Image(file, Len(file))
  BY DEF Init
<1>2. Len(file) \in 1 .. Len(file)
  <2>1. file \in Seq(Entry) /\ file # <<>>
    BY <1>1, FilesAreEntries DEF Valid
  <2> QED
    BY <2>1
<1>3. Whole(maps[gIndex])
  BY <1>1, <1>2 DEF Whole, Valid
<1> QED
  BY <1>1, <1>3 DEF FilledInv, LoadPcs

(* A step that fills no map and moves no index.                            *)
LEMMA FilledKept ==
  ASSUME FilledInv, UNCHANGED <<maps, gIndex>>,
         permanent' = {}, pc' \notin LoadPcs \union {"switch"}
  PROVE  FilledInv'
<1>1. Whole(maps'[gIndex'])
  BY DEF FilledInv
<1> QED
  BY <1>1 DEF FilledInv, Whole, LoadPcs

(* The steps of load_product_conf and the switch.                          *)
LEMMA FilledSet ==
  ASSUME TypeInv, FilledInv, SetProduct
  PROVE  FilledInv'
<1> USE DEF Goto, Return
<1> DEFINE e == conf[entry]
           n == entry - 1
<1>1. /\ pc = "set" /\ e.pid \notin DOMAIN maps[Spare] /\ gIndex' = gIndex
      /\ AddProduct(e)
  BY DEF SetProduct
<1>2. /\ n \in Nat /\ entry = n + 1 /\ entry \in 1 .. Len(conf)
      /\ Len(conf) \in Nat /\ gIndex \in {0, 1} /\ DOMAIN maps = {0, 1}
  BY <1>1 DEF TypeInv, TypeOK, EntryInv
<1>3. /\ conf \in Files /\ Distinct(conf, n) /\ maps[Spare] = Image(conf, n)
      /\ permanent = KeysUpTo(conf, n) /\ Whole(maps[gIndex])
  BY <1>1 DEF FilledInv, LoadPcs
<1>4. /\ Distinct(conf, entry)
      /\ KeysUpTo(conf, entry) = permanent \union e.keys
      /\ Image(conf, entry)
           = [p \in DOMAIN maps[Spare] \union {e.pid} |->
                IF p = e.pid
                THEN [pattern |-> e.pattern, keys |-> permanent \union e.keys]
                ELSE maps[Spare][p]]
  <2> HIDE DEF n
  <2>1. n + 1 = entry /\ conf[n + 1].pid \notin DOMAIN Image(conf, n)
    BY <1>1, <1>2, <1>3
  <2>2. /\ Distinct(conf, n + 1)
        /\ KeysUpTo(conf, n + 1) = KeysUpTo(conf, n) \union conf[n + 1].keys
        /\ Image(conf, n + 1)
             = [p \in DOMAIN Image(conf, n) \union {conf[n + 1].pid} |->
                  IF p = conf[n + 1].pid
                  THEN [pattern |-> conf[n + 1].pattern,
                        keys |-> KeysUpTo(conf, n) \union conf[n + 1].keys]
                  ELSE Image(conf, n)[p]]
    BY <1>2, <1>3, <2>1, ImageGrows
  <2> QED
    BY <1>3, <2>1, <2>2
<1>5. maps' = [maps EXCEPT ![Spare] = Image(conf, entry)]
  BY <1>1, <1>4 DEF AddProduct
<1>6. Spare' = Spare /\ Spare \in {0, 1} /\ Spare # gIndex
  BY <1>1, <1>2 DEF Spare
<1>7. maps'[Spare'] = Image(conf, entry) /\ maps'[gIndex'] = maps[gIndex]
  BY <1>1, <1>2, <1>5, <1>6
<1>8. Whole(maps'[gIndex'])
  BY <1>3, <1>7
<1>9. CASE entry = Len(conf)
  <2>1. pc' = "switch" /\ permanent' = {}
    BY <1>2, <1>9 DEF SetProduct
  <2>2. Whole(maps'[Spare'])
    BY <1>2, <1>3, <1>4, <1>7, <1>9 DEF Whole
  <2> QED
    BY <1>8, <2>1, <2>2 DEF FilledInv, Whole, LoadPcs
<1>10. CASE entry # Len(conf)
  <2>1. /\ pc' = "set" /\ permanent' = permanent \union e.keys /\ conf' = conf
        /\ entry' = entry + 1
    BY <1>10 DEF SetProduct
  <2>2. entry' - 1 = entry
    BY <1>2, <2>1
  <2> QED
    BY <1>3, <1>4, <1>7, <1>8, <2>1, <2>2 DEF FilledInv, Whole, LoadPcs
<1> QED
  BY <1>9, <1>10

LEMMA FilledClear ==
  ASSUME TypeInv, FilledInv, ClearSpare
  PROVE  FilledInv'
<1> USE DEF Goto, Return
<1>1. /\ pc = "clear" /\ maps' = [maps EXCEPT ![Spare] = Empty] /\ gIndex' = gIndex
  BY DEF ClearSpare
<1>2. gIndex \in {0, 1} /\ DOMAIN maps = {0, 1}
  BY DEF TypeInv, TypeOK
<1>3. Spare' = Spare /\ Spare \in {0, 1} /\ Spare # gIndex
  BY <1>1, <1>2 DEF Spare
<1>4. maps'[Spare'] = Empty /\ maps'[gIndex'] = maps[gIndex]
  BY <1>1, <1>2, <1>3
<1>5. Whole(maps'[gIndex']) /\ conf \in Files /\ permanent = {} /\ entry = 1
  BY <1>1, <1>4 DEF FilledInv, LoadPcs
<1>6. CASE conf = <<>>
  BY <1>5, <1>6 DEF ClearSpare, FilledInv, Whole, LoadPcs
<1>7. CASE conf # <<>>
  <2>1. pc' = "set" /\ conf' = conf /\ entry' = 1 /\ permanent' = {}
    BY <1>5, <1>7 DEF ClearSpare
  <2>2. /\ Distinct(conf', entry' - 1) /\ Image(conf', entry' - 1) = Empty
        /\ KeysUpTo(conf', entry' - 1) = {}
    <3>1. entry' - 1 = 0
      BY <2>1
    <3> QED
      BY <3>1, ImageEmpty
  <2> QED
    BY <1>4, <1>5, <2>1, <2>2 DEF FilledInv, Whole, LoadPcs
<1> QED
  BY <1>6, <1>7

(* A product named a second time ends the load: with success, if set's     *)
(* result for it is 0.                                                     *)
LEMMA FilledDuplicate ==
  ASSUME TypeInv, FilledInv, DuplicateProduct
  PROVE  FilledInv'
<1> USE DEF Goto, Return
<1> DEFINE n == entry - 1
<1>1. /\ pc = "set" /\ conf[entry].pid \in DOMAIN maps[Spare] /\ permanent' = {}
      /\ UNCHANGED <<maps, gIndex>> /\ pc' = IF HashExist = 0 THEN "switch" ELSE "client"
  BY DEF DuplicateProduct, mapVars
<1>2. /\ n \in Nat /\ entry = n + 1 /\ entry \in 1 .. Len(conf) /\ Len(conf) \in Nat
  BY <1>1 DEF TypeInv, TypeOK, EntryInv
<1>3. /\ conf \in Files /\ Distinct(conf, n) /\ maps[Spare] = Image(conf, n)
      /\ Whole(maps[gIndex])
  BY <1>1 DEF FilledInv, LoadPcs
<1>4. CASE HashExist # 0
  BY <1>1, <1>4, FilledKept DEF LoadPcs
<1>5. CASE HashExist = 0
  <2>1. PICK i \in 1 .. n : conf[i].pid = conf[entry].pid
    BY <1>1, <1>3 DEF Image
  <2>2. n \in 1 .. Len(conf) /\ i # entry /\ i \in 1 .. n + 1 /\ entry \in 1 .. n + 1
    BY <1>2, <2>1
  <2>3. ~Distinct(conf, n + 1)
    BY <2>1, <2>2 DEF Distinct
  <2>4. Whole(maps[Spare])
    BY <1>3, <1>5, <2>2, <2>3 DEF Whole
  <2>5. Whole(maps'[Spare']) /\ Whole(maps'[gIndex'])
    BY <1>1, <1>3, <2>4 DEF Spare
  <2> QED
    BY <1>1, <1>5, <2>5 DEF FilledInv, Whole, LoadPcs
<1> QED
  BY <1>4, <1>5

LEMMA FilledReload ==
  ASSUME TypeInv, FilledInv, Reload
  PROVE  FilledInv'
<1> USE DEF fileVars, loadVars, mapVars, readerVars, Goto, SleepThen, Return
<1>1. CASE \/ Boot \/ WakeUp \/ CheckUnchanged \/ CheckMissing \/ CheckModified
           \/ LoadRefused \/ BadPattern \/ GraceEnds \/ ClientKept
           \/ ClientSwitched \/ ClientGraceEnds
  <2>1. /\ UNCHANGED <<maps, gIndex>>
        /\ pc' \notin LoadPcs \union {"switch"}
        /\ permanent' = permanent \/ permanent' = {}
        /\ pc \notin LoadPcs \/ permanent' = {}
    BY <1>1 DEF Boot, WakeUp, CheckUnchanged, CheckMissing, CheckModified,
       LoadRefused, BadPattern, GraceEnds, ClientKept, ClientSwitched,
       ClientGraceEnds, MakeFile, LoadPcs
  <2> QED
    BY <2>1, FilledKept DEF FilledInv
<1>2. CASE LoadFile
  <2>1. /\ pc = "load" /\ pc' = "clear" /\ conf' = file /\ file \in Files
        /\ UNCHANGED <<entry, permanent, maps, gIndex>>
    BY <1>2 DEF LoadFile
  <2>2. entry = 1
    BY <2>1 DEF TypeInv, EntryInv
  <2> QED
    BY <2>1, <2>2 DEF FilledInv, Whole, LoadPcs
<1>3. CASE ClearSpare
  BY <1>3, FilledClear
<1>4. CASE SetProduct
  BY <1>4, FilledSet
<1>5. CASE DuplicateProduct
  BY <1>5, FilledDuplicate
<1>6. CASE Switch
  <2>1. /\ pc = "switch" /\ pc' = "grace" /\ gIndex' = Spare
        /\ UNCHANGED <<permanent, maps>>
    BY <1>6 DEF Switch
  <2>2. Whole(maps'[gIndex']) /\ permanent' = {}
    BY <2>1 DEF FilledInv, LoadPcs
  <2> QED
    BY <2>1, <2>2 DEF FilledInv, Whole, LoadPcs
<1> QED
  BY <1>1, <1>2, <1>3, <1>4, <1>5, <1>6 DEF Reload

LEMMA FilledStep == TypeInv /\ FilledInv /\ [Next]_vars => FilledInv'
<1> SUFFICES ASSUME TypeInv, FilledInv, [Next]_vars PROVE FilledInv'
  OBVIOUS
<1>1. CASE Reload
  BY <1>1, FilledReload
<1>2. CASE ~Reload
  <2>1. UNCHANGED <<pc, conf, entry, permanent, maps, gIndex>>
    BY <1>2 DEF Next, StartLookup, EndLookup, EditFile, RemoveFile, Tick, vars,
       fileVars, loadVars, mapVars, readerVars
  <2> QED
    BY <2>1 DEF FilledInv, Whole, Spare
<1> QED
  BY <1>1, <1>2

(* The map in service is always that of a whole file: a load that fails at  *)
(* any product, and one that is under way, does not show in it              *)
(* (sim_conf.cpp:65-110, 131-138), for every content of the file.           *)
THEOREM WholeFileServed == Spec => []ServedWhole
<1>1. FilledInv => ServedWhole
  BY DEF FilledInv, Whole, ServedWhole
<1>2. Init => TypeInv /\ FilledInv
  BY TypeInit, FilledInit
<1>3. (TypeInv /\ FilledInv) /\ [Next]_vars => (TypeInv /\ FilledInv)'
  BY TypeStep, FilledStep
<1> QED
  BY <1>1, <1>2, <1>3, PTL DEF Spec
=============================================================================
