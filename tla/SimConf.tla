------------------------------ MODULE SimConf ------------------------------
(***************************************************************************)
(* The product configuration of the simhash service and the thread that    *)
(* reloads it (simhash/sim_conf.cpp).  There are two maps, g_proconf[0]    *)
(* and g_proconf[1]; g_index names the one that is served.  The thread     *)
(* polls the time stamp of the file, loads into the other map, moves       *)
(* g_index and sleeps so that threads that still look up the old map can   *)
(* finish.  Nothing is locked: request threads (bak/redis.cpp) read        *)
(* g_index and then search that map, while the thread may clear it.        *)
(*                                                                         *)
(* Time is counted in seconds by Tick.  sleep lasts at least as long as it *)
(* is told and may end late.  A lookup lasts at most LookupTime.           *)
(*                                                                         *)
(* The Configure parser, bsl::hashmap and client_init are libraries: a     *)
(* load reads the whole file at once, set refuses a product that is there, *)
(* and client_init is a step that works or fails.                          *)
(***************************************************************************)
EXTENDS Integers, Sequences, FiniteSets

CONSTANTS
  Readers,      \* the request threads
  Products,     \* the product names
  Keys,         \* the permanent keys
  Files,        \* what the file may hold: sequences of product entries
  Unreadable,   \* what Configure::load refuses: a torn or an empty file
  Missing,      \* there is no file
  ReloadTime,   \* simconf.conf_reload_time
  Grace,        \* the sleep(5) after a map was switched
  LookupTime,   \* how long a lookup in a map may take
  HashExist,    \* what bsl::hashmap::set returns for a key it has
  MaxEdits      \* bound: how often the file is changed

Sentence == 2   \* the last of enum pattern (sim_struct.h)

Entry == [pid : Products, pattern : Nat, keys : SUBSET Keys]

(* The sleeps of the reload thread outlast a lookup. *)
ASSUME ConfAssumption ==
  /\ Files \subseteq Seq(Entry)
  /\ Unreadable \notin Files /\ Missing \notin Files /\ Unreadable # Missing
  /\ ReloadTime \in Nat /\ Grace \in Nat /\ LookupTime \in Nat
  /\ LookupTime < Grace + ReloadTime

VARIABLES
  (* the file *)
  file,        \* its content
  mtime,       \* its time stamp
  fresh,       \* it was changed in the present second
  edits,       \* how often it was changed
  (* the reload thread *)
  pc,          \* where it is in conf_ontime_reload
  timer,       \* how much of its sleep is left
  confMtime,   \* conf_mtime
  conf,        \* what Configure read from the file
  entry,       \* the loop variable i of load_product_conf
  permanent,   \* ctmp.permanentKeys
  (* what the threads share *)
  maps,        \* g_proconf: per map, the products it has
  gIndex,      \* g_index
  ubmgrIndex,  \* ubmgr_index
  version,     \* per map, which load it is of
  loads,       \* loads begun so far
  (* the request threads *)
  idx,         \* the map a thread looks a product up in
  age,         \* how long its lookup has lasted, 0 outside
  seen         \* the version of the map it last looked a product up in

fileVars   == <<file, mtime, fresh, edits>>
loadVars   == <<confMtime, conf, entry, permanent>>
mapVars    == <<maps, gIndex, ubmgrIndex, version, loads>>
readerVars == <<idx, age, seen>>
vars == <<fileVars, pc, timer, loadVars, mapVars, readerVars>>

NoMap == 2
Spare == 1 - gIndex

LoadPcs == {"clear", "set"}
Pcs == LoadPcs \union
       {"boot", "sleep", "check", "load", "switch", "grace", "client",
        "clientGrace", "exited"}

Conf == [pattern : 0 .. Sentence, keys : SUBSET Keys]
Empty == [p \in {} |-> 0]

(* What load_product_conf makes of the first n entries of a file: ctmp is   *)
(* one object for all the products, and its permanentKeys are never cleared. *)
KeysUpTo(f, n) == UNION {f[i].keys : i \in 1 .. n}
Image(f, n) ==
  [p \in {f[i].pid : i \in 1 .. n} |->
     LET i == CHOOSE j \in 1 .. n : f[j].pid = p
     IN  [pattern |-> f[i].pattern, keys |-> KeysUpTo(f, i)]]

Distinct(f, n) == \A i, j \in 1 .. n : f[i].pid = f[j].pid => i = j
Valid(f) == /\ f \in Files \ {<<>>} /\ Distinct(f, Len(f))
            /\ \A i \in 1 .. Len(f) : f[i].pattern <= Sentence

-----------------------------------------------------------------------------
(* The service has loaded map 0 before it starts the thread. *)
Init ==
  /\ file \in {f \in Files : Valid(f)} /\ mtime = 1 /\ fresh = FALSE /\ edits = 0
  /\ pc = "boot" /\ timer = 0 /\ confMtime = 0
  /\ conf = <<>> /\ entry = 1 /\ permanent = {}
  /\ maps = [i \in {0, 1} |-> IF i = 0 THEN Image(file, Len(file)) ELSE Empty]
  /\ gIndex = 0 /\ ubmgrIndex = 0 /\ loads = 1
  /\ version = [i \in {0, 1} |-> 1 - i]
  /\ idx = [r \in Readers |-> NoMap] /\ age = [r \in Readers |-> 0]
  /\ seen = [r \in Readers |-> 0]

Goto(l) == pc' = l /\ UNCHANGED timer
SleepThen(l, seconds) == pc' = l /\ timer' = seconds

(* load_product_conf returns: conf is deleted, i and ctmp end.              *)
Return(l) == Goto(l) /\ conf' = <<>> /\ entry' = 1 /\ permanent' = {}

(* The file gets content f at the present time: stamps have a resolution of *)
(* one second, so two changes of one second share a stamp.                  *)
Touch(f) ==
  /\ file' = f /\ fresh' = TRUE
  /\ mtime' = IF fresh THEN mtime ELSE mtime + 1

(* file_ismodify finds no file: it makes an empty one, and the process      *)
(* exits when it cannot.                                                    *)
MakeFile(l) ==
  /\ file = Missing
  /\ \/ Touch(Unreadable) /\ l /\ UNCHANGED edits
     \/ pc' = "exited" /\ UNCHANGED <<fileVars, timer>>

(* The time stamps are taken once before the loop. *)
Boot ==
  /\ pc = "boot"
  /\ \/ /\ file # Missing /\ confMtime' = mtime
        /\ SleepThen("sleep", ReloadTime) /\ UNCHANGED fileVars
     \/ MakeFile(SleepThen("sleep", ReloadTime)) /\ UNCHANGED confMtime
  /\ UNCHANGED <<conf, entry, permanent, mapVars, readerVars>>

WakeUp ==
  /\ pc = "sleep" /\ timer = 0 /\ Goto("check")
  /\ UNCHANGED <<fileVars, loadVars, mapVars, readerVars>>

CheckUnchanged ==
  /\ pc = "check" /\ file # Missing /\ mtime = confMtime /\ Goto("client")
  /\ UNCHANGED <<fileVars, loadVars, mapVars, readerVars>>

CheckMissing ==
  /\ pc = "check" /\ MakeFile(Goto("client"))
  /\ UNCHANGED <<loadVars, mapVars, readerVars>>

(* The stamp is stored before anything is loaded. *)
CheckModified ==
  /\ pc = "check" /\ file # Missing /\ mtime # confMtime
  /\ confMtime' = mtime /\ Goto("load")
  /\ UNCHANGED <<fileVars, conf, entry, permanent, mapVars, readerVars>>

(* Mutant: the result of load is ignored. *)
LoadIgnored ==
  /\ pc = "load" /\ file \in {Unreadable, Missing} /\ Goto("switch")
  /\ UNCHANGED <<fileVars, loadVars, mapVars, readerVars>>

LoadRefused ==
  /\ pc = "load" /\ file \in {Unreadable, Missing} /\ Goto("client")
  /\ UNCHANGED <<fileVars, loadVars, mapVars, readerVars>>

LoadFile ==
  /\ pc = "load" /\ file \in Files
  /\ conf' = file /\ Goto("clear")
  /\ UNCHANGED <<fileVars, confMtime, entry, permanent, mapVars, readerVars>>

(* Mutant: g_proconf[index] is not cleared. *)
KeepSpare ==
  /\ pc = "clear"
  /\ loads' = loads + 1 /\ version' = [version EXCEPT ![Spare] = loads + 1]
  /\ \/ conf = <<>> /\ Return("client")
     \/ conf # <<>> /\ Goto("set") /\ UNCHANGED <<conf, entry, permanent>>
  /\ UNCHANGED <<fileVars, confMtime, maps, gIndex, ubmgrIndex, readerVars>>

ClearSpare ==
  /\ pc = "clear"
  /\ maps' = [maps EXCEPT ![Spare] = Empty]
  /\ loads' = loads + 1 /\ version' = [version EXCEPT ![Spare] = loads + 1]
  /\ \/ conf = <<>> /\ Return("client")
     \/ conf # <<>> /\ Goto("set") /\ UNCHANGED <<conf, entry, permanent>>
  /\ UNCHANGED <<fileVars, confMtime, gIndex, ubmgrIndex, readerVars>>

(* ctmp takes the entry's fields; its keys are added to what it has. *)
AddProduct(e) ==
  maps' = [maps EXCEPT ![Spare] =
             [p \in DOMAIN @ \union {e.pid} |->
                IF p = e.pid
                THEN [pattern |-> e.pattern, keys |-> permanent \union e.keys]
                ELSE @[p]]]

(* Mutant: the pattern is not checked. *)
SetAnyPattern ==
  /\ pc = "set"
  /\ LET e == conf[entry]
     IN  /\ e.pid \notin DOMAIN maps[Spare]
         /\ AddProduct(e)
         /\ \/ entry = Len(conf) /\ Return("switch")
            \/ /\ entry < Len(conf) /\ entry' = entry + 1 /\ Goto("set")
               /\ permanent' = permanent \union e.keys /\ UNCHANGED conf
  /\ UNCHANGED <<fileVars, confMtime, gIndex, ubmgrIndex, version, loads,
                 readerVars>>

SetProduct ==
  /\ pc = "set"
  /\ LET e == conf[entry]
     IN  /\ e.pattern <= Sentence /\ e.pid \notin DOMAIN maps[Spare]
         /\ AddProduct(e)
         /\ \/ entry = Len(conf) /\ Return("switch")
            \/ /\ entry < Len(conf) /\ entry' = entry + 1 /\ Goto("set")
               /\ permanent' = permanent \union e.keys /\ UNCHANGED conf
  /\ UNCHANGED <<fileVars, confMtime, gIndex, ubmgrIndex, version, loads,
                 readerVars>>

(* Mutant: a bad pattern leaves ret at 0. *)
BadPatternPasses ==
  /\ pc = "set" /\ conf[entry].pattern > Sentence /\ Return("switch")
  /\ UNCHANGED <<fileVars, confMtime, mapVars, readerVars>>

(* ret is then -1 or the result of the last set, which is not 0. *)
BadPattern ==
  /\ pc = "set" /\ conf[entry].pattern > Sentence /\ Return("client")
  /\ UNCHANGED <<fileVars, confMtime, mapVars, readerVars>>

(* The result of set becomes that of load_product_conf: 0 is success. *)
DuplicateProduct ==
  /\ pc = "set" /\ conf[entry].pattern <= Sentence
  /\ conf[entry].pid \in DOMAIN maps[Spare]
  /\ Return(IF HashExist = 0 THEN "switch" ELSE "client")
  /\ UNCHANGED <<fileVars, confMtime, mapVars, readerVars>>

(* Mutant: no sleep(5) after the switch. *)
SwitchAtOnce ==
  /\ pc = "switch" /\ Goto("client")
  /\ gIndex' = Spare
  /\ UNCHANGED <<fileVars, loadVars, maps, ubmgrIndex, version, loads,
                 readerVars>>

Switch ==
  /\ pc = "switch" /\ SleepThen("grace", Grace)
  /\ gIndex' = Spare
  /\ UNCHANGED <<fileVars, loadVars, maps, ubmgrIndex, version, loads,
                 readerVars>>

GraceEnds ==
  /\ pc = "grace" /\ timer = 0 /\ Goto("client")
  /\ UNCHANGED <<fileVars, loadVars, mapVars, readerVars>>

(* client.conf is unchanged, or cannot be loaded. *)
ClientKept ==
  /\ pc = "client" /\ SleepThen("sleep", ReloadTime)
  /\ UNCHANGED <<fileVars, loadVars, mapVars, readerVars>>

ClientSwitched ==
  /\ pc = "client" /\ SleepThen("clientGrace", Grace)
  /\ ubmgrIndex' = 1 - ubmgrIndex
  /\ UNCHANGED <<fileVars, loadVars, maps, gIndex, version, loads, readerVars>>

ClientGraceEnds ==
  /\ pc = "clientGrace" /\ timer = 0 /\ SleepThen("sleep", ReloadTime)
  /\ UNCHANGED <<fileVars, loadVars, mapVars, readerVars>>

Reload ==
  \/ Boot \/ WakeUp \/ CheckUnchanged \/ CheckMissing \/ CheckModified
  \/ LoadRefused \/ LoadFile \/ ClearSpare
  \/ SetProduct \/ BadPattern \/ DuplicateProduct \/ Switch \/ GraceEnds
  \/ ClientKept \/ ClientSwitched \/ ClientGraceEnds

-----------------------------------------------------------------------------
(* g_proconf[g_index].get(input->pid, &pconf): the index is read, and then  *)
(* the map is searched and the configuration copied.                        *)
StartLookup(r) ==
  /\ idx[r] = NoMap /\ pc # "exited"
  /\ idx' = [idx EXCEPT ![r] = gIndex]
  /\ UNCHANGED <<fileVars, pc, timer, loadVars, mapVars, age, seen>>

EndLookup(r) ==
  /\ idx[r] # NoMap /\ pc # "exited"
  /\ seen' = [seen EXCEPT ![r] = version[idx[r]]]
  /\ idx' = [idx EXCEPT ![r] = NoMap] /\ age' = [age EXCEPT ![r] = 0]
  /\ UNCHANGED <<fileVars, pc, timer, loadVars, mapVars>>

(* The operator writes the file, half of it, or removes it. *)
EditFile(f) ==
  /\ edits < MaxEdits /\ edits' = edits + 1
  /\ Touch(f)
  /\ UNCHANGED <<pc, timer, loadVars, mapVars, readerVars>>

RemoveFile ==
  /\ edits < MaxEdits /\ edits' = edits + 1
  /\ file' = Missing
  /\ UNCHANGED <<mtime, fresh, pc, timer, loadVars, mapVars, readerVars>>

Tick ==
  /\ pc # "exited"
  /\ \A r \in Readers : idx[r] # NoMap => age[r] < LookupTime
  /\ timer' = IF timer = 0 THEN 0 ELSE timer - 1
  /\ age' = [r \in Readers |-> IF idx[r] = NoMap THEN age[r] ELSE age[r] + 1]
  /\ fresh' = FALSE
  /\ UNCHANGED <<file, mtime, edits, pc, loadVars, mapVars, idx, seen>>

Next ==
  \/ Reload
  \/ \E r \in Readers : StartLookup(r) \/ EndLookup(r)
  \/ \E f \in Files \union {Unreadable} : EditFile(f)
  \/ RemoveFile
  \/ Tick

(* The threads run, lookups end, and time goes on. *)
Fairness ==
  /\ WF_vars(Reload) /\ WF_vars(Tick)
  /\ \A r \in Readers : WF_vars(EndLookup(r))

Spec == Init /\ [][Next]_vars
FairSpec == Spec /\ Fairness

-----------------------------------------------------------------------------
(* Every variable has its type; a product in a map has a known pattern.     *)
TypeOK ==
  /\ file \in Files \union {Unreadable, Missing}
  /\ mtime \in Nat /\ fresh \in BOOLEAN /\ edits \in Nat
  /\ pc \in Pcs /\ timer \in Nat /\ confMtime \in Nat
  /\ conf \in Seq(Entry) /\ entry \in Nat /\ permanent \subseteq Keys
  /\ DOMAIN maps = {0, 1}
  /\ \A i \in {0, 1} : \A p \in DOMAIN maps[i] : maps[i][p] \in Conf
  /\ gIndex \in {0, 1} /\ ubmgrIndex \in {0, 1} /\ loads \in Nat
  /\ version \in [{0, 1} -> Nat]
  /\ idx \in [Readers -> {0, 1, NoMap}]
  /\ age \in [Readers -> Nat] /\ seen \in [Readers -> Nat]

(* While load_product_conf clears and fills a map, no request thread is     *)
(* inside a lookup of that map: the sleep after a switch and the sleep      *)
(* between two polls together outlast every lookup begun before the switch  *)
(* (sim_conf.cpp:134-140), though no lock says so.                          *)
ReadersDisjoint ==
  pc \in LoadPcs => \A r \in Readers : idx[r] # Spare

(* The map in service is the image of a whole file: no failed load, however *)
(* far it got, and no load under way shows in it.  A file that names a      *)
(* product twice counts up to the second mention when set's result for it   *)
(* is 0 (sim_conf.cpp:101-106).                                             *)
ServedWhole ==
  \E f \in Files :
    \E n \in 1 .. Len(f) :
      /\ Distinct(f, n) /\ maps[gIndex] = Image(f, n)
      /\ \/ n = Len(f)
         \/ HashExist = 0 /\ ~Distinct(f, n + 1)

(* A request thread that looks products up several times (redis.cpp:290,    *)
(* 669 and 752) may meet a newer configuration, never an older one.         *)
LookupsForward ==
  [][\A r \in Readers : seen'[r] >= seen[r]]_vars

(* A change of the file that the thread has not seen is served in the end,  *)
(* unless the file changes again or the process exits: the stamp is stored  *)
(* before the load, and the load is not repeated, but a valid file needs no *)
(* second load.  A change in the second of the stored stamp has no such     *)
(* promise: file_ismodify cannot see it.                                    *)
EditServed ==
  \A f \in Files :
    Valid(f) =>
      \A t \in 1 .. MaxEdits + 2 :
        (/\ file = f /\ mtime = t /\ confMtime # t /\ pc # "boot")
          ~> (\/ file # f \/ mtime # t \/ pc = "exited"
              \/ maps[gIndex] = Image(f, Len(f)))
=============================================================================
