------------------------------ MODULE SavedConfig ------------------------------
(***************************************************************************)
(* The settings the web console changes and saves: what is in force         *)
(* (Control and the BtManager's copy), d_.config of the WebServer, and the  *)
(* saved file.  HTTP handlers run on many threads (webserver.cpp), each     *)
(* reading settings in one step and writing them back in a later one; a     *)
(* write of the file is one step here, DataPartition has what it is made    *)
(* of.                                                                     *)
(*                                                                         *)
(* Settings are taken one of a kind: "gain" for everything in Control that  *)
(* belongs to one input, "inputs" for net.inputs, "device" for the          *)
(* Bluetooth output's device, and two of the Bluetooth settings.  A saved   *)
(* file also says which columns it is about.                                *)
(***************************************************************************)
EXTENDS Naturals

CONSTANTS
  Workers,   \* HTTP worker threads
  Requests,  \* which they may be asked: kinds and values
  Values,    \* of every setting
  Factory,   \* the value the image's defaults have for each
  Fewer,     \* the counts of inputs with which the input of "gain" is not there
  MaxAsked,  \* bound: requests from one start to the next
  None, Nobody

Live == {"gain", "inputs"}
Bt == {"name", "pairable"}
Unlive == Bt \cup {"device"}
Settings == Live \cup Unlive
Told == Unlive \cup {"inputs"}
InFile == Settings \cup {"columns"}
SavedSettings == [InFile -> Values]

ASSUME ConfigAssumption ==
  /\ Factory \in Values /\ Fewer \subseteq Values
  /\ Nobody \notin Workers /\ None \notin SavedSettings
  /\ MaxAsked \in Nat
  /\ Requests \subseteq [kind : Settings \cup {"save", "reset", "net"}, value : Values]

VARIABLES
  control,  \* Control: what the engine and the network input go by
  bt,       \* BtManager's settings_
  config,   \* d_.config
  file,     \* /data/config.json, or None
  layout,   \* channels(): the running columns, told by their count of network inputs
  asked,    \* how many requests there have been since the start
  delay,    \* delay_m_: who holds it
  worker,   \* where each worker is, its request and what it has read
  latest,   \* the device, the Bluetooth settings and the count last asked for
  behind,   \* history: what has changed where a worker read it, since it read it
  undone    \* history: what a worker that was behind has put back, and where

configVars == <<control, bt, config, file, layout, asked, delay, worker, latest, behind, undone>>

LoadedSettings == IF file = None THEN [s \in InFile |-> Factory] ELSE file
Part(c, some) == [s \in some |-> c[s]]
Over(c, part) == [s \in DOMAIN c |-> IF s \in DOMAIN part THEN part[s] ELSE c[s]]

\* remap_columns(): the settings of an input that only one of the layouts has are the default ones.
LosesGain(c, to) == c["columns"] # to /\ {c["columns"], to} \cap Fewer # {}
Remapped(c, to) ==
  [c EXCEPT !["columns"] = to, !["gain"] = IF LosesGain(c, to) THEN Factory ELSE @]
Found == Remapped(LoadedSettings, layout)

Resting == [pc |-> "idle", req |-> None, read |-> None]
NothingUndone == [control |-> {}, bt |-> {}, config |-> {}, file |-> {}]

ConfigInit ==
  /\ file = None /\ layout = Factory /\ config = LoadedSettings
  /\ control = Part(config, Live) /\ bt = Part(config, Bt)
  /\ delay = Nobody /\ asked = 0
  /\ worker = [w \in Workers |-> Resting]
  /\ latest = Part(config, Told)
  /\ behind = [w \in Workers |-> {}] /\ undone = NothingUndone

HandlerAt(w, pc) == worker[w].pc = pc
GoesTo(w, pc) == worker' = [worker EXCEPT ![w].pc = pc]
Reads(w, x, pc) == worker' = [worker EXCEPT ![w] = [@ EXCEPT !.read = x, !.pc = pc]]
Answers(w) == worker' = [worker EXCEPT ![w] = Resting]

\* What this step changes of the settings that worker v has read.
ChangedFor(v) ==
  CASE worker[v].pc \in {"apply", "copy"} -> {s \in Bt : bt'[s] # bt[s]}
    [] worker[v].pc = "gather" -> {s \in Unlive : config'[s] # config[s]}
    [] worker[v].pc \in {"write", "replace"} ->
         {s \in Unlive : config'[s] # config[s]} \cup {s \in {"inputs"} : control'[s] # control[s]}
    [] worker[v].pc \in {"write inputs", "store inputs"} -> {s \in InFile : Found'[s] # Found[s]}
    [] OTHER -> {}

\* History: w itself has just read, or written, what it goes on with, but for a save's copy.
Notes(w) ==
  behind' = [v \in Workers |->
    IF v # w THEN behind[v] \cup ChangedFor(v)
    ELSE IF worker'[w].pc \in {"write", "replace"} THEN behind[w] ELSE {}]

TakeRequest(w, r) ==
  /\ HandlerAt(w, "idle") /\ asked < MaxAsked
  /\ asked' = asked + 1
  /\ worker' = [worker EXCEPT ![w] = [pc |-> r.kind, req |-> r, read |-> None]]
  /\ UNCHANGED <<control, bt, config, file, layout, delay, latest, undone>>
  /\ Notes(w)

\* A control is one atomic; an input that is not there is a 404.
PutGain(w) ==
  /\ HandlerAt(w, "gain")
  /\ IF layout \in Fewer THEN UNCHANGED control
     ELSE control' = [control EXCEPT !["gain"] = worker[w].req.value]
  /\ Answers(w)
  /\ UNCHANGED <<bt, config, file, layout, asked, delay, latest, undone>>
  /\ Notes(w)

\* PUT /api/bluetooth/output: not live state, so it rides the config.
PutDevice(w) ==
  /\ HandlerAt(w, "device")
  /\ config' = [config EXCEPT !["device"] = worker[w].req.value]
  /\ latest' = [latest EXCEPT !["device"] = worker[w].req.value]
  /\ undone' = [undone EXCEPT !.config = @ \ {"device"}]
  /\ Answers(w)
  /\ UNCHANGED <<control, bt, file, layout, asked, delay>>
  /\ Notes(w)

----------------------------------------------------------------------------
(* PUT /api/bluetooth: the settings are read, changed, applied, and copied. *)

ReadBt(w) ==
  /\ worker[w].pc \in Bt
  /\ Reads(w, [bt EXCEPT ![worker[w].req.kind] = worker[w].req.value], "apply")
  /\ UNCHANGED <<control, bt, config, file, layout, asked, delay, latest, undone>>
  /\ Notes(w)

ApplyBt(w) ==
  /\ HandlerAt(w, "apply")
  /\ bt' = worker[w].read
  /\ latest' = [latest EXCEPT ![worker[w].req.kind] = worker[w].req.value]
  /\ undone' = [undone EXCEPT !.bt = (@ \cup behind[w]) \ {worker[w].req.kind}]
  /\ GoesTo(w, "copy")
  /\ UNCHANGED <<control, config, file, layout, asked, delay>>
  /\ Notes(w)

\* Mutant: one of the settings is forgotten in the copy.
CopyBtName(w) ==
  /\ HandlerAt(w, "copy")
  /\ config' = [config EXCEPT !["name"] = worker[w].read["name"]]
  /\ undone' = [undone EXCEPT !.config = (@ \ Bt) \cup behind[w] \cup undone.bt]
  /\ Answers(w)
  /\ UNCHANGED <<control, bt, file, layout, asked, delay, latest>>
  /\ Notes(w)

CopyBt(w) ==
  /\ HandlerAt(w, "copy")
  /\ config' = Over(config, worker[w].read)
  /\ undone' = [undone EXCEPT !.config = (@ \ Bt) \cup behind[w] \cup undone.bt]
  /\ Answers(w)
  /\ UNCHANGED <<control, bt, file, layout, asked, delay, latest>>
  /\ Notes(w)

----------------------------------------------------------------------------
(* POST /api/config/save: d_.config is copied, the controls are laid over   *)
(* it, and after the file it replaces d_.config.                            *)

\* Mutant: the settings that are not live come from the saved file.
SaveOverFile(w) ==
  /\ HandlerAt(w, "save")
  /\ Reads(w, LoadedSettings, "gather")
  /\ UNCHANGED <<control, bt, config, file, layout, asked, delay, latest, undone>>
  /\ Notes(w)

SaveBase(w) ==
  /\ HandlerAt(w, "save")
  /\ Reads(w, config, "gather")
  /\ UNCHANGED <<control, bt, config, file, layout, asked, delay, latest, undone>>
  /\ Notes(w)

SaveGather(w) ==
  /\ HandlerAt(w, "gather")
  /\ Reads(w, Over(worker[w].read, control), "write")
  /\ UNCHANGED <<control, bt, config, file, layout, asked, delay, latest, undone>>
  /\ Notes(w)

SaveStore(w) ==
  /\ HandlerAt(w, "write")
  /\ \/ /\ file' = worker[w].read /\ GoesTo(w, "replace")
        /\ undone' = [undone EXCEPT !.file = behind[w] \cap {"inputs"}]
     \/ Answers(w) /\ UNCHANGED <<file, undone>>  \* store.save() fails
  /\ UNCHANGED <<control, bt, config, layout, asked, delay, latest>>
  /\ Notes(w)

SaveReplace(w) ==
  /\ HandlerAt(w, "replace")
  /\ config' = worker[w].read
  /\ undone' = [undone EXCEPT !.config = @ \cup (behind[w] \cap Unlive)]
  /\ Answers(w)
  /\ UNCHANGED <<control, bt, file, layout, asked, delay, latest>>
  /\ Notes(w)

\* POST /api/config/reset.
Reset(w) ==
  /\ HandlerAt(w, "reset")
  /\ \/ file' = None
     \/ UNCHANGED file  \* store.reset() fails
  /\ Answers(w)
  /\ UNCHANGED <<control, bt, config, layout, asked, delay, latest, undone>>
  /\ Notes(w)

----------------------------------------------------------------------------
(* PUT /api/net: under delay_m_, a count of inputs that is not the          *)
(* configured one goes straight into the saved config.                      *)

\* A body that names no count is given the configured one, before the lock.
ReadCount(w) ==
  /\ HandlerAt(w, "net")
  /\ worker' = [worker EXCEPT ![w] =
                  [@ EXCEPT !.req = [kind |-> "net", value |-> control["inputs"]], !.pc = "inputs"]]
  /\ UNCHANGED <<control, bt, config, file, layout, asked, delay, latest, undone>>
  /\ Notes(w)

\* Mutant: the count written goes on top of the running settings.
InputsOverRunning(w) ==
  /\ HandlerAt(w, "inputs") /\ delay = Nobody
  /\ IF worker[w].req.value = control["inputs"] THEN Answers(w) /\ UNCHANGED delay
     ELSE delay' = w /\ Reads(w, Over(config, control), "write inputs")
  /\ UNCHANGED <<control, bt, config, file, layout, asked, latest, undone>>
  /\ Notes(w)

LoadInputs(w) ==
  /\ HandlerAt(w, "inputs") /\ delay = Nobody
  /\ IF worker[w].req.value = control["inputs"] THEN Answers(w) /\ UNCHANGED delay
     ELSE delay' = w /\ Reads(w, Found, "write inputs")
  /\ UNCHANGED <<control, bt, config, file, layout, asked, latest, undone>>
  /\ Notes(w)

WriteInputs(w) ==
  /\ HandlerAt(w, "write inputs")
  /\ \/ /\ file' = [worker[w].read EXCEPT !["inputs"] = worker[w].req.value]
        /\ GoesTo(w, "store inputs") /\ UNCHANGED delay
     \/ Answers(w) /\ delay' = Nobody /\ UNCHANGED file  \* store.save() fails
  /\ UNCHANGED <<control, bt, config, layout, asked, latest, undone>>
  /\ Notes(w)

StoreInputs(w) ==
  /\ HandlerAt(w, "store inputs")
  /\ control' = [control EXCEPT !["inputs"] = worker[w].req.value]
  /\ IF worker[w].req.kind = "net" THEN UNCHANGED latest
     ELSE latest' = [latest EXCEPT !["inputs"] = worker[w].req.value]
  /\ undone' = [undone EXCEPT
       !.control = IF worker[w].req.kind = "net" THEN {"inputs"} ELSE {},
       !.file = behind[w] \cap {"inputs"}]
  /\ delay' = Nobody
  /\ Answers(w)
  /\ UNCHANGED <<bt, config, file, layout, asked>>
  /\ Notes(w)

\* The daemon restarts, whatever its handlers were doing: main() starts from what ConfigStore::load()
\* finds, with as many of the inputs as it asks for or fewer, when they do not fit in RAM.  The
\* option --net-inputs, which would win over the file, is not given.
Restart ==
  /\ layout' \in {LoadedSettings["inputs"]} \cup Fewer
  /\ config' = Remapped(LoadedSettings, layout')
  /\ control' = Part(config', Live) /\ bt' = Part(config', Bt)
  /\ delay' = Nobody /\ asked' = 0
  /\ worker' = [w \in Workers |-> Resting]
  /\ latest' = Part(config', Told)
  /\ behind' = [w \in Workers |-> {}] /\ undone' = NothingUndone
  /\ UNCHANGED file

ConfigNext ==
  \/ \E w \in Workers :
       \/ \E r \in Requests : TakeRequest(w, r)
       \/ PutGain(w) \/ PutDevice(w) \/ ReadBt(w) \/ ApplyBt(w) \/ CopyBt(w)
       \/ SaveBase(w) \/ SaveGather(w) \/ SaveStore(w) \/ SaveReplace(w) \/ Reset(w)
       \/ ReadCount(w) \/ LoadInputs(w) \/ WriteInputs(w) \/ StoreInputs(w)
  \/ Restart

ConfigSpec == ConfigInit /\ [][ConfigNext]_configVars

----------------------------------------------------------------------------
(* Properties.  undone has what a handler put back that had read it before  *)
(* it changed: handlers that overlap lose settings, and nothing else does.  *)

\* Types, and delay_m_ is held exactly by a handler that is using it.
ConfigTypeOK ==
  /\ control \in [Live -> Values] /\ bt \in [Bt -> Values] /\ config \in SavedSettings
  /\ file \in SavedSettings \cup {None} /\ layout \in Values
  /\ latest \in [Told -> Values] /\ asked \in 0 .. MaxAsked
  /\ \A w \in Workers : delay = w <=> worker[w].pc \in {"write inputs", "store inputs"}

\* The comment in PUT /api/bluetooth/output (webserver.cpp): the device is in the config, so that a
\* later save keeps it.  d_.config has it as last set, unless a save that had copied d_.config
\* before it was set put the older one back.
DeviceIsKept == config["device"] = latest["device"] \/ "device" \in undone.config

\* The comment above PUT /api/bluetooth: its settings are ones a save keeps.  The BtManager has each
\* as it was last set, and so has d_.config once the handler has copied it, unless another handler,
\* which had read the settings or d_.config before, put an older one back.
BtSettingsAreKept ==
  \A s \in Bt :
    /\ bt[s] = latest[s] \/ s \in undone.bt
    /\ \/ config[s] = latest[s] \/ s \in undone.config
       \/ \E w \in Workers : HandlerAt(w, "copy") /\ worker[w].req.kind = s

\* docs/api.md: inputs_configured is the saved value.  So it is while there is a saved file, but for
\* the moment in which PUT /api/net has written one and not yet the other, and unless a save that had
\* read the count before put it back in the file; and it is the one last asked for, unless a PUT
\* that asked for none put the one it had found back.
CountIsKept ==
  /\ \/ file = None \/ "inputs" \in undone.file \/ control["inputs"] = file["inputs"]
     \/ \E w \in Workers : HandlerAt(w, "store inputs")
  /\ control["inputs"] = latest["inputs"] \/ "inputs" \in undone.control

\* What a later save or start keeps of what was last set.
SettingsInv == ConfigTypeOK /\ DeviceIsKept /\ BtSettingsAreKept /\ CountIsKept

\* The comment in PUT /api/net (webserver.cpp): with the count of inputs nothing else of the saved
\* config changes.  That is so for what no save or reset has changed since the file was loaded,
\* and but for the columns and the settings of an input that the running layout does not have.
OnlyInputsChange ==
  [][\A w \in Workers : HandlerAt(w, "write inputs") /\ HandlerAt(w, "store inputs")' =>
       \A s \in Settings \ {"inputs"} :
         \/ file'[s] = LoadedSettings[s] \/ s \in behind[w]
         \/ s = "gain" /\ LosesGain(LoadedSettings, layout)]_configVars

\* Not so: nothing that was last set is lost while the handlers overlap.
LastSetIsKept ==
  (\A w \in Workers : HandlerAt(w, "idle")) =>
    /\ \A s \in Unlive : config[s] = latest[s]
    /\ control["inputs"] = latest["inputs"]

\* Not so, and docs/api.md says it ("only that value; nothing else is saved with it").
OnlyTheCount ==
  [][\A w \in Workers : HandlerAt(w, "write inputs") /\ HandlerAt(w, "store inputs")' =>
       file' = [LoadedSettings EXCEPT !["inputs"] = worker[w].req.value]]_configVars
=============================================================================
