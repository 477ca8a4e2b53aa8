----------------------------- MODULE Saved_proofs -----------------------------
(***************************************************************************)
(* What is saved.  What a boot finds, however many saves, failing calls    *)
(* and power cuts there are: DataIInv adds to the properties what each     *)
(* step of a call has left on the disk for the next one, and that a step   *)
(* which fails leaves what is published alone.  And what the HTTP handlers *)
(* make of the settings: ConfigIInv adds what each has read for the next   *)
(* of its steps.                                                           *)
(***************************************************************************)
EXTENDS DataPartition, SavedConfig, TLAPS

----------------------------------------------------------------------------
(* The inductive invariant of the partition.                               *)

\* A config and a tree of pairings are never in each other's place.
FilesOf(f) ==
  {Absent, Half} \cup
    [v : IF f \in {"conf", "conf.tmp"} THEN Configs ELSE 0 .. MaxBonds, synced : BOOLEAN]
Disks == {d \in [Names -> Contents] : \A f \in Names : d[f] \in FilesOf(f)}
Ops == [kind : {"none", "save", "reset", "save_dir"},
        pc : {"idle", "open", "write", "sync", "rename", "syncdir", "unlink", "clear", "clear old",
              "copy", "away", "in", "drop old", "drop", "done", "failed"},
        val : Configs \cup {Default} \cup 0 .. MaxBonds]

\* Types.
Types ==
  /\ disk \in Disks /\ medium \subseteq Disks
  /\ rw \in BOOLEAN /\ ram \in BOOLEAN /\ logged \in BOOLEAN
  /\ bonds \in 0 .. MaxBonds /\ op \in Ops /\ faults \in Nat
  /\ told \in Configs \cup {Default}
  /\ acked \in [conf : SUBSET (Configs \cup {Default}), bonds : SUBSET ({Half} \cup 0 .. MaxBonds)]

\* The steps of each call, none of which is made on a tmpfs.
Calls ==
  /\ op.kind = "none" <=> op.pc = "idle"
  /\ op.kind = "save" =>
       /\ op.val \in Configs
       /\ op.pc \in {"open", "write", "sync", "rename", "syncdir", "drop", "done", "failed"}
  /\ op.kind = "reset" => op.val = Default /\ op.pc \in {"unlink", "done", "failed"}
  /\ op.kind = "save_dir" =>
       /\ op.val \in 0 .. MaxBonds
       /\ op.pc \in {"clear", "clear old", "copy", "sync", "away", "in", "drop old", "syncdir",
                     "drop", "done", "failed"}
  /\ op.kind = "save_dir" /\ op.pc = "sync" => disk["dir.new"] # Absent
  /\ ram => op.pc = "idle" /\ disk = Empty
  /\ ~ram => disk \in medium
  /\ ReadOnlyAtRest

\* A power cut leaves all of it, or it is not there.
Safe(x) == x \in Files => x.synced

\* The step of save() or reset() that publishes is behind.
Published == op.kind \in {"save", "reset"} /\ op.pc \in {"syncdir", "done"}

\* The config: whole wherever it is, and older than the one promised last only
\* where that may not be written out, which the log says.
ConfFollows ==
  /\ \A m \in medium : m["conf"] # Half /\ Safe(m["conf"])
  /\ op.kind = "save" /\ op.pc = "rename" => disk["conf.tmp"] = Full(op.val, TRUE)
  /\ Published => Loaded(disk["conf"]) = op.val
  /\ ~ram /\ ~Published => Loaded(disk["conf"]) = told
  /\ ~ram /\ ~logged => acked.conf = {told}
  /\ \A m \in medium : \/ Loaded(m["conf"]) \in acked.conf
                       \/ Published /\ Loaded(m["conf"]) = op.val

\* What save_dir() has made, as long as no call fails.
DirStages ==
  /\ op.pc \notin {"drop", "failed"}
  /\ op.pc \in {"clear old", "copy"} => disk["dir.new"] = Absent
  /\ op.pc \in {"copy", "sync", "away"} => disk["dir.old"] = Absent
  /\ op.pc = "sync" => op.val \in 0 .. MaxBonds /\ disk["dir.new"] = Full(op.val, FALSE)
  /\ op.pc \in {"away", "in"} => op.val \in 0 .. MaxBonds /\ disk["dir.new"] = Full(op.val, TRUE)
  /\ op.pc \in {"drop old", "syncdir", "done"} =>
       op.val \in 0 .. MaxBonds /\ disk["dir"] = Full(op.val, TRUE)

DirFollows ==
  faults = 0 =>
    /\ \A m \in medium : m["dir"] # Half /\ Safe(m["dir"])
    /\ op.kind = "save_dir" => DirStages
    /\ op.kind # "save_dir" => \A m \in medium : Restored(m["dir"]) \in acked.bonds

DataIInv == Types /\ Calls /\ ConfFollows /\ DirFollows

----------------------------------------------------------------------------
(* The disk.                                                               *)

\* What is not there, or half there, is no file.
LEMMA Whole ==
  /\ Absent # Half /\ Absent \notin Files /\ Half \notin Files /\ Half \notin 0 .. MaxBonds
  /\ MaxBonds \in Nat /\ MaxFaults \in Nat /\ Default \notin Configs
BY DataAssumption DEF DataAssumption

\* The fields of a call.
LEMMA Fields ==
  ASSUME Types
  PROVE /\ op.kind \in {"none", "save", "reset", "save_dir"}
        /\ op.pc \in {"idle", "open", "write", "sync", "rename", "syncdir", "unlink", "clear",
                      "clear old", "copy", "away", "in", "drop old", "drop", "done", "failed"}
        /\ op.val \in Configs \cup {Default} \cup 0 .. MaxBonds
        /\ acked.conf \subseteq Configs \cup {Default}
        /\ acked.bonds \subseteq {Half} \cup 0 .. MaxBonds
BY DEF Types, Ops

\* The files of a disk, one by one.
LEMMA OnDisk ==
  ASSUME NEW d \in Disks
  PROVE /\ d \in [Names -> Contents]
        /\ d["conf"] \in {Absent, Half} \cup [v : Configs, synced : BOOLEAN]
        /\ d["conf.tmp"] \in {Absent, Half} \cup [v : Configs, synced : BOOLEAN]
        /\ d["dir"] \in {Absent, Half} \cup [v : 0 .. MaxBonds, synced : BOOLEAN]
        /\ d["dir.new"] \in {Absent, Half} \cup [v : 0 .. MaxBonds, synced : BOOLEAN]
        /\ d["dir.old"] \in {Absent, Half} \cup [v : 0 .. MaxBonds, synced : BOOLEAN]
BY DEF Disks, FilesOf, Names

\* What can be put in a place is something the disk can hold.
Put(d, f, x) == [d EXCEPT ![f] = x]

LEMMA Placed ==
  ASSUME NEW d \in Disks, NEW f \in Names, NEW x, x \in FilesOf(f)
  PROVE /\ Put(d, f, x) \in Disks /\ Put(d, f, x)[f] = x
        /\ \A g \in Names \ {f} : Put(d, f, x)[g] = d[g]
<1>1. FilesOf(f) \subseteq Contents
  BY DEF FilesOf, Contents, Files
<1>2. d \in [Names -> Contents] /\ \A g \in Names : d[g] \in FilesOf(g)
  BY DEF Disks
<1>3. Put(d, f, x) \in [Names -> Contents]
  BY <1>1, <1>2 DEF Put
<1>4. \A g \in Names : Put(d, f, x)[g] = IF g = f THEN x ELSE d[g]
  BY <1>2 DEF Put
<1> QED BY <1>2, <1>3, <1>4 DEF Disks

\* A step that leaves the files other than those of F alone, there and on the medium.
Touches(F) ==
  /\ disk' \in Disks /\ disk' \in medium' /\ medium' \subseteq Disks
  /\ \A m \in medium' : m \in medium \/ \A g \in Names \ F : m[g] = disk[g]
  /\ \A g \in Names \ F : disk'[g] = disk[g]

LEMMA StillTouches ==
  ASSUME Types, Calls, ~ram, UNCHANGED disk, UNCHANGED medium \/ Flush
  PROVE Touches({})
BY DEF Types, Calls, Touches, Flush

LEMMA ChangeTouches ==
  ASSUME Types, Calls, ~ram, NEW f \in Names, NEW x \in FilesOf(f), Change(Set(f, x))
  PROVE Touches({f}) /\ disk'[f] = x
<1>1. disk \in Disks /\ disk \in medium /\ medium \subseteq Disks
  BY DEF Types, Calls
<1>2. disk' = Put(disk, f, x) /\ medium' = medium \cup {disk'}
  BY DEF Change, Set, Put
<1>3. /\ disk' \in Disks /\ disk'[f] = x
      /\ \A g \in Names \ {f} : disk'[g] = disk[g]
  BY <1>1, <1>2, Placed
<1> QED BY <1>1, <1>2, <1>3 DEF Touches

LEMMA MoveTouches ==
  ASSUME Types, Calls, ~ram, NEW from \in Names, NEW to \in Names, from # to,
         FilesOf(from) = FilesOf(to), Change(Moved(from, to))
  PROVE Touches({from, to}) /\ disk'[to] = disk[from] /\ disk'[from] = Absent
<1>1. disk \in Disks /\ disk \in medium /\ medium \subseteq Disks /\ disk[from] \in FilesOf(to)
      /\ Absent \in FilesOf(from)
  BY DEF Types, Calls, Disks, FilesOf
<1> DEFINE first == Put(disk, to, disk[from])
<1>2. /\ first \in Disks /\ first[to] = disk[from]
      /\ \A g \in Names \ {to} : first[g] = disk[g]
  BY <1>1, Placed
<1>3. disk' = Put(first, from, Absent) /\ medium' = medium \cup {disk'}
  BY DEF Change, Moved, Put
<1> HIDE DEF first
<1>4. /\ disk' \in Disks /\ disk'[from] = Absent
      /\ \A g \in Names \ {from} : disk'[g] = first[g]
  BY <1>1, <1>2, <1>3, Placed
<1> QED BY <1>1, <1>2, <1>3, <1>4 DEF Touches

\* A removal that is cut short leaves half of it, and is a call that failed.
LEMMA RemoveTouches ==
  ASSUME Types, Calls, ~ram, NEW f \in Names, Remove(f)
  PROVE /\ Touches({f}) /\ faults' \in Nat /\ (faults' = 0 => faults = 0)
        /\ (faults' = 0 => disk'[f] = Absent)
<1> DEFINE half == IF disk[f] = Absent THEN Absent ELSE Half
<1>1. /\ disk \in Disks /\ disk \in medium /\ medium \subseteq Disks
      /\ Absent \in FilesOf(f) /\ half \in FilesOf(f) /\ faults \in Nat
  BY DEF Types, Calls, FilesOf
<1>2. CASE Change(Set(f, half)) /\ Fails
  BY <1>1, <1>2, ChangeTouches DEF Fails
<1>3. CASE /\ disk' = Set(f, Absent) /\ medium' = medium \cup {Set(f, half), disk'}
           /\ UNCHANGED faults
  <2>1. /\ Set(f, half) \in Disks
        /\ \A g \in Names \ {f} : Set(f, half)[g] = disk[g]
    <3>1. Set(f, half) = Put(disk, f, half)
      BY DEF Set, Put
    <3> QED BY <1>1, <3>1, Placed
  <2>2. /\ disk' \in Disks /\ disk'[f] = Absent
        /\ \A g \in Names \ {f} : disk'[g] = disk[g]
    <3>1. disk' = Put(disk, f, Absent)
      BY <1>3 DEF Set, Put
    <3> QED BY <1>1, <3>1, Placed
  <2>3. Touches({f})
    BY <1>1, <1>3, <2>1, <2>2 DEF Touches
  <2> QED BY <1>1, <1>3, <2>2, <2>3
<1> QED BY <1>2, <1>3 DEF Remove

----------------------------------------------------------------------------
(* What a step of a call leaves true.                                      *)

\* A step inside a call: none of its own variables but the disk and the call's.
Inside ==
  /\ op.pc # "idle" /\ op'.pc # "idle" /\ op'.kind = op.kind /\ op' \in Ops
  /\ UNCHANGED <<rw, ram, bonds, told, acked, logged>>
  /\ faults' \in Nat /\ (faults' = 0 => faults = 0)

LEMMA TypesKept ==
  ASSUME DataIInv, Inside, NEW F, Touches(F)
  PROVE Types'
BY DEF DataIInv, Types, Inside, Touches

\* It goes on to a step of the same call.
LEMMA CallsKept ==
  ASSUME DataIInv, Inside, NEW F, Touches(F),
         op'.kind = "save" => op'.val = op.val
           /\ op'.pc \in {"open", "write", "sync", "rename", "syncdir", "drop", "done", "failed"},
         op'.kind = "reset" => op'.val = op.val /\ op'.pc \in {"unlink", "done", "failed"},
         op'.kind = "save_dir" =>
           /\ op'.val \in 0 .. MaxBonds
           /\ op'.pc \in {"clear", "clear old", "copy", "sync", "away", "in", "drop old", "syncdir",
                          "drop", "done", "failed"},
         op'.kind = "save_dir" /\ op'.pc = "sync" => disk'["dir.new"] # Absent
  PROVE Calls'
<1>1. ~ram /\ ~ram' /\ op'.kind # "none"
  BY DEF DataIInv, Calls, Inside
<1>2. ReadOnlyAtRest'
  BY DEF Inside, ReadOnlyAtRest
<1> QED BY <1>1, <1>2 DEF DataIInv, Calls, Inside, Touches

\* It leaves the config alone.
LEMMA ConfKept ==
  ASSUME DataIInv, Inside, NEW F, Touches(F), "conf" \notin F,
         op'.kind = "save" /\ op'.pc = "rename" => disk'["conf.tmp"] = Full(op'.val, TRUE),
         op.kind \in {"save", "reset"} => op'.val = op.val /\ (Published' <=> Published)
  PROVE ConfFollows'
<1>1. /\ ConfFollows /\ ~ram /\ disk \in medium /\ op'.kind = op.kind
      /\ acked' = acked /\ told' = told /\ logged' = logged
  BY DEF DataIInv, Calls, Inside
<1>2. disk'["conf"] = disk["conf"] /\ \A m \in medium' : m \in medium \/ m["conf"] = disk["conf"]
  BY DEF Touches, Names
<1>3. (Published' <=> Published) /\ (Published => op'.val = op.val)
  BY <1>1 DEF Published
<1>4. \A m \in medium' : m["conf"] # Half /\ Safe(m["conf"])
  BY <1>1, <1>2 DEF ConfFollows
<1>5. Published' => Loaded(disk'["conf"]) = op'.val
  BY <1>1, <1>2, <1>3 DEF ConfFollows
<1>6. \A m \in medium' : \/ Loaded(m["conf"]) \in acked'.conf
                         \/ Published' /\ Loaded(m["conf"]) = op'.val
  BY <1>1, <1>2, <1>3 DEF ConfFollows
<1>7. /\ ~Published' => Loaded(disk'["conf"]) = told'
      /\ ~logged' => acked'.conf = {told'}
  BY <1>1, <1>2, <1>3 DEF ConfFollows
<1> QED BY <1>4, <1>5, <1>6, <1>7 DEF ConfFollows

\* It leaves the pairings alone.
LEMMA DirKept ==
  ASSUME DataIInv, Inside, NEW F, Touches(F), "dir" \notin F,
         faults' = 0 /\ op'.kind = "save_dir" => DirStages'
  PROVE DirFollows'
<1> SUFFICES ASSUME faults' = 0
             PROVE /\ \A m \in medium' : m["dir"] # Half /\ Safe(m["dir"])
                   /\ op'.kind = "save_dir" => DirStages'
                   /\ op'.kind # "save_dir" => \A m \in medium' : Restored(m["dir"]) \in acked'.bonds
  BY DEF DirFollows
<1>1. DirFollows /\ faults = 0 /\ ~ram /\ disk \in medium /\ op'.kind = op.kind /\ acked' = acked
  BY DEF DataIInv, Calls, Inside
<1>2. disk'["dir"] = disk["dir"] /\ \A m \in medium' : m \in medium \/ m["dir"] = disk["dir"]
  BY DEF Touches, Names
<1> QED BY <1>1, <1>2 DEF DirFollows

\* Where Goto puts the call.
LEMMA Goes ==
  ASSUME Types, NEW pc \in {"idle", "open", "write", "sync", "rename", "syncdir", "unlink", "clear",
                            "clear old", "copy", "away", "in", "drop old", "drop", "done", "failed"},
         Goto(pc)
  PROVE op'.kind = op.kind /\ op'.pc = pc /\ op'.val = op.val /\ op' \in Ops
BY DEF Types, Ops, Goto

----------------------------------------------------------------------------
(* save() and reset().                                                     *)

\* What was not published is not on the disk as if it were.
LEMMA GiveUpKeeps ==
  ASSUME DataIInv, GiveUp, UNCHANGED Rest, op.kind \in {"save", "save_dir"}, op.pc # "idle",
         ~Published
  PROVE DataIInv'
<1>1. Types /\ Calls /\ ~ram
  BY DEF DataIInv, Calls
<1>2. /\ op'.kind = op.kind /\ op'.pc = "drop" /\ op'.val = op.val /\ op' \in Ops
      /\ faults' \in Nat /\ faults' # 0
  <2>1. faults' \in Nat /\ faults' # 0
    BY <1>1 DEF GiveUp, Fails, Types
  <2> QED BY <1>1, <2>1, Goes DEF GiveUp
<1>3. Inside /\ Touches({})
  BY <1>1, <1>2, StillTouches DEF Inside, GiveUp, Rest
<1>4. Types'
  BY <1>3, TypesKept
<1>5. Calls'
  BY <1>1, <1>2, <1>3, CallsKept DEF Calls
<1>6. ConfFollows'
  BY <1>2, <1>3, ConfKept DEF Published
<1>7. DirFollows'
  BY <1>2 DEF DirFollows
<1> QED BY <1>4, <1>5, <1>6, <1>7 DEF DataIInv

\* A step of save() that writes the file beside the one in place.
LEMMA BesideKeeps ==
  ASSUME DataIInv, op.kind = "save", ~Published, Works, op.pc # "idle",
         NEW pc \in {"write", "sync", "rename"}, Goto(pc),
         NEW x \in FilesOf("conf.tmp"), Change(Set("conf.tmp", x)),
         pc = "rename" => x = Full(op.val, TRUE)
  PROVE DataIInv'
<1>1. Types /\ Calls /\ ~ram /\ "conf.tmp" \in Names
  BY DEF DataIInv, Calls, Names
<1>2. op'.kind = op.kind /\ op'.pc = pc /\ op'.val = op.val /\ op' \in Ops
  BY <1>1, Goes
<1>3. Inside /\ Touches({"conf.tmp"}) /\ disk'["conf.tmp"] = x
  BY <1>1, <1>2, ChangeTouches DEF Inside, Works, Rest, Types
<1>4. Types'
  BY <1>3, TypesKept
<1>5. Calls'
  BY <1>1, <1>2, <1>3, CallsKept DEF Calls
<1>6. ConfFollows'
  BY <1>2, <1>3, ConfKept DEF Published
<1>7. DirFollows'
  BY <1>2, <1>3, DirKept
<1> QED BY <1>4, <1>5, <1>6, <1>7 DEF DataIInv

LEMMA SaveOpenKeeps ==
  ASSUME DataIInv, SaveOpen
  PROVE DataIInv'
<1>1. op.kind = "save" /\ op.pc = "open" /\ ~Published
  BY DEF SaveOpen, At, Published
<1>2. Half \in FilesOf("conf.tmp")
  BY DEF FilesOf
<1> QED BY <1>1, <1>2, BesideKeeps, GiveUpKeeps DEF SaveOpen

LEMMA SaveWriteKeeps ==
  ASSUME DataIInv, SaveWrite
  PROVE DataIInv'
<1>1. op.kind = "save" /\ op.pc = "write" /\ ~Published
  BY DEF SaveWrite, At, Published
<1>2. Full(op.val, FALSE) \in FilesOf("conf.tmp")
  BY <1>1 DEF FilesOf, Full, DataIInv, Calls
<1> QED BY <1>1, <1>2, BesideKeeps, GiveUpKeeps DEF SaveWrite

LEMMA SaveSyncKeeps ==
  ASSUME DataIInv, SaveSync
  PROVE DataIInv'
<1>1. op.kind = "save" /\ op.pc = "sync" /\ ~Published
  BY DEF SaveSync, At, Published
<1>2. Full(op.val, TRUE) \in FilesOf("conf.tmp")
  BY <1>1 DEF FilesOf, Full, DataIInv, Calls
<1> QED BY <1>1, <1>2, BesideKeeps, GiveUpKeeps DEF SaveSync

\* What a boot makes of a config that is whole, and of none.
LEMMA LoadedIs ==
  /\ \A v \in Configs : /\ Full(v, TRUE) \in Files /\ Full(v, TRUE) # Half
                        /\ Safe(Full(v, TRUE)) /\ Loaded(Full(v, TRUE)) = v
  /\ Loaded(Absent) = Default /\ Safe(Absent) /\ Absent # Half
<1>1. ASSUME NEW v \in Configs PROVE Full(v, TRUE) \in Files
  BY DEF Full, Files
<1> QED BY <1>1, Whole DEF Full, Safe, Loaded

\* The file is published whole: the one name changes from the old to the new.
LEMMA PublishKeeps ==
  ASSUME DataIInv, NEW F, Touches(F), "dir" \notin F, Inside, ~Published, Published',
         op'.val = op.val, disk'["conf"] # Half, Safe(disk'["conf"]),
         Loaded(disk'["conf"]) = op.val,
         \A m \in medium' : m \in medium \/ m = disk',
         op'.kind = "save" => op'.pc = "syncdir", op'.kind = "reset" => op'.pc = "done"
  PROVE DataIInv'
<1>1. op'.kind = op.kind /\ op.kind \in {"save", "reset"} /\ acked' = acked /\ ConfFollows
  BY DEF Published, Inside, DataIInv
<1>2. Types'
  BY TypesKept
<1>3. Calls'
  BY <1>1, CallsKept
<1>4. ConfFollows'
  <2>1. \A m \in medium' : m["conf"] # Half /\ Safe(m["conf"])
    BY <1>1 DEF ConfFollows
  <2>2. \A m \in medium' : Loaded(m["conf"]) \in acked'.conf \/ Loaded(m["conf"]) = op'.val
    BY <1>1 DEF ConfFollows
  <2>3. told' = told /\ logged' = logged /\ ~ram /\ ~ram'
    BY <1>1 DEF Inside, DataIInv, Calls
  <2> QED BY <1>1, <2>1, <2>2, <2>3 DEF ConfFollows
<1>5. DirFollows'
  BY <1>1, DirKept
<1> QED BY <1>2, <1>3, <1>4, <1>5 DEF DataIInv

LEMMA SaveRenameKeeps ==
  ASSUME DataIInv, SaveRename
  PROVE DataIInv'
<1>1. /\ op.kind = "save" /\ op.pc = "rename" /\ ~Published /\ Types /\ Calls /\ ~ram
      /\ disk["conf.tmp"] = Full(op.val, TRUE) /\ op.val \in Configs
  BY DEF SaveRename, At, Published, DataIInv, Calls, ConfFollows
<1>2. CASE Change(Moved("conf.tmp", "conf")) /\ Goto("syncdir") /\ Works
  <2>1. op'.kind = op.kind /\ op'.pc = "syncdir" /\ op'.val = op.val /\ op' \in Ops
    BY <1>1, <1>2, Goes
  <2>2. Touches({"conf.tmp", "conf"}) /\ disk'["conf"] = Full(op.val, TRUE)
    BY <1>1, <1>2, MoveTouches DEF Names, FilesOf
  <2>3. Inside /\ \A m \in medium' : m \in medium \/ m = disk'
    BY <1>1, <1>2, <2>1 DEF Inside, Works, Rest, Types, Change
  <2> QED BY <1>1, <2>1, <2>2, <2>3, LoadedIs, PublishKeeps DEF Published
<1>3. CASE GiveUp /\ UNCHANGED Rest
  BY <1>1, <1>3, GiveUpKeeps
<1> QED BY <1>2, <1>3 DEF SaveRename

\* reset(): a name that goes, and nothing half done.
LEMMA ResetUnlinkKeeps ==
  ASSUME DataIInv, ResetUnlink
  PROVE DataIInv'
<1>1. /\ op.kind = "reset" /\ op.pc = "unlink" /\ ~Published /\ Types /\ Calls /\ ~ram
      /\ op.val = Default
  BY DEF ResetUnlink, At, Published, DataIInv, Calls
<1>2. CASE Change(Set("conf", Absent)) /\ Goto("done") /\ Works
  <2>1. op'.kind = op.kind /\ op'.pc = "done" /\ op'.val = op.val /\ op' \in Ops
    BY <1>1, <1>2, Goes
  <2>2. Touches({"conf"}) /\ disk'["conf"] = Absent
    BY <1>1, <1>2, ChangeTouches DEF Names, FilesOf
  <2>3. Inside /\ \A m \in medium' : m \in medium \/ m = disk'
    BY <1>1, <1>2, <2>1 DEF Inside, Works, Rest, Types, Change
  <2> QED BY <1>1, <2>1, <2>2, <2>3, LoadedIs, PublishKeeps DEF Published
<1>3. CASE Fails /\ Goto("failed") /\ UNCHANGED <<disk, medium, Rest>>
  <2>1. /\ op'.kind = op.kind /\ op'.pc = "failed" /\ op'.val = op.val /\ op' \in Ops
        /\ faults' \in Nat /\ faults' # 0
    <3>1. faults' \in Nat /\ faults' # 0
      BY <1>1, <1>3 DEF Fails, Types
    <3> QED BY <1>1, <1>3, <3>1, Goes
  <2>2. Inside /\ Touches({})
    BY <1>1, <1>3, <2>1, StillTouches DEF Inside, Rest
  <2>3. Types'
    BY <2>2, TypesKept
  <2>4. Calls'
    BY <1>1, <2>1, <2>2, CallsKept
  <2>5. ConfFollows'
    BY <1>1, <2>1, <2>2, ConfKept DEF Published
  <2>6. DirFollows'
    BY <2>1 DEF DirFollows
  <2> QED BY <2>3, <2>4, <2>5, <2>6 DEF DataIInv
<1> QED BY <1>2, <1>3 DEF ResetUnlink

\* The directory is synced, or nobody notices that it was not.
LEMMA SyncDirKeeps ==
  ASSUME DataIInv, SyncDir
  PROVE DataIInv'
<1>1. /\ op.pc = "syncdir" /\ Types /\ Calls /\ ~ram /\ op.kind \in {"save", "save_dir"}
  BY Fields DEF SyncDir, DataIInv, Calls
<1>2. op'.kind = op.kind /\ op'.pc = "done" /\ op'.val = op.val /\ op' \in Ops
  BY <1>1, Goes DEF SyncDir
<1>3. /\ UNCHANGED disk /\ (UNCHANGED medium \/ Flush) /\ UNCHANGED Rest
      /\ faults' \in Nat /\ (faults' = 0 => faults = 0)
  BY <1>1 DEF SyncDir, Works, Fails, Types
<1>4. Inside /\ Touches({})
  BY <1>1, <1>2, <1>3, StillTouches DEF Inside, Rest
<1>5. Types'
  BY <1>4, TypesKept
<1>6. Calls'
  BY <1>1, <1>2, <1>4, CallsKept DEF Calls
<1>7. ConfFollows'
  BY <1>1, <1>2, <1>4, ConfKept DEF Published
<1>8. faults' = 0 /\ op'.kind = "save_dir" => DirStages'
  BY <1>1, <1>2, <1>3 DEF DataIInv, DirFollows, DirStages
<1>9. DirFollows'
  BY <1>4, <1>8, DirKept
<1> QED BY <1>5, <1>6, <1>7, <1>9 DEF DataIInv

----------------------------------------------------------------------------
(* save_dir().                                                             *)

\* A step of save_dir() that leaves the tree in place alone.
LEMMA BesideDirKeeps ==
  ASSUME DataIInv, op.kind = "save_dir", op.pc # "idle",
         NEW F \in SUBSET {"dir.new", "dir.old"}, Touches(F), op' \in Ops, op'.kind = "save_dir",
         op'.val \in 0 .. MaxBonds,
         op'.pc \in {"clear", "clear old", "copy", "sync", "away", "in", "drop old", "syncdir",
                     "drop", "done", "failed"},
         UNCHANGED Rest, faults' \in Nat, faults' = 0 => faults = 0,
         op'.pc = "sync" => disk'["dir.new"] # Absent,
         faults' = 0 => DirStages'
  PROVE DataIInv'
<1>1. Inside
  BY DEF Inside, Rest
<1>2. Types'
  BY <1>1, TypesKept
<1>3. Calls'
  BY <1>1, CallsKept
<1>4. ConfFollows'
  BY <1>1, ConfKept
<1>5. DirFollows'
  BY <1>1, DirKept
<1> QED BY <1>2, <1>3, <1>4, <1>5 DEF DataIInv

\* A failing step gives up what was prepared.
LEMMA DirGivesUp ==
  ASSUME DataIInv, op.kind = "save_dir", op.pc # "idle", GiveUp, UNCHANGED Rest
  PROVE DataIInv'
BY GiveUpKeeps DEF Published

\* The two trees a former call may have left are removed.
LEMMA DirClearKeeps ==
  ASSUME DataIInv, DirClear
  PROVE DataIInv'
<1>1. Types /\ Calls /\ op.kind = "save_dir" /\ op.val \in 0 .. MaxBonds /\ op.pc # "idle" /\ ~ram /\ UNCHANGED Rest
  BY DEF DirClear, DataIInv, Calls
<1>2. faults = 0 => DirStages
  BY <1>1 DEF DataIInv, DirFollows
<1>3. CASE op.pc = "clear" /\ Remove("dir.new") /\ Goto("clear old")
  <2>1. op'.kind = op.kind /\ op'.pc = "clear old" /\ op'.val = op.val /\ op' \in Ops
    BY <1>1, <1>3, Goes
  <2>2. /\ Touches({"dir.new"}) /\ faults' \in Nat /\ (faults' = 0 => faults = 0)
        /\ (faults' = 0 => disk'["dir.new"] = Absent)
    BY <1>1, <1>3, RemoveTouches DEF Names
  <2>3. faults' = 0 => DirStages'
    BY <2>1, <2>2 DEF DirStages
  <2> QED BY <1>1, <2>1, <2>2, <2>3, BesideDirKeeps
<1>4. CASE op.pc = "clear old" /\ Remove("dir.old") /\ Goto("copy")
  <2>1. op'.kind = op.kind /\ op'.pc = "copy" /\ op'.val = op.val /\ op' \in Ops
    BY <1>1, <1>4, Goes
  <2>2. /\ Touches({"dir.old"}) /\ faults' \in Nat /\ (faults' = 0 => faults = 0)
        /\ (faults' = 0 => disk'["dir.old"] = Absent)
    BY <1>1, <1>4, RemoveTouches DEF Names
  <2>3. disk'["dir.new"] = disk["dir.new"]
    BY <2>2 DEF Touches, Names
  <2>4. faults' = 0 => DirStages'
    BY <1>2, <1>4, <2>1, <2>2, <2>3 DEF DirStages
  <2> QED BY <1>1, <2>1, <2>2, <2>4, BesideDirKeeps
<1> QED BY <1>3, <1>4 DEF DirClear

\* The pairings are copied, of the moment when the copy ends.
LEMMA DirCopyKeeps ==
  ASSUME DataIInv, DirCopy
  PROVE DataIInv'
<1>1. /\ Types /\ Calls /\ op.kind = "save_dir" /\ op.val \in 0 .. MaxBonds /\ op.pc = "copy" /\ ~ram
      /\ disk \in Disks /\ disk \in medium /\ medium \subseteq Disks /\ faults \in Nat
  BY DEF DirCopy, At, DataIInv, Calls, Types
<1>2. faults = 0 => DirStages
  BY <1>1 DEF DataIInv, DirFollows
<1>3. "dir.new" \in Names /\ Half \in FilesOf("dir.new")
  BY DEF Names, FilesOf
<1>4. CASE /\ disk["dir.new"] = Absent
           /\ disk' = Set("dir.new", Full(bonds, FALSE))
           /\ medium' = medium \cup {Set("dir.new", Half), disk'}
           /\ op' = [op EXCEPT !.pc = "sync", !.val = bonds] /\ Works
  <2>1. /\ op'.kind = op.kind /\ op'.pc = "sync" /\ op'.val = bonds /\ op' \in Ops
        /\ bonds \in 0 .. MaxBonds
    BY <1>1, <1>4 DEF Types, Ops
  <2>2. Full(bonds, FALSE) \in FilesOf("dir.new") /\ Full(bonds, FALSE) \in Files
    BY <2>1 DEF FilesOf, Full, Files
  <2>3. /\ disk' \in Disks /\ disk'["dir.new"] = Full(bonds, FALSE)
        /\ \A g \in Names \ {"dir.new"} : disk'[g] = disk[g]
    <3>1. disk' = Put(disk, "dir.new", Full(bonds, FALSE))
      BY <1>4 DEF Set, Put
    <3> DEFINE x == Full(bonds, FALSE)
    <3>2. disk \in Disks /\ x \in FilesOf("dir.new") /\ disk' = Put(disk, "dir.new", x)
      BY <1>1, <2>2, <3>1
    <3> HIDE DEF x
    <3>3. disk' \in Disks /\ disk'["dir.new"] = x /\ \A g \in Names \ {"dir.new"} : disk'[g] = disk[g]
      BY <1>3, <3>2, Placed
    <3> QED BY <3>3 DEF x
  <2>4. /\ Set("dir.new", Half) \in Disks
        /\ \A g \in Names \ {"dir.new"} : Set("dir.new", Half)[g] = disk[g]
    <3>1. Set("dir.new", Half) = Put(disk, "dir.new", Half)
      BY DEF Set, Put
    <3> QED BY <1>1, <1>3, <3>1, Placed
  <2>5. Touches({"dir.new"})
    BY <1>1, <1>4, <2>3, <2>4 DEF Touches
  <2>6. disk'["dir.old"] = disk["dir.old"] /\ disk'["dir.new"] # Absent
    BY <2>2, <2>3, Whole DEF Names
  <2>7. UNCHANGED Rest /\ faults' = faults
    BY <1>4 DEF Works
  <2>8. faults' = 0 => DirStages'
    BY <1>1, <1>2, <2>1, <2>3, <2>6, <2>7 DEF DirStages
  <2> QED BY <1>1, <2>1, <2>5, <2>6, <2>7, <2>8, BesideDirKeeps
<1>5. CASE /\ disk["dir.new"] # Absent /\ (Goto("sync") \/ Goto("drop"))
           /\ Works /\ UNCHANGED <<disk, medium>>
  <2>1. op'.kind = op.kind /\ op'.pc \in {"sync", "drop"} /\ op'.val = op.val /\ op' \in Ops
    BY <1>1, <1>5, Goes
  <2>2. Touches({}) /\ UNCHANGED Rest /\ faults' = faults
    BY <1>1, <1>5, StillTouches DEF Works
  <2>3. faults # 0
    BY <1>1, <1>2, <1>5 DEF DirStages
  <2> QED BY <1>1, <1>5, <2>1, <2>2, <2>3, BesideDirKeeps
<1>6. CASE Fails /\ Change(Set("dir.new", Half)) /\ Goto("drop") /\ UNCHANGED Rest
  <2>1. op'.kind = op.kind /\ op'.pc = "drop" /\ op'.val = op.val /\ op' \in Ops
    BY <1>1, <1>6, Goes
  <2>2. Touches({"dir.new"})
    BY <1>1, <1>3, <1>6, ChangeTouches
  <2>3. faults' \in Nat /\ faults' # 0
    BY <1>1, <1>6 DEF Fails
  <2> QED BY <1>1, <1>6, <2>1, <2>2, <2>3, BesideDirKeeps
<1> QED BY <1>1, <1>4, <1>5, <1>6 DEF DirCopy

\* What the copy is synced as.
LEMMA SyncedIs ==
  ASSUME NEW x \in FilesOf("dir.new"), x # Absent, x # Half
  PROVE /\ Full(x.v, TRUE) \in FilesOf("dir.new")
        /\ \A val : x = Full(val, FALSE) => Full(x.v, TRUE) = Full(val, TRUE)
<1>1. x.v \in 0 .. MaxBonds
  BY DEF FilesOf
<1>2. Full(x.v, TRUE) \in FilesOf("dir.new")
  BY <1>1 DEF FilesOf, Full
<1>3. ASSUME NEW val, x = Full(val, FALSE)
      PROVE x.v = val
  BY <1>3 DEF Full
<1> QED BY <1>2, <1>3

\* Every file of the copy is synced before it is published.
LEMMA DirSyncKeeps ==
  ASSUME DataIInv, DirSync
  PROVE DataIInv'
<1>1. /\ Types /\ Calls /\ op.kind = "save_dir" /\ op.val \in 0 .. MaxBonds /\ op.pc = "sync" /\ ~ram /\ disk \in Disks
      /\ disk["dir.new"] # Absent /\ faults \in Nat
  BY DEF DirSync, At, DataIInv, Calls, Types
<1>2. faults = 0 => DirStages
  BY <1>1 DEF DataIInv, DirFollows
<1> DEFINE x == IF disk["dir.new"] = Half THEN Half
                ELSE Full(disk["dir.new"].v, TRUE)
<1>3. CASE Change(Set("dir.new", x)) /\ Goto("away") /\ Works
  <2>1. op'.kind = op.kind /\ op'.pc = "away" /\ op'.val = op.val /\ op' \in Ops
    BY <1>1, <1>3, Goes
  <2>2. "dir.new" \in Names /\ disk["dir.new"] \in FilesOf("dir.new") /\ Half \in FilesOf("dir.new")
    BY <1>1 DEF Names, Disks, FilesOf
  <2>3. x \in FilesOf("dir.new")
    BY <1>1, <2>2, SyncedIs
  <2>4. faults = 0 => x = Full(op.val, TRUE) /\ disk["dir.old"] = Absent /\ op.val \in 0 .. MaxBonds
    <3>1. SUFFICES ASSUME faults = 0
                   PROVE x = Full(op.val, TRUE) /\ disk["dir.old"] = Absent /\ op.val \in 0 .. MaxBonds
      OBVIOUS
    <3>2. /\ disk["dir.new"] = Full(op.val, FALSE) /\ disk["dir.old"] = Absent
          /\ op.val \in 0 .. MaxBonds
      BY <1>1, <1>2, <3>1 DEF DirStages
    <3>3. disk["dir.new"] # Half
      <4>1. Full(op.val, FALSE) \in Files
        BY <3>2 DEF Full, Files
      <4> QED BY <3>2, <4>1, Whole
    <3> QED BY <1>1, <2>2, <3>2, <3>3, SyncedIs
  <2> HIDE DEF x
  <2>5. Touches({"dir.new"}) /\ disk'["dir.new"] = x
    BY <1>1, <1>3, <2>2, <2>3, ChangeTouches
  <2>6. disk'["dir.old"] = disk["dir.old"]
    BY <2>5 DEF Touches, Names
  <2>7. UNCHANGED Rest /\ faults' = faults
    BY <1>3 DEF Works
  <2>8. faults' = 0 => DirStages'
    BY <2>1, <2>4, <2>5, <2>6, <2>7 DEF DirStages
  <2> QED BY <1>1, <2>1, <2>5, <2>7, <2>8, BesideDirKeeps
<1>4. CASE GiveUp /\ UNCHANGED Rest
  BY <1>1, <1>4, DirGivesUp
<1> QED BY <1>3, <1>4 DEF DirSync

\* What a boot makes of a tree that is whole, and of none.
LEMMA RestoredIs ==
  ASSUME NEW v \in 0 .. MaxBonds
  PROVE /\ Full(v, TRUE) \in Files /\ Full(v, TRUE) # Half /\ Safe(Full(v, TRUE))
        /\ Restored(Full(v, TRUE)) = v /\ Absent # Half /\ Safe(Absent)
<1>1. Full(v, TRUE) \in Files
  BY DEF Full, Files
<1> QED BY <1>1, Whole DEF Full, Safe, Restored

\* A step of save_dir() that changes what is in place: whole, as long as no call fails.
LEMMA InPlaceKeeps ==
  ASSUME DataIInv, op.kind = "save_dir", op.val \in 0 .. MaxBonds, op.pc # "idle",
         NEW F \in SUBSET {"dir", "dir.new", "dir.old"}, Touches(F), op' \in Ops,
         op'.kind = "save_dir", op'.val = op.val, op'.pc \in {"in", "drop old"}, Works,
         \A m \in medium' : m \in medium \/ m = disk',
         faults = 0 => DirStages' /\ disk'["dir"] # Half /\ Safe(disk'["dir"])
  PROVE DataIInv'
<1>1. Inside /\ faults' = faults /\ Types
  BY DEF Inside, Works, Rest, DataIInv, Types
<1>2. Types'
  BY <1>1, TypesKept
<1>3. Calls'
  BY <1>1, CallsKept
<1>4. ConfFollows'
  BY <1>1, ConfKept
<1>5. DirFollows'
  BY <1>1 DEF DataIInv, DirFollows
<1> QED BY <1>2, <1>3, <1>4, <1>5 DEF DataIInv

\* The old tree is moved out of the way, where nothing is left of an older one.
LEMMA DirMoveAwayKeeps ==
  ASSUME DataIInv, DirMoveAway
  PROVE DataIInv'
<1>1. /\ Types /\ Calls /\ op.kind = "save_dir" /\ op.val \in 0 .. MaxBonds /\ op.pc = "away" /\ ~ram /\ disk \in Disks
      /\ faults \in Nat
  BY DEF DirMoveAway, At, DataIInv, Calls, Types
<1>2. faults = 0 => DirStages /\ disk["dir.old"] = Absent
  BY <1>1 DEF DataIInv, DirFollows, DirStages
<1>3. CASE disk["dir"] = Absent /\ Goto("in") /\ Works /\ UNCHANGED <<disk, medium>>
  <2>1. op'.kind = op.kind /\ op'.pc = "in" /\ op'.val = op.val /\ op' \in Ops
    BY <1>1, <1>3, Goes
  <2>2. Touches({}) /\ UNCHANGED Rest /\ faults' = faults
    BY <1>1, <1>3, StillTouches DEF Works
  <2>3. faults' = 0 => DirStages'
    BY <1>1, <1>2, <1>3, <2>1, <2>2 DEF DirStages
  <2> QED BY <1>1, <2>1, <2>2, <2>3, BesideDirKeeps
<1>4. CASE Change(Moved("dir", "dir.old")) /\ Goto("in") /\ Works
  <2>1. op'.kind = op.kind /\ op'.pc = "in" /\ op'.val = op.val /\ op' \in Ops
    BY <1>1, <1>4, Goes
  <2>2. Touches({"dir", "dir.old"}) /\ disk'["dir"] = Absent
    BY <1>1, <1>4, MoveTouches DEF Names, FilesOf
  <2>3. disk'["dir.new"] = disk["dir.new"]
    BY <2>2 DEF Touches, Names
  <2>4. faults = 0 => DirStages' /\ disk'["dir"] # Half /\ Safe(disk'["dir"])
    BY <1>1, <1>2, <2>1, <2>2, <2>3, Whole DEF DirStages, Safe
  <2>5. \A m \in medium' : m \in medium \/ m = disk'
    BY <1>1, <1>4 DEF Change
  <2> QED BY <1>1, <1>4, <2>1, <2>2, <2>4, <2>5, InPlaceKeeps
<1>5. CASE disk["dir.old"] # Absent /\ Goto("drop") /\ Works /\ UNCHANGED <<disk, medium>>
  <2>1. op'.kind = op.kind /\ op'.pc = "drop" /\ op'.val = op.val /\ op' \in Ops
    BY <1>1, <1>5, Goes
  <2>2. Touches({}) /\ UNCHANGED Rest /\ faults' = faults /\ faults # 0
    BY <1>1, <1>2, <1>5, StillTouches DEF Works
  <2> QED BY <1>1, <2>1, <2>2, BesideDirKeeps
<1>6. CASE GiveUp /\ UNCHANGED Rest
  BY <1>1, <1>6, DirGivesUp
<1> QED BY <1>3, <1>4, <1>5, <1>6 DEF DirMoveAway

\* The new tree is published by one rename.
LEMMA DirMoveInKeeps ==
  ASSUME DataIInv, DirMoveIn
  PROVE DataIInv'
<1>1. /\ Types /\ Calls /\ op.kind = "save_dir" /\ op.val \in 0 .. MaxBonds /\ op.pc = "in" /\ ~ram /\ disk \in Disks
  BY DEF DirMoveIn, At, DataIInv, Calls, Types
<1>2. faults = 0 => op.val \in 0 .. MaxBonds /\ disk["dir.new"] = Full(op.val, TRUE)
  BY <1>1 DEF DataIInv, DirFollows, DirStages
<1>3. CASE Change(Moved("dir.new", "dir")) /\ Goto("drop old") /\ Works
  <2>1. op'.kind = op.kind /\ op'.pc = "drop old" /\ op'.val = op.val /\ op' \in Ops
    BY <1>1, <1>3, Goes
  <2>2. Touches({"dir.new", "dir"}) /\ disk'["dir"] = disk["dir.new"]
    BY <1>1, <1>3, MoveTouches DEF Names, FilesOf
  <2>3. faults = 0 => DirStages' /\ disk'["dir"] # Half /\ Safe(disk'["dir"])
    BY <1>2, <2>1, <2>2, RestoredIs DEF DirStages
  <2>4. \A m \in medium' : m \in medium \/ m = disk'
    BY <1>1, <1>3 DEF Change
  <2> QED BY <1>1, <1>3, <2>1, <2>2, <2>3, <2>4, InPlaceKeeps
<1>4. CASE GiveUp /\ UNCHANGED Rest
  BY <1>1, <1>4, DirGivesUp
<1> QED BY <1>3, <1>4 DEF DirMoveIn

\* The old one is removed.
LEMMA DirDropOldKeeps ==
  ASSUME DataIInv, DirDropOld
  PROVE DataIInv'
<1>1. /\ Types /\ Calls /\ op.kind = "save_dir" /\ op.val \in 0 .. MaxBonds /\ op.pc = "drop old" /\ ~ram /\ UNCHANGED Rest
  BY DEF DirDropOld, At, DataIInv, Calls
<1>2. op'.kind = op.kind /\ op'.pc = "syncdir" /\ op'.val = op.val /\ op' \in Ops
  BY <1>1, Goes DEF DirDropOld
<1>3. Touches({"dir.old"}) /\ faults' \in Nat /\ (faults' = 0 => faults = 0)
  BY <1>1, RemoveTouches DEF DirDropOld, Names
<1>4. disk'["dir"] = disk["dir"]
  BY <1>3 DEF Touches, Names
<1>5. faults' = 0 => DirStages'
  BY <1>1, <1>2, <1>3, <1>4 DEF DataIInv, DirFollows, DirStages
<1> QED BY <1>1, <1>2, <1>3, <1>5, BesideDirKeeps

----------------------------------------------------------------------------
(* How calls begin and end, and the world.                                 *)

\* A call begins on the partition and nowhere else.
LEMMA BeginKeeps ==
  ASSUME DataIInv, NEW kind \in {"save", "reset", "save_dir"},
         NEW val \in Configs \cup {Default} \cup 0 .. MaxBonds, Begin(kind, val),
         kind = "save" => val \in Configs, kind = "reset" => val = Default,
         kind = "save_dir" => val \in 0 .. MaxBonds
  PROVE DataIInv'
<1>1. /\ Types /\ Calls /\ ConfFollows /\ DirFollows /\ op.pc = "idle" /\ op.kind = "none"
      /\ ~Published /\ faults \in Nat
      /\ UNCHANGED <<disk, medium, ram, bonds, told, acked, logged>>
  BY DEF Begin, DataIInv, Calls, Published, Types
<1>2. ~ram
  <2>1. CASE kind = "reset"
    <3>1. disk["conf"] # Absent
      BY <2>1 DEF Begin
    <3> QED BY <1>1, <3>1 DEF Calls, Empty, Names
  <2>2. CASE kind # "reset"
    BY <2>2 DEF Begin, Persistent
  <2> QED BY <2>1, <2>2
<1>3. CASE /\ rw' = TRUE /\ UNCHANGED faults
           /\ op' = [kind |-> kind, val |-> val,
                     pc |-> IF kind = "save" THEN "open" ELSE IF kind = "reset" THEN "unlink"
                            ELSE "clear"]
  <2>1. /\ op'.kind = kind /\ op'.val = val /\ op' \in Ops
        /\ op'.pc = (IF kind = "save" THEN "open" ELSE IF kind = "reset" THEN "unlink" ELSE "clear")
    BY <1>3 DEF Ops
  <2>2. Types'
    BY <1>1, <1>3, <2>1 DEF Types
  <2>3. Calls'
    BY <1>1, <1>2, <2>1 DEF Calls, ReadOnlyAtRest
  <2>4. ConfFollows'
    BY <1>1, <2>1 DEF ConfFollows, Published
  <2>5. DirFollows'
    BY <1>1, <1>3, <2>1 DEF DirFollows, DirStages
  <2> QED BY <2>2, <2>3, <2>4, <2>5 DEF DataIInv
<1>4. CASE Fails /\ UNCHANGED <<op, rw>>
  <2>1. faults' \in Nat /\ faults' # 0
    BY <1>1, <1>4 DEF Fails
  <2>2. Types' /\ Calls'
    BY <1>1, <1>4, <2>1 DEF Types, Calls, ReadOnlyAtRest
  <2>3. ConfFollows' /\ DirFollows'
    BY <1>1, <1>4, <2>1 DEF ConfFollows, Published, DirFollows
  <2> QED BY <2>2, <2>3 DEF DataIInv
<1> QED BY <1>3, <1>4 DEF Begin

\* A reset where there is nothing to remove: what is promised is what the disk
\* has, and the medium where all is written out.
LEMMA ResetNothingKeeps ==
  ASSUME DataIInv, ResetNothing
  PROVE DataIInv'
<1>1. /\ Types /\ Calls /\ ConfFollows /\ DirFollows /\ disk["conf"] = Absent /\ ~Published
      /\ told' = Default /\ UNCHANGED <<disk, medium, rw, ram, bonds, op, logged, faults>>
  BY DEF ResetNothing, DataIInv, Calls, Published
<1>2. /\ acked'.bonds = acked.bonds
      /\ acked'.conf = (IF ram \/ medium # {disk} THEN acked.conf \cup {Default} ELSE {Default})
      /\ acked' \in [conf : SUBSET (Configs \cup {Default}), bonds : SUBSET ({Half} \cup 0 .. MaxBonds)]
  <2>1. acked \in [conf : SUBSET (Configs \cup {Default}), bonds : SUBSET ({Half} \cup 0 .. MaxBonds)]
    BY <1>1 DEF Types
  <2> QED BY <2>1 DEF ResetNothing
<1>3. Types'
  BY <1>1, <1>2 DEF Types
<1>4. Calls'
  BY <1>1 DEF Calls, ReadOnlyAtRest
<1>5. ~Published' /\ Loaded(Absent) = Default
  BY <1>1, LoadedIs DEF Published
<1>6. \A m \in medium' : Loaded(m["conf"]) \in acked'.conf
  <2>1. \A m \in medium : Loaded(m["conf"]) \in acked.conf
    BY <1>1 DEF ConfFollows
  <2>2. CASE ram \/ medium # {disk}
    BY <1>1, <1>2, <2>1, <2>2
  <2>3. CASE ~ram /\ medium = {disk}
    BY <1>1, <1>2, <1>5, <2>3
  <2> QED BY <2>2, <2>3
<1>7. ~ram' /\ ~logged' => acked'.conf = {told'}
  <2> SUFFICES ASSUME ~ram', ~logged' PROVE acked'.conf = {told'}
    OBVIOUS
  <2>1. told = Default /\ acked.conf = {told}
    BY <1>1, <1>5 DEF ConfFollows
  <2> QED BY <1>1, <1>2, <2>1
<1>8. ConfFollows'
  BY <1>1, <1>5, <1>6, <1>7 DEF ConfFollows
<1>9. DirFollows'
  BY <1>1, <1>2 DEF DirFollows, DirStages
<1> QED BY <1>3, <1>4, <1>8, <1>9 DEF DataIInv

\* A call gives up: what it had prepared is removed.
LEMMA DropKeeps ==
  ASSUME DataIInv, Drop
  PROVE DataIInv'
<1>1. /\ Types /\ Calls /\ op.pc = "drop" /\ ~ram /\ op.kind \in {"save", "save_dir"}
      /\ (op.kind = "save_dir" => op.val \in 0 .. MaxBonds)
      /\ UNCHANGED Rest /\ Goto("failed")
  BY Fields DEF Drop, DataIInv, Calls
<1>2. PICK f \in {"conf.tmp", "dir.new"} : Remove(f)
  BY DEF Drop
<1>3. op'.kind = op.kind /\ op'.pc = "failed" /\ op'.val = op.val /\ op' \in Ops
  BY <1>1, Goes
<1>4. Touches({f}) /\ faults' \in Nat /\ (faults' = 0 => faults = 0)
  BY <1>1, <1>2, RemoveTouches DEF Names
<1>5. Inside
  BY <1>1, <1>3, <1>4 DEF Inside, Rest
<1>6. Types'
  BY <1>4, <1>5, TypesKept
<1>7. Calls'
  BY <1>1, <1>3, <1>4, <1>5, CallsKept
<1>8. ConfFollows'
  BY <1>1, <1>3, <1>4, <1>5, ConfKept DEF Published
<1>9. faults' = 0 => op'.kind # "save_dir"
  BY <1>1, <1>3, <1>4 DEF DataIInv, DirFollows, DirStages
<1>10. DirFollows'
  BY <1>4, <1>5, <1>9, DirKept
<1> QED BY <1>6, <1>7, <1>8, <1>10 DEF DataIInv

\* A call returns: what it promises is what the disk has, and the medium once it
\* is written out.
LEMMA EndKeeps ==
  ASSUME DataIInv, End
  PROVE DataIInv'
<1>1. /\ Types /\ Calls /\ ConfFollows /\ DirFollows /\ op.pc \in {"done", "failed"} /\ ~ram
      /\ op.kind \in {"save", "reset", "save_dir"} /\ disk \in medium /\ disk \in Disks
      /\ faults \in Nat /\ UNCHANGED <<disk, ram, bonds>> /\ op' = Idle
  BY Fields DEF End, DataIInv, Calls, Types
<1>2. PICK flushed \in BOOLEAN :
        /\ Tell(flushed)
        /\ \/ rw' = FALSE /\ logged' = FALSE /\ medium' = {disk} /\ faults' = faults /\ flushed
           \/ logged' = TRUE /\ UNCHANGED <<rw, medium>> /\ (flushed => medium = {disk})
              /\ faults' \in Nat /\ faults' # 0
  <2>1. CASE rw' = FALSE /\ logged' = FALSE /\ Flush /\ Tell(TRUE) /\ UNCHANGED faults
    <3>1. medium' = {disk}
      BY <1>1, <2>1 DEF Flush
    <3> QED BY <2>1, <3>1, Zenon
  <2>2. CASE Fails /\ logged' = TRUE /\ Tell(medium = {disk}) /\ UNCHANGED <<rw, medium>>
    <3>1. faults' \in Nat /\ faults' # 0
      BY <1>1, <2>2 DEF Fails
    <3>2. (medium = {disk}) \in BOOLEAN /\ Tell(medium = {disk})
      BY <2>2, Zenon
    <3> QED BY <2>2, <3>1, <3>2, Zenon
  <2> QED BY <2>1, <2>2 DEF End
<1>3. /\ op'.kind = "none" /\ op'.pc = "idle" /\ op' \in Ops /\ ~Published' /\ disk' \in medium'
      /\ medium' \subseteq medium /\ (flushed => medium' = {disk})
  BY <1>1, <1>2 DEF Idle, Ops, Published
<1>4. Promise \in Configs \cup {Default} /\ Loaded(disk["conf"]) = Promise
  <2>1. CASE op.pc = "done" /\ op.kind # "save_dir"
    <3>1. Promise = op.val /\ Published
      BY <1>1, <2>1 DEF Promise, Published
    <3> QED BY <1>1, <2>1, <3>1 DEF Calls, ConfFollows
  <2>2. CASE ~(op.pc = "done" /\ op.kind # "save_dir")
    <3>1. Promise = told /\ ~Published
      BY <1>1, <2>2 DEF Promise, Published
    <3> QED BY <1>1, <3>1 DEF Types, ConfFollows
  <2> QED BY <2>1, <2>2
<1>5. /\ told' = Promise
      /\ acked'.conf = (IF flushed THEN {Promise} ELSE acked.conf \cup {Promise})
      /\ acked'.bonds = (IF op.pc = "failed" \/ op.kind # "save_dir" THEN acked.bonds
                         ELSE IF flushed THEN {op.val} ELSE acked.bonds \cup {op.val})
  BY <1>2 DEF Tell
<1>6. ConfFollows'
  <2>1. \A m \in medium' : m["conf"] # Half /\ Safe(m["conf"])
    BY <1>1, <1>3 DEF ConfFollows
  <2>2. \A m \in medium' : Loaded(m["conf"]) \in acked'.conf
    <3>1. CASE flushed
      BY <1>1, <1>3, <1>4, <1>5, <3>1
    <3>2. CASE ~flushed
      <4>1. \A m \in medium : Loaded(m["conf"]) \in acked.conf \/ Loaded(m["conf"]) = Promise
        BY <1>1 DEF ConfFollows, Published, Promise
      <4> QED BY <1>3, <1>5, <3>2, <4>1
    <3> QED BY <3>1, <3>2
  <2>3. ~logged' => acked'.conf = {told'}
    BY <1>2, <1>5
  <2> QED BY <1>1, <1>3, <1>4, <1>5, <2>1, <2>2, <2>3 DEF ConfFollows
<1>7. DirFollows'
  BY <1>1, <1>2, <1>3, <1>5, RestoredIs DEF DirFollows, DirStages
<1>8. Types'
  <2>1. faults' \in Nat /\ rw' \in BOOLEAN /\ logged' \in BOOLEAN
    BY <1>1, <1>2 DEF Types
  <2>2. acked.conf \subseteq Configs \cup {Default} /\ acked.bonds \subseteq {Half} \cup 0 .. MaxBonds
    BY <1>1, Fields
  <2>3. op.kind = "save_dir" => op.val \in 0 .. MaxBonds
    BY <1>1 DEF Calls
  <2> DEFINE conf == IF flushed THEN {Promise} ELSE acked.conf \cup {Promise}
             pairs == IF op.pc = "failed" \/ op.kind # "save_dir" THEN acked.bonds
                      ELSE IF flushed THEN {op.val} ELSE acked.bonds \cup {op.val}
  <2>4. acked' = [conf |-> conf, bonds |-> pairs]
    BY <1>2 DEF Tell
  <2>5. conf \in SUBSET (Configs \cup {Default}) /\ pairs \in SUBSET ({Half} \cup 0 .. MaxBonds)
    BY <1>1, <1>4, <2>2, <2>3
  <2>6. acked' \in [conf : SUBSET (Configs \cup {Default}), bonds : SUBSET ({Half} \cup 0 .. MaxBonds)]
    BY <2>4, <2>5
  <2> QED BY <1>1, <1>3, <1>4, <1>5, <2>1, <2>6 DEF Types
<1>9. Calls'
  BY <1>1, <1>2, <1>3 DEF Calls, ReadOnlyAtRest
<1> QED BY <1>6, <1>7, <1>8, <1>9 DEF DataIInv

\* A phone pairs, in RAM.
LEMMA PairKeeps ==
  ASSUME DataIInv, Pair
  PROVE DataIInv'
<1>1. UNCHANGED <<disk, medium, rw, ram, op, told, acked, logged, faults>> /\ bonds' \in 0 .. MaxBonds
  BY Whole DEF DataIInv, Types, Pair
<1>2. Types' /\ Calls' /\ ReadOnlyAtRest'
  BY <1>1 DEF DataIInv, Types, Calls, ReadOnlyAtRest
<1>3. ConfFollows'
  BY <1>1 DEF DataIInv, ConfFollows, Published
<1>4. DirFollows'
  BY <1>1 DEF DataIInv, DirFollows, DirStages, Published
<1> QED BY <1>1, <1>2, <1>3, <1>4 DEF DataIInv

\* The power goes: what was on the medium is what there is, and what was told.
LEMMA PowerCutKeeps ==
  ASSUME DataIInv, PowerCut
  PROVE DataIInv'
<1>1. /\ Types /\ ConfFollows /\ DirFollows /\ rw' = FALSE /\ logged' = FALSE /\ op' = Idle
      /\ faults' = faults
  BY DEF PowerCut, DataIInv
<1>2. PICK m \in medium, lost \in BOOLEAN :
        \E c \in Left(m["conf"]), d \in Left(m["dir"]) :
          LET now == [m EXCEPT !["conf"] = c, !["dir"] = d] IN
            /\ medium' = {now} /\ ram' = lost
            /\ disk' = IF lost THEN Empty ELSE now
            /\ bonds' = IF lost THEN 0 ELSE IF d = Half THEN 0 ELSE Restored(d)
            /\ told' = Loaded(c)
            /\ acked' = [conf |-> {Loaded(c)}, bonds |-> {Restored(d)}]
  BY DEF PowerCut
<1>3. PICK c \in Left(m["conf"]), d \in Left(m["dir"]) :
        LET now == [m EXCEPT !["conf"] = c, !["dir"] = d] IN
          /\ medium' = {now} /\ ram' = lost
          /\ disk' = IF lost THEN Empty ELSE now
          /\ bonds' = IF lost THEN 0 ELSE IF d = Half THEN 0 ELSE Restored(d)
          /\ told' = Loaded(c)
          /\ acked' = [conf |-> {Loaded(c)}, bonds |-> {Restored(d)}]
  BY <1>2
<1> DEFINE mid == Put(m, "conf", c)
           now == Put(mid, "dir", d)
<1>4. /\ medium' = {now} /\ ram' = lost /\ disk' = (IF lost THEN Empty ELSE now)
      /\ bonds' = (IF lost THEN 0 ELSE IF d = Half THEN 0 ELSE Restored(d))
      /\ told' = Loaded(c)
      /\ acked' = [conf |-> {Loaded(c)}, bonds |-> {Restored(d)}]
  BY <1>3 DEF Put
<1>5. m \in Disks /\ m["conf"] \in FilesOf("conf") /\ m["dir"] \in FilesOf("dir")
  BY <1>1 DEF Types, Disks, Names
<1>6. c = m["conf"] /\ c # Half /\ Safe(c)
  <2>1. m["conf"] # Half /\ Safe(m["conf"])
    BY <1>1 DEF ConfFollows
  <2>2. m["conf"] = Absent \/ m["conf"] \in Files
    BY <1>5, <2>1 DEF FilesOf, Files
  <2>3. Left(m["conf"]) = {m["conf"]}
    BY <2>1, <2>2, Whole DEF Left, Safe
  <2> QED BY <2>1, <2>3
<1>7. d \in {m["dir"], Half} /\ d \in FilesOf("dir")
  <2>1. Left(m["dir"]) \subseteq {m["dir"], Half}
    BY DEF Left
  <2>2. Half \in FilesOf("dir")
    BY DEF FilesOf
  <2> QED BY <1>5, <2>1, <2>2
<1>8. faults = 0 => d # Half /\ Safe(d)
  <2> SUFFICES ASSUME faults = 0 PROVE d # Half /\ Safe(d)
    OBVIOUS
  <2>1. m["dir"] # Half /\ Safe(m["dir"])
    BY <1>1 DEF DirFollows
  <2>2. m["dir"] = Absent \/ m["dir"] \in Files
    BY <1>5, <2>1 DEF FilesOf, Files
  <2>3. Left(m["dir"]) = {m["dir"]}
    BY <2>1, <2>2, Whole DEF Left, Safe
  <2> QED BY <2>1, <2>3
<1>9. mid \in Disks /\ mid["conf"] = c
  BY <1>5, <1>6, Placed DEF Names
<1> HIDE DEF mid
<1>10. now \in Disks /\ now["conf"] = c /\ now["dir"] = d
  BY <1>7, <1>9, Placed DEF Names
<1> HIDE DEF now
<1>11. Empty \in Disks
  BY DEF Empty, Disks, Contents, FilesOf
<1>12. /\ Loaded(c) \in Configs \cup {Default} /\ Restored(d) \in {Half} \cup 0 .. MaxBonds
       /\ (d # Half => Restored(d) \in 0 .. MaxBonds)
  BY <1>5, <1>6, <1>7, Whole DEF FilesOf, Loaded, Restored
<1>13. /\ acked'.conf = {Loaded(c)} /\ acked'.bonds = {Restored(d)}
       /\ acked' \in [conf : SUBSET (Configs \cup {Default}), bonds : SUBSET ({Half} \cup 0 .. MaxBonds)]
  BY <1>4, <1>12
<1>14. op'.kind = "none" /\ op'.pc = "idle" /\ op' \in Ops /\ ~Published'
  BY <1>1 DEF Idle, Ops, Published
<1>15. Types'
  <2>1. disk' \in Disks /\ medium' \subseteq Disks
    BY <1>4, <1>10, <1>11
  <2>2. bonds' \in 0 .. MaxBonds
    BY <1>4, <1>12, Whole
  <2> QED BY <1>1, <1>4, <1>12, <1>13, <1>14, <2>1, <2>2 DEF Types
<1>16. Calls'
  BY <1>1, <1>4, <1>14 DEF Calls, ReadOnlyAtRest
<1>17. ConfFollows'
  BY <1>4, <1>6, <1>10, <1>13, <1>14 DEF ConfFollows
<1>18. DirFollows'
  BY <1>1, <1>4, <1>8, <1>10, <1>13, <1>14 DEF DirFollows
<1> QED BY <1>15, <1>16, <1>17, <1>18 DEF DataIInv

----------------------------------------------------------------------------
(* The invariant holds, and what follows from it.                          *)

LEMMA DataStarts ==
  ASSUME Init
  PROVE DataIInv
<1>1. Empty \in Disks
  BY DEF Empty, Disks, Contents, FilesOf
<1>2. /\ op.kind = "none" /\ op.pc = "idle" /\ op \in Ops /\ told = Default /\ acked.conf = {Default} /\ acked.bonds = {0}
      /\ acked \in [conf : SUBSET (Configs \cup {Default}), bonds : SUBSET ({Half} \cup 0 .. MaxBonds)]
  BY Whole DEF Init, Idle, Ops
<1>3. Types
  <2>1. 0 \in 0 .. MaxBonds /\ 0 \in Nat
    BY Whole
  <2>2. disk = Empty /\ medium = {Empty}
    BY DEF Init
  <2>3. disk \in Disks /\ medium \subseteq Disks
    BY <1>1, <2>2
  <2>4. rw \in BOOLEAN /\ ram \in BOOLEAN /\ logged \in BOOLEAN /\ bonds \in 0 .. MaxBonds /\ faults \in Nat
    BY <2>1 DEF Init
  <2> QED BY <1>2, <2>3, <2>4 DEF Types
<1>4. Calls
  BY <1>2 DEF Init, Calls, ReadOnlyAtRest
<1>5. Empty["conf"] = Absent /\ Empty["dir"] = Absent
  BY DEF Empty, Names
<1>6. ConfFollows /\ DirFollows
  BY <1>2, <1>5, LoadedIs, Whole DEF Init, ConfFollows, DirFollows, Published, Restored
<1> QED BY <1>3, <1>4, <1>6 DEF DataIInv

LEMMA DataSteps ==
  ASSUME DataIInv, [Next]_vars
  PROVE DataIInv'
<1>1. CASE \E c \in Configs : Begin("save", c)
  BY <1>1, BeginKeeps
<1>2. CASE Begin("reset", Default)
  BY <1>2, BeginKeeps
<1>8. CASE ResetNothing
  BY <1>8, ResetNothingKeeps
<1>3. CASE Begin("save_dir", 0)
  BY <1>3, BeginKeeps, Whole
<1>4. CASE SaveOpen \/ SaveWrite \/ SaveSync \/ SaveRename \/ SyncDir \/ ResetUnlink
  BY <1>4, SaveOpenKeeps, SaveWriteKeeps, SaveSyncKeeps, SaveRenameKeeps, SyncDirKeeps,
     ResetUnlinkKeeps
<1>5. CASE DirClear \/ DirCopy \/ DirSync \/ DirMoveAway \/ DirMoveIn \/ DirDropOld
  BY <1>5, DirClearKeeps, DirCopyKeeps, DirSyncKeeps, DirMoveAwayKeeps, DirMoveInKeeps,
     DirDropOldKeeps
<1>6. CASE Drop \/ End \/ Pair \/ PowerCut
  BY <1>6, DropKeeps, EndKeeps, PairKeeps, PowerCutKeeps
<1>7. CASE UNCHANGED vars
  <2>1. Types' /\ Calls' /\ ReadOnlyAtRest'
    BY <1>7 DEF vars, DataIInv, Types, Calls, ReadOnlyAtRest
  <2>2. ConfFollows'
    BY <1>7 DEF vars, DataIInv, ConfFollows, Published
  <2>3. DirFollows'
    BY <1>7 DEF vars, DataIInv, DirFollows, DirStages, Published
  <2> QED BY <2>1, <2>2, <2>3 DEF DataIInv
<1> QED BY <1>1, <1>2, <1>3, <1>4, <1>5, <1>6, <1>7, <1>8 DEF Next

\* The inductive invariant holds of every behaviour, for any number of saves,
\* failing calls and power cuts.
THEOREM DataAlways == Spec => []DataIInv
<1>1. Init => DataIInv
  BY DataStarts
<1>2. DataIInv /\ [Next]_vars => DataIInv'
  BY DataSteps
<1> QED BY <1>1, <1>2, PTL DEF Spec

\* What a whole file leaves is itself.
LEMMA SafeLeft ==
  ASSUME NEW x, x \in {Absent} \cup Files, Safe(x)
  PROVE Left(x) = {x} /\ x # Half
BY Whole DEF Left, Safe

\* Whatever fails and whenever the power goes, a boot loads the settings last
\* promised, or those being saved: the rename is of a file that is synced, and
\* nothing before it touches the one in place.  Those promised before come back
\* only from where the log says that the partition was left writable, or after
\* a reset that was answered on a tmpfs.
THEOREM ConfigsSurvive == Spec => []ConfigSurvives
<1>1. DataIInv => ConfigSurvives
  <2> SUFFICES ASSUME DataIInv, NEW m \in medium, NEW c \in Left(m["conf"])
               PROVE \/ Loaded(c) = told
                     \/ op.kind \in {"save", "reset"} /\ Loaded(c) = op.val
                     \/ (ram \/ logged) /\ Loaded(c) \in acked.conf
    BY DEF ConfigSurvives
  <2>1. m["conf"] \in {Absent} \cup Files /\ Safe(m["conf"])
    BY OnDisk DEF DataIInv, Types, ConfFollows, Files
  <2>2. c = m["conf"]
    BY <2>1, SafeLeft
  <2> QED BY <2>2 DEF DataIInv, ConfFollows, Published
<1> QED BY <1>1, DataAlways, PTL

\* Types; the partition is read-only between calls, or the log says that it is
\* not; and while no call has failed, no moment of a power cut leaves half of
\* the pairings where a boot looks for them.
THEOREM DiskIsConsistent == Spec => []DiskInv
<1>1. DataIInv => DiskInv
  <2> SUFFICES ASSUME DataIInv PROVE DiskInv
    OBVIOUS
  <2>1. Types /\ Calls /\ DirFollows
    BY DEF DataIInv
  <2>2. TypeOK
    BY <2>1, Fields DEF Types, Disks, TypeOK
  <2>3. ASSUME faults = 0, NEW m \in medium
        PROVE Half \notin Left(m["dir"])
    <3>1. m["dir"] \in {Absent} \cup Files /\ Safe(m["dir"])
      BY <2>1, <2>3, OnDisk DEF Types, DirFollows, Files
    <3> QED BY <3>1, SafeLeft
  <2>4. PairingsNeverHalf
    BY <2>3 DEF PairingsNeverHalf
  <2> QED BY <2>1, <2>2, <2>4 DEF Calls, DiskInv
<1> QED BY <1>1, DataAlways, PTL

\* While no call has failed, every power cut between one save_dir() and the
\* next brings back exactly the pairings the last one was told are kept.
THEOREM PairingsAreKeptAtRest == Spec => []PairingsKeptAtRest
<1>1. DataIInv => PairingsKeptAtRest
  <2> SUFFICES ASSUME DataIInv, faults = 0, op.kind # "save_dir",
                      NEW m \in medium, NEW d \in Left(m["dir"])
               PROVE Restored(d) \in acked.bonds
    BY DEF PairingsKeptAtRest
  <2>1. m["dir"] \in {Absent} \cup Files /\ Safe(m["dir"])
    BY OnDisk DEF DataIInv, Types, DirFollows, Files
  <2>2. d = m["dir"]
    BY <2>1, SafeLeft
  <2> QED BY <2>2 DEF DataIInv, DirFollows
<1> QED BY <1>1, DataAlways, PTL


----------------------------------------------------------------------------
(* The settings.  What a handler has read is still what it was read from,   *)
(* but for what behind has of it.                                          *)

Kinds == Settings \cup {"save", "reset", "net"}
Asks == [kind : Kinds, value : Values]
Places == Kinds \cup {"idle", "apply", "copy", "gather", "write", "replace", "write inputs",
                      "store inputs"}
Handlers == [pc : Places, req : Asks \cup {None}, read : {None} \cup SavedSettings \cup [Bt -> Values]]
Histories == [control : SUBSET InFile, bt : SUBSET InFile, config : SUBSET InFile, file : SUBSET InFile]

\* What a handler has, where it is.
HandlerFits(h) ==
  /\ h.pc # "idle" => h.req \in Asks
  /\ h.pc \in Kinds => h.req.kind = h.pc \/ (h.pc = "inputs" /\ h.req.kind = "net")
  /\ h.pc \in {"apply", "copy"} => h.req.kind \in Bt /\ h.read \in [Bt -> Values]
  /\ h.pc \in {"gather", "write", "replace"} => h.read \in SavedSettings
  /\ h.pc \in {"write inputs", "store inputs"} => h.req.kind \in {"inputs", "net"} /\ h.read \in SavedSettings

SettingTypes ==
  /\ control \in [Live -> Values] /\ bt \in [Bt -> Values] /\ config \in SavedSettings
  /\ file \in SavedSettings \cup {None} /\ layout \in Values
  /\ latest \in [Told -> Values] /\ asked \in 0 .. MaxAsked
  /\ undone \in Histories

HandlerTypes ==
  /\ SettingTypes
  /\ worker \in [Workers -> Handlers] /\ behind \in [Workers -> SUBSET InFile]
  /\ \A w \in Workers : HandlerFits(worker[w])
  /\ \A w \in Workers : delay = w <=> worker[w].pc \in {"write inputs", "store inputs"}

\* What a handler has read, against where it has read it.
ReadFits(w) ==
  /\ HandlerAt(w, "apply") =>
       /\ worker[w].read[worker[w].req.kind] = worker[w].req.value
       /\ \A s \in Bt \ behind[w] : s = worker[w].req.kind \/ worker[w].read[s] = bt[s]
  /\ HandlerAt(w, "copy") => \A s \in Bt \ behind[w] : worker[w].read[s] = bt[s]
  /\ worker[w].pc \in {"gather", "write", "replace"} =>
       \A s \in Unlive \ behind[w] : worker[w].read[s] = config[s]
  /\ worker[w].pc \in {"write", "replace"} =>
       "inputs" \in behind[w] \/ worker[w].read["inputs"] = control["inputs"]
  /\ HandlerAt(w, "write inputs") => \A s \in InFile \ behind[w] : worker[w].read[s] = Found[s]
  /\ HandlerAt(w, "store inputs") => "inputs" \in behind[w] \/ Found["inputs"] = worker[w].req.value

ReadsFit == \A w \in Workers : ReadFits(w)

ConfigIInv == HandlerTypes /\ ReadsFit /\ DeviceIsKept /\ BtSettingsAreKept /\ CountIsKept

----------------------------------------------------------------------------
(* The settings: what every step has to show.                               *)

LEMMA SettingsAre ==
  /\ Live = {"gain", "inputs"} /\ Bt = {"name", "pairable"} /\ Unlive = {"name", "pairable", "device"}
  /\ Settings = {"gain", "inputs", "name", "pairable", "device"}
  /\ Told = {"name", "pairable", "device", "inputs"}
  /\ InFile = {"gain", "inputs", "name", "pairable", "device", "columns"}
  /\ Kinds = {"gain", "inputs", "name", "pairable", "device", "save", "reset", "net"}
BY DEF Settings, Live, Bt, Unlive, Told, InFile, Kinds

LEMMA LoadedIsWhole ==
  ASSUME SettingTypes
  PROVE  /\ LoadedSettings \in SavedSettings
         /\ file # None => LoadedSettings = file
<1>1. file \in SavedSettings \cup {None} /\ Factory \in Values
  BY ConfigAssumption DEF SettingTypes
<1> QED BY <1>1 DEF LoadedSettings, SavedSettings

\* Only the columns, and what an input has that one of the layouts lacks, are not as they were.
LEMMA RemappedIs ==
  ASSUME NEW c \in SavedSettings, NEW to \in Values
  PROVE  /\ Remapped(c, to) \in SavedSettings
         /\ \A s \in InFile \ {"columns", "gain"} : Remapped(c, to)[s] = c[s]
         /\ LosesGain(c, to) \/ Remapped(c, to)["gain"] = c["gain"]
<1>1. c \in [InFile -> Values] /\ Factory \in Values /\ "columns" \in InFile /\ "gain" \in InFile
  BY SettingsAre, ConfigAssumption DEF SavedSettings
<1>2. PICK g \in Values : g = IF LosesGain(c, to) THEN Factory ELSE c["gain"]
  BY <1>1
<1>3. Remapped(c, to) = [c EXCEPT !["columns"] = to, !["gain"] = g]
  BY <1>1, <1>2 DEF Remapped
<1> QED BY <1>1, <1>2, <1>3 DEF SavedSettings

LEMMA FoundIsWhole ==
  ASSUME SettingTypes
  PROVE  Found \in SavedSettings /\ Found["inputs"] = LoadedSettings["inputs"]
<1>1. LoadedSettings \in SavedSettings /\ layout \in Values
  BY LoadedIsWhole DEF SettingTypes
<1>2. "inputs" \in InFile \ {"columns", "gain"}
  BY SettingsAre
<1> QED BY <1>1, <1>2, RemappedIs DEF Found

LEMMA OverIs ==
  ASSUME NEW c \in SavedSettings, NEW some \in SUBSET InFile, NEW part \in [some -> Values]
  PROVE  /\ Over(c, part) \in SavedSettings
         /\ \A s \in some : Over(c, part)[s] = part[s]
         /\ \A s \in InFile \ some : Over(c, part)[s] = c[s]
<1>1. DOMAIN c = InFile /\ DOMAIN part = some
  BY DEF SavedSettings
<1>2. Over(c, part) = [s \in InFile |-> IF s \in some THEN part[s] ELSE c[s]]
  BY <1>1 DEF Over
<1> QED BY <1>2 DEF SavedSettings

\* What a handler is.
LEMMA HandlerIs ==
  ASSUME HandlerTypes, NEW w \in Workers
  PROVE  /\ worker[w] \in Handlers /\ HandlerFits(worker[w])
         /\ delay = w <=> worker[w].pc \in {"write inputs", "store inputs"}
         /\ worker[w].pc # "idle" => worker[w].req \in Asks /\ worker[w].req.value \in Values
<1>1. /\ worker[w] \in Handlers /\ HandlerFits(worker[w])
      /\ delay = w <=> worker[w].pc \in {"write inputs", "store inputs"}
  BY DEF HandlerTypes
<1>2. worker[w].pc # "idle" => worker[w].req \in Asks /\ worker[w].req.value \in Values
  BY <1>1 DEF HandlerFits, Asks
<1> QED BY <1>1, <1>2

LEMMA RestFits == Resting \in Handlers /\ HandlerFits(Resting) /\ Resting.pc = "idle"
<1>1. Resting \in Handlers /\ Resting.pc = "idle"
  BY DEF Resting, Handlers, Places
<1>2. HandlerFits(Resting)
  BY SettingsAre DEF Resting, HandlerFits
<1> QED BY <1>1, <1>2

LEMMA GoesToIs ==
  ASSUME HandlerTypes, NEW w \in Workers, NEW pc \in Places, GoesTo(w, pc)
  PROVE  \E h \in Handlers : /\ h.pc = pc /\ h.req = worker[w].req /\ h.read = worker[w].read
                             /\ worker' = [worker EXCEPT ![w] = h]
<1>1. worker \in [Workers -> Handlers] /\ worker[w] \in Handlers
  BY DEF HandlerTypes
<1>2. worker' = [worker EXCEPT ![w] = [worker[w] EXCEPT !.pc = pc]]
  BY DEF GoesTo
<1>3. /\ [worker[w] EXCEPT !.pc = pc] \in Handlers /\ [worker[w] EXCEPT !.pc = pc].pc = pc
      /\ [worker[w] EXCEPT !.pc = pc].req = worker[w].req
      /\ [worker[w] EXCEPT !.pc = pc].read = worker[w].read
  BY <1>1 DEF Handlers
<1> QED BY <1>2, <1>3

LEMMA ReadsIs ==
  ASSUME HandlerTypes, NEW w \in Workers, NEW pc \in Places,
         NEW x \in SavedSettings \cup [Bt -> Values], Reads(w, x, pc)
  PROVE  \E h \in Handlers : /\ h.pc = pc /\ h.req = worker[w].req /\ h.read = x
                             /\ worker' = [worker EXCEPT ![w] = h]
<1>1. worker \in [Workers -> Handlers] /\ worker[w] \in Handlers
  BY DEF HandlerTypes
<1>2. worker' = [worker EXCEPT ![w] = [worker[w] EXCEPT !.read = x, !.pc = pc]]
  BY DEF Reads
<1>3. /\ [worker[w] EXCEPT !.read = x, !.pc = pc] \in Handlers
      /\ [worker[w] EXCEPT !.read = x, !.pc = pc].pc = pc
      /\ [worker[w] EXCEPT !.read = x, !.pc = pc].req = worker[w].req
      /\ [worker[w] EXCEPT !.read = x, !.pc = pc].read = x
  BY <1>1 DEF Handlers
<1> QED BY <1>2, <1>3

\* A step changes of what another handler has read no more than the history then says.
LEMMA OthersFit ==
  ASSUME NEW v \in Workers, ReadFits(v), worker'[v] = worker[v],
         behind'[v] = behind[v] \cup ChangedFor(v)
  PROVE  ReadFits(v)'
<1>1. worker[v].pc \in {"apply", "copy"} => \A s \in Bt \ behind'[v] : bt'[s] = bt[s] /\ s \notin behind[v]
  BY DEF ChangedFor
<1>2. worker[v].pc \in {"gather", "write", "replace"} =>
        \A s \in Unlive \ behind'[v] : config'[s] = config[s] /\ s \notin behind[v]
  BY DEF ChangedFor
<1>3. worker[v].pc \in {"write", "replace"} /\ "inputs" \notin behind'[v] =>
        control'["inputs"] = control["inputs"] /\ "inputs" \notin behind[v]
  BY DEF ChangedFor
<1>4. worker[v].pc \in {"write inputs", "store inputs"} =>
        \A s \in InFile \ behind'[v] : Found'[s] = Found[s] /\ s \notin behind[v]
  BY DEF ChangedFor
<1>5. "inputs" \in InFile
  BY SettingsAre
<1>6. /\ HandlerAt(v, "apply")' =>
           /\ worker'[v].read[worker'[v].req.kind] = worker'[v].req.value
           /\ \A s \in Bt \ behind'[v] : s = worker'[v].req.kind \/ worker'[v].read[s] = bt'[s]
      /\ HandlerAt(v, "copy")' => \A s \in Bt \ behind'[v] : worker'[v].read[s] = bt'[s]
  BY <1>1 DEF ReadFits, HandlerAt
<1>7. /\ worker'[v].pc \in {"gather", "write", "replace"} =>
           \A s \in Unlive \ behind'[v] : worker'[v].read[s] = config'[s]
      /\ worker'[v].pc \in {"write", "replace"} =>
           "inputs" \in behind'[v] \/ worker'[v].read["inputs"] = control'["inputs"]
  BY <1>2, <1>3 DEF ReadFits
<1>8. /\ HandlerAt(v, "write inputs")' => \A s \in InFile \ behind'[v] : worker'[v].read[s] = Found'[s]
      /\ HandlerAt(v, "store inputs")' =>
           "inputs" \in behind'[v] \/ Found'["inputs"] = worker'[v].req.value
  BY <1>4, <1>5 DEF ReadFits, HandlerAt
<1> QED BY <1>6, <1>7, <1>8 DEF ReadFits

\* A handler's step: where it goes and with what.
LEMMA HandlerMoves ==
  ASSUME HandlerTypes, ReadsFit, NEW w \in Workers, NEW h \in Handlers, HandlerFits(h),
         worker' = [worker EXCEPT ![w] = h], SettingTypes', Notes(w),
         \A v \in Workers : v # w => (delay' = v <=> delay = v),
         delay' = w <=> h.pc \in {"write inputs", "store inputs"}
  PROVE  /\ HandlerTypes' /\ worker'[w] = h
         /\ behind'[w] = IF h.pc \in {"write", "replace"} THEN behind[w] ELSE {}
         /\ \A v \in Workers : v # w => worker'[v] = worker[v]
         /\ ReadFits(w)' => ReadsFit'
<1>1. worker \in [Workers -> Handlers] /\ behind \in [Workers -> SUBSET InFile]
  BY DEF HandlerTypes
<1>2. worker' \in [Workers -> Handlers] /\ worker'[w] = h
      /\ \A v \in Workers : v # w => worker'[v] = worker[v]
  BY <1>1
<1>3. /\ behind'[w] = IF h.pc \in {"write", "replace"} THEN behind[w] ELSE {}
      /\ \A v \in Workers : v # w => behind'[v] = behind[v] \cup ChangedFor(v)
  BY <1>2 DEF Notes
<1>4. \A v \in Workers : ChangedFor(v) \subseteq InFile
  BY SettingsAre DEF ChangedFor
<1>5. behind' \in [Workers -> SUBSET InFile]
  <2>1. \A v \in Workers : behind'[v] \subseteq InFile
    BY <1>1, <1>3, <1>4
  <2>2. behind' = [v \in Workers |-> behind'[v]]
    BY DEF Notes
  <2> QED BY <2>1, <2>2
<1>6. ASSUME NEW v \in Workers
      PROVE  /\ HandlerFits(worker'[v])
             /\ delay' = v <=> worker'[v].pc \in {"write inputs", "store inputs"}
  <2>1. CASE v = w
    BY <1>2, <2>1
  <2>2. CASE v # w
    <3>1. HandlerFits(worker[v]) /\ (delay = v <=> worker[v].pc \in {"write inputs", "store inputs"})
      BY DEF HandlerTypes
    <3> QED BY <1>2, <2>2, <3>1
  <2> QED BY <2>1, <2>2
<1>7. HandlerTypes'
  BY <1>2, <1>5, <1>6 DEF HandlerTypes, HandlerFits
<1>8. ReadFits(w)' => ReadsFit'
  <2> SUFFICES ASSUME ReadFits(w)', NEW v \in Workers PROVE ReadFits(v)'
    BY DEF ReadsFit
  <2>1. CASE v = w
    BY <2>1
  <2>2. CASE v # w
    BY <1>2, <1>3, <2>2, OthersFit DEF ReadsFit
  <2> QED BY <2>1, <2>2
<1> QED BY <1>2, <1>3, <1>7, <1>8

\* A handler that answers, whatever it changed.
LEMMA AnswerStep ==
  ASSUME HandlerTypes, ReadsFit, NEW w \in Workers, Answers(w), SettingTypes', Notes(w),
         \A v \in Workers : v # w => (delay' = v <=> delay = v), delay' # w
  PROVE  /\ HandlerTypes' /\ ReadsFit' /\ worker'[w].pc = "idle"
         /\ \A v \in Workers : v # w => worker'[v] = worker[v]
<1>1. worker' = [worker EXCEPT ![w] = Resting]
  BY DEF Answers
<1>2. Resting \in Handlers /\ HandlerFits(Resting) /\ Resting.pc = "idle"
  BY RestFits
<1>3. /\ HandlerTypes' /\ worker'[w] = Resting /\ (ReadFits(w)' => ReadsFit')
      /\ \A v \in Workers : v # w => worker'[v] = worker[v]
  BY <1>1, <1>2, HandlerMoves
<1>4. ReadFits(w)'
  BY <1>2, <1>3 DEF ReadFits, HandlerAt
<1> QED BY <1>2, <1>3, <1>4

\* What is kept stays kept where a step has no hand in it.
LEMMA BtStays ==
  ASSUME BtSettingsAreKept, NEW w \in Workers, worker[w].pc # "copy",
         \A v \in Workers : v # w => worker'[v] = worker[v],
         bt' = bt, undone'.bt = undone.bt,
         \A s \in Bt : /\ latest'[s] = latest[s]
                       /\ config'[s] = config[s] \/ s \in undone'.config
                       /\ s \in undone.config => s \in undone'.config
  PROVE  BtSettingsAreKept'
<1> SUFFICES ASSUME NEW s \in Bt
             PROVE  /\ bt'[s] = latest'[s] \/ s \in undone'.bt
                    /\ \/ config'[s] = latest'[s] \/ s \in undone'.config
                       \/ \E v \in Workers : HandlerAt(v, "copy")' /\ worker'[v].req.kind = s
  BY DEF BtSettingsAreKept
<1>1. CASE \E v \in Workers : HandlerAt(v, "copy") /\ worker[v].req.kind = s
  <2>1. PICK v \in Workers : HandlerAt(v, "copy") /\ worker[v].req.kind = s
    BY <1>1
  <2>2. worker'[v] = worker[v]
    BY <2>1 DEF HandlerAt
  <2>3. HandlerAt(v, "copy")' /\ worker'[v].req.kind = s
    BY <2>1, <2>2 DEF HandlerAt
  <2>4. bt'[s] = latest'[s] \/ s \in undone'.bt
    BY DEF BtSettingsAreKept
  <2> QED BY <2>3, <2>4
<1>2. CASE ~\E v \in Workers : HandlerAt(v, "copy") /\ worker[v].req.kind = s
  BY <1>2 DEF BtSettingsAreKept
<1> QED BY <1>1, <1>2

LEMMA CountStays ==
  ASSUME CountIsKept, NEW w \in Workers, worker[w].pc # "store inputs",
         \A v \in Workers : v # w => worker'[v] = worker[v],
         control'["inputs"] = control["inputs"], file' \in {file, None},
         latest'["inputs"] = latest["inputs"],
         undone'.control = undone.control, undone'.file = undone.file
  PROVE  CountIsKept'
<1>1. control'["inputs"] = latest'["inputs"] \/ "inputs" \in undone'.control
  BY DEF CountIsKept
<1>2. CASE \E v \in Workers : HandlerAt(v, "store inputs")
  <2>1. PICK v \in Workers : worker[v].pc = "store inputs"
    BY <1>2 DEF HandlerAt
  <2>2. worker'[v].pc = "store inputs"
    BY <2>1
  <2> QED BY <1>1, <2>2 DEF CountIsKept, HandlerAt
<1>3. CASE ~\E v \in Workers : HandlerAt(v, "store inputs")
  BY <1>1, <1>3 DEF CountIsKept
<1> QED BY <1>2, <1>3

----------------------------------------------------------------------------
(* The handlers, step by step.                                             *)

LEMMA TakeRequestStep ==
  ASSUME ConfigIInv, NEW w \in Workers, NEW r \in Requests, TakeRequest(w, r)
  PROVE  ConfigIInv'
<1> DEFINE h == [pc |-> r.kind, req |-> r, read |-> None]
<1>1. /\ worker[w].pc = "idle" /\ worker' = [worker EXCEPT ![w] = h] /\ Notes(w)
      /\ asked < MaxAsked /\ asked' = asked + 1
      /\ UNCHANGED <<control, bt, config, file, layout, delay, latest, undone>>
  BY DEF TakeRequest, HandlerAt
<1>2. HandlerTypes /\ ReadsFit /\ BtSettingsAreKept /\ CountIsKept /\ DeviceIsKept
  BY DEF ConfigIInv
<1>3. r \in Asks /\ r.kind \in Kinds
  BY ConfigAssumption DEF Asks, Kinds
<1>4. h \in Handlers /\ h.pc = r.kind
  BY <1>3 DEF Handlers, Places
<1>5. HandlerFits(h)
  BY <1>3, SettingsAre DEF HandlerFits
<1>6. h.pc \notin {"apply", "copy", "gather", "write", "replace", "write inputs", "store inputs"}
  BY <1>3, SettingsAre
<1> HIDE DEF h
<1>7. SettingTypes'
  <2>1. asked' \in 0 .. MaxAsked
    <3>1. asked \in 0 .. MaxAsked
      BY <1>2 DEF HandlerTypes, SettingTypes
    <3>2. MaxAsked \in Nat
      BY ConfigAssumption
    <3> QED BY <1>1, <3>1, <3>2
  <2> QED BY <1>1, <1>2, <2>1 DEF HandlerTypes, SettingTypes
<1>8. delay' # w
  BY <1>1, <1>2, HandlerIs
<1>9. /\ HandlerTypes' /\ worker'[w] = h /\ (ReadFits(w)' => ReadsFit')
      /\ \A v \in Workers : v # w => worker'[v] = worker[v]
  BY <1>1, <1>2, <1>4, <1>5, <1>6, <1>7, <1>8, HandlerMoves
<1>10. ReadFits(w)'
  BY <1>6, <1>9 DEF ReadFits, HandlerAt
<1>11. BtSettingsAreKept' /\ CountIsKept'
  BY <1>1, <1>2, <1>9, BtStays, CountStays
<1> QED BY <1>1, <1>2, <1>9, <1>10, <1>11 DEF ConfigIInv, DeviceIsKept

LEMMA PutGainStep ==
  ASSUME ConfigIInv, NEW w \in Workers, PutGain(w)
  PROVE  ConfigIInv'
<1>1. /\ worker[w].pc = "gain" /\ Answers(w) /\ Notes(w)
      /\ control' \in {control, [control EXCEPT !["gain"] = worker[w].req.value]}
      /\ UNCHANGED <<bt, config, file, layout, asked, delay, latest, undone>>
  BY DEF PutGain, HandlerAt
<1>2. HandlerTypes /\ ReadsFit /\ BtSettingsAreKept /\ CountIsKept /\ DeviceIsKept
  BY DEF ConfigIInv
<1>3. worker[w].req.value \in Values /\ delay # w
  BY <1>1, <1>2, HandlerIs
<1>4. control' \in [Live -> Values] /\ control'["inputs"] = control["inputs"]
  BY <1>1, <1>2, <1>3, SettingsAre DEF HandlerTypes, SettingTypes
<1>5. SettingTypes'
  BY <1>1, <1>2, <1>4 DEF HandlerTypes, SettingTypes
<1>6. /\ HandlerTypes' /\ ReadsFit' /\ \A v \in Workers : v # w => worker'[v] = worker[v]
  BY <1>1, <1>2, <1>3, <1>5, AnswerStep
<1>7. BtSettingsAreKept' /\ CountIsKept'
  BY <1>1, <1>2, <1>4, <1>6, BtStays, CountStays
<1> QED BY <1>1, <1>2, <1>6, <1>7 DEF ConfigIInv, DeviceIsKept

LEMMA PutDeviceStep ==
  ASSUME ConfigIInv, NEW w \in Workers, PutDevice(w)
  PROVE  ConfigIInv'
<1>1. /\ worker[w].pc = "device" /\ Answers(w) /\ Notes(w)
      /\ config' = [config EXCEPT !["device"] = worker[w].req.value]
      /\ latest' = [latest EXCEPT !["device"] = worker[w].req.value]
      /\ undone' = [undone EXCEPT !.config = @ \ {"device"}]
      /\ UNCHANGED <<control, bt, file, layout, asked, delay>>
  BY DEF PutDevice, HandlerAt
<1>2. HandlerTypes /\ ReadsFit /\ BtSettingsAreKept /\ CountIsKept
  BY DEF ConfigIInv
<1>3. worker[w].req.value \in Values /\ delay # w
  BY <1>1, <1>2, HandlerIs
<1>4. /\ config \in [InFile -> Values] /\ latest \in [Told -> Values] /\ undone \in Histories
      /\ "device" \in InFile /\ "device" \in Told /\ "device" \notin Bt
      /\ Bt \subseteq InFile /\ Bt \subseteq Told /\ "inputs" \in Told
  BY <1>2, SettingsAre DEF HandlerTypes, SettingTypes, SavedSettings
<1>5. /\ config' \in SavedSettings /\ config'["device"] = latest'["device"]
      /\ \A s \in Bt : config'[s] = config[s]
  BY <1>1, <1>3, <1>4 DEF SavedSettings
<1>6. /\ latest' \in [Told -> Values] /\ latest'["inputs"] = latest["inputs"]
      /\ \A s \in Bt : latest'[s] = latest[s]
  BY <1>1, <1>3, <1>4
<1>7. /\ undone' \in Histories /\ undone'.bt = undone.bt
      /\ undone'.control = undone.control /\ undone'.file = undone.file
      /\ \A s \in Bt : s \in undone.config => s \in undone'.config
  BY <1>1, <1>4 DEF Histories
<1>8. SettingTypes'
  BY <1>1, <1>2, <1>5, <1>6, <1>7 DEF HandlerTypes, SettingTypes
<1>9. /\ HandlerTypes' /\ ReadsFit' /\ \A v \in Workers : v # w => worker'[v] = worker[v]
  BY <1>1, <1>2, <1>3, <1>8, AnswerStep
<1>10. BtSettingsAreKept'
  BY <1>1, <1>2, <1>5, <1>6, <1>7, <1>9, BtStays
<1>11. CountIsKept'
  BY <1>1, <1>2, <1>6, <1>7, <1>9, CountStays
<1> QED BY <1>5, <1>9, <1>10, <1>11 DEF ConfigIInv, DeviceIsKept

LEMMA ReadBtStep ==
  ASSUME ConfigIInv, NEW w \in Workers, ReadBt(w)
  PROVE  ConfigIInv'
<1> DEFINE x == [bt EXCEPT ![worker[w].req.kind] = worker[w].req.value]
<1>1. /\ worker[w].pc \in Bt /\ Reads(w, x, "apply") /\ Notes(w)
      /\ UNCHANGED <<control, bt, config, file, layout, asked, delay, latest, undone>>
  BY DEF ReadBt
<1>2. HandlerTypes /\ ReadsFit /\ BtSettingsAreKept /\ CountIsKept /\ DeviceIsKept
  BY DEF ConfigIInv
<1>3. /\ HandlerFits(worker[w]) /\ worker[w].req \in Asks /\ worker[w].req.value \in Values
      /\ delay # w /\ worker[w].pc \notin {"apply", "copy", "store inputs"}
  BY <1>1, <1>2, HandlerIs, SettingsAre
<1>4. worker[w].req.kind = worker[w].pc
  BY <1>1, <1>3, SettingsAre DEF HandlerFits
<1>5. x \in [Bt -> Values] /\ x[worker[w].req.kind] = worker[w].req.value
      /\ \A s \in Bt : s = worker[w].req.kind \/ x[s] = bt[s]
  BY <1>1, <1>2, <1>3, <1>4 DEF HandlerTypes, SettingTypes
<1> HIDE DEF x
<1>6. PICK h \in Handlers : /\ h.pc = "apply" /\ h.req = worker[w].req /\ h.read = x
                            /\ worker' = [worker EXCEPT ![w] = h]
  <2>1. "apply" \in Places
    BY DEF Places
  <2> QED BY <1>1, <1>2, <1>5, <2>1, ReadsIs
<1>7. HandlerFits(h)
  BY <1>1, <1>3, <1>4, <1>5, <1>6, SettingsAre DEF HandlerFits
<1>8. SettingTypes'
  BY <1>1, <1>2 DEF HandlerTypes, SettingTypes
<1>9. /\ HandlerTypes' /\ worker'[w] = h /\ (ReadFits(w)' => ReadsFit')
      /\ \A v \in Workers : v # w => worker'[v] = worker[v]
  BY <1>1, <1>2, <1>3, <1>6, <1>7, <1>8, HandlerMoves
<1>10. ReadFits(w)'
  BY <1>1, <1>5, <1>6, <1>9 DEF ReadFits, HandlerAt
<1>11. BtSettingsAreKept' /\ CountIsKept'
  BY <1>1, <1>2, <1>3, <1>9, BtStays, CountStays
<1> QED BY <1>1, <1>2, <1>9, <1>10, <1>11 DEF ConfigIInv, DeviceIsKept

LEMMA ApplyBtStep ==
  ASSUME ConfigIInv, NEW w \in Workers, ApplyBt(w)
  PROVE  ConfigIInv'
<1>1. /\ worker[w].pc = "apply" /\ bt' = worker[w].read
      /\ latest' = [latest EXCEPT ![worker[w].req.kind] = worker[w].req.value]
      /\ undone' = [undone EXCEPT !.bt = (@ \cup behind[w]) \ {worker[w].req.kind}]
      /\ GoesTo(w, "copy") /\ Notes(w) /\ UNCHANGED <<control, config, file, layout, asked, delay>>
  BY DEF ApplyBt, HandlerAt
<1>2. HandlerTypes /\ ReadsFit /\ BtSettingsAreKept /\ CountIsKept /\ DeviceIsKept
  BY DEF ConfigIInv
<1>3. HandlerFits(worker[w]) /\ worker[w].req \in Asks /\ worker[w].req.value \in Values /\ delay # w
  BY <1>1, <1>2, HandlerIs
<1>4. worker[w].req.kind \in Bt /\ worker[w].read \in [Bt -> Values]
  BY <1>1, <1>3 DEF HandlerFits
<1>5. /\ latest \in [Told -> Values] /\ undone \in Histories /\ behind[w] \subseteq InFile
      /\ Bt \subseteq Told /\ "device" \in Told \ Bt /\ "inputs" \in Told \ Bt
  BY <1>2, SettingsAre DEF HandlerTypes, SettingTypes
<1>6. /\ latest' \in [Told -> Values] /\ latest'[worker[w].req.kind] = worker[w].req.value
      /\ \A s \in Told : s = worker[w].req.kind \/ latest'[s] = latest[s]
  BY <1>1, <1>3, <1>4, <1>5
<1>7. latest'["device"] = latest["device"] /\ latest'["inputs"] = latest["inputs"]
  BY <1>4, <1>5, <1>6
<1>8. /\ undone' \in Histories /\ undone'.config = undone.config
      /\ undone'.control = undone.control /\ undone'.file = undone.file
      /\ undone'.bt = (undone.bt \cup behind[w]) \ {worker[w].req.kind}
  BY <1>1, <1>5 DEF Histories
<1>9. SettingTypes'
  BY <1>1, <1>2, <1>4, <1>6, <1>8 DEF HandlerTypes, SettingTypes
<1>10. PICK h \in Handlers : /\ h.pc = "copy" /\ h.req = worker[w].req /\ h.read = worker[w].read
                             /\ worker' = [worker EXCEPT ![w] = h]
  <2>1. "copy" \in Places
    BY DEF Places
  <2> QED BY <1>1, <1>2, <2>1, GoesToIs
<1>11. HandlerFits(h)
  BY <1>3, <1>4, <1>10, SettingsAre DEF HandlerFits
<1>12. /\ HandlerTypes' /\ worker'[w] = h /\ (ReadFits(w)' => ReadsFit')
       /\ \A v \in Workers : v # w => worker'[v] = worker[v]
  BY <1>1, <1>2, <1>3, <1>9, <1>10, <1>11, HandlerMoves
<1>13. ReadFits(w)'
  BY <1>1, <1>10, <1>12 DEF ReadFits, HandlerAt
<1>14. BtSettingsAreKept'
  <2> SUFFICES ASSUME NEW s \in Bt
               PROVE  /\ bt'[s] = latest'[s] \/ s \in undone'.bt
                      /\ \/ config'[s] = latest'[s] \/ s \in undone'.config
                         \/ \E v \in Workers : HandlerAt(v, "copy")' /\ worker'[v].req.kind = s
    BY DEF BtSettingsAreKept
  <2>1. /\ worker[w].read[worker[w].req.kind] = worker[w].req.value
        /\ s \in behind[w] \/ s = worker[w].req.kind \/ worker[w].read[s] = bt[s]
    BY <1>1, <1>2 DEF ReadsFit, ReadFits, HandlerAt
  <2>2. CASE s = worker[w].req.kind
    <3>1. bt'[s] = latest'[s]
      BY <1>1, <1>6, <2>1, <2>2
    <3>2. HandlerAt(w, "copy")' /\ worker'[w].req.kind = s
      BY <1>10, <1>12, <2>2 DEF HandlerAt
    <3> QED BY <3>1, <3>2
  <2>3. CASE s # worker[w].req.kind
    <3>1. latest'[s] = latest[s]
      BY <1>5, <1>6, <2>3
    <3>2. bt[s] = latest[s] \/ s \in undone.bt
      BY <1>2 DEF BtSettingsAreKept
    <3>3. bt'[s] = latest'[s] \/ s \in undone'.bt
      BY <1>1, <1>8, <2>1, <2>3, <3>1, <3>2
    <3>4. CASE \E v \in Workers : HandlerAt(v, "copy") /\ worker[v].req.kind = s
      <4>1. PICK v \in Workers : worker[v].pc = "copy" /\ worker[v].req.kind = s
        BY <3>4 DEF HandlerAt
      <4>2. HandlerAt(v, "copy")' /\ worker'[v].req.kind = s
        BY <1>1, <1>12, <4>1 DEF HandlerAt
      <4> QED BY <3>3, <4>2
    <3>5. CASE ~\E v \in Workers : HandlerAt(v, "copy") /\ worker[v].req.kind = s
      BY <1>1, <1>2, <1>8, <3>1, <3>3, <3>5 DEF BtSettingsAreKept
    <3> QED BY <3>4, <3>5
  <2> QED BY <2>2, <2>3
<1>15. CountIsKept'
  BY <1>1, <1>2, <1>7, <1>8, <1>12, CountStays
<1> QED BY <1>1, <1>2, <1>7, <1>8, <1>12, <1>13, <1>14, <1>15 DEF ConfigIInv, DeviceIsKept

LEMMA CopyBtStep ==
  ASSUME ConfigIInv, NEW w \in Workers, CopyBt(w)
  PROVE  ConfigIInv'
<1>1. /\ worker[w].pc = "copy" /\ config' = Over(config, worker[w].read)
      /\ undone' = [undone EXCEPT !.config = (@ \ Bt) \cup behind[w] \cup undone.bt]
      /\ Answers(w) /\ Notes(w) /\ UNCHANGED <<control, bt, file, layout, asked, delay, latest>>
  BY DEF CopyBt, HandlerAt
<1>2. HandlerTypes /\ ReadsFit /\ BtSettingsAreKept /\ CountIsKept /\ DeviceIsKept
  BY DEF ConfigIInv
<1>3. HandlerFits(worker[w]) /\ delay # w
  BY <1>1, <1>2, HandlerIs
<1>4. worker[w].read \in [Bt -> Values] /\ config \in SavedSettings /\ Bt \in SUBSET InFile
      /\ "device" \in InFile \ Bt
  BY <1>1, <1>2, <1>3, SettingsAre DEF HandlerFits, HandlerTypes, SettingTypes
<1>5. /\ config' \in SavedSettings /\ config'["device"] = config["device"]
      /\ \A s \in Bt : config'[s] = worker[w].read[s]
  BY <1>1, <1>4, OverIs
<1>6. /\ undone' \in Histories /\ undone'.bt = undone.bt
      /\ undone'.control = undone.control /\ undone'.file = undone.file
      /\ undone'.config = (undone.config \ Bt) \cup behind[w] \cup undone.bt
  <2>1. undone \in Histories /\ behind[w] \subseteq InFile
    BY <1>2 DEF HandlerTypes, SettingTypes
  <2> QED BY <1>1, <2>1 DEF Histories
<1>7. SettingTypes'
  BY <1>1, <1>2, <1>5, <1>6 DEF HandlerTypes, SettingTypes
<1>8. /\ HandlerTypes' /\ ReadsFit' /\ \A v \in Workers : v # w => worker'[v] = worker[v]
  BY <1>1, <1>2, <1>3, <1>7, AnswerStep
<1>9. BtSettingsAreKept'
  <2> SUFFICES ASSUME NEW s \in Bt
               PROVE  /\ bt'[s] = latest'[s] \/ s \in undone'.bt
                      /\ config'[s] = latest'[s] \/ s \in undone'.config
    BY DEF BtSettingsAreKept
  <2>1. bt[s] = latest[s] \/ s \in undone.bt
    BY <1>2 DEF BtSettingsAreKept
  <2>2. s \in behind[w] \/ worker[w].read[s] = bt[s]
    BY <1>1, <1>2 DEF ReadsFit, ReadFits, HandlerAt
  <2> QED BY <1>1, <1>5, <1>6, <2>1, <2>2
<1>10. CountIsKept'
  BY <1>1, <1>2, <1>6, <1>8, CountStays
<1>11. DeviceIsKept'
  BY <1>1, <1>2, <1>4, <1>5, <1>6 DEF DeviceIsKept
<1> QED BY <1>8, <1>9, <1>10, <1>11 DEF ConfigIInv

LEMMA SaveBaseStep ==
  ASSUME ConfigIInv, NEW w \in Workers, SaveBase(w)
  PROVE  ConfigIInv'
<1>1. /\ worker[w].pc = "save" /\ Reads(w, config, "gather") /\ Notes(w)
      /\ UNCHANGED <<control, bt, config, file, layout, asked, delay, latest, undone>>
  BY DEF SaveBase, HandlerAt
<1>2. HandlerTypes /\ ReadsFit /\ BtSettingsAreKept /\ CountIsKept /\ DeviceIsKept
  BY DEF ConfigIInv
<1>3. worker[w].req \in Asks /\ delay # w /\ config \in SavedSettings
  BY <1>1, <1>2, HandlerIs DEF HandlerTypes, SettingTypes
<1>4. PICK h \in Handlers : /\ h.pc = "gather" /\ h.req = worker[w].req /\ h.read = config
                            /\ worker' = [worker EXCEPT ![w] = h]
  <2>1. "gather" \in Places
    BY DEF Places
  <2> QED BY <1>1, <1>2, <1>3, <2>1, ReadsIs
<1>5. HandlerFits(h)
  BY <1>3, <1>4, SettingsAre DEF HandlerFits
<1>6. SettingTypes'
  BY <1>1, <1>2 DEF HandlerTypes, SettingTypes
<1>7. /\ HandlerTypes' /\ worker'[w] = h /\ (ReadFits(w)' => ReadsFit')
      /\ \A v \in Workers : v # w => worker'[v] = worker[v]
  BY <1>1, <1>2, <1>3, <1>4, <1>5, <1>6, HandlerMoves
<1>8. ReadFits(w)'
  BY <1>1, <1>4, <1>7 DEF ReadFits, HandlerAt
<1>9. BtSettingsAreKept' /\ CountIsKept'
  BY <1>1, <1>2, <1>7, BtStays, CountStays
<1> QED BY <1>1, <1>2, <1>7, <1>8, <1>9 DEF ConfigIInv, DeviceIsKept

LEMMA SaveGatherStep ==
  ASSUME ConfigIInv, NEW w \in Workers, SaveGather(w)
  PROVE  ConfigIInv'
<1> DEFINE x == Over(worker[w].read, control)
<1>1. /\ worker[w].pc = "gather" /\ Reads(w, x, "write") /\ Notes(w)
      /\ UNCHANGED <<control, bt, config, file, layout, asked, delay, latest, undone>>
  BY DEF SaveGather, HandlerAt
<1>2. HandlerTypes /\ ReadsFit /\ BtSettingsAreKept /\ CountIsKept /\ DeviceIsKept
  BY DEF ConfigIInv
<1>3. HandlerFits(worker[w]) /\ worker[w].req \in Asks /\ delay # w
  BY <1>1, <1>2, HandlerIs
<1>4. /\ worker[w].read \in SavedSettings /\ control \in [Live -> Values] /\ Live \in SUBSET InFile
      /\ "inputs" \in Live /\ Unlive \subseteq InFile \ Live
  BY <1>1, <1>2, <1>3, SettingsAre DEF HandlerFits, HandlerTypes, SettingTypes
<1>5. /\ x \in SavedSettings /\ x["inputs"] = control["inputs"]
      /\ \A s \in Unlive : x[s] = worker[w].read[s]
  BY <1>4, OverIs
<1> HIDE DEF x
<1>6. PICK h \in Handlers : /\ h.pc = "write" /\ h.req = worker[w].req /\ h.read = x
                            /\ worker' = [worker EXCEPT ![w] = h]
  <2>1. "write" \in Places
    BY DEF Places
  <2> QED BY <1>1, <1>2, <1>5, <2>1, ReadsIs
<1>7. HandlerFits(h)
  BY <1>3, <1>5, <1>6, SettingsAre DEF HandlerFits
<1>8. SettingTypes'
  BY <1>1, <1>2 DEF HandlerTypes, SettingTypes
<1>9. /\ HandlerTypes' /\ worker'[w] = h /\ (ReadFits(w)' => ReadsFit')
      /\ behind'[w] = behind[w]
      /\ \A v \in Workers : v # w => worker'[v] = worker[v]
  BY <1>1, <1>2, <1>3, <1>6, <1>7, <1>8, HandlerMoves
<1>10. ReadFits(w)'
  <2>1. \A s \in Unlive \ behind[w] : worker[w].read[s] = config[s]
    BY <1>1, <1>2 DEF ReadsFit, ReadFits
  <2> QED BY <1>1, <1>5, <1>6, <1>9, <2>1 DEF ReadFits, HandlerAt
<1>11. BtSettingsAreKept' /\ CountIsKept'
  BY <1>1, <1>2, <1>9, BtStays, CountStays
<1> QED BY <1>1, <1>2, <1>9, <1>10, <1>11 DEF ConfigIInv, DeviceIsKept

LEMMA SaveStoreStep ==
  ASSUME ConfigIInv, NEW w \in Workers, SaveStore(w)
  PROVE  ConfigIInv'
<1>1. /\ worker[w].pc = "write" /\ Notes(w)
      /\ UNCHANGED <<control, bt, config, layout, asked, delay, latest>>
      /\ \/ /\ file' = worker[w].read /\ GoesTo(w, "replace")
            /\ undone' = [undone EXCEPT !.file = behind[w] \cap {"inputs"}]
         \/ Answers(w) /\ UNCHANGED <<file, undone>>
  BY DEF SaveStore, HandlerAt
<1>2. HandlerTypes /\ ReadsFit /\ BtSettingsAreKept /\ CountIsKept /\ DeviceIsKept
  BY DEF ConfigIInv
<1>3. HandlerFits(worker[w]) /\ worker[w].req \in Asks /\ delay # w
  BY <1>1, <1>2, HandlerIs
<1>4. worker[w].read \in SavedSettings
  BY <1>1, <1>3 DEF HandlerFits
<1>5. CASE /\ file' = worker[w].read /\ GoesTo(w, "replace")
           /\ undone' = [undone EXCEPT !.file = behind[w] \cap {"inputs"}]
  <2>1. PICK h \in Handlers : /\ h.pc = "replace" /\ h.req = worker[w].req /\ h.read = worker[w].read
                              /\ worker' = [worker EXCEPT ![w] = h]
    <3>1. "replace" \in Places
      BY DEF Places
    <3> QED BY <1>2, <1>5, <3>1, GoesToIs
  <2>2. HandlerFits(h)
    BY <1>3, <1>4, <2>1, SettingsAre DEF HandlerFits
  <2>3. /\ undone' \in Histories /\ undone'.bt = undone.bt /\ undone'.config = undone.config
        /\ undone'.control = undone.control /\ undone'.file = behind[w] \cap {"inputs"}
    <3>1. undone \in Histories /\ behind[w] \subseteq InFile
      BY <1>2 DEF HandlerTypes, SettingTypes
    <3> QED BY <1>5, <3>1 DEF Histories
  <2>4. SettingTypes'
    BY <1>1, <1>2, <1>4, <1>5, <2>3 DEF HandlerTypes, SettingTypes
  <2>5. /\ HandlerTypes' /\ worker'[w] = h /\ (ReadFits(w)' => ReadsFit')
        /\ behind'[w] = behind[w]
        /\ \A v \in Workers : v # w => worker'[v] = worker[v]
    BY <1>1, <1>2, <1>3, <2>1, <2>2, <2>4, HandlerMoves
  <2>6. /\ \A s \in Unlive \ behind[w] : worker[w].read[s] = config[s]
        /\ "inputs" \in behind[w] \/ worker[w].read["inputs"] = control["inputs"]
    BY <1>1, <1>2 DEF ReadsFit, ReadFits
  <2>7. ReadFits(w)'
    <3>1. worker'[w].pc = "replace" /\ worker'[w].read = worker[w].read
      BY <2>1, <2>5
    <3>2. config' = config /\ control' = control
      BY <1>1
    <3> QED BY <2>5, <2>6, <3>1, <3>2 DEF ReadFits, HandlerAt
  <2>8. BtSettingsAreKept'
    BY <1>1, <1>2, <2>3, <2>5, BtStays
  <2>9. CountIsKept'
    BY <1>1, <1>2, <1>5, <2>3, <2>6 DEF CountIsKept
  <2> QED BY <1>1, <1>2, <2>3, <2>5, <2>7, <2>8, <2>9 DEF ConfigIInv, DeviceIsKept
<1>6. CASE Answers(w) /\ UNCHANGED <<file, undone>>
  <2>1. SettingTypes'
    BY <1>1, <1>2, <1>6 DEF HandlerTypes, SettingTypes
  <2>2. /\ HandlerTypes' /\ ReadsFit' /\ \A v \in Workers : v # w => worker'[v] = worker[v]
    BY <1>1, <1>2, <1>3, <1>6, <2>1, AnswerStep
  <2>3. BtSettingsAreKept' /\ CountIsKept'
    BY <1>1, <1>2, <1>6, <2>2, BtStays, CountStays
  <2> QED BY <1>1, <1>2, <1>6, <2>2, <2>3 DEF ConfigIInv, DeviceIsKept
<1> QED BY <1>1, <1>5, <1>6

LEMMA SaveReplaceStep ==
  ASSUME ConfigIInv, NEW w \in Workers, SaveReplace(w)
  PROVE  ConfigIInv'
<1>1. /\ worker[w].pc = "replace" /\ config' = worker[w].read /\ Answers(w) /\ Notes(w)
      /\ undone' = [undone EXCEPT !.config = @ \cup (behind[w] \cap Unlive)]
      /\ UNCHANGED <<control, bt, file, layout, asked, delay, latest>>
  BY DEF SaveReplace, HandlerAt
<1>2. HandlerTypes /\ ReadsFit /\ BtSettingsAreKept /\ CountIsKept /\ DeviceIsKept
  BY DEF ConfigIInv
<1>3. HandlerFits(worker[w]) /\ delay # w
  BY <1>1, <1>2, HandlerIs
<1>4. worker[w].read \in SavedSettings
  BY <1>1, <1>3 DEF HandlerFits
<1>5. /\ undone' \in Histories /\ undone'.bt = undone.bt
      /\ undone'.control = undone.control /\ undone'.file = undone.file
      /\ undone'.config = undone.config \cup (behind[w] \cap Unlive)
  <2>1. undone \in Histories /\ behind[w] \subseteq InFile
    BY <1>2 DEF HandlerTypes, SettingTypes
  <2> QED BY <1>1, <2>1 DEF Histories
<1>6. SettingTypes'
  BY <1>1, <1>2, <1>4, <1>5 DEF HandlerTypes, SettingTypes
<1>7. /\ HandlerTypes' /\ ReadsFit' /\ \A v \in Workers : v # w => worker'[v] = worker[v]
  BY <1>1, <1>2, <1>3, <1>6, AnswerStep
<1>8. \A s \in Unlive : /\ config'[s] = config[s] \/ s \in undone'.config
                        /\ s \in undone.config => s \in undone'.config
  <2>1. \A s \in Unlive \ behind[w] : worker[w].read[s] = config[s]
    BY <1>1, <1>2 DEF ReadsFit, ReadFits
  <2> QED BY <1>1, <1>5, <2>1
<1>9. Bt \subseteq Unlive /\ "device" \in Unlive
  BY SettingsAre
<1>10. BtSettingsAreKept'
  BY <1>1, <1>2, <1>5, <1>7, <1>8, <1>9, BtStays
<1>11. CountIsKept'
  BY <1>1, <1>2, <1>5, <1>7, CountStays
<1>12. DeviceIsKept'
  BY <1>1, <1>2, <1>8, <1>9 DEF DeviceIsKept
<1> QED BY <1>7, <1>10, <1>11, <1>12 DEF ConfigIInv

LEMMA ResetStep ==
  ASSUME ConfigIInv, NEW w \in Workers, Reset(w)
  PROVE  ConfigIInv'
<1>1. /\ worker[w].pc = "reset" /\ Answers(w) /\ Notes(w) /\ file' \in {file, None}
      /\ UNCHANGED <<control, bt, config, layout, asked, delay, latest, undone>>
  BY DEF Reset, HandlerAt
<1>2. HandlerTypes /\ ReadsFit /\ BtSettingsAreKept /\ CountIsKept /\ DeviceIsKept
  BY DEF ConfigIInv
<1>3. delay # w
  BY <1>1, <1>2, HandlerIs
<1>4. SettingTypes'
  BY <1>1, <1>2 DEF HandlerTypes, SettingTypes
<1>5. /\ HandlerTypes' /\ ReadsFit' /\ \A v \in Workers : v # w => worker'[v] = worker[v]
  BY <1>1, <1>2, <1>3, <1>4, AnswerStep
<1>6. BtSettingsAreKept' /\ CountIsKept'
  BY <1>1, <1>2, <1>5, BtStays, CountStays
<1> QED BY <1>1, <1>2, <1>5, <1>6 DEF ConfigIInv, DeviceIsKept

LEMMA ReadCountStep ==
  ASSUME ConfigIInv, NEW w \in Workers, ReadCount(w)
  PROVE  ConfigIInv'
<1> DEFINE r == [kind |-> "net", value |-> control["inputs"]]
           h == [worker[w] EXCEPT !.req = r, !.pc = "inputs"]
<1>1. /\ worker[w].pc = "net" /\ worker' = [worker EXCEPT ![w] = h] /\ Notes(w)
      /\ UNCHANGED <<control, bt, config, file, layout, asked, delay, latest, undone>>
  BY DEF ReadCount, HandlerAt
<1>2. HandlerTypes /\ ReadsFit /\ BtSettingsAreKept /\ CountIsKept /\ DeviceIsKept
  BY DEF ConfigIInv
<1>3. worker[w] \in Handlers /\ delay # w /\ control["inputs"] \in Values
  BY <1>1, <1>2, HandlerIs, SettingsAre DEF HandlerTypes, SettingTypes
<1>4. r \in Asks /\ r.kind = "net"
  BY <1>3, SettingsAre DEF Asks
<1> HIDE DEF r
<1>5. h \in Handlers /\ h.pc = "inputs" /\ h.req = r
  <2>1. "inputs" \in Places
    BY SettingsAre DEF Places
  <2> QED BY <1>3, <1>4, <2>1 DEF Handlers
<1> HIDE DEF h
<1>6. HandlerFits(h)
  BY <1>4, <1>5 DEF HandlerFits
<1>7. SettingTypes'
  BY <1>1, <1>2 DEF HandlerTypes, SettingTypes
<1>8. /\ HandlerTypes' /\ worker'[w] = h /\ (ReadFits(w)' => ReadsFit')
      /\ \A v \in Workers : v # w => worker'[v] = worker[v]
  BY <1>1, <1>2, <1>3, <1>5, <1>6, <1>7, HandlerMoves
<1>9. ReadFits(w)'
  BY <1>5, <1>8 DEF ReadFits, HandlerAt
<1>10. BtSettingsAreKept' /\ CountIsKept'
  BY <1>1, <1>2, <1>8, BtStays, CountStays
<1> QED BY <1>1, <1>2, <1>8, <1>9, <1>10 DEF ConfigIInv, DeviceIsKept

LEMMA LoadInputsStep ==
  ASSUME ConfigIInv, NEW w \in Workers, LoadInputs(w)
  PROVE  ConfigIInv'
<1>1. /\ worker[w].pc = "inputs" /\ delay = Nobody /\ Notes(w)
      /\ UNCHANGED <<control, bt, config, file, layout, asked, latest, undone>>
      /\ \/ Answers(w) /\ UNCHANGED delay
         \/ delay' = w /\ Reads(w, Found, "write inputs")
  BY DEF LoadInputs, HandlerAt
<1>2. HandlerTypes /\ ReadsFit /\ BtSettingsAreKept /\ CountIsKept /\ DeviceIsKept
  BY DEF ConfigIInv
<1>3. HandlerFits(worker[w]) /\ worker[w].req \in Asks /\ Nobody \notin Workers /\ delay # w
  BY <1>1, <1>2, HandlerIs, ConfigAssumption
<1>4. worker[w].req.kind \in {"inputs", "net"}
  BY <1>1, <1>3, SettingsAre DEF HandlerFits
<1>5. SettingTypes' /\ Found \in SavedSettings
  <2>1. SettingTypes
    BY <1>2 DEF HandlerTypes
  <2>2. SettingTypes'
    BY <1>1, <2>1 DEF SettingTypes
  <2> QED BY <2>1, <2>2, FoundIsWhole
<1>6. CASE Answers(w) /\ UNCHANGED delay
  <2>1. /\ HandlerTypes' /\ ReadsFit' /\ \A v \in Workers : v # w => worker'[v] = worker[v]
    BY <1>1, <1>2, <1>3, <1>5, <1>6, AnswerStep
  <2>2. BtSettingsAreKept' /\ CountIsKept'
    BY <1>1, <1>2, <2>1, BtStays, CountStays
  <2> QED BY <1>1, <1>2, <2>1, <2>2 DEF ConfigIInv, DeviceIsKept
<1>7. CASE delay' = w /\ Reads(w, Found, "write inputs")
  <2>1. PICK h \in Handlers : /\ h.pc = "write inputs" /\ h.req = worker[w].req /\ h.read = Found
                              /\ worker' = [worker EXCEPT ![w] = h]
    <3>1. PICK pc \in Places : pc = "write inputs"
      BY DEF Places
    <3>2. PICK x \in SavedSettings \cup [Bt -> Values] : x = Found
      BY <1>5
    <3>3. Reads(w, x, pc)
      BY <1>7, <3>1, <3>2
    <3>4. \E h \in Handlers : /\ h.pc = pc /\ h.req = worker[w].req /\ h.read = x
                              /\ worker' = [worker EXCEPT ![w] = h]
      BY <1>2, <3>3, ReadsIs
    <3> QED BY <3>1, <3>2, <3>4
  <2>2. HandlerFits(h)
    BY <1>3, <1>4, <1>5, <2>1, SettingsAre DEF HandlerFits
  <2>3. \A v \in Workers : v # w => (delay' = v <=> delay = v)
    BY <1>1, <1>3, <1>7
  <2>4. /\ HandlerTypes' /\ worker'[w] = h /\ (ReadFits(w)' => ReadsFit')
        /\ \A v \in Workers : v # w => worker'[v] = worker[v]
    BY <1>1, <1>2, <1>5, <1>7, <2>1, <2>2, <2>3, HandlerMoves
  <2>5. Found' = Found
    BY <1>1 DEF Found, LoadedSettings
  <2>6. ReadFits(w)'
    BY <2>1, <2>4, <2>5 DEF ReadFits, HandlerAt
  <2>7. BtSettingsAreKept' /\ CountIsKept'
    BY <1>1, <1>2, <2>4, BtStays, CountStays
  <2> QED BY <1>1, <1>2, <2>4, <2>6, <2>7 DEF ConfigIInv, DeviceIsKept
<1> QED BY <1>1, <1>6, <1>7

\* Who has delay_m_ is the only one who can.
LEMMA HolderIs ==
  ASSUME HandlerTypes, NEW w \in Workers, worker[w].pc \in {"write inputs", "store inputs"}
  PROVE  /\ delay = w /\ Nobody \notin Workers
         /\ worker[w].req \in Asks /\ worker[w].req.value \in Values
         /\ worker[w].req.kind \in {"inputs", "net"} /\ worker[w].read \in SavedSettings
         /\ \A v \in Workers : v # w => worker[v].pc \notin {"write inputs", "store inputs"}
<1>1. /\ HandlerFits(worker[w]) /\ delay = w
      /\ worker[w].req \in Asks /\ worker[w].req.value \in Values
  BY HandlerIs
<1>2. \A v \in Workers : v # w => worker[v].pc \notin {"write inputs", "store inputs"}
  BY <1>1 DEF HandlerTypes
<1> QED BY <1>1, <1>2, ConfigAssumption DEF HandlerFits

LEMMA WriteInputsStep ==
  ASSUME ConfigIInv, NEW w \in Workers, WriteInputs(w)
  PROVE  ConfigIInv'
<1>1. /\ worker[w].pc = "write inputs" /\ Notes(w)
      /\ UNCHANGED <<control, bt, config, layout, asked, latest, undone>>
      /\ \/ /\ file' = [worker[w].read EXCEPT !["inputs"] = worker[w].req.value]
            /\ GoesTo(w, "store inputs") /\ UNCHANGED delay
         \/ Answers(w) /\ delay' = Nobody /\ UNCHANGED file
  BY DEF WriteInputs, HandlerAt
<1>2. HandlerTypes /\ ReadsFit /\ BtSettingsAreKept /\ CountIsKept /\ DeviceIsKept
  BY DEF ConfigIInv
<1>3. /\ delay = w /\ Nobody \notin Workers
      /\ worker[w].req \in Asks /\ worker[w].req.value \in Values
      /\ worker[w].req.kind \in {"inputs", "net"} /\ worker[w].read \in SavedSettings
  BY <1>1, <1>2, HolderIs
<1>4. CASE /\ file' = [worker[w].read EXCEPT !["inputs"] = worker[w].req.value]
           /\ GoesTo(w, "store inputs") /\ UNCHANGED delay
  <2>1. PICK h \in Handlers : /\ h.pc = "store inputs" /\ h.req = worker[w].req /\ h.read = worker[w].read
                              /\ worker' = [worker EXCEPT ![w] = h]
    <3>1. "store inputs" \in Places
      BY DEF Places
    <3> QED BY <1>2, <1>4, <3>1, GoesToIs
  <2>2. HandlerFits(h)
    BY <1>3, <2>1, SettingsAre DEF HandlerFits
  <2>3. file' \in SavedSettings /\ file'["inputs"] = worker[w].req.value
    BY <1>3, <1>4, SettingsAre DEF SavedSettings
  <2>4. SettingTypes'
    BY <1>1, <1>2, <2>3 DEF HandlerTypes, SettingTypes
  <2>5. /\ HandlerTypes' /\ worker'[w] = h /\ (ReadFits(w)' => ReadsFit')
        /\ \A v \in Workers : v # w => worker'[v] = worker[v]
    BY <1>1, <1>2, <1>3, <1>4, <2>1, <2>2, <2>4, HandlerMoves
  <2>6. Found'["inputs"] = worker[w].req.value
    <3>1. LoadedSettings' = file' /\ layout' \in Values
      BY <2>3, <2>4, ConfigAssumption DEF LoadedSettings, SettingTypes
    <3>2. Found' = Remapped(file', layout')
      BY <3>1 DEF Found
    <3>3. "inputs" \in InFile \ {"columns", "gain"}
      BY SettingsAre
    <3> QED BY <2>3, <3>1, <3>2, <3>3, RemappedIs
  <2>7. ReadFits(w)'
    BY <2>1, <2>5, <2>6 DEF ReadFits, HandlerAt
  <2>8. BtSettingsAreKept'
    BY <1>1, <1>2, <2>5, BtStays
  <2>9. CountIsKept'
    BY <1>1, <1>2, <2>1, <2>5 DEF CountIsKept, HandlerAt
  <2> QED BY <1>1, <1>2, <2>5, <2>7, <2>8, <2>9 DEF ConfigIInv, DeviceIsKept
<1>5. CASE Answers(w) /\ delay' = Nobody /\ UNCHANGED file
  <2>1. \A v \in Workers : v # w => (delay' = v <=> delay = v)
    BY <1>3, <1>5
  <2>2. SettingTypes'
    BY <1>1, <1>2, <1>5 DEF HandlerTypes, SettingTypes
  <2>3. /\ HandlerTypes' /\ ReadsFit' /\ \A v \in Workers : v # w => worker'[v] = worker[v]
    BY <1>1, <1>2, <1>3, <1>5, <2>1, <2>2, AnswerStep
  <2>4. BtSettingsAreKept' /\ CountIsKept'
    BY <1>1, <1>2, <1>5, <2>3, BtStays, CountStays
  <2> QED BY <1>1, <1>2, <2>3, <2>4 DEF ConfigIInv, DeviceIsKept
<1> QED BY <1>1, <1>4, <1>5

LEMMA StoreInputsStep ==
  ASSUME ConfigIInv, NEW w \in Workers, StoreInputs(w)
  PROVE  ConfigIInv'
<1> DEFINE undid == IF worker[w].req.kind = "net" THEN {"inputs"} ELSE {}
<1>1. /\ worker[w].pc = "store inputs" /\ Answers(w) /\ Notes(w) /\ delay' = Nobody
      /\ control' = [control EXCEPT !["inputs"] = worker[w].req.value]
      /\ undone' = [undone EXCEPT !.control = undid, !.file = behind[w] \cap {"inputs"}]
      /\ UNCHANGED <<bt, config, file, layout, asked>>
  BY DEF StoreInputs, HandlerAt
<1>2. HandlerTypes /\ ReadsFit /\ BtSettingsAreKept /\ CountIsKept /\ DeviceIsKept
  BY DEF ConfigIInv
<1>3. /\ delay = w /\ Nobody \notin Workers /\ worker[w].req.value \in Values
      /\ worker[w].req.kind \in {"inputs", "net"}
      /\ \A v \in Workers : v # w => worker[v].pc \notin {"write inputs", "store inputs"}
  BY <1>1, <1>2, HolderIs
<1>4. /\ latest \in [Told -> Values] /\ "inputs" \in Told \ Unlive /\ Bt \subseteq Told
      /\ Unlive \subseteq Told /\ Bt \subseteq Unlive /\ "device" \in Unlive
      /\ undone \in Histories /\ behind[w] \subseteq InFile /\ "inputs" \in InFile
      /\ control \in [Live -> Values] /\ "inputs" \in Live
  BY <1>2, SettingsAre DEF HandlerTypes, SettingTypes
<1>5. /\ latest' \in [Told -> Values] /\ \A s \in Unlive : latest'[s] = latest[s]
      /\ "inputs" \in undid \/ latest'["inputs"] = worker[w].req.value
  <2>1. CASE worker[w].req.kind = "net"
    <3>1. latest' = latest /\ "inputs" \in undid
      BY <2>1 DEF StoreInputs
    <3> QED BY <1>4, <3>1
  <2>2. CASE worker[w].req.kind # "net"
    <3>1. latest' = [latest EXCEPT !["inputs"] = worker[w].req.value]
      BY <2>2 DEF StoreInputs
    <3> QED BY <1>3, <1>4, <3>1
  <2> QED BY <2>1, <2>2
<1>6. undid \subseteq InFile
  BY <1>4
<1> HIDE DEF undid
<1>7. /\ undone' \in Histories /\ undone'.bt = undone.bt /\ undone'.config = undone.config
      /\ undone'.control = undid /\ undone'.file = behind[w] \cap {"inputs"}
  BY <1>1, <1>4, <1>6 DEF Histories
<1>8. control' \in [Live -> Values] /\ control'["inputs"] = worker[w].req.value
  BY <1>1, <1>3, <1>4
<1>9. SettingTypes'
  BY <1>1, <1>2, <1>5, <1>7, <1>8 DEF HandlerTypes, SettingTypes
<1>10. /\ HandlerTypes' /\ ReadsFit' /\ \A v \in Workers : v # w => worker'[v] = worker[v]
  <2>1. \A v \in Workers : v # w => (delay' = v <=> delay = v)
    BY <1>1, <1>3
  <2> QED BY <1>1, <1>2, <1>3, <1>9, <2>1, AnswerStep
<1>11. BtSettingsAreKept'
  BY <1>1, <1>2, <1>4, <1>5, <1>7, <1>10, BtStays
<1>12. CountIsKept'
  <2>1. "inputs" \in behind[w] \/ Found["inputs"] = worker[w].req.value
    BY <1>1, <1>2 DEF ReadsFit, ReadFits, HandlerAt
  <2>2. Found["inputs"] = LoadedSettings["inputs"] /\ (file # None => LoadedSettings = file)
    BY <1>2, FoundIsWhole, LoadedIsWhole DEF HandlerTypes
  <2>3. file' = file
    BY <1>1
  <2>4. file' = None \/ "inputs" \in undone'.file \/ control'["inputs"] = file'["inputs"]
    BY <1>7, <1>8, <2>1, <2>2, <2>3
  <2>5. control'["inputs"] = latest'["inputs"] \/ "inputs" \in undone'.control
    BY <1>5, <1>7, <1>8
  <2> QED BY <2>4, <2>5 DEF CountIsKept
<1> QED BY <1>1, <1>2, <1>4, <1>5, <1>7, <1>10, <1>11, <1>12 DEF ConfigIInv, DeviceIsKept

\* What a start makes of the saved file.
LEMMA StartIs ==
  ASSUME NEW c \in SavedSettings
  PROVE  /\ Part(c, Live) \in [Live -> Values] /\ Part(c, Bt) \in [Bt -> Values]
         /\ Part(c, Told) \in [Told -> Values]
         /\ \A s \in Bt : Part(c, Bt)[s] = c[s] /\ Part(c, Told)[s] = c[s]
         /\ Part(c, Told)["device"] = c["device"]
         /\ Part(c, Told)["inputs"] = c["inputs"] /\ Part(c, Live)["inputs"] = c["inputs"]
<1>1. c \in [InFile -> Values] /\ Live \subseteq InFile /\ Bt \subseteq InFile /\ Told \subseteq InFile
      /\ "device" \in Told /\ "inputs" \in Told /\ "inputs" \in Live /\ Bt \subseteq Told
  BY SettingsAre DEF SavedSettings
<1> QED BY <1>1 DEF Part

\* With every handler at rest.
LEMMA RestIs ==
  ASSUME worker = [w \in Workers |-> Resting], delay = Nobody,
         behind = [w \in Workers |-> {}], SettingTypes
  PROVE  HandlerTypes /\ ReadsFit
<1>1. \A w \in Workers : worker[w] = Resting
  OBVIOUS
<1>2. Resting \in Handlers /\ HandlerFits(Resting) /\ Resting.pc = "idle" /\ Nobody \notin Workers
  BY RestFits, ConfigAssumption
<1>3. HandlerTypes
  BY <1>1, <1>2 DEF HandlerTypes
<1>4. ReadsFit
  BY <1>1, <1>2 DEF ReadsFit, ReadFits, HandlerAt
<1> QED BY <1>3, <1>4

LEMMA RestartStep ==
  ASSUME ConfigIInv, Restart
  PROVE  ConfigIInv'
<1> DEFINE c == Remapped(LoadedSettings, layout')
<1>1. /\ layout' \in {LoadedSettings["inputs"]} \cup Fewer
      /\ config' = c /\ control' = Part(c, Live) /\ bt' = Part(c, Bt) /\ latest' = Part(c, Told)
      /\ delay' = Nobody /\ asked' = 0 /\ worker' = [w \in Workers |-> Resting]
      /\ behind' = [w \in Workers |-> {}] /\ undone' = NothingUndone /\ UNCHANGED file
  BY DEF Restart
<1>2. SettingTypes /\ LoadedSettings \in SavedSettings /\ (file # None => LoadedSettings = file)
  BY LoadedIsWhole DEF ConfigIInv, HandlerTypes
<1>3. layout' \in Values
  <2>1. LoadedSettings["inputs"] \in Values
    BY <1>2, SettingsAre DEF SavedSettings
  <2> QED BY <1>1, <2>1, ConfigAssumption
<1>4. c \in SavedSettings /\ c["inputs"] = LoadedSettings["inputs"]
  <2>1. "inputs" \in InFile \ {"columns", "gain"}
    BY SettingsAre
  <2> QED BY <1>2, <1>3, <2>1, RemappedIs
<1> HIDE DEF c
<1>5. /\ control' \in [Live -> Values] /\ bt' \in [Bt -> Values] /\ latest' \in [Told -> Values]
      /\ \A s \in Bt : bt'[s] = c[s] /\ latest'[s] = c[s]
      /\ latest'["device"] = c["device"]
      /\ latest'["inputs"] = c["inputs"] /\ control'["inputs"] = c["inputs"]
  BY <1>1, <1>4, StartIs
<1>6. undone' \in Histories
  BY <1>1 DEF NothingUndone, Histories
<1>7. asked' \in 0 .. MaxAsked
  BY <1>1, ConfigAssumption
<1>8. SettingTypes'
  BY <1>1, <1>2, <1>3, <1>4, <1>5, <1>6, <1>7 DEF SettingTypes
<1>9. \A w \in Workers : worker'[w] = Resting
  BY <1>1
<1>10. HandlerTypes'
  BY <1>1, <1>8, <1>9, RestFits, ConfigAssumption DEF HandlerTypes, HandlerFits
<1>11. ReadsFit'
  BY <1>9, RestFits DEF ReadsFit, ReadFits, HandlerAt
<1>12. DeviceIsKept' /\ BtSettingsAreKept'
  BY <1>1, <1>5 DEF DeviceIsKept, BtSettingsAreKept
<1>13. CountIsKept'
  BY <1>1, <1>2, <1>4, <1>5 DEF CountIsKept
<1> QED BY <1>10, <1>11, <1>12, <1>13 DEF ConfigIInv

LEMMA SettingsStart == ConfigInit => ConfigIInv
<1> SUFFICES ASSUME ConfigInit PROVE ConfigIInv
  OBVIOUS
<1> DEFINE c == LoadedSettings
<1>1. /\ config = c /\ control = Part(c, Live) /\ bt = Part(c, Bt) /\ latest = Part(c, Told)
      /\ delay = Nobody /\ file = None /\ layout = Factory /\ asked = 0
      /\ worker = [w \in Workers |-> Resting]
      /\ behind = [w \in Workers |-> {}] /\ undone = NothingUndone
  BY DEF ConfigInit
<1>2. c \in SavedSettings
  BY <1>1, ConfigAssumption DEF LoadedSettings, SavedSettings
<1> HIDE DEF c
<1>3. /\ control \in [Live -> Values] /\ bt \in [Bt -> Values] /\ latest \in [Told -> Values]
      /\ \A s \in Bt : bt[s] = c[s] /\ latest[s] = c[s]
      /\ latest["device"] = c["device"] /\ latest["inputs"] = control["inputs"]
  BY <1>1, <1>2, StartIs
<1>4. undone \in Histories /\ asked \in 0 .. MaxAsked
  BY <1>1, ConfigAssumption DEF NothingUndone, Histories
<1>5. SettingTypes
  BY <1>1, <1>2, <1>3, <1>4, ConfigAssumption DEF SettingTypes
<1>6. HandlerTypes /\ ReadsFit
  BY <1>1, <1>5, RestIs
<1>7. DeviceIsKept /\ BtSettingsAreKept /\ CountIsKept
  BY <1>1, <1>3 DEF DeviceIsKept, BtSettingsAreKept, CountIsKept
<1> QED BY <1>6, <1>7 DEF ConfigIInv

LEMMA SettingsSteps ==
  ASSUME ConfigIInv, [ConfigNext]_configVars
  PROVE  ConfigIInv'
<1>1. ASSUME NEW w \in Workers,
             \/ \E r \in Requests : TakeRequest(w, r)
             \/ PutGain(w) \/ PutDevice(w) \/ ReadBt(w) \/ ApplyBt(w) \/ CopyBt(w)
             \/ SaveBase(w) \/ SaveGather(w) \/ SaveStore(w) \/ SaveReplace(w) \/ Reset(w)
             \/ ReadCount(w) \/ LoadInputs(w) \/ WriteInputs(w) \/ StoreInputs(w)
      PROVE  ConfigIInv'
  <2>1. CASE \E r \in Requests : TakeRequest(w, r)
    BY <2>1, TakeRequestStep
  <2>2. CASE PutGain(w) \/ PutDevice(w) \/ ReadBt(w) \/ ApplyBt(w) \/ CopyBt(w)
    BY <2>2, PutGainStep, PutDeviceStep, ReadBtStep, ApplyBtStep, CopyBtStep
  <2>3. CASE SaveBase(w) \/ SaveGather(w) \/ SaveStore(w) \/ SaveReplace(w) \/ Reset(w)
    BY <2>3, SaveBaseStep, SaveGatherStep, SaveStoreStep, SaveReplaceStep, ResetStep
  <2>4. CASE ReadCount(w) \/ LoadInputs(w) \/ WriteInputs(w) \/ StoreInputs(w)
    BY <2>4, ReadCountStep, LoadInputsStep, WriteInputsStep, StoreInputsStep
  <2> QED BY <1>1, <2>1, <2>2, <2>3, <2>4
<1>2. CASE Restart
  BY <1>2, RestartStep
<1>3. CASE UNCHANGED configVars
  <2>1. UNCHANGED <<control, bt, config, file, layout, asked, delay, worker, latest, behind, undone>>
    BY <1>3 DEF configVars
  <2>2. HandlerTypes'
    BY <2>1 DEF ConfigIInv, HandlerTypes, SettingTypes, HandlerFits
  <2>3. ReadsFit'
    <3>1. Found' = Found
      BY <2>1 DEF Found, LoadedSettings
    <3> QED BY <2>1, <3>1 DEF ConfigIInv, ReadsFit, ReadFits, HandlerAt
  <2>4. DeviceIsKept' /\ BtSettingsAreKept' /\ CountIsKept'
    BY <2>1 DEF ConfigIInv, DeviceIsKept, BtSettingsAreKept, CountIsKept, HandlerAt
  <2> QED BY <2>2, <2>3, <2>4 DEF ConfigIInv
<1> QED BY <1>1, <1>2, <1>3 DEF ConfigNext

\* However many HTTP threads overlap: what each handler has read is what is still there when its
\* next step uses it, but for what the history says has changed since.
THEOREM SettingsAlways == ConfigSpec => []ConfigIInv
<1>1. ConfigInit => ConfigIInv
  BY SettingsStart
<1>2. ConfigIInv /\ [ConfigNext]_configVars => ConfigIInv'
  BY SettingsSteps
<1> QED BY <1>1, <1>2, PTL DEF ConfigSpec

\* However many HTTP threads there are, and whatever saves, failures and restarts come between: the
\* device, the Bluetooth settings and the count of inputs are as they were last set, in force, in
\* d_.config and in the file, but for those a handler put back that had read them before; and
\* delay_m_ is held exactly by the handler that is using it.
THEOREM SettingsAreKept == ConfigSpec => []SettingsInv
<1>1. ConfigIInv => SettingsInv
  BY DEF ConfigIInv, HandlerTypes, SettingTypes, SettingsInv, ConfigTypeOK
<1> QED BY <1>1, SettingsAlways, PTL

\* The one step from "write inputs" to "store inputs".
LEMMA WritesInputs ==
  ASSUME ConfigIInv, ConfigNext, NEW w \in Workers,
         worker[w].pc = "write inputs", worker'[w].pc = "store inputs"
  PROVE  file' = [worker[w].read EXCEPT !["inputs"] = worker[w].req.value]
<1>1. worker \in [Workers -> Handlers] /\ Resting.pc = "idle"
  BY RestFits DEF ConfigIInv, HandlerTypes
<1>2. ASSUME NEW v \in Workers, v # w, NEW h, worker' = [worker EXCEPT ![v] = h]
      PROVE  FALSE
  BY <1>1, <1>2
<1>3. ~Restart
  BY <1>1 DEF Restart
<1>4. ASSUME NEW v \in Workers,
             \/ \E r \in Requests : TakeRequest(v, r)
             \/ PutGain(v) \/ PutDevice(v) \/ ReadBt(v) \/ ApplyBt(v) \/ CopyBt(v)
             \/ SaveBase(v) \/ SaveGather(v) \/ SaveStore(v) \/ SaveReplace(v) \/ Reset(v)
             \/ ReadCount(v) \/ LoadInputs(v) \/ WriteInputs(v) \/ StoreInputs(v)
      PROVE  WriteInputs(v) /\ v = w
  <2>1. CASE v = w
    BY <1>4, <2>1, SettingsAre DEF TakeRequest, PutGain, PutDevice, ReadBt, ApplyBt, CopyBt, SaveBase,
         SaveGather, SaveStore, SaveReplace, Reset, ReadCount, LoadInputs, StoreInputs, HandlerAt
  <2>2. CASE v # w
    BY <1>1, <1>4, <2>2 DEF TakeRequest, PutGain, PutDevice, ReadBt, ApplyBt, CopyBt, SaveBase,
         SaveGather, SaveStore, SaveReplace, Reset, ReadCount, LoadInputs, WriteInputs, StoreInputs,
         GoesTo, Reads, Answers
  <2> QED BY <2>1, <2>2
<1>5. WriteInputs(w)
  BY <1>3, <1>4 DEF ConfigNext
<1> QED BY <1>1, <1>5 DEF WriteInputs, Answers

LEMMA InputsStep ==
  ASSUME ConfigIInv, [ConfigNext]_configVars
  PROVE  [\A w \in Workers : HandlerAt(w, "write inputs") /\ HandlerAt(w, "store inputs")' =>
            \A s \in Settings \ {"inputs"} :
              \/ file'[s] = LoadedSettings[s] \/ s \in behind[w]
              \/ s = "gain" /\ LosesGain(LoadedSettings, layout)]_configVars
<1> SUFFICES ASSUME ConfigNext, NEW w \in Workers,
                    worker[w].pc = "write inputs", worker'[w].pc = "store inputs",
                    NEW s \in Settings \ {"inputs"}, s \notin behind[w],
                    s # "gain" \/ ~LosesGain(LoadedSettings, layout)
             PROVE  file'[s] = LoadedSettings[s]
  BY DEF HandlerAt
<1>1. HandlerTypes /\ SettingTypes /\ ReadsFit
  BY DEF ConfigIInv, HandlerTypes
<1>2. file' = [worker[w].read EXCEPT !["inputs"] = worker[w].req.value]
  BY WritesInputs
<1>3. worker[w].read \in SavedSettings
  BY <1>1, HolderIs
<1>4. s \in InFile \ {"columns"} /\ s # "inputs" /\ "inputs" \in InFile
  BY SettingsAre
<1>5. file'[s] = worker[w].read[s]
  BY <1>2, <1>3, <1>4 DEF SavedSettings
<1>6. worker[w].read[s] = Found[s]
  BY <1>1, <1>4 DEF ReadsFit, ReadFits, HandlerAt
<1>7. Found[s] = LoadedSettings[s]
  <2>1. LoadedSettings \in SavedSettings /\ layout \in Values
    BY <1>1, LoadedIsWhole DEF SettingTypes
  <2>2. /\ \A t \in InFile \ {"columns", "gain"} : Remapped(LoadedSettings, layout)[t] = LoadedSettings[t]
        /\ LosesGain(LoadedSettings, layout)
             \/ Remapped(LoadedSettings, layout)["gain"] = LoadedSettings["gain"]
    BY <2>1, RemappedIs
  <2> QED BY <1>4, <2>2 DEF Found
<1> QED BY <1>5, <1>6, <1>7

\* However many HTTP threads there are, PUT /api/net changes nothing of the saved file but the count
\* of inputs, the columns with what one of the layouts lacks, and what was saved while it held the
\* file it had loaded.
THEOREM CountAlone == ConfigSpec => OnlyInputsChange
<1>1. ConfigIInv /\ [ConfigNext]_configVars
        => [\A w \in Workers : HandlerAt(w, "write inputs") /\ HandlerAt(w, "store inputs")' =>
              \A s \in Settings \ {"inputs"} :
                \/ file'[s] = LoadedSettings[s] \/ s \in behind[w]
                \/ s = "gain" /\ LosesGain(LoadedSettings, layout)]_configVars
  BY InputsStep
<1> QED BY <1>1, SettingsAlways, PTL DEF ConfigSpec, OnlyInputsChange
=============================================================================
