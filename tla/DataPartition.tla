----------------------------- MODULE DataPartition -----------------------------
(***************************************************************************)
(* What the device keeps across a power cut: config.json and the Bluetooth *)
(* pairings, written by ConfigStore (src/app/src/config.cpp) to an ext4    *)
(* partition that is read-only at rest, and read back by ConfigStore::load *)
(* and by the boot script (soundtester-bluetooth.sh).                      *)
(*                                                                         *)
(* The power may go at any step.  The journal commits directory changes in *)
(* order, so what the medium then holds is what a program saw at some      *)
(* moment since the last flush; a file or tree whose data was never synced *)
(* may be half of itself.                                                  *)
(***************************************************************************)
EXTENDS Integers

CONSTANTS
  Configs,   \* what may be saved as boot defaults
  Default,   \* the image's own defaults
  Absent,    \* no such file or directory
  Half,      \* one that was cut short
  MaxBonds,  \* bound: the changes to the set of paired devices
  MaxFaults, \* bound: the calls that fail
  MaxCuts,   \* bound: the power cuts
  MaxSaves   \* bound: the calls to save, reset and save_dir

\* A file or a tree that is there and whole: what is in it, and whether it was synced.
Files == [v : Configs \cup 0 .. MaxBonds, synced : BOOLEAN]

ASSUME DataAssumption ==
  /\ Default \notin Configs /\ Absent # Half
  /\ {Absent, Half} \cap Files = {} /\ Half \notin 0 .. MaxBonds
  /\ {MaxBonds, MaxFaults, MaxCuts, MaxSaves} \subseteq Nat

VARIABLES
  disk,    \* the directory as programs see it
  medium,  \* what the medium may hold: one state of the directory or another
  rw,      \* mounted read-write
  ram,     \* the partition did not mount: /data is a tmpfs
  bonds,   \* /var/lib/bluetooth, in RAM: the current set of pairings (0: none)
  op,      \* the call that holds write_m_, and how far it is
  told,    \* the settings that the last save or reset answered ok has promised
  acked,   \* what a boot may bring back: what was promised, and what was before
           \* where that may not be written out
  logged,  \* "data partition left writable!" was the last word of a call
  faults, cuts, saves

vars == <<disk, medium, rw, ram, bonds, op, told, acked, logged, faults, cuts, saves>>

Names == {"conf", "conf.tmp", "dir", "dir.new", "dir.old"}
Empty == [f \in Names |-> Absent]
Full(v, synced) == [v |-> v, synced |-> synced]

Idle == [kind |-> "none", pc |-> "idle", val |-> Default]

Init ==
  /\ disk = Empty /\ medium = {Empty}
  /\ rw = FALSE /\ ram = FALSE /\ bonds = 0 /\ op = Idle
  /\ told = Default /\ acked = [conf |-> {Default}, bonds |-> {0}] /\ logged = FALSE
  /\ faults = 0 /\ cuts = 0 /\ saves = 0

\* The directory changes, and the medium may follow, or not yet.
Change(d) == disk' = d /\ medium' = IF ram THEN medium ELSE medium \cup {d}
Flush == medium' = IF ram THEN medium ELSE {disk}
Set(f, x) == [disk EXCEPT ![f] = x]
Moved(from, to) == [disk EXCEPT ![to] = disk[from], ![from] = Absent]

At(kind, pc) == op.kind = kind /\ op.pc = pc
Goto(pc) == op' = [op EXCEPT !.pc = pc]

\* A call fails: the rest is skipped, and what was prepared goes.
Fails == faults < MaxFaults /\ faults' = faults + 1
GiveUp == Fails /\ Goto("drop") /\ UNCHANGED <<disk, medium>>

Rest == <<rw, ram, bonds, told, acked, logged, cuts, saves>>
Works == UNCHANGED <<Rest, faults>>

----------------------------------------------------------------------------
(* save(cfg), reset() and save_dir() begin: the lock, the check that the   *)
(* partition is real, the remount.                                         *)

\* Mutant: a tmpfs is taken for the partition.
AnyMountWillDo == TRUE

\* is_persistent()
Persistent == ~ram

Begin(kind, val) ==
  /\ op.pc = "idle" /\ saves < MaxSaves
  /\ saves' = saves + 1
  /\ IF kind = "reset" THEN disk["conf"] # Absent ELSE Persistent
  /\ \/ /\ rw' = TRUE /\ UNCHANGED faults
        /\ op' = [kind |-> kind, val |-> val,
                  pc |-> IF kind = "save" THEN "open" ELSE IF kind = "reset" THEN "unlink"
                         ELSE "clear"]
     \/ Fails /\ UNCHANGED <<op, rw>>
  /\ UNCHANGED <<disk, medium, ram, bonds, told, acked, logged, cuts>>

\* reset() where no config.json is seen: that is done, whatever /data is and
\* whether the last removal is written out or not.
ResetNothing ==
  /\ op.pc = "idle" /\ saves < MaxSaves
  /\ disk["conf"] = Absent
  /\ saves' = saves + 1
  /\ told' = Default
  /\ acked' = [acked EXCEPT !.conf = IF ram \/ medium # {disk} THEN @ \cup {Default}
                                    ELSE {Default}]
  /\ UNCHANGED <<disk, medium, rw, ram, bonds, op, logged, faults, cuts>>

----------------------------------------------------------------------------
(* save(): write beside, sync, rename, sync the directory.                 *)

SaveOpen ==
  /\ At("save", "open")
  /\ \/ Change(Set("conf.tmp", Half)) /\ Goto("write") /\ Works
     \/ GiveUp /\ UNCHANGED Rest

SaveWrite ==
  /\ At("save", "write")
  /\ \/ Change(Set("conf.tmp", Full(op.val, FALSE))) /\ Goto("sync") /\ Works
     \/ GiveUp /\ UNCHANGED Rest

\* Mutant: the file is not synced before it is published.
SaveNoSync ==
  /\ At("save", "sync")
  /\ Goto("rename") /\ Works
  /\ UNCHANGED <<disk, medium>>

SaveSync ==
  /\ At("save", "sync")
  /\ \/ Change(Set("conf.tmp", Full(op.val, TRUE))) /\ Goto("rename") /\ Works
     \/ GiveUp /\ UNCHANGED Rest

SaveRename ==
  /\ At("save", "rename")
  /\ \/ Change(Moved("conf.tmp", "conf")) /\ Goto("syncdir") /\ Works
     \/ GiveUp /\ UNCHANGED Rest

\* The result of this sync is not looked at; from here on the call succeeds.
SyncDir ==
  /\ op.pc = "syncdir"
  /\ Goto("done")
  /\ \/ Flush /\ Works
     \/ Fails /\ UNCHANGED <<medium, Rest>>
  /\ UNCHANGED disk

\* reset(): unlink.
ResetUnlink ==
  /\ At("reset", "unlink")
  /\ \/ Change(Set("conf", Absent)) /\ Goto("done") /\ Works
     \/ Fails /\ Goto("failed") /\ UNCHANGED <<disk, medium, Rest>>

----------------------------------------------------------------------------
(* save_dir(): copy beside, sync, and swap by two renames.                 *)

\* remove_all() of a tree is many steps; its errors are not looked at here.
Remove(f) ==
  LET cutShort == Set(f, IF disk[f] = Absent THEN Absent ELSE Half) IN
    \/ /\ disk' = Set(f, Absent)
       /\ medium' = IF ram THEN medium ELSE medium \cup {cutShort, disk'}
       /\ UNCHANGED faults
    \/ Fails /\ Change(cutShort)

DirClear ==
  /\ op.kind = "save_dir"
  /\ \/ op.pc = "clear" /\ Remove("dir.new") /\ Goto("clear old")
     \/ op.pc = "clear old" /\ Remove("dir.old") /\ Goto("copy")
  /\ UNCHANGED Rest

\* What BlueZ has in RAM when the copy ends.  Over a leftover that could not be
\* removed, the copy fails where a file is in the way, or is mixed with it.
DirCopy ==
  /\ At("save_dir", "copy")
  /\ \/ /\ disk["dir.new"] = Absent
        /\ disk' = Set("dir.new", Full(bonds, FALSE))
        /\ medium' = IF ram THEN medium ELSE medium \cup {Set("dir.new", Half), disk'}
        /\ op' = [op EXCEPT !.pc = "sync", !.val = bonds] /\ Works
     \/ /\ disk["dir.new"] # Absent
        /\ Goto("sync") \/ Goto("drop")
        /\ Works /\ UNCHANGED <<disk, medium>>
     \/ Fails /\ Change(Set("dir.new", Half)) /\ Goto("drop") /\ UNCHANGED Rest

\* Mutant: the copy is not synced before it is published.
DirNoSync ==
  /\ At("save_dir", "sync")
  /\ Goto("away") /\ Works
  /\ UNCHANGED <<disk, medium>>

DirSync ==
  /\ At("save_dir", "sync")
  /\ \/ /\ Change(Set("dir.new", IF disk["dir.new"] = Half THEN Half
                                ELSE Full(disk["dir.new"].v, TRUE)))
        /\ Goto("away") /\ Works
     \/ GiveUp /\ UNCHANGED Rest

\* A directory cannot be renamed over one that is not empty: a leftover of the
\* removal may be either.
DirMoveAway ==
  /\ At("save_dir", "away")
  /\ \/ disk["dir"] = Absent /\ Goto("in") /\ Works /\ UNCHANGED <<disk, medium>>
     \/ /\ disk["dir"] # Absent /\ disk["dir.old"] \in {Absent, Half}
        /\ Change(Moved("dir", "dir.old")) /\ Goto("in") /\ Works
     \/ disk["dir"] # Absent /\ disk["dir.old"] # Absent /\ Goto("drop") /\ Works
        /\ UNCHANGED <<disk, medium>>
     \/ GiveUp /\ UNCHANGED Rest

DirMoveIn ==
  /\ At("save_dir", "in")
  /\ \/ Change(Moved("dir.new", "dir")) /\ Goto("drop old") /\ Works
     \/ GiveUp /\ UNCHANGED Rest

DirDropOld ==
  /\ At("save_dir", "drop old")
  /\ Remove("dir.old") /\ Goto("syncdir")
  /\ UNCHANGED Rest

----------------------------------------------------------------------------
(* The end of a call.                                                      *)

\* if (!ok): what was prepared is removed.
Drop ==
  /\ op.pc = "drop"
  /\ Remove(IF op.kind = "save" THEN "conf.tmp" ELSE "dir.new")
  /\ Goto("failed")
  /\ UNCHANGED Rest

Promise == IF op.pc = "done" /\ op.kind # "save_dir" THEN op.val ELSE told

\* The answer.
Tell(flushed) ==
  /\ told' = Promise
  /\ acked' = [conf |-> IF flushed THEN {Promise} ELSE acked.conf \cup {Promise},
               bonds |-> IF op.pc = "failed" \/ op.kind # "save_dir" THEN acked.bonds
                         ELSE IF flushed THEN {op.val} ELSE acked.bonds \cup {op.val}]

\* Mutant: an error skips the remount.
EndNoRemount ==
  /\ op.pc \in {"done", "failed"}
  /\ op' = Idle
  /\ IF op.pc = "done" THEN rw' = FALSE /\ Flush ELSE UNCHANGED <<rw, medium>>
  /\ Tell(TRUE)
  /\ UNCHANGED <<disk, ram, bonds, logged, faults, cuts, saves>>

\* The remount to read-only writes out whatever is pending; if it fails, that
\* is only logged, and the caller is told the same.
End ==
  /\ op.pc \in {"done", "failed"}
  /\ op' = Idle
  /\ \/ rw' = FALSE /\ logged' = FALSE /\ Flush /\ Tell(TRUE) /\ UNCHANGED faults
     \/ Fails /\ logged' = TRUE /\ Tell(medium = {disk}) /\ UNCHANGED <<rw, medium>>
  /\ UNCHANGED <<disk, ram, bonds, cuts, saves>>

----------------------------------------------------------------------------
(* The world: phones pair, and the power goes.                             *)

Pair ==
  /\ bonds < MaxBonds
  /\ bonds' = bonds + 1
  /\ UNCHANGED <<disk, medium, rw, ram, op, told, acked, logged, faults, cuts, saves>>

\* What is left of a file or tree the medium has.
Left(x) == IF x \in {Absent, Half} THEN {x} ELSE IF x.synced THEN {x} ELSE {x, Half}

\* ConfigStore::load(): an unreadable file counts for none.
Loaded(x) == IF x \in {Absent, Half} THEN Default ELSE x.v

\* The boot script: cp -a of whatever directory is there.
Restored(x) == IF x = Absent THEN 0 ELSE IF x = Half THEN Half ELSE x.v

\* The power goes and comes back.  The partition may fail to mount: then
\* /data is an empty tmpfs for this boot.
PowerCut ==
  /\ cuts < MaxCuts
  /\ cuts' = cuts + 1
  /\ \E m \in medium, lost \in BOOLEAN :
     \E c \in Left(m["conf"]), d \in Left(m["dir"]) :
       LET now == [m EXCEPT !["conf"] = c, !["dir"] = d] IN
         /\ medium' = {now}
         /\ ram' = lost
         /\ disk' = IF lost THEN Empty ELSE now
         /\ bonds' = IF lost THEN 0 ELSE IF d = Half THEN 0 ELSE Restored(d)
         /\ told' = Loaded(c)
         /\ acked' = [conf |-> {Loaded(c)}, bonds |-> {Restored(d)}]
  /\ rw' = FALSE /\ logged' = FALSE
  /\ op' = Idle
  /\ UNCHANGED <<faults, saves>>

Next ==
  \/ \E c \in Configs : Begin("save", c)
  \/ Begin("reset", Default) \/ ResetNothing
  \/ Begin("save_dir", 0)
  \/ SaveOpen \/ SaveWrite \/ SaveSync \/ SaveRename \/ SyncDir \/ ResetUnlink
  \/ DirClear \/ DirCopy \/ DirSync \/ DirMoveAway \/ DirMoveIn \/ DirDropOld
  \/ Drop \/ End \/ Pair \/ PowerCut

Spec == Init /\ [][Next]_vars

----------------------------------------------------------------------------
(* Properties.                                                             *)

Contents == {Absent, Half} \cup Files

\* Types.
TypeOK ==
  /\ disk \in [Names -> Contents] /\ medium \subseteq [Names -> Contents]
  /\ {rw, ram, logged} \subseteq BOOLEAN
  /\ bonds \in 0 .. MaxBonds /\ acked.bonds \subseteq {Half} \cup 0 .. MaxBonds
  /\ op.kind \in {"none", "save", "reset", "save_dir"}
  /\ told \in Configs \cup {Default} /\ acked.conf \subseteq Configs \cup {Default}

\* Whatever the moment of a power cut, and even if a call of the save fails,
\* the settings a boot loads are the ones that the last save or reset answered
\* ok has promised, or the ones being saved: never half of a file (the
\* durability order save() keeps).  Older ones come back in two cases only: a
\* reset was answered on a tmpfs, or the log says that the partition was left
\* writable; and then they are the ones promised before.
ConfigSurvives ==
  \A m \in medium : \A c \in Left(m["conf"]) :
    \/ Loaded(c) = told
    \/ op.kind \in {"save", "reset"} /\ Loaded(c) = op.val
    \/ (ram \/ logged) /\ Loaded(c) \in acked.conf

\* As long as no call fails, no power cut leaves half of the pairings where the
\* boot script looks.
PairingsNeverHalf == faults = 0 => \A m \in medium : Half \notin Left(m["dir"])

\* Once save_dir() has said that the pairings are kept, and until it runs
\* again, every power cut brings back exactly those (if no call has failed).
PairingsKeptAtRest ==
  faults = 0 /\ op.kind # "save_dir" =>
    \A m \in medium : \A d \in Left(m["dir"]) : Restored(d) \in acked.bonds

\* Whichever step of a call fails, the partition is read-only again when it
\* returns, or the log says that it was left writable.
ReadOnlyAtRest == op.pc = "idle" /\ rw => logged

\* What the comment in save_dir() says: a power cut leaves either the old
\* pairings or the new ones.  The code does not keep it: see the README.
OldOrNewPairings ==
  \A m \in medium : \A d \in Left(m["dir"]) :
    \/ Restored(d) \in acked.bonds
    \/ op.kind = "save_dir" /\ Restored(d) = op.val

\* What docs/api.md says of a reset (:823): once it is answered ok, the next boot
\* uses the image defaults.  The code does not keep it: see the README.
ResetIsKept ==
  told = Default /\ op.kind = "none" =>
    \A m \in medium : \A c \in Left(m["conf"]) : Loaded(c) = Default

\* What holds of the disk besides its contents' newness: it is read-only between
\* calls unless the log says otherwise, and half of the pairings is never found.
DiskInv == TypeOK /\ ReadOnlyAtRest /\ PairingsNeverHalf
=============================================================================
