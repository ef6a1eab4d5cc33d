--------------------------- MODULE RootfsInstall ---------------------------
(***************************************************************************)
(* How a rootfs comes to be and how a session group starts on it: the      *)
(* extraction of an archive with its ready marker, the scan with which the *)
(* first opener of the ownership store adopts, drops and widens what it    *)
(* finds on disk, and the account and home directory of the virtual user.  *)
(* Every step may fail or be killed, and the power may fail.               *)
(*                                                                         *)
(* One process at a time, an extraction or a session's tracer, which is    *)
(* the first opener (SessionGroup has the others).  The table, the journal *)
(* and the snapshot are what they promise (OwnershipStore): recs is the    *)
(* table, log what a recovery finds, durable what a power failure leaves.  *)
(* Modes are "rw", or "ro" for those the scan widens on disk; a file's     *)
(* text is a set of lines.  Contents lost in a power failure are left out. *)
(***************************************************************************)
EXTENDS Integers, Sequences

CONSTANTS
  Archive,            (* sequence of [path, uid, mode, text]               *)
  Dirs,               (* which of the paths are directories                *)
  Account, New, Home, (* etc/passwd, its .andlify-new, home/user           *)
  Inodes, Births, None, (* inode numbers, birth times (0: not known)       *)
  Faults,             (* which calls may fail: "marker", "read"            *)
  MaxStarts, MaxKills, MaxLosses, MaxOthers (* bounds                      *)

Paths == {Archive[n].path : n \in DOMAIN Archive} \cup {Account, New, Home}
Modes == {"ro", "rw"}
Text  == (UNION {Archive[n].text : n \in DOMAIN Archive}) \cup {"user"}
Files == [ino : Inodes, born : Births, mode : Modes, text : SUBSET Text,
          by : {"archive", "session", "host"}]
Owner == [uid : Nat, mode : Modes, born : Births \cup {0}]
Entry == [path : Paths, uid : Nat, mode : Modes, text : SUBSET Text]

ASSUME InstallPathsAssumption ==
  /\ Account \notin {New, Home} /\ New # Home
  /\ Archive \in Seq(Entry)
ASSUME InstallBoundsAssumption ==
  /\ Inodes \subseteq Nat /\ Births \subseteq Nat \ {0}
  /\ None \notin Paths \cup Files \cup Owner
  /\ {MaxStarts, MaxKills, MaxLosses, MaxOthers} \subseteq Nat

VARIABLES
  disk,               (* of each path: None or a file                      *)
  marker, tar,        (* the ready marker; the decompressed archive        *)
  recs, log, durable, (* of each inode: None or an owner                   *)
  births, flaky,      (* statx has birth times; they come and go           *)
  job, pc,            (* extraction or session, and its next step          *)
  rest,               (* archive entries to come                           *)
  todo, live, at,     (* Scan: paths to visit, owners adopted, a directory *)
  wide,               (* Scan: files to widen                              *)
  starts, kills, losses, others

store == <<recs, log, durable>>
scan  == <<todo, live, at, wide>>
env   == <<births, flaky>>
bounds == <<starts, kills, losses, others>>
vars  == <<disk, marker, tar, store, env, job, pc, rest, scan, bounds>>

Exists(p) == disk[p] # None
Here    == {p \in Paths : Exists(p)}
NoOwners == [i \in Inodes |-> None]
Nobody  == [p \in Paths |-> None]

(* The birth of a new file: the least that no file and no record has.      *)
FreshBirths ==
  LET unused == {b \in Births :
        /\ \A p \in Here : disk[p].born # b
        /\ \A i \in Inodes, t \in {recs, log, durable} : t[i] # None => t[i].born # b}
  IN {b \in unused : \A c \in unused : b <= c}

File(i, b, mode, text, by) ==
  [ino |-> i, born |-> b, mode |-> mode, text |-> text, by |-> by]

(* The inode number of a new file p: any free one that has a record, or,   *)
(* as it does not matter which, the least of the others.                   *)
FreeInodes(p) ==
  LET free     == Inodes \ {disk[q].ino : q \in Here \ {p}}
      recorded == {i \in free : \E t \in {recs, log, durable} : t[i] # None}
  IN recorded \cup {i \in free \ recorded : \A j \in free \ recorded : i <= j}

(* Identify: what a file is without a record.  Born 0: statx cannot tell.  *)
Identify(p) ==
  [uid |-> 0, mode |-> disk[p].mode, born |-> IF births THEN disk[p].born ELSE 0]

(* Mutant: births are not compared.                                        *)
AdoptedByNumber(p, t) ==
  IF t[disk[p].ino] # None THEN t[disk[p].ino] ELSE Identify(p)

(* What Scan makes of a file and the record t has of its inode.            *)
Adopted(p, t) ==
  LET current == Identify(p)
      saved   == t[disk[p].ino]
  IN IF saved # None /\ (saved.born = 0 \/ current.born \in {0, saved.born})
     THEN [uid |-> saved.uid, mode |-> saved.mode,
           born |-> IF current.born = 0 THEN saved.born ELSE current.born]
     ELSE current

Init ==
  /\ disk = Nobody /\ marker = FALSE /\ tar = FALSE
  /\ recs = NoOwners /\ log = NoOwners /\ durable = NoOwners
  /\ births \in BOOLEAN /\ flaky \in BOOLEAN /\ (births \/ flaky)
  /\ job = "none" /\ pc = "idle" /\ rest = << >>
  /\ todo = {} /\ live = Nobody /\ at = None /\ wide = {}
  /\ starts = MaxStarts /\ kills = MaxKills /\ losses = MaxLosses /\ others = MaxOthers

-----------------------------------------------------------------------------
(* The process ends, and with it the table.                                *)
Over ==
  /\ job' = "none" /\ pc' = "idle" /\ rest' = << >>
  /\ recs' = NoOwners
  /\ todo' = {} /\ live' = Nobody /\ at' = None /\ wide' = {}

Goto(step) == pc' = step /\ UNCHANGED <<job, env, bounds>>

(* A call fails: the function returns false, at once.                      *)
Fail ==
  /\ pc \notin {"idle", "run"}
  /\ Over
  /\ tar' = (tar /\ pc \notin {"unpack", "entries"})
  /\ UNCHANGED <<disk, marker, log, durable, env, bounds>>

-----------------------------------------------------------------------------
(* Set and Checkpoint                                                      *)

Set(i, owner, sync) ==
  /\ recs' = [recs EXCEPT ![i] = owner]
  /\ log' = [log EXCEPT ![i] = owner]
  /\ durable' = IF sync THEN log' ELSE durable

Checkpoint(t) == recs' = t /\ log' = t /\ durable' = t

-----------------------------------------------------------------------------
(* ExtractRootfs                                                           *)

Extract ==
  /\ pc = "idle" /\ starts > 0
  /\ starts' = starts - 1
  /\ job' = "extract" /\ pc' = "unmark"
  /\ UNCHANGED <<disk, marker, tar, store, env, rest, scan, kills, losses, others>>

RemoveMarker ==
  /\ pc = "unmark"
  /\ marker' \in {FALSE} \cup (IF "marker" \in Faults THEN {marker} ELSE {})
  /\ Goto("unpack")
  /\ UNCHANGED <<disk, tar, store, rest, scan>>

Decompress ==
  /\ pc = "unpack"
  /\ tar' = TRUE
  /\ rest' = Archive
  /\ Goto("entries")
  /\ UNCHANGED <<disk, marker, store, scan>>

(* The contents are copied only after a header that was written cleanly.   *)
Copied(e) == {e.text, {}}

(* An entry takes the place of what had its name, a directory keeps its    *)
(* inode.  A header that cannot be written is logged, and the file may stay*)
(* as it was.                                                              *)
WriteEntry ==
  /\ pc = "entries" /\ rest # << >>
  /\ LET e == Head(rest) IN
       \/ UNCHANGED disk
       \/ /\ e.path \in Dirs /\ Exists(e.path)
          /\ disk' = [disk EXCEPT ![e.path].mode = e.mode, ![e.path].by = "archive"]
       \/ \E i \in FreeInodes(e.path), b \in FreshBirths, text \in Copied(e) :
            /\ e.path \in Dirs => ~Exists(e.path)
            /\ disk' = [disk EXCEPT ![e.path] = File(i, b, e.mode, text, "archive")]
  /\ rest' = Tail(rest)
  /\ Goto("entries")
  /\ UNCHANGED <<marker, tar, store, scan>>

(* Mutant: the decompressed archive stays.                                 *)
KeepTar ==
  /\ pc = "entries" /\ rest = << >>
  /\ rest' = Archive
  /\ Goto("open")
  /\ UNCHANGED <<disk, marker, tar, store, scan>>

CloseArchive ==
  /\ pc = "entries" /\ rest = << >>
  /\ tar' = FALSE
  /\ rest' = Archive
  /\ Goto("open")
  /\ UNCHANGED <<disk, marker, store, scan>>

(* Each entry's archived owner and mode, synchronized by the checkpoint.   *)
RecordEntry ==
  /\ pc = "own" /\ rest # << >>
  /\ LET e == Head(rest) IN
       /\ Exists(e.path)
       /\ Set(disk[e.path].ino,
              [Identify(e.path) EXCEPT !.uid = e.uid, !.mode = e.mode], FALSE)
  /\ rest' = Tail(rest)
  /\ Goto("own")
  /\ UNCHANGED <<disk, marker, tar, scan>>

(* Mutant: there is no checkpoint.                                         *)
NoCheckpoint ==
  /\ pc = "own" /\ rest = << >>
  /\ Goto("mark")
  /\ UNCHANGED <<disk, marker, tar, store, rest, scan>>

CheckpointEntries ==
  /\ pc = "own" /\ rest = << >>
  /\ Checkpoint(recs)
  /\ Goto("mark")
  /\ UNCHANGED <<disk, marker, tar, rest, scan>>

(* Also a write that fails leaves a marker.                                *)
WriteMarker ==
  /\ pc = "mark"
  /\ marker' = TRUE
  /\ Over
  /\ UNCHANGED <<disk, tar, log, durable, env, bounds>>

-----------------------------------------------------------------------------
(* The first opener: Replay, Scan                                          *)

(* A session starts on a rootfs with a marker.                             *)
StartSession ==
  /\ pc = "idle" /\ starts > 0 /\ marker
  /\ starts' = starts - 1
  /\ job' = "session" /\ pc' = "open"
  /\ UNCHANGED <<disk, marker, tar, store, env, rest, scan, kills, losses, others>>

Replay ==
  /\ pc = "open"
  /\ recs' = log
  /\ todo' = Here
  /\ Goto("scan")
  /\ UNCHANGED <<disk, marker, tar, log, durable, rest, live, at, wide>>

(* Mutant: a directory is widened without a record of its mode.            *)
WidenUnrecorded(p) ==
  /\ pc = "scan" /\ p \in todo
  /\ p \in Dirs /\ disk[p].mode = "ro"
  /\ live' = [live EXCEPT ![p] = Adopted(p, recs)]
  /\ at' = p
  /\ Goto("widen dir")
  /\ UNCHANGED <<disk, marker, tar, store, rest, todo, wide>>

RecordDirectory(p) ==
  /\ pc = "scan" /\ p \in todo
  /\ p \in Dirs /\ disk[p].mode = "ro"
  /\ live' = [live EXCEPT ![p] = Adopted(p, recs)]
  /\ Set(disk[p].ino, Adopted(p, recs), TRUE)
  /\ at' = p
  /\ Goto("widen dir")
  /\ UNCHANGED <<disk, marker, tar, rest, todo, wide>>

WidenDirectory ==
  /\ pc = "widen dir"
  /\ disk' = [disk EXCEPT ![at].mode = "rw"]
  /\ todo' = todo \ {at} /\ at' = None
  /\ Goto("scan")
  /\ UNCHANGED <<marker, tar, store, rest, live, wide>>

Visit(p) ==
  /\ pc = "scan" /\ p \in todo
  /\ ~(p \in Dirs /\ disk[p].mode = "ro")
  /\ live' = [live EXCEPT ![p] = Adopted(p, recs)]
  /\ wide' = IF disk[p].mode = "ro" THEN wide \cup {p} ELSE wide
  /\ todo' = todo \ {p}
  /\ Goto("scan")
  /\ UNCHANGED <<disk, marker, tar, store, rest, at>>

(* The table becomes what was found, and the snapshot.                     *)
Publish ==
  /\ pc = "scan" /\ todo = {}
  /\ Checkpoint([i \in Inodes |->
       IF \E p \in Here : disk[p].ino = i
       THEN live[CHOOSE p \in Here : disk[p].ino = i] ELSE None])
  /\ Goto("widen")
  /\ UNCHANGED <<disk, marker, tar, rest, scan>>

WidenFile(p) ==
  /\ pc = "widen" /\ p \in wide
  /\ disk' = [disk EXCEPT ![p].mode = "rw"]
  /\ wide' = wide \ {p}
  /\ Goto("widen")
  /\ UNCHANGED <<marker, tar, store, rest, todo, live, at>>

Scanned ==
  /\ pc = "widen" /\ wide = {}
  /\ Goto(IF job = "session" THEN "account" ELSE "own")
  /\ live' = Nobody
  /\ UNCHANGED <<disk, marker, tar, store, rest, todo, at, wide>>

-----------------------------------------------------------------------------
(* PrepareUser: the account, one file of four that are treated alike       *)

(* The lines read; a read error is taken for the end.                      *)
Lines == IF Exists(Account) THEN disk[Account].text ELSE {}
Read(lines) == lines = Lines \/ ("read" \in Faults /\ lines = {})

(* A temporary, perhaps one that a killed session left, is truncated.      *)
Stage ==
  /\ pc = "account" /\ "user" \notin Lines
  /\ \/ Exists(New) /\ disk' = [disk EXCEPT ![New].text = {}, ![New].by = "session"]
     \/ /\ ~Exists(New)
        /\ \E i \in FreeInodes(New), b \in FreshBirths :
             disk' = [disk EXCEPT ![New] = File(i, b, "rw", {}, "session")]
  /\ Goto("fill")
  /\ UNCHANGED <<marker, tar, store, rest, scan>>

Found ==
  /\ pc = "account" /\ "user" \in Lines
  /\ Goto("home")
  /\ UNCHANGED <<disk, marker, tar, store, rest, scan>>

(* Mutant: the new line is all that is written.                            *)
FillLine ==
  /\ pc = "fill"
  /\ disk' = [disk EXCEPT ![New].text = {"user"}]
  /\ Goto("own new")
  /\ UNCHANGED <<marker, tar, store, rest, scan>>

Fill ==
  /\ pc = "fill"
  /\ \E lines \in SUBSET Lines :
       Read(lines) /\ disk' = [disk EXCEPT ![New].text = lines \cup {"user"}]
  /\ Goto("own new")
  /\ UNCHANGED <<marker, tar, store, rest, scan>>

(* SetPath records, synchronizes and then changes the mode on disk.        *)
SetPath(p, uid) == Set(disk[p].ino, [Identify(p) EXCEPT !.uid = uid, !.mode = "rw"], TRUE)

OwnNew ==
  /\ pc = "own new"
  /\ SetPath(New, 0)
  /\ Goto("rename")
  /\ UNCHANGED <<disk, marker, tar, rest, scan>>

RenameNew ==
  /\ pc = "rename"
  /\ disk' = [disk EXCEPT ![Account] = [disk[New] EXCEPT !.mode = "rw"], ![New] = None]
  /\ Goto("home")
  /\ UNCHANGED <<marker, tar, store, rest, scan>>

MakeHome ==
  /\ pc = "home"
  /\ \/ Exists(Home) /\ UNCHANGED disk
     \/ /\ ~Exists(Home)
        /\ \E i \in FreeInodes(Home), b \in FreshBirths :
             disk' = [disk EXCEPT ![Home] = File(i, b, "rw", {}, "session")]
  /\ Goto("own home")
  /\ UNCHANGED <<marker, tar, store, rest, scan>>

OwnHome ==
  /\ pc = "own home"
  /\ SetPath(Home, 1000)
  /\ Goto("checkpoint")
  /\ UNCHANGED <<disk, marker, tar, rest, scan>>

Started ==
  /\ pc = "checkpoint"
  /\ Checkpoint(recs)
  /\ Goto("run")
  /\ UNCHANGED <<disk, marker, tar, rest, scan>>

EndSession ==
  /\ pc = "run"
  /\ Over
  /\ UNCHANGED <<disk, marker, tar, log, durable, env, bounds>>

-----------------------------------------------------------------------------
(* Kills, power failures, and what happens between the processes           *)

Kill ==
  /\ pc # "idle" /\ kills > 0 /\ kills' = kills - 1
  /\ Over
  /\ UNCHANGED <<disk, marker, tar, log, durable, env, starts, losses, others>>

(* Records, and a marker, that were not synchronized may be lost.          *)
PowerLoss ==
  /\ losses > 0 /\ losses' = losses - 1
  /\ Over
  /\ \E kept \in SUBSET {i \in Inodes : log[i] # durable[i]} :
       log' = [i \in Inodes |-> IF i \in kept THEN log[i] ELSE durable[i]]
  /\ durable' = log'
  /\ marker' \in {marker, FALSE}
  /\ UNCHANGED <<disk, tar, env, starts, kills, others>>

(* A file is deleted and made anew without the store.  Nobody may do this  *)
(* where birth times are not to be relied on.                              *)
Recreate(p) ==
  /\ pc = "idle" /\ others > 0 /\ others' = others - 1
  /\ ~flaky /\ p # New /\ Exists(p)
  /\ \E i \in FreeInodes(p), b \in FreshBirths, mode \in Modes :
       disk' = [disk EXCEPT ![p] = File(i, b, mode, disk[p].text, "host")]
  /\ UNCHANGED <<marker, tar, store, env, job, pc, rest, scan, starts, kills, losses>>

BirthsChange ==
  /\ pc = "idle" /\ others > 0 /\ others' = others - 1
  /\ flaky /\ births' = ~births
  /\ UNCHANGED <<disk, marker, tar, store, flaky, job, pc, rest, scan, starts, kills, losses>>

Rest ==
  /\ pc = "idle" /\ starts = 0
  /\ UNCHANGED vars

Next ==
  \/ Extract \/ RemoveMarker \/ Decompress \/ WriteEntry \/ CloseArchive
  \/ RecordEntry \/ CheckpointEntries \/ WriteMarker
  \/ StartSession \/ Replay \/ WidenDirectory \/ Publish \/ Scanned
  \/ \E p \in Paths : RecordDirectory(p) \/ Visit(p) \/ WidenFile(p) \/ Recreate(p)
  \/ Found \/ Stage \/ Fill \/ OwnNew \/ RenameNew \/ MakeHome \/ OwnHome
  \/ Started \/ EndSession
  \/ Fail \/ Kill \/ PowerLoss \/ BirthsChange \/ Rest

Spec == Init /\ [][Next]_vars

-----------------------------------------------------------------------------
Owners == [Inodes -> Owner \cup {None}]

(* Types.  The decompressed archive is there only while an extraction runs *)
(* or after one was interrupted, so never beside a marker.                 *)
TypeOK ==
  /\ disk \in [Paths -> Files \cup {None}] /\ live \in [Paths -> Owner \cup {None}]
  /\ \A p, q \in Here : p # q => disk[p].ino # disk[q].ino
  /\ recs \in Owners /\ log \in Owners /\ durable \in Owners
  /\ {marker, tar, births, flaky} \subseteq BOOLEAN /\ (marker => ~tar)
  /\ rest \in Seq(Entry) /\ todo \subseteq Here /\ wide \subseteq Here

(* While there is a ready marker, a recovery, and a power failure before   *)
(* it, leaves each extracted file the owner and the mode it has in the     *)
(* archive, whatever its mode on disk was widened to and however often     *)
(* sessions were started, killed or failed since.  The last of two entries *)
(* of one path counts; the user's home is the session's in any case.       *)
Owned(p, t) == LET o == Adopted(p, t) IN [uid |-> o.uid, mode |-> o.mode]
Last(n) == \A m \in DOMAIN Archive : Archive[m].path = Archive[n].path => m <= n
MarkerMeansOwned ==
  marker => \A n \in DOMAIN Archive :
    LET e == Archive[n] IN
      Last(n) /\ e.path \notin {New, Home} /\ Exists(e.path) /\ disk[e.path].by = "archive"
        => \A t \in {log, durable} : Owned(e.path, t) = [uid |-> e.uid, mode |-> e.mode]

(* No start changes what a file that it does not own itself will be taken  *)
(* for by the next start, recorded or not: a mode is never lost in being   *)
(* widened, by a kill or a power failure either.                           *)
Synced(p) == log[disk[p].ino] = durable[disk[p].ino]
ModePreserved ==
  [][\A p \in Paths :
       /\ Exists(p) /\ disk'[p] # None /\ pc # "own" /\ Synced(p) /\ births' = births
       /\ disk'[p].ino = disk[p].ino /\ disk'[p].born = disk[p].born
       /\ pc # "entries" /\ p \notin {New, Home}
       => Owned(p, log) = Owned(p, log)']_vars

(* When a session's programs run, every file has a record, and it is not   *)
(* that of an earlier file with the same inode number.                     *)
StartedMeansOwned ==
  pc = "run" => \A p \in Here :
    /\ recs[disk[p].ino] # None
    /\ ~flaky => recs[disk[p].ino].born = disk[p].born

(* The account file is never seen without lines it had.                    *)
AccountsKept ==
  [][Exists(Account) /\ pc # "entries"
       => disk'[Account] # None /\ disk[Account].text \subseteq disk'[Account].text]_vars
=============================================================================
