------------------------ MODULE RootfsInstallProofs ------------------------
(***************************************************************************)
(* Theorems about RootfsInstall, for every archive, set of paths that are  *)
(* directories, number of starts, kills, power failures and changes from   *)
(* outside.                                                                *)
(*                                                                         *)
(* IInv is inductive.  It says where the scan is: the files not left to do *)
(* have been adopted as Scan would adopt them again, a directory is        *)
(* widened under a record of its own, and from the end of the scan on      *)
(* every file has one, except the file a start has just made.  On top of   *)
(* it come the temporary of the account file (LinesInv), the marker        *)
(* (MarkerInv) and how far the archive's owners are recorded (OwnInv).     *)
(***************************************************************************)
EXTENDS RootfsInstall, TLAPS

(* What Scan makes of a file f with the record o of its inode, where births *)
(* are known (b) or not; o is the record of f, not of an earlier file.     *)
Adopt(f, b, o) ==
  IF o # None /\ (o.born = 0 \/ ~b \/ o.born = f.born)
  THEN [uid |-> o.uid, mode |-> o.mode, born |-> IF b THEN f.born ELSE o.born]
  ELSE [uid |-> 0, mode |-> f.mode, born |-> IF b THEN f.born ELSE 0]
Holds(f, b, o) == o # None /\ (b => o.born = f.born)
Taken(p, t) == Adopt(disk[p], births, t[disk[p].ino])
Held(p, t)  == Holds(disk[p], births, t[disk[p].ino])

(* The record o of the file f is the one of the archive's entry e.         *)
Marks(e, f, o) == o # None /\ o.uid = e.uid /\ o.mode = e.mode /\ o.born \in {0, f.born}
MarkedOn(n, d, t) ==
  LET e == Archive[n] IN
    Last(n) /\ e.path \notin {New, Home} /\ d[e.path] # None /\ d[e.path].by = "archive"
      => Marks(e, d[e.path], t[d[e.path].ino])
Marked(n, t) == MarkedOn(n, disk, t)

-----------------------------------------------------------------------------
(* Files have inode numbers of their own.                                  *)
DiskInv ==
  /\ disk \in [Paths -> Files \cup {None}]
  /\ \A p, q \in Here : p # q => disk[p].ino # disk[q].ino
StoreInv ==
  /\ recs \in Owners /\ log \in Owners /\ durable \in Owners
  /\ live \in [Paths -> Owner \cup {None}]
EnvInv ==
  /\ marker \in BOOLEAN /\ tar \in BOOLEAN /\ births \in BOOLEAN /\ flaky \in BOOLEAN
  /\ ~flaky => births

(* The steps of the two jobs; once the scan starts, the table is the log.  *)
Extracting == {"unmark", "unpack", "entries", "open", "scan", "widen dir", "widen", "own", "mark"}
Starting   == {"open", "scan", "widen dir", "widen", "account", "fill", "own new", "rename",
               "home", "own home", "checkpoint", "run"}
ControlInv ==
  /\ \/ job = "none" /\ pc = "idle"
     \/ job = "extract" /\ pc \in Extracting
     \/ job = "session" /\ pc \in Starting
  /\ pc \notin {"idle", "unmark", "unpack", "entries", "open"} => recs = log
  /\ rest \in Seq(Entry)

(* The scan, as far as it has come.                                        *)
Scanning == {"scan", "widen dir"}
ScanInv ==
  /\ todo \subseteq Here /\ (pc \notin Scanning => todo = {})
  /\ wide \subseteq Here /\ (pc \notin Scanning \cup {"widen"} => wide = {})
  /\ pc \in Scanning => \A p \in Here \ todo : live[p] = Taken(p, recs)
  /\ pc = "widen dir" => at \in todo /\ live[at] = Taken(at, recs) /\ Held(at, recs)

(* After the scan every file has a record of its own.                      *)
Recorded == {"widen", "account", "fill", "own new", "rename", "home", "own home",
             "checkpoint", "run"}
Pending  == CASE pc \in {"fill", "own new"} -> {New}
              [] pc = "own home" -> {Home}
              [] OTHER -> {}
HeldInv == pc \in Recorded => \A p \in Here \ Pending : Held(p, recs)

(* The files a start makes are there when it records them.                 *)
StageInv ==
  /\ pc \in {"fill", "own new", "rename"} => Exists(New) /\ disk[New].by = "session"
  /\ pc = "own home" => Exists(Home)

IInv == DiskInv /\ StoreInv /\ EnvInv /\ ControlInv /\ ScanInv /\ HeldInv /\ StageInv

(* The temporary has the lines of the account file.                        *)
LinesInv == pc \in {"own new", "rename"} => Lines \subseteq disk[New].text

(* No marker beside a decompressed archive, nor in an extraction.          *)
MarkerInv ==
  /\ marker => ~tar
  /\ job = "extract" /\ pc # "unmark" => ~marker
  /\ job = "extract" /\ pc \notin {"unmark", "unpack", "entries"} => ~tar

(* An extraction records its entries in the archive's order, so that the   *)
(* last of a path counts; when there is a marker all are recorded, in the  *)
(* log and, for a power failure, on disk.                                  *)
RestIsArchive == job = "extract" /\ pc \in {"open", "scan", "widen dir", "widen"} => rest = Archive
RecordsComing ==
  pc = "own" => \E done \in 0 .. Len(Archive) :
    /\ Len(rest) = Len(Archive) - done
    /\ \A j \in 1 .. Len(rest) : rest[j] = Archive[done + j]
    /\ \A n \in DOMAIN Archive : n <= done => Marked(n, log)
RecordsThere == marker \/ pc = "mark" => \A n \in DOMAIN Archive : Marked(n, log) /\ Marked(n, durable)
OwnInv == RestIsArchive /\ RecordsComing /\ RecordsThere

-----------------------------------------------------------------------------
(* What Scan makes of a file and a record.                                 *)

LEMMA AdoptOwner ==
  ASSUME NEW f \in Files, NEW b \in BOOLEAN, NEW o \in Owner \cup {None}
  PROVE  Adopt(f, b, o) \in Owner /\ Adopt(f, b, o) # None /\ Holds(f, b, Adopt(f, b, o))
BY InstallBoundsAssumption DEF Adopt, Holds, Files, Owner, Modes

(* Scanning twice is scanning once, whatever the mode is in between.       *)
LEMMA AdoptAgain ==
  ASSUME NEW f \in Files, NEW b \in BOOLEAN, NEW o \in Owner \cup {None}
  PROVE  Adopt(f, b, Adopt(f, b, o)) = Adopt(f, b, o)
BY InstallBoundsAssumption DEF Adopt, Files, Owner, Modes

LEMMA AdoptHeld ==
  ASSUME NEW f \in Files, NEW g \in Files, g.born = f.born,
         NEW b \in BOOLEAN, NEW o \in Owner \cup {None}, Holds(f, b, o)
  PROVE  Holds(g, b, o) /\ Adopt(g, b, o) = Adopt(f, b, o)
BY DEF Adopt, Holds, Files, Owner, Modes

(* The record of an entry is adopted as it is.                             *)
LEMMA AdoptMarks ==
  ASSUME NEW f \in Files, NEW b \in BOOLEAN, NEW o \in Owner \cup {None}, NEW e, Marks(e, f, o)
  PROVE  /\ Adopt(f, b, o).uid = e.uid /\ Adopt(f, b, o).mode = e.mode
         /\ Marks(e, f, Adopt(f, b, o))
<1>1. o \in Owner
  BY DEF Marks
<1>2. Adopt(f, b, o) = [uid |-> o.uid, mode |-> o.mode, born |-> IF b THEN f.born ELSE o.born]
  BY <1>1 DEF Marks, Adopt
<1>3. Adopt(f, b, o) # None
  BY AdoptOwner
<1>. QED
  BY <1>2, <1>3 DEF Marks

(* The model's Adopted is this Adopt.                                      *)
LEMMA AdoptedTaken ==
  ASSUME DiskInv, EnvInv, NEW p \in Here, NEW t \in Owners
  PROVE  /\ Adopted(p, t) = Taken(p, t)
         /\ disk[p] \in Files /\ disk[p].ino \in Inodes /\ t[disk[p].ino] \in Owner \cup {None}
         /\ Taken(p, t) \in Owner
<1>1. disk[p] \in Files /\ disk[p].ino \in Inodes
  BY DEF DiskInv, Here, Exists, Files
<1>2. t[disk[p].ino] \in Owner \cup {None}
  BY <1>1 DEF Owners
<1>3. Taken(p, t) \in Owner
  BY <1>1, <1>2, AdoptOwner DEF Taken, EnvInv
<1>4. Adopted(p, t) = Taken(p, t)
  <2>. DEFINE s == t[disk[p].ino]
  <2>1. disk[p].born \in Births /\ disk[p].born # 0
    BY <1>1, InstallBoundsAssumption DEF Files
  <2>. QED
    BY <1>1, <1>2, <2>1 DEF Adopted, Identify, Taken, Adopt, EnvInv
<1>. QED
  BY <1>1, <1>2, <1>3, <1>4

-----------------------------------------------------------------------------
(* Files on the disk.                                                      *)

(* A new file has an inode number of its own and a birth nothing else has. *)
LEMMA NewFile ==
  ASSUME DiskInv, NEW p \in Paths, NEW i \in FreeInodes(p), NEW b \in FreshBirths,
         NEW mode \in Modes, NEW text \in SUBSET Text, NEW by \in {"archive", "session", "host"},
         disk' = [disk EXCEPT ![p] = File(i, b, mode, text, by)]
  PROVE  /\ DiskInv'
         /\ disk'[p] = File(i, b, mode, text, by) /\ disk'[p] \in Files
         /\ \A q \in Paths : q # p => disk'[q] = disk[q]
         /\ Here' = Here \cup {p}
         /\ p \in Here => disk[p].born # b
<1>1. i \in Inodes /\ \A q \in Here : q # p => disk[q].ino # i
  BY DEF FreeInodes
<1>2. b \in Births /\ \A q \in Here : disk[q].born # b
  BY DEF FreshBirths
<1>3. File(i, b, mode, text, by) \in Files /\ File(i, b, mode, text, by).ino = i
  BY <1>1, <1>2 DEF File, Files
<1>4. File(i, b, mode, text, by) # None
  BY <1>3, InstallBoundsAssumption
<1>5. /\ disk' \in [Paths -> Files \cup {None}]
      /\ disk'[p] = File(i, b, mode, text, by)
      /\ \A q \in Paths : q # p => disk'[q] = disk[q]
  BY <1>3 DEF DiskInv
<1>6. Here' = Here \cup {p}
  BY <1>4, <1>5 DEF Here, Exists
<1>7. ASSUME NEW q \in Here', NEW r \in Here', q # r
      PROVE  disk'[q].ino # disk'[r].ino
  BY <1>1, <1>3, <1>5, <1>6, <1>7 DEF DiskInv, Here
<1>. QED
  BY <1>2, <1>3, <1>5, <1>6, <1>7 DEF DiskInv

(* A file that changes without its inode number stays apart from the rest. *)
LEMMA SameFile ==
  ASSUME DiskInv, NEW p \in Here, NEW f \in Files, f.ino = disk[p].ino,
         disk' = [disk EXCEPT ![p] = f]
  PROVE  /\ DiskInv' /\ disk'[p] = f /\ Here' = Here
         /\ \A q \in Paths : q # p => disk'[q] = disk[q]
<1>1. p \in Paths /\ f # None
  BY InstallBoundsAssumption DEF Here
<1>2. /\ disk' \in [Paths -> Files \cup {None}] /\ disk'[p] = f
      /\ \A q \in Paths : q # p => disk'[q] = disk[q]
  BY <1>1 DEF DiskInv
<1>3. Here' = Here
  BY <1>1, <1>2 DEF Here, Exists
<1>4. ASSUME NEW q \in Here', NEW r \in Here', q # r
      PROVE  disk'[q].ino # disk'[r].ino
  BY <1>2, <1>3, <1>4 DEF DiskInv, Here
<1>. QED
  BY <1>2, <1>3, <1>4 DEF DiskInv

(* A change of the mode alone.                                             *)
LEMMA Widened ==
  ASSUME DiskInv, NEW p \in Here, disk' = [disk EXCEPT ![p].mode = "rw"]
  PROVE  /\ DiskInv' /\ Here' = Here
         /\ \A q \in Paths : q # p => disk'[q] = disk[q]
         /\ disk'[p] \in Files /\ disk'[p].ino = disk[p].ino /\ disk'[p].born = disk[p].born
         /\ disk'[p].text = disk[p].text /\ disk'[p].by = disk[p].by
<1>1. disk[p] \in Files
  BY DEF DiskInv, Here, Exists
<1>2. PICK f : f = [disk[p] EXCEPT !.mode = "rw"]
  OBVIOUS
<1>3. /\ f \in Files /\ f.ino = disk[p].ino /\ f.born = disk[p].born
      /\ f.text = disk[p].text /\ f.by = disk[p].by
  BY <1>1, <1>2 DEF Files, Modes
<1>4. disk' = [disk EXCEPT ![p] = f]
  BY <1>2
<1>. QED
  BY <1>3, <1>4, SameFile

-----------------------------------------------------------------------------
(* Set changes one record of the table and of the log.                     *)
LEMMA SetOne ==
  ASSUME StoreInv, NEW i \in Inodes, NEW o \in Owner, NEW sync \in BOOLEAN,
         recs = log, Set(i, o, sync)
  PROVE  /\ recs' \in Owners /\ log' \in Owners /\ durable' \in Owners /\ recs' = log'
         /\ recs'[i] = o /\ \A j \in Inodes : j # i => recs'[j] = recs[j]
<1>1. recs' = [recs EXCEPT ![i] = o] /\ log' = [log EXCEPT ![i] = o]
  BY DEF Set
<1>2. recs' \in Owners /\ recs'[i] = o /\ \A j \in Inodes : j # i => recs'[j] = recs[j]
  BY <1>1 DEF StoreInv, Owners
<1>3. log' = recs'
  BY <1>1
<1>4. durable' \in Owners
  BY <1>2, <1>3 DEF Set, StoreInv
<1>. QED
  BY <1>2, <1>3, <1>4

-----------------------------------------------------------------------------
(* The strengthening of the invariants: it holds at first, and every       *)
(* action keeps it.                                                        *)

LEMMA InitInv == ASSUME Init PROVE IInv
<1>1. Here = {}
  BY DEF Init, Here, Exists, Nobody
<1>2. DiskInv
  BY <1>1 DEF Init, DiskInv, Nobody
<1>3. StoreInv
  BY DEF Init, StoreInv, Owners, NoOwners, Nobody
<1>4. EnvInv
  BY DEF Init, EnvInv
<1>5. ControlInv
  BY DEF Init, ControlInv
<1>6. ScanInv
  BY DEF Init, ScanInv, Scanning
<1>7. HeldInv /\ StageInv
  BY DEF Init, HeldInv, Recorded, StageInv
<1>. QED
  BY <1>2, <1>3, <1>4, <1>5, <1>6, <1>7 DEF IInv

(* The end of a process, however it comes.                                 *)
LEMMA OverStep ==
  ASSUME IInv, Over, disk' = disk, log' \in Owners, durable' \in Owners,
         marker' \in BOOLEAN, tar' \in BOOLEAN, env' = env
  PROVE  IInv'
<1>1. DiskInv'
  BY DEF IInv, DiskInv, Here, Exists
<1>2. StoreInv'
  BY DEF Over, StoreInv, Owners, NoOwners, Nobody
<1>3. EnvInv'
  BY DEF IInv, EnvInv, env
<1>4. ControlInv'
  BY DEF Over, ControlInv
<1>5. ScanInv'
  BY DEF Over, ScanInv, Scanning
<1>6. HeldInv' /\ StageInv'
  BY DEF Over, HeldInv, Recorded, StageInv
<1>. QED
  BY <1>1, <1>2, <1>3, <1>4, <1>5, <1>6 DEF IInv

LEMMA FailStep == ASSUME IInv, Fail PROVE IInv'
<1>1. Over /\ disk' = disk /\ log' = log /\ durable' = durable /\ marker' = marker /\ env' = env
  BY DEF Fail
<1>2. tar' \in BOOLEAN
  BY DEF Fail
<1>. QED
  BY <1>1, <1>2, OverStep DEF IInv, StoreInv, EnvInv

LEMMA WriteMarkerStep == ASSUME IInv, WriteMarker PROVE IInv'
BY OverStep DEF WriteMarker, IInv, StoreInv, EnvInv

LEMMA EndSessionStep == ASSUME IInv, EndSession PROVE IInv'
BY OverStep DEF EndSession, IInv, StoreInv, EnvInv

LEMMA KillStep == ASSUME IInv, Kill PROVE IInv'
BY OverStep DEF Kill, IInv, StoreInv, EnvInv

LEMMA PowerLossStep == ASSUME IInv, PowerLoss PROVE IInv'
<1>1. PICK kept \in SUBSET {i \in Inodes : log[i] # durable[i]} :
        log' = [i \in Inodes |-> IF i \in kept THEN log[i] ELSE durable[i]]
  BY DEF PowerLoss
<1>2. log' \in Owners
  BY <1>1 DEF IInv, StoreInv, Owners
<1>3. durable' \in Owners
  BY <1>2 DEF PowerLoss
<1>4. marker' \in BOOLEAN
  BY DEF PowerLoss, IInv, EnvInv
<1>. QED
  BY <1>2, <1>3, <1>4, OverStep DEF PowerLoss, IInv, EnvInv

-----------------------------------------------------------------------------
(* Steps that leave the files and the table alone.                         *)
LEMMA StillStep ==
  ASSUME IInv, UNCHANGED <<disk, store, env, scan>>, marker' \in BOOLEAN, tar' \in BOOLEAN,
         rest' \in Seq(Entry),
         \/ job' = "extract" /\ pc' \in {"unmark", "unpack", "entries", "open"}
         \/ job' = "session" /\ pc' = "open",
         pc \notin Scanning \cup {"widen"}
  PROVE  IInv'
<1>1. DiskInv'
  BY DEF IInv, DiskInv, Here, Exists
<1>2. StoreInv'
  BY DEF IInv, StoreInv, store, scan
<1>3. EnvInv'
  BY DEF IInv, EnvInv, env
<1>4. ControlInv'
  BY DEF ControlInv, Extracting, Starting
<1>5. ScanInv'
  BY DEF IInv, ScanInv, Scanning, scan, Here
<1>6. HeldInv' /\ StageInv'
  BY DEF HeldInv, Recorded, StageInv
<1>. QED
  BY <1>1, <1>2, <1>3, <1>4, <1>5, <1>6 DEF IInv

LEMMA ExtractStep == ASSUME IInv, Extract PROVE IInv'
BY StillStep DEF Extract, IInv, EnvInv, ControlInv, Scanning

LEMMA StartSessionStep == ASSUME IInv, StartSession PROVE IInv'
BY StillStep DEF StartSession, IInv, EnvInv, ControlInv, Scanning

LEMMA RemoveMarkerStep == ASSUME IInv, RemoveMarker PROVE IInv'
<1>1. job = "extract"
  BY DEF RemoveMarker, IInv, ControlInv, Starting
<1>2. marker' \in BOOLEAN
  BY DEF RemoveMarker, IInv, EnvInv
<1>. QED
  BY <1>1, <1>2, StillStep DEF RemoveMarker, Goto, IInv, EnvInv, ControlInv, Scanning

LEMMA DecompressStep == ASSUME IInv, Decompress PROVE IInv'
<1>1. job = "extract"
  BY DEF Decompress, IInv, ControlInv, Starting
<1>. QED
  BY <1>1, StillStep, InstallPathsAssumption DEF Decompress, Goto, IInv, EnvInv, Scanning

LEMMA CloseArchiveStep == ASSUME IInv, CloseArchive PROVE IInv'
<1>1. job = "extract"
  BY DEF CloseArchive, IInv, ControlInv, Starting
<1>. QED
  BY <1>1, StillStep, InstallPathsAssumption DEF CloseArchive, Goto, IInv, EnvInv, Scanning

-----------------------------------------------------------------------------
(* Steps outside a scan that change files, while no record counts.         *)
LEMMA LooseStep ==
  ASSUME IInv, DiskInv', pc' = pc, pc \in {"idle", "entries"}, EnvInv',
         UNCHANGED <<store, job, scan>>, rest' \in Seq(Entry)
  PROVE  IInv'
<1>1. StoreInv'
  BY DEF IInv, StoreInv, store, scan
<1>2. ControlInv'
  BY DEF IInv, ControlInv
<1>3. ScanInv'
  BY DEF IInv, ScanInv, Scanning, scan
<1>4. HeldInv' /\ StageInv'
  BY DEF HeldInv, Recorded, StageInv
<1>. QED
  BY <1>1, <1>2, <1>3, <1>4 DEF IInv

LEMMA WriteEntryStep == ASSUME IInv, WriteEntry PROVE IInv'
<1>1. PICK e : e = Head(rest)
  OBVIOUS
<1>2. e \in Entry /\ rest' \in Seq(Entry)
  BY <1>1 DEF WriteEntry, IInv, ControlInv
<1>3. e.path \in Paths /\ e.mode \in Modes /\ e.text \in SUBSET Text
  BY <1>2 DEF Entry
<1>4. DiskInv'
  <2>1. CASE disk' = disk
    BY <2>1 DEF IInv, DiskInv, Here, Exists
  <2>2. CASE /\ e.path \in Dirs /\ Exists(e.path)
             /\ disk' = [disk EXCEPT ![e.path].mode = e.mode, ![e.path].by = "archive"]
    <3>1. e.path \in Here /\ disk[e.path] \in Files
      BY <1>3, <2>2 DEF Here, IInv, DiskInv, Exists
    <3>2. PICK f : f = [disk[e.path] EXCEPT !.mode = e.mode, !.by = "archive"]
      OBVIOUS
    <3>3. f \in Files /\ f.ino = disk[e.path].ino
      BY <1>3, <3>1, <3>2 DEF Files
    <3>4. disk' = [disk EXCEPT ![e.path] = f]
      BY <1>3, <2>2, <3>1, <3>2 DEF IInv, DiskInv
    <3>. QED
      BY <3>1, <3>3, <3>4, SameFile DEF IInv
  <2>3. CASE \E i \in FreeInodes(e.path), b \in FreshBirths, text \in Copied(e) :
               disk' = [disk EXCEPT ![e.path] = File(i, b, e.mode, text, "archive")]
    <3>1. PICK i \in FreeInodes(e.path), b \in FreshBirths, text \in Copied(e) :
            disk' = [disk EXCEPT ![e.path] = File(i, b, e.mode, text, "archive")]
      BY <2>3
    <3>2. text \in SUBSET Text
      BY <1>3 DEF Copied
    <3>. QED
      BY <1>3, <3>1, <3>2, NewFile DEF IInv
  <2>. QED
    BY <1>1, <2>1, <2>2, <2>3 DEF WriteEntry
<1>5. EnvInv'
  BY DEF WriteEntry, Goto, env, IInv, EnvInv
<1>. QED
  BY <1>2, <1>4, <1>5, LooseStep DEF WriteEntry, Goto

LEMMA RecreateStep == ASSUME IInv, NEW p \in Paths, Recreate(p) PROVE IInv'
<1>1. PICK i \in FreeInodes(p), b \in FreshBirths, mode \in Modes :
        disk' = [disk EXCEPT ![p] = File(i, b, mode, disk[p].text, "host")]
  BY DEF Recreate
<1>2. disk[p].text \in SUBSET Text
  BY DEF Recreate, Exists, IInv, DiskInv, Files
<1>3. DiskInv'
  BY <1>1, <1>2, NewFile DEF IInv
<1>4. EnvInv'
  BY DEF Recreate, env, IInv, EnvInv
<1>. QED
  BY <1>3, <1>4, LooseStep DEF Recreate, IInv, ControlInv

LEMMA BirthsChangeStep == ASSUME IInv, BirthsChange PROVE IInv'
<1>1. DiskInv'
  BY DEF BirthsChange, IInv, DiskInv, Here, Exists
<1>2. EnvInv'
  BY DEF BirthsChange, IInv, EnvInv
<1>. QED
  BY <1>1, <1>2, LooseStep DEF BirthsChange, IInv, ControlInv

-----------------------------------------------------------------------------
(* The scan.                                                               *)

LEMMA ReplayStep == ASSUME IInv, Replay PROVE IInv'
<1>1. DiskInv' /\ Here' = Here
  BY DEF Replay, IInv, DiskInv, Here, Exists
<1>2. StoreInv'
  BY DEF Replay, IInv, StoreInv
<1>3. EnvInv'
  BY DEF Replay, Goto, env, IInv, EnvInv
<1>4. ControlInv'
  BY DEF Replay, Goto, IInv, ControlInv, Extracting, Starting
<1>5. ScanInv'
  BY <1>1 DEF Replay, Goto, IInv, ScanInv, Scanning
<1>6. HeldInv' /\ StageInv'
  BY DEF Replay, Goto, HeldInv, Recorded, StageInv
<1>. QED
  BY <1>1, <1>2, <1>3, <1>4, <1>5, <1>6 DEF IInv

LEMMA RecordDirectoryStep == ASSUME IInv, NEW p \in Paths, RecordDirectory(p) PROVE IInv'
<1>1. pc = "scan" /\ p \in todo /\ p \in Here /\ recs = log
  BY DEF RecordDirectory, IInv, ScanInv, ControlInv
<1>2. PICK o : o = Taken(p, recs)
  OBVIOUS
<1>3. /\ Adopted(p, recs) = o /\ o \in Owner
      /\ disk[p] \in Files /\ disk[p].ino \in Inodes /\ recs[disk[p].ino] \in Owner \cup {None}
  BY <1>1, <1>2, AdoptedTaken DEF IInv, StoreInv
<1>4. Set(disk[p].ino, o, TRUE) /\ live' = [live EXCEPT ![p] = o]
  BY <1>3 DEF RecordDirectory
<1>5. /\ recs' \in Owners /\ log' \in Owners /\ durable' \in Owners /\ recs' = log'
      /\ recs'[disk[p].ino] = o
      /\ \A j \in Inodes : j # disk[p].ino => recs'[j] = recs[j]
  BY <1>1, <1>3, <1>4, SetOne DEF IInv
<1>6. live' \in [Paths -> Owner \cup {None}] /\ live'[p] = o
      /\ \A q \in Paths : q # p => live'[q] = live[q]
  BY <1>3, <1>4 DEF IInv, StoreInv
<1>7. disk' = disk /\ births' = births /\ DiskInv' /\ Here' = Here
  BY DEF RecordDirectory, Goto, env, IInv, DiskInv, Here, Exists
<1>8. EnvInv'
  BY DEF RecordDirectory, Goto, env, IInv, EnvInv
<1>9. ControlInv'
  BY <1>5 DEF RecordDirectory, Goto, IInv, ControlInv, Extracting, Starting
<1>10. ScanInv'
  <2>1. Taken(p, recs)' = o /\ Held(p, recs)'
    <3>1. o = Adopt(disk[p], births, recs[disk[p].ino])
      BY <1>2 DEF Taken
    <3>2. Adopt(disk[p], births, o) = o /\ Holds(disk[p], births, o)
      BY <1>3, <3>1, AdoptAgain, AdoptOwner DEF IInv, EnvInv
    <3>. QED
      BY <1>5, <1>7, <3>2 DEF Taken, Held
  <2>2. ASSUME NEW q \in Here, q \notin todo
        PROVE  live'[q] = Taken(q, recs)'
    <3>1. q # p /\ q \in Paths /\ disk[q].ino # disk[p].ino /\ disk[q].ino \in Inodes
      BY <1>1, <2>2, AdoptedTaken DEF IInv, DiskInv, Here, StoreInv
    <3>2. live[q] = Taken(q, recs)
      BY <1>1, <2>2 DEF IInv, ScanInv, Scanning
    <3>. QED
      BY <1>5, <1>6, <1>7, <3>1, <3>2 DEF Taken
  <2>. QED
    BY <1>1, <1>6, <1>7, <2>1, <2>2 DEF RecordDirectory, Goto, IInv, ScanInv, Scanning
<1>11. HeldInv' /\ StageInv'
  BY DEF RecordDirectory, Goto, HeldInv, Recorded, StageInv
<1>. QED
  BY <1>5, <1>6, <1>7, <1>8, <1>9, <1>10, <1>11 DEF IInv, StoreInv

LEMMA WidenDirectoryStep == ASSUME IInv, WidenDirectory PROVE IInv'
<1>1. /\ pc = "widen dir" /\ at \in todo /\ at \in Here
      /\ live[at] = Taken(at, recs) /\ Held(at, recs)
  BY DEF WidenDirectory, IInv, ScanInv
<1>2. disk' = [disk EXCEPT ![at].mode = "rw"]
  BY DEF WidenDirectory
<1>3. /\ DiskInv' /\ Here' = Here
      /\ \A q \in Paths : q # at => disk'[q] = disk[q]
      /\ disk'[at] \in Files /\ disk'[at].ino = disk[at].ino /\ disk'[at].born = disk[at].born
  BY <1>1, <1>2, Widened DEF IInv
<1>4. StoreInv' /\ recs' = recs /\ live' = live
  BY DEF WidenDirectory, store, IInv, StoreInv
<1>5. EnvInv' /\ births' = births
  BY DEF WidenDirectory, Goto, env, IInv, EnvInv
<1>6. ControlInv'
  BY DEF WidenDirectory, Goto, store, IInv, ControlInv, Extracting, Starting
<1>7. ScanInv'
  <2>1. ASSUME NEW q \in Here, q \notin todo \/ q = at
        PROVE  live'[q] = Taken(q, recs)'
    <3>1. live[q] = Taken(q, recs)
      BY <1>1, <2>1 DEF IInv, ScanInv, Scanning
    <3>2. CASE q = at
      <4>1. disk[at] \in Files /\ recs[disk[at].ino] \in Owner \cup {None}
        BY <1>1, AdoptedTaken DEF IInv, StoreInv
      <4>2. Adopt(disk'[at], births, recs[disk[at].ino]) = Adopt(disk[at], births, recs[disk[at].ino])
        BY <1>1, <1>3, <4>1, AdoptHeld DEF Held, IInv, EnvInv
      <4>. QED
        BY <1>3, <1>4, <1>5, <3>1, <3>2, <4>2 DEF Taken
    <3>3. CASE q # at
      BY <1>3, <1>4, <1>5, <3>1, <3>3 DEF Taken, Here
    <3>. QED
      BY <3>2, <3>3
  <2>. QED
    BY <1>1, <1>3, <2>1 DEF WidenDirectory, Goto, IInv, ScanInv, Scanning
<1>8. HeldInv' /\ StageInv'
  BY DEF WidenDirectory, Goto, HeldInv, Recorded, StageInv
<1>. QED
  BY <1>3, <1>4, <1>5, <1>6, <1>7, <1>8 DEF IInv

LEMMA VisitStep == ASSUME IInv, NEW p \in Paths, Visit(p) PROVE IInv'
<1>1. pc = "scan" /\ p \in todo /\ p \in Here
  BY DEF Visit, IInv, ScanInv
<1>2. Adopted(p, recs) = Taken(p, recs) /\ Taken(p, recs) \in Owner
  BY <1>1, AdoptedTaken DEF IInv, StoreInv
<1>3. /\ live' \in [Paths -> Owner \cup {None}] /\ live'[p] = Taken(p, recs)
      /\ \A q \in Paths : q # p => live'[q] = live[q]
  BY <1>2 DEF Visit, IInv, StoreInv
<1>4. DiskInv' /\ Here' = Here /\ disk' = disk /\ recs' = recs
  BY DEF Visit, store, IInv, DiskInv, Here, Exists
<1>5. StoreInv'
  BY <1>3 DEF Visit, store, IInv, StoreInv
<1>6. EnvInv' /\ births' = births
  BY DEF Visit, Goto, env, IInv, EnvInv
<1>7. ControlInv'
  BY DEF Visit, Goto, store, IInv, ControlInv, Extracting, Starting
<1>8. ScanInv'
  <2>1. ASSUME NEW q \in Here, q \notin todo \/ q = p
        PROVE  live'[q] = Taken(q, recs)'
    BY <1>1, <1>3, <1>4, <1>6, <2>1 DEF Taken, Here, IInv, ScanInv, Scanning
  <2>2. wide' \subseteq Here
    BY <1>1 DEF Visit, IInv, ScanInv
  <2>. QED
    BY <1>1, <1>4, <2>1, <2>2 DEF Visit, Goto, IInv, ScanInv, Scanning
<1>9. HeldInv' /\ StageInv'
  BY DEF Visit, Goto, HeldInv, Recorded, StageInv
<1>. QED
  BY <1>4, <1>5, <1>6, <1>7, <1>8, <1>9 DEF IInv

(* What Publish writes: to each file's inode number what was adopted.      *)
LEMMA Published ==
  ASSUME IInv, Publish
  PROVE  /\ recs' \in Owners /\ log' = recs' /\ durable' = recs'
         /\ \A p \in Here : recs'[disk[p].ino] = Taken(p, recs)
<1>1. pc = "scan" /\ todo = {}
  BY DEF Publish
<1>2. PICK t : t = [i \in Inodes |-> IF \E p \in Here : disk[p].ino = i
                      THEN live[CHOOSE p \in Here : disk[p].ino = i] ELSE None]
  OBVIOUS
<1>3. recs' = t /\ log' = t /\ durable' = t
  BY <1>2 DEF Publish, Checkpoint
<1>4. t \in Owners
  BY <1>2 DEF Owners, IInv, StoreInv, Here
<1>5. ASSUME NEW p \in Here
      PROVE  t[disk[p].ino] = Taken(p, recs)
  <2>1. disk[p].ino \in Inodes
    BY AdoptedTaken DEF IInv, StoreInv
  <2>2. p = CHOOSE q \in Here : disk[q].ino = disk[p].ino
    BY DEF IInv, DiskInv
  <2>3. t[disk[p].ino] = live[p]
    BY <1>2, <2>1, <2>2
  <2>. QED
    BY <1>1, <2>3 DEF IInv, ScanInv, Scanning
<1>. QED
  BY <1>3, <1>4, <1>5

LEMMA PublishStep == ASSUME IInv, Publish PROVE IInv'
<1>1. DiskInv' /\ Here' = Here /\ disk' = disk
  BY DEF Publish, IInv, DiskInv, Here, Exists
<1>2. StoreInv' /\ recs' = log'
  BY Published DEF Publish, scan, IInv, StoreInv
<1>3. EnvInv' /\ births' = births
  BY DEF Publish, Goto, env, IInv, EnvInv
<1>4. ControlInv'
  BY <1>2 DEF Publish, Goto, IInv, ControlInv, Extracting, Starting
<1>5. ScanInv'
  BY <1>1 DEF Publish, Goto, scan, IInv, ScanInv, Scanning
<1>6. HeldInv'
  <2>1. ASSUME NEW p \in Here
        PROVE  Held(p, recs)'
    <3>1. recs'[disk[p].ino] = Adopt(disk[p], births, recs[disk[p].ino])
      BY Published DEF Taken
    <3>2. disk[p] \in Files /\ recs[disk[p].ino] \in Owner \cup {None}
      BY AdoptedTaken DEF IInv, StoreInv
    <3>3. Holds(disk[p], births, recs'[disk[p].ino])
      BY <3>1, <3>2, AdoptOwner DEF IInv, EnvInv
    <3>. QED
      BY <1>1, <1>3, <3>3 DEF Held
  <2>. QED
    BY <1>1, <2>1 DEF HeldInv
<1>7. StageInv'
  BY DEF Publish, Goto, StageInv
<1>. QED
  BY <1>1, <1>2, <1>3, <1>4, <1>5, <1>6, <1>7 DEF IInv

(* A file that keeps its inode number and birth, and its record, is held.  *)
LEMMA StaysHeld ==
  ASSUME NEW p, Held(p, recs), births' = births,
         disk'[p].ino = disk[p].ino, disk'[p].born = disk[p].born,
         recs'[disk[p].ino] = recs[disk[p].ino]
  PROVE  Held(p, recs)'
BY DEF Held, Holds

LEMMA WidenFileStep == ASSUME IInv, NEW p \in Paths, WidenFile(p) PROVE IInv'
<1>1. pc = "widen" /\ p \in wide /\ p \in Here
  BY DEF WidenFile, IInv, ScanInv
<1>2. /\ DiskInv' /\ Here' = Here
      /\ \A q \in Paths : q # p => disk'[q] = disk[q]
      /\ disk'[p].ino = disk[p].ino /\ disk'[p].born = disk[p].born
  BY <1>1, Widened DEF WidenFile, IInv
<1>3. StoreInv' /\ recs' = recs
  BY DEF WidenFile, store, IInv, StoreInv
<1>4. EnvInv' /\ births' = births
  BY DEF WidenFile, Goto, env, IInv, EnvInv
<1>5. ControlInv'
  BY DEF WidenFile, Goto, store, IInv, ControlInv, Extracting, Starting
<1>6. ScanInv'
  BY <1>1, <1>2 DEF WidenFile, Goto, IInv, ScanInv, Scanning
<1>7. HeldInv'
  <2>1. ASSUME NEW q \in Here
        PROVE  Held(q, recs)'
    <3>1. Held(q, recs)
      BY <1>1 DEF IInv, HeldInv, Recorded, Pending
    <3>2. disk'[q].ino = disk[q].ino /\ disk'[q].born = disk[q].born
      BY <1>2 DEF Here
    <3>. QED
      BY <1>3, <1>4, <3>1, <3>2, StaysHeld
  <2>. QED
    BY <1>2, <2>1 DEF HeldInv
<1>8. StageInv'
  BY DEF WidenFile, Goto, StageInv
<1>. QED
  BY <1>2, <1>3, <1>4, <1>5, <1>6, <1>7, <1>8 DEF IInv

LEMMA ScannedStep == ASSUME IInv, Scanned PROVE IInv'
<1>1. DiskInv' /\ Here' = Here /\ disk' = disk
  BY DEF Scanned, IInv, DiskInv, Here, Exists
<1>2. StoreInv' /\ recs' = recs
  BY DEF Scanned, store, IInv, StoreInv, Nobody
<1>3. EnvInv' /\ births' = births
  BY DEF Scanned, Goto, env, IInv, EnvInv
<1>4. ControlInv'
  BY DEF Scanned, Goto, store, IInv, ControlInv, Extracting, Starting
<1>5. ScanInv'
  BY <1>1 DEF Scanned, Goto, IInv, ScanInv, Scanning
<1>6. HeldInv'
  <2>1. ASSUME NEW q \in Here
        PROVE  Held(q, recs)'
    <3>1. Held(q, recs)
      BY DEF Scanned, IInv, HeldInv, Recorded, Pending
    <3>. QED
      BY <1>1, <1>2, <1>3, <3>1, StaysHeld
  <2>. QED
    BY <1>1, <2>1 DEF HeldInv
<1>7. StageInv'
  BY DEF Scanned, Goto, StageInv
<1>. QED
  BY <1>1, <1>2, <1>3, <1>4, <1>5, <1>6, <1>7 DEF IInv

-----------------------------------------------------------------------------
(* The entries are recorded.                                               *)

LEMMA RecordEntrySets ==
  ASSUME IInv, RecordEntry
  PROVE  LET e == rest[1]  i == disk[e.path].ino IN
         /\ e \in Entry /\ e.path \in Here /\ i \in Inodes
         /\ recs' \in Owners /\ log' \in Owners /\ durable' \in Owners /\ recs' = log'
         /\ Marks(e, disk[e.path], log'[i])
         /\ \A j \in Inodes : j # i => log'[j] = log[j]
<1>1. PICK e : e = rest[1]
  OBVIOUS
<1>2. e = Head(rest) /\ e \in Entry /\ e.path \in Paths /\ e.uid \in Nat /\ e.mode \in Modes
  <2>1. rest \in Seq(Entry) /\ rest # << >>
    BY DEF RecordEntry, IInv, ControlInv
  <2>2. e = Head(rest) /\ e \in Entry
    BY <1>1, <2>1
  <2>. QED
    BY <2>2 DEF Entry
<1>3. e.path \in Here
  BY <1>2 DEF RecordEntry, Here
<1>4. disk[e.path] \in Files /\ disk[e.path].ino \in Inodes
  BY <1>3, AdoptedTaken DEF IInv, StoreInv
<1>5. PICK o : o = [Identify(e.path) EXCEPT !.uid = e.uid, !.mode = e.mode]
  OBVIOUS
<1>6. o = [uid |-> e.uid, mode |-> e.mode, born |-> IF births THEN disk[e.path].born ELSE 0]
  BY <1>5 DEF Identify
<1>7. o \in Owner /\ o # None
  BY <1>2, <1>4, <1>6, InstallBoundsAssumption DEF Files, Owner
<1>8. Marks(e, disk[e.path], o)
  BY <1>6, <1>7 DEF Marks
<1>9. Set(disk[e.path].ino, o, FALSE) /\ recs = log
  BY <1>2, <1>5 DEF RecordEntry, IInv, ControlInv
<1>10. /\ recs' \in Owners /\ log' \in Owners /\ durable' \in Owners /\ recs' = log'
       /\ log'[disk[e.path].ino] = o
       /\ \A j \in Inodes : j # disk[e.path].ino => log'[j] = log[j]
  BY <1>4, <1>7, <1>9, SetOne DEF IInv
<1>. QED
  BY <1>1, <1>2, <1>3, <1>4, <1>8, <1>10

LEMMA RecordEntryStep == ASSUME IInv, RecordEntry PROVE IInv'
<1>1. DiskInv' /\ Here' = Here
  BY DEF RecordEntry, IInv, DiskInv, Here, Exists
<1>2. StoreInv' /\ recs' = log'
  BY RecordEntrySets DEF RecordEntry, scan, IInv, StoreInv
<1>3. EnvInv'
  BY DEF RecordEntry, Goto, env, IInv, EnvInv
<1>4. ControlInv'
  BY <1>2 DEF RecordEntry, Goto, IInv, ControlInv, Extracting, Starting
<1>5. ScanInv'
  BY <1>1 DEF RecordEntry, Goto, scan, IInv, ScanInv, Scanning
<1>6. HeldInv' /\ StageInv'
  BY DEF RecordEntry, Goto, HeldInv, Recorded, StageInv
<1>. QED
  BY <1>1, <1>2, <1>3, <1>4, <1>5, <1>6 DEF IInv

LEMMA CheckpointEntriesStep == ASSUME IInv, CheckpointEntries PROVE IInv'
<1>1. DiskInv' /\ Here' = Here
  BY DEF CheckpointEntries, IInv, DiskInv, Here, Exists
<1>2. StoreInv' /\ recs' = log'
  BY DEF CheckpointEntries, Checkpoint, scan, IInv, StoreInv
<1>3. EnvInv'
  BY DEF CheckpointEntries, Goto, env, IInv, EnvInv
<1>4. ControlInv'
  BY <1>2 DEF CheckpointEntries, Goto, IInv, ControlInv, Extracting, Starting
<1>5. ScanInv'
  BY <1>1 DEF CheckpointEntries, Goto, scan, IInv, ScanInv, Scanning
<1>6. HeldInv' /\ StageInv'
  BY DEF CheckpointEntries, Goto, HeldInv, Recorded, StageInv
<1>. QED
  BY <1>1, <1>2, <1>3, <1>4, <1>5, <1>6 DEF IInv

-----------------------------------------------------------------------------
(* The virtual user.                                                       *)

Preparing == {"account", "fill", "own new", "rename", "home", "own home", "checkpoint", "run"}

LEMMA UserStep ==
  ASSUME IInv, DiskInv', StoreInv', recs' = log', HeldInv', StageInv',
         pc \in Preparing, pc' \in Preparing, UNCHANGED <<env, marker, tar, job, rest, todo, wide>>
  PROVE  IInv'
<1>1. EnvInv'
  BY DEF env, IInv, EnvInv
<1>2. ControlInv'
  BY DEF IInv, ControlInv, Preparing, Extracting, Starting
<1>3. ScanInv'
  BY DEF IInv, ScanInv, Preparing, Scanning
<1>. QED
  BY <1>1, <1>2, <1>3 DEF IInv

LEMMA FoundStep == ASSUME IInv, Found PROVE IInv'
<1>1. DiskInv' /\ Here' = Here /\ disk' = disk
  BY DEF Found, IInv, DiskInv, Here, Exists
<1>2. StoreInv' /\ recs' = recs /\ births' = births
  BY DEF Found, Goto, store, scan, env, IInv, StoreInv
<1>3. recs' = log'
  BY DEF Found, store, IInv, ControlInv
<1>4. HeldInv'
  BY <1>1, <1>2, StaysHeld DEF Found, Goto, IInv, HeldInv, Recorded, Pending
<1>5. StageInv'
  BY DEF Found, Goto, StageInv
<1>. QED
  BY <1>1, <1>2, <1>3, <1>4, <1>5, UserStep DEF Found, Goto, scan, Preparing

LEMMA StageStep == ASSUME IInv, Stage PROVE IInv'
<1>1. New \in Paths
  BY DEF Paths
<1>2. /\ DiskInv' /\ New \in Here' /\ disk'[New].by = "session"
      /\ \A q \in Paths : q # New => disk'[q] = disk[q]
  <2>1. CASE Exists(New) /\ disk' = [disk EXCEPT ![New].text = {}, ![New].by = "session"]
    <3>1. New \in Here /\ disk[New] \in Files
      BY <1>1, <2>1 DEF Here, IInv, DiskInv, Exists
    <3>2. PICK f : f = [disk[New] EXCEPT !.text = {}, !.by = "session"]
      OBVIOUS
    <3>3. f \in Files /\ f.ino = disk[New].ino /\ f.by = "session"
      BY <3>1, <3>2 DEF Files
    <3>4. disk' = [disk EXCEPT ![New] = f]
      BY <1>1, <2>1, <3>1, <3>2 DEF IInv, DiskInv
    <3>. QED
      BY <3>1, <3>3, <3>4, SameFile DEF IInv
  <2>2. CASE \E i \in FreeInodes(New), b \in FreshBirths :
               disk' = [disk EXCEPT ![New] = File(i, b, "rw", {}, "session")]
    <3>1. PICK i \in FreeInodes(New), b \in FreshBirths, text \in {{}} :
            disk' = [disk EXCEPT ![New] = File(i, b, "rw", text, "session")]
      BY <2>2
    <3>2. "rw" \in Modes /\ text \in SUBSET Text
      BY DEF Modes
    <3>3. /\ DiskInv' /\ Here' = Here \cup {New}
          /\ \A q \in Paths : q # New => disk'[q] = disk[q]
      BY <1>1, <3>1, <3>2, NewFile DEF IInv
    <3>4. disk'[New].by = "session"
      BY <1>1, <3>1 DEF IInv, DiskInv, File
    <3>. QED
      BY <3>3, <3>4
  <2>. QED
    BY <2>1, <2>2 DEF Stage
<1>3. StoreInv' /\ recs' = recs /\ births' = births
  BY DEF Stage, Goto, store, scan, env, IInv, StoreInv
<1>4. recs' = log'
  BY DEF Stage, store, IInv, ControlInv
<1>5. HeldInv'
  <2>1. ASSUME NEW q \in Here', q # New
        PROVE  Held(q, recs)'
    <3>1. q \in Here /\ disk'[q] = disk[q]
      BY <1>2, <2>1 DEF Here, Exists
    <3>2. Held(q, recs)
      BY <3>1 DEF Stage, IInv, HeldInv, Recorded, Pending
    <3>. QED
      BY <1>3, <3>1, <3>2, StaysHeld
  <2>. QED
    BY <2>1 DEF Stage, Goto, HeldInv, Pending
<1>6. StageInv'
  BY <1>2 DEF Stage, Goto, StageInv, Here
<1>. QED
  BY <1>2, <1>3, <1>4, <1>5, <1>6, UserStep DEF Stage, Goto, scan, Preparing

LEMMA FillStep == ASSUME IInv, Fill PROVE IInv'
<1>1. New \in Here /\ disk[New] \in Files /\ disk[New].by = "session"
  BY DEF Fill, Paths, Here, Exists, IInv, StageInv, DiskInv
<1>2. PICK lines \in SUBSET Lines :
        Read(lines) /\ disk' = [disk EXCEPT ![New].text = lines \cup {"user"}]
  BY DEF Fill
<1>3. PICK f : f = [disk[New] EXCEPT !.text = lines \cup {"user"}]
  OBVIOUS
<1>4. lines \cup {"user"} \in SUBSET Text
  <2>1. Account \in Paths
    BY DEF Paths
  <2>2. Exists(Account) => disk[Account].text \in SUBSET Text
    BY <2>1 DEF Exists, IInv, DiskInv, Files
  <2>3. Lines \subseteq Text /\ "user" \in Text
    BY <2>2 DEF Lines, Text
  <2>. QED
    BY <2>3
<1>5. f \in Files /\ f.ino = disk[New].ino /\ f.by = "session"
  BY <1>1, <1>3, <1>4 DEF Files
<1>6. disk' = [disk EXCEPT ![New] = f]
  BY <1>1, <1>2, <1>3 DEF IInv, DiskInv, Here
<1>7. /\ DiskInv' /\ Here' = Here /\ disk'[New] = f
      /\ \A q \in Paths : q # New => disk'[q] = disk[q]
  BY <1>1, <1>5, <1>6, SameFile DEF IInv
<1>8. StoreInv' /\ recs' = recs /\ births' = births
  BY DEF Fill, Goto, store, scan, env, IInv, StoreInv
<1>9. recs' = log'
  BY DEF Fill, store, IInv, ControlInv
<1>10. HeldInv'
  <2>1. ASSUME NEW q \in Here, q # New
        PROVE  Held(q, recs)'
    <3>1. disk'[q] = disk[q]
      BY <1>7, <2>1 DEF Here
    <3>2. Held(q, recs)
      BY <2>1 DEF Fill, IInv, HeldInv, Recorded, Pending
    <3>. QED
      BY <1>8, <3>1, <3>2, StaysHeld
  <2>. QED
    BY <1>7, <2>1 DEF Fill, Goto, HeldInv, Pending
<1>11. StageInv'
  BY <1>1, <1>5, <1>7 DEF Fill, Goto, StageInv, Here
<1>. QED
  BY <1>7, <1>8, <1>9, <1>10, <1>11, UserStep DEF Fill, Goto, scan, Preparing

(* SetPath records what the file is, with the user that is to own it.      *)
LEMMA SetPathHeld ==
  ASSUME IInv, pc \in Preparing, NEW p \in Here, NEW uid \in Nat, SetPath(p, uid),
         disk' = disk, births' = births
  PROVE  /\ recs' \in Owners /\ log' \in Owners /\ durable' \in Owners /\ recs' = log'
         /\ Held(p, recs)'
         /\ \A q \in Here : q # p => disk[q].ino # disk[p].ino
                                     /\ recs'[disk[q].ino] = recs[disk[q].ino]
<1>1. disk[p] \in Files /\ disk[p].ino \in Inodes
  BY AdoptedTaken DEF IInv, StoreInv
<1>2. PICK o : o = [Identify(p) EXCEPT !.uid = uid, !.mode = "rw"]
  OBVIOUS
<1>3. o = [uid |-> uid, mode |-> "rw", born |-> IF births THEN disk[p].born ELSE 0]
  BY <1>2 DEF Identify
<1>4. o \in Owner /\ o # None
  BY <1>1, <1>3, InstallBoundsAssumption DEF Files, Owner, Modes
<1>5. Holds(disk[p], births, o)
  BY <1>3, <1>4 DEF Holds
<1>6. Set(disk[p].ino, o, TRUE) /\ recs = log
  BY <1>2 DEF SetPath, IInv, ControlInv, Preparing
<1>7. /\ recs' \in Owners /\ log' \in Owners /\ durable' \in Owners /\ recs' = log'
      /\ recs'[disk[p].ino] = o
      /\ \A j \in Inodes : j # disk[p].ino => recs'[j] = recs[j]
  BY <1>1, <1>4, <1>6, SetOne DEF IInv
<1>8. Held(p, recs)'
  BY <1>5, <1>7 DEF Held
<1>9. ASSUME NEW q \in Here, q # p
      PROVE  disk[q].ino # disk[p].ino /\ recs'[disk[q].ino] = recs[disk[q].ino]
  <2>1. disk[q].ino \in Inodes
    BY AdoptedTaken DEF IInv, StoreInv
  <2>2. disk[q].ino # disk[p].ino
    BY <1>9 DEF IInv, DiskInv
  <2>. QED
    BY <1>7, <2>1, <2>2
<1>. QED
  BY <1>7, <1>8, <1>9

LEMMA OwnNewStep == ASSUME IInv, OwnNew PROVE IInv'
<1>1. New \in Here /\ disk[New].by = "session"
  BY DEF OwnNew, Paths, Here, IInv, StageInv
<1>2. DiskInv' /\ Here' = Here /\ disk' = disk /\ births' = births
  BY DEF OwnNew, Goto, env, IInv, DiskInv, Here, Exists
<1>3. /\ recs' \in Owners /\ log' \in Owners /\ durable' \in Owners /\ recs' = log'
      /\ Held(New, recs)'
      /\ \A q \in Here : q # New => recs'[disk[q].ino] = recs[disk[q].ino]
  BY <1>1, <1>2, SetPathHeld DEF OwnNew, Preparing
<1>4. StoreInv'
  BY <1>3 DEF OwnNew, scan, IInv, StoreInv
<1>5. HeldInv'
  <2>1. ASSUME NEW q \in Here, q # New
        PROVE  Held(q, recs)'
    <3>1. Held(q, recs)
      BY <2>1 DEF OwnNew, IInv, HeldInv, Recorded, Pending
    <3>. QED
      BY <1>2, <1>3, <2>1, <3>1, StaysHeld
  <2>. QED
    BY <1>2, <1>3, <2>1 DEF HeldInv
<1>6. StageInv'
  BY <1>1, <1>2 DEF OwnNew, Goto, StageInv, Here, Exists
<1>. QED
  BY <1>2, <1>3, <1>4, <1>5, <1>6, UserStep DEF OwnNew, Goto, scan, Preparing

(* The temporary takes the account's place, with its inode number.         *)
LEMMA Renamed ==
  ASSUME IInv, RenameNew
  PROVE  /\ New \in Here /\ DiskInv' /\ disk'[New] = None
         /\ disk'[Account] \in Files /\ disk'[Account].by = "session"
         /\ disk'[Account].ino = disk[New].ino /\ disk'[Account].born = disk[New].born
         /\ disk'[Account].text = disk[New].text
         /\ \A q \in Paths \ {Account, New} : disk'[q] = disk[q]
<1>1. Account \in Paths /\ New \in Paths /\ Account # New
  BY InstallPathsAssumption DEF Paths
<1>2. New \in Here /\ disk[New] \in Files /\ disk[New].by = "session"
  BY <1>1 DEF RenameNew, Here, Exists, IInv, StageInv, DiskInv
<1>3. PICK f : f = [disk[New] EXCEPT !.mode = "rw"]
  OBVIOUS
<1>4. /\ f \in Files /\ f.ino = disk[New].ino /\ f.born = disk[New].born
      /\ f.text = disk[New].text /\ f.by = "session" /\ f # None
  BY <1>2, <1>3, InstallBoundsAssumption DEF Files, Modes
<1>5. disk' = [disk EXCEPT ![Account] = f, ![New] = None]
  BY <1>3 DEF RenameNew
<1>6. /\ disk' \in [Paths -> Files \cup {None}]
      /\ disk'[Account] = f /\ disk'[New] = None
      /\ \A q \in Paths \ {Account, New} : disk'[q] = disk[q]
  BY <1>1, <1>4, <1>5 DEF IInv, DiskInv
<1>7. ASSUME NEW q \in Here', NEW r \in Here', q # r
      PROVE  disk'[q].ino # disk'[r].ino
  BY <1>2, <1>4, <1>6, <1>7 DEF IInv, DiskInv, Here, Exists
<1>. QED
  BY <1>2, <1>4, <1>6, <1>7 DEF DiskInv

LEMMA RenameNewStep == ASSUME IInv, RenameNew PROVE IInv'
<1>1. StoreInv' /\ recs' = recs /\ births' = births
  BY DEF RenameNew, Goto, store, scan, env, IInv, StoreInv
<1>2. recs' = log'
  BY DEF RenameNew, store, IInv, ControlInv
<1>3. HeldInv'
  <2>1. \A q \in Here : Held(q, recs)
    BY DEF RenameNew, IInv, HeldInv, Recorded, Pending
  <2>2. ASSUME NEW q \in Here'
        PROVE  Held(q, recs)'
    <3>1. CASE q = Account
      BY <1>1, <2>1, <3>1, Renamed DEF Held, Holds
    <3>2. CASE q = New
      BY <3>2, Renamed DEF Here, Exists
    <3>3. CASE q \notin {Account, New}
      <4>1. q \in Here /\ disk'[q] = disk[q]
        BY <3>3, Renamed DEF Here, Exists
      <4>. QED
        BY <1>1, <2>1, <4>1, StaysHeld
    <3>. QED
      BY <3>1, <3>2, <3>3
  <2>. QED
    BY <2>2 DEF HeldInv
<1>4. StageInv'
  BY DEF RenameNew, Goto, StageInv
<1>. QED
  BY <1>1, <1>2, <1>3, <1>4, Renamed, UserStep DEF RenameNew, Goto, scan, Preparing

LEMMA HomeMade ==
  ASSUME IInv, MakeHome
  PROVE  /\ DiskInv' /\ Home \in Here'
         /\ \A q \in Paths : q # Home => disk'[q] = disk[q]
         /\ Exists(Home) => disk' = disk
<1>1. Home \in Paths /\ "rw" \in Modes /\ {} \in SUBSET Text
  BY DEF Paths, Modes
<1>2. CASE Exists(Home) /\ disk' = disk
  BY <1>1, <1>2 DEF IInv, DiskInv, Here, Exists
<1>3. CASE ~Exists(Home) /\ \E i \in FreeInodes(Home), b \in FreshBirths :
             disk' = [disk EXCEPT ![Home] = File(i, b, "rw", {}, "session")]
  <2>1. PICK i \in FreeInodes(Home), b \in FreshBirths :
          disk' = [disk EXCEPT ![Home] = File(i, b, "rw", {}, "session")]
    BY <1>3
  <2>2. /\ DiskInv' /\ Here' = Here \cup {Home}
        /\ \A q \in Paths : q # Home => disk'[q] = disk[q]
    BY <1>1, <2>1, NewFile DEF IInv
  <2>. QED
    BY <1>3, <2>2
<1>. QED
  BY <1>2, <1>3 DEF MakeHome

LEMMA MakeHomeStep == ASSUME IInv, MakeHome PROVE IInv'
<1>1. StoreInv' /\ recs' = recs /\ births' = births
  BY DEF MakeHome, Goto, store, scan, env, IInv, StoreInv
<1>2. recs' = log'
  BY DEF MakeHome, store, IInv, ControlInv
<1>3. HeldInv'
  <2>1. ASSUME NEW q \in Here', q # Home
        PROVE  Held(q, recs)'
    <3>1. q \in Here /\ disk'[q] = disk[q]
      BY <2>1, HomeMade DEF Here, Exists
    <3>2. Held(q, recs)
      BY <3>1 DEF MakeHome, IInv, HeldInv, Recorded, Pending
    <3>. QED
      BY <1>1, <3>1, <3>2, StaysHeld
  <2>. QED
    BY <2>1 DEF MakeHome, Goto, HeldInv, Pending
<1>4. StageInv'
  BY HomeMade DEF MakeHome, Goto, StageInv, Here
<1>. QED
  BY <1>1, <1>2, <1>3, <1>4, HomeMade, UserStep DEF MakeHome, Goto, scan, Preparing

LEMMA OwnHomeStep == ASSUME IInv, OwnHome PROVE IInv'
<1>1. Home \in Here
  BY DEF OwnHome, Paths, Here, IInv, StageInv
<1>2. DiskInv' /\ Here' = Here /\ disk' = disk /\ births' = births
  BY DEF OwnHome, Goto, env, IInv, DiskInv, Here, Exists
<1>3. /\ recs' \in Owners /\ log' \in Owners /\ durable' \in Owners /\ recs' = log'
      /\ Held(Home, recs)'
      /\ \A q \in Here : q # Home => recs'[disk[q].ino] = recs[disk[q].ino]
  <2>1. pc \in Preparing /\ SetPath(Home, 1000)
    BY DEF OwnHome, Preparing
  <2>2. 1000 \in Nat
    OBVIOUS
  <2>. QED
    BY <1>1, <1>2, <2>1, <2>2, SetPathHeld
<1>4. StoreInv'
  BY <1>3 DEF OwnHome, scan, IInv, StoreInv
<1>5. HeldInv'
  <2>1. ASSUME NEW q \in Here, q # Home
        PROVE  Held(q, recs)'
    <3>1. Held(q, recs)
      BY <2>1 DEF OwnHome, IInv, HeldInv, Recorded, Pending
    <3>. QED
      BY <1>2, <1>3, <2>1, <3>1, StaysHeld
  <2>. QED
    BY <1>2, <1>3, <2>1 DEF HeldInv
<1>6. StageInv'
  BY DEF OwnHome, Goto, StageInv
<1>. QED
  BY <1>2, <1>3, <1>4, <1>5, <1>6, UserStep DEF OwnHome, Goto, scan, Preparing

LEMMA StartedStep == ASSUME IInv, Started PROVE IInv'
<1>1. DiskInv' /\ Here' = Here /\ disk' = disk
  BY DEF Started, IInv, DiskInv, Here, Exists
<1>2. StoreInv' /\ recs' = recs /\ log' = recs /\ births' = births
  BY DEF Started, Checkpoint, Goto, scan, env, IInv, StoreInv
<1>3. HeldInv'
  BY <1>1, <1>2, StaysHeld DEF Started, Goto, IInv, HeldInv, Recorded, Pending
<1>4. StageInv'
  BY DEF Started, Goto, StageInv
<1>. QED
  BY <1>1, <1>2, <1>3, <1>4, UserStep DEF Started, Goto, scan, Preparing

-----------------------------------------------------------------------------
LEMMA StutterStep == ASSUME IInv, UNCHANGED vars PROVE IInv'
<1>1. DiskInv' /\ Here' = Here /\ disk' = disk
  BY DEF vars, IInv, DiskInv, Here, Exists
<1>2. StoreInv' /\ EnvInv' /\ ControlInv'
  BY DEF vars, store, scan, env, IInv, StoreInv, EnvInv, ControlInv
<1>3. ScanInv'
  BY <1>1 DEF vars, store, scan, env, IInv, ScanInv, Taken, Held
<1>4. HeldInv'
  BY <1>1 DEF vars, store, env, IInv, HeldInv, Pending, Held
<1>5. StageInv'
  BY <1>1 DEF vars, IInv, StageInv, Exists
<1>. QED
  BY <1>1, <1>2, <1>3, <1>4, <1>5 DEF IInv

LEMMA NextInv == ASSUME IInv, [Next]_vars PROVE IInv'
<1>1. CASE Extract \/ RemoveMarker \/ Decompress \/ WriteEntry \/ CloseArchive
  BY <1>1, ExtractStep, RemoveMarkerStep, DecompressStep, WriteEntryStep, CloseArchiveStep
<1>2. CASE RecordEntry \/ CheckpointEntries \/ WriteMarker
  BY <1>2, RecordEntryStep, CheckpointEntriesStep, WriteMarkerStep
<1>3. CASE StartSession \/ Replay \/ WidenDirectory \/ Publish \/ Scanned
  BY <1>3, StartSessionStep, ReplayStep, WidenDirectoryStep, PublishStep, ScannedStep
<1>4. CASE \E p \in Paths : RecordDirectory(p) \/ Visit(p) \/ WidenFile(p) \/ Recreate(p)
  BY <1>4, RecordDirectoryStep, VisitStep, WidenFileStep, RecreateStep
<1>5. CASE Found \/ Stage \/ Fill \/ OwnNew \/ RenameNew \/ MakeHome \/ OwnHome \/ Started
  BY <1>5, FoundStep, StageStep, FillStep, OwnNewStep, RenameNewStep, MakeHomeStep,
     OwnHomeStep, StartedStep
<1>6. CASE EndSession \/ Fail \/ Kill \/ PowerLoss \/ BirthsChange
  BY <1>6, EndSessionStep, FailStep, KillStep, PowerLossStep, BirthsChangeStep
<1>7. CASE Rest \/ UNCHANGED vars
  BY <1>7, StutterStep DEF Rest
<1>. QED
  BY <1>1, <1>2, <1>3, <1>4, <1>5, <1>6, <1>7 DEF Next

(* The inductive invariant of the installation and of every start.         *)
THEOREM InstallCorrect == Spec => []IInv
<1>1. Init => IInv
  BY InitInv
<1>2. IInv /\ [Next]_vars => IInv'
  BY NextInv
<1>. QED
  BY <1>1, <1>2, PTL DEF Spec

(* TypeOK without what it says of the marker.                              *)
LEMMA TypesOfInv ==
  ASSUME IInv
  PROVE  /\ disk \in [Paths -> Files \cup {None}] /\ live \in [Paths -> Owner \cup {None}]
         /\ \A p, q \in Here : p # q => disk[p].ino # disk[q].ino
         /\ recs \in Owners /\ log \in Owners /\ durable \in Owners
         /\ {marker, tar, births, flaky} \subseteq BOOLEAN
         /\ rest \in Seq(Entry) /\ todo \subseteq Here /\ wide \subseteq Here
BY DEF IInv, DiskInv, StoreInv, EnvInv, ControlInv, ScanInv

(* When a session's programs run, every file has a record, and it is not   *)
(* that of an earlier file with the same inode number: Scan gave each file *)
(* one that is its own, and each file made since was recorded.             *)
THEOREM StartsOwnEverything == Spec => []StartedMeansOwned
<1>1. IInv => StartedMeansOwned
  <2>. SUFFICES ASSUME IInv, pc = "run", NEW p \in Here
                PROVE  /\ recs[disk[p].ino] # None
                       /\ ~flaky => recs[disk[p].ino].born = disk[p].born
    BY DEF StartedMeansOwned
  <2>1. Held(p, recs)
    BY DEF IInv, HeldInv, Recorded, Pending
  <2>. QED
    BY <2>1 DEF Held, Holds, IInv, EnvInv
<1>. QED
  BY <1>1, InstallCorrect, PTL

-----------------------------------------------------------------------------
(* What a step may do to a file p of the rootfs and to its record in the   *)
(* log.  Either p is a new file, which no archive had, or it stays the     *)
(* file it was.  Then the log keeps its record, or gets that which Scan    *)
(* makes of it; and its mode changes only under a record of its own.       *)
StaysFile(p) ==
  /\ disk[p] # None
  /\ disk'[p].ino = disk[p].ino /\ disk'[p].born = disk[p].born /\ disk'[p].by = disk[p].by
SameMode(p) == disk'[p].mode = disk[p].mode
StaysLogged(p) ==
  LET i == disk[p].ino IN
    /\ log'[i] \in {log[i], durable[i]} /\ durable'[i] \in {log'[i], durable[i]}
    /\ SameMode(p) \/ (Held(p, log) /\ log'[i] = log[i])
IsAdopted(p) ==
  LET i == disk[p].ino IN
    log'[i] = Taken(p, log) /\ durable'[i] = log'[i] /\ SameMode(p)
NewFileAt(p) ==
  /\ disk'[p].by # "archive"
  /\ ~(disk[p] # None /\ disk'[p].ino = disk[p].ino /\ disk'[p].born = disk[p].born)
Kept(p) == disk'[p] # None => NewFileAt(p) \/ (StaysFile(p) /\ (StaysLogged(p) \/ IsAdopted(p)))

LEMMA DiskAndLogStay ==
  ASSUME disk' = disk, log' = log, durable' \in {log, durable}, NEW p
  PROVE  Kept(p)
BY DEF Kept, StaysFile, StaysLogged, SameMode

LEMMA LogStays ==
  ASSUME log' = log, durable' = durable, NEW p,
         disk'[p] = disk[p] \/ (StaysFile(p) /\ Held(p, log)) \/ NewFileAt(p)
  PROVE  Kept(p)
BY DEF Kept, StaysFile, StaysLogged, SameMode

Mine == {New, Home}

LEMMA ScanKeeps ==
  ASSUME IInv, NEW p \in Paths \ Mine,
         \/ WidenDirectory \/ Publish
         \/ \E q \in Paths : RecordDirectory(q) \/ WidenFile(q)
  PROVE  Kept(p)
<1>1. CASE WidenDirectory
  <2>1. at \in Here /\ Held(at, log)
    BY <1>1 DEF WidenDirectory, IInv, ScanInv, ControlInv
  <2>2. /\ \A q \in Paths : q # at => disk'[q] = disk[q]
        /\ disk'[at].ino = disk[at].ino /\ disk'[at].born = disk[at].born
        /\ disk'[at].by = disk[at].by
    BY <1>1, <2>1, Widened DEF WidenDirectory, IInv
  <2>. QED
    BY <1>1, <2>1, <2>2, LogStays DEF WidenDirectory, store, StaysFile, Here, Exists
<1>2. ASSUME NEW q \in Paths, WidenFile(q)
      PROVE  Kept(p)
  <2>1. q \in Here /\ Held(q, log)
    BY <1>2 DEF WidenFile, IInv, ScanInv, ControlInv, HeldInv, Recorded, Pending
  <2>2. /\ \A r \in Paths : r # q => disk'[r] = disk[r]
        /\ disk'[q].ino = disk[q].ino /\ disk'[q].born = disk[q].born
        /\ disk'[q].by = disk[q].by
    BY <1>2, <2>1, Widened DEF WidenFile, IInv
  <2>. QED
    BY <1>2, <2>1, <2>2, LogStays DEF WidenFile, store, StaysFile, Here, Exists
<1>3. CASE Publish
  <2>1. recs = log /\ disk' = disk
    BY <1>3 DEF Publish, IInv, ControlInv
  <2>2. p \in Here => log'[disk[p].ino] = Taken(p, log) /\ durable' = log'
    BY <1>3, <2>1, Published
  <2>. QED
    BY <2>1, <2>2 DEF Kept, StaysFile, IsAdopted, SameMode, Here, Exists
<1>4. ASSUME NEW q \in Paths, RecordDirectory(q)
      PROVE  Kept(p)
  <2>1. recs = log /\ disk' = disk /\ q \in Here
    BY <1>4 DEF RecordDirectory, IInv, ControlInv, ScanInv
  <2>2. /\ Adopted(q, recs) = Taken(q, recs) /\ Taken(q, recs) \in Owner
        /\ disk[q].ino \in Inodes
    BY <2>1, AdoptedTaken DEF IInv, StoreInv
  <2>3. Set(disk[q].ino, Taken(q, recs), TRUE)
    BY <1>4, <2>2 DEF RecordDirectory
  <2>4. /\ recs' = log' /\ recs'[disk[q].ino] = Taken(q, recs)
        /\ \A j \in Inodes : j # disk[q].ino => recs'[j] = recs[j]
    BY <2>1, <2>2, <2>3, SetOne DEF IInv
  <2>5. durable' = log'
    BY <2>3 DEF Set
  <2>6. CASE p = q
    BY <2>1, <2>4, <2>5, <2>6 DEF Kept, StaysFile, IsAdopted, SameMode, Here, Exists
  <2>7. CASE p # q /\ p \in Here
    <3>1. disk[p].ino \in Inodes /\ disk[p].ino # disk[q].ino
      BY <2>1, <2>7, AdoptedTaken DEF IInv, StoreInv, DiskInv
    <3>. QED
      BY <2>1, <2>4, <2>5, <3>1 DEF Kept, StaysFile, StaysLogged, SameMode, Here, Exists
  <2>8. CASE p \notin Here
    BY <2>1, <2>8 DEF Kept, Here, Exists
  <2>. QED
    BY <2>6, <2>7, <2>8
<1>. QED
  BY <1>1, <1>2, <1>3, <1>4

LEMMA PathsKept ==
  ASSUME IInv, NEW q \in Mine, q \in Here, pc \in Preparing, NEW uid \in Nat, SetPath(q, uid),
         disk' = disk, births' = births, NEW p \in Paths \ Mine
  PROVE  Kept(p)
<1>1. recs = log /\ durable' = log'
  BY DEF SetPath, Set, IInv, ControlInv, Preparing
<1>2. recs' = log' /\ (p \in Here => recs'[disk[p].ino] = recs[disk[p].ino])
  BY SetPathHeld
<1>. QED
  BY <1>1, <1>2 DEF Kept, StaysFile, StaysLogged, SameMode, Here, Exists

LEMMA UserKeeps ==
  ASSUME IInv, NEW p \in Paths \ Mine,
         Found \/ Stage \/ Fill \/ OwnNew \/ RenameNew \/ MakeHome \/ OwnHome \/ Started
  PROVE  Kept(p)
<1>1. CASE Found
  BY <1>1, DiskAndLogStay DEF Found, store
<1>2. CASE Stage
  <2>1. disk'[p] = disk[p]
    BY <1>2 DEF Stage, Mine, IInv, DiskInv
  <2>. QED
    BY <1>2, <2>1, LogStays DEF Stage, store
<1>3. CASE Fill
  <2>1. disk'[p] = disk[p]
    BY <1>3 DEF Fill, Mine, IInv, DiskInv
  <2>. QED
    BY <1>3, <2>1, LogStays DEF Fill, store
<1>4. CASE OwnNew
  <2>1. New \in Here /\ New \in Mine /\ disk' = disk /\ births' = births /\ pc \in Preparing
    BY <1>4 DEF OwnNew, Goto, env, Paths, Here, Mine, IInv, StageInv, Preparing
  <2>2. SetPath(New, 0) /\ 0 \in Nat
    BY <1>4 DEF OwnNew
  <2>. QED
    BY <2>1, <2>2, PathsKept
<1>5. CASE RenameNew
  <2>1. log' = log /\ durable' = durable
    BY <1>5 DEF RenameNew, store
  <2>2. CASE p = Account
    <3>1. disk'[p].by # "archive" /\ disk'[p].ino = disk[New].ino /\ New \in Here
      BY <1>5, <2>2, Renamed
    <3>2. disk[p] # None => disk[p].ino # disk[New].ino
      BY <3>1 DEF IInv, DiskInv, Here, Exists, Mine
    <3>. QED
      BY <2>1, <3>1, <3>2, LogStays DEF NewFileAt
  <2>3. CASE p # Account
    BY <1>5, <2>1, <2>3, Renamed, LogStays DEF Mine
  <2>. QED
    BY <2>2, <2>3
<1>6. CASE MakeHome
  BY <1>6, HomeMade, LogStays DEF MakeHome, store, Mine
<1>7. CASE OwnHome
  <2>1. Home \in Here /\ Home \in Mine /\ disk' = disk /\ births' = births /\ pc \in Preparing
    BY <1>7 DEF OwnHome, Goto, env, Paths, Here, Mine, IInv, StageInv, Preparing
  <2>2. SetPath(Home, 1000)
    BY <1>7 DEF OwnHome
  <2>3. 1000 \in Nat
    OBVIOUS
  <2>. QED
    BY <2>1, <2>2, <2>3, PathsKept
<1>8. CASE Started
  BY <1>8, DiskAndLogStay DEF Started, Checkpoint, IInv, ControlInv
<1>. QED
  BY <1>1, <1>2, <1>3, <1>4, <1>5, <1>6, <1>7, <1>8

LEMMA OthersKeep ==
  ASSUME IInv, NEW p \in Paths \ Mine, PowerLoss \/ \E q \in Paths : Recreate(q)
  PROVE  Kept(p)
<1>1. CASE PowerLoss
  <2>1. PICK kept \in SUBSET {i \in Inodes : log[i] # durable[i]} :
          log' = [i \in Inodes |-> IF i \in kept THEN log[i] ELSE durable[i]]
    BY <1>1 DEF PowerLoss
  <2>2. disk' = disk /\ durable' = log'
    BY <1>1 DEF PowerLoss
  <2>3. p \in Here => disk[p].ino \in Inodes
    BY AdoptedTaken DEF IInv, StoreInv
  <2>. QED
    BY <2>1, <2>2, <2>3 DEF Kept, StaysFile, StaysLogged, SameMode, Here, Exists
<1>2. ASSUME NEW q \in Paths, Recreate(q)
      PROVE  Kept(p)
  <2>1. PICK i \in FreeInodes(q), b \in FreshBirths, mode \in Modes :
          disk' = [disk EXCEPT ![q] = File(i, b, mode, disk[q].text, "host")]
    BY <1>2 DEF Recreate
  <2>2. disk'[q].by = "host" /\ disk'[q].born = b
    BY <2>1 DEF File, IInv, DiskInv
  <2>3. /\ \A r \in Paths : r # q => disk'[r] = disk[r]
        /\ q \in Here => disk[q].born # b
    BY <2>1 DEF FreshBirths, IInv, DiskInv
  <2>4. p = q => NewFileAt(p)
    BY <2>2, <2>3 DEF NewFileAt, Here, Exists
  <2>. QED
    BY <1>2, <2>3, <2>4, LogStays DEF Recreate, store
<1>. QED
  BY <1>1, <1>2

(* Every step but those that write or record the entries of an archive.    *)
LEMMA StepKeeps ==
  ASSUME IInv, [Next]_vars, pc \notin {"entries", "own"}, NEW p \in Paths \ Mine
  PROVE  Kept(p)
<1>1. CASE Extract \/ RemoveMarker \/ Decompress \/ StartSession \/ Replay \/ Scanned
  BY <1>1, DiskAndLogStay
  DEF Extract, RemoveMarker, Decompress, StartSession, Replay, Scanned, store
<1>2. CASE WriteEntry \/ CloseArchive \/ RecordEntry \/ CheckpointEntries
  BY <1>2 DEF WriteEntry, CloseArchive, RecordEntry, CheckpointEntries
<1>3. CASE WriteMarker \/ EndSession \/ Fail \/ Kill \/ BirthsChange \/ Rest \/ UNCHANGED vars
  BY <1>3, DiskAndLogStay DEF WriteMarker, EndSession, Fail, Kill, BirthsChange, Rest, vars, store
<1>4. CASE WidenDirectory \/ Publish
  BY <1>4, ScanKeeps
<1>5. CASE \E q \in Paths : RecordDirectory(q) \/ Visit(q) \/ WidenFile(q) \/ Recreate(q)
  <2>1. CASE \E q \in Paths : Visit(q)
    BY <2>1, DiskAndLogStay DEF Visit, store
  <2>. QED
    BY <1>5, <2>1, ScanKeeps, OthersKeep
<1>6. CASE Found \/ Stage \/ Fill \/ OwnNew \/ RenameNew \/ MakeHome \/ OwnHome \/ Started
  BY <1>6, UserKeeps
<1>7. CASE PowerLoss
  BY <1>7, OthersKeep
<1>. QED
  BY <1>1, <1>2, <1>3, <1>4, <1>5, <1>6, <1>7 DEF Next

-----------------------------------------------------------------------------
(* Owned in terms of Adopt, before and after a step.                       *)
Seen(f, b, o) == [uid |-> Adopt(f, b, o).uid, mode |-> Adopt(f, b, o).mode]

LEMMA OwnedSeen ==
  ASSUME DiskInv, EnvInv, NEW p \in Here, NEW t \in Owners
  PROVE  Owned(p, t) = Seen(disk[p], births, t[disk[p].ino])
BY AdoptedTaken DEF Owned, Taken, Seen

LEMMA AdoptedTakenNext ==
  ASSUME DiskInv', EnvInv', log' \in Owners, NEW p \in Here'
  PROVE  Adopted(p, log)' = Taken(p, log)'
<1>1. disk'[p] \in Files /\ disk'[p].ino \in Inodes
  BY DEF DiskInv, Here, Exists, Files
<1>2. log'[disk'[p].ino] \in Owner \cup {None}
  BY <1>1 DEF Owners
<1>3. disk'[p].born \in Births /\ disk'[p].born # 0
  BY <1>1, InstallBoundsAssumption DEF Files
<1>. QED
  BY <1>1, <1>2, <1>3 DEF Adopted, Identify, Taken, Adopt, EnvInv

LEMMA SeenAgain ==
  ASSUME NEW f \in Files, NEW g \in Files, g.born = f.born,
         NEW b \in BOOLEAN, NEW o \in Owner \cup {None}
  PROVE  /\ g.mode = f.mode \/ Holds(f, b, o) => Seen(g, b, o) = Seen(f, b, o)
         /\ g.mode = f.mode => Seen(g, b, Adopt(f, b, o)) = Seen(f, b, o)
<1>1. g.mode = f.mode => \A r : Adopt(g, b, r) = Adopt(f, b, r)
  BY DEF Adopt
<1>2. Holds(f, b, o) => Adopt(g, b, o) = Adopt(f, b, o)
  BY AdoptHeld
<1>3. Adopt(f, b, Adopt(f, b, o)) = Adopt(f, b, o)
  BY AdoptAgain
<1>. QED
  BY <1>1, <1>2, <1>3 DEF Seen

(* No start changes what a file that it does not own itself will be taken  *)
(* for by the next start: what Scan makes of a file it makes of it again,  *)
(* and a mode is widened only under a synchronized record.                 *)
THEOREM ModesArePreserved == Spec => ModePreserved
<1>1. ASSUME IInv, IInv', [Next]_vars, NEW p \in Paths,
             Exists(p), disk'[p] # None, pc # "own", Synced(p), births' = births,
             disk'[p].ino = disk[p].ino, disk'[p].born = disk[p].born,
             pc # "entries", p \notin {New, Home}
      PROVE  Owned(p, log) = Owned(p, log)'
  <2>1. StaysLogged(p) \/ IsAdopted(p)
    BY <1>1, StepKeeps DEF Kept, NewFileAt, Mine, Exists
  <2>2. p \in Here /\ p \in Here' /\ log \in Owners /\ log' \in Owners /\ births \in BOOLEAN
    BY <1>1 DEF Here, Exists, IInv, StoreInv, EnvInv
  <2>3. disk[p] \in Files /\ disk'[p] \in Files /\ log[disk[p].ino] \in Owner \cup {None}
    BY <1>1, <2>2, AdoptedTaken DEF IInv, DiskInv, Exists
  <2>4. Owned(p, log) = Seen(disk[p], births, log[disk[p].ino])
    BY <1>1, <2>2, OwnedSeen DEF IInv
  <2>5. Owned(p, log)' = Seen(disk'[p], births, log'[disk[p].ino])
    <3>1. Adopted(p, log)' = Adopt(disk'[p], births', log'[disk'[p].ino])
      BY <1>1, <2>2, AdoptedTakenNext DEF IInv, Taken
    <3>. QED
      BY <1>1, <3>1 DEF Owned, Seen
  <2>6. CASE StaysLogged(p)
    <3>1. log'[disk[p].ino] = log[disk[p].ino]
      BY <1>1, <2>6 DEF StaysLogged, Synced
    <3>2. disk'[p].mode = disk[p].mode \/ Holds(disk[p], births, log[disk[p].ino])
      BY <2>6 DEF StaysLogged, SameMode, Held
    <3>. QED
      BY <1>1, <2>2, <2>3, <2>4, <2>5, <3>1, <3>2, SeenAgain
  <2>7. CASE IsAdopted(p)
    <3>1. log'[disk[p].ino] = Adopt(disk[p], births, log[disk[p].ino])
      BY <2>7 DEF IsAdopted, Taken
    <3>2. disk'[p].mode = disk[p].mode
      BY <2>7 DEF IsAdopted, SameMode
    <3>. QED
      BY <1>1, <2>2, <2>3, <2>4, <2>5, <3>1, <3>2, SeenAgain
  <2>. QED
    BY <2>1, <2>6, <2>7
<1>2. IInv /\ IInv' /\ [Next]_vars =>
        [\A p \in Paths :
           /\ Exists(p) /\ disk'[p] # None /\ pc # "own" /\ Synced(p) /\ births' = births
           /\ disk'[p].ino = disk[p].ino /\ disk'[p].born = disk[p].born
           /\ pc # "entries" /\ p \notin {New, Home}
           => Owned(p, log) = Owned(p, log)']_vars
  BY <1>1
<1>. QED
  BY <1>2, InstallCorrect, PTL DEF Spec, ModePreserved

-----------------------------------------------------------------------------
(* The marker.  Where an old marker may survive its removal (RemoveMarker  *)
(* only logs the failure) none of this holds.                              *)

LEMMA MarkerInvInit == ASSUME Init PROVE MarkerInv
BY DEF Init, MarkerInv

(* Most steps leave the marker and the archive, and enter no new phase.    *)
LEMMA MarkerStays ==
  ASSUME MarkerInv, marker' = marker, tar' = tar,
         job' = "extract" => job = "extract" /\ (pc' = "unmark" \/ pc # "unmark"),
         job' = "extract" /\ pc' \notin {"unmark", "unpack", "entries"}
           => pc \notin {"unmark", "unpack", "entries"}
  PROVE  MarkerInv'
BY DEF MarkerInv

LEMMA MarkerGoes ==
  ASSUME MarkerInv, marker' => marker, tar' => tar, job' = "none"
  PROVE  MarkerInv'
BY DEF MarkerInv

LEMMA MarkerInvNext ==
  ASSUME "marker" \notin Faults, IInv, MarkerInv, [Next]_vars
  PROVE  MarkerInv'
<1>1. CASE Extract
  BY <1>1, MarkerStays DEF Extract, IInv, ControlInv, MarkerInv
<1>2. CASE StartSession
  BY <1>2, MarkerStays DEF StartSession
<1>3. CASE RemoveMarker
  BY <1>3 DEF RemoveMarker, Goto, MarkerInv
<1>4. CASE Decompress
  BY <1>4 DEF Decompress, Goto, MarkerInv, IInv, ControlInv, Starting
<1>5. CASE CloseArchive
  BY <1>5 DEF CloseArchive, Goto, MarkerInv, IInv, ControlInv, Starting
<1>6. CASE WriteMarker
  BY <1>6 DEF WriteMarker, Over, MarkerInv, IInv, ControlInv, Starting
<1>7. CASE WriteEntry \/ RecordEntry \/ CheckpointEntries
  BY <1>7, MarkerStays DEF WriteEntry, RecordEntry, CheckpointEntries, Goto
<1>8. CASE Replay \/ WidenDirectory \/ Publish \/ Scanned
  BY <1>8, MarkerStays DEF Replay, WidenDirectory, Publish, Scanned, Goto
<1>9. CASE \E p \in Paths : RecordDirectory(p) \/ Visit(p) \/ WidenFile(p)
  BY <1>9, MarkerStays DEF RecordDirectory, Visit, WidenFile, Goto
<1>10. CASE Found \/ Stage \/ Fill \/ OwnNew
  BY <1>10, MarkerStays DEF Found, Stage, Fill, OwnNew, Goto
<1>11. CASE RenameNew \/ MakeHome \/ OwnHome \/ Started
  BY <1>11, MarkerStays DEF RenameNew, MakeHome, OwnHome, Started, Goto
<1>12. CASE EndSession \/ Fail \/ Kill \/ PowerLoss
  <2>1. job' = "none"
    BY <1>12 DEF EndSession, Fail, Kill, PowerLoss, Over
  <2>2. marker' = marker \/ marker' = FALSE
    BY <1>12 DEF EndSession, Fail, Kill, PowerLoss
  <2>3. tar' = tar \/ (Fail /\ tar' = (tar /\ pc \notin {"unpack", "entries"}))
    BY <1>12 DEF EndSession, Fail, Kill, PowerLoss
  <2>4. tar' => tar
    BY <2>3
  <2>. QED
    BY <2>1, <2>2, <2>4, MarkerGoes
<1>13. CASE BirthsChange \/ Rest \/ UNCHANGED vars \/ \E p \in Paths : Recreate(p)
  BY <1>13, MarkerStays DEF BirthsChange, Rest, Recreate, vars
<1>. QED
  BY <1>1, <1>2, <1>3, <1>4, <1>5, <1>6, <1>7, <1>8, <1>9, <1>10, <1>11, <1>12, <1>13 DEF Next

-----------------------------------------------------------------------------
(* The entries are recorded one by one, and the marker comes after all.    *)

LEMMA OwnInvInit == ASSUME Init PROVE OwnInv
BY DEF Init, OwnInv, RestIsArchive, RecordsComing, RecordsThere

LEMMA RestIsArchiveNext ==
  ASSUME IInv, RestIsArchive, [Next]_vars
  PROVE  RestIsArchive'
<1>1. CASE Extract \/ StartSession \/ RemoveMarker \/ Decompress \/ WriteEntry \/ CloseArchive
  BY <1>1 DEF Extract, StartSession, RemoveMarker, Decompress, WriteEntry, CloseArchive, Goto,
              RestIsArchive
<1>2. CASE RecordEntry \/ CheckpointEntries \/ WriteMarker
  BY <1>2 DEF RecordEntry, CheckpointEntries, WriteMarker, Goto, Over, RestIsArchive
<1>3. CASE Replay \/ WidenDirectory \/ Publish \/ Scanned
  BY <1>3 DEF Replay, WidenDirectory, Publish, Scanned, Goto, RestIsArchive
<1>4. CASE \E p \in Paths : RecordDirectory(p) \/ Visit(p) \/ WidenFile(p)
  BY <1>4 DEF RecordDirectory, Visit, WidenFile, Goto, RestIsArchive
<1>5. CASE Found \/ Stage \/ Fill \/ OwnNew \/ RenameNew \/ MakeHome \/ OwnHome \/ Started
  <2>1. pc' \notin {"open", "scan", "widen dir", "widen"}
    <3>1. CASE Found \/ Stage \/ Fill \/ OwnNew
      BY <3>1 DEF Found, Stage, Fill, OwnNew, Goto
    <3>2. CASE RenameNew
      BY <3>2 DEF RenameNew, Goto
    <3>3. CASE MakeHome
      BY <3>3 DEF MakeHome, Goto
    <3>4. CASE OwnHome
      <4>1. Goto("checkpoint")
        BY <3>4, Zenon DEF OwnHome
      <4>. QED
        BY <4>1 DEF Goto
    <3>5. CASE Started
      BY <3>5 DEF Started, Goto
    <3>. QED
      BY <1>5, <3>1, <3>2, <3>3, <3>4, <3>5
  <2>. QED
    BY <2>1 DEF RestIsArchive
<1>6. CASE EndSession \/ Fail \/ Kill \/ PowerLoss
  BY <1>6 DEF EndSession, Fail, Kill, PowerLoss, Over, RestIsArchive
<1>7. CASE BirthsChange \/ Rest \/ UNCHANGED vars \/ \E p \in Paths : Recreate(p)
  BY <1>7 DEF BirthsChange, Rest, Recreate, vars, RestIsArchive
<1>. QED
  BY <1>1, <1>2, <1>3, <1>4, <1>5, <1>6, <1>7 DEF Next

(* The one more entry that is recorded agrees, and no later one of the     *)
(* same path was recorded before; the others keep their records.           *)
LEMMA RecordsComeOn ==
  ASSUME IInv, RecordsComing, RecordEntry
  PROVE  RecordsComing'
<1>1. PICK done \in 0 .. Len(Archive) :
        /\ Len(rest) = Len(Archive) - done
        /\ \A j \in 1 .. Len(rest) : rest[j] = Archive[done + j]
        /\ \A n \in DOMAIN Archive : n <= done => Marked(n, log)
  BY DEF RecordEntry, RecordsComing
<1>2. rest \in Seq(Entry) /\ rest # << >> /\ rest' = Tail(rest) /\ disk' = disk
  BY DEF RecordEntry, IInv, ControlInv
<1>3. Len(rest) \in Nat /\ Len(rest) >= 1 /\ Len(Archive) \in Nat
  BY <1>2, InstallPathsAssumption
<1>4. done + 1 \in 0 .. Len(Archive) /\ rest[1] = Archive[done + 1]
  BY <1>1, <1>3
<1>5. /\ Len(rest') = Len(Archive) - (done + 1)
      /\ \A j \in 1 .. Len(rest') : rest'[j] = Archive[(done + 1) + j]
  BY <1>1, <1>2, <1>3
<1>6. PICK e : e = Archive[done + 1]
  OBVIOUS
<1>7. /\ e.path \in Here
      /\ Marks(e, disk[e.path], log'[disk[e.path].ino])
      /\ \A j \in Inodes : j # disk[e.path].ino => log'[j] = log[j]
  BY <1>4, <1>6, RecordEntrySets
<1>8. ASSUME NEW n \in DOMAIN Archive, n <= done + 1
      PROVE  Marked(n, log)'
  <2>1. n \in 1 .. Len(Archive) /\ done + 1 \in DOMAIN Archive
    BY <1>3, <1>4, InstallPathsAssumption
  <2>2. CASE n = done + 1
    BY <1>2, <1>6, <1>7, <2>2 DEF Marked, MarkedOn
  <2>3. CASE n # done + 1
    <3>1. n <= done /\ Marked(n, log)
      BY <1>1, <1>8, <2>1, <2>3
    <3>2. Last(n) => Archive[n].path # e.path
      BY <1>6, <2>1, <3>1 DEF Last
    <3>3. ASSUME Archive[n].path # e.path, disk[Archive[n].path] # None
          PROVE  log'[disk[Archive[n].path].ino] = log[disk[Archive[n].path].ino]
      <4>1. Archive[n].path \in Here
        BY <3>3 DEF Here, Exists, Paths
      <4>2. disk[Archive[n].path].ino \in Inodes
        BY <4>1, AdoptedTaken DEF IInv, StoreInv
      <4>3. disk[Archive[n].path].ino # disk[e.path].ino
        BY <1>7, <3>3, <4>1 DEF IInv, DiskInv
      <4>. QED
        BY <1>7, <4>2, <4>3
    <3>. QED
      BY <1>2, <3>1, <3>2, <3>3 DEF Marked, MarkedOn
  <2>. QED
    BY <2>2, <2>3
<1>. QED
  BY <1>4, <1>5, <1>8 DEF RecordsComing

LEMMA RecordsComingNext ==
  ASSUME IInv, RestIsArchive, RecordsComing, [Next]_vars
  PROVE  RecordsComing'
<1>1. CASE Scanned
  <2>1. CASE pc' = "own"
    <3>1. rest' = Archive
      BY <1>1, <2>1 DEF Scanned, Goto, RestIsArchive, IInv, ControlInv, Starting
    <3>2. Len(Archive) \in Nat /\ DOMAIN Archive = 1 .. Len(Archive)
      BY InstallPathsAssumption
    <3>3. /\ 0 \in 0 .. Len(Archive) /\ Len(rest') = Len(Archive) - 0
          /\ \A j \in 1 .. Len(rest') : rest'[j] = Archive[0 + j]
          /\ \A n \in DOMAIN Archive : ~(n <= 0)
      BY <3>1, <3>2
    <3>. QED
      BY <3>3 DEF RecordsComing
  <2>2. CASE pc' # "own"
    BY <2>2 DEF RecordsComing
  <2>. QED
    BY <2>1, <2>2
<1>2. CASE RecordEntry
  BY <1>2, RecordsComeOn
<1>3. CASE UNCHANGED vars
  BY <1>3 DEF RecordsComing, Marked, vars, store
<1>4. ASSUME Next, ~Scanned, ~RecordEntry
      PROVE  pc' # "own" \/ UNCHANGED vars
  <2>1. CASE Extract \/ StartSession \/ RemoveMarker \/ Decompress \/ WriteEntry \/ CloseArchive
    BY <2>1 DEF Extract, StartSession, RemoveMarker, Decompress, WriteEntry, CloseArchive, Goto
  <2>2. CASE CheckpointEntries \/ WriteMarker
    BY <2>2 DEF CheckpointEntries, WriteMarker, Goto, Over
  <2>3. CASE Replay \/ WidenDirectory \/ Publish
    BY <2>3 DEF Replay, WidenDirectory, Publish, Goto
  <2>4. CASE \E p \in Paths : RecordDirectory(p) \/ Visit(p) \/ WidenFile(p)
    BY <2>4 DEF RecordDirectory, Visit, WidenFile, Goto
  <2>5. CASE Found \/ Stage \/ Fill \/ OwnNew \/ RenameNew \/ MakeHome \/ OwnHome \/ Started
    BY <2>5 DEF Found, Stage, Fill, OwnNew, RenameNew, MakeHome, OwnHome, Started, Goto
  <2>6. CASE EndSession \/ Fail \/ Kill \/ PowerLoss
    BY <2>6 DEF EndSession, Fail, Kill, PowerLoss, Over
  <2>7. CASE BirthsChange \/ Rest \/ \E p \in Paths : Recreate(p)
    BY <2>7 DEF BirthsChange, Rest, Recreate
  <2>. QED
    BY <1>4, <2>1, <2>2, <2>3, <2>4, <2>5, <2>6, <2>7 DEF Next
<1>. QED
  BY <1>1, <1>2, <1>3, <1>4 DEF RecordsComing

(* A kept file keeps the owner of its entry.                               *)
LEMMA KeptStaysMarked ==
  ASSUME IInv, NEW n \in DOMAIN Archive, Archive[n].path \notin Mine => Kept(Archive[n].path),
         Marked(n, log), Marked(n, durable)
  PROVE  Marked(n, log)' /\ Marked(n, durable)'
<1>. DEFINE e == Archive[n]
<1>. DEFINE p == e.path
<1>1. p \in Paths
  BY DEF Paths
<1>. SUFFICES ASSUME Last(n), p \notin Mine, disk'[p] # None, disk'[p].by = "archive"
              PROVE  /\ Marks(e, disk'[p], log'[disk'[p].ino])
                     /\ Marks(e, disk'[p], durable'[disk'[p].ino])
  BY DEF Marked, MarkedOn, Mine
<1>2. StaysFile(p) /\ (StaysLogged(p) \/ IsAdopted(p))
  BY DEF Kept, NewFileAt
<1>3. Marks(e, disk[p], log[disk[p].ino]) /\ Marks(e, disk[p], durable[disk[p].ino])
  BY <1>2 DEF StaysFile, Marked, MarkedOn, Mine
<1>4. p \in Here /\ disk[p] \in Files /\ log[disk[p].ino] \in Owner \cup {None} /\ births \in BOOLEAN
  <2>1. p \in Here
    BY <1>1, <1>2 DEF StaysFile, Here, Exists
  <2>. QED
    BY <2>1, AdoptedTaken DEF IInv, StoreInv, EnvInv
<1>5. Marks(e, disk[p], Taken(p, log))
  BY <1>3, <1>4, AdoptMarks DEF Taken
<1>6. Marks(e, disk[p], log'[disk[p].ino]) /\ Marks(e, disk[p], durable'[disk[p].ino])
  BY <1>2, <1>3, <1>5 DEF StaysLogged, IsAdopted
<1>. QED
  BY <1>2, <1>6 DEF StaysFile, Marks

LEMMA RecordsThereNext ==
  ASSUME "marker" \notin Faults, IInv, MarkerInv, RecordsComing, RecordsThere, [Next]_vars
  PROVE  RecordsThere'
<1>1. CASE CheckpointEntries
  <2>1. recs = log /\ log' = log /\ durable' = log /\ disk' = disk
    BY <1>1 DEF CheckpointEntries, Checkpoint, IInv, ControlInv
  <2>2. PICK done \in 0 .. Len(Archive) :
          /\ Len(rest) = Len(Archive) - done
          /\ \A n \in DOMAIN Archive : n <= done => Marked(n, log)
    BY <1>1 DEF CheckpointEntries, RecordsComing
  <2>3. done = Len(Archive) /\ DOMAIN Archive = 1 .. Len(Archive)
    BY <1>1, <2>2, InstallPathsAssumption DEF CheckpointEntries
  <2>4. \A n \in DOMAIN Archive : Marked(n, log)
    BY <2>2, <2>3
  <2>. QED
    BY <2>1, <2>4 DEF RecordsThere, Marked
<1>2. ASSUME ~CheckpointEntries, marker' \/ pc' = "mark"
      PROVE  (marker \/ pc = "mark") /\ pc \notin {"entries", "own"}
  <2>1. CASE Extract \/ StartSession
    BY <1>2, <2>1 DEF Extract, StartSession
  <2>2. CASE RemoveMarker \/ Decompress \/ WriteEntry \/ CloseArchive \/ RecordEntry
    BY <1>2, <2>2 DEF RemoveMarker, Decompress, WriteEntry, CloseArchive, RecordEntry, Goto,
                      MarkerInv, IInv, ControlInv, Starting
  <2>3. CASE Replay \/ WidenDirectory \/ Publish \/ Scanned
    BY <1>2, <2>3 DEF Replay, WidenDirectory, Publish, Scanned, Goto
  <2>4. CASE \E p \in Paths : RecordDirectory(p) \/ Visit(p) \/ WidenFile(p)
    <3>1. marker' = marker /\ pc' # "mark" /\ pc \notin {"entries", "own"}
      BY <2>4 DEF RecordDirectory, Visit, WidenFile, Goto
    <3>. QED
      BY <1>2, <3>1
  <2>5. CASE Found \/ Stage \/ Fill \/ OwnNew \/ RenameNew \/ MakeHome \/ OwnHome \/ Started
    BY <1>2, <2>5 DEF Found, Stage, Fill, OwnNew, RenameNew, MakeHome, OwnHome, Started, Goto
  <2>6. CASE WriteMarker
    BY <2>6 DEF WriteMarker
  <2>7. CASE EndSession \/ Fail \/ Kill \/ PowerLoss
    BY <1>2, <2>7 DEF EndSession, Fail, Kill, PowerLoss, Over, MarkerInv, IInv, ControlInv, Starting
  <2>8. CASE BirthsChange \/ Rest \/ UNCHANGED vars \/ \E p \in Paths : Recreate(p)
    BY <1>2, <2>8 DEF BirthsChange, Rest, Recreate, vars, MarkerInv, IInv, ControlInv, Starting
  <2>. QED
    BY <1>2, <2>1, <2>2, <2>3, <2>4, <2>5, <2>6, <2>7, <2>8 DEF Next
<1>3. ASSUME ~CheckpointEntries, marker' \/ pc' = "mark", NEW n \in DOMAIN Archive
      PROVE  Marked(n, log)' /\ Marked(n, durable)'
  <2>1. pc \notin {"entries", "own"} /\ Marked(n, log) /\ Marked(n, durable)
    BY <1>2, <1>3 DEF RecordsThere
  <2>2. Archive[n].path \in Paths
    BY DEF Paths
  <2>3. Archive[n].path \notin Mine => Kept(Archive[n].path)
    BY <2>1, <2>2, StepKeeps
  <2>. QED
    BY <2>1, <2>3, KeptStaysMarked
<1>. QED
  BY <1>1, <1>3 DEF RecordsThere

(* An old marker is gone before the archive is decompressed and a new one  *)
(* comes when every entry is recorded and synchronized; from then on no    *)
(* step takes a record away.                                               *)
THEOREM MarkerTells ==
  ASSUME "marker" \notin Faults
  PROVE  Spec => [](MarkerInv /\ OwnInv)
<1>1. Init => MarkerInv /\ OwnInv
  BY MarkerInvInit, OwnInvInit
<1>2. IInv /\ (MarkerInv /\ OwnInv) /\ [Next]_vars => (MarkerInv /\ OwnInv)'
  <2>. SUFFICES ASSUME IInv, MarkerInv, OwnInv, [Next]_vars
                PROVE  MarkerInv' /\ OwnInv'
    OBVIOUS
  <2>1. RestIsArchive /\ RecordsComing /\ RecordsThere
    BY DEF OwnInv
  <2>2. MarkerInv'
    BY MarkerInvNext
  <2>3. RestIsArchive' /\ RecordsComing' /\ RecordsThere'
    BY <2>1, RestIsArchiveNext, RecordsComingNext, RecordsThereNext
  <2>4. OwnInv'
    BY <2>3 DEF OwnInv
  <2>. QED
    BY <2>2, <2>4
<1>. QED
  BY <1>1, <1>2, InstallCorrect, PTL DEF Spec

(* Types, and no decompressed archive beside a marker: the old marker goes *)
(* first, and the archive is deleted before the entries are recorded.      *)
THEOREM TypeCorrect ==
  ASSUME "marker" \notin Faults
  PROVE  Spec => []TypeOK
<1>1. IInv /\ MarkerInv /\ OwnInv => TypeOK
  BY TypesOfInv DEF TypeOK, MarkerInv
<1>. QED
  BY <1>1, InstallCorrect, MarkerTells, PTL

(* While there is a ready marker, a recovery, and a power failure before   *)
(* it, leaves each extracted file the owner and the mode of its last entry *)
(* in the archive: every entry is recorded and synchronized before there   *)
(* is a marker, and what is adopted from a record is the record.           *)
THEOREM MarkersMeanOwned ==
  ASSUME "marker" \notin Faults
  PROVE  Spec => []MarkerMeansOwned
<1>1. ASSUME IInv, OwnInv
      PROVE  MarkerMeansOwned
  <2>. SUFFICES ASSUME marker, NEW n \in DOMAIN Archive, Last(n),
                       Archive[n].path \notin {New, Home}, Exists(Archive[n].path),
                       disk[Archive[n].path].by = "archive", NEW t \in {log, durable}
                PROVE  Owned(Archive[n].path, t)
                         = [uid |-> Archive[n].uid, mode |-> Archive[n].mode]
    BY DEF MarkerMeansOwned
  <2>. DEFINE e == Archive[n]
  <2>. DEFINE p == e.path
  <2>1. p \in Here /\ t \in Owners
    BY <1>1 DEF Here, Paths, IInv, StoreInv
  <2>2. /\ Adopted(p, t) = Adopt(disk[p], births, t[disk[p].ino])
        /\ disk[p] \in Files /\ t[disk[p].ino] \in Owner \cup {None} /\ births \in BOOLEAN
    BY <1>1, <2>1, AdoptedTaken DEF IInv, EnvInv, Taken
  <2>3. Marked(n, log) /\ Marked(n, durable)
    BY <1>1 DEF OwnInv, RecordsThere
  <2>4. Marks(e, disk[p], t[disk[p].ino])
    BY <2>3 DEF Marked, MarkedOn, Exists
  <2>5. Adopt(disk[p], births, t[disk[p].ino]).uid = e.uid
        /\ Adopt(disk[p], births, t[disk[p].ino]).mode = e.mode
    BY <2>2, <2>4, AdoptMarks
  <2>. QED
    BY <2>2, <2>5 DEF Owned
<1>2. IInv /\ MarkerInv /\ OwnInv => MarkerMeansOwned
  BY <1>1
<1>. QED
  BY <1>2, InstallCorrect, MarkerTells, PTL

-----------------------------------------------------------------------------
(* The account file.                                                       *)

LEMMA LinesInvNext ==
  ASSUME "read" \notin Faults, IInv, IInv', LinesInv, [Next]_vars
  PROVE  LinesInv'
<1>1. CASE Fill
  <2>1. /\ New \in Paths /\ Account \in Paths /\ Account # New
        /\ disk[New] \in Files
    BY <1>1, InstallPathsAssumption DEF Fill, Paths, IInv, StageInv, DiskInv, Exists
  <2>2. PICK lines \in SUBSET Lines :
          Read(lines) /\ disk' = [disk EXCEPT ![New].text = lines \cup {"user"}]
    BY <1>1 DEF Fill
  <2>3. lines = Lines
    BY <2>2 DEF Read
  <2>4. disk'[New].text = Lines \cup {"user"} /\ disk'[Account] = disk[Account]
    BY <2>1, <2>2, <2>3 DEF IInv, DiskInv, Files
  <2>5. Lines' = Lines
    BY <2>4 DEF Lines, Exists
  <2>. QED
    BY <2>4, <2>5 DEF LinesInv
<1>2. CASE OwnNew
  BY <1>2 DEF OwnNew, Goto, LinesInv, Lines, Exists
<1>3. CASE UNCHANGED vars
  BY <1>3 DEF vars, LinesInv, Lines, Exists
<1>4. ASSUME Next, ~Fill, ~OwnNew
      PROVE  pc' \notin {"own new", "rename"} \/ UNCHANGED vars
  <2>1. CASE Extract \/ StartSession \/ RemoveMarker \/ Decompress \/ WriteEntry \/ CloseArchive
    BY <2>1 DEF Extract, StartSession, RemoveMarker, Decompress, WriteEntry, CloseArchive, Goto
  <2>2. CASE RecordEntry \/ CheckpointEntries \/ WriteMarker
    BY <2>2 DEF RecordEntry, CheckpointEntries, WriteMarker, Goto, Over
  <2>3. CASE Replay \/ WidenDirectory \/ Publish \/ Scanned
    BY <2>3 DEF Replay, WidenDirectory, Publish, Scanned, Goto
  <2>4. CASE \E p \in Paths : RecordDirectory(p) \/ Visit(p) \/ WidenFile(p)
    BY <2>4 DEF RecordDirectory, Visit, WidenFile, Goto
  <2>5. CASE Found \/ Stage \/ RenameNew \/ MakeHome \/ OwnHome \/ Started
    BY <2>5 DEF Found, Stage, RenameNew, MakeHome, OwnHome, Started, Goto
  <2>6. CASE EndSession \/ Fail \/ Kill \/ PowerLoss
    BY <2>6 DEF EndSession, Fail, Kill, PowerLoss, Over
  <2>7. CASE BirthsChange \/ Rest \/ \E p \in Paths : Recreate(p)
    BY <2>7 DEF BirthsChange, Rest, Recreate
  <2>. QED
    BY <1>4, <2>1, <2>2, <2>3, <2>4, <2>5, <2>6, <2>7 DEF Next
<1>. QED
  BY <1>1, <1>2, <1>3, <1>4 DEF LinesInv

AccountKept == disk'[Account] # None /\ disk[Account].text \subseteq disk'[Account].text

LEMMA StepKeepsAccount ==
  ASSUME IInv, LinesInv, [Next]_vars, pc # "entries", Exists(Account)
  PROVE  AccountKept
<1>1. Account \in Here /\ Account \notin {New, Home} /\ New \in Paths
  BY InstallPathsAssumption DEF Here, Paths
<1>2. CASE disk' = disk
  BY <1>2 DEF AccountKept, Exists
<1>3. CASE WidenDirectory
  <2>1. at \in Here
    BY <1>3 DEF WidenDirectory, IInv, ScanInv
  <2>. QED
    BY <1>1, <1>3, <2>1, Widened DEF WidenDirectory, IInv, AccountKept, Here, Exists
<1>4. ASSUME NEW p \in Paths, WidenFile(p)
      PROVE  AccountKept
  <2>1. p \in Here
    BY <1>4 DEF WidenFile, IInv, ScanInv
  <2>. QED
    BY <1>1, <1>4, <2>1, Widened DEF WidenFile, IInv, AccountKept, Here, Exists
<1>5. CASE Stage
  <2>1. disk'[Account] = disk[Account]
    BY <1>1, <1>5 DEF Stage, IInv, DiskInv, Here
  <2>. QED
    BY <2>1 DEF AccountKept, Exists
<1>6. CASE Fill
  <2>1. disk'[Account] = disk[Account]
    BY <1>1, <1>6 DEF Fill, IInv, DiskInv, Here
  <2>. QED
    BY <2>1 DEF AccountKept, Exists
<1>7. CASE RenameNew
  <2>1. Lines \subseteq disk[New].text
    BY <1>7 DEF RenameNew, LinesInv
  <2>2. disk'[Account] \in Files /\ disk'[Account].text = disk[New].text
    BY <1>7, Renamed
  <2>. QED
    BY <2>1, <2>2, InstallBoundsAssumption DEF Lines, AccountKept
<1>8. CASE MakeHome
  <2>1. disk'[Account] = disk[Account]
    BY <1>1, <1>8, HomeMade DEF Here
  <2>. QED
    BY <2>1 DEF AccountKept, Exists
<1>9. ASSUME NEW p \in Paths, Recreate(p)
      PROVE  AccountKept
  <2>1. PICK i \in FreeInodes(p), b \in FreshBirths, mode \in Modes :
          disk' = [disk EXCEPT ![p] = File(i, b, mode, disk[p].text, "host")]
    BY <1>9 DEF Recreate
  <2>2. disk[p].text \in SUBSET Text
    BY <1>9 DEF Recreate, Exists, IInv, DiskInv, Files
  <2>3. Here' = Here \cup {p}
    BY <2>1, <2>2, NewFile DEF IInv
  <2>4. disk'[Account].text = disk[Account].text
    BY <1>1, <2>1 DEF File, IInv, DiskInv, Here
  <2>. QED
    BY <1>1, <2>3, <2>4 DEF AccountKept, Here, Exists
<1>10. ASSUME Next, ~WidenDirectory, ~Stage, ~Fill, ~RenameNew, ~MakeHome,
              \A p \in Paths : ~WidenFile(p) /\ ~Recreate(p)
       PROVE  disk' = disk
  <2>1. CASE Extract \/ StartSession \/ RemoveMarker \/ Decompress \/ WriteEntry \/ CloseArchive
    BY <2>1 DEF Extract, StartSession, RemoveMarker, Decompress, WriteEntry, CloseArchive
  <2>2. CASE RecordEntry \/ CheckpointEntries \/ WriteMarker
    BY <2>2 DEF RecordEntry, CheckpointEntries, WriteMarker
  <2>3. CASE Replay \/ Publish \/ Scanned
    BY <2>3 DEF Replay, Publish, Scanned
  <2>4. CASE \E p \in Paths : RecordDirectory(p) \/ Visit(p)
    BY <2>4 DEF RecordDirectory, Visit
  <2>5. CASE Found \/ OwnNew \/ OwnHome \/ Started
    BY <2>5 DEF Found, OwnNew, OwnHome, Started
  <2>6. CASE EndSession \/ Fail \/ Kill \/ PowerLoss
    BY <2>6 DEF EndSession, Fail, Kill, PowerLoss
  <2>7. CASE BirthsChange \/ Rest
    BY <2>7 DEF BirthsChange, Rest, vars
  <2>. QED
    BY <1>10, <2>1, <2>2, <2>3, <2>4, <2>5, <2>6, <2>7 DEF Next
<1>11. CASE UNCHANGED vars
  BY <1>2, <1>11 DEF vars
<1>. QED
  BY <1>2, <1>3, <1>4, <1>5, <1>6, <1>7, <1>8, <1>9, <1>10, <1>11

(* The account file is never seen without lines it had: the temporary has  *)
(* them all before it is renamed over it.  A read error, which the code    *)
(* takes for the end of the file, would lose them.                         *)
THEOREM AccountsAreKept ==
  ASSUME "read" \notin Faults
  PROVE  Spec => AccountsKept
<1>1. Init => LinesInv
  BY DEF Init, LinesInv
<1>2. IInv /\ IInv' /\ LinesInv /\ [Next]_vars => LinesInv'
  BY LinesInvNext
<1>3. IInv /\ LinesInv /\ [Next]_vars =>
        [Exists(Account) /\ pc # "entries"
           => disk'[Account] # None /\ disk[Account].text \subseteq disk'[Account].text]_vars
  BY StepKeepsAccount DEF AccountKept
<1>. QED
  BY <1>1, <1>2, <1>3, InstallCorrect, PTL DEF Spec, AccountsKept
=============================================================================
