--------------------------- MODULE OwnershipStore ---------------------------
(***************************************************************************)
(* The ownership store shared by the tracers of one rootfs: a mapped table *)
(* published under a generation counter (`version'), a journal and a       *)
(* snapshot on disk, and a writer lock taken with flock.                   *)
(*                                                                         *)
(* A step is one access that another process, a kill or a power failure    *)
(* can tell apart.  Accesses to fields that only the lock holder reads     *)
(* (dirty, sequence, checkpoint) are merged with a neighbouring step.      *)
(* An owner record is reduced to three machine words, enough to tear it.   *)
(***************************************************************************)
EXTENDS Integers, Sequences

CONSTANTS
  Procs,              (* threads that hold the store open                  *)
  NoProc,
  Files,              (* inodes of the rootfs                              *)
  Attrs,              (* values of a word of a record (uid, mode)          *)
  NoAttr,             (* a zeroed word                                     *)
  Owners,             (* records callers pass to Set                       *)
  AnyOwner,           (* a null `previous'                                 *)
  Expected,           (* the `previous' records callers pass               *)
  Durabilities,       (* the `durable' arguments callers pass              *)
  CheckpointInterval,
  MaxSets, MaxCrashes, MaxFaults, MaxReplayFaults, MaxPowerLosses (* bounds *)

ASSUME ProcsAssumption == NoProc \notin Procs
ASSUME AttrsAssumption == NoAttr \notin Attrs
ASSUME OwnersAssumption ==
  Owners \subseteq [inode : {TRUE}, uid : Attrs, mode : Attrs]
ASSUME AnyOwnerAssumption == AnyOwner \notin Owners
ASSUME ExpectedAssumption == Expected \subseteq Owners \cup {AnyOwner}
ASSUME DurabilitiesAssumption == Durabilities \subseteq BOOLEAN
ASSUME IntervalAssumption == CheckpointInterval \in Nat \ {0}
ASSUME BoundsAssumption ==
  {MaxSets, MaxCrashes, MaxFaults, MaxReplayFaults, MaxPowerLosses} \subseteq Nat

VARIABLES
  version, table, sequence, checkpoint, dirty, failed, (* struct Shared    *)
  lock,          (* holder of writer.lock; while opening, of init.lock     *)
  journal,       (* complete records of the journal file                   *)
  torn,          (* an incomplete record ends the journal file             *)
  journalDisk,   (* records that survive a power failure                   *)
  snapshot, snapshotDisk,
  session,       (* "down": no process; "opening": the first one; "up"     *)
  pc, req,       (* where a process is and what it was asked to do         *)
  saved, got,    (* its locals: a copy of version, the words it has read   *)
  cursor,        (* Replay's position in the journal                       *)
  result,
  history,       (* history[n + 1] is the map the first n records produce  *)
  shown,         (* records visible when version was last even             *)
  promised,      (* records that durable acknowledgements vouch for        *)
  budget         (* what the bounds still allow                            *)

shared  == <<version, table, sequence, checkpoint, dirty, failed>>
disk    == <<journal, torn, journalDisk, snapshot, snapshotDisk>>
locals  == <<saved, got, cursor>>
ghosts  == <<history, shown, promised>>
vars    == <<shared, lock, disk, session, pc, req, locals, result, ghosts, budget>>

Empty    == [inode |-> FALSE, uid |-> NoAttr, mode |-> NoAttr]
EmptyMap == [f \in Files |-> Empty]
Slot     == [inode : BOOLEAN, uid : Attrs \cup {NoAttr}, mode : Attrs \cup {NoAttr}]
Record   == [seq : Nat, file : Files, owner : Owners]
Snapshot == [seq : Nat, map : [Files -> Slot]]

Odd(n)      == n % 2 = 1
MakeOdd(n)  == IF Odd(n) THEN n ELSE n + 1
MakeEven(n) == IF Odd(n) THEN n + 1 ELSE n
Latest      == history[Len(history)]
Recorded    == Len(history) - 1
AtMost(m, n) == IF m < n THEN m ELSE n

(* The last sequence number a snapshot and the journal beside it hold.     *)
LastSeq(snap, log) ==
  IF log # <<>> /\ log[Len(log)].seq > snap.seq THEN log[Len(log)].seq
                                                ELSE snap.seq
DurableSeq == LastSeq(snapshotDisk, journalDisk)

ReplayLabels == {"replay", "replayZero", "replaySnapshot", "replayJournal",
                 "replayPublish"}
SetLabels    == {"compare", "append", "sync", "advance", "putInode", "putUid",
                 "putMode", "putEnd", "clean"}
CheckpointLabels == {"ckptWrite", "ckptSync", "ckptTruncate", "ckptFlush"}
Critical     == ReplayLabels \cup SetLabels \cup CheckpointLabels
                  \cup {"unlock", "release"}
LookupLabels == {"lookup", "readVersion", "readInode", "readUid", "readMode",
                 "recheck"}
Labels       == Critical \cup LookupLabels \cup {"idle", "lock"}

NoRequest == [op |-> "none", file |-> NoProc, owner |-> Empty,
              durable |-> FALSE, previous |-> AnyOwner]
SetRequests    == [op : {"set"}, file : Files, owner : Owners, durable : BOOLEAN,
                   previous : Owners \cup {AnyOwner}]
LookupRequests == [op : {"lookup"}, file : Files, owner : {Empty},
                   durable : {FALSE}, previous : {AnyOwner}]
OtherRequests  == [op : {"none", "open"}, file : {NoProc}, owner : {Empty},
                   durable : {FALSE}, previous : {AnyOwner}]
Requests       == SetRequests \cup LookupRequests \cup OtherRequests
Results   == {"none", "ok", "same", "eagain", "error"}

Goto(p, label) == pc' = [pc EXCEPT ![p] = label]
Return(p, r)   == result' = [result EXCEPT ![p] = r]
(* A process returns to its caller: its locals are gone.                   *)
ReturnToCaller(p) == /\ req' = [req EXCEPT ![p] = NoRequest]
                     /\ saved' = [saved EXCEPT ![p] = 0]
                     /\ got' = [got EXCEPT ![p] = Empty]
                     /\ result' = [result EXCEPT ![p] = "none"]
Spend(what)    == /\ budget[what] > 0
                  /\ budget' = [budget EXCEPT ![what] = @ - 1]

Init ==
  /\ version = 0 /\ table = EmptyMap /\ sequence = 0 /\ checkpoint = 0
  /\ dirty = FALSE /\ failed = FALSE
  /\ lock = NoProc
  /\ journal = <<>> /\ torn = FALSE /\ journalDisk = <<>>
  /\ snapshot = [seq |-> 0, map |-> EmptyMap] /\ snapshotDisk = snapshot
  /\ session = "down"
  /\ pc = [p \in Procs |-> "idle"]
  /\ req = [p \in Procs |-> NoRequest]
  /\ saved = [p \in Procs |-> 0]
  /\ got = [p \in Procs |-> Empty]
  /\ cursor = 1
  /\ result = [p \in Procs |-> "none"]
  /\ history = <<EmptyMap>> /\ shown = 0
  /\ promised = 0
  /\ budget = [set |-> MaxSets, crash |-> MaxCrashes, fault |-> MaxFaults,
               replayFault |-> MaxReplayFaults, power |-> MaxPowerLosses]

-----------------------------------------------------------------------------
(* Open, Lock and Unlock                                                   *)

(* The first opener holds init.lock and the lease exclusively, clears the  *)
(* table and replays; nobody else is in the session group.                 *)
OpenFirst(p) ==
  /\ session = "down"
  /\ session' = "opening"
  /\ lock' = p
  /\ req' = [req EXCEPT ![p] = [NoRequest EXCEPT !.op = "open"]]
  /\ version' = 0 /\ table' = EmptyMap /\ sequence' = 0 /\ checkpoint' = 0
  /\ dirty' = FALSE /\ failed' = FALSE
  /\ Goto(p, "replay")
  /\ UNCHANGED <<disk, locals, result, ghosts, budget>>

StartSet(p) ==
  /\ session = "up" /\ pc[p] = "idle"
  /\ \E f \in Files, o \in Owners, d \in Durabilities, prev \in Expected :
       req' = [req EXCEPT ![p] = [op |-> "set", file |-> f, owner |-> o,
                                  durable |-> d, previous |-> prev]]
  /\ Goto(p, "lock")
  /\ Spend("set")
  /\ UNCHANGED <<shared, lock, disk, session, locals, result, ghosts>>

StartLookup(p) ==
  /\ session = "up" /\ pc[p] = "idle"
  /\ \E f \in Files :
       req' = [req EXCEPT ![p] = [NoRequest EXCEPT !.op = "lookup", !.file = f]]
  /\ Goto(p, "lookup")
  /\ UNCHANGED <<shared, lock, disk, session, locals, result, ghosts, budget>>

(* Where Lock returns to: Lookup unlocks at once and tries again.          *)
Locked(p) == CASE req[p].op = "set"  -> "compare"
               [] req[p].op = "open" -> "ckptWrite"
               [] OTHER              -> "unlock"

(* Mutant: a shared flock.                                                 *)
SharedLock(p) ==
  /\ pc[p] = "lock"
  /\ lock' = p
  /\ IF dirty THEN Goto(p, "replay") ELSE Goto(p, Locked(p))
  /\ UNCHANGED <<shared, disk, session, req, locals, result, ghosts, budget>>

AcquireLock(p) ==
  /\ pc[p] = "lock" /\ lock = NoProc
  /\ lock' = p
  /\ \/ dirty /\ Goto(p, "replay") /\ UNCHANGED result
     \/ ~dirty /\ failed /\ Goto(p, "unlock") /\ Return(p, "error")
     \/ ~dirty /\ ~failed /\ Goto(p, Locked(p)) /\ UNCHANGED result
  /\ UNCHANGED <<shared, disk, session, req, locals, ghosts, budget>>

(* Unlock makes the version even, whoever left it odd.                     *)
UnlockVersion(p) ==
  /\ pc[p] = "unlock"
  /\ version' = MakeEven(version)
  /\ shown' = IF Odd(version) /\ ~failed /\ session = "up" THEN sequence ELSE shown
  /\ Goto(p, "release")
  /\ UNCHANGED <<table, sequence, checkpoint, dirty, failed, lock, disk, session,
                 req, locals, result, history, promised, budget>>

(* flock(LOCK_UN) and the return to the caller: Set is over, Lookup goes   *)
(* round its loop, Open publishes the table or gives the lease up.         *)
ReleaseLock(p) ==
  /\ pc[p] = "release"
  /\ lock' = NoProc
  /\ IF req[p].op = "lookup" /\ result[p] # "error"
       THEN Goto(p, "lookup") /\ UNCHANGED <<req, saved, got, result>>
       ELSE Goto(p, "idle") /\ ReturnToCaller(p)
  /\ session' = IF req[p].op # "open" THEN session
                ELSE IF result[p] = "ok" THEN "up" ELSE "down"
  /\ UNCHANGED <<shared, disk, cursor, ghosts, budget>>

-----------------------------------------------------------------------------
(* Replay                                                                  *)

(* Mutant: the table is rebuilt under an even version.                     *)
ReplayUnannounced(p) ==
  /\ pc[p] = "replay"
  /\ Goto(p, "replayZero")
  /\ UNCHANGED <<shared, lock, disk, session, req, locals, result, ghosts, budget>>

ReplayBegin(p) ==
  /\ pc[p] = "replay"
  /\ version' = MakeOdd(version)
  /\ Goto(p, "replayZero")
  /\ UNCHANGED <<table, sequence, checkpoint, dirty, failed, lock, disk, session,
                 req, locals, result, ghosts, budget>>

ReplayZero(p) ==
  /\ pc[p] = "replayZero"
  /\ table' = EmptyMap /\ sequence' = 0 /\ checkpoint' = 0
  /\ Goto(p, "replaySnapshot")
  /\ UNCHANGED <<version, dirty, failed, lock, disk, session, req, locals,
                 result, ghosts, budget>>

ReplaySnapshot(p) ==
  /\ pc[p] = "replaySnapshot"
  /\ table' = snapshot.map
  /\ sequence' = snapshot.seq /\ checkpoint' = snapshot.seq
  /\ cursor' = 1
  /\ Goto(p, "replayJournal")
  /\ UNCHANGED <<version, dirty, failed, lock, disk, session, req, saved, got,
                 result, ghosts, budget>>

(* One record: skipped when the snapshot holds it, applied when it is the  *)
(* next one, refused otherwise.                                            *)
ReplayRecord(p) ==
  LET r == journal[cursor] IN
  /\ pc[p] = "replayJournal" /\ cursor <= Len(journal)
  /\ r.seq > checkpoint => r.seq = sequence + 1
  /\ table' = IF r.seq > checkpoint THEN [table EXCEPT ![r.file] = r.owner] ELSE table
  /\ sequence' = IF r.seq > checkpoint THEN r.seq ELSE sequence
  /\ cursor' = cursor + 1
  /\ UNCHANGED <<version, checkpoint, dirty, failed, lock, disk, session, pc, req,
                 saved, got, result, ghosts, budget>>

(* Mutant: the incomplete tail stays in the file.                          *)
ReplayKeepTail(p) ==
  /\ pc[p] = "replayJournal" /\ cursor > Len(journal)
  /\ dirty' = FALSE
  /\ Goto(p, "replayPublish")
  /\ UNCHANGED <<version, table, sequence, checkpoint, failed, lock, disk, session,
                 req, locals, result, ghosts, budget>>

(* The incomplete tail is cut off.                                         *)
ReplayFinish(p) ==
  /\ pc[p] = "replayJournal" /\ cursor > Len(journal)
  /\ torn' = FALSE
  /\ dirty' = FALSE
  /\ Goto(p, "replayPublish")
  /\ UNCHANGED <<version, table, sequence, checkpoint, failed, lock, journal,
                 journalDisk, snapshot, snapshotDisk, session, req, locals,
                 result, ghosts, budget>>

ReplayPublish(p) ==
  /\ pc[p] = "replayPublish"
  /\ version' = MakeOdd(version) + 1
  /\ shown' = IF failed THEN shown ELSE sequence
  /\ IF failed THEN Goto(p, "unlock") /\ Return(p, "error")
               ELSE Goto(p, Locked(p)) /\ UNCHANGED result
  /\ UNCHANGED <<table, sequence, checkpoint, dirty, failed, lock, disk, session,
                 req, locals, history, promised, budget>>

(* A record out of order, or an open, read or truncation that fails.       *)
ReplayFail(p) ==
  /\ \/ /\ pc[p] = "replayJournal" /\ cursor <= Len(journal)
        /\ journal[cursor].seq > checkpoint
        /\ journal[cursor].seq # sequence + 1
        /\ UNCHANGED budget
     \/ /\ pc[p] \in {"replaySnapshot", "replayJournal"}
        /\ Spend("replayFault")
  /\ failed' = (req[p].op # "open")
  /\ Return(p, "error")
  /\ Goto(p, "unlock")
  /\ UNCHANGED <<version, table, sequence, checkpoint, dirty, lock, disk, session,
                 req, locals, ghosts>>

-----------------------------------------------------------------------------
(* Set                                                                     *)

(* The compare-and-swap test, the no-change test, and dirty := true.       *)
SameOwner(slot, owner) == slot.uid = owner.uid /\ slot.mode = owner.mode

(* Mutant: the store is not marked dirty before the journal is written.    *)
CompareClean(p) ==
  LET slot == table[req[p].file] IN
  /\ pc[p] = "compare"
  /\ IF slot = req[p].owner THEN Return(p, "same") /\ Goto(p, "unlock")
                            ELSE Goto(p, "append") /\ UNCHANGED result
  /\ UNCHANGED <<shared, lock, disk, session, req, locals, ghosts, budget>>

(* Mutant: the expected owner is not compared.                             *)
CompareUnchecked(p) ==
  /\ pc[p] = "compare"
  /\ dirty' = TRUE
  /\ Goto(p, "append")
  /\ UNCHANGED <<version, table, sequence, checkpoint, failed, lock, disk, session,
                 req, locals, result, ghosts, budget>>

Compare(p) ==
  LET slot == table[req[p].file] IN
  /\ pc[p] = "compare"
  /\ \/ /\ req[p].previous # AnyOwner
        /\ ~SameOwner(slot, req[p].previous)
        /\ Return(p, "eagain") /\ Goto(p, "unlock")
        /\ UNCHANGED dirty
     \/ /\ req[p].previous # AnyOwner => SameOwner(slot, req[p].previous)
        /\ slot = req[p].owner
        /\ Return(p, "same") /\ Goto(p, "unlock")
        /\ UNCHANGED dirty
     \/ /\ req[p].previous # AnyOwner => SameOwner(slot, req[p].previous)
        /\ slot # req[p].owner
        /\ dirty' = TRUE
        /\ Goto(p, "append")
        /\ UNCHANGED result
  /\ UNCHANGED <<version, table, sequence, checkpoint, failed, lock, disk, session,
                 req, locals, ghosts, budget>>

(* Mutant: the record holds the expected owner, not the new one.           *)
RecordOfPrevious(p) ==
  [seq |-> sequence + 1, file |-> req[p].file, owner |-> req[p].previous]

NextRecord(p) == [seq |-> sequence + 1, file |-> req[p].file, owner |-> req[p].owner]

AppendRecord(p) ==
  /\ pc[p] = "append"
  /\ journal' = Append(journal, NextRecord(p))
  /\ history' = Append(history, [Latest EXCEPT ![req[p].file] = req[p].owner])
  /\ Goto(p, IF req[p].durable THEN "sync" ELSE "advance")
  /\ UNCHANGED <<shared, lock, torn, journalDisk, snapshot, snapshotDisk, session,
                 req, locals, result, shown, promised, budget>>

(* The disk is full: nothing, or the beginning of a record, was written.   *)
AppendFail(p) ==
  /\ pc[p] = "append"
  /\ Spend("fault")
  /\ torn' \in {torn, TRUE}
  /\ Return(p, "error") /\ Goto(p, "unlock")
  /\ UNCHANGED <<shared, lock, journal, journalDisk, snapshot, snapshotDisk, session,
                 req, locals, ghosts>>

SyncJournal(p) ==
  /\ pc[p] = "sync"
  /\ journalDisk' = journal
  /\ Goto(p, "advance")
  /\ UNCHANGED <<shared, lock, journal, torn, snapshot, snapshotDisk, session,
                 req, locals, result, ghosts, budget>>

(* fdatasync fails: the record stays in the file and the store dirty.      *)
SyncFail(p) ==
  /\ pc[p] = "sync"
  /\ Spend("fault")
  /\ Return(p, "error") /\ Goto(p, "unlock")
  /\ UNCHANGED <<shared, lock, disk, session, req, locals, ghosts>>

(* ++sequence, and Put makes the version odd unless it is already.         *)
Advance(p) ==
  /\ pc[p] = "advance"
  /\ sequence' = sequence + 1
  /\ saved' = [saved EXCEPT ![p] = version]
  /\ version' = MakeOdd(version)
  /\ Goto(p, "putInode")
  /\ UNCHANGED <<table, checkpoint, dirty, failed, lock, disk, session, req, got,
                 cursor, result, ghosts, budget>>

WriteWord(p, slot, from, to) ==
  /\ pc[p] = from
  /\ table' = [table EXCEPT ![req[p].file] = slot]
  /\ Goto(p, to)
  /\ UNCHANGED <<version, sequence, checkpoint, dirty, failed, lock, disk, session,
                 req, locals, result, ghosts, budget>>

(* The record being replaced, and its replacement.                         *)
Old(p) == table[req[p].file]
New(p) == req[p].owner
PutInode(p) == WriteWord(p, [Old(p) EXCEPT !.inode = New(p).inode], "putInode", "putUid")
PutUid(p)   == WriteWord(p, [Old(p) EXCEPT !.uid = New(p).uid], "putUid", "putMode")
PutMode(p)  == WriteWord(p, [Old(p) EXCEPT !.mode = New(p).mode], "putMode", "putEnd")

PutEnd(p) ==
  /\ pc[p] = "putEnd"
  /\ version' = IF Odd(saved[p]) THEN version ELSE saved[p] + 2
  /\ shown' = IF Odd(saved[p]) THEN shown ELSE sequence
  /\ Goto(p, "clean")
  /\ UNCHANGED <<table, sequence, checkpoint, dirty, failed, lock, disk, session,
                 req, locals, result, history, promised, budget>>

(* dirty := false, and a checkpoint once enough records have accumulated.  *)
ClearDirty(p) ==
  /\ pc[p] = "clean"
  /\ dirty' = FALSE
  /\ IF sequence - checkpoint >= CheckpointInterval
       THEN Goto(p, "ckptWrite") /\ UNCHANGED <<result, promised>>
       ELSE /\ Goto(p, "unlock") /\ Return(p, "ok")
            /\ promised' = IF req[p].durable THEN sequence
                                             ELSE promised
  /\ UNCHANGED <<version, table, sequence, checkpoint, failed, lock, disk, session,
                 req, locals, history, shown, budget>>

-----------------------------------------------------------------------------
(* CheckpointLocked                                                        *)

(* Mutant: the snapshot carries the sequence number of the one before it.  *)
WriteStaleSnapshot(p) ==
  /\ pc[p] = "ckptWrite"
  /\ snapshot' = [seq |-> checkpoint, map |-> table]
  /\ Goto(p, "ckptSync")
  /\ UNCHANGED <<shared, lock, journal, torn, journalDisk, snapshotDisk, session,
                 req, locals, result, ghosts, budget>>

(* snapshot.tmp is written, synchronized and renamed over the snapshot;    *)
(* the rename survives a power failure once the directory is synchronized. *)
WriteSnapshot(p) ==
  /\ pc[p] = "ckptWrite"
  /\ snapshot' = [seq |-> sequence, map |-> table]
  /\ Goto(p, "ckptSync")
  /\ UNCHANGED <<shared, lock, journal, torn, journalDisk, snapshotDisk, session,
                 req, locals, result, ghosts, budget>>

(* Mutant: the journal is truncated without synchronizing the rename.      *)
SkipDirectorySync(p) ==
  /\ pc[p] = "ckptSync"
  /\ checkpoint' = sequence
  /\ Goto(p, "ckptTruncate")
  /\ UNCHANGED <<version, table, sequence, dirty, failed, lock, disk, session, req,
                 locals, result, ghosts, budget>>

SyncDirectory(p) ==
  /\ pc[p] = "ckptSync"
  /\ snapshotDisk' = snapshot
  /\ checkpoint' = sequence
  /\ Goto(p, "ckptTruncate")
  /\ UNCHANGED <<version, table, sequence, dirty, failed, lock, journal, torn,
                 journalDisk, snapshot, session, req, locals, result, ghosts, budget>>

TruncateJournal(p) ==
  /\ pc[p] = "ckptTruncate"
  /\ journal' = <<>> /\ torn' = FALSE
  /\ Goto(p, "ckptFlush")
  /\ UNCHANGED <<shared, lock, journalDisk, snapshot, snapshotDisk, session, req,
                 locals, result, ghosts, budget>>

FlushJournal(p) ==
  /\ pc[p] = "ckptFlush"
  /\ journalDisk' = journal
  /\ Return(p, "ok") /\ Goto(p, "unlock")
  /\ promised' = IF req[p].op = "open" \/ req[p].durable
                 THEN sequence ELSE promised
  /\ UNCHANGED <<shared, lock, journal, torn, snapshot, snapshotDisk, session,
                 req, locals, history, shown, budget>>

CheckpointFail(p) ==
  /\ pc[p] \in CheckpointLabels
  /\ Spend("fault")
  /\ Return(p, "error") /\ Goto(p, "unlock")
  /\ UNCHANGED <<shared, lock, disk, session, req, locals, ghosts>>

-----------------------------------------------------------------------------
(* Lookup                                                                  *)

CheckFailed(p) ==
  /\ pc[p] = "lookup"
  /\ IF failed THEN Goto(p, "idle") /\ ReturnToCaller(p)
               ELSE Goto(p, "readVersion") /\ UNCHANGED <<req, saved, got, result>>
  /\ UNCHANGED <<shared, lock, disk, session, cursor, ghosts, budget>>

(* Mutant: a reader waits for the version to become even.                  *)
ReadVersionSpins(p) ==
  /\ pc[p] = "readVersion"
  /\ saved' = [saved EXCEPT ![p] = version]
  /\ got' = [got EXCEPT ![p] = Empty]
  /\ Goto(p, IF Odd(version) THEN "lookup" ELSE "readInode")
  /\ UNCHANGED <<shared, lock, disk, session, req, cursor, result, ghosts, budget>>

ReadVersion(p) ==
  /\ pc[p] = "readVersion"
  /\ saved' = [saved EXCEPT ![p] = version]
  /\ got' = [got EXCEPT ![p] = Empty]
  /\ Goto(p, IF Odd(version) THEN "lock" ELSE "readInode")
  /\ UNCHANGED <<shared, lock, disk, session, req, cursor, result, ghosts, budget>>

ReadWord(p, copy, from, to) ==
  /\ pc[p] = from
  /\ got' = [got EXCEPT ![p] = copy]
  /\ Goto(p, to)
  /\ UNCHANGED <<shared, lock, disk, session, req, saved, cursor, result, ghosts,
                 budget>>

ReadInode(p) == ReadWord(p, [got[p] EXCEPT !.inode = Old(p).inode], "readInode", "readUid")
ReadUid(p)   == ReadWord(p, [got[p] EXCEPT !.uid = Old(p).uid], "readUid", "readMode")
ReadMode(p)  == ReadWord(p, [got[p] EXCEPT !.mode = Old(p).mode], "readMode", "recheck")

(* The second read of the version: the copy is returned, or taken again.   *)
Recheck(p) ==
  /\ pc[p] = "recheck"
  /\ IF version = saved[p]
       THEN Goto(p, "idle") /\ ReturnToCaller(p)
       ELSE Goto(p, "lookup") /\ UNCHANGED <<req, saved, got, result>>
  /\ UNCHANGED <<shared, lock, disk, session, cursor, ghosts, budget>>

-----------------------------------------------------------------------------
(* Kills and power failures                                                *)

(* SIGKILL at any step: the kernel releases the locks; a write in progress *)
(* may have reached the file in part.  The first opener's death ends the   *)
(* session group.                                                          *)
Crash(p) ==
  /\ pc[p] # "idle"
  /\ Spend("crash")
  /\ Goto(p, "idle") /\ ReturnToCaller(p)
  /\ lock' = IF lock = p THEN NoProc ELSE lock
  /\ torn' \in IF pc[p] = "append" THEN {torn, TRUE} ELSE {torn}
  /\ session' = IF session = "opening" THEN "down" ELSE session
  /\ UNCHANGED <<shared, journal, journalDisk, snapshot, snapshotDisk, cursor, ghosts>>

Prefixes(log) == {SubSeq(log, 1, n) : n \in 0 .. Len(log)}

(* What a journal file may hold after a power failure: the bytes of the    *)
(* last synchronization, or any extension of them that was written since.  *)
JournalsAfter ==
  {journalDisk} \cup
    {log \in Prefixes(journal) :
       journalDisk \in Prefixes(journal) => Len(log) >= Len(journalDisk)}

(* The end of the session group, with or without losing what is not yet on *)
(* the medium: the table is discarded and the next opener is the first.    *)
PowerLoss ==
  /\ Spend("power")
  /\ journal' \in JournalsAfter /\ journalDisk' = journal'
  /\ torn' \in IF journal' = journal THEN {torn, FALSE} ELSE BOOLEAN
  /\ snapshot' \in {snapshot, snapshotDisk} /\ snapshotDisk' = snapshot'
  /\ LET kept == AtMost(LastSeq(snapshot', journal'), Recorded) IN
       /\ history' = SubSeq(history, 1, kept + 1)
       /\ shown' = AtMost(shown, kept)
  /\ session' = "down" /\ lock' = NoProc
  /\ pc' = [p \in Procs |-> "idle"]
  /\ req' = [p \in Procs |-> NoRequest]
  /\ result' = [p \in Procs |-> "none"]
  /\ saved' = [p \in Procs |-> 0] /\ got' = [p \in Procs |-> Empty] /\ cursor' = 1
  /\ UNCHANGED <<shared, promised>>

-----------------------------------------------------------------------------
LockSteps(p)       == AcquireLock(p) \/ UnlockVersion(p) \/ ReleaseLock(p)
ReplaySteps(p)     == \/ ReplayBegin(p) \/ ReplayZero(p) \/ ReplaySnapshot(p)
                      \/ ReplayRecord(p) \/ ReplayFinish(p) \/ ReplayPublish(p)
                      \/ ReplayFail(p)
SetSteps(p)        == \/ Compare(p) \/ AppendRecord(p) \/ AppendFail(p)
                      \/ SyncJournal(p) \/ SyncFail(p) \/ Advance(p)
                      \/ PutInode(p) \/ PutUid(p) \/ PutMode(p) \/ PutEnd(p)
                      \/ ClearDirty(p)
CheckpointSteps(p) == \/ WriteSnapshot(p) \/ SyncDirectory(p) \/ TruncateJournal(p)
                      \/ FlushJournal(p) \/ CheckpointFail(p)
LookupSteps(p)     == \/ CheckFailed(p) \/ ReadVersion(p) \/ ReadInode(p)
                      \/ ReadUid(p) \/ ReadMode(p) \/ Recheck(p)

(* What a process that has started an operation does until it returns.     *)
Step(p) == \/ LockSteps(p) \/ ReplaySteps(p) \/ SetSteps(p)
           \/ CheckpointSteps(p) \/ LookupSteps(p)

Next ==
  \/ \E p \in Procs : OpenFirst(p) \/ StartSet(p) \/ StartLookup(p)
  \/ \E p \in Procs : Step(p)
  \/ \E p \in Procs : Crash(p)
  \/ PowerLoss

Spec == Init /\ [][Next]_vars

(* A process that is not killed keeps running; nobody owes a new request.  *)
FairSpec == Spec /\ \A p \in Procs : WF_vars(Step(p))

-----------------------------------------------------------------------------
(* Type correctness, by groups of variables: what the table, the files, the *)
(* control state and the locals of a process may hold.                      *)
SharedOK ==
  /\ version \in Nat /\ sequence \in Nat /\ checkpoint \in Nat
  /\ table \in [Files -> Slot]
  /\ dirty \in BOOLEAN /\ failed \in BOOLEAN
DiskOK ==
  /\ journal \in Seq(Record) /\ journalDisk \in Seq(Record) /\ torn \in BOOLEAN
  /\ snapshot \in Snapshot /\ snapshotDisk \in Snapshot
ControlOK ==
  /\ lock \in Procs \cup {NoProc}
  /\ session \in {"down", "opening", "up"}
  /\ pc \in [Procs -> Labels]
  /\ req \in [Procs -> Requests]
LocalsOK ==
  /\ saved \in [Procs -> Nat] /\ got \in [Procs -> Slot] /\ cursor \in Nat \ {0}
  /\ result \in [Procs -> Results]
GhostsOK ==
  /\ history \in Seq([Files -> Slot]) /\ history # <<>>
  /\ shown \in Nat /\ promised \in Nat
BudgetOK == budget \in [{"set", "crash", "fault", "replayFault", "power"} -> Nat]
TypeOK ==
  SharedOK /\ DiskOK /\ ControlOK /\ LocalsOK /\ GhostsOK /\ BudgetOK

(* Writers are serialized with flock: whatever is killed and whenever, at  *)
(* most one process replays, writes the table or compacts the journal.     *)
WriterExclusion == \A p \in Procs : pc[p] \in Critical => lock = p

(* A Lookup whose second read of the version agrees with the first returns *)
(* the record now published, never a mixture of two records or of a table  *)
(* that is being rebuilt.                                                  *)
ReadIsCurrent ==
  \A p \in Procs :
    pc[p] = "recheck" /\ version = saved[p]
      => got[p] = history[shown + 1][req[p].file]

(* The same for stores on which no recovery has failed.                    *)
ReadIsCurrentUnlessFailed == failed \/ ReadIsCurrent

(* A record is only ever appended at a record boundary: the fragment that  *)
(* a killed writer or a full disk left behind is cut off first.            *)
AppendsAtBoundary == \A p \in Procs : pc[p] = "append" => ~torn

(* Replay never meets a record out of order, whatever interrupted the      *)
(* writers and the compaction that produced the files.                     *)
RecoveryAccepts ==
  \A p \in Procs :
    pc[p] = "replayJournal" /\ cursor <= Len(journal)
      /\ journal[cursor].seq > checkpoint
      => journal[cursor].seq = sequence + 1

(* Replay rebuilds exactly the map of every record ever appended, applied  *)
(* or not by its writer.                                                   *)
RecoveryIsExact ==
  \A p \in Procs :
    pc[p] = "replayPublish" => sequence = Recorded /\ table = Latest

(* A durable Set that wrote its record and returned success survives every *)
(* kill and power failure.                                                 *)
DurableSetSurvives == promised <= Recorded

(* Changes are on the medium before readers can see them, when every       *)
(* caller asks for durability.                                             *)
SyncedBeforePublished == session = "up" => shown <= DurableSeq

(* A compare-and-swap replaces the record it names: the map the journal    *)
(* stands for held `previous' when the record was appended, even one whose *)
(* writer died before publishing it.                                       *)
CasReplacesPrevious ==
  [][\A p \in Procs :
       pc[p] = "append" /\ Len(history') > Len(history)
         /\ req[p].previous # AnyOwner
         => SameOwner(Latest[req[p].file], req[p].previous)]_vars

(* The store implements the abstract map: whatever is killed or lost.      *)
Abstract == INSTANCE OwnershipMap
              WITH maps <- history, visible <- shown, durable <- DurableSeq
ImplementsMap == Abstract!Spec

(* A Lookup that has started ends, unless writers keep arriving.           *)
LookupEnds ==
  \A p \in Procs :
    \/ (pc[p] \in LookupLabels) ~> (pc[p] \notin LookupLabels \cup {"lock"})
    \/ []<>(\E q \in Procs : req[q].op = "set" /\ pc[q] # "idle")
=============================================================================
