---------------------------- MODULE VirtualFiles ----------------------------
(***************************************************************************)
(* The file calls of tracees, as their tracers handle them at the entry    *)
(* and exit stops: the owner and mode of a file are looked up in the       *)
(* ownership store, checked against the caller's credentials, changed, and *)
(* the call is answered or left to the kernel.  Several tracers serve one  *)
(* rootfs; each step is one call of the store or of the kernel.            *)
(*                                                                         *)
(* The store's own atomicity is OwnershipStore's subject: here a lookup is *)
(* one step and a change is one step taken while nobody holds the lock.    *)
(* There is one directory, Root, whose record is always known; terminals   *)
(* and paths outside the rootfs are left out.  A mode is the set of its    *)
(* bits, <<"u", "r">> for S_IRUSR, <<"s", "g">> for S_ISGID.               *)
(***************************************************************************)
EXTENDS Integers, FiniteSets

CONSTANTS
  Tracers, NoTracer,
  Root, Paths,         (* the directory and the names in it                *)
  Inodes, None,        (* inode numbers, which are reused                  *)
  Calls,               (* the calls tracees make                           *)
  Starts,              (* initial states: names, files and records         *)
  MaxCalls, MaxKills   (* bounds                                           *)

ASSUME NamesAssumption ==
  Root \notin Paths /\ NoTracer \notin Tracers /\ None \notin Inodes
ASSUME FileCallsAssumption == \A c \in Calls : {c.path, c.to} \subseteq Paths \cup {Root}
ASSUME StartsAssumption ==
  \A s \in Starts :
    /\ s.names \in [Paths \cup {Root} -> Inodes \cup {None}]
    /\ s.rec = [i \in Inodes |-> s.rec[i]]
    /\ s.disk = [i \in Inodes |-> [kind |-> s.disk[i].kind, mode |-> s.disk[i].mode,
                                    born |-> s.disk[i].born, by |-> s.disk[i].by]]

VARIABLES
  names,   (* the inode of a path, or None                                 *)
  disk,    (* of each inode: the file the kernel knows, or the last one    *)
  rec,     (* of each inode: its record in the store, or None              *)
  lock,    (* who holds the store's writer lock                            *)
  run,     (* of each tracer: the call it handles                          *)
  budget, kills

vars == <<names, disk, rec, lock, run, budget, kills>>

Superuser == 0
SetUid    == <<"s", "u">>
SetGid    == <<"s", "g">>
StickyBit == <<"s", "t">>
SetIds    == {SetUid, SetGid}
Wide(kind) == {<<"u", "r">>, <<"u", "w">>} \cup
              (IF kind = "dir" THEN {<<"u", "x">>} ELSE {})

Group(by, gid) == gid = by.gid \/ gid \in by.groups

Allowed(owner, by, mask) ==
  IF by.uid = Superuser
  THEN \/ "x" \notin mask \/ owner.kind = "dir"
       \/ \E who \in {"u", "g", "o"} : <<who, "x">> \in owner.mode
  ELSE LET who == CASE by.uid = owner.uid -> "u"
                    [] by.uid # owner.uid /\ Group(by, owner.gid) -> "g"
                    [] OTHER -> "o"
       IN \A bit \in mask : <<who, bit>> \in owner.mode

(* Who may not remove or replace a target in a sticky directory.           *)
Sticky(parent, target, by) ==
  StickyBit \in parent.mode /\ by.uid \notin {Superuser, parent.uid, target.uid}

MayChown(owner, c) ==
  \/ c.by.uid = Superuser
  \/ /\ c.by.uid = owner.uid /\ c.uid \in {None, owner.uid}
     /\ c.gid \in {None, owner.gid} \/ Group(c.by, c.gid)

Chowned(owner, c) ==
  [owner EXCEPT !.uid = IF c.uid = None THEN @ ELSE c.uid,
                !.gid = IF c.gid = None THEN @ ELSE c.gid,
                !.mode = IF owner.kind # "dir" /\ {c.uid, c.gid} # {None}
                         THEN @ \ SetIds ELSE @]

MayChmod(owner, c) ==
  c.by.uid \in {Superuser, owner.uid} /\ owner.kind # "link"

Chmodded(owner, c) ==
  [owner EXCEPT !.mode = IF c.by.uid # Superuser /\ ~Group(c.by, owner.gid)
                         THEN c.mode \ {SetGid} ELSE c.mode]

(* The owner a file that a call creates will have.                         *)
NewOwner(parent, c) ==
  LET gid  == IF SetGid \in parent.mode THEN parent.gid ELSE c.by.gid
      mode == CASE c.op = "open" /\ c.by.uid # Superuser /\ ~Group(c.by, gid)
                     -> c.mode \ {SetGid}
                [] c.op = "make" /\ c.kind = "dir"
                     -> c.mode \cup ({SetGid} \cap parent.mode)
                [] OTHER -> c.mode
  IN [uid |-> c.by.uid, gid |-> gid, mode |-> mode, kind |-> c.kind, born |-> 0]

(* Identify: a file without a record is the superuser's, with the mode the *)
(* kernel knows.                                                           *)
Identify(i) == [uid |-> Superuser, gid |-> Superuser, mode |-> disk[i].mode,
                kind |-> disk[i].kind, born |-> disk[i].born]

Owned(i)    == IF rec[i] = None THEN Identify(i) ELSE rec[i]
Parent      == rec[names[Root]]

Idle == [pc |-> "idle", call |-> None, node |-> None, seen |-> None,
         item |-> None, outcome |-> "none"]

Op(t)       == run[t].call.op
At(t, pc)   == run[t].pc = pc
Put(t, r)   == run' = [run EXCEPT ![t] = r]
Go(t, pc)   == Put(t, [run[t] EXCEPT !.pc = pc])
Return(t)   == Put(t, Idle)
Unchanged   == UNCHANGED <<budget, kills>>

(* Inodes with a name, an open descriptor or a place in a staging          *)
(* directory.                                                              *)
InUse == {names[p] : p \in Paths \cup {Root}} \cup {run[t].item : t \in Tracers}
         \cup {run[t].node : t \in {u \in Tracers : ~At(u, "idle") /\
                                    ~At(u, "killed") /\ run[u].call.fd}}

(* A new file takes any free inode number.                                 *)
New(i, kind, mode, by) ==
  disk' = [disk EXCEPT ![i] = [kind |-> kind, mode |-> mode,
                               born |-> @.born + 1, by |-> by]]

Init ==
  /\ \E s \in Starts : names = s.names /\ disk = s.disk /\ rec = s.rec
  /\ lock = NoTracer
  /\ run = [t \in Tracers |-> Idle]
  /\ budget = MaxCalls /\ kills = MaxKills

-----------------------------------------------------------------------------
(* Entry stop: the owner of the file                                       *)

(* A call by path searches the directory; one by descriptor has its file.  *)
Begin(t) ==
  /\ At(t, "idle") /\ budget > 0
  /\ budget' = budget - 1
  /\ \E c \in Calls :
       /\ c.fd => names[c.path] # None
       /\ Put(t, [Idle EXCEPT !.call = c,
                              !.pc   = IF c.fd THEN "look" ELSE "search",
                              !.node = IF c.fd THEN names[c.path] ELSE None])
  /\ UNCHANGED <<names, disk, rec, lock, kills>>

Search(t) ==
  /\ At(t, "search")
  /\ IF run[t].call.path # Root /\ ~Allowed(Parent, run[t].call.by, {"x"})
     THEN Return(t) ELSE Go(t, IF Op(t) = "bind" THEN "decide" ELSE "stat")
  /\ UNCHANGED <<names, disk, rec, lock>> /\ Unchanged

(* Owner: lstat, then the store; a file the store does not know is looked  *)
(* at again and recorded, whatever the store has learnt meanwhile.         *)
Stat(t) ==
  /\ At(t, "stat")
  /\ LET i == names[run[t].call.path]
     IN Put(t, [run[t] EXCEPT !.node = i, !.seen = None,
                              !.pc = IF i = None THEN "decide" ELSE "look"])
  /\ UNCHANGED <<names, disk, rec, lock>> /\ Unchanged

Lookup(t) ==
  /\ At(t, "look")
  /\ LET r == rec[run[t].node]
     IN Put(t, [run[t] EXCEPT !.seen = r,
                              !.pc = IF r = None /\ ~run[t].call.fd
                                     THEN "import" ELSE "decide"])
  /\ UNCHANGED <<names, disk, rec, lock>> /\ Unchanged

Import(t) ==
  /\ At(t, "import")
  /\ LET i == names[run[t].call.path]
     IN Put(t, [run[t] EXCEPT !.node = i,
                              !.seen = IF i = None THEN None ELSE Identify(i),
                              !.pc = IF i = None THEN "decide" ELSE "adopt"])
  /\ UNCHANGED <<names, disk, rec, lock>> /\ Unchanged

Adopt(t) ==
  /\ At(t, "adopt") /\ lock = NoTracer
  /\ rec' = [rec EXCEPT ![run[t].node] = run[t].seen]
  /\ Go(t, "decide")
  /\ UNCHANGED <<names, disk, lock>> /\ Unchanged

-----------------------------------------------------------------------------
(* Entry stop: what the call does.  owner.seen = None: the path names no   *)
(* file, or a descriptor's file has no record.                             *)

(* Mutant: the previous record is not compared.                            *)
ReplaceAnyway(t, may, new, pc) ==
  /\ \/ /\ may /\ lock = NoTracer
        /\ rec' = [rec EXCEPT ![run[t].node] = new]
        /\ Put(t, IF pc = "idle" THEN Idle
                  ELSE [run[t] EXCEPT !.pc = pc, !.seen = new])
     \/ ~may /\ rec' = rec /\ Return(t)
  /\ UNCHANGED <<names, disk, lock>> /\ Unchanged

(* Set with the previous record: refused when another has changed it.      *)
Replace(t, may, new, pc) ==
  /\ \/ /\ may /\ lock = NoTracer /\ rec[run[t].node] = run[t].seen
        /\ rec' = [rec EXCEPT ![run[t].node] = new]
        /\ Put(t, IF pc = "idle" THEN Idle
                  ELSE [run[t] EXCEPT !.pc = pc, !.seen = new])
     \/ /\ may /\ lock = NoTracer /\ rec[run[t].node] # run[t].seen
        /\ rec' = rec /\ Return(t)
     \/ ~may /\ rec' = rec /\ Return(t)
  /\ UNCHANGED <<names, disk, lock>> /\ Unchanged

Chown(t) ==
  LET c == run[t].call IN
  /\ At(t, "decide") /\ Op(t) = "chown"
  /\ Replace(t, run[t].seen # None /\ MayChown(run[t].seen, c),
             Chowned(run[t].seen, c), "idle")

Chmod(t) ==
  LET c == run[t].call IN
  /\ At(t, "decide") /\ Op(t) = "chmod"
  /\ Replace(t, run[t].seen # None /\ MayChmod(run[t].seen, c),
             Chmodded(run[t].seen, c), "mode")

(* The file's own mode follows, by path; it never shuts the app out.       *)
SetRealMode(t) ==
  /\ At(t, "mode")
  /\ LET i == IF run[t].call.fd THEN run[t].node ELSE names[run[t].call.path]
     IN disk' = IF i = None THEN disk
                ELSE [disk EXCEPT ![i].mode = run[t].seen.mode \cup Wide(disk[i].kind)]
  /\ Return(t)
  /\ UNCHANGED <<names, rec, lock>> /\ Unchanged

(* access, chdir, execve, truncate, utimensat and the xattr calls check    *)
(* the owner and change no ownership.                                      *)
Access(t) ==
  /\ At(t, "decide") /\ Op(t) = "access"
  /\ Return(t)
  /\ UNCHANGED <<names, disk, rec, lock>> /\ Unchanged

(* openat of a file that exists, or that a racing call has just created;   *)
(* of a directory with O_TMPFILE.                                          *)
OpenExisting(t) ==
  LET c      == run[t].call
      seen   == run[t].seen
      raced  == run[t].outcome = "exists"
      strips == c.by.uid # Superuser /\ "w" \in c.mask /\ seen.mode \cap SetIds # {}
  IN
  /\ At(t, "decide") /\ Op(t) \in {"open", "tmpfile"} /\ seen # None
  /\ IF \/ c.creat /\ c.excl /\ ~raced
        \/ ~Allowed(seen, c.by, c.mask \cup
                      IF c.trunc /\ ~raced THEN {"w"} ELSE {})
     THEN Return(t)
     ELSE IF strips /\ ~raced
     THEN Put(t, [run[t] EXCEPT !.pc = "strip", !.seen = [seen EXCEPT !.mode = @ \ SetIds]])
     ELSE Go(t, IF Op(t) = "open" THEN "kernel" ELSE "parent")
  /\ UNCHANGED <<names, disk, rec, lock>> /\ Unchanged

(* A writer clears the set-ID bits of the record it has read.              *)
Strip(t) ==
  /\ At(t, "strip") /\ lock = NoTracer
  /\ rec' = [rec EXCEPT ![run[t].node] = run[t].seen]
  /\ Go(t, IF Op(t) = "open" THEN "kernel" ELSE "parent")
  /\ UNCHANGED <<names, disk, lock>> /\ Unchanged

(* A new file needs write and search permission on its directory.          *)
Creates(t, parent, pc) ==
  LET c == run[t].call IN
  /\ IF ~Allowed(parent, c.by, {"w", "x"}) THEN Return(t)
     ELSE Put(t, [run[t] EXCEPT !.seen = NewOwner(parent, c), !.pc = pc])
  /\ UNCHANGED <<names, disk, rec, lock>> /\ Unchanged

(* openat of a missing file; without O_CREAT the kernel answers.           *)
OpenMissing(t) ==
  /\ At(t, "decide") /\ Op(t) = "open" /\ run[t].seen = None
  /\ IF run[t].call.creat /\ run[t].outcome = "none"
     THEN Creates(t, Parent, "create")
     ELSE /\ IF run[t].outcome = "none" THEN Go(t, "kernel") ELSE Return(t)
          /\ UNCHANGED <<names, disk, rec, lock>> /\ Unchanged

(* mkdir, mknod of regular files and FIFOs, symlink.                       *)
Make(t) ==
  /\ At(t, "decide") /\ Op(t) = "make"
  /\ IF run[t].seen = None THEN Creates(t, Parent, "create")
     ELSE Return(t) /\ UNCHANGED <<names, disk, rec, lock>> /\ Unchanged

(* Anonymous files and sockets are made by the kernel.                     *)
OpenAnonymous(t) == At(t, "parent") /\ Creates(t, run[t].seen, "kernel")

Bind(t) == At(t, "decide") /\ Op(t) = "bind" /\ Creates(t, Parent, "kernel")

(* unlink, rename and link; an unknown file they would replace is          *)
(* imported here.                                                          *)
Rename(t) ==
  LET c    == run[t].call
      seen == run[t].seen
      j    == IF c.op = "unlink" THEN None ELSE names[c.to]
  IN
  /\ At(t, "decide") /\ Op(t) \in {"unlink", "rename", "link"}
  /\ j # None => rec[j] # None \/ lock = NoTracer
  /\ IF \/ seen = None
        \/ c.op # "link" /\ Sticky(Parent, seen, c.by)
        \/ c.op = "link" /\ c.by.uid \notin {Superuser, seen.uid}
           /\ \/ seen.kind # "reg" \/ seen.mode \cap SetIds # {}
              \/ ~Allowed(seen, c.by, {"r", "w"})
        \/ ~Allowed(Parent, c.by, {"w", "x"})
     THEN Return(t) /\ rec' = rec
     ELSE /\ rec' = IF j = None THEN rec ELSE [rec EXCEPT ![j] = Owned(j)]
          /\ IF j # None /\ Sticky(Parent, Owned(j), c.by)
             THEN Return(t) ELSE Go(t, "kernel")
  /\ UNCHANGED <<names, disk, lock>> /\ Unchanged

-----------------------------------------------------------------------------
(* Create: the file is made in a staging directory and recorded, then      *)
(* appears under its name.  The writer lock is held throughout.            *)

(* Mutant: the lock is only taken for the record itself.                   *)
LockLater(t) ==
  /\ At(t, "create") /\ lock = NoTracer
  /\ Go(t, "stage")
  /\ UNCHANGED <<names, disk, rec, lock>> /\ Unchanged

LockStore(t) ==
  /\ At(t, "create") /\ lock = NoTracer
  /\ lock' = t
  /\ Go(t, "stage")
  /\ UNCHANGED <<names, disk, rec>> /\ Unchanged

Stage(t) ==
  /\ At(t, "stage")
  /\ \E i \in Inodes \ InUse :
       /\ New(i, run[t].seen.kind, run[t].seen.mode \cup Wide(run[t].seen.kind),
              "store")
       /\ Put(t, [run[t] EXCEPT !.pc = "record", !.item = i, !.node = i,
                                !.seen = [run[t].seen EXCEPT !.born = disk[i].born + 1]])
  /\ UNCHANGED <<names, rec, lock>> /\ Unchanged

Record(t) ==
  /\ At(t, "record")
  /\ rec' = [rec EXCEPT ![run[t].item] = run[t].seen]
  /\ Go(t, "publish")
  /\ UNCHANGED <<names, disk, lock>> /\ Unchanged

(* RENAME_NOREPLACE; the directory's fsync may still fail after it.        *)
Publish(t) ==
  /\ At(t, "publish")
  /\ IF names[run[t].call.path] = None
     THEN /\ names' = [names EXCEPT ![run[t].call.path] = run[t].item]
          /\ \E outcome \in {"ok", "failed"} :
               Put(t, [run[t] EXCEPT !.pc = "cleanup", !.item = None,
                                     !.outcome = outcome])
     ELSE /\ Put(t, [run[t] EXCEPT !.pc = "cleanup", !.outcome = "exists"])
          /\ names' = names
  /\ UNCHANGED <<disk, rec, lock>> /\ Unchanged

(* What was staged and not published is removed.  An openat that lost the  *)
(* race, and may, opens what the winner made.                              *)
Cleanup(t) ==
  /\ At(t, "cleanup")
  /\ lock' = NoTracer
  /\ \/ /\ Op(t) = "open" /\ run[t].outcome = "ok"
        /\ Put(t, [run[t] EXCEPT !.pc = "kernel", !.item = None, !.outcome = "none"])
     \/ /\ Op(t) = "open" /\ run[t].outcome = "exists" /\ ~run[t].call.excl
        /\ Put(t, [run[t] EXCEPT !.pc = "stat", !.item = None])
     \/ /\ \/ Op(t) # "open"
           \/ run[t].outcome # "ok" /\ (run[t].outcome # "exists" \/ run[t].call.excl)
        /\ Return(t)
  /\ UNCHANGED <<names, disk, rec>> /\ Unchanged

(* Any call of the store may fail: the tracee gets the error.              *)
StoreFails(t) ==
  /\ \/ run[t].pc \in {"adopt", "strip", "create", "register"} /\ Return(t)
     \/ At(t, "decide") /\ Op(t) \in {"chown", "chmod"} /\ Return(t)
     \/ (At(t, "stage") \/ At(t, "record"))
        /\ Put(t, [run[t] EXCEPT !.pc = "cleanup", !.outcome = "failed"])
  /\ UNCHANGED <<names, disk, rec, lock>> /\ Unchanged

-----------------------------------------------------------------------------
(* The kernel performs what was allowed, on what the path names by then.   *)
(* openat still carries O_CREAT.                                           *)

KernelOpens(t) ==
  /\ At(t, "kernel") /\ Op(t) = "open"
  /\ IF run[t].call.creat /\ names[run[t].call.path] = None
     THEN \E i \in Inodes \ InUse :
            /\ New(i, "reg", run[t].call.mode, "kernel")
            /\ names' = [names EXCEPT ![run[t].call.path] = i]
     ELSE UNCHANGED <<names, disk>>
  /\ Return(t)
  /\ UNCHANGED <<rec, lock>> /\ Unchanged

KernelMoves(t) ==
  LET c == run[t].call
      i == names[c.path] IN
  /\ At(t, "kernel") /\ Op(t) \in {"unlink", "rename", "link"}
  /\ names' =
       CASE c.op = "unlink" -> [names EXCEPT ![c.path] = None]
         [] c.op = "rename" /\ i \notin {None, names[c.to]}
              -> [names EXCEPT ![c.to] = i, ![c.path] = None]
         [] c.op = "link" /\ names[c.to] = None -> [names EXCEPT ![c.to] = i]
         [] OTHER -> names
  /\ Return(t)
  /\ UNCHANGED <<disk, rec, lock>> /\ Unchanged

(* bind fails when the name is taken; an anonymous file is its descriptor. *)
KernelCreates(t) ==
  LET c == run[t].call IN
  /\ At(t, "kernel") /\ Op(t) \in {"bind", "tmpfile"}
  /\ IF c.op = "bind" /\ names[c.path] # None
     THEN Return(t) /\ UNCHANGED <<names, disk>>
     ELSE \E i \in Inodes \ InUse :
            /\ New(i, c.kind, c.mode, c.op)
            /\ names' = IF c.op = "bind" THEN [names EXCEPT ![c.path] = i] ELSE names
            /\ Put(t, [run[t] EXCEPT !.pc = "finish",
                                     !.item = IF c.op = "bind" THEN None ELSE i])
  /\ UNCHANGED <<rec, lock>> /\ Unchanged

-----------------------------------------------------------------------------
(* Exit stop: FinishFileOperation.  A tracee whose file cannot be          *)
(* registered is killed.                                                   *)

Finish(t) ==
  /\ At(t, "finish")
  /\ LET i == IF Op(t) = "bind" THEN names[run[t].call.path] ELSE run[t].item
     IN IF i = None THEN Return(t)
        ELSE Put(t, [run[t] EXCEPT !.pc = "register", !.node = i,
                                   !.seen = [run[t].seen EXCEPT !.kind = disk[i].kind,
                                                                !.born = disk[i].born]])
  /\ UNCHANGED <<names, disk, rec, lock>> /\ Unchanged

Register(t) ==
  /\ At(t, "register") /\ lock = NoTracer
  /\ rec' = [rec EXCEPT ![run[t].node] = run[t].seen]
  /\ IF Op(t) = "bind" THEN Go(t, "mode") ELSE Return(t)
  /\ disk' = IF Op(t) = "bind" THEN disk
             ELSE [disk EXCEPT ![run[t].node].mode = run[t].seen.mode \cup Wide("reg")]
  /\ UNCHANGED <<names, lock>> /\ Unchanged

(* A tracer is killed, and its tracees with it; its staging directory      *)
(* stays.                                                                  *)
Kill(t) ==
  /\ ~At(t, "killed") /\ kills > 0
  /\ kills' = kills - 1
  /\ lock' = IF lock = t THEN NoTracer ELSE lock
  /\ Put(t, [Idle EXCEPT !.pc = "killed",
                         !.item = IF lock = t THEN run[t].item ELSE None])
  /\ UNCHANGED <<names, disk, rec, budget>>

(* What the tracer does next with the call it handles.                     *)
Step(t) ==
  \/ Search(t) \/ Stat(t) \/ Lookup(t) \/ Import(t) \/ Adopt(t)
  \/ Chown(t) \/ Chmod(t) \/ SetRealMode(t) \/ Access(t)
  \/ OpenExisting(t) \/ Strip(t) \/ OpenMissing(t) \/ OpenAnonymous(t)
  \/ Make(t) \/ Bind(t) \/ Rename(t)
  \/ LockStore(t) \/ Stage(t) \/ Record(t) \/ Publish(t) \/ Cleanup(t) \/ StoreFails(t)
  \/ KernelOpens(t) \/ KernelMoves(t) \/ KernelCreates(t)
  \/ Finish(t) \/ Register(t)

(* Tracees may make no more calls.                                         *)
Rest ==
  /\ \A t \in Tracers : run[t].pc \in {"idle", "killed"}
  /\ UNCHANGED vars

Next == (\E t \in Tracers : Begin(t) \/ Step(t) \/ Kill(t)) \/ Rest

Spec == Init /\ [][Next]_vars

-----------------------------------------------------------------------------
(* Types; a record of a file, and not of an earlier one with its inode     *)
(* number, says what kind of file it is.                                   *)
TypeOK ==
  /\ names \in [Paths \cup {Root} -> Inodes \cup {None}] /\ names[Root] # None
  /\ DOMAIN disk = Inodes /\ DOMAIN rec = Inodes
  /\ \A i \in Inodes : rec[i] # None /\ rec[i].born = disk[i].born
                       => rec[i].kind = disk[i].kind
  /\ lock \in Tracers \cup {NoTracer}
  /\ DOMAIN run = Tracers
  /\ budget \in 0 .. MaxCalls /\ kills \in 0 .. MaxKills

(* A chown or chmod that changes a record does what the same call would do *)
(* alone on the record as it is at that moment: the caller is entitled by  *)
(* the current owner, and nothing another tracer recorded since the check  *)
(* is lost.  The previous record that Set compares sees to it (Chown,      *)
(* Chmod; ownership_persistence.cpp:81).                                   *)
Linear(t) ==
  LET c == run[t].call
      r == rec[run[t].node]
  IN /\ c.op = "chown" => MayChown(r, c)
          /\ rec' = [rec EXCEPT ![run[t].node] = Chowned(r, c)]
     /\ c.op = "chmod" => MayChmod(r, c)
          /\ rec' = [rec EXCEPT ![run[t].node] = Chmodded(r, c)]
ChangesAreLinear ==
  [][\A t \in Tracers :
       At(t, "decide") /\ run'[t] # run[t] /\ rec' # rec => Linear(t)]_vars

(* While a file that Create staged waits to be published, the store has    *)
(* the record it will be found with: its own birth and the requested owner *)
(* and mode, whatever other tracers record or remove meanwhile (Record,    *)
(* Publish; ownership_store.cpp:321-328).                                  *)
PublishedAsRequested ==
  \A t \in Tracers :
    At(t, "publish") =>
      /\ rec[run[t].item] = run[t].seen
      /\ run[t].seen.born = disk[run[t].item].born
      /\ run[t].item \notin {names[p] : p \in Paths \cup {Root}}

(* The comment at ownership_store.cpp:325 says that publishing only after  *)
(* the journal is durable prevents ownerless creations: a file that        *)
(* openat, mkdir, mknod or symlink created has a record of its own.  The   *)
(* kernel's openat, which still has O_CREAT, breaks it (KernelOpens).      *)
CreatedAreOwned ==
  \A p \in Paths :
    LET i == names[p] IN
      i # None /\ disk[i].by \in {"store", "kernel"} =>
        rec[i] # None /\ rec[i].born = disk[i].born
=============================================================================
