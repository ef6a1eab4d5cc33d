---------------------------- MODULE SessionGroup ----------------------------
(***************************************************************************)
(* How processes open and leave the ownership store of one rootfs.         *)
(*                                                                         *)
(* init.lock serializes openers; the lease is held exclusively by the      *)
(* opener that rebuilds the table and shared by every open store.  flock   *)
(* belongs to an open file description, which every process forked while   *)
(* it was open also refers to: a description is named here by the opener   *)
(* that created it, and lives until the last process lets go of it.        *)
(*                                                                         *)
(* The contents of the store are reduced to how many records they hold;    *)
(* OwnershipStore says how records get there.                              *)
(***************************************************************************)
EXTENDS Naturals

CONSTANTS
  App,       (* a thread of the application: extraction, set_file_owner    *)
  Tracers,   (* tracer processes, forked from the application              *)
  MaxOpens, MaxUpdates, MaxKills, MaxFaults, MaxReboots (* bounds          *)

ASSUME AppAssumption == App \notin Tracers
ASSUME GroupBoundsAssumption ==
  {MaxOpens, MaxUpdates, MaxKills, MaxFaults, MaxReboots} \subseteq Nat

Openers == Tracers \cup {App}

VARIABLES
  pc,
  initFds, leaseFds,     (* the processes that refer to an opener's        *)
                         (* descriptions of init.lock and of the lease     *)
  initLocked, leaseMode, (* what flock asked for on these descriptions     *)
  tracee,                (* a tracee refers to its tracer's lease          *)
  magic, records,        (* the table: initialized, and with how many      *)
  disk,                  (* records the snapshot and the journal hold      *)
  reset,                 (* the table was reset since the device started   *)
  budget                 (* what the bounds still allow                    *)

descriptions == <<initFds, leaseFds, initLocked, leaseMode, tracee>>
store        == <<magic, records, disk, reset>>
vars         == <<pc, descriptions, store, budget>>

Rebuilding == {"reset", "rebuild", "publish"}
Opening    == {"inherited", "ready", "init", "lease", "join", "check",
               "leaveOpen", "leaveFailed"} \cup Rebuilding
Labels     == Opening \cup {"closed", "up", "failed", "dying"}

InitHeld(o)  == initLocked[o] /\ initFds[o] # {}
LeaseHeld(o) == IF leaseFds[o] = {} /\ ~tracee[o] THEN "none" ELSE leaseMode[o]

Others(o)        == Openers \ {o}
CanLockInit(o)   == \A q \in Others(o) : ~InitHeld(q)
CanShareLease(o) == \A q \in Others(o) : LeaseHeld(q) # "EX"
CanTakeLease(o)  == \A q \in Others(o) : LeaseHeld(q) = "none"

Goto(o, label) == pc' = [pc EXCEPT ![o] = label]
Spend(what)    == /\ budget[what] > 0
                  /\ budget' = [budget EXCEPT ![what] = @ - 1]

Init ==
  /\ pc = [o \in Openers |-> "closed"]
  /\ initFds = [o \in Openers |-> {}] /\ leaseFds = [o \in Openers |-> {}]
  /\ initLocked = [o \in Openers |-> FALSE]
  /\ leaseMode = [o \in Openers |-> "none"]
  /\ tracee = [o \in Openers |-> FALSE]
  /\ magic = FALSE /\ records = 0 /\ disk = 0 /\ reset = TRUE
  /\ budget = [open |-> MaxOpens, update |-> MaxUpdates, kill |-> MaxKills,
               fault |-> MaxFaults, reboot |-> MaxReboots]

-----------------------------------------------------------------------------
(* A tracer is forked and inherits what the application has open.          *)
Fork(t) ==
  /\ pc[t] = "closed" /\ initFds[t] = {} /\ leaseFds[t] = {} /\ ~tracee[t]
  /\ initFds' = [initFds EXCEPT ![App] = IF App \in @ THEN @ \cup {t} ELSE @]
  /\ leaseFds' = [leaseFds EXCEPT ![App] = IF App \in @ THEN @ \cup {t} ELSE @]
  /\ Goto(t, "inherited")
  /\ Spend("open")
  /\ UNCHANGED <<initLocked, leaseMode, tracee, store>>

(* Mutant: the inherited descriptors stay open.                            *)
KeepInherited(t) ==
  /\ pc[t] = "inherited"
  /\ Goto(t, "ready")
  /\ UNCHANGED <<descriptions, store, budget>>

CloseInheritedDescriptors(t) ==
  /\ pc[t] = "inherited"
  /\ initFds' = [o \in Openers |-> initFds[o] \ {t}]
  /\ leaseFds' = [o \in Openers |-> leaseFds[o] \ {t}]
  /\ Goto(t, "ready")
  /\ UNCHANGED <<initLocked, leaseMode, tracee, store, budget>>

(* init.lock is opened: from here a fork duplicates the description, even  *)
(* while flock is waiting.                                                 *)
OpenInit(o) ==
  /\ \/ o \in Tracers /\ pc[o] = "ready" /\ UNCHANGED budget
     \/ o = App /\ pc[o] = "closed" /\ Spend("open")
  /\ initFds[o] = {} /\ leaseFds[o] = {}
  /\ initFds' = [initFds EXCEPT ![o] = {o}]
  /\ initLocked' = [initLocked EXCEPT ![o] = FALSE]
  /\ Goto(o, "init")
  /\ UNCHANGED <<leaseFds, leaseMode, tracee, store>>

LockInit(o) ==
  /\ pc[o] = "init" /\ CanLockInit(o)
  /\ initLocked' = [initLocked EXCEPT ![o] = TRUE]
  /\ leaseFds' = [leaseFds EXCEPT ![o] = {o}]
  /\ leaseMode' = [leaseMode EXCEPT ![o] = "none"]
  /\ Goto(o, "lease")
  /\ UNCHANGED <<initFds, tracee, store, budget>>

(* Mutant: the lease is taken shared, and the opener believes it is first. *)
ShareLeaseFirst(o) ==
  /\ pc[o] = "lease"
  /\ IF CanShareLease(o)
       THEN leaseMode' = [leaseMode EXCEPT ![o] = "SH"] /\ Goto(o, "reset")
       ELSE UNCHANGED leaseMode /\ Goto(o, "join")
  /\ UNCHANGED <<initFds, leaseFds, initLocked, tracee, store, budget>>

(* The opener is the first when nobody holds the lease.                    *)
TryLease(o) ==
  /\ pc[o] = "lease"
  /\ IF CanTakeLease(o)
       THEN leaseMode' = [leaseMode EXCEPT ![o] = "EX"] /\ Goto(o, "reset")
       ELSE UNCHANGED leaseMode /\ Goto(o, "join")
  /\ UNCHANGED <<initFds, leaseFds, initLocked, tracee, store, budget>>

(* Mutant: the joiner does not wait for the lease.                         *)
JoinUnlocked(o) ==
  /\ pc[o] = "join"
  /\ Goto(o, "check")
  /\ UNCHANGED <<descriptions, store, budget>>

JoinLease(o) ==
  /\ pc[o] = "join" /\ CanShareLease(o)
  /\ leaseMode' = [leaseMode EXCEPT ![o] = "SH"]
  /\ Goto(o, "check")
  /\ UNCHANGED <<initFds, leaseFds, initLocked, tracee, store, budget>>

(* Remnants of interrupted creations are removed and the table is zeroed.  *)
ResetTable(o) ==
  /\ pc[o] = "reset"
  /\ magic' = FALSE /\ records' = 0 /\ reset' = TRUE
  /\ Goto(o, "rebuild")
  /\ UNCHANGED <<descriptions, disk, budget>>

(* Mutant: the table is published as it is, without Replay and Scan.       *)
SkipRebuild(o) ==
  /\ pc[o] = "rebuild"
  /\ Goto(o, "publish")
  /\ UNCHANGED <<descriptions, store, budget>>

(* Replay, Scan, PrepareUser and CheckpointLocked.                         *)
Rebuild(o) ==
  /\ pc[o] = "rebuild"
  /\ records' = disk
  /\ Goto(o, "publish")
  /\ UNCHANGED <<descriptions, magic, disk, reset, budget>>

(* magic is written and the lease becomes a shared one.                    *)
Publish(o) ==
  /\ pc[o] = "publish"
  /\ magic' = TRUE
  /\ leaseMode' = [leaseMode EXCEPT ![o] = "SH"]
  /\ Goto(o, "leaveOpen")
  /\ UNCHANGED <<initFds, leaseFds, initLocked, tracee, records, disk, reset, budget>>

CheckMagic(o) ==
  /\ pc[o] = "check"
  /\ Goto(o, IF magic THEN "leaveOpen" ELSE "leaveFailed")
  /\ UNCHANGED <<descriptions, store, budget>>

(* A system call of Open fails.                                            *)
OpenFails(o) ==
  /\ pc[o] \in {"lease", "join", "check"} \cup Rebuilding
  /\ Spend("fault")
  /\ Goto(o, "leaveFailed")
  /\ UNCHANGED <<descriptions, store>>

(* close(init_fd): the last thing Open does, whether or not it succeeded.  *)
CloseInit(o) ==
  /\ pc[o] \in {"leaveOpen", "leaveFailed"}
  /\ initFds' = [initFds EXCEPT ![o] = @ \ {o}]
  /\ Goto(o, IF pc[o] = "leaveOpen" THEN "up" ELSE "failed")
  /\ UNCHANGED <<leaseFds, initLocked, leaseMode, tracee, store, budget>>

(* The destructor closes the lease; a tracer then exits.                   *)
Destroy(o) ==
  /\ pc[o] \in {"up", "failed"}
  /\ leaseFds' = [leaseFds EXCEPT ![o] = @ \ {o}]
  /\ Goto(o, "closed")
  /\ UNCHANGED <<initFds, initLocked, leaseMode, tracee, store, budget>>

(* Mutant: a change reaches the table and not the journal.                 *)
UpdateTableOnly(o) ==
  /\ pc[o] = "up"
  /\ records' = records + 1
  /\ Spend("update")
  /\ UNCHANGED <<pc, descriptions, magic, disk, reset>>

(* A change made through an open store.                                    *)
Update(o) ==
  /\ pc[o] = "up"
  /\ records' = records + 1 /\ disk' = disk + 1
  /\ Spend("update")
  /\ UNCHANGED <<pc, descriptions, magic, reset>>

(* The tracer forks its first tracee, which refers to the lease until it   *)
(* executes a program or dies; PTRACE_O_EXITKILL bounds its life by the    *)
(* tracer's.                                                               *)
SpawnTracee(t) ==
  /\ pc[t] = "up" /\ ~tracee[t]
  /\ tracee' = [tracee EXCEPT ![t] = TRUE]
  /\ UNCHANGED <<pc, initFds, leaseFds, initLocked, leaseMode, store, budget>>

TraceeLetsGo(t) ==
  /\ tracee[t]
  /\ tracee' = [tracee EXCEPT ![t] = FALSE]
  /\ UNCHANGED <<pc, initFds, leaseFds, initLocked, leaseMode, store, budget>>

(* SIGKILL: the descriptors of the tracer are closed one by one.           *)
Kill(t) ==
  /\ pc[t] \in Opening \cup {"up", "failed"}
  /\ Spend("kill")
  /\ Goto(t, "dying")
  /\ UNCHANGED <<descriptions, store>>

ExitClosesInit(t) ==
  /\ pc[t] = "dying"
  /\ \E o \in Openers :
       t \in initFds[o] /\ initFds' = [initFds EXCEPT ![o] = @ \ {t}]
  /\ UNCHANGED <<pc, leaseFds, initLocked, leaseMode, tracee, store, budget>>

ExitClosesLease(t) ==
  /\ pc[t] = "dying"
  /\ \E o \in Openers :
       t \in leaseFds[o] /\ leaseFds' = [leaseFds EXCEPT ![o] = @ \ {t}]
  /\ UNCHANGED <<pc, initFds, initLocked, leaseMode, tracee, store, budget>>

ExitEnds(t) ==
  /\ pc[t] = "dying"
  /\ \A o \in Openers : t \notin initFds[o] /\ t \notin leaseFds[o]
  /\ Goto(t, "closed")
  /\ UNCHANGED <<descriptions, store, budget>>

(* The device restarts.  The table is a mapped file nobody synchronizes:   *)
(* any state it was in may be what the medium holds.                       *)
Reboot ==
  /\ Spend("reboot")
  /\ pc' = [o \in Openers |-> "closed"]
  /\ initFds' = [o \in Openers |-> {}] /\ leaseFds' = [o \in Openers |-> {}]
  /\ tracee' = [o \in Openers |-> FALSE]
  /\ magic' \in {magic, FALSE} /\ records' \in 0 .. records /\ reset' = FALSE
  /\ UNCHANGED <<initLocked, leaseMode, disk>>

-----------------------------------------------------------------------------
OpenSteps(o)   == \/ LockInit(o) \/ TryLease(o) \/ JoinLease(o) \/ ResetTable(o)
                  \/ Rebuild(o) \/ Publish(o) \/ CheckMagic(o) \/ CloseInit(o)
ExitSteps(t)   == ExitClosesInit(t) \/ ExitClosesLease(t) \/ ExitEnds(t)
TracerSteps(t) == CloseInheritedDescriptors(t) \/ OpenInit(t) \/ ExitSteps(t)

Next ==
  \/ \E o \in Openers : OpenSteps(o) \/ OpenFails(o) \/ Destroy(o) \/ Update(o)
  \/ \E t \in Tracers : \/ Fork(t) \/ TracerSteps(t) \/ SpawnTracee(t)
                        \/ TraceeLetsGo(t) \/ Kill(t)
  \/ OpenInit(App)
  \/ Reboot

Spec == Init /\ [][Next]_vars

(* Threads and dying processes keep running, the caller of an Open that    *)
(* failed destroys the store, and a tracee does not keep its descriptors   *)
(* for ever.  Nobody owes an Open, an end of a session or an update.       *)
FairSpec ==
  /\ Spec
  /\ \A o \in Openers : /\ WF_vars(OpenSteps(o))
                        /\ WF_vars(pc[o] = "failed" /\ Destroy(o))
  /\ \A t \in Tracers : WF_vars(TracerSteps(t)) /\ WF_vars(TraceeLetsGo(t))

-----------------------------------------------------------------------------
(* Type correctness; the table never holds more than the files.            *)
TypeOK ==
  /\ pc \in [Openers -> Labels]
  /\ initFds \in [Openers -> SUBSET Openers]
  /\ leaseFds \in [Openers -> SUBSET Openers]
  /\ initLocked \in [Openers -> BOOLEAN]
  /\ leaseMode \in [Openers -> {"none", "SH", "EX"}]
  /\ tracee \in [Openers -> BOOLEAN]
  /\ magic \in BOOLEAN /\ disk \in Nat /\ records \in 0 .. disk
  /\ reset \in BOOLEAN
  /\ budget \in [{"open", "update", "kill", "fault", "reboot"} -> Nat]

(* Whoever resets and rebuilds the table is alone with it: no store is     *)
(* open, no other opener is rebuilding, and none is looking at magic.      *)
RebuildsAlone ==
  \A o, q \in Openers :
    o # q /\ pc[o] \in Rebuilding
      => pc[q] \notin Rebuilding \cup {"check", "leaveOpen", "up"}

(* The table of an open store has every change made through any store: it  *)
(* holds what the files hold, once it was reset.                           *)
TableIsCurrent ==
  \A o \in Openers : pc[o] = "up" /\ reset => magic /\ records = disk

(* The table of an open store was rebuilt by the first live session.       *)
TableWasRebuilt ==
  \A o \in Openers : pc[o] = "up" => magic /\ records = disk

(* Open returns, whatever the application had open when a tracer was       *)
(* forked and whoever is killed.                                           *)
OpenEnds ==
  \A o \in Openers : pc[o] \in Opening ~> pc[o] \notin Opening
=============================================================================
