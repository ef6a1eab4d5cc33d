--------------------------- MODULE ProcessRegistry ---------------------------
(***************************************************************************)
(* The identities of traced processes, shared by the tracers of a rootfs:  *)
(* a linearly probed table indexed by pid, written under the writer lock   *)
(* and read without it under the generation counter.  Pids are reused; a   *)
(* process is told from its successors by its start time.                  *)
(*                                                                         *)
(* The table lives in the same mapping as that of OwnershipStore and uses  *)
(* the same lock and the same version, which no action here can tell from  *)
(* its own; recovery of the file table is left to that module.             *)
(***************************************************************************)
EXTENDS Integers, FiniteSets

CONSTANTS
  Tracers, NoTracer,
  Pids,
  Free,             (* no pid: a slot never used, which ends a probe       *)
  Deleted,          (* no pid: a slot that was used                        *)
  Home,             (* a pid modulo kProcesses                             *)
  Ids,              (* user and group ids                                  *)
  NoId,
  Slots,            (* kProcesses                                          *)
  MaxBirths, MaxEvents (* bounds: processes; requests and kills              *)

ASSUME SlotsAssumption == Slots \in Nat \ {0}
ASSUME HomeAssumption == Home \in [Pids -> 0 .. Slots - 1]
ASSUME NamesAssumption ==
  /\ NoTracer \notin Tracers /\ NoId \notin Ids
  /\ Free \notin Pids /\ Deleted \notin Pids /\ Free # Deleted
ASSUME RegistryBoundsAssumption ==
  {MaxBirths, MaxEvents} \subseteq Nat

VARIABLES
  version, slots, lock,     (* the shared table and its writer lock        *)
  state, born, tracer,      (* of each pid: its process, if it has one     *)
  clock,                    (* start times given out                       *)
  published,                (* the tracer believes the identity recorded   *)
  pc, req,                  (* of each tracer                              *)
  saved, probe, got,
  ledger,                   (* identities recorded for each start time     *)
  overtaken,                (* start times whose entry another's end took  *)
  budget

kernel == <<state, born, tracer, clock>>
locals == <<saved, probe, got>>
ghosts == <<ledger, overtaken>>
vars   == <<version, slots, lock, kernel, published, pc, req, locals, 
            ghosts, budget>>

Indices   == 0 .. Slots - 1
EmptySlot == [pid |-> Free, id |-> NoId, start |-> 0]
Words     == Ids \cup {NoId}
Nothing   == [id |-> NoId, start |-> 0]
NoRequest == [op |-> "none", pid |-> Free, id |-> NoId, start |-> 0, slot |-> 0]

Odd(n)      == n % 2 = 1
MakeOdd(n)  == IF Odd(n) THEN n ELSE n + 1
MakeEven(n) == IF Odd(n) THEN n + 1 ELSE n

(* /proc/<pid>/stat, or 0 when there is no such process.                   *)
ProcessStart(p) == IF state[p] = "none" THEN 0 ELSE born[p]

(* The n-th slot a search for p examines.                                  *)
Probe(p, n) == (Home[p] + n) % Slots

(* A search for p examines slots until it finds p or one never used.       *)
Examined(p) ==
  {n \in Indices : \A k \in 0 .. n - 1 : slots[Probe(p, k)].pid \notin {p, Free}}
Found(p)    == {n \in Examined(p) : slots[Probe(p, n)].pid = p}
Usable(p)   == {n \in Examined(p) : slots[Probe(p, n)].pid \in {Free, Deleted}}
First(S)    == {n \in S : \A k \in S : n <= k}

Goto(t, label) == pc' = [pc EXCEPT ![t] = label]
Spend          == budget > 0 /\ budget' = budget - 1
Finish(t)      == /\ Goto(t, "idle")
                  /\ req' = [req EXCEPT ![t] = NoRequest]

Init ==
  /\ version = 0 /\ slots = [i \in Indices |-> EmptySlot] /\ lock = NoTracer
  /\ state = [p \in Pids |-> "none"] /\ born = [p \in Pids |-> 0]
  /\ tracer = [p \in Pids |-> NoTracer] /\ clock = 0
  /\ published = {}
  /\ pc = [t \in Tracers |-> "idle"] /\ req = [t \in Tracers |-> NoRequest]
  /\ saved = [t \in Tracers |-> 0] /\ probe = [t \in Tracers |-> 0]
  /\ got = [t \in Tracers |-> Nothing]
  /\ ledger = [s \in 1 .. MaxBirths |-> {}] /\ overtaken = {}
  /\ budget = MaxEvents

-----------------------------------------------------------------------------
(* Processes                                                               *)

Birth(t, p) ==
  /\ pc[t] # "killed" /\ state[p] = "none" /\ clock < MaxBirths
  /\ clock' = clock + 1
  /\ state' = [state EXCEPT ![p] = "live"]
  /\ born' = [born EXCEPT ![p] = clock + 1]
  /\ tracer' = [tracer EXCEPT ![p] = t]
  /\ UNCHANGED <<version, slots, lock, published, pc, req, locals, 
                 ghosts, budget>>

(* A process ends and waitpid tells its tracer, between two events; until  *)
(* then /proc answers as before.  Its parent may then reap it.             *)
Wait(t, p) ==
  /\ pc[t] = "idle" /\ state[p] \in {"live", "dead"} /\ tracer[p] = t
  /\ state' = [state EXCEPT ![p] = "waited"]
  /\ published' = published \ {born[p]}
  /\ req' = [req EXCEPT ![t] = [NoRequest EXCEPT !.op = "forget", !.pid = p,
                                                 !.start = born[p]]]
  /\ Goto(t, "lock")
  /\ UNCHANGED <<version, slots, lock, born, tracer, clock, locals, ghosts, budget>>

Vanish(p) ==
  /\ state[p] = "waited"
  /\ state' = [state EXCEPT ![p] = "none"]
  /\ UNCHANGED <<version, slots, lock, born, tracer, clock, published, pc, req,
                 locals, ghosts, budget>>

(* A tracer is killed: its lock is released, and its tracees die with it   *)
(* and are reaped by others.                                               *)
Kill(t) ==
  /\ pc[t] # "killed"
  /\ Spend
  /\ Goto(t, "killed")
  /\ lock' = IF lock = t THEN NoTracer ELSE lock
  /\ state' = [p \in Pids |-> IF tracer[p] = t /\ state[p] # "none"
                              THEN "waited" ELSE state[p]]
  /\ published' = published \ {born[p] : p \in {q \in Pids : tracer[q] = t}}
  /\ req' = [req EXCEPT ![t] = NoRequest]
  /\ saved' = [saved EXCEPT ![t] = 0] /\ probe' = [probe EXCEPT ![t] = 0]
  /\ got' = [got EXCEPT ![t] = Nothing]
  /\ UNCHANGED <<version, slots, born, tracer, clock, ghosts>>

-----------------------------------------------------------------------------
(* RegisterProcess                                                         *)

(* The start time is read before the lock is taken.                        *)
StartRegister(t, p) ==
  /\ pc[t] = "idle" /\ tracer[p] = t /\ state[p] = "live"
  /\ Spend
  /\ \E id \in Ids :
       req' = [req EXCEPT ![t] = [op |-> "register", pid |-> p, id |-> id,
                                  start |-> ProcessStart(p), slot |-> 0]]
  /\ Goto(t, "lock")
  /\ UNCHANGED <<version, slots, lock, kernel, published, locals, ghosts>>

(* flock(LOCK_EX) and what its holder does before it writes are one step:  *)
(* only the holder writes the table.                                       *)
AcquireLock(t, op) ==
  /\ pc[t] = "lock" /\ req[t].op = op /\ lock = NoTracer
  /\ lock' = t

(* Mutant: the search ends at the first slot that can be used.             *)
SearchFirstUsable(t) ==
  LET p == req[t].pid IN
  /\ AcquireLock(t, "register")
  /\ \/ /\ \E n \in First(Found(p) \cup Usable(p)) :
             req' = [req EXCEPT ![t].slot = Probe(p, n)]
        /\ Goto(t, "mark")
        /\ UNCHANGED state
     \/ /\ Found(p) \cup Usable(p) = {}
        /\ state' = [state EXCEPT ![p] = IF @ = "live" THEN "dead" ELSE @]
        /\ Goto(t, "unlock")
        /\ UNCHANGED req
  /\ UNCHANGED <<version, slots, born, tracer, clock, published, locals,
                 ghosts, budget>>

(* The entry of the pid, else the first slot that can be used.  When there *)
(* is none the tracer kills the process.                                   *)
Search(t) ==
  LET p == req[t].pid IN
  /\ AcquireLock(t, "register")
  /\ \/ /\ \E n \in Found(p) : req' = [req EXCEPT ![t].slot = Probe(p, n)]
        /\ Goto(t, "mark")
        /\ UNCHANGED state
     \/ /\ Found(p) = {}
        /\ \E n \in First(Usable(p)) : req' = [req EXCEPT ![t].slot = Probe(p, n)]
        /\ Goto(t, "mark")
        /\ UNCHANGED state
     \/ /\ Found(p) = {} /\ Usable(p) = {}
        /\ state' = [state EXCEPT ![p] = IF @ = "live" THEN "dead" ELSE @]
        /\ Goto(t, "unlock")
        /\ UNCHANGED req
  /\ UNCHANGED <<version, slots, born, tracer, clock, published, locals,
                 ghosts, budget>>

(* Mutant: the entry is rewritten under an even version.                   *)
MarkNothing(t) ==
  /\ pc[t] = "mark"
  /\ Goto(t, "blank")
  /\ UNCHANGED <<version, slots, lock, kernel, published, req, locals, 
                 ghosts, budget>>

Mark(t) ==
  /\ pc[t] = "mark"
  /\ version' = MakeOdd(version)
  /\ Goto(t, "blank")
  /\ UNCHANGED <<slots, lock, kernel, published, req, locals, ghosts, budget>>

WriteSlot(t, entry, from, to) ==
  /\ pc[t] = from
  /\ slots' = [slots EXCEPT ![req[t].slot] = entry]
  /\ Goto(t, to)
  /\ UNCHANGED <<version, lock, kernel, published, req, locals, ghosts,
                 budget>>

Entry(t) == slots[req[t].slot]
Blank(t)     == WriteSlot(t, [Entry(t) EXCEPT !.pid = Deleted], "blank", "id")
WriteId(t)    == WriteSlot(t, [Entry(t) EXCEPT !.id = req[t].id], "id", "start")
WriteStart(t) == WriteSlot(t, [Entry(t) EXCEPT !.start = req[t].start],
                           "start", "name")

(* The pid is stored last: the entry exists.                               *)
WritePid(t) ==
  /\ pc[t] = "name"
  /\ slots' = [slots EXCEPT ![req[t].slot].pid = req[t].pid]
  /\ ledger' = [ledger EXCEPT ![req[t].start] =
                  @ \cup {req[t].id}]
  /\ published' = published \cup {req[t].start}
  /\ Goto(t, "unlock")
  /\ UNCHANGED <<version, lock, kernel, req, locals, overtaken, budget>>

(* Unlock makes the version even and releases the lock; Process then goes  *)
(* round its loop.                                                         *)
Unlock(t) ==
  /\ pc[t] = "unlock"
  /\ version' = MakeEven(version)
  /\ lock' = NoTracer
  /\ IF req[t].op = "lookup" THEN Goto(t, "version") /\ UNCHANGED req
                             ELSE Finish(t)
  /\ UNCHANGED <<slots, kernel, published, locals, ghosts, budget>>

-----------------------------------------------------------------------------
(* ForgetProcess                                                           *)

Overtakes(t, entry) ==
  overtaken' = IF entry.start > req[t].start THEN overtaken \cup {entry.start}
                                             ELSE overtaken

(* Mutant: the slot is freed as if it had never been used.                 *)
ForgetFree(t) ==
  LET p == req[t].pid IN
  /\ AcquireLock(t, "forget")
  /\ \/ Found(p) = {} /\ UNCHANGED <<version, slots, overtaken>>
     \/ \E n \in Found(p) :
          /\ version' = MakeOdd(version)
          /\ slots' = [slots EXCEPT ![Probe(p, n)].pid = Free]
          /\ Overtakes(t, slots[Probe(p, n)])
  /\ Goto(t, "unlock")
  /\ UNCHANGED <<kernel, published, req, locals, ledger, budget>>

(* Whatever process the entry of the pid is about.                         *)
Forget(t) ==
  LET p == req[t].pid IN
  /\ AcquireLock(t, "forget")
  /\ \/ Found(p) = {} /\ UNCHANGED <<version, slots, overtaken>>
     \/ \E n \in Found(p) :
          /\ version' = MakeOdd(version)
          /\ slots' = [slots EXCEPT ![Probe(p, n)].pid = Deleted]
          /\ Overtakes(t, slots[Probe(p, n)])
  /\ Goto(t, "unlock")
  /\ UNCHANGED <<kernel, published, req, locals, ledger, budget>>

-----------------------------------------------------------------------------
(* Process: a lookup of a pid that is not one of the tracer's own.         *)

StartLookup(t, p) ==
  /\ pc[t] = "idle" /\ ~(tracer[p] = t /\ state[p] \in {"live", "dead"})
  /\ Spend
  /\ req' = [req EXCEPT ![t] = [NoRequest EXCEPT !.op = "lookup", !.pid = p]]
 
  /\ Goto(t, "version")
  /\ UNCHANGED <<version, slots, lock, kernel, published, locals, ghosts>>

ReadVersion(t) ==
  /\ pc[t] = "version"
  /\ saved' = [saved EXCEPT ![t] = IF Odd(version) THEN 0 ELSE version]
  /\ Goto(t, IF Odd(version) THEN "lock" ELSE "probe")
  /\ UNCHANGED <<version, slots, lock, kernel, published, req, probe, got, ghosts,
                 budget>>

(* A lookup that meets an odd version takes the lock and releases it.      *)
LockForLookup(t) ==
  /\ AcquireLock(t, "lookup")
  /\ Goto(t, "unlock")
  /\ UNCHANGED <<version, slots, kernel, published, req, locals, ghosts, budget>>

ProbeSlot(t) ==
  LET p    == req[t].pid
      seen == slots[Probe(p, probe[t])].pid
  IN
  /\ pc[t] = "probe"
  /\ \/ seen = p /\ Goto(t, "readId") /\ UNCHANGED probe
     \/ seen = Free /\ Goto(t, "recheck") /\ UNCHANGED probe
     \/ /\ seen \notin {p, Free}
        /\ IF probe[t] = Slots - 1
             THEN Goto(t, "recheck") /\ UNCHANGED probe
             ELSE probe' = [probe EXCEPT ![t] = @ + 1] /\ UNCHANGED pc
  /\ UNCHANGED <<version, slots, lock, kernel, published, req, saved, got, 
                 ghosts, budget>>

ReadWord(t, copy, from, to) ==
  /\ pc[t] = from
  /\ got' = [got EXCEPT ![t] = copy]
  /\ Goto(t, to)
  /\ UNCHANGED <<version, slots, lock, kernel, published, req, saved, probe,
                 ghosts, budget>>

Seen(t) == slots[Probe(req[t].pid, probe[t])]
ReadId(t)    == ReadWord(t, [got[t] EXCEPT !.id = Seen(t).id], "readId", "readStart")
ReadStart(t) == ReadWord(t, [got[t] EXCEPT !.start = Seen(t).start],
                         "readStart", "recheck")

Reset(t) == /\ saved' = [saved EXCEPT ![t] = 0]
            /\ probe' = [probe EXCEPT ![t] = 0]
            /\ got' = [got EXCEPT ![t] = Nothing]

(* What was read under another version is thrown away.                     *)
Recheck(t) ==
  /\ pc[t] = "recheck"
  /\ \/ version = saved[t] /\ Goto(t, "validate") /\ UNCHANGED <<saved, probe, got>>
     \/ version # saved[t] /\ Goto(t, "version") /\ Reset(t)
  /\ UNCHANGED <<version, slots, lock, kernel, published, req, ghosts, budget>>

(* Mutant: the start time is not compared.                                 *)
AcceptsFound(t) == got[t].id # NoId

(* The identity counts when the pid's process is the one it was recorded   *)
(* for.                                                                    *)
Accepts(t) == got[t].id # NoId /\ got[t].start = ProcessStart(req[t].pid)

Validate(t) ==
  /\ pc[t] = "validate"
  /\ Reset(t) /\ Finish(t)
  /\ UNCHANGED <<version, slots, lock, kernel, published, ghosts, budget>>

-----------------------------------------------------------------------------
RegisterSteps(t) == \/ Search(t) \/ Mark(t) \/ Blank(t) \/ WriteId(t)
                    \/ WriteStart(t) \/ WritePid(t)
LookupSteps(t)   == \/ ReadVersion(t) \/ LockForLookup(t) \/ ProbeSlot(t)
                    \/ ReadId(t) \/ ReadStart(t) \/ Recheck(t) \/ Validate(t)

Next ==
  \/ \E t \in Tracers, p \in Pids :
       Birth(t, p) \/ Wait(t, p) \/ StartRegister(t, p) \/ StartLookup(t, p)
  \/ \E t \in Tracers :
       RegisterSteps(t) \/ Forget(t) \/ Unlock(t) \/ LookupSteps(t) \/ Kill(t)
  \/ \E p \in Pids : Vanish(p)

Spec == Init /\ [][Next]_vars

-----------------------------------------------------------------------------
Labels == {"idle", "lock", "mark", "blank", "id", "start", "name", "unlock", "version", "probe",
           "readId", "readStart", "recheck", "validate", "killed"}
Times  == 0 .. MaxBirths
Copy   == [id : Words, start : Times]

(* Type correctness: among others, a slot holds a pid, a tombstone, or has *)
(* never been used.                                                        *)
TypeOK ==
  /\ version \in Nat /\ lock \in Tracers \cup {NoTracer}
  /\ slots \in [Indices -> [pid : Pids \cup {Free, Deleted}, id : Words,
                            start : Times]]
  /\ state \in [Pids -> {"none", "live", "dead", "waited"}]
  /\ born \in [Pids -> Times] /\ tracer \in [Pids -> Tracers \cup {NoTracer}]
  /\ clock \in Times /\ published \subseteq Times
  /\ pc \in [Tracers -> Labels]
  /\ req \in [Tracers -> [op : {"none", "register", "forget", "lookup"},
                          pid : Pids \cup {Free}, id : Words, start : Times,
                          slot : Indices]]
  /\ saved \in [Tracers -> Nat] /\ probe \in [Tracers -> Indices]
  /\ got \in [Tracers -> Copy]
  /\ ledger \in [1 .. MaxBirths -> SUBSET Ids] /\ overtaken \subseteq Times
  /\ budget \in Nat

(* An identity Process returns was recorded, as a whole, for the process   *)
(* that has the pid: not for one that had it before, and never half of one *)
(* record and half of another.                                             *)
AnswersAreTrue ==
  \A t \in Tracers :
    pc[t] = "validate" /\ Accepts(t)
      => LET p == req[t].pid IN
           ProcessStart(p) # 0 /\ got[t].id \in ledger[ProcessStart(p)]

(* A pid has one entry, wherever tombstones lie.                           *)
OneEntryPerPid ==
  \A i, j \in Indices : i # j /\ slots[i].pid \in Pids => slots[i].pid # slots[j].pid

(* A process whose identity was recorded is found for as long as it lives, *)
(* whoever else comes, goes or is killed - unless the end of an earlier    *)
(* process of the same pid was handled late.                               *)
LiveIdentityKept ==
  \A p \in Pids :
    state[p] = "live" /\ born[p] \in published \ overtaken
      => \/ \E n \in Found(p) : slots[Probe(p, n)].start = born[p]
         \/ \E t \in Tracers : lock = t /\ req[t].pid = p

(* The end of a process removes its own identity, never that of the live   *)
(* process that has its pid now.                                           *)
ForgetsOnlyTheDead ==
  \A p \in Pids : state[p] = "live" => born[p] \notin overtaken
=============================================================================
