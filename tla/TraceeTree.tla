------------------------------ MODULE TraceeTree ------------------------------
(***************************************************************************)
(* The tracer's wait loop and the family of its tracees: clones, threads   *)
(* that exec, exits and kills, and the records the tracer keeps of them.   *)
(*                                                                         *)
(* The kernel reports the stops of different tracees in any order, so a    *)
(* newborn's first stop may come before its parent's event; and a kill     *)
(* takes a stop away, reported or not.  An exec by a thread takes away the *)
(* stop of its leader and puts its own in that place: a handler that waits *)
(* for nothing then finds, and resumes, another stop than it was told of.  *)
(* The record of a tracee is reduced to what it inherits: its credentials. *)
(* Syscall stops are the subject of SyscallStops; here the stop "call"     *)
(* stands for all those that change the record.  The names are other than  *)
(* those of SyscallStops, the other half of the loop, so that one module   *)
(* can extend both.                                                        *)
(***************************************************************************)
EXTENDS Integers, FiniteSets, Sequences

CONSTANTS
  Tids,
  Tracee1,                  (* the process TracerMain forks                *)
  Creds, FirstCred, NoCred,
  EarlyReuse,               (* the kernel may use a thread id again while  *)
                            (* the tracer has a record of its last user    *)
  MaxClones, MaxKills, MaxCalls      (* bounds                            *)

ASSUME TidsAssumption == Tracee1 \in Tids
ASSUME CredsAssumption == FirstCred \in Creds /\ NoCred \notin Creds
ASSUME ReuseAssumption == EarlyReuse \in BOOLEAN
ASSUME TreeBoundsAssumption == {MaxClones, MaxKills, MaxCalls} \subseteq Nat

VARIABLES
  life,        (* the kernel: "free", "live", "execing" or "zombie"        *)
  leader,      (* the thread group                                         *)
  event, about, (* the ptrace-stop a tracee is in, and its event message    *)
  told,        (* waitpid has reported that stop                           *)
  truth,       (* ghost: the credentials the tracee has by its history     *)
  announced,   (* ghost: tids whose parent's event the tracer has handled  *)
  unheard,     (* ghost: tids with an exec that was resumed unhandled, and *)
               (* the clones of these                                      *)
  tracked, states, pending, ready,    (* the tracer's maps                 *)
  pc, current, (* what the tracer is doing, and for which stop             *)
  budget

tasks    == <<life, leader, event, about, told>>
maps     == <<tracked, states, pending, ready>>
history  == <<truth, announced, unheard>>
treeVars == <<tasks, history, maps, pc, current, budget>>

Live(t)    == life[t] \in {"live", "execing"}
Running(t) == life[t] = "live" /\ event[t] = "none"
(* The tracer has a record of a tid, or has yet to be told of an event     *)
(* about it.                                                               *)
Known(t)   == \/ states[t] # NoCred \/ t \in tracked \cup pending
              \/ \E p \in Tids \ {t} : about[p] = t
Group(l)   == {t \in Tids : life[t] # "free" /\ leader[t] = l}
Spend(what) == /\ budget[what] > 0
               /\ budget' = [budget EXCEPT ![what] = @ - 1]

TreeInit ==
  /\ life = [t \in Tids |-> IF t = Tracee1 THEN "live" ELSE "free"]
  /\ leader = [t \in Tids |-> t]
  /\ event = [t \in Tids |-> "none"] /\ about = [t \in Tids |-> t]
  /\ told = [t \in Tids |-> FALSE]
  /\ truth = [t \in Tids |-> FirstCred] /\ announced = {Tracee1}
  /\ unheard = {}
  /\ tracked = {Tracee1}
  /\ states = [t \in Tids |-> IF t = Tracee1 THEN FirstCred ELSE NoCred]
  /\ pending = {} /\ ready = <<>>
  /\ pc = "wait" /\ current = Tracee1
  /\ budget = [clone |-> MaxClones, kill |-> MaxKills, call |-> MaxCalls]

-----------------------------------------------------------------------------
(* Tracees                                                                 *)

(* fork, vfork or clone: the child starts in a stop, the caller enters one *)
(* that tells of it.                                                       *)
Clone(p, c, group) ==
  /\ pc # "done" /\ Running(p) /\ life[c] = "free"
  /\ EarlyReuse \/ ~Known(c)
  /\ group \in {leader[p], c}
  /\ Spend("clone")
  /\ life' = [life EXCEPT ![c] = "live"]
  /\ leader' = [leader EXCEPT ![c] = group]
  /\ event' = [event EXCEPT ![c] = "newborn", ![p] = "clone"]
  /\ about' = [about EXCEPT ![c] = c, ![p] = c]
  /\ told' = [told EXCEPT ![c] = FALSE, ![p] = FALSE]
  /\ truth' = [truth EXCEPT ![c] = truth[p]]
  /\ announced' = announced \ {c}
  /\ unheard' = (unheard \ {c}) \cup (IF p \in unheard THEN {c} ELSE {})
  /\ UNCHANGED <<maps, pc, current>>

(* The dead are zombies, and their stops are gone, whether the tracer has  *)
(* seen them or not.                                                       *)
Ended(dead) == [t \in Tids |-> IF t \in dead /\ Live(t) THEN "zombie" ELSE life[t]]
LoseStops(dead) ==
  /\ event' = [t \in Tids |-> IF t \in dead THEN "none" ELSE event[t]]
  /\ about' = [t \in Tids |-> IF t \in dead THEN t ELSE about[t]]
  /\ told' = [t \in Tids |-> told[t] /\ t \notin dead]

(* A thread other than the leader execs: first the others end, ...         *)
ExecBegins(t) ==
  LET others == Group(leader[t]) \ {t} IN
  /\ pc # "done" /\ Running(t) /\ t # leader[t]
  /\ life' = [Ended(others) EXCEPT ![t] = "execing"]
  /\ LoseStops(others)
  /\ UNCHANGED <<leader, history, maps, pc, current, budget>>

(* ... then, when all but the leader are reaped, the leader vanishes       *)
(* without a report, and the thread takes its id and gives up its own.     *)
ThreadExec(t) ==
  LET l == leader[t] IN
  /\ pc # "done" /\ life[t] = "execing"
  /\ Group(l) = {t, l}
  /\ life' = [life EXCEPT ![t] = "free", ![l] = "live"]
  /\ event' = [event EXCEPT ![t] = "none", ![l] = "exec"]
  /\ about' = [about EXCEPT ![t] = t, ![l] = t]
  /\ told' = [told EXCEPT ![t] = FALSE, ![l] = FALSE]
  /\ truth' = [truth EXCEPT ![l] = truth[t]]
  /\ unheard' = (unheard \ {l}) \cup (IF t \in unheard THEN {l} ELSE {})
  /\ UNCHANGED <<leader, announced, maps, pc, current, budget>>

ExitThread(t) ==
  /\ pc # "done" /\ Running(t)
  /\ life' = Ended({t})
  /\ LoseStops({t})
  /\ UNCHANGED <<leader, history, maps, pc, current, budget>>

(* SIGKILL, or exit_group by one of the threads.                           *)
KillGroup(l) ==
  /\ pc # "done" /\ \E t \in Group(l) : Live(t)
  /\ Spend("kill")
  /\ life' = Ended(Group(l))
  /\ LoseStops(Group(l))
  /\ UNCHANGED <<leader, history, maps, pc, current>>

(* A system call at whose entry stop the tracer changes the record.        *)
Call(t) ==
  /\ pc # "done" /\ Running(t)
  /\ Spend("call")
  /\ event' = [event EXCEPT ![t] = "call"]
  /\ UNCHANGED <<life, leader, about, told, history, maps, pc, current>>

-----------------------------------------------------------------------------
(* The tracer                                                              *)

(* ptrace(PTRACE_CONT): fails without effect when the tracee is not stopped.*)
Resume(t) ==
  /\ event' = [event EXCEPT ![t] = "none"]
  /\ about' = [about EXCEPT ![t] = t]
  /\ told' = [told EXCEPT ![t] = FALSE]
  /\ UNCHANGED <<life, leader>>

(* waitpid reports a stop.                                                 *)
WaitStop(t) ==
  /\ pc = "wait" /\ tracked # {} /\ ready = <<>>
  /\ Live(t) /\ event[t] # "none" /\ ~told[t]
  /\ told' = [told EXCEPT ![t] = TRUE]
  /\ pc' = event[t] /\ current' = t
  /\ UNCHANGED <<life, leader, event, about, history, maps, budget>>

(* waitpid reports an end; a leader's only when its threads are gone.      *)
WaitEnd(t) ==
  /\ pc = "wait" /\ tracked # {} /\ ready = <<>>
  /\ life[t] = "zombie"
  /\ leader[t] = t => Group(t) = {t}
  /\ life' = [life EXCEPT ![t] = "free"]
  /\ leader' = [leader EXCEPT ![t] = t]
  /\ tracked' = tracked \ {t}
  /\ states' = [states EXCEPT ![t] = NoCred]
  /\ UNCHANGED <<event, about, told, history, pending, ready, pc,
                 current, budget>>

(* A stop that was put aside is handled before any other is waited for.    *)
TakeReady ==
  /\ pc = "wait" /\ tracked # {} /\ ready # <<>>
  /\ pc' = "newborn" /\ current' = Head(ready)
  /\ ready' = Tail(ready)
  /\ UNCHANGED <<tasks, history, tracked, states, pending, budget>>

(* Mutant: a newborn is resumed whether or not its parent's event has come.*)
NewbornNotDeferred ==
  /\ pc = "newborn"
  /\ pc' = "wait"
  /\ Resume(current)
  /\ states' = [states EXCEPT ![current] = IF @ = NoCred THEN FirstCred ELSE @]
  /\ UNCHANGED <<history, tracked, pending, ready, current, budget>>

(* The first stop of a tracee that has no record waits for its parent's    *)
(* event.                                                                  *)
HandleNewborn ==
  /\ pc = "newborn"
  /\ pc' = "wait"
  /\ \/ /\ states[current] = NoCred
        /\ pending' = pending \cup {current}
        /\ UNCHANGED tasks
     \/ /\ states[current] # NoCred
        /\ Resume(current)
        /\ UNCHANGED pending
  /\ UNCHANGED <<history, tracked, states, ready, current, budget>>

(* Mutant: the child is not tracked until its own stop.                    *)
CloneUntracked ==
  LET c == about[current] IN
  /\ pc = "clone" /\ event[current] # "none"
  /\ states' = [states EXCEPT ![c] = states[current]]
  /\ announced' = announced \cup {c}
  /\ ready' = IF c \in pending THEN Append(ready, c) ELSE ready
  /\ pending' = pending \ {c}
  /\ pc' = "resume"
  /\ UNCHANGED <<tasks, truth, unheard, tracked, current, budget>>

(* Mutant: a stop that was put aside stays there.                          *)
CloneLeavesPending ==
  LET c == about[current] IN
  /\ pc = "clone" /\ event[current] # "none"
  /\ tracked' = tracked \cup {c}
  /\ states' = [states EXCEPT ![c] = states[current]]
  /\ announced' = announced \cup {c}
  /\ pc' = "resume"
  /\ UNCHANGED <<tasks, truth, unheard, pending, ready, current, budget>>

(* The parent's event: the child's record is a copy of the caller's.  The  *)
(* message is that of the stop the tracee is in now, which another         *)
(* thread's exec may have put in the place of the clone's: it then names   *)
(* that thread, which has just given up its id.                            *)
HandleClone ==
  LET c == about[current] IN
  /\ pc = "clone" /\ event[current] # "none"
  /\ tracked' = tracked \cup {c}
  /\ states' = [states EXCEPT ![c] = states[current]]
  /\ announced' = announced \cup {c}
  /\ ready' = IF c \in pending THEN Append(ready, c) ELSE ready
  /\ pending' = pending \ {c}
  /\ pc' = "resume"
  /\ UNCHANGED <<tasks, truth, unheard, current, budget>>

(* The record of the thread that called exec moves to the leader's id.     *)
HandleExecEvent ==
  LET previous == about[current] IN
  /\ pc = "exec" /\ event[current] # "none"
  /\ states' = [states EXCEPT ![current] = IF states[previous] = NoCred
                                           THEN @ ELSE states[previous],
                              ![previous] = NoCred]
  /\ tracked' = (tracked \ {previous}) \cup {current}
  /\ Resume(current)
  /\ pc' = "wait"
  /\ UNCHANGED <<history, pending, ready, current, budget>>

(* The handler of a system call changes the record.  It goes by the        *)
(* registers of the stop the tracee is in now; those of an exec hold no    *)
(* call, and those of a tracee that is not stopped cannot be read.         *)
HandleCall ==
  /\ pc = "call"
  /\ \/ /\ event[current] = "call"
        /\ \E cred \in Creds : /\ states' = [states EXCEPT ![current] = cred]
                               /\ truth' = [truth EXCEPT ![current] = cred]
     \/ /\ event[current] # "call"
        /\ UNCHANGED <<states, truth>>
  /\ pc' = "resume"
  /\ UNCHANGED <<tasks, announced, unheard, tracked, pending, ready, current, budget>>

(* PTRACE_GETEVENTMSG fails: the tracee is stopped no more, because it was *)
(* killed or another thread is about to take its id.                       *)
HandleGone ==
  /\ pc \in {"clone", "exec"} /\ event[current] = "none"
  /\ pc' = "resume"
  /\ UNCHANGED <<tasks, history, maps, current, budget>>

(* The end of a handler: whatever stop the tracee is in now is over.       *)
ResumeStopped ==
  /\ pc = "resume"
  /\ Resume(current)
  /\ unheard' = unheard \cup (IF event[current] = "exec" THEN {current} ELSE {})
  /\ pc' = "wait"
  /\ UNCHANGED <<truth, announced, maps, current, budget>>

(* Mutant: the loop ends only when the last tracked process has ended.     *)
DoneWhenUntracked ==
  /\ pc = "wait" /\ tracked = {}
  /\ pc' = "done"
  /\ UNCHANGED <<tasks, history, maps, current, budget>>

(* The loop ends when nothing is tracked, or waitpid finds no tracee at    *)
(* all.  PTRACE_O_EXITKILL then ends those that are left.                  *)
Done ==
  /\ pc = "wait"
  /\ tracked = {} \/ (ready = <<>> /\ \A t \in Tids : life[t] = "free")
  /\ pc' = "done"
  /\ UNCHANGED <<tasks, history, maps, current, budget>>

-----------------------------------------------------------------------------
Tracee(t) == \/ \E c \in Tids : \E g \in Tids : Clone(t, c, g)
             \/ ExecBegins(t) \/ ThreadExec(t)
             \/ ExitThread(t) \/ KillGroup(t) \/ Call(t)
Track == \/ TakeReady \/ HandleNewborn \/ HandleClone \/ HandleExecEvent
         \/ HandleCall \/ HandleGone \/ ResumeStopped \/ Done
Report(t) == WaitStop(t) \/ WaitEnd(t)

TreeNext == Track \/ \E t \in Tids : Report(t) \/ Tracee(t)

TreeSpec == TreeInit /\ [][TreeNext]_treeVars

(* The tracer keeps running and waitpid reports every tracee in the end;   *)
(* tracees owe nothing.                                                    *)
FairTreeSpec ==
  TreeSpec /\ WF_treeVars(Track) /\ \A t \in Tids : SF_treeVars(Report(t))

-----------------------------------------------------------------------------
(* Type correctness; the stops put aside are those of tids that have no    *)
(* record.                                                                 *)
TreeTypeOK ==
  /\ life \in [Tids -> {"free", "live", "execing", "zombie"}]
  /\ leader \in [Tids -> Tids] /\ about \in [Tids -> Tids]
  /\ event \in [Tids -> {"none", "newborn", "clone", "exec", "call"}]
  /\ told \in [Tids -> BOOLEAN]
  /\ truth \in [Tids -> Creds] /\ {announced, unheard} \subseteq SUBSET Tids
  /\ tracked \subseteq Tids /\ pending \subseteq Tids /\ ready \in Seq(Tids)
  /\ states \in [Tids -> Creds \cup {NoCred}]
  /\ \A t \in pending : states[t] = NoCred
  /\ pc \in {"wait", "newborn", "clone", "exec", "call", "resume", "done"} /\ current \in Tids
  /\ budget \in [{"clone", "kill", "call"} -> Nat]

(* A tracee that runs has the record its history gives it - its parent's   *)
(* at the clone, its thread's at the exec - in whatever order the stops    *)
(* were reported, and whoever was killed.  The exceptions are a tracee     *)
(* whose exec was resumed by the handler of the stop before it, and what   *)
(* it clones: these have the record of the leader whose id it took.  With  *)
(* EarlyReuse = FALSE nobody has a record that an earlier tracee left.     *)
ChildInherits ==
  \A t \in Tids : Running(t) /\ t \notin unheard => states[t] = truth[t]

(* No exec is resumed by the handler of another stop.  The code does not   *)
(* keep this: handlers and the kernel's exec are not synchronized.         *)
ExecsAreHeard == unheard = {}

(* A tracee only runs after its parent's event was handled.                *)
NewbornWaitsForParent == \A t \in Tids : Running(t) => t \in announced

(* The tracer, whose end kills the tracees, does not end while one of them *)
(* runs or has an event to tell.                                           *)
TracerOutlivesTracees ==
  pc = "done" => \A t \in Tids : Live(t) => event[t] = "newborn"

(* A newborn whose parent was killed, or ended by another thread's exec,   *)
(* before the tracer handled the event.                                    *)
Orphan(t) == /\ event[t] = "newborn" /\ states[t] = NoCred
             /\ \A p \in Tids : event[p] = "clone" => about[p] # t

(* Every tracee that stops is resumed or dies, or is an orphan, or the     *)
(* session ends.  With EarlyReuse = FALSE this says nothing of a stop that *)
(* was put aside and left to a later tracee with the same id.              *)
StoppedAreResumed ==
  \A t \in Tids :
    (event[t] # "none") ~> (event[t] = "none" \/ Orphan(t) \/ pc = "done")

(* When no tracee is left the tracer ends, whatever it still has records   *)
(* of.                                                                     *)
TracerEnds == (\A t \in Tids : ~Live(t)) ~> (pc = "done")
=============================================================================
