--------------------------- MODULE TerminalTable ---------------------------
(***************************************************************************)
(* The shared table of terminal owners.  The tracer that first records a   *)
(* terminal is its keeper: it pins the device node with a descriptor, and  *)
(* an entry counts only while its keeper runs and the pinned node is still *)
(* linked.  Nodes are unlinked and made anew with the same inode number,   *)
(* tracers are killed and their process ids used again, at any step.       *)
(*                                                                         *)
(* The table is only touched under the writer lock, which ends with its    *)
(* holder (OwnershipStore).  An owner is a uid and a gid, written one      *)
(* after the other; a node is an inode number and the time it was made.    *)
(***************************************************************************)
EXTENDS Integers, FiniteSets

CONSTANTS
  Tracers,
  Inodes,             (* inode numbers of devpts                           *)
  Slots,              (* kTerminals                                        *)
  Users,              (* owners a chown gives                              *)
  Default,            (* the owner a terminal starts with                  *)
  MaxNodes, MaxCalls, MaxKills (* bounds                                   *)

ASSUME TerminalBoundsAssumption ==
  /\ Slots \in Nat \ {0} /\ {MaxNodes, MaxCalls, MaxKills} \subseteq Nat
  /\ Default \notin Users /\ 0 \notin Inodes

VARIABLES
  node,               (* of each inode number: when its node was made, or 0*)
  table,              (* shared_->terminals                                *)
  fds, pins,          (* of each tracer: its descriptors; terminal_pins_   *)
  start,              (* of each tracer: its process's start time          *)
  call,               (* of each tracer: the call it is in                 *)
  lock,               (* the writer lock: its holder, or {}                *)
  answer,             (* of each tracer: what LookupTerminal found         *)
  made, calls, kills

vars == <<node, table, fds, pins, start, call, lock, answer, made, calls, kills>>

Slot     == 1 .. Slots
Fds      == 1 .. Slots + 2
NoFd     == 0
NoFile   == [ino |-> 0, born |-> 0]
NoEntry  == [ino |-> 0, born |-> 0, uid |-> Default, gid |-> Default,
             keeper |-> 0, start |-> 0, fd |-> NoFd]
NoOwner  == [uid |-> Default, gid |-> Default, born |-> 0]
NoCall   == [pc |-> "idle", ino |-> 0, born |-> 0, fd |-> NoFd, slot |-> 1,
             live |-> FALSE, new |-> Default, expected |-> NoOwner]
At(t, pc) == call[t].pc = pc
First(S)  == {s \in S : \A q \in S : s <= q}
Linked(f) == f.ino # 0 /\ node[f.ino] = f.born

Init ==
  /\ node = [i \in Inodes |-> 0]
  /\ table = [s \in Slot |-> NoEntry]
  /\ fds = [t \in Tracers |-> [n \in Fds |-> NoFile]]
  /\ pins = [t \in Tracers |-> [s \in Slot |-> NoFd]]
  /\ start = [t \in Tracers |-> 1]
  /\ call = [t \in Tracers |-> NoCall] /\ lock = {}
  /\ answer = [t \in Tracers |-> NoFile]
  /\ made = 0 /\ calls = MaxCalls /\ kills = MaxKills

-----------------------------------------------------------------------------
(* Mutant: a process is known by its id alone.                             *)
LivePid(e, files) ==
  LET f == files[e.keeper][e.fd]
  IN e.ino # 0 /\ Linked(f) /\ f.ino = e.ino

(* /proc/<keeper>/fd/<fd> is a linked node with the entry's inode number.  *)
Live(e, files) ==
  LET f == files[e.keeper][e.fd]
  IN e.ino # 0 /\ start[e.keeper] = e.start /\ Linked(f) /\ f.ino = e.ino

-----------------------------------------------------------------------------
(* LookupTerminal of a node that stat found: under the lock.               *)
Lookup(t, i) ==
  /\ At(t, "idle") /\ calls > 0 /\ lock = {} /\ node[i] # 0
  /\ calls' = calls - 1
  /\ \/ /\ \A s \in Slot : table[s].ino # i \/ ~Live(table[s], fds)
        /\ answer' = [answer EXCEPT ![t] = NoFile]
     \/ \E s \in Slot :
          /\ table[s].ino = i /\ Live(table[s], fds)
          /\ answer' = [answer EXCEPT ![t] = [ino |-> i, born |-> table[s].born]]
  /\ UNCHANGED <<node, table, fds, pins, start, call, lock, made, kills>>

-----------------------------------------------------------------------------
(* TerminalOwner                                                           *)

(* The node is opened, with the first free descriptor, before the lock is  *)
(* taken.                                                                  *)
Open(t, i, new, expected, pc) ==
  /\ node[i] # 0
  /\ \E fd \in First({n \in Fds : fds[t][n] = NoFile}) :
       /\ fds' = [fds EXCEPT ![t][fd] = [ino |-> i, born |-> node[i]]]
       /\ call' = [call EXCEPT ![t] =
            [pc |-> pc, ino |-> i, born |-> node[i], fd |-> fd, slot |-> 1,
             live |-> FALSE, new |-> new, expected |-> expected]]

(* The owner of a terminal is asked for; new is what it will be changed to.*)
Begin(t, i, new) ==
  /\ At(t, "idle") /\ calls > 0
  /\ calls' = calls - 1
  /\ Open(t, i, new, NoOwner, "ask")
  /\ answer' = [answer EXCEPT ![t] = NoFile]
  /\ UNCHANGED <<node, table, pins, start, lock, made, kills>>

(* Mutant: a pin is closed and its entry stays.                            *)
ForgetPins(t) ==
  LET stale == {s \in Slot : pins[t][s] # NoFd /\ ~Linked(fds[t][pins[t][s]])}
  IN [files   |-> [fds EXCEPT ![t] = [n \in Fds |->
                     IF \E s \in stale : pins[t][s] = n THEN NoFile ELSE @[n]]],
      pins    |-> [pins EXCEPT ![t] = [s \in Slot |-> IF s \in stale THEN NoFd ELSE @[s]]],
      entries |-> table]

(* Pins of nodes that are gone are closed, and their entries cleared.      *)
Unpin(t) ==
  LET stale == {s \in Slot : pins[t][s] # NoFd /\ ~Linked(fds[t][pins[t][s]])}
  IN [files   |-> [fds EXCEPT ![t] = [n \in Fds |->
                     IF \E s \in stale : pins[t][s] = n THEN NoFile ELSE @[n]]],
      pins    |-> [pins EXCEPT ![t] = [s \in Slot |-> IF s \in stale THEN NoFd ELSE @[s]]],
      entries |-> [s \in Slot |->
                     IF s \in stale /\ table[s].keeper = t /\ table[s].fd = pins[t][s]
                     THEN [table[s] EXCEPT !.ino = 0] ELSE table[s]]]

(* The terminal's slot, or the first free one, or one whose entry is dead. *)
Choose(i, entries, files) ==
  LET mine == {s \in Slot : entries[s].ino = i}
      free == {s \in Slot : entries[s].ino = 0}
      dead == {s \in Slot : ~Live(entries[s], files)}
  IN CASE mine # {}               -> First(mine)
       [] mine = {} /\ free # {}  -> First(free)
       [] OTHER                   -> First(dead)

Same(o, e) == o = [uid |-> e.uid, gid |-> e.gid, born |-> e.born]

Close(files, t, fd) == [files EXCEPT ![t][fd] = NoFile]

(* The caller gets an answer, or an error, and the descriptor is closed.   *)
Leave(t, u, after) ==
  /\ fds' = Close(u.files, t, call[t].fd) /\ pins' = u.pins /\ table' = u.entries
  /\ call' = [call EXCEPT ![t] = after]
  /\ lock' = lock

Checked(c, e) ==
  [pc |-> "checked", ino |-> c.ino, born |-> 0, fd |-> NoFd, slot |-> 1, live |-> FALSE,
   new |-> c.new, expected |-> [uid |-> e.uid, gid |-> e.gid, born |-> e.born]]

(* The entry of slot s is to be written under the lock: the terminal's     *)
(* first, which the descriptor pins, or one whose owner changes.           *)
Write(t, u, s, live) ==
  /\ lock' = {t}
  /\ call' = [call EXCEPT ![t].pc = IF live THEN "replace" ELSE "record",
                          ![t].slot = s, ![t].live = live]
  /\ fds' = IF ~live /\ u.pins[t][s] # NoFd
            THEN Close(u.files, t, u.pins[t][s]) ELSE u.files
  /\ pins' = IF live THEN u.pins ELSE [u.pins EXCEPT ![t][s] = call[t].fd]
  /\ table' = u.entries

(* What is found under the lock: no slot, the owner asked for, an entry to *)
(* write, or another owner than the caller expected.                       *)
Enter(t) ==
  /\ At(t, "ask") \/ At(t, "change")
  /\ lock = {}
  /\ LET c     == call[t]
         u     == Unpin(t)
         slots == Choose(c.ino, u.entries, u.files)
     IN \/ slots = {} /\ Leave(t, u, NoCall)
        \/ \E s \in slots :
             LET e    == u.entries[s]
                 live == e.ino = c.ino /\ Live(e, u.files)
             IN \/ At(t, "ask") /\ live /\ Leave(t, u, Checked(c, e))
                \/ At(t, "ask") /\ ~live /\ Write(t, u, s, FALSE)
                \/ At(t, "change") /\ live /\ Same(c.expected, e) /\ Write(t, u, s, TRUE)
                \/ At(t, "change") /\ ~(live /\ Same(c.expected, e)) /\ Leave(t, u, NoCall)
  /\ UNCHANGED <<node, start, answer, made, calls, kills>>

Writing(t) == lock = {t} /\ call[t].pc \in {"record", "replace"}
Owner(t)   == IF call[t].pc \in {"replace", "replacing"} THEN call[t].new ELSE Default

(* Mutant: the entry stays valid while it is written.                      *)
KeepValid(t) ==
  /\ Writing(t)
  /\ call' = [call EXCEPT ![t].pc = IF At(t, "record") THEN "recording" ELSE "replacing"]
  /\ table' = [table EXCEPT ![call[t].slot].uid = Owner(t)]
  /\ UNCHANGED <<node, fds, pins, start, lock, answer, made, calls, kills>>

(* The entry is invalid while its owner is written.                        *)
Invalidate(t) ==
  /\ Writing(t)
  /\ call' = [call EXCEPT ![t].pc = IF At(t, "record") THEN "recording" ELSE "replacing"]
  /\ table' = [table EXCEPT ![call[t].slot].ino = 0, ![call[t].slot].uid = Owner(t)]
  /\ UNCHANGED <<node, fds, pins, start, lock, answer, made, calls, kills>>

Fields(t) ==
  /\ call[t].pc \in {"recording", "replacing"}
  /\ LET c == call[t]
         e == table[c.slot]
     IN /\ table' = [table EXCEPT ![c.slot] =
             [ino |-> e.ino, uid |-> e.uid, gid |-> Owner(t),
              born   |-> IF c.live THEN c.expected.born ELSE c.born,
              keeper |-> IF c.live THEN e.keeper ELSE t,
              start  |-> IF c.live THEN e.start ELSE start[t],
              fd     |-> IF c.live THEN e.fd ELSE c.fd]]
        /\ call' = [call EXCEPT ![t].pc = IF c.pc = "recording" THEN "recorded" ELSE "replaced"]
  /\ UNCHANGED <<node, fds, pins, start, lock, answer, made, calls, kills>>

(* The inode number comes last; then the lock goes, and the descriptor     *)
(* that is not a pin.                                                      *)
Publish(t) ==
  /\ call[t].pc \in {"recorded", "replaced"}
  /\ LET c == call[t] IN
       /\ table' = [table EXCEPT ![c.slot].ino = c.ino]
       /\ lock' = {}
       /\ fds' = IF c.live THEN Close(fds, t, c.fd) ELSE fds
       /\ call' = [call EXCEPT ![t] =
            IF c.pc = "replaced" THEN NoCall ELSE Checked(c, table[c.slot])]
  /\ UNCHANGED <<node, pins, start, answer, made, calls, kills>>

(* The caller checks what it may do, and changes the owner it was told.    *)
Change(t) ==
  /\ At(t, "checked")
  /\ \/ call[t].new = Default /\ call' = [call EXCEPT ![t] = NoCall] /\ UNCHANGED fds
     \/ call[t].new # Default /\ Open(t, call[t].ino, call[t].new, call[t].expected, "change")
     \/ call[t].new # Default /\ node[call[t].ino] = 0
        /\ call' = [call EXCEPT ![t] = NoCall] /\ UNCHANGED fds
  /\ UNCHANGED <<node, table, pins, start, lock, answer, made, calls, kills>>

-----------------------------------------------------------------------------
(* A terminal is closed; a new one has the inode number of an old one.     *)
Unlink(i) ==
  /\ node[i] # 0
  /\ node' = [node EXCEPT ![i] = 0]
  /\ answer' = [t \in Tracers |-> NoFile]
  /\ UNCHANGED <<table, fds, pins, start, call, lock, made, calls, kills>>

Create(i) ==
  /\ node[i] = 0 /\ made < MaxNodes
  /\ made' = made + 1
  /\ node' = [node EXCEPT ![i] = made + 1]
  /\ UNCHANGED <<table, fds, pins, start, call, lock, answer, calls, kills>>

(* A tracer ends or is killed, and another process has its id.             *)
End(t) ==
  /\ kills > 0 /\ kills' = kills - 1
  /\ start' = [start EXCEPT ![t] = @ + 1]
  /\ fds' = [fds EXCEPT ![t] = [n \in Fds |-> NoFile]]
  /\ pins' = [pins EXCEPT ![t] = [s \in Slot |-> NoFd]]
  /\ call' = [call EXCEPT ![t] = NoCall]
  /\ answer' = [answer EXCEPT ![t] = NoFile]
  /\ lock' = lock \ {t}
  /\ UNCHANGED <<node, table, made, calls>>

(* No call is in progress.                                                 *)
Rest ==
  /\ \A t \in Tracers : At(t, "idle")
  /\ UNCHANGED vars

Next ==
  \/ \E t \in Tracers :
       \/ \E i \in Inodes : \/ Lookup(t, i)
                            \/ \E new \in Users \cup {Default} : Begin(t, i, new)
       \/ Enter(t) \/ Invalidate(t) \/ Fields(t) \/ Publish(t) \/ Change(t) \/ End(t)
  \/ \E i \in Inodes : Unlink(i) \/ Create(i)
  \/ Rest

Spec == Init /\ [][Next]_vars

-----------------------------------------------------------------------------
(* What LookupTerminal finds is of the node that has the inode number now, *)
(* not of one that had it before, whoever recorded it and whatever process *)
(* has the keeper's id or a node its descriptor's number.                  *)
AnswersAreOfThisNode ==
  \A t \in Tracers : answer[t] # NoFile => node[answer[t].ino] = answer[t].born

(* A writer that is killed leaves an invalid entry, never an owner of two  *)
(* halves; and a terminal has one entry.                                   *)
TerminalIsWhole ==
  \A s \in Slot : table[s].ino # 0 =>
    /\ table[s].uid = table[s].gid
    /\ \A q \in Slot : q # s => table[q].ino # table[s].ino

(* While the keeper of an entry runs, it has the entry's node open, and    *)
(* knows the descriptor for a pin: it neither closes it nor uses the       *)
(* number for another file.                                                *)
KeeperHasPin ==
  \A s \in Slot : LET e == table[s] IN
    e.ino # 0 /\ e.start = start[e.keeper] =>
      /\ fds[e.keeper][e.fd] = [ino |-> e.ino, born |-> e.born]
      /\ \E q \in Slot : pins[e.keeper][q] = e.fd
=============================================================================
