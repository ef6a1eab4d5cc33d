# A verification of andlify

andlify runs a Linux root file system inside an Android app, without root.
A *tracer* process (`library/src/main/cpp/ptrace_engine.cpp`) runs the guest
program under ptrace, rewrites its paths, emulates user ids, namespaces and
sockets, and keeps the owners and modes that Android's own file system cannot
keep in an *ownership store* (`library/src/main/cpp/ownership/`). Several
tracers, one per chroot session, share the store of a rootfs.

This directory holds TLA+ modules translated from that code, TLC runs on small
instances, and theorems checked by TLAPS. `PROJECT.json` maps each definition
to the lines it stands for and lists runs, mutants, hazards, findings and
theorems. Paths below are relative to `src/`, and `cpp/` abbreviates
`library/src/main/cpp/`.

1. [Inventory](#1-inventory)
2. [Modules, and how they correspond to the code](#2-modules-and-how-they-correspond-to-the-code)
3. [Runs, bounds and fairness](#3-runs-bounds-and-fairness)
4. [Proofs](#4-proofs)
5. [What was found](#5-what-was-found)
6. [What is not modelled](#6-what-is-not-modelled)
7. [Plan](#7-plan)

## 1. Inventory

| Component | Source | State | Operations | Interacts with |
|---|---|---|---|---|
| Ownership store | `cpp/ownership/ownership_store.cpp`, `ownership_persistence.cpp`, `ownership_store_internal.h`, `ownership_store.h` | mapped table with `version`, `sequence`, `checkpoint`, `dirty`, `failed`; `journal`, `snapshot`; `writer.lock` | `Set`, `SetLocked`, `Lookup`, `Lock`, `Unlock`, `Replay`, `CheckpointLocked`, `Put`, `Create`, `SetPath` | every tracer of the rootfs through shared memory, flock and two files |
| Session group | `ownership_store.cpp` `Open`, `CloseInheritedDescriptors`, destructor | `init.lock`, the lease, `magic` | first opener rebuilds, later ones attach | the app forks tracers while its own threads open stores |
| Process registry | `ownership_store.cpp` `RegisterProcess`, `Process`, `ForgetProcess` | a linearly probed table of pid, ids and start time in the same mapping | register, look up, forget | tracers read each other's identities for socket credentials |
| Tracer loop: tracees | `ptrace_engine.cpp` `TracerMain` | `tracked`, `states`, `pending_child_stops`, `ready_child_stops` | clone and exec events, first stops, ends | the kernel: waitpid in any order, kills at any moment |
| Tracer loop: syscall stops | `TracerMain`, `ResumeTracee`, `RetryBlockedSyscall`, `SuppressBlockedSyscall` | `TraceeState`: `expect_entry`, `entry_stop_pc`, `blocked_syscall_retry`, `has_emulated_return` | entry, seccomp, exit and signal stops | the order of stops depends on the kernel; another seccomp filter traps calls |
| Virtual files | `cpp/filesystem/virtual_filesystem.cpp`, `ownership_store.cpp` `Create` | the records of a path's inodes, a staging directory | `PrepareFileOperation` at a call's entry, `FinishFileOperation` at its exit, access checks | reads and writes the store in steps other tracers interleave with |
| Terminals | `cpp/ownership/terminal_ownership.cpp` | shared table of terminals and their keepers; each tracer's pins | `LookupTerminal`, `TerminalOwner` | keepers are processes that may die; inode numbers, process ids and descriptors are used again |
| Rootfs installation | `cpp/rootfs_extractor.cpp`, `cpp/ownership/user_setup.cpp`, `ownership_store.cpp` `Scan` | files, ready marker, records | extract, scan, prepare the user | the store; kills between steps |
| Credentials | `ptrace_engine.cpp`, the set\*id handlers and exec | real, effective, saved and fs ids | set\*id, exec of set-ID files | publishes identities in the registry |
| Socket aliases | `ptrace_engine.cpp` | short alias paths of long socket paths | create at entry, finish at exit | interrupted calls restart |
| Sessions | `ptrace_engine.cpp` `StartChroot`, `StopChroot`; `ChrootSession`, `MainActivity` | the session's pid, pipes, UI's current session | start, read, stop, end | reader threads, main thread |
| Paths, mounts and network namespaces, shadow-file locks | `ptrace_engine.cpp`, `cpp/path_rewrite.cpp` | per process | string and table operations | - |

Hard behaviours, in the order of what they could cost: a table read without a
lock while another process writes or rebuilds it; a process killed at any
instruction (Android kills apps freely, and `StopChroot` sends SIGKILL after a
second), so that locks are released by the kernel in the middle of an update;
files that lose what was not synchronized; locks that live on in forked
descriptors; ptrace events of different tracees in any order, and thread ids
that are used again; and system calls that stop two, three or four times
depending on the kernel and on filters andlify does not control.

What makes each part correct:

* *store*: one writer at a time; a lookup returns a whole record that was
  current; a recovery rebuilds exactly what was appended; a durable `Set`
  survives; the compare-and-swap replaces the record it names; lookups end.
* *session group*: whoever rebuilds the table is alone; an open store's table
  holds every change; every `Open` returns.
* *registry*: an identity that is returned belongs to the process that has the
  pid; a pid has one entry; a live process's identity is not lost.
* *tracees*: a running tracee has the state its history gives it; whoever
  stops is resumed; the tracer ends with its tracees and not before.
* *syscall stops*: a traced call is handled exactly once before it runs,
  returns the result that is meant for it, and returns.
* *virtual files*: a change of owner or mode acts on the record of that moment
  and is allowed by it; a file that andlify creates appears with its record.
* *terminals*: a lookup never answers for an earlier terminal with the same
  inode number; an entry is whole, and its keeper holds the node it vouches for.
* *installation*: a ready marker means that the archive's owners and modes
  survive kills and power failures; widening a mode on disk does not lose it;
  account files keep their lines.
* *credentials*: an id that was given up comes back only through `execve`; a
  tracee's own tracer and the store tell others the same identity.
* *aliases*: they are removed whatever becomes of the call, and replace nothing.
* *sessions* (not modelled): a session that ended is not the current one.

`PROJECT.json` lists under `hazards` where in the code each of these could go
wrong and which property would tell.

## 2. Modules, and how they correspond to the code

| Module | Models | Checked by | Proved in |
|---|---|---|---|
| `OwnershipStore` | the store, one shared access per step | `MCOwnershipStore` | `OwnershipStoreProofs` |
| `OwnershipMap` | what the store promises: an abstract map | as a property of `OwnershipStore` (INSTANCE with a refinement mapping) | `OwnershipStoreProofs` |
| `SessionGroup` | opening, attaching to and leaving a store | `MCSessionGroup` | `SessionGroupProofs` |
| `ProcessRegistry` | the identities of processes | `MCProcessRegistry` | `ProcessRegistryProofs` |
| `TraceeTree` | clone, exec and death of tracees | `MCTraceeTree` | `TracerLoopProofs` |
| `SyscallStops` | the stops of one tracee's calls | `MCSyscallStops` | `TracerLoopProofs` |
| `VirtualFiles` | the file calls of several tracers, and `Create` | `MCVirtualFiles` | `VirtualFilesProofs` |
| `Credentials` | the set\*id family and exec, as operators | through `EmulatedCalls` | through `EmulatedCalls` |
| `EmulatedCalls` | credentials, published identities and socket aliases of a thread group | `MCEmulatedCalls` | `EmulatedCallsProofs` |
| `RootfsInstall` | extraction, the startup scan, the user's account and home | `MCRootfsInstall` | `RootfsInstallProofs` |
| `TerminalTable` | the owners of terminals | `MCTerminalTable` | `TerminalTableProofs` |

How they rest on each other: `OwnershipStore` shows that a change or a lookup
of the store behaves as one step on a map, and that a recovery rebuilds what was
recorded; `VirtualFiles` and `RootfsInstall` use it as that map.
`SessionGroup` shows that the first opener is alone, which `RootfsInstall`
takes for granted. `OwnershipStore` has the lock that ends with its holder,
under which `ProcessRegistry` and `TerminalTable` write. `TraceeTree` and
`SyscallStops` have the stops in whose handlers everything in `VirtualFiles`
and `EmulatedCalls` happens, and `EmulatedCalls` publishes the identities whose
table is `ProcessRegistry`.

Operators whose comment begins with *Mutant:* are not part of a specification:
they are plausible bugs, used to check that each property can fail.

**OwnershipStore.** `pc[p]` is the place of a thread in `Set`, `Lookup`,
`Replay` or `CheckpointLocked`; an action is one access that another process, a
kill or a power failure can tell apart (`PutInode`, `PutUid` and `PutMode`
write one record word by word, `ReadInode`, `ReadUid` and `ReadMode` copy it).
`version` is odd while the table changes. A record is reduced to three words,
and a file's slot is found without probing: hash collisions and a full table
are left out. `journal` is the sequence of whole records, `torn` says that an
incomplete one follows; `journalDisk` and `snapshotDisk` are what a power
failure leaves. `Crash` is SIGKILL at any step; `PowerLoss` also ends the
session group when nothing is lost. `history`, `shown` and `promised` are
ghosts: the maps that the appended records produce, how many of them readers
see, and how many a returned durable `Set` vouched for.

**OwnershipMap** keeps a sequence of maps, the number of changes that are
visible and the number that are durable. The mapping is `maps <- history`,
`visible <- shown`, `durable <- DurableSeq`. Two kills can leave several
changes recorded before any is visible, so `Change` does not wait for
`Publish`. Nor need `Publish` show all of them: when a recovery is killed after
it cleared `dirty` but before it published, the next `Set` finds a rebuilt table
under an odd version, and if its own `fdatasync` then fails, its `Unlock` shows
the changes before its own only. What never happens is that a later change is
visible without an earlier one, or that one becomes invisible while the group
lives.

**SessionGroup** takes the store as a counter of records and models what
`OwnershipStore` assumes of `Open`: `init.lock`, the lease and its downgrade,
`magic`, and the open file descriptions. flock belongs to a description, and a
fork duplicates it: `initFds[o]` and `leaseFds[o]` are the processes that refer
to the descriptions that `o` created. The two modules meet in `OpenFirst`
(`OwnershipStore`), which is an exclusive lease, `ResetTable` and the start of
`Rebuild` in one step; that nobody else is in the group at that moment is
`RebuildsAlone`.

**ProcessRegistry** keeps the probing that `OwnershipStore` drops: `Home` is a
pid's hash, `Free` ends a probe and `Deleted` is a tombstone. The search is one
step with the lock, since only lock holders change slots; writes and unlocked
reads are word by word. `/proc/<pid>/stat` is `ProcessStart`.

**TraceeTree** separates the kernel's variables (`life`, `leader`, `event`,
`about`) from the tracer's maps. A stop can be taken away by a kill after it
was reported; the handler's ptrace calls then fail (`HandleGone`). It can also be
replaced: when another thread execs, the kernel ends the leader, stopped or not
(`ExecBegins`), and the thread stops under the leader's id (`ThreadExec`). A
handler's ptrace calls act on the stop the tracee is in at that moment, so a
handler is two steps, what it does to the maps (`HandleClone`, `HandleCall`) and
`ResumeStopped`; the handlers of first stops and of execs are one, because their
tracee has no other thread. A call whose handler changes the record is the stop
`call`, and the state that a child inherits is reduced to its credentials.
`truth` and `unheard` are ghosts: the credentials of a tracee's history, and the
tracees whose exec was resumed by a handler that was told of another stop.

**SyscallStops** follows one tracee's call through the kernel (`phase`) and the
tracer's per-tracee state. The handlers are reduced to what they do to the call
number: leave it, replace it by `getpid` with a result to be delivered at the
exit, or by another call (`openat2` by `openat`, `execveat` by `execve`).
`kernel` is `"new"` when filters run after the entry stop, `"old"` (before 4.8)
when they run before it.

**VirtualFiles.** `run[t]` is what the tracer `t` knows between the steps of
one call: the place in the handler (`pc`), the call, the inode it resolved
(`node`), the record it read (`seen`), and the inode it made (`item`). The entry
stop is `Begin`, `Search`, `Stat`, `Lookup`, `Import` and `Adopt` (the function
`Owner`), one action for each group of calls in `PrepareFileOperation`
(`Chown`, `Chmod`, `OpenExisting`, `Make`, `Rename`, ...), and, for a new file,
`LockStore`, `Stage`, `Record`, `Publish` and `Cleanup` (the store's `Create`).
`KernelOpens`, `KernelMoves` and `KernelCreates` are the kernel's own part, which
acts on whatever the name means by then, and `Finish` and `Register` are
`FinishFileOperation`. A mode is a set of bits; the permission rules
(`Allowed`, `Sticky`, `MayChown`, `Chowned`, ...) are the code's. A call of the
store that changes a record waits for the lock, as its flock does.

**Credentials** has the rules of `setuid`, `setreuid`, `setresuid`, `setfsuid`,
their group counterparts, `setgroups`, `prctl(PR_SET_NO_NEW_PRIVS)` and exec as
operators on a record of ids. **EmulatedCalls** puts them into a thread group:
every stop first publishes an identity that has changed (`Publish`), set\*id
calls are answered at the entry (`Identify`, `ExitEmulated`), the credentials
of an `execve` change at its event (`ExecEvent`), when the caller also takes
over its leader's id and state. The same stops create, move and remove socket
aliases (`CreateAlias`, `FinishAlias`, `RemoveAlias`); an interrupted `connect`
is restarted with the alias for its address (`Restart`), possibly after calls
made by a signal's handler.

**RootfsInstall** has one process at a time, an extraction or a session's
tracer, and `pc` is its place in `ExtractRootfs`, `Scan` or `PrepareUser`.
`disk` has the files, `recs` the table, `log` what a recovery rebuilds (journal
and snapshot) and `durable` what is left of it after a power failure; a `Set`
writes the first two and, when it synchronizes, the third. `Kill`, `PowerLoss`
and `Fail` come between any two steps. Birth times, by which `Scan` tells a
file from an earlier one with the same inode number, may be missing or come and
go (`BirthsChange`), and files are made anew without the store (`Recreate`).
An archive may have a path twice, as the code keeps its owners in a vector and
records them in that order; `Births` bounds how many files there can ever be.

**TerminalTable.** `Enter` is what `TerminalOwner` does under the lock before
it writes (close pins of nodes that are gone, find the slot, compare the owner
the caller expects), and `Invalidate`, `Fields` and `Publish` are its stores.
`fds[t]` are a tracer's descriptors, numbered as the kernel numbers them, so
that a closed pin's number is used again, and `start[t]` tells a process from
its successor with the same id. `Live` is the test through
`/proc/<keeper>/fd/<fd>`.

## 3. Runs, bounds and fairness

| Run | Distinct states | What it asks |
|---|---|---|
| `store_safety` (`StoreSafety.cfg`) | 1.9 million | seven invariants and the compare-and-swap property |
| `store_refines` (`StoreRefinement.cfg`) | 0.29 million | the store implements `OwnershipMap`; lookups end |
| `store_unsynced` (`StoreUnsynced.cfg`) | until violated | is a record on the medium before it is published? |
| `group_open` (`GroupOpen.cfg`) | 0.19 million | rebuilding alone, current tables, every `Open` returns |
| `registry` (`Registry.cfg`) | 2.3 million | true answers, one entry per pid, no identity lost |
| `registry_forget` (`RegistryForget.cfg`) | until violated | does the end of a process remove only its own identity? |
| `tracee_tree` (`Tree.cfg`) | 0.13 million | inheritance, resumption, the end of the tracer |
| `syscall_stops` (`Stops.cfg`) | 3,804 | handled once, the right result, every call returns |
| `files` (`Files.cfg`) | 0.19 million | changes act on the current record, created files have theirs |
| `calls` (`Calls.cfg`) | 0.37 million | one identity for all, given up ids, aliases |
| `install` (`Install.cfg`) | 1.58 million | the marker's promise, adopted owners, widened modes, accounts |
| `terminal` (`Terminal.cfg`) | 1.2 million | lookups of the right node, whole entries, pinned keepers |

A run states a type invariant where it says more than shapes (in `install`,
`calls` and `syscall_stops` it relates several variables). Those of
`ProcessRegistry`, `TraceeTree` and `VirtualFiles` are in their modules, hold in
the same instances, and are part of what is proved.

**Store.** Two threads, one file, two records, two `Set`s, one kill, one failed
write, one failed recovery and one power failure. Every race in `Lookup` is
between one reader and one writer or recoverer; a kill, the recovery by the
survivor and a second change after it are the longest chain the protocol
distinguishes, and `CheckpointInterval = 1` makes each change compact the
journal, so that kills fall into the compaction. Safety and refinement were
also run with two kills and a failed write, which is too slow for the regular
runs; that instance showed that `Publish` must allow a part of what is recorded
to become visible. The theorems of `OwnershipStoreProofs` cover all bounds.
`store_refines` leaves out failed recoveries, after which the code gives up on
the group (`failed`), and failed writes. Fairness: a process that has started an
operation and is not killed keeps running (a scheduler's promise); flock is not assumed to be fair, and nobody owes a new request.
`LookupEnds` therefore excuses a lookup while writers keep arriving: the code
retries without a limit.

**Session group.** The app and two tracers; three openings let a group end and
another begin, and one kill, one fault and one reboot fall anywhere. Deadlock
checking is off because sessions may be over. Fairness: threads and exiting
processes run on; the caller of a failed `Open` destroys the store; a tracee
does not keep inherited descriptors for ever (it executes a program or ends).

**Registry.** Three pids that collide in two slots: the smallest table in which
a tombstone lies before a live entry and the table can be full. Three births
let a pid be used again; three events are requests and kills. There is no
liveness question: its loops are those of `OwnershipStore`. Deadlock checking
is off because the budget may be spent. Pids, tracers and identities are
symmetric: all pids collide, and no property names one.

**Tracee tree.** Three thread ids: a process, its thread and its child, or a
child and its child. Three clones allow an id to be used again. One call gives
a leader and its thread different records before one of them execs, clones or is
killed. `EarlyReuse = FALSE` is an assumption about the kernel, that it does not use a thread id
again while the tracer has a record of, or an unhandled event about, its last
user; section 5 says what happens without it, and neither `ChildInherits` nor
`StoppedAreResumed` says anything of records that an earlier tracee left.
`ChildInherits` excepts `unheard`, which section 5 is about too. Fairness: the tracer keeps
running, and `waitpid`, which takes children in turn, reports each of them in
the end although other stops intervene (strong fairness of `Report`). Tracees
owe nothing. Deadlock checking is off because the tracer ends.

**Syscall stops.** One call of each kind the definitions can tell apart, any
number of calls after each other, both kinds of kernels, two signals. There is
no other bound. Fairness: the tracer and the kernel go on; the program need
not call again. `CallsReturn` excludes the calls that a kernel before 4.8 traps
before their entry stop (`TrapsFirst`); section 5 says why.

**Files.** Two tracers, two names in one directory, fourteen calls by the
superuser and two users, chosen so that each handler meets each other one on
the same name: three calls in all, so that a third tracee's change falls
between the two steps of a call that raced with another. Five inode numbers,
three of them free, are enough for two files being staged and one used again.
The three initial states are a file of a user in a sticky directory, one in a
plain directory, and a file without a record. One kill. Names and inodes that
play no part in the initial states are symmetric; tracers are too.

**Calls.** A leader and a thread of a superuser's session, four calls out of
nineteen, one of them interrupted, one socket target, and one process outside
that creates or removes it. One of the nineteen is `setuid(-1)`, which the
handlers do not refuse: -1 becomes an id like any other. Four calls are what it takes to give up an id, to
exec in another thread and to ask for the id back; the longest sequence of an
alias is a connect that is interrupted, a call of the handler, and the restart.
A user's session is a suffix of a superuser's.

**Install.** An archive with a directory, which it has twice with different
owners, and an account file, both of which the scan widens; five inode numbers for the three named files, the new account
file and one that is used again; three starts, so that an extraction, the
session that scans it and a session that recovers can follow each other; one
kill, one power failure and one change from outside, each at any step. `Faults`
is empty: section 5 says what happens with `"marker"` and `"read"`.

**Terminal.** Three inode numbers in a table of two slots, so that an entry is
replaced; three nodes, so that a number is used again; three calls and the end
of one tracer, whose process id the next one has. The real table has 4096
slots, which the code treats alike.

In `files`, `calls`, `install` and `terminal` the models stop only when the
bounds are spent, in a state that a step `Rest` names, so that TLC's check for
deadlocks stays on: nobody waits for anybody in any other state. These four
have no liveness property: their handlers have no loops and wait only for the
store's lock, whose holders `OwnershipStore` and `SessionGroup` follow.

## 4. Proofs

The theorems hold for every value of the constants that satisfies the named
assumptions of the modules (what the bounds allow is any natural number).

**`OwnershipStoreProofs`.** `TypeCorrect` (`Spec => []TypeOK`) and
`WritersExclude` (`Spec => []WriterExclusion`). `TypeOK` alone is not
inductive: a step of `Set` stores `req[p].file`, which is a file only in a
request to set. `TypeInv` adds that a process's label fits its request.
`WriterExclusion` needs to know that the first opener holds the lock before
anybody else is in the group: `LockInv` adds that relation between `session`,
`req` and `lock`. Most steps neither take nor release the lock, and one lemma
(`QuietKeepsLockInv`) covers them.

The second part of **`OwnershipStoreProofs`** is about what the store leaves on
disk and in the table at every step, so that whoever takes the lock next can go on: for any
number of processes, files, kills, failed writes, failed recoveries and power
failures. It proves that nothing is appended after a fragment
(`JournalStaysReadable`), that no recovery is refused (`RecoveryNeverRefuses`)
and each rebuilds the map of all records (`RecoveryRebuildsTheMap`), that
durable changes survive (`DurableSetsSurvive`), that lookups are atomic
(`LookupsAreAtomic`), that a compare-and-swap replaces what it names
(`SwapsCompareWhatTheyReplace`) and that the store implements `OwnershipMap`
(`StoreImplementsMap`). None of these is inductive. `RecoveryInv` is, with
`TypeInv` and `LockInv`; each of its parts is there because of a step:

* `FilesInv`: the records of a journal are numbered one after another and each
  turns one map of the history into the next, a snapshot is one of these maps,
  and the snapshot on the medium meets either journal. A power failure may
  leave an old snapshot with a new journal, or a new one with an old journal;
  `Meets` and `snapshotDisk.seq <= snapshot.seq` are what makes all four pairs
  readable (`WhatPowerLossLeaves`).
* `PromiseInv`: what was acknowledged is on the medium, and a journal that was
  truncated over an older one on the medium stands beside a synchronized
  snapshot. This is what the order rename, `fsync` of the directory, `ftruncate`
  in `CheckpointLocked` buys.
* `GroupInv`: what holds when nobody has the lock. A store that is not dirty has
  a whole journal and, unless a recovery failed, a table with all of its
  records; an even version shows it. A writer sets `dirty` before it appends and
  clears it after the table is whole, and this clause is why that suffices.
* `WorkInv(p)`: how far the holder of the lock is, in `ReplayInv`, `SetInv`
  (word by word), `CheckpointInv` and `LeavingInv`.
* `ReaderInv(p)`: the words a reader has copied are the table's for as long as
  the version has not moved. A version never goes down while readers exist, and
  a table changes only under an odd one (`Announced`).

For the refinement, `VisibleInv` adds that readers are never ahead of the table
of whoever is about to unlock; each step is then one step of the map
(`MapPublishes`, `MapHardens`, `Change`, `Restart`) or none (`MapStutters`).

**`SessionGroupProofs`.** `RebuilderIsAlone` (`RebuildsAlone`),
`OpenTableIsCurrent` (`TableIsCurrent`) and `TypeCorrect`. The invariant
`GroupInv` is a conjunction of three facts. `OwnLease`: at each point of `Open`
an opener itself refers to its description of the lease, in the mode that point
requires. `LeaseExcludes`: a description locked exclusively is the only one
locked. Together they give `RebuildsAlone` (`LeaseMakesAlone`), whoever else
refers to a description after a fork. `MagicIsTrue`: `magic` in a table that
was reset since the device started vouches for its records; its only delicate
step is `ResetTable`, which is harmless because nobody else is open then. No
fact about `init.lock` is needed: safety rests on the lease alone.
`init.lock` matters to progress and to `TableWasRebuilt`, which does not hold.

**`TracerLoopProofs`** has the proofs of both halves of the tracer's loop.

*`SyscallStops`.* `HandledExactlyOnce` (`RunsAsHandled`),
`CallReturnsItsResult` (`ReturnsItsResult`) and `TypeCorrect`. The invariant
`StopsInv` says, for each phase and stop, which of four states the tracer is
in: `Fresh` (the call was not handled; it may be awaited for a retry), `Seen`
(handled, the exit is to come), `Over` (nothing is awaited) and `TrappedAgain`
(a retried call was trapped a second time). `RetriedIsKept` is what makes the
comparison of `retried_syscall_number` with the number of a trapped call safe:
a number that is trapped and was retried is one the handlers leave alone.
Writing this invariant showed which relations the code relies on silently, for
instance that a call left by exec without an exit may leave
`blocked_syscall_retry` in flight, which the next entry clears.

**`ProcessRegistryProofs`.** `PidHasOneEntry` (`OneEntryPerPid`),
`LookupsTellTheTruth` (`AnswersAreTrue`) and `LiveIdentitiesAreKept`
(`LiveIdentityKept`). `RegistryInv` is about the table: a
slot with a pid is that pid's `Place`, the only slot where a search for it can
end, and a tracer at work on a slot holds the lock and has found the place of
its pid. Tombstones make this inductive: a slot that was used is never `Free`
again, so a probe sequence is never cut. `TruthInv` is about words: a slot with
a pid is whole (`TrueEntries`), a writer marks the version before it touches a
slot and each word it wrote is still there when it writes the next (`Writes`),
and what a reader has copied is what the slot holds for as long as the version
it read stands (`Reads`). `KeepsInv` is about processes: start times are unique
and ahead of every end still being handled (`BirthsInv`, `RequestInv`), a tracer
registers only its own running tracee, with that tracee's start time, and a
recorded live process has its entry or a lock holder rewriting it
(`EntriesKept`). So the one entry `Forget` can find either is not the live
process's or is later than the end being handled, which is what `overtaken`
records. One lemma for each action and each invariant; `OthersHold`,
`OthersTrue` and `OthersKeep` say what a step leaves to the other tracers.

**`TracerLoopProofs`**, *`TraceeTree`.* `RunningTraceesInherit` (`ChildInherits`) and
`TracerStaysForTracees` (`TracerOutlivesTracees`), both for `EarlyReuse =
FALSE`. `TreeInv` says, for each kind of stop, what the tracer's maps hold
before its handler runs (`Record`, with `Cloned` and `Execed` for the two events
that are about another id), that no two events are about the same tracee
(`Aimed`), that a first stop that was put aside still is one (`Deferred`), and
that a group's leader is there while one of its threads is (`Leaders`).
`Handlers` is what may have become of a stop by the time its handler acts: it is
gone and its tracee a zombie, or an exec took its place, which needs a second
thread and hence a tracee that has a record. An exec that is not `unheard` has
its thread's record waiting for it unless a handler is about to resume it
(`Handling`).

**`VirtualFilesProofs`.** `StagedFilesKeepTheirRecord` (`PublishedAsRequested`)
and `ChangesTakeEffectAtOnce` (`ChangesAreLinear`), for every set of calls and
every initial state. `StagedInv` says what a tracer inside `Create` has: the
lock, an inode without a name, and its record. `Respects(t)` is what a step of
another tracer leaves alone for the lock's holder, and each action is shown to
respect it: that `Adopt`, `Strip` and the imports of `Rename` wait for the lock
is what the proof needs of them.

**`EmulatedCallsProofs`.** `PeersAlwaysAgree` (`PeersAgree`), `IdsAreDropped`
(`DroppedIdsStayDropped`), `AliasesAreRemoved` (`AliasesRemoved`) and
`SocketsAreKept` (`NoSocketReplaced`). `CallsInv` says of each thread what is
known by where it is (`ThreadInv`, and `TypeInv` for the ids, which all come
from ids that were there or were asked for; `TypeCorrect` follows): a thread in a call has published its own
identity, the identity it published is the store's, and a thread that has
stopped since its last `execve` has published its current one. The lemmas about
`SetId`, `SetIds` and `SetFsId` carry the argument that ids of which none is the
superuser's lead only to such ids. `AliasInv` says what the alias of a thread in
a call is made of.

**`TerminalTableProofs`.** `AnswersAreOfTheNode` (`AnswersAreOfThisNode`),
`EntriesAreWhole` (`TerminalIsWhole`) and `KeepersHoldTheirPins`
(`KeeperHasPin`). `TableInv` says of every valid entry that it is `Kept`: while
its keeper runs, the keeper's pin of *that slot* is the descriptor the entry
names, open on the entry's node (`KeeperHasPin` asks only for some slot, which
no step preserves). Pins are of one slot each (`Pinned`), and the descriptor of
a call in progress is none of them (`Unpinned`), so that a close never hits
another pin. The case that needs an argument is `RecordHolds`: the entry a
tracer writes over is never one it keeps itself, because `Unpin` has just
cleared its entries of nodes that are gone and the others are live.

**`RootfsInstallProofs`.** `StartsOwnEverything` (`StartedMeansOwned`) and
`ModesArePreserved` (`ModePreserved`) without any hypothesis; `TypeCorrect`
(`TypeOK`) and `MarkersMeanOwned` (`MarkerMeansOwned`) for `"marker" \notin
Faults`, and `AccountsAreKept` (`AccountsKept`) for `"read" \notin Faults`:
section 5 says why these two hypotheses are needed. The archive is any sequence
of entries, with any path any number of times, even the two that a session owns
itself (the temporary and the user's home, which the marker's promise leaves
out); every number of starts, kills, power failures and changes from outside is
covered.

`Adopt` is what the scan makes of a file and a record, as a function of the two,
and the proofs rest on four facts about it: what it returns is a record of that
file (`AdoptOwner`), adopting that again changes nothing (`AdoptAgain`), a file
that has a record of its own is adopted the same whatever its mode
(`AdoptHeld`), and the record of an archive's entry is adopted as it is
(`AdoptMarks`). `IInv` is inductive (`InstallCorrect`). Its parts: inode numbers
are never shared (`DiskInv`); the table is the log from the scan on
(`ControlInv`); while the scan runs, the owners it found are those it would find
again, although it records and widens directories meanwhile, and the directory
it is about to widen has a record of its own (`ScanInv`); from the end of the scan
on every file has one, but for the file a start has just made and not yet
recorded (`HeldInv`, `Pending`). `Kept` is what one step may do to a file and to
its record in the log; one lemma shows it for every step but those that write
and record an archive's entries (`StepKeeps`), and both the modes and the
marker's promise follow from it. `OwnInv` adds, for an extraction, that the
entries up to some number are recorded, of which only the last of each path
counts, and that when there is a marker all are, in the log and, for a power
failure, on disk. `MarkerInv` is why nothing of this concerns a marker while
an extraction runs, and `LinesInv` says what is in the temporary that replaces
the account file. TLC finds all of these invariants true on the instance of
`Install.cfg`.

What only TLC checks: every liveness property. Liveness under
fairness and `ENABLED` are out of the provers' reach, and so are induction over
data and RECURSIVE operators; no module declares any.

## 5. What was found

Two divergences from the documentation have runs whose counterexamples show
them:

* `store_unsynced`: `Replay` publishes records whose writer was killed between
  `write` and `fdatasync`, and nothing on that path synchronizes them, although
  `docs/ownership.md` says that changes are synchronized before publication.
  A durable `Set` that synchronized what it wrote is not affected
  (`DurableSetSurvives`). One that finds its record in the table already and
  returns early (`ownership_persistence.cpp:93`) synchronizes nothing, and the
  record it found may be such an unsynchronized one: no property counts its
  acknowledgement as a promise.
* `registry_forget`: `ForgetProcess` compares no start time. A tracer that
  handles an end late deletes the identity of the process that has the pid now.

Observations a maintainer may want to look at. Those with a property can be
seen by giving TLC that property and, where named, another constant; the
properties are in the modules and in no regular run.

* *Session group.* After a restart of the device, a first opener that dies
  before it resets the table can let the next one join the old table, trusting
  `magic` (`TableWasRebuilt` with `GroupOpen.cfg`).
* *Tracee tree.* While the stop of a leader is handled, another thread's exec
  can end the leader and stop under its id (`ExecsAreHeard` with `Tree.cfg`).
  `ResumeTracee` (`ptrace_engine.cpp:4097`, and at the end of the other handlers)
  then resumes the exec, so that its event is never handled: the program runs
  with the record of the old leader and not of the thread that called exec. If
  the stop was a clone's and the exec came before `PTRACE_GETEVENTMSG` (`:3997`),
  that call succeeds and returns the thread's old id: it is tracked and
  registered (`:3999`-`:4025`) as a copy of the old leader, although nobody has
  it, and the clone's child is an orphan, stopped while the tracer lives. What
  was resumed so, and its clones, are `unheard`, and `ChildInherits` says nothing
  of them.
* *Tracee tree.* Records can outlive their tracees (that of a newborn killed
  before its parent's event is handled, for one), and a newborn with the same
  thread id is then resumed before its parent's event
  (`NewbornWaitsForParent` with `EarlyReuse = TRUE`).
* *Syscall stops.* On kernels before 4.8 a trapped, traced call is retried for
  ever, because the retry is abandoned only if it reached an entry stop
  (`RetryIsAbandoned` with `Stops.cfg`).
* *Virtual files.* `Owner` records an unknown file with an unconditional `Set`
  (`virtual_filesystem.cpp:62`), and `open` for writing removes set-ID bits with
  one (`:422`); a change that another tracer records in between is lost. Only
  changes that compare (`chown`, `chmod`) are covered by `ChangesAreLinear`.
  An `openat` that found its file goes on to the kernel with `O_CREAT`: if the
  file was unlinked meanwhile, the kernel creates one without a record
  (`CreatedAreOwned` with `Files.cfg`).
* *Installation.* With `Faults = {"marker"}` a marker that could not be removed
  (the failure is only logged) stands over a half extracted rootfs
  (`MarkerMeansOwned`). With `Faults = {"read"}` a read error is taken for the
  end of the account file, and its lines are lost (`AccountsKept`;
  `docs/ownership.md:9`). A warning for an entry's header leaves an empty file,
  and extraction succeeds; a marker that could not be written completely is
  still a marker; neither data nor the marker is ever synchronized; the
  decompressed archive stays when libarchive cannot be set up.
* *Credentials.* `setreuid` makes the saved id the effective one whenever any
  id is given, where Linux does so only if the real id is given or the
  effective one is set to another than the real one. The credentials of an
  `execve` are published at the tracee's next stop, so that for a moment the
  store tells the old ones. Resource limits are kept per thread. `O_TMPFILE` on,
  or opening of, a directory for writing removes its set-group-ID bit.
* *Credentials at exec.* The program runs between the event of its `execve` and
  its next stop, and for that time the store tells the old ids: `PeersAgree`
  leaves it out (`fresh`). `DroppedIdsStayDropped` is about the superuser's uid
  only.
* *Aliases.* A connect that is restarted fails if a call of the signal's handler
  removed its alias. When another thread's `execve` takes over the leader's id,
  the leader's alias is left on disk. An alias name that is too long leaves the
  thread's earlier alias in place.

## 6. What is not modelled

Of the modelled components:

* `OwnershipStore`: hash collisions and a full file table.
* `SessionGroup`: stores of several rootfs at once.
* `ProcessRegistry`: recovery of the file table that shares its version, and a
  bound on entries that are never forgotten.
* `TraceeTree`: job-control stops, the completion of `vfork`, and an exec by the
  leader, which has its record already. The other modules take a thread's exec
  for handled at its event, as it is unless it came in the middle of another
  handler.
* `SyscallStops`: calls that a signal interrupts and restarts, a signal between
  the resumption from a SIGSYS and the call made again, and the
  `openat2` branch of `SuppressBlockedSyscall`, which needs an `openat2` trapped
  twice.
* `VirtualFiles`: paths deeper than one name, `setxattr`, `utimensat` and the
  other calls that check the owner and change nothing but what the kernel keeps
  (`Access` stands for them).
* `EmulatedCalls`: capabilities, resource limits, several socket targets, the
  directory in which aliases are made, an alias name that is too long
  (`ptrace_engine.cpp:3023`), the arguments `setgroups` refuses, and the identity
  that stays in the store for a leader whose id a thread's exec took.
* `RootfsInstall`: a power failure that brings back the old marker. Extraction
  removes it without synchronizing the directory (`rootfs_extractor.cpp:419`);
  that it stays removed rests on file systems that keep metadata changes in
  order, so that the removal is on disk before the files extracted after it. Also
  hard links and links in archives, more than one account file
  (they are handled one after another by the same code), the system directories
  `PrepareUser` makes, and contents that a power failure loses.
* `TerminalTable`: which files are terminals, and permissions on them.

Left out as a whole:

* *The example app* (`ChrootSession`, `MainActivity`): Kotlin coroutines and
  readers of pipes around the library; `StartChroot` and `StopChroot`, whose
  poll and kill race the tracer's own exit, belong with it.
* *Path resolution* (`path_rewrite.cpp`, symlinks, `/proc`, bind mounts): string
  algorithms over the state of one tracee. The other modules take a resolved
  path for granted.
* *Mount and network namespaces*: tables of one tracee, changed at one stop and
  read at another; nobody else changes them.
* *Emulated shadow-file locks*: one handler; the hazard it has is listed.
* *Archive decompression*, *ELF loading*, *tracee memory access and JNI*: they
  copy or parse bytes, and keep no state that several steps could disagree
  about.

## 7. Plan

Done: every component in which several processes, or one process and a crash,
can disagree, in the order store, session group, registry, tracee tree, syscall
stops, virtual files, credentials and aliases, installation, terminals.

What is left, in order of worth:

1. The life of a session: `StartChroot`, the reader threads, `StopChroot` and
   the UI's current session.
2. Path resolution and bind mounts as operators over bounded paths, compared
   with a reference definition.

A new component gets one run for all its questions.
