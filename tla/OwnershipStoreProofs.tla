------------------------ MODULE OwnershipStoreProofs ------------------------
(***************************************************************************)
(* Theorems about OwnershipStore, for every set of processes, files and    *)
(* owner records and every bound: its types and locks, then its recovery.  *)
(***************************************************************************)
EXTENDS OwnershipStore, SequenceTheorems, TLAPS

(* A process at a label of Set, of Lookup or of either was asked for it.   *)
RequestMatchesLabel ==
  \A p \in Procs :
    /\ pc[p] \in SetLabels => req[p].op = "set"
    /\ pc[p] \in LookupLabels => req[p].op = "lookup"
    /\ pc[p] = "lock" => req[p].op \in {"set", "lookup"}

TypeInv == TypeOK /\ RequestMatchesLabel

LEMMA OwnersAreSlots == Owners \subseteq Slot /\ Empty \in Slot
  BY OwnersAssumption DEF Slot, Empty

LEMMA SetRequestType ==
  ASSUME NEW r \in Requests, r.op = "set"
  PROVE  /\ r \in SetRequests
         /\ r.file \in Files /\ r.owner \in Owners
         /\ r.durable \in BOOLEAN
  <1>1. r \in SetRequests
    BY DEF Requests, LookupRequests, OtherRequests
  <1>2. QED
    BY <1>1 DEF SetRequests

LEMMA LookupRequestType ==
  ASSUME NEW r \in Requests, r.op = "lookup"
  PROVE  r \in LookupRequests /\ r.file \in Files
  <1>1. r \in LookupRequests
    BY DEF Requests, SetRequests, OtherRequests
  <1>2. QED
    BY <1>1 DEF LookupRequests

LEMMA NoRequestType ==
  /\ NoRequest \in Requests
  /\ [NoRequest EXCEPT !.op = "open"] \in Requests
  /\ \A f \in Files : [NoRequest EXCEPT !.op = "lookup", !.file = f] \in Requests
  BY DEF NoRequest, Requests, OtherRequests, LookupRequests

LEMMA NewSetRequestType ==
  ASSUME NEW f \in Files, NEW o \in Owners, NEW d \in Durabilities, NEW e \in Expected
  PROVE  [op |-> "set", file |-> f, owner |-> o, durable |-> d, previous |-> e]
           \in Requests
  BY ExpectedAssumption, DurabilitiesAssumption DEF Requests, SetRequests

(* Copying a word from one slot to another gives a slot.                   *)
LEMMA SlotWords ==
  ASSUME NEW s \in Slot, NEW t \in Slot
  PROVE  /\ [s EXCEPT !.inode = t.inode] \in Slot
         /\ [s EXCEPT !.uid = t.uid] \in Slot
         /\ [s EXCEPT !.mode = t.mode] \in Slot
  BY DEF Slot

LEMMA ParityType ==
  ASSUME NEW n \in Nat
  PROVE  MakeOdd(n) \in Nat /\ MakeEven(n) \in Nat
  BY DEF MakeOdd, MakeEven

LEMMA TypeInit == Init => TypeInv
  <1> SUFFICES ASSUME Init PROVE TypeInv
    OBVIOUS
  <1>0. EmptyMap \in [Files -> Slot]
    BY OwnersAreSlots DEF EmptyMap
  <1>1. SharedOK
    BY <1>0 DEF Init, SharedOK
  <1>2. LocalsOK
    BY OwnersAreSlots DEF Init, LocalsOK, Results
  <1>3. DiskOK
    BY <1>0, EmptySeq DEF Init, DiskOK, Snapshot
  <1>4. GhostsOK
    BY <1>0 DEF Init, GhostsOK
  <1>5. ControlOK
    BY NoRequestType DEF Init, ControlOK, Labels
  <1>6. BudgetOK
    BY BoundsAssumption DEF Init, BudgetOK
  <1>7. RequestMatchesLabel
    BY DEF Init, RequestMatchesLabel,  SetLabels, LookupLabels
  <1>8. QED
    BY <1>1, <1>2, <1>3, <1>4, <1>5, <1>6, <1>7 DEF TypeInv, TypeOK

LEMMA TypeOpenFirst ==
  ASSUME TypeInv, NEW p \in Procs, OpenFirst(p)
  PROVE  TypeInv'
  <1>1. SharedOK'
    BY OwnersAreSlots, ParityType DEF TypeInv, TypeOK, SharedOK, OpenFirst, shared,
       DiskOK, Snapshot, EmptyMap
  <1>2. ControlOK'
    BY NoRequestType DEF TypeInv, TypeOK, ControlOK, OpenFirst, Goto, Labels,
       Critical, ReplayLabels, SetLabels,
           CheckpointLabels, LookupLabels
  <1>3. DiskOK' /\ LocalsOK' /\ GhostsOK' /\ BudgetOK'
    BY DEF TypeInv, TypeOK, DiskOK, LocalsOK, GhostsOK, BudgetOK, OpenFirst, shared,
       disk, locals, ghosts
  <1>4. RequestMatchesLabel'
    BY DEF TypeInv, TypeOK, ControlOK, RequestMatchesLabel, OpenFirst, Goto,
       SetLabels, LookupLabels
  <1>5. QED
    BY <1>1, <1>2, <1>3, <1>4 DEF TypeInv, TypeOK

LEMMA TypeStartSet ==
  ASSUME TypeInv, NEW p \in Procs, StartSet(p)
  PROVE  TypeInv'
  <1>1. ControlOK'
    BY NewSetRequestType DEF TypeInv, TypeOK, ControlOK, StartSet, Goto, Labels,
       Critical, ReplayLabels, SetLabels,
           CheckpointLabels, LookupLabels
  <1>2. BudgetOK'
    BY DEF TypeInv, TypeOK, BudgetOK, StartSet, Spend
  <1>3. SharedOK' /\ DiskOK' /\ LocalsOK' /\ GhostsOK'
    BY DEF TypeInv, TypeOK, SharedOK, DiskOK, LocalsOK, GhostsOK, StartSet, shared,
       disk, locals, ghosts
  <1>4. RequestMatchesLabel'
    BY DEF TypeInv, TypeOK, ControlOK, RequestMatchesLabel, StartSet, Goto, SetLabels,
       LookupLabels
  <1>5. QED
    BY <1>1, <1>2, <1>3, <1>4 DEF TypeInv, TypeOK

LEMMA TypeStartLookup ==
  ASSUME TypeInv, NEW p \in Procs, StartLookup(p)
  PROVE  TypeInv'
  <1>1. ControlOK'
    BY NoRequestType DEF TypeInv, TypeOK, ControlOK, StartLookup, Goto, Labels,
       Critical, ReplayLabels, SetLabels,
           CheckpointLabels, LookupLabels
  <1>2. SharedOK' /\ DiskOK' /\ LocalsOK' /\ GhostsOK' /\ BudgetOK'
    BY DEF TypeInv, TypeOK, SharedOK, DiskOK, LocalsOK, GhostsOK, BudgetOK,
       StartLookup, shared, disk, locals, ghosts
  <1>3. RequestMatchesLabel'
    BY DEF TypeInv, TypeOK, ControlOK, RequestMatchesLabel, StartLookup, Goto,
       SetLabels, LookupLabels
  <1>4. QED
    BY <1>1, <1>2, <1>3 DEF TypeInv, TypeOK

LEMMA TypeAcquireLock ==
  ASSUME TypeInv, NEW p \in Procs, AcquireLock(p)
  PROVE  TypeInv'
  <1>1. ControlOK'
    BY NoRequestType DEF TypeInv, TypeOK, ControlOK, AcquireLock, Locked, Goto,
       Labels, Critical, ReplayLabels, SetLabels,
           CheckpointLabels, LookupLabels
  <1>2. LocalsOK'
    BY OwnersAreSlots, ParityType DEF TypeInv, TypeOK, LocalsOK, AcquireLock, Locked,
       locals, Return, Results, SharedOK
  <1>3. SharedOK' /\ DiskOK' /\ GhostsOK' /\ BudgetOK'
    BY DEF TypeInv, TypeOK, SharedOK, DiskOK, GhostsOK, BudgetOK, AcquireLock, Locked,
       shared, disk, locals, ghosts
  <1>4. RequestMatchesLabel'
    BY DEF TypeInv, TypeOK, ControlOK, RequestMatchesLabel, AcquireLock, Locked, Goto,
       SetLabels, LookupLabels
  <1>5. QED
    BY <1>1, <1>2, <1>3, <1>4 DEF TypeInv, TypeOK

LEMMA TypeUnlockVersion ==
  ASSUME TypeInv, NEW p \in Procs, UnlockVersion(p)
  PROVE  TypeInv'
  <1>1. SharedOK'
    BY OwnersAreSlots, ParityType DEF TypeInv, TypeOK, SharedOK, UnlockVersion,
       shared, DiskOK, Snapshot, EmptyMap
  <1>2. ControlOK'
    BY NoRequestType DEF TypeInv, TypeOK, ControlOK, UnlockVersion, Goto, Labels,
       Critical, ReplayLabels, SetLabels,
           CheckpointLabels, LookupLabels
  <1>3. GhostsOK'
    BY OwnersAreSlots, ParityType DEF TypeInv, TypeOK, GhostsOK, UnlockVersion,
       ghosts, SharedOK
  <1>4. DiskOK' /\ LocalsOK' /\ BudgetOK'
    BY DEF TypeInv, TypeOK, DiskOK, LocalsOK, BudgetOK, UnlockVersion, shared, disk,
       locals, ghosts
  <1>5. RequestMatchesLabel'
    BY DEF TypeInv, TypeOK, ControlOK, RequestMatchesLabel, UnlockVersion, Goto,
       SetLabels, LookupLabels
  <1>6. QED
    BY <1>1, <1>2, <1>3, <1>4, <1>5 DEF TypeInv, TypeOK

LEMMA TypeReleaseLock ==
  ASSUME TypeInv, NEW p \in Procs, ReleaseLock(p)
  PROVE  TypeInv'
  <1>1. ControlOK'
    BY NoRequestType DEF TypeInv, TypeOK, ControlOK, ReleaseLock, Goto,
       ReturnToCaller, Labels, Critical, ReplayLabels, SetLabels,
           CheckpointLabels, LookupLabels
  <1>2. LocalsOK'
    BY OwnersAreSlots, ParityType DEF TypeInv, TypeOK, LocalsOK, ReleaseLock, locals,
       ReturnToCaller, Results, SharedOK
  <1>3. SharedOK' /\ DiskOK' /\ GhostsOK' /\ BudgetOK'
    BY DEF TypeInv, TypeOK, SharedOK, DiskOK, GhostsOK, BudgetOK, ReleaseLock, shared,
       disk, locals, ghosts
  <1>4. RequestMatchesLabel'
    BY DEF TypeInv, TypeOK, ControlOK, RequestMatchesLabel, ReleaseLock, Goto,
       ReturnToCaller, SetLabels, LookupLabels
  <1>5. QED
    BY <1>1, <1>2, <1>3, <1>4 DEF TypeInv, TypeOK

LEMMA TypeReplayBegin ==
  ASSUME TypeInv, NEW p \in Procs, ReplayBegin(p)
  PROVE  TypeInv'
  <1>1. SharedOK'
    BY OwnersAreSlots, ParityType DEF TypeInv, TypeOK, SharedOK, ReplayBegin, shared,
       DiskOK, Snapshot, EmptyMap
  <1>2. ControlOK'
    BY NoRequestType DEF TypeInv, TypeOK, ControlOK, ReplayBegin, Goto, Labels,
       Critical, ReplayLabels, SetLabels,
           CheckpointLabels, LookupLabels
  <1>3. DiskOK' /\ LocalsOK' /\ GhostsOK' /\ BudgetOK'
    BY DEF TypeInv, TypeOK, DiskOK, LocalsOK, GhostsOK, BudgetOK, ReplayBegin, shared,
       disk, locals, ghosts
  <1>4. RequestMatchesLabel'
    BY DEF TypeInv, TypeOK, ControlOK, RequestMatchesLabel, ReplayBegin, Goto,
       SetLabels, LookupLabels
  <1>5. QED
    BY <1>1, <1>2, <1>3, <1>4 DEF TypeInv, TypeOK

LEMMA TypeReplayZero ==
  ASSUME TypeInv, NEW p \in Procs, ReplayZero(p)
  PROVE  TypeInv'
  <1>1. SharedOK'
    BY OwnersAreSlots, ParityType DEF TypeInv, TypeOK, SharedOK, ReplayZero, shared,
       DiskOK, Snapshot, EmptyMap
  <1>2. ControlOK'
    BY NoRequestType DEF TypeInv, TypeOK, ControlOK, ReplayZero, Goto, Labels,
       Critical, ReplayLabels, SetLabels,
           CheckpointLabels, LookupLabels
  <1>3. DiskOK' /\ LocalsOK' /\ GhostsOK' /\ BudgetOK'
    BY DEF TypeInv, TypeOK, DiskOK, LocalsOK, GhostsOK, BudgetOK, ReplayZero, shared,
       disk, locals, ghosts
  <1>4. RequestMatchesLabel'
    BY DEF TypeInv, TypeOK, ControlOK, RequestMatchesLabel, ReplayZero, Goto,
       SetLabels, LookupLabels
  <1>5. QED
    BY <1>1, <1>2, <1>3, <1>4 DEF TypeInv, TypeOK

LEMMA TypeReplaySnapshot ==
  ASSUME TypeInv, NEW p \in Procs, ReplaySnapshot(p)
  PROVE  TypeInv'
  <1>1. SharedOK'
    BY OwnersAreSlots, ParityType DEF TypeInv, TypeOK, SharedOK, ReplaySnapshot,
       shared, DiskOK, Snapshot, EmptyMap
  <1>2. ControlOK'
    BY NoRequestType DEF TypeInv, TypeOK, ControlOK, ReplaySnapshot, Goto, Labels,
       Critical, ReplayLabels, SetLabels,
           CheckpointLabels, LookupLabels
  <1>3. LocalsOK'
    BY OwnersAreSlots, ParityType DEF TypeInv, TypeOK, LocalsOK, ReplaySnapshot,
       locals, Results, SharedOK
  <1>4. DiskOK' /\ GhostsOK' /\ BudgetOK'
    BY DEF TypeInv, TypeOK, DiskOK, GhostsOK, BudgetOK, ReplaySnapshot, shared, disk,
       locals, ghosts
  <1>5. RequestMatchesLabel'
    BY DEF TypeInv, TypeOK, ControlOK, RequestMatchesLabel, ReplaySnapshot, Goto,
       SetLabels, LookupLabels
  <1>6. QED
    BY <1>1, <1>2, <1>3, <1>4, <1>5 DEF TypeInv, TypeOK

LEMMA TypeReplayRecord ==
  ASSUME TypeInv, NEW p \in Procs, ReplayRecord(p)
  PROVE  TypeInv'
  <1>1. journal[cursor] \in Record
    BY DEF TypeInv, TypeOK, DiskOK, LocalsOK, ReplayRecord
  <1>2. SharedOK'
    BY <1>1, OwnersAreSlots, ParityType DEF TypeInv, TypeOK, SharedOK, ReplayRecord,
       shared, DiskOK, Snapshot, EmptyMap, Record
  <1>3. LocalsOK'
    BY DEF TypeInv, TypeOK, LocalsOK, ReplayRecord
  <1>4. DiskOK' /\ ControlOK' /\ GhostsOK' /\ BudgetOK'
    BY DEF TypeInv, TypeOK, DiskOK, ControlOK, GhostsOK, BudgetOK, ReplayRecord,
       shared, disk, locals, ghosts
  <1>5. RequestMatchesLabel'
    BY <1>1 DEF TypeInv, TypeOK, ControlOK, RequestMatchesLabel, ReplayRecord,
       SetLabels, LookupLabels
  <1>6. QED
    BY <1>2, <1>3, <1>4, <1>5 DEF TypeInv, TypeOK

LEMMA TypeReplayFinish ==
  ASSUME TypeInv, NEW p \in Procs, ReplayFinish(p)
  PROVE  TypeInv'
  <1>1. SharedOK'
    BY OwnersAreSlots, ParityType DEF TypeInv, TypeOK, SharedOK, ReplayFinish, shared,
       DiskOK, Snapshot, EmptyMap
  <1>2. DiskOK'
    BY DEF TypeInv, TypeOK, DiskOK, ReplayFinish, disk, SharedOK, Record, Snapshot
  <1>3. ControlOK'
    BY NoRequestType DEF TypeInv, TypeOK, ControlOK, ReplayFinish, Goto, Labels,
       Critical, ReplayLabels, SetLabels,
           CheckpointLabels, LookupLabels
  <1>4. LocalsOK' /\ GhostsOK' /\ BudgetOK'
    BY DEF TypeInv, TypeOK, LocalsOK, GhostsOK, BudgetOK, ReplayFinish, shared, disk,
       locals, ghosts
  <1>5. RequestMatchesLabel'
    BY DEF TypeInv, TypeOK, ControlOK, RequestMatchesLabel, ReplayFinish, Goto,
       SetLabels, LookupLabels
  <1>6. QED
    BY <1>1, <1>2, <1>3, <1>4, <1>5 DEF TypeInv, TypeOK

LEMMA TypeReplayPublish ==
  ASSUME TypeInv, NEW p \in Procs, ReplayPublish(p)
  PROVE  TypeInv'
  <1>1. SharedOK'
    BY OwnersAreSlots, ParityType DEF TypeInv, TypeOK, SharedOK, ReplayPublish,
       Locked, shared, DiskOK, Snapshot, EmptyMap
  <1>2. ControlOK'
    BY NoRequestType DEF TypeInv, TypeOK, ControlOK, ReplayPublish, Locked, Goto,
       Labels, Critical, ReplayLabels, SetLabels,
           CheckpointLabels, LookupLabels
  <1>3. LocalsOK'
    BY OwnersAreSlots, ParityType DEF TypeInv, TypeOK, LocalsOK, ReplayPublish,
       Locked, locals, Return, Results, SharedOK
  <1>4. GhostsOK'
    BY OwnersAreSlots, ParityType DEF TypeInv, TypeOK, GhostsOK, ReplayPublish,
       Locked, ghosts, SharedOK
  <1>5. DiskOK' /\ BudgetOK'
    BY DEF TypeInv, TypeOK, DiskOK, BudgetOK, ReplayPublish, Locked, shared, disk,
       locals, ghosts
  <1>6. RequestMatchesLabel'
    BY DEF TypeInv, TypeOK, ControlOK, RequestMatchesLabel, ReplayPublish, Locked,
       Goto, SetLabels, LookupLabels
  <1>7. QED
    BY <1>1, <1>2, <1>3, <1>4, <1>5, <1>6 DEF TypeInv, TypeOK

LEMMA TypeReplayFail ==
  ASSUME TypeInv, NEW p \in Procs, ReplayFail(p)
  PROVE  TypeInv'
  <1>1. SharedOK'
    BY OwnersAreSlots, ParityType DEF TypeInv, TypeOK, SharedOK, ReplayFail, shared,
       DiskOK, Snapshot, EmptyMap
  <1>2. ControlOK'
    BY NoRequestType DEF TypeInv, TypeOK, ControlOK, ReplayFail, Goto, Labels,
       Critical, ReplayLabels, SetLabels,
           CheckpointLabels, LookupLabels
  <1>3. LocalsOK'
    BY OwnersAreSlots, ParityType DEF TypeInv, TypeOK, LocalsOK, ReplayFail, locals,
       Return, Results, SharedOK
  <1>4. BudgetOK'
    BY DEF TypeInv, TypeOK, BudgetOK, ReplayFail, Spend
  <1>5. DiskOK' /\ GhostsOK'
    BY DEF TypeInv, TypeOK, DiskOK, GhostsOK, ReplayFail, shared, disk, locals, ghosts
  <1>6. RequestMatchesLabel'
    BY DEF TypeInv, TypeOK, ControlOK, RequestMatchesLabel, ReplayFail, Goto,
       SetLabels, LookupLabels
  <1>7. QED
    BY <1>1, <1>2, <1>3, <1>4, <1>5, <1>6 DEF TypeInv, TypeOK

LEMMA TypeCompare ==
  ASSUME TypeInv, NEW p \in Procs, Compare(p)
  PROVE  TypeInv'
  <1>1. req[p] \in Requests /\ req[p].op = "set"
    BY DEF TypeInv, TypeOK, ControlOK, RequestMatchesLabel, SetLabels, Compare
  <1>2. SharedOK'
    BY <1>1, SetRequestType, OwnersAreSlots, ParityType DEF TypeInv, TypeOK, SharedOK,
       Compare, shared, DiskOK, Snapshot, EmptyMap
  <1>3. ControlOK'
    BY <1>1, SetRequestType, NoRequestType DEF TypeInv, TypeOK, ControlOK, Compare,
       Goto, Labels, Critical, ReplayLabels, SetLabels,
           CheckpointLabels, LookupLabels
  <1>4. LocalsOK'
    BY <1>1, SetRequestType, OwnersAreSlots, ParityType DEF TypeInv, TypeOK, LocalsOK,
       Compare, locals, Return, Results, SharedOK
  <1>5. DiskOK' /\ GhostsOK' /\ BudgetOK'
    BY DEF TypeInv, TypeOK, DiskOK, GhostsOK, BudgetOK, Compare, shared, disk, locals,
       ghosts
  <1>6. RequestMatchesLabel'
    BY <1>1, SetRequestType DEF TypeInv, TypeOK, ControlOK, RequestMatchesLabel,
       Compare, Goto, SetLabels, LookupLabels
  <1>7. QED
    BY <1>2, <1>3, <1>4, <1>5, <1>6 DEF TypeInv, TypeOK

LEMMA TypeAppendRecord ==
  ASSUME TypeInv, NEW p \in Procs, AppendRecord(p)
  PROVE  TypeInv'
  <1>1. req[p] \in Requests /\ req[p].op = "set"
    BY DEF TypeInv, TypeOK, ControlOK, RequestMatchesLabel, SetLabels, AppendRecord,
       NextRecord, Latest
  <1>2. DiskOK'
    BY <1>1, SetRequestType DEF TypeInv, TypeOK, DiskOK, AppendRecord, NextRecord,
       Latest, disk, SharedOK, Record, Snapshot
  <1>3. ControlOK'
    BY <1>1, SetRequestType, NoRequestType DEF TypeInv, TypeOK, ControlOK,
       AppendRecord, NextRecord, Latest, Goto, Labels, Critical, ReplayLabels,
       SetLabels,
           CheckpointLabels, LookupLabels
  <1>4. GhostsOK'
    BY <1>1, SetRequestType, OwnersAreSlots DEF TypeInv, TypeOK, GhostsOK,
       AppendRecord, Latest
  <1>5. SharedOK' /\ LocalsOK' /\ BudgetOK'
    BY DEF TypeInv, TypeOK, SharedOK, LocalsOK, BudgetOK, AppendRecord, NextRecord,
       Latest, shared, disk, locals, ghosts
  <1>6. RequestMatchesLabel'
    BY <1>1, SetRequestType DEF TypeInv, TypeOK, ControlOK, RequestMatchesLabel,
       AppendRecord, NextRecord, Latest, Goto, SetLabels, LookupLabels
  <1>7. QED
    BY <1>2, <1>3, <1>4, <1>5, <1>6 DEF TypeInv, TypeOK

LEMMA TypeAppendFail ==
  ASSUME TypeInv, NEW p \in Procs, AppendFail(p)
  PROVE  TypeInv'
  <1>1. req[p] \in Requests /\ req[p].op = "set"
    BY DEF TypeInv, TypeOK, ControlOK, RequestMatchesLabel, SetLabels, AppendFail
  <1>2. DiskOK'
    BY <1>1, SetRequestType DEF TypeInv, TypeOK, DiskOK, AppendFail, disk, SharedOK,
       Record, Snapshot
  <1>3. ControlOK'
    BY <1>1, SetRequestType, NoRequestType DEF TypeInv, TypeOK, ControlOK, AppendFail,
       Goto, Labels, Critical, ReplayLabels, SetLabels,
           CheckpointLabels, LookupLabels
  <1>4. LocalsOK'
    BY <1>1, SetRequestType, OwnersAreSlots, ParityType DEF TypeInv, TypeOK, LocalsOK,
       AppendFail, locals, Return, Results, SharedOK
  <1>5. BudgetOK'
    BY <1>1, SetRequestType DEF TypeInv, TypeOK, BudgetOK, AppendFail, Spend
  <1>6. SharedOK' /\ GhostsOK'
    BY DEF TypeInv, TypeOK, SharedOK, GhostsOK, AppendFail, shared, disk, locals, ghosts
  <1>7. RequestMatchesLabel'
    BY <1>1, SetRequestType DEF TypeInv, TypeOK, ControlOK, RequestMatchesLabel,
       AppendFail, Goto, SetLabels, LookupLabels
  <1>8. QED
    BY <1>2, <1>3, <1>4, <1>5, <1>6, <1>7 DEF TypeInv, TypeOK

LEMMA TypeSyncJournal ==
  ASSUME TypeInv, NEW p \in Procs, SyncJournal(p)
  PROVE  TypeInv'
  <1>1. req[p] \in Requests /\ req[p].op = "set"
    BY DEF TypeInv, TypeOK, ControlOK, RequestMatchesLabel, SetLabels, SyncJournal
  <1>2. DiskOK'
    BY <1>1, SetRequestType DEF TypeInv, TypeOK, DiskOK, SyncJournal, disk, SharedOK,
       Record, Snapshot
  <1>3. ControlOK'
    BY <1>1, SetRequestType, NoRequestType DEF TypeInv, TypeOK, ControlOK,
       SyncJournal, Goto, Labels, Critical, ReplayLabels, SetLabels,
           CheckpointLabels, LookupLabels
  <1>4. SharedOK' /\ LocalsOK' /\ GhostsOK' /\ BudgetOK'
    BY DEF TypeInv, TypeOK, SharedOK, LocalsOK, GhostsOK, BudgetOK, SyncJournal,
       shared, disk, locals, ghosts
  <1>5. RequestMatchesLabel'
    BY <1>1, SetRequestType DEF TypeInv, TypeOK, ControlOK, RequestMatchesLabel,
       SyncJournal, Goto, SetLabels, LookupLabels
  <1>6. QED
    BY <1>2, <1>3, <1>4, <1>5 DEF TypeInv, TypeOK

LEMMA TypeSyncFail ==
  ASSUME TypeInv, NEW p \in Procs, SyncFail(p)
  PROVE  TypeInv'
  <1>1. req[p] \in Requests /\ req[p].op = "set"
    BY DEF TypeInv, TypeOK, ControlOK, RequestMatchesLabel, SetLabels, SyncFail
  <1>2. ControlOK'
    BY <1>1, SetRequestType, NoRequestType DEF TypeInv, TypeOK, ControlOK, SyncFail,
       Goto, Labels, Critical, ReplayLabels, SetLabels,
           CheckpointLabels, LookupLabels
  <1>3. LocalsOK'
    BY <1>1, SetRequestType, OwnersAreSlots, ParityType DEF TypeInv, TypeOK, LocalsOK,
       SyncFail, locals, Return, Results, SharedOK
  <1>4. BudgetOK'
    BY <1>1, SetRequestType DEF TypeInv, TypeOK, BudgetOK, SyncFail, Spend
  <1>5. SharedOK' /\ DiskOK' /\ GhostsOK'
    BY DEF TypeInv, TypeOK, SharedOK, DiskOK, GhostsOK, SyncFail, shared, disk,
       locals, ghosts
  <1>6. RequestMatchesLabel'
    BY <1>1, SetRequestType DEF TypeInv, TypeOK, ControlOK, RequestMatchesLabel,
       SyncFail, Goto, SetLabels, LookupLabels
  <1>7. QED
    BY <1>2, <1>3, <1>4, <1>5, <1>6 DEF TypeInv, TypeOK

LEMMA TypeAdvance ==
  ASSUME TypeInv, NEW p \in Procs, Advance(p)
  PROVE  TypeInv'
  <1>1. req[p] \in Requests /\ req[p].op = "set"
    BY DEF TypeInv, TypeOK, ControlOK, RequestMatchesLabel, SetLabels, Advance
  <1>2. SharedOK'
    BY <1>1, SetRequestType, OwnersAreSlots, ParityType DEF TypeInv, TypeOK, SharedOK,
       Advance, shared, DiskOK, Snapshot, EmptyMap
  <1>3. ControlOK'
    BY <1>1, SetRequestType, NoRequestType DEF TypeInv, TypeOK, ControlOK, Advance,
       Goto, Labels, Critical, ReplayLabels, SetLabels,
           CheckpointLabels, LookupLabels
  <1>4. LocalsOK'
    BY <1>1, SetRequestType, OwnersAreSlots, ParityType DEF TypeInv, TypeOK, LocalsOK,
       Advance, locals, Results, SharedOK
  <1>5. DiskOK' /\ GhostsOK' /\ BudgetOK'
    BY DEF TypeInv, TypeOK, DiskOK, GhostsOK, BudgetOK, Advance, shared, disk, locals,
       ghosts
  <1>6. RequestMatchesLabel'
    BY <1>1, SetRequestType DEF TypeInv, TypeOK, ControlOK, RequestMatchesLabel,
       Advance, Goto, SetLabels, LookupLabels
  <1>7. QED
    BY <1>2, <1>3, <1>4, <1>5, <1>6 DEF TypeInv, TypeOK

LEMMA TypePutInode ==
  ASSUME TypeInv, NEW p \in Procs, PutInode(p)
  PROVE  TypeInv'
  <1>1. req[p] \in Requests /\ req[p].op = "set"
    BY DEF TypeInv, TypeOK, ControlOK, RequestMatchesLabel, SetLabels, PutInode,
       WriteWord, Old, New
  <1>2. SharedOK'
    BY <1>1, SetRequestType, OwnersAreSlots, ParityType, SlotWords DEF TypeInv,
       TypeOK, SharedOK, PutInode, WriteWord, Old, New, shared, DiskOK, Snapshot,
       EmptyMap
  <1>3. ControlOK'
    BY <1>1, SetRequestType, SlotWords, NoRequestType DEF TypeInv, TypeOK, ControlOK,
       PutInode, WriteWord, Old, New, Goto, Labels, Critical, ReplayLabels, SetLabels,
           CheckpointLabels, LookupLabels
  <1>4. DiskOK' /\ LocalsOK' /\ GhostsOK' /\ BudgetOK'
    BY DEF TypeInv, TypeOK, DiskOK, LocalsOK, GhostsOK, BudgetOK, PutInode, WriteWord,
       Old, New, shared, disk, locals, ghosts
  <1>5. RequestMatchesLabel'
    BY <1>1, SetRequestType DEF TypeInv, TypeOK, ControlOK, RequestMatchesLabel,
       PutInode, WriteWord, Old, New, Goto, SetLabels, LookupLabels
  <1>6. QED
    BY <1>2, <1>3, <1>4, <1>5 DEF TypeInv, TypeOK

LEMMA TypePutUid ==
  ASSUME TypeInv, NEW p \in Procs, PutUid(p)
  PROVE  TypeInv'
  <1>1. req[p] \in Requests /\ req[p].op = "set"
    BY DEF TypeInv, TypeOK, ControlOK, RequestMatchesLabel, SetLabels, PutUid,
       WriteWord, Old, New
  <1>2. SharedOK'
    BY <1>1, SetRequestType, OwnersAreSlots, ParityType, SlotWords DEF TypeInv,
       TypeOK, SharedOK, PutUid, WriteWord, Old, New, shared, DiskOK, Snapshot,
       EmptyMap
  <1>3. ControlOK'
    BY <1>1, SetRequestType, SlotWords, NoRequestType DEF TypeInv, TypeOK, ControlOK,
       PutUid, WriteWord, Old, New, Goto, Labels, Critical, ReplayLabels, SetLabels,
           CheckpointLabels, LookupLabels
  <1>4. DiskOK' /\ LocalsOK' /\ GhostsOK' /\ BudgetOK'
    BY DEF TypeInv, TypeOK, DiskOK, LocalsOK, GhostsOK, BudgetOK, PutUid, WriteWord,
       Old, New, shared, disk, locals, ghosts
  <1>5. RequestMatchesLabel'
    BY <1>1, SetRequestType DEF TypeInv, TypeOK, ControlOK, RequestMatchesLabel,
       PutUid, WriteWord, Old, New, Goto, SetLabels, LookupLabels
  <1>6. QED
    BY <1>2, <1>3, <1>4, <1>5 DEF TypeInv, TypeOK

LEMMA TypePutMode ==
  ASSUME TypeInv, NEW p \in Procs, PutMode(p)
  PROVE  TypeInv'
  <1>1. req[p] \in Requests /\ req[p].op = "set"
    BY DEF TypeInv, TypeOK, ControlOK, RequestMatchesLabel, SetLabels, PutMode,
       WriteWord, Old, New
  <1>2. SharedOK'
    BY <1>1, SetRequestType, OwnersAreSlots, ParityType, SlotWords DEF TypeInv,
       TypeOK, SharedOK, PutMode, WriteWord, Old, New, shared, DiskOK, Snapshot,
       EmptyMap
  <1>3. ControlOK'
    BY <1>1, SetRequestType, SlotWords, NoRequestType DEF TypeInv, TypeOK, ControlOK,
       PutMode, WriteWord, Old, New, Goto, Labels, Critical, ReplayLabels, SetLabels,
           CheckpointLabels, LookupLabels
  <1>4. DiskOK' /\ LocalsOK' /\ GhostsOK' /\ BudgetOK'
    BY DEF TypeInv, TypeOK, DiskOK, LocalsOK, GhostsOK, BudgetOK, PutMode, WriteWord,
       Old, New, shared, disk, locals, ghosts
  <1>5. RequestMatchesLabel'
    BY <1>1, SetRequestType DEF TypeInv, TypeOK, ControlOK, RequestMatchesLabel,
       PutMode, WriteWord, Old, New, Goto, SetLabels, LookupLabels
  <1>6. QED
    BY <1>2, <1>3, <1>4, <1>5 DEF TypeInv, TypeOK

LEMMA TypePutEnd ==
  ASSUME TypeInv, NEW p \in Procs, PutEnd(p)
  PROVE  TypeInv'
  <1>1. req[p] \in Requests /\ req[p].op = "set"
    BY DEF TypeInv, TypeOK, ControlOK, RequestMatchesLabel, SetLabels, PutEnd
  <1>2. SharedOK'
    BY DEF TypeInv, TypeOK, SharedOK, LocalsOK, PutEnd
  <1>3. ControlOK'
    BY <1>1, SetRequestType, NoRequestType DEF TypeInv, TypeOK, ControlOK, PutEnd,
       Goto, Labels, Critical, ReplayLabels, SetLabels,
           CheckpointLabels, LookupLabels
  <1>4. GhostsOK'
    BY <1>1, SetRequestType, OwnersAreSlots, ParityType DEF TypeInv, TypeOK, GhostsOK,
       PutEnd, ghosts, SharedOK
  <1>5. DiskOK' /\ LocalsOK' /\ BudgetOK'
    BY DEF TypeInv, TypeOK, DiskOK, LocalsOK, BudgetOK, PutEnd, shared, disk, locals,
       ghosts
  <1>6. RequestMatchesLabel'
    BY <1>1, SetRequestType DEF TypeInv, TypeOK, ControlOK, RequestMatchesLabel,
       PutEnd, Goto, SetLabels, LookupLabels
  <1>7. QED
    BY <1>2, <1>3, <1>4, <1>5, <1>6 DEF TypeInv, TypeOK

LEMMA TypeClearDirty ==
  ASSUME TypeInv, NEW p \in Procs, ClearDirty(p)
  PROVE  TypeInv'
  <1>1. req[p] \in Requests /\ req[p].op = "set"
    BY DEF TypeInv, TypeOK, ControlOK, RequestMatchesLabel, SetLabels, ClearDirty
  <1>2. SharedOK'
    BY <1>1, SetRequestType, OwnersAreSlots, ParityType DEF TypeInv, TypeOK, SharedOK,
       ClearDirty, shared, DiskOK, Snapshot, EmptyMap
  <1>3. ControlOK'
    BY <1>1, SetRequestType, NoRequestType DEF TypeInv, TypeOK, ControlOK, ClearDirty,
       Goto, Labels, Critical, ReplayLabels, SetLabels,
           CheckpointLabels, LookupLabels
  <1>4. LocalsOK'
    BY <1>1, SetRequestType, OwnersAreSlots, ParityType DEF TypeInv, TypeOK, LocalsOK,
       ClearDirty, locals, Return, Results, SharedOK
  <1>5. GhostsOK'
    BY <1>1, SetRequestType, OwnersAreSlots, ParityType DEF TypeInv, TypeOK, GhostsOK,
       ClearDirty, ghosts, SharedOK
  <1>6. DiskOK' /\ BudgetOK'
    BY DEF TypeInv, TypeOK, DiskOK, BudgetOK, ClearDirty, shared, disk, locals, ghosts
  <1>7. RequestMatchesLabel'
    BY <1>1, SetRequestType DEF TypeInv, TypeOK, ControlOK, RequestMatchesLabel,
       ClearDirty, Goto, SetLabels, LookupLabels
  <1>8. QED
    BY <1>2, <1>3, <1>4, <1>5, <1>6, <1>7 DEF TypeInv, TypeOK

LEMMA TypeWriteSnapshot ==
  ASSUME TypeInv, NEW p \in Procs, WriteSnapshot(p)
  PROVE  TypeInv'
  <1>1. DiskOK'
    BY DEF TypeInv, TypeOK, DiskOK, WriteSnapshot, disk, SharedOK, Record, Snapshot
  <1>2. ControlOK'
    BY NoRequestType DEF TypeInv, TypeOK, ControlOK, WriteSnapshot, Goto, Labels,
       Critical, ReplayLabels, SetLabels,
           CheckpointLabels, LookupLabels
  <1>3. SharedOK' /\ LocalsOK' /\ GhostsOK' /\ BudgetOK'
    BY DEF TypeInv, TypeOK, SharedOK, LocalsOK, GhostsOK, BudgetOK, WriteSnapshot,
       shared, disk, locals, ghosts
  <1>4. RequestMatchesLabel'
    BY DEF TypeInv, TypeOK, ControlOK, RequestMatchesLabel, WriteSnapshot, Goto,
       SetLabels, LookupLabels
  <1>5. QED
    BY <1>1, <1>2, <1>3, <1>4 DEF TypeInv, TypeOK

LEMMA TypeSyncDirectory ==
  ASSUME TypeInv, NEW p \in Procs, SyncDirectory(p)
  PROVE  TypeInv'
  <1>1. SharedOK'
    BY OwnersAreSlots, ParityType DEF TypeInv, TypeOK, SharedOK, SyncDirectory,
       shared, DiskOK, Snapshot, EmptyMap
  <1>2. DiskOK'
    BY DEF TypeInv, TypeOK, DiskOK, SyncDirectory, disk, SharedOK, Record, Snapshot
  <1>3. ControlOK'
    BY NoRequestType DEF TypeInv, TypeOK, ControlOK, SyncDirectory, Goto, Labels,
       Critical, ReplayLabels, SetLabels,
           CheckpointLabels, LookupLabels
  <1>4. LocalsOK' /\ GhostsOK' /\ BudgetOK'
    BY DEF TypeInv, TypeOK, LocalsOK, GhostsOK, BudgetOK, SyncDirectory, shared, disk,
       locals, ghosts
  <1>5. RequestMatchesLabel'
    BY DEF TypeInv, TypeOK, ControlOK, RequestMatchesLabel, SyncDirectory, Goto,
       SetLabels, LookupLabels
  <1>6. QED
    BY <1>1, <1>2, <1>3, <1>4, <1>5 DEF TypeInv, TypeOK

LEMMA TypeTruncateJournal ==
  ASSUME TypeInv, NEW p \in Procs, TruncateJournal(p)
  PROVE  TypeInv'
  <1>1. DiskOK'
    BY EmptySeq DEF TypeInv, TypeOK, DiskOK, TruncateJournal
  <1>2. ControlOK'
    BY NoRequestType DEF TypeInv, TypeOK, ControlOK, TruncateJournal, Goto, Labels,
       Critical, ReplayLabels, SetLabels,
           CheckpointLabels, LookupLabels
  <1>3. SharedOK' /\ LocalsOK' /\ GhostsOK' /\ BudgetOK'
    BY DEF TypeInv, TypeOK, SharedOK, LocalsOK, GhostsOK, BudgetOK, TruncateJournal,
       shared, disk, locals, ghosts
  <1>4. RequestMatchesLabel'
    BY DEF TypeInv, TypeOK, ControlOK, RequestMatchesLabel, TruncateJournal, Goto,
       SetLabels, LookupLabels
  <1>5. QED
    BY <1>1, <1>2, <1>3, <1>4 DEF TypeInv, TypeOK

LEMMA TypeFlushJournal ==
  ASSUME TypeInv, NEW p \in Procs, FlushJournal(p)
  PROVE  TypeInv'
  <1>1. DiskOK'
    BY DEF TypeInv, TypeOK, DiskOK, FlushJournal, disk, SharedOK, Record, Snapshot
  <1>2. ControlOK'
    BY NoRequestType DEF TypeInv, TypeOK, ControlOK, FlushJournal, Goto, Labels,
       Critical, ReplayLabels, SetLabels,
           CheckpointLabels, LookupLabels
  <1>3. LocalsOK'
    BY OwnersAreSlots, ParityType DEF TypeInv, TypeOK, LocalsOK, FlushJournal, locals,
       Return, Results, SharedOK
  <1>4. GhostsOK'
    BY OwnersAreSlots, ParityType DEF TypeInv, TypeOK, GhostsOK, FlushJournal, ghosts,
       SharedOK
  <1>5. SharedOK' /\ BudgetOK'
    BY DEF TypeInv, TypeOK, SharedOK, BudgetOK, FlushJournal, shared, disk, locals,
       ghosts
  <1>6. RequestMatchesLabel'
    BY DEF TypeInv, TypeOK, ControlOK, RequestMatchesLabel, FlushJournal, Goto,
       SetLabels, LookupLabels
  <1>7. QED
    BY <1>1, <1>2, <1>3, <1>4, <1>5, <1>6 DEF TypeInv, TypeOK

LEMMA TypeCheckpointFail ==
  ASSUME TypeInv, NEW p \in Procs, CheckpointFail(p)
  PROVE  TypeInv'
  <1>1. ControlOK'
    BY NoRequestType DEF TypeInv, TypeOK, ControlOK, CheckpointFail, Goto, Labels,
       Critical, ReplayLabels, SetLabels,
           CheckpointLabels, LookupLabels
  <1>2. LocalsOK'
    BY OwnersAreSlots, ParityType DEF TypeInv, TypeOK, LocalsOK, CheckpointFail,
       locals, Return, Results, SharedOK
  <1>3. BudgetOK'
    BY DEF TypeInv, TypeOK, BudgetOK, CheckpointFail, Spend
  <1>4. SharedOK' /\ DiskOK' /\ GhostsOK'
    BY DEF TypeInv, TypeOK, SharedOK, DiskOK, GhostsOK, CheckpointFail, shared, disk,
       locals, ghosts
  <1>5. RequestMatchesLabel'
    BY DEF TypeInv, TypeOK, ControlOK, RequestMatchesLabel, CheckpointFail, Goto,
       SetLabels, LookupLabels
  <1>6. QED
    BY <1>1, <1>2, <1>3, <1>4, <1>5 DEF TypeInv, TypeOK

LEMMA TypeCheckFailed ==
  ASSUME TypeInv, NEW p \in Procs, CheckFailed(p)
  PROVE  TypeInv'
  <1>1. ControlOK'
    BY NoRequestType DEF TypeInv, TypeOK, ControlOK, CheckFailed, Goto,
       ReturnToCaller, Labels, Critical, ReplayLabels, SetLabels,
           CheckpointLabels, LookupLabels
  <1>2. LocalsOK'
    BY OwnersAreSlots, ParityType DEF TypeInv, TypeOK, LocalsOK, CheckFailed, locals,
       ReturnToCaller, Results, SharedOK
  <1>3. SharedOK' /\ DiskOK' /\ GhostsOK' /\ BudgetOK'
    BY DEF TypeInv, TypeOK, SharedOK, DiskOK, GhostsOK, BudgetOK, CheckFailed, shared,
       disk, locals, ghosts
  <1>4. RequestMatchesLabel'
    BY DEF TypeInv, TypeOK, ControlOK, RequestMatchesLabel, CheckFailed, Goto,
       ReturnToCaller, SetLabels, LookupLabels
  <1>5. QED
    BY <1>1, <1>2, <1>3, <1>4 DEF TypeInv, TypeOK

LEMMA TypeReadVersion ==
  ASSUME TypeInv, NEW p \in Procs, ReadVersion(p)
  PROVE  TypeInv'
  <1>1. ControlOK'
    BY NoRequestType DEF TypeInv, TypeOK, ControlOK, ReadVersion, Goto, Labels,
       Critical, ReplayLabels, SetLabels,
           CheckpointLabels, LookupLabels
  <1>2. LocalsOK'
    BY OwnersAreSlots, ParityType DEF TypeInv, TypeOK, LocalsOK, ReadVersion, locals,
       Results, SharedOK
  <1>3. SharedOK' /\ DiskOK' /\ GhostsOK' /\ BudgetOK'
    BY DEF TypeInv, TypeOK, SharedOK, DiskOK, GhostsOK, BudgetOK, ReadVersion, shared,
       disk, locals, ghosts
  <1>4. RequestMatchesLabel'
    BY DEF TypeInv, TypeOK, ControlOK, RequestMatchesLabel, ReadVersion, Goto,
       SetLabels, LookupLabels
  <1>5. QED
    BY <1>1, <1>2, <1>3, <1>4 DEF TypeInv, TypeOK

LEMMA TypeReadInode ==
  ASSUME TypeInv, NEW p \in Procs, ReadInode(p)
  PROVE  TypeInv'
  <1>1. req[p] \in Requests /\ req[p].op = "lookup"
    BY DEF TypeInv, TypeOK, ControlOK, RequestMatchesLabel, LookupLabels, ReadInode,
       ReadWord, Old
  <1>2. ControlOK'
    BY <1>1, LookupRequestType, SlotWords, NoRequestType DEF TypeInv, TypeOK,
       ControlOK, ReadInode, ReadWord, Old, Goto, Labels, Critical, ReplayLabels,
       SetLabels,
           CheckpointLabels, LookupLabels
  <1>3. LocalsOK'
    BY <1>1, LookupRequestType, OwnersAreSlots, ParityType, SlotWords DEF TypeInv,
       TypeOK, LocalsOK, ReadInode, ReadWord, Old, locals, Results, SharedOK
  <1>4. SharedOK' /\ DiskOK' /\ GhostsOK' /\ BudgetOK'
    BY DEF TypeInv, TypeOK, SharedOK, DiskOK, GhostsOK, BudgetOK, ReadInode, ReadWord,
       Old, shared, disk, locals, ghosts
  <1>5. RequestMatchesLabel'
    BY <1>1, LookupRequestType DEF TypeInv, TypeOK, ControlOK, RequestMatchesLabel,
       ReadInode, ReadWord, Old, Goto, SetLabels, LookupLabels
  <1>6. QED
    BY <1>2, <1>3, <1>4, <1>5 DEF TypeInv, TypeOK

LEMMA TypeReadUid ==
  ASSUME TypeInv, NEW p \in Procs, ReadUid(p)
  PROVE  TypeInv'
  <1>1. req[p] \in Requests /\ req[p].op = "lookup"
    BY DEF TypeInv, TypeOK, ControlOK, RequestMatchesLabel, LookupLabels, ReadUid,
       ReadWord, Old
  <1>2. ControlOK'
    BY <1>1, LookupRequestType, SlotWords, NoRequestType DEF TypeInv, TypeOK,
       ControlOK, ReadUid, ReadWord, Old, Goto, Labels, Critical, ReplayLabels,
       SetLabels,
           CheckpointLabels, LookupLabels
  <1>3. LocalsOK'
    BY <1>1, LookupRequestType, OwnersAreSlots, ParityType, SlotWords DEF TypeInv,
       TypeOK, LocalsOK, ReadUid, ReadWord, Old, locals, Results, SharedOK
  <1>4. SharedOK' /\ DiskOK' /\ GhostsOK' /\ BudgetOK'
    BY DEF TypeInv, TypeOK, SharedOK, DiskOK, GhostsOK, BudgetOK, ReadUid, ReadWord,
       Old, shared, disk, locals, ghosts
  <1>5. RequestMatchesLabel'
    BY <1>1, LookupRequestType DEF TypeInv, TypeOK, ControlOK, RequestMatchesLabel,
       ReadUid, ReadWord, Old, Goto, SetLabels, LookupLabels
  <1>6. QED
    BY <1>2, <1>3, <1>4, <1>5 DEF TypeInv, TypeOK

LEMMA TypeReadMode ==
  ASSUME TypeInv, NEW p \in Procs, ReadMode(p)
  PROVE  TypeInv'
  <1>1. req[p] \in Requests /\ req[p].op = "lookup"
    BY DEF TypeInv, TypeOK, ControlOK, RequestMatchesLabel, LookupLabels, ReadMode,
       ReadWord, Old
  <1>2. ControlOK'
    BY <1>1, LookupRequestType, SlotWords, NoRequestType DEF TypeInv, TypeOK,
       ControlOK, ReadMode, ReadWord, Old, Goto, Labels, Critical, ReplayLabels,
       SetLabels,
           CheckpointLabels, LookupLabels
  <1>3. LocalsOK'
    BY <1>1, LookupRequestType, OwnersAreSlots, ParityType, SlotWords DEF TypeInv,
       TypeOK, LocalsOK, ReadMode, ReadWord, Old, locals, Results, SharedOK
  <1>4. SharedOK' /\ DiskOK' /\ GhostsOK' /\ BudgetOK'
    BY DEF TypeInv, TypeOK, SharedOK, DiskOK, GhostsOK, BudgetOK, ReadMode, ReadWord,
       Old, shared, disk, locals, ghosts
  <1>5. RequestMatchesLabel'
    BY <1>1, LookupRequestType DEF TypeInv, TypeOK, ControlOK, RequestMatchesLabel,
       ReadMode, ReadWord, Old, Goto, SetLabels, LookupLabels
  <1>6. QED
    BY <1>2, <1>3, <1>4, <1>5 DEF TypeInv, TypeOK

LEMMA TypeRecheck ==
  ASSUME TypeInv, NEW p \in Procs, Recheck(p)
  PROVE  TypeInv'
  <1>1. ControlOK'
    BY NoRequestType DEF TypeInv, TypeOK, ControlOK, Recheck, Goto, ReturnToCaller,
       Labels, Critical, ReplayLabels, SetLabels,
           CheckpointLabels, LookupLabels
  <1>2. LocalsOK'
    BY OwnersAreSlots, ParityType DEF TypeInv, TypeOK, LocalsOK, Recheck, locals,
       ReturnToCaller, Results, SharedOK
  <1>3. SharedOK' /\ DiskOK' /\ GhostsOK' /\ BudgetOK'
    BY DEF TypeInv, TypeOK, SharedOK, DiskOK, GhostsOK, BudgetOK, Recheck, shared,
       disk, locals, ghosts
  <1>4. RequestMatchesLabel'
    BY DEF TypeInv, TypeOK, ControlOK, RequestMatchesLabel, Recheck, Goto,
       ReturnToCaller, SetLabels, LookupLabels
  <1>5. QED
    BY <1>1, <1>2, <1>3, <1>4 DEF TypeInv, TypeOK

LEMMA TypeCrash ==
  ASSUME TypeInv, NEW p \in Procs, Crash(p)
  PROVE  TypeInv'
  <1>1. DiskOK'
    BY DEF TypeInv, TypeOK, DiskOK, Crash, disk, SharedOK, Record, Snapshot
  <1>2. ControlOK'
    BY NoRequestType DEF TypeInv, TypeOK, ControlOK, Crash, Goto, ReturnToCaller,
       Labels, Critical, ReplayLabels, SetLabels,
           CheckpointLabels, LookupLabels
  <1>3. LocalsOK'
    BY OwnersAreSlots, ParityType DEF TypeInv, TypeOK, LocalsOK, Crash, locals,
       ReturnToCaller, Results, SharedOK
  <1>4. BudgetOK'
    BY DEF TypeInv, TypeOK, BudgetOK, Crash, Spend
  <1>5. SharedOK' /\ GhostsOK'
    BY DEF TypeInv, TypeOK, SharedOK, GhostsOK, Crash, shared, disk, locals, ghosts
  <1>6. RequestMatchesLabel'
    BY DEF TypeInv, TypeOK, ControlOK, RequestMatchesLabel, Crash, Goto,
       ReturnToCaller, SetLabels, LookupLabels
  <1>7. QED
    BY <1>1, <1>2, <1>3, <1>4, <1>5, <1>6 DEF TypeInv, TypeOK

LEMMA TypePowerLoss ==
  ASSUME TypeInv, PowerLoss
  PROVE  TypeInv'
  <1>1. journal \in Seq(Record) /\ journalDisk \in Seq(Record)
    BY DEF TypeInv, TypeOK, DiskOK
  <1>2. \A n \in 0 .. Len(journal) : SubSeq(journal, 1, n) \in Seq(Record)
    BY <1>1, SubSeqProperties
  <1>3. journal' \in Seq(Record)
    BY <1>1, <1>2 DEF PowerLoss, JournalsAfter, Prefixes
  <1>4. DiskOK'
    BY <1>3 DEF TypeInv, TypeOK, DiskOK, PowerLoss
  <1>5. LastSeq(snapshot', journal') \in Nat
    <2>1. snapshot'.seq \in Nat
      BY <1>4 DEF DiskOK, Snapshot
    <2>2. CASE journal' = <<>>
      BY <2>1, <2>2 DEF LastSeq
    <2>3. CASE journal' # <<>>
      <3>1. journal'[Len(journal')] \in Record
        BY <1>3, <2>3
      <3>2. QED
        BY <2>1, <3>1 DEF LastSeq, Record
    <2>4. QED
      BY <2>2, <2>3
  <1>6. GhostsOK'
    <2> DEFINE kept == AtMost(LastSeq(snapshot', journal'), Recorded)
    <2>1. Recorded \in Nat
      BY DEF TypeInv, TypeOK, GhostsOK, Recorded
    <2>2. kept \in Nat /\ kept <= Recorded
      BY <1>5, <2>1 DEF AtMost
    <2>3. history' = SubSeq(history, 1, kept + 1) /\ shown' = AtMost(shown, kept)
          /\ promised' = promised
      BY DEF PowerLoss
    <2> HIDE DEF kept
    <2>4. kept + 1 \in 1 .. Len(history)
      BY <2>1, <2>2 DEF TypeInv, TypeOK, GhostsOK, Recorded
    <2>5. history' \in Seq([Files -> Slot]) /\ Len(history') = kept + 1
      BY <2>3, <2>4, SubSeqProperties DEF TypeInv, TypeOK, GhostsOK
    <2>6. history' # <<>>
      BY <2>2, <2>5
    <2>7. shown' \in Nat /\ promised' \in Nat
      BY <2>2, <2>3 DEF TypeInv, TypeOK, GhostsOK, AtMost
    <2>8. QED
      BY <2>5, <2>6, <2>7 DEF GhostsOK
  <1>7. SharedOK'
    BY DEF TypeInv, TypeOK, SharedOK, PowerLoss, shared
  <1>8. ControlOK'
    BY NoRequestType DEF TypeInv, TypeOK, ControlOK, PowerLoss, Labels
  <1>9. LocalsOK'
    BY OwnersAreSlots DEF TypeInv, TypeOK, LocalsOK, PowerLoss, Results
  <1>10. BudgetOK'
    BY DEF TypeInv, TypeOK, BudgetOK, PowerLoss, Spend
  <1>11. RequestMatchesLabel'
    BY DEF RequestMatchesLabel, PowerLoss, SetLabels, LookupLabels
  <1>12. QED
    BY <1>4, <1>6, <1>7, <1>8, <1>9, <1>10, <1>11 DEF TypeInv, TypeOK

LEMMA TypeNext == TypeInv /\ [Next]_vars => TypeInv'
  <1> SUFFICES ASSUME TypeInv, [Next]_vars
               PROVE  TypeInv'
    OBVIOUS
  <1>1. ASSUME NEW p \in Procs, LockSteps(p) PROVE TypeInv'
    BY <1>1, TypeAcquireLock, TypeUnlockVersion, TypeReleaseLock DEF LockSteps
  <1>2. ASSUME NEW p \in Procs, ReplaySteps(p) PROVE TypeInv'
    BY <1>2, TypeReplayBegin, TypeReplayZero, TypeReplaySnapshot, TypeReplayRecord,
       TypeReplayFinish, TypeReplayPublish, TypeReplayFail DEF ReplaySteps
  <1>3. ASSUME NEW p \in Procs, SetSteps(p) PROVE TypeInv'
    BY <1>3, TypeCompare, TypeAppendRecord, TypeAppendFail, TypeSyncJournal,
       TypeSyncFail, TypeAdvance, TypePutInode, TypePutUid, TypePutMode, TypePutEnd,
       TypeClearDirty DEF SetSteps
  <1>4. ASSUME NEW p \in Procs, CheckpointSteps(p) PROVE TypeInv'
    BY <1>4, TypeWriteSnapshot, TypeSyncDirectory, TypeTruncateJournal,
       TypeFlushJournal, TypeCheckpointFail DEF CheckpointSteps
  <1>5. ASSUME NEW p \in Procs, LookupSteps(p) PROVE TypeInv'
    BY <1>5, TypeCheckFailed, TypeReadVersion, TypeReadInode, TypeReadUid,
       TypeReadMode, TypeRecheck DEF LookupSteps
  <1>6. ASSUME NEW p \in Procs, OpenFirst(p) \/ StartSet(p) \/ StartLookup(p) \/ Crash(p)
       PROVE  TypeInv'
    BY <1>6, TypeOpenFirst, TypeStartSet, TypeStartLookup, TypeCrash
  <1>7. CASE UNCHANGED vars
    BY <1>7 DEF vars, shared, disk, locals, ghosts, TypeInv, TypeOK, SharedOK, DiskOK,
       ControlOK, LocalsOK, GhostsOK, BudgetOK, RequestMatchesLabel
  <1>8. QED
    BY <1>1, <1>2, <1>3, <1>4, <1>5, <1>6, <1>7, TypePowerLoss DEF Next, Step

(* Type correctness holds in every behaviour, whatever is killed, whatever *)
(* write fails and whenever the power goes.                                *)
THEOREM TypeCorrect == Spec => []TypeOK
  <1>1. TypeInv => TypeOK
    BY DEF TypeInv
  <1>2. QED
    BY <1>1, TypeInit, TypeNext, PTL DEF Spec

-----------------------------------------------------------------------------
(***************************************************************************)
(* Mutual exclusion of writers.  The first opener works under init.lock    *)
(* and the lease rather than writer.lock, so the exclusion also rests on   *)
(* nobody else being active while the session group opens.                 *)
(***************************************************************************)
SessionMatchesRequests ==
  /\ session = "down" => \A p \in Procs : pc[p] = "idle"
  /\ \A p \in Procs : pc[p] # "idle" => (req[p].op = "open" <=> session = "opening")

LockInv == WriterExclusion /\ SessionMatchesRequests

(* While a group opens, its opener is the only active process.             *)
LEMMA OpenerIsAlone ==
  ASSUME TypeInv, LockInv, session = "opening"
  PROVE  \A p \in Procs : pc[p] # "idle" => lock = p
  BY DEF TypeInv, TypeOK, ControlOK, RequestMatchesLabel, LockInv, WriterExclusion,
         SessionMatchesRequests, Labels

(* A step of an active process that takes no lock and ends no operation.   *)
Quiet(p) ==
  /\ pc[p] # "idle"
  /\ UNCHANGED <<lock, session, req>>
  /\ \E l \in Labels \ {"idle"} :
       pc' = [pc EXCEPT ![p] = l] /\ (l \in Critical => pc[p] \in Critical)

LEMMA QuietKeepsLockInv ==
  ASSUME TypeInv, LockInv, NEW p \in Procs, Quiet(p)
  PROVE  LockInv'
  <1>1. PICK l \in Labels \ {"idle"} :
          pc' = [pc EXCEPT ![p] = l] /\ (l \in Critical => pc[p] \in Critical)
    BY DEF Quiet
  <1>2. WriterExclusion'
    BY <1>1 DEF Quiet, LockInv, WriterExclusion, TypeInv, TypeOK, ControlOK
  <1>3. SessionMatchesRequests'
    BY <1>1 DEF Quiet, LockInv, SessionMatchesRequests, TypeInv, TypeOK, ControlOK
  <1>4. QED
    BY <1>2, <1>3 DEF LockInv

LEMMA ReplayIsQuiet ==
  ASSUME TypeInv, NEW p \in Procs,
         ReplayBegin(p) \/ ReplayZero(p) \/ ReplaySnapshot(p) \/ ReplayRecord(p) \/
            ReplayFinish(p) \/ ReplayPublish(p) \/ ReplayFail(p)
  PROVE  Quiet(p)
  <1> USE DEF TypeInv, TypeOK, ControlOK, Goto, Labels, Critical, ReplayLabels, SetLabels,
          CheckpointLabels, LookupLabels
  <1>1. CASE ReplayBegin(p)
    BY <1>1 DEF Quiet, ReplayBegin
  <1>2. CASE ReplayZero(p)
    BY <1>2 DEF Quiet, ReplayZero
  <1>3. CASE ReplaySnapshot(p)
    BY <1>3 DEF Quiet, ReplaySnapshot
  <1>4. CASE ReplayRecord(p)
    BY <1>4 DEF Quiet, ReplayRecord
  <1>5. CASE ReplayFinish(p)
    BY <1>5 DEF Quiet, ReplayFinish
  <1>6. CASE ReplayPublish(p)
    BY <1>6 DEF Quiet, ReplayPublish, Locked
  <1>7. CASE ReplayFail(p)
    BY <1>7 DEF Quiet, ReplayFail
  <1>8. QED
    BY <1>1, <1>2, <1>3, <1>4, <1>5, <1>6, <1>7

LEMMA SetIsQuiet ==
  ASSUME TypeInv, NEW p \in Procs,
         Compare(p) \/ AppendRecord(p) \/ AppendFail(p) \/ SyncJournal(p) \/
            SyncFail(p) \/ Advance(p) \/ PutInode(p) \/ PutUid(p) \/ PutMode(p) \/
            PutEnd(p) \/ ClearDirty(p)
  PROVE  Quiet(p)
  <1> USE DEF TypeInv, TypeOK, ControlOK, Goto, Labels, Critical, ReplayLabels, SetLabels,
          CheckpointLabels, LookupLabels
  <1>1. CASE Compare(p)
    BY <1>1 DEF Quiet, Compare
  <1>2. CASE AppendRecord(p)
    BY <1>2 DEF Quiet, AppendRecord, NextRecord, Latest
  <1>3. CASE AppendFail(p)
    BY <1>3 DEF Quiet, AppendFail
  <1>4. CASE SyncJournal(p)
    BY <1>4 DEF Quiet, SyncJournal
  <1>5. CASE SyncFail(p)
    BY <1>5 DEF Quiet, SyncFail
  <1>6. CASE Advance(p)
    BY <1>6 DEF Quiet, Advance
  <1>7. CASE PutInode(p)
    BY <1>7 DEF Quiet, PutInode, WriteWord
  <1>8. CASE PutUid(p)
    BY <1>8 DEF Quiet, PutUid, WriteWord
  <1>9. CASE PutMode(p)
    BY <1>9 DEF Quiet, PutMode, WriteWord
  <1>10. CASE PutEnd(p)
    BY <1>10 DEF Quiet, PutEnd
  <1>11. CASE ClearDirty(p)
    BY <1>11 DEF Quiet, ClearDirty
  <1>12. QED
    BY <1>1, <1>2, <1>3, <1>4, <1>5, <1>6, <1>7, <1>8, <1>9, <1>10, <1>11

LEMMA CheckpointIsQuiet ==
  ASSUME TypeInv, NEW p \in Procs,
         WriteSnapshot(p) \/ SyncDirectory(p) \/ TruncateJournal(p) \/
            FlushJournal(p) \/ CheckpointFail(p)
  PROVE  Quiet(p)
  <1> USE DEF TypeInv, TypeOK, ControlOK, Goto, Labels, Critical, ReplayLabels, SetLabels,
          CheckpointLabels, LookupLabels
  <1>1. CASE WriteSnapshot(p)
    BY <1>1 DEF Quiet, WriteSnapshot
  <1>2. CASE SyncDirectory(p)
    BY <1>2 DEF Quiet, SyncDirectory
  <1>3. CASE TruncateJournal(p)
    BY <1>3 DEF Quiet, TruncateJournal
  <1>4. CASE FlushJournal(p)
    BY <1>4 DEF Quiet, FlushJournal
  <1>5. CASE CheckpointFail(p)
    BY <1>5 DEF Quiet, CheckpointFail
  <1>6. QED
    BY <1>1, <1>2, <1>3, <1>4, <1>5

LEMMA LookupReadIsQuiet ==
  ASSUME TypeInv, NEW p \in Procs,
         ReadVersion(p) \/ ReadInode(p) \/ ReadUid(p) \/ ReadMode(p)
  PROVE  Quiet(p)
  <1>1. CASE ReadVersion(p)
    <2> DEFINE l == IF Odd(version) THEN "lock" ELSE "readInode"
    <2>1. l \in Labels \ {"idle"} /\ l \notin Critical
      BY DEF Labels, LookupLabels, Critical, ReplayLabels, SetLabels, CheckpointLabels
    <2>2. pc[p] # "idle" /\ pc' = [pc EXCEPT ![p] = l] /\ UNCHANGED <<lock, session, req>>
      BY <1>1 DEF ReadVersion, Goto
    <2> HIDE DEF l
    <2>3. QED
      BY <2>1, <2>2 DEF Quiet
  <1>2. ASSUME NEW copy, NEW from \in LookupLabels, NEW to \in LookupLabels,
               ReadWord(p, copy, from, to)
        PROVE  Quiet(p)
    <2>1. from # "idle" /\ to \in Labels \ {"idle"} /\ to \notin Critical
      BY DEF Labels, LookupLabels, Critical, ReplayLabels, SetLabels, CheckpointLabels
    <2>2. QED
      BY <1>2, <2>1 DEF Quiet, ReadWord, Goto
  <1>3. {"readInode", "readUid", "readMode", "recheck"} \subseteq LookupLabels
    BY DEF LookupLabels
  <1>4. CASE ReadInode(p)
    BY <1>2, <1>3, <1>4, Zenon DEF ReadInode
  <1>5. CASE ReadUid(p)
    BY <1>2, <1>3, <1>5, Zenon DEF ReadUid
  <1>6. CASE ReadMode(p)
    BY <1>2, <1>3, <1>6, Zenon DEF ReadMode
  <1>7. QED
    BY <1>1, <1>4, <1>5, <1>6

LEMMA LockInit == Init => LockInv
  BY DEF Init, LockInv, WriterExclusion, SessionMatchesRequests, Critical, ReplayLabels,
         SetLabels, CheckpointLabels

LEMMA LockNext == TypeInv /\ LockInv /\ [Next]_vars => LockInv'
  <1> SUFFICES ASSUME TypeInv, LockInv, [Next]_vars
               PROVE  LockInv'
    OBVIOUS
  <1> USE DEF TypeInv, TypeOK, ControlOK, LockInv, WriterExclusion, SessionMatchesRequests
  <1>1. ASSUME NEW p \in Procs, OpenFirst(p) PROVE LockInv'
    BY <1>1 DEF OpenFirst, Goto, Critical, ReplayLabels, SetLabels, CheckpointLabels,
       NoRequest
  <1>2. ASSUME NEW p \in Procs, StartSet(p) \/ StartLookup(p) PROVE LockInv'
    <2>1. session = "up" /\ session' = session /\ lock' = lock
      BY <1>2 DEF StartSet, StartLookup
    <2>2. \A q \in Procs : q # p => pc'[q] = pc[q] /\ req'[q] = req[q]
      BY <1>2 DEF StartSet, StartLookup, Goto
    <2>3. pc'[p] \in {"lock", "lookup"} /\ req'[p].op \in {"set", "lookup"}
      <3>1. CASE StartSet(p)
        BY <3>1 DEF StartSet, Goto
      <3>2. CASE StartLookup(p)
        BY <3>2 DEF StartLookup, Goto, NoRequest
      <3>3. QED
        BY <1>2, <3>1, <3>2
    <2>4. QED
      BY <2>1, <2>2, <2>3 DEF Critical, ReplayLabels, SetLabels, CheckpointLabels
  <1>3. ASSUME NEW p \in Procs, AcquireLock(p) PROVE LockInv'
    BY <1>3, ProcsAssumption DEF AcquireLock, Goto, Locked
  <1>4. ASSUME NEW p \in Procs, UnlockVersion(p) PROVE LockInv'
    <2>1. Quiet(p)
      BY <1>4 DEF UnlockVersion, Quiet, Goto, Labels, Critical
    <2>2. QED
      BY <2>1, QuietKeepsLockInv
  <1>5. ASSUME NEW p \in Procs, ReleaseLock(p) PROVE LockInv'
    <2>1. pc[p] \in Critical /\ lock = p /\ pc[p] # "idle"
      BY <1>5 DEF ReleaseLock, Critical
    <2>2. \A q \in Procs : q # p => pc[q] \notin Critical /\ pc'[q] = pc[q] /\ req'[q] = req[q]
      BY <1>5, <2>1 DEF ReleaseLock, Goto, ReturnToCaller
    <2>3. CASE req[p].op = "open"
      <3>1. \A q \in Procs : q # p => pc[q] = "idle"
        BY <2>1, <2>3, OpenerIsAlone
      <3>2. pc'[p] = "idle"
        BY <1>5, <2>3 DEF ReleaseLock, Goto
      <3>3. \A q \in Procs : pc'[q] = "idle"
        BY <2>2, <3>1, <3>2
      <3>4. QED
        BY <3>3 DEF Critical, ReplayLabels, SetLabels, CheckpointLabels
    <2>4. CASE req[p].op # "open"
      <3>1. session = "up" /\ session' = "up"
        BY <1>5, <2>1, <2>4 DEF ReleaseLock
      <3>2. pc'[p] \in {"lookup", "idle"} /\ (pc'[p] # "idle" => req'[p] = req[p])
        BY <1>5 DEF ReleaseLock, Goto
      <3>3. QED
        BY <2>2, <2>4, <3>1, <3>2 DEF Critical, ReplayLabels, SetLabels,
           CheckpointLabels
    <2>5. QED
      BY <2>3, <2>4
  <1>6. ASSUME NEW p \in Procs, ReplaySteps(p) PROVE LockInv'
    BY <1>6, ReplayIsQuiet, QuietKeepsLockInv DEF ReplaySteps
  <1>7. ASSUME NEW p \in Procs, SetSteps(p) PROVE LockInv'
    BY <1>7, SetIsQuiet, QuietKeepsLockInv DEF SetSteps
  <1>8. ASSUME NEW p \in Procs, CheckpointSteps(p) PROVE LockInv'
    BY <1>8, CheckpointIsQuiet, QuietKeepsLockInv DEF CheckpointSteps
  <1>9. ASSUME NEW p \in Procs, CheckFailed(p) \/ Recheck(p) PROVE LockInv'
    BY <1>9 DEF CheckFailed, Recheck, Goto, ReturnToCaller, Critical, ReplayLabels,
                SetLabels, CheckpointLabels
  <1>10. ASSUME NEW p \in Procs, ReadVersion(p) \/ ReadInode(p) \/ ReadUid(p) \/ ReadMode(p)
         PROVE  LockInv'
    BY <1>10, LookupReadIsQuiet, QuietKeepsLockInv
  <1>11. ASSUME NEW p \in Procs, Crash(p) PROVE LockInv'
    <2>1. \A q \in Procs : q # p => pc'[q] = pc[q] /\ req'[q] = req[q]
      BY <1>11 DEF Crash, Goto, ReturnToCaller
    <2>2. pc'[p] = "idle"
      BY <1>11 DEF Crash, Goto
    <2>3. WriterExclusion'
      BY <1>11, <2>1, <2>2 DEF Crash, Critical, ReplayLabels, SetLabels,
         CheckpointLabels
    <2>4. CASE session = "opening"
      <3>1. \A q \in Procs : pc'[q] = "idle"
        BY <1>11, <2>1, <2>2, <2>4, OpenerIsAlone DEF Crash
      <3>2. QED
        BY <2>3, <3>1
    <2>5. CASE session # "opening"
      BY <1>11, <2>1, <2>2, <2>3, <2>5 DEF Crash
    <2>6. QED
      BY <2>4, <2>5
  <1>12. CASE PowerLoss
    BY <1>12 DEF PowerLoss, Critical, ReplayLabels, SetLabels, CheckpointLabels
  <1>13. CASE UNCHANGED vars
    BY <1>13 DEF vars
  <1>14. QED
    BY <1>1, <1>2, <1>3, <1>4, <1>5, <1>6, <1>7, <1>8, <1>9, <1>10, <1>11, <1>12, <1>13
    DEF Next, Step, LockSteps, LookupSteps

(* At most one process recovers, writes or compacts the store, even when   *)
(* the holder of a lock is killed and another process takes over.          *)
THEOREM WritersExclude == Spec => []WriterExclusion
  <1>1. TypeInv /\ LockInv => WriterExclusion
    BY DEF LockInv
  <1>2. Init => TypeInv /\ LockInv
    BY TypeInit, LockInit
  <1>3. TypeInv /\ LockInv /\ [Next]_vars => (TypeInv /\ LockInv)'
    BY TypeNext, LockNext
  <1>4. QED
    BY <1>1, <1>2, <1>3, PTL DEF Spec

-----------------------------------------------------------------------------
(***************************************************************************)
(* The recovery of the ownership store, for every number of processes,     *)
(* files, kills, failed writes and power failures: what Replay, Set and    *)
(* CheckpointLocked (ownership_store.cpp) leave behind at every step is    *)
(* enough for whoever takes the lock next.  RecoveryInv says so; from it   *)
(* follow the atomicity of Lookup, the durability of Set, the exactness of *)
(* Replay, and that the store implements OwnershipMap.                     *)
(***************************************************************************)

(***************************************************************************)
(* The inductive invariant, in five parts.  What the files mean:           *)
(* a record of a journal is numbered n and turns the map after n - 1       *)
(* changes into the map after n; a snapshot holds one of these maps; the   *)
(* records a snapshot lacks are in the journal beside it, whichever of the *)
(* two versions of each file a power failure leaves.                       *)
(***************************************************************************)
Explains(maps, log) ==
  \A i \in 1 .. Len(log) :
    /\ log[i].seq \in 1 .. Len(maps) - 1
    /\ log[i].seq = log[1].seq + (i - 1)
    /\ maps[log[i].seq + 1] = [maps[log[i].seq] EXCEPT ![log[i].file] = log[i].owner]

Holds(maps, snap) == snap.seq <= Len(maps) - 1 /\ snap.map = maps[snap.seq + 1]

Meets(snap, log) == log # <<>> => log[1].seq <= snap.seq + 1

Continues(longer, log) ==
  Len(log) <= Len(longer) /\ \A i \in 1 .. Len(log) : longer[i] = log[i]

FilesInv ==
  /\ Explains(history, journal) /\ Explains(history, journalDisk)
  /\ Holds(history, snapshot) /\ Holds(history, snapshotDisk)
  /\ Meets(snapshotDisk, journal) /\ Meets(snapshotDisk, journalDisk)
  /\ snapshotDisk.seq <= snapshot.seq
  /\ LastSeq(snapshot, journal) = Recorded

(* What has been promised is on the medium, and a journal that no longer   *)
(* continues the one on the medium is only left behind by a compaction     *)
(* whose snapshot is there.                                                *)
PromiseInv ==
  /\ promised <= DurableSeq
  /\ ~Continues(journal, journalDisk) => DurableSeq = snapshotDisk.seq

(* What the table holds.                                                   *)
UpToDate == table = Latest /\ sequence = Recorded
Shows    == sequence <= Recorded /\ table = history[sequence + 1]

(* What is true of a session group, whoever has been killed in it.         *)
GroupInv ==
  /\ session = "opening" => ~failed /\ ~dirty
  /\ session = "up" => IF journal = <<>> THEN snapshotDisk.seq = Recorded
                                         ELSE journal[Len(journal)].seq = Recorded
  /\ session = "up" /\ ~dirty => ~torn /\ (~failed => UpToDate)
  /\ shown <= Recorded
  /\ session = "up" /\ ~failed /\ ~Odd(version) => shown = sequence /\ Shows

(* What the holder of the lock has reached: in Replay, in Set between two  *)
(* records and inside one, in CheckpointLocked, and on the way out.        *)
ReplayInv(p) ==
  /\ pc[p] # "replay" => Odd(version)
  /\ session = "up" => (dirty <=> pc[p] # "replayPublish")
  /\ pc[p] = "replayPublish" => UpToDate /\ ~torn
  /\ pc[p] = "replayJournal" =>
       /\ Shows
       /\ checkpoint = snapshot.seq
       /\ cursor <= Len(journal) + 1
       /\ sequence = IF cursor > 1 /\ journal[cursor - 1].seq > snapshot.seq
                     THEN journal[cursor - 1].seq ELSE snapshot.seq

PutLabels == {"putInode", "putUid", "putMode", "putEnd"}

SetInv(p) ==
  LET slot  == table[req[p].file]
      owner == req[p].owner
  IN
  /\ ~failed /\ ~torn /\ (dirty <=> pc[p] # "compare")
  /\ pc[p] \in {"compare", "append", "clean"} => UpToDate
  /\ pc[p] = "append" /\ req[p].previous # AnyOwner => SameOwner(slot, req[p].previous)
  /\ pc[p] \in {"sync", "advance"} => Shows /\ sequence + 1 = Recorded
  /\ pc[p] \in {"sync", "advance"} \cup PutLabels =>
       Latest = [table EXCEPT ![req[p].file] = owner]
  /\ pc[p] \in PutLabels => /\ sequence = Recorded
                            /\ Odd(version) /\ version = MakeOdd(saved[p])
  /\ pc[p] \in {"putUid", "putMode", "putEnd"} => slot.inode = owner.inode
  /\ pc[p] \in {"putMode", "putEnd"} => slot.uid = owner.uid
  /\ pc[p] = "putEnd" => slot.mode = owner.mode
  /\ pc[p] \notin {"compare", "append", "sync"} /\ req[p].durable
       => journalDisk = journal

CheckpointInv(p) ==
  /\ ~failed /\ ~torn /\ ~dirty /\ UpToDate
  /\ req[p].op = "open" => shown = sequence
  /\ pc[p] # "ckptWrite" => snapshot.seq = Recorded
  /\ pc[p] \in {"ckptTruncate", "ckptFlush"} => snapshotDisk = snapshot
  /\ pc[p] = "ckptFlush" => journal = <<>>

LeavingInv(p) ==
  /\ session = "up" /\ ~failed => Shows
  /\ req[p].op = "open" /\ result[p] = "ok" =>
       /\ ~torn /\ UpToDate /\ shown = sequence
       /\ journal = <<>> /\ snapshotDisk.seq = Recorded

WorkInv(p) ==
  /\ pc[p] \in ReplayLabels => ReplayInv(p)
  /\ pc[p] \in SetLabels => SetInv(p)
  /\ pc[p] \in CheckpointLabels => CheckpointInv(p)
  /\ pc[p] \in {"unlock", "release"} => LeavingInv(p)

(* What a Lookup has read: as long as the version has not moved, the words *)
(* of the table's record.                                                  *)
ReaderInv(p) ==
  LET slot == table[req[p].file] IN
  pc[p] \in {"readInode", "readUid", "readMode", "recheck"} =>
    /\ ~Odd(saved[p]) /\ saved[p] <= version
    /\ ~failed /\ saved[p] = version =>
         /\ pc[p] # "readInode" => got[p].inode = slot.inode
         /\ pc[p] \in {"readMode", "recheck"} => got[p].uid = slot.uid
         /\ pc[p] = "recheck" => got[p].mode = slot.mode

RecoveryInv ==
  /\ FilesInv /\ PromiseInv /\ GroupInv
  /\ \A p \in Procs : WorkInv(p) /\ ReaderInv(p)
-----------------------------------------------------------------------------
(* Facts about journals and snapshots, whatever variables hold them.       *)

Maps == Seq([Files -> Slot])
Logs == Seq(Record)

LEMMA LogElements ==
  ASSUME NEW log \in Logs, NEW i \in 1 .. Len(log)
  PROVE  /\ Len(log) \in Nat /\ log # <<>>
         /\ log[i] \in Record
         /\ log[i].seq \in Nat /\ log[i].file \in Files /\ log[i].owner \in Owners
  <1>1. log[i] \in Record /\ Len(log) \in Nat
    BY ElementOfSeq, LenProperties DEF Logs
  <1>2. log # <<>>
    BY EmptySeq
  <1>3. QED
    BY <1>1, <1>2 DEF Record

LEMMA LogEnds ==
  ASSUME NEW log \in Logs
  PROVE  IF log = <<>> THEN Len(log) = 0
         ELSE /\ Len(log) \in Nat /\ Len(log) >= 1
              /\ 1 \in 1 .. Len(log) /\ Len(log) \in 1 .. Len(log)
              /\ log[1].seq \in Nat /\ log[Len(log)].seq \in Nat
  <1>1. CASE log = <<>>
    BY <1>1, EmptySeq
  <1>2. CASE log # <<>>
    <2>1. Len(log) \in Nat /\ Len(log) >= 1
      BY <1>2, EmptySeq DEF Logs
    <2>2. 1 \in 1 .. Len(log) /\ Len(log) \in 1 .. Len(log)
      BY <2>1
    <2>3. QED
      BY <1>2, <2>1, <2>2, LogElements
  <1>3. QED
    BY <1>1, <1>2

LEMMA LastSeqType ==
  ASSUME NEW snap \in Snapshot, NEW log \in Logs
  PROVE  /\ LastSeq(snap, log) \in Nat /\ snap.seq \in Nat
         /\ snap.seq <= LastSeq(snap, log)
         /\ log # <<>> => log[Len(log)].seq <= LastSeq(snap, log)
         /\ \/ LastSeq(snap, log) = snap.seq
            \/ log # <<>> /\ LastSeq(snap, log) = log[Len(log)].seq
  <1>1. snap.seq \in Nat
    BY DEF Snapshot
  <1>2. CASE log = <<>>
    <2>1. LastSeq(snap, log) = snap.seq
      BY <1>2, Zenon DEF LastSeq
    <2>2. QED
      BY <1>1, <1>2, <2>1
  <1>3. CASE log # <<>>
    <2> DEFINE last == log[Len(log)].seq
    <2>1. last \in Nat
      BY <1>3, LogEnds
    <2>2. LastSeq(snap, log) = IF last > snap.seq THEN last ELSE snap.seq
      BY <1>3 DEF LastSeq
    <2> HIDE DEF last
    <2>3. LastSeq(snap, log) \in {last, snap.seq} /\ LastSeq(snap, log) >= last
            /\ LastSeq(snap, log) >= snap.seq
      BY <1>1, <2>1, <2>2
    <2>4. /\ LastSeq(snap, log) \in Nat /\ snap.seq <= LastSeq(snap, log)
          /\ last <= LastSeq(snap, log)
      BY <1>1, <2>1, <2>3
    <2>5. QED
      BY <1>1, <1>3, <2>3, <2>4, Zenon DEF last
  <1>4. QED
    BY <1>2, <1>3

(* A history that agrees with another as far as the records of a journal   *)
(* reach explains the journal too; so do the snapshots it reaches.         *)
LEMMA OtherHistory ==
  ASSUME NEW maps \in Maps, NEW others \in Maps, NEW n \in Nat,
         n + 1 <= Len(maps), n + 1 <= Len(others),
         \A i \in 1 .. n + 1 : others[i] = maps[i]
  PROVE  /\ \A log \in Logs :
              Explains(maps, log) /\ (log # <<>> => log[Len(log)].seq <= n)
                => Explains(others, log)
         /\ \A snap \in Snapshot :
              Holds(maps, snap) /\ snap.seq <= n => Holds(others, snap)
  <1>0. Len(maps) \in Nat /\ Len(others) \in Nat
    BY LenProperties DEF Maps
  <1>1. ASSUME NEW log \in Logs, Explains(maps, log),
               log # <<>> => log[Len(log)].seq <= n,
               NEW i \in 1 .. Len(log)
        PROVE  /\ log[i].seq \in 1 .. Len(others) - 1
               /\ log[i].seq = log[1].seq + (i - 1)
               /\ others[log[i].seq + 1]
                    = [others[log[i].seq] EXCEPT ![log[i].file] = log[i].owner]
    <2>1. log # <<>> /\ Len(log) \in Nat /\ log[i].seq \in Nat
      BY LogElements
    <2>2. Len(log) \in 1 .. Len(log) /\ log[1].seq \in Nat
      BY <2>1, LogEnds
    <2>3. /\ log[i].seq \in 1 .. Len(maps) - 1
          /\ log[i].seq = log[1].seq + (i - 1)
          /\ log[Len(log)].seq = log[1].seq + (Len(log) - 1)
          /\ maps[log[i].seq + 1] = [maps[log[i].seq] EXCEPT ![log[i].file] = log[i].owner]
      BY <1>1, <2>2 DEF Explains
    <2>4. log[i].seq <= n
      BY <1>1, <2>1, <2>2, <2>3
    <2>5. log[i].seq \in 1 .. n + 1 /\ log[i].seq + 1 \in 1 .. n + 1
      BY <2>1, <2>3, <2>4
    <2>6. others[log[i].seq] = maps[log[i].seq] /\ others[log[i].seq + 1] = maps[log[i].seq + 1]
      BY <2>5
    <2>7. log[i].seq \in 1 .. Len(others) - 1
      BY <1>0, <2>3, <2>4
    <2>8. QED
      BY <2>3, <2>6, <2>7
  <1>2. ASSUME NEW snap \in Snapshot, Holds(maps, snap), snap.seq <= n
        PROVE  Holds(others, snap)
    BY <1>0, <1>2 DEF Holds, Snapshot
  <1>3. QED
    BY <1>1, <1>2 DEF Explains

(* The record after the last extends a journal and what it explains.       *)
LEMMA OneMore ==
  ASSUME NEW maps \in Maps, NEW log \in Logs, NEW r \in Record,
         Explains(maps, log), maps # <<>>, r.seq = Len(maps),
         log # <<>> => log[Len(log)].seq + 1 = r.seq,
         NEW others, others = Append(maps, [maps[Len(maps)] EXCEPT ![r.file] = r.owner])
  PROVE  Explains(others, Append(log, r))
  <1> DEFINE next == [maps[Len(maps)] EXCEPT ![r.file] = r.owner]
  <1>0. Len(maps) \in Nat \ {0} /\ Len(log) \in Nat /\ maps[Len(maps)] \in [Files -> Slot]
    BY EmptySeq, LenProperties, ElementOfSeq DEF Maps, Logs
  <1>1. next \in [Files -> Slot]
    BY <1>0, OwnersAreSlots DEF Record
  <1> HIDE DEF next
  <1>2. /\ others \in Maps /\ Len(others) = Len(maps) + 1 /\ others[Len(maps) + 1] = next
        /\ \A i \in 1 .. Len(maps) : others[i] = maps[i]
    BY <1>1, AppendProperties DEF Maps, next
  <1> DEFINE longer == Append(log, r)
  <1>3. /\ longer \in Logs /\ Len(longer) = Len(log) + 1 /\ longer[Len(log) + 1] = r
        /\ \A i \in 1 .. Len(log) : longer[i] = log[i]
    BY AppendProperties DEF Logs
  <1> HIDE DEF longer
  <1>4. ASSUME NEW i \in 1 .. Len(log)
        PROVE  /\ longer[i].seq \in 1 .. Len(others) - 1
               /\ longer[i].seq = longer[1].seq + (i - 1)
               /\ others[longer[i].seq + 1]
                    = [others[longer[i].seq] EXCEPT ![longer[i].file] = longer[i].owner]
    <2>1. longer[i] = log[i] /\ longer[1] = log[1]
      BY <1>0, <1>3
    <2>2. /\ log[i].seq \in 1 .. Len(maps) - 1
          /\ log[i].seq = log[1].seq + (i - 1)
          /\ maps[log[i].seq + 1] = [maps[log[i].seq] EXCEPT ![log[i].file] = log[i].owner]
      BY DEF Explains
    <2>3. log[i].seq \in 1 .. Len(maps) /\ log[i].seq + 1 \in 1 .. Len(maps)
      BY <1>0, <2>2
    <2>4. QED
      BY <1>0, <1>2, <2>1, <2>2, <2>3
  <1>5. /\ r.seq \in 1 .. Len(others) - 1
        /\ r.seq = longer[1].seq + Len(log)
        /\ others[r.seq + 1] = [others[r.seq] EXCEPT ![r.file] = r.owner]
    <2>1. r.seq = longer[1].seq + Len(log)
      <3>1. CASE log = <<>>
        BY <1>0, <1>3, <3>1, EmptySeq DEF Record
      <3>2. CASE log # <<>>
        <4>1. 1 \in 1 .. Len(log) /\ Len(log) \in 1 .. Len(log) /\ log[1].seq \in Nat
          BY <3>2, LogEnds
        <4>2. log[Len(log)].seq = log[1].seq + (Len(log) - 1)
          BY <4>1 DEF Explains
        <4>3. QED
          BY <1>0, <1>3, <3>2, <4>1, <4>2
      <3>3. QED
        BY <3>1, <3>2
    <2>2. others[r.seq + 1] = next /\ others[r.seq] = maps[Len(maps)]
      BY <1>0, <1>2
    <2>3. QED
      BY <1>0, <1>2, <2>1, <2>2 DEF next
  <1>6. ASSUME NEW i \in 1 .. Len(longer)
        PROVE  /\ longer[i].seq \in 1 .. Len(others) - 1
               /\ longer[i].seq = longer[1].seq + (i - 1)
               /\ others[longer[i].seq + 1]
                    = [others[longer[i].seq] EXCEPT ![longer[i].file] = longer[i].owner]
    <2>1. CASE i \in 1 .. Len(log)
      BY <1>4, <2>1
    <2>2. CASE i = Len(log) + 1
      <3>1. longer[i] = r /\ Len(log) = i - 1
        BY <1>0, <1>3, <2>2
      <3>2. QED
        BY <1>5, <3>1
    <2>3. i \in 1 .. Len(log) \/ i = Len(log) + 1
      BY <1>0, <1>3
    <2>4. QED
      BY <2>1, <2>2, <2>3
  <1>7. QED
    BY <1>6 DEF Explains, longer

LEMMA PrefixesAreExplained ==
  ASSUME NEW maps, NEW log \in Logs, NEW part \in Prefixes(log)
  PROVE  /\ part \in Logs
         /\ Continues(log, part)
         /\ Explains(maps, log) => Explains(maps, part)
         /\ part # <<>> => log # <<>> /\ part[1] = log[1]
  <1>1. Len(log) \in Nat
    BY LenProperties DEF Logs
  <1>2. PICK n \in 0 .. Len(log) : part = SubSeq(log, 1, n)
    BY DEF Prefixes
  <1>3. \A i \in 1 .. n : log[i] \in Record
    BY <1>1, ElementOfSeq DEF Logs
  <1>4. /\ part \in Logs /\ Len(part) = n
        /\ \A i \in 1 .. n : part[i] = log[i]
    BY <1>1, <1>2, <1>3, SubSeqProperties DEF Logs
  <1>5. part # <<>> => n >= 1
    BY <1>4, LogEnds
  <1>6. part # <<>> => log # <<>> /\ part[1] = log[1]
    BY <1>1, <1>4, <1>5, EmptySeq
  <1>7. ASSUME Explains(maps, log) PROVE Explains(maps, part)
    <2>1. \A i \in 1 .. n : i \in 1 .. Len(log) /\ 1 \in 1 .. n
      BY <1>1
    <2>2. QED
      BY <1>4, <1>7, <2>1 DEF Explains
  <1>8. QED
    BY <1>1, <1>4, <1>6, <1>7 DEF Continues

LEMMA ContinuedIsPrefix ==
  ASSUME NEW log \in Logs, NEW part \in Logs, Continues(log, part)
  PROVE  part \in Prefixes(log)
  <1>1. Len(log) \in Nat /\ Len(part) \in Nat /\ Len(part) <= Len(log)
    BY LenProperties DEF Logs, Continues
  <1>2. \A i \in 1 .. Len(part) : log[i] \in Record
    BY <1>1, ElementOfSeq DEF Logs
  <1> DEFINE cut == SubSeq(log, 1, Len(part))
  <1>3. /\ cut \in Logs /\ Len(cut) = Len(part)
        /\ \A i \in 1 .. Len(part) : cut[i] = log[i]
    BY <1>1, <1>2, SubSeqProperties DEF Logs
  <1> HIDE DEF cut
  <1>4. cut = part
    BY <1>3, SeqEqual DEF Continues, Logs
  <1>5. Len(part) \in 0 .. Len(log) /\ part = SubSeq(log, 1, Len(part))
    BY <1>1, <1>4 DEF cut
  <1>6. QED
    BY <1>5 DEF Prefixes
-----------------------------------------------------------------------------
(* What a step leaves alone.                                               *)

LEMMA Parity ==
  ASSUME NEW n \in Nat
  PROVE  /\ Odd(n) <=> ~Odd(n + 1)
         /\ Odd(n) <=> Odd(n + 2)
         /\ MakeOdd(n) = IF Odd(n) THEN n ELSE n + 1
         /\ MakeEven(n) = IF Odd(n) THEN n + 1 ELSE n
         /\ Odd(MakeOdd(n)) /\ ~Odd(MakeOdd(n) + 1) /\ ~Odd(MakeEven(n))
  <1>1. Odd(n) <=> ~Odd(n + 1)
    BY DEF Odd
  <1>2. Odd(n + 1) <=> ~Odd(n + 2)
    BY DEF Odd
  <1>3. QED
    BY <1>1, <1>2 DEF MakeOdd, MakeEven

LEMMA HistoryType ==
  ASSUME TypeInv
  PROVE  /\ history \in Maps /\ Len(history) \in Nat /\ Len(history) >= 1
         /\ Recorded \in Nat /\ Recorded + 1 = Len(history)
         /\ Latest = history[Recorded + 1] /\ Latest \in [Files -> Slot]
         /\ UpToDate => Shows
         /\ journal \in Logs /\ journalDisk \in Logs
         /\ snapshot \in Snapshot /\ snapshotDisk \in Snapshot
         /\ snapshot.seq \in Nat /\ snapshotDisk.seq \in Nat
         /\ {version, sequence, checkpoint, shown, promised, cursor} \subseteq Nat
         /\ cursor >= 1
         /\ table \in [Files -> Slot]
  <1>1. history \in Maps /\ history # <<>>
    BY DEF TypeInv, TypeOK, GhostsOK, Maps
  <1>2. Len(history) \in Nat /\ Len(history) >= 1
    BY <1>1, EmptySeq DEF Maps
  <1>3. Recorded \in Nat /\ Recorded + 1 = Len(history)
    BY <1>2 DEF Recorded
  <1>4. Latest = history[Recorded + 1]
    BY <1>3 DEF Latest
  <1>5. Latest \in [Files -> Slot]
    BY <1>1, <1>2, ElementOfSeq DEF Latest, Maps
  <1>6. UpToDate => Shows
    BY <1>3, <1>4 DEF UpToDate, Shows
  <1>7. /\ journal \in Logs /\ journalDisk \in Logs
        /\ snapshot \in Snapshot /\ snapshotDisk \in Snapshot
    BY DEF TypeInv, TypeOK, DiskOK, Logs
  <1>8. snapshot.seq \in Nat /\ snapshotDisk.seq \in Nat
    BY <1>7 DEF Snapshot
  <1>9. /\ {version, sequence, checkpoint, shown, promised, cursor} \subseteq Nat
        /\ cursor >= 1 /\ table \in [Files -> Slot]
    BY DEF TypeInv, TypeOK, SharedOK, GhostsOK, LocalsOK
  <1>10. QED
    BY <1>1, <1>2, <1>3, <1>4, <1>5, <1>6, <1>7, <1>8, <1>9

(* Every other process stays where it is.                                  *)
OnlyMoves(p) ==
  \A q \in Procs \ {p} :
    /\ pc'[q] = pc[q] /\ req'[q] = req[q] /\ result'[q] = result[q]
    /\ saved'[q] = saved[q] /\ got'[q] = got[q]

(* A table that changes does so under a version that is odd or has grown.  *)
Announced ==
  /\ version' >= version
  /\ failed => failed'
  /\ ~failed' /\ version' = version /\ ~Odd(version) => table' = table

ReaderLabels == {"readInode", "readUid", "readMode", "recheck"}

LEMMA ReadersUndisturbed ==
  ASSUME TypeInv, TypeInv', NEW q \in Procs, ReaderInv(q), Announced,
         pc'[q] = pc[q], req'[q] = req[q], saved'[q] = saved[q], got'[q] = got[q]
  PROVE  ReaderInv(q)'
  <1>1. CASE pc[q] \notin ReaderLabels
    BY <1>1 DEF ReaderInv, ReaderLabels
  <1>2. CASE pc[q] \in ReaderLabels
    <2>1. version \in Nat /\ version' \in Nat /\ saved[q] \in Nat
      BY DEF TypeInv, TypeOK, SharedOK, LocalsOK
    <2>2. ~Odd(saved'[q]) /\ saved'[q] <= version'
      BY <1>2, <2>1 DEF ReaderInv, Announced, ReaderLabels
    <2>3. ASSUME ~failed', saved'[q] = version'
          PROVE  ~failed /\ saved[q] = version /\ table' = table
      BY <1>2, <2>1, <2>3 DEF ReaderInv, Announced, ReaderLabels
    <2>4. QED
      BY <1>2, <2>2, <2>3 DEF ReaderInv, ReaderLabels
  <1>3. QED
    BY <1>1, <1>2

LEMMA FilesUndisturbed ==
  ASSUME FilesInv, UNCHANGED <<journal, journalDisk, snapshot, snapshotDisk, history>>
  PROVE  FilesInv' /\ DurableSeq' = DurableSeq /\ Recorded' = Recorded /\ Latest' = Latest
  BY DEF FilesInv, Meets, LastSeq, Recorded, DurableSeq, Latest

LEMMA PromiseUndisturbed ==
  ASSUME PromiseInv, UNCHANGED <<journal, journalDisk, snapshot, snapshotDisk, promised>>
  PROVE  PromiseInv'
  BY DEF PromiseInv, Continues, DurableSeq, LastSeq

(* The sets of labels are disjoint.                                        *)
LEMMA AtOneLabel ==
  ASSUME NEW p \in Procs
  PROVE  /\ pc'[p] \in ReplayLabels /\ ReplayInv(p)' => WorkInv(p)'
         /\ pc'[p] \in SetLabels /\ SetInv(p)' => WorkInv(p)'
         /\ pc'[p] \in CheckpointLabels /\ CheckpointInv(p)' => WorkInv(p)'
         /\ pc'[p] \in {"unlock", "release"} /\ LeavingInv(p)' => WorkInv(p)'
         /\ pc'[p] \notin Critical => WorkInv(p)'
         /\ pc'[p] \notin ReaderLabels => ReaderInv(p)'
  <1> USE DEF ReplayLabels, SetLabels, CheckpointLabels
  <1>1. pc'[p] \in ReplayLabels /\ ReplayInv(p)' => WorkInv(p)'
    BY DEF WorkInv
  <1>2. pc'[p] \in SetLabels /\ SetInv(p)' => WorkInv(p)'
    BY DEF WorkInv
  <1>3. pc'[p] \in CheckpointLabels /\ CheckpointInv(p)' => WorkInv(p)'
    BY DEF WorkInv
  <1>4. pc'[p] \in {"unlock", "release"} /\ LeavingInv(p)' => WorkInv(p)'
    BY DEF WorkInv
  <1>5. pc'[p] \notin Critical => WorkInv(p)'
    BY DEF WorkInv, Critical
  <1>6. pc'[p] \notin ReaderLabels => ReaderInv(p)'
    BY DEF ReaderInv, ReaderLabels
  <1>7. QED
    BY <1>1, <1>2, <1>3, <1>4, <1>5, <1>6

LEMMA HereNow ==
  ASSUME RecoveryInv, NEW p \in Procs
  PROVE  /\ pc[p] \in ReplayLabels => ReplayInv(p)
         /\ pc[p] \in SetLabels => SetInv(p)
         /\ pc[p] \in CheckpointLabels => CheckpointInv(p)
         /\ pc[p] \in {"unlock", "release"} => LeavingInv(p)
  BY DEF RecoveryInv, WorkInv

(* It is enough to look at the process that moves when it alone can be     *)
(* writing, and when it changes nothing others share.                      *)
LEMMA HolderMoves ==
  ASSUME TypeInv, TypeInv', RecoveryInv, NEW p \in Procs,
         \A q \in Procs \ {p} : pc[q] \notin Critical,
         OnlyMoves(p), Announced, pc'[p] \notin ReaderLabels,
         FilesInv', PromiseInv', GroupInv', WorkInv(p)'
  PROVE  RecoveryInv'
  <1>1. ASSUME NEW q \in Procs \ {p} PROVE WorkInv(q)' /\ ReaderInv(q)'
    <2>1. WorkInv(q)'
      BY AtOneLabel DEF OnlyMoves
    <2>2. ReaderInv(q)'
      BY ReadersUndisturbed DEF OnlyMoves, RecoveryInv
    <2>3. QED
      BY <2>1, <2>2
  <1>2. ReaderInv(p)'
    BY AtOneLabel
  <1>3. QED
    BY <1>1, <1>2 DEF RecoveryInv

LEMMA OutsiderMoves ==
  ASSUME TypeInv, TypeInv', RecoveryInv, NEW p \in Procs,
         OnlyMoves(p), pc'[p] \notin Critical, ReaderInv(p)',
         UNCHANGED <<shared, disk, session, cursor, ghosts>>
  PROVE  RecoveryInv'
  <1>1. version' = version /\ table' = table /\ failed' = failed /\ version \in Nat
    BY HistoryType DEF shared
  <1>2. Announced
    BY <1>1 DEF Announced
  <1>3. FilesInv' /\ PromiseInv' /\ Recorded' = Recorded /\ Latest' = Latest
    BY FilesUndisturbed, PromiseUndisturbed DEF RecoveryInv, disk, ghosts
  <1>4. GroupInv'
    BY <1>3 DEF RecoveryInv, GroupInv, UpToDate, Shows, shared, disk, ghosts
  <1>5. ASSUME NEW q \in Procs \ {p} PROVE WorkInv(q)' /\ ReaderInv(q)'
    <2> USE DEF OnlyMoves, shared, disk, ghosts
    <2>1. ReplayInv(q) => ReplayInv(q)'
      BY <1>3 DEF ReplayInv, UpToDate, Shows
    <2>2. SetInv(q) => SetInv(q)'
      BY <1>3 DEF SetInv, UpToDate, Shows
    <2>3. CheckpointInv(q) => CheckpointInv(q)'
      BY <1>3 DEF CheckpointInv, UpToDate, Shows
    <2>4. LeavingInv(q) => LeavingInv(q)'
      BY <1>3 DEF LeavingInv, UpToDate, Shows
    <2>5. WorkInv(q) /\ pc'[q] = pc[q]
      BY DEF RecoveryInv
    <2>6. WorkInv(q)'
      BY <2>1, <2>2, <2>3, <2>4, <2>5 DEF WorkInv
    <2>7. ReaderInv(q)'
      BY <1>2, ReadersUndisturbed DEF RecoveryInv
    <2>8. QED
      BY <2>6, <2>7
  <1>6. WorkInv(p)'
    BY AtOneLabel
  <1>7. QED
    BY <1>3, <1>4, <1>5, <1>6 DEF RecoveryInv

LEMMA HoldersAreAlone ==
  ASSUME TypeInv, LockInv, NEW p \in Procs, pc[p] \in Critical
  PROVE  /\ lock = p
         /\ \A q \in Procs \ {p} : pc[q] \notin Critical
         /\ session \in {"opening", "up"}
  <1>1. lock = p /\ \A q \in Procs \ {p} : pc[q] \notin Critical
    BY DEF LockInv, WriterExclusion
  <1>2. pc[p] # "idle"
    BY DEF Critical, ReplayLabels, SetLabels, CheckpointLabels
  <1>3. QED
    BY <1>1, <1>2 DEF LockInv, SessionMatchesRequests, TypeInv, TypeOK, ControlOK
-----------------------------------------------------------------------------
(* Open, Lock and Unlock                                                   *)

LEMMA StepOpenFirst ==
  ASSUME TypeInv, TypeInv', LockInv, RecoveryInv, NEW p \in Procs, OpenFirst(p)
  PROVE  RecoveryInv'
  <1>1. /\ \A q \in Procs : pc[q] = "idle"
        /\ session' = "opening" /\ ~failed' /\ ~dirty'
        /\ pc' = [pc EXCEPT ![p] = "replay"]
        /\ UNCHANGED <<disk, ghosts>>
    BY DEF OpenFirst, Goto, LockInv, SessionMatchesRequests
  <1>2. pc'[p] = "replay" /\ \A q \in Procs \ {p} : pc'[q] = "idle"
    BY <1>1 DEF TypeInv, TypeOK, ControlOK
  <1>3. FilesInv' /\ PromiseInv' /\ Recorded' = Recorded
    BY <1>1, FilesUndisturbed, PromiseUndisturbed DEF RecoveryInv, disk, ghosts
  <1>4. GroupInv'
    BY <1>1, <1>3 DEF RecoveryInv, GroupInv, ghosts
  <1>5. ReplayInv(p)'
    BY <1>1, <1>2 DEF ReplayInv
  <1>6. \A q \in Procs : WorkInv(q)' /\ ReaderInv(q)'
    BY <1>2, <1>5, AtOneLabel DEF ReplayLabels, Critical, SetLabels, CheckpointLabels,
       ReaderLabels
  <1>7. QED
    BY <1>3, <1>4, <1>6 DEF RecoveryInv

LEMMA StepStart ==
  ASSUME TypeInv, TypeInv', LockInv, RecoveryInv, NEW p \in Procs,
         StartSet(p) \/ StartLookup(p)
  PROVE  RecoveryInv'
  <1>1. \E l \in {"lock", "lookup"} : pc' = [pc EXCEPT ![p] = l]
    BY DEF StartSet, StartLookup, Goto
  <1>2. pc'[p] \in {"lock", "lookup"}
    BY <1>1 DEF TypeInv, TypeOK, ControlOK
  <1>3. OnlyMoves(p)
    <2>1. \E r : req' = [req EXCEPT ![p] = r]
      BY DEF StartSet, StartLookup
    <2>2. UNCHANGED <<saved, got, result>>
      BY DEF StartSet, StartLookup, locals
    <2>3. QED
      BY <1>1, <2>1, <2>2 DEF OnlyMoves, TypeInv, TypeOK, ControlOK
  <1>4. UNCHANGED <<shared, disk, session, cursor, ghosts>>
    BY DEF StartSet, StartLookup, locals
  <1>5. pc'[p] \notin Critical /\ ReaderInv(p)'
    BY <1>2, AtOneLabel DEF Critical, ReplayLabels, SetLabels, CheckpointLabels, ReaderLabels
  <1>6. QED
    BY <1>3, <1>4, <1>5, OutsiderMoves

LEMMA StepAcquireLock ==
  ASSUME TypeInv, TypeInv', LockInv, RecoveryInv, NEW p \in Procs, AcquireLock(p)
  PROVE  RecoveryInv'
  <1>1. /\ pc[p] = "lock" /\ lock = NoProc
        /\ UNCHANGED <<shared, disk, session, req, locals, ghosts>>
    BY DEF AcquireLock
  <1>2. \A q \in Procs \ {p} : pc[q] \notin Critical
    BY <1>1, ProcsAssumption DEF LockInv, WriterExclusion
  <1>3. session = "up" /\ req[p].op \in {"set", "lookup"}
    BY <1>1 DEF LockInv, SessionMatchesRequests, TypeInv, TypeOK, ControlOK,
       RequestMatchesLabel
  <1>4. OnlyMoves(p) /\ Announced
    <2>1. Announced
      BY <1>1, HistoryType DEF Announced, shared
    <2>2. \A q \in Procs \ {p} : pc'[q] = pc[q] /\ result'[q] = result[q]
      <3>1. \E l : pc' = [pc EXCEPT ![p] = l]
        BY DEF AcquireLock, Goto
      <3>2. result' = result \/ \E r : result' = [result EXCEPT ![p] = r]
        BY DEF AcquireLock, Return
      <3>3. QED
        BY <3>1, <3>2 DEF TypeInv, TypeOK, ControlOK, LocalsOK
    <2>3. QED
      BY <1>1, <2>1, <2>2 DEF OnlyMoves, locals
  <1>5. /\ FilesInv' /\ PromiseInv'
        /\ Recorded' = Recorded /\ Latest' = Latest
    BY <1>1, FilesUndisturbed, PromiseUndisturbed DEF RecoveryInv, disk, ghosts
  <1>6. GroupInv'
    BY <1>1, <1>5 DEF RecoveryInv, GroupInv, UpToDate, Shows, shared, disk, ghosts
  <1>7. CASE dirty
    <2>1. pc'[p] = "replay"
      BY <1>7 DEF AcquireLock, Goto, TypeInv, TypeOK, ControlOK
    <2>2. ReplayInv(p)'
      BY <1>1, <1>7, <2>1 DEF ReplayInv, shared
    <2>3. WorkInv(p)' /\ pc'[p] \notin ReaderLabels
      BY <2>1, <2>2, AtOneLabel DEF ReplayLabels, ReaderLabels
    <2>4. QED
      BY <1>2, <1>4, <1>5, <1>6, <2>3, HolderMoves
  <1>8. CASE ~dirty /\ failed
    <2>1. pc'[p] = "unlock"
      BY <1>8 DEF AcquireLock, Goto, TypeInv, TypeOK, ControlOK
    <2>2. LeavingInv(p)'
      BY <1>1, <1>3, <1>8 DEF LeavingInv, shared
    <2>3. WorkInv(p)' /\ pc'[p] \notin ReaderLabels
      BY <2>1, <2>2, AtOneLabel DEF ReaderLabels
    <2>4. QED
      BY <1>2, <1>4, <1>5, <1>6, <2>3, HolderMoves
  <1>9. CASE ~dirty /\ ~failed
    <2>1. UpToDate' /\ ~torn' /\ ~failed' /\ ~dirty'
      BY <1>1, <1>3, <1>5, <1>9 DEF RecoveryInv, GroupInv, UpToDate, shared, disk
    <2>2. WorkInv(p)' /\ pc'[p] \notin ReaderLabels
      <3>1. CASE req[p].op = "set"
        <4>1. pc'[p] = "compare"
          BY <1>9, <3>1 DEF AcquireLock, Locked, Goto, TypeInv, TypeOK, ControlOK
        <4>2. SetInv(p)'
          BY <2>1, <4>1 DEF SetInv, PutLabels
        <4>3. QED
          BY <4>1, <4>2, AtOneLabel DEF SetLabels, ReaderLabels
      <3>2. CASE req[p].op = "lookup"
        <4>1. pc'[p] = "unlock"
          BY <1>9, <3>2 DEF AcquireLock, Locked, Goto, TypeInv, TypeOK, ControlOK
        <4>2. LeavingInv(p)'
          <5>1. Shows'
            BY <2>1, <1>5, <1>1, HistoryType DEF UpToDate, Shows, ghosts, shared
          <5>2. QED
            BY <1>1, <1>3, <5>1 DEF LeavingInv
        <4>3. QED
          BY <4>1, <4>2, AtOneLabel DEF ReaderLabels
      <3>3. QED
        BY <1>3, <3>1, <3>2
    <2>3. QED
      BY <1>2, <1>4, <1>5, <1>6, <2>2, HolderMoves
  <1>10. QED
    BY <1>7, <1>8, <1>9

LEMMA StepUnlockVersion ==
  ASSUME TypeInv, TypeInv', LockInv, RecoveryInv, NEW p \in Procs, UnlockVersion(p)
  PROVE  RecoveryInv'
  <1>1. /\ pc[p] = "unlock" /\ pc[p] \in Critical
        /\ version' = MakeEven(version)
        /\ shown' = IF Odd(version) /\ ~failed /\ session = "up" THEN sequence ELSE shown
        /\ UNCHANGED <<table, sequence, checkpoint, dirty, failed, disk, session,
                       req, locals, result, history, promised>>
    BY DEF UnlockVersion, Critical
  <1>2. \A q \in Procs \ {p} : pc[q] \notin Critical
    BY <1>1, HoldersAreAlone
  <1>3. pc'[p] = "release" /\ OnlyMoves(p)
    BY <1>1 DEF UnlockVersion, Goto, OnlyMoves, locals, TypeInv, TypeOK, ControlOK
  <1>4. version' >= version /\ ~Odd(version') /\ (~Odd(version) => version' = version)
    <2>1. version \in Nat
      BY HistoryType
    <2>2. QED
      BY <1>1, <2>1, Parity
  <1>5. Announced
    BY <1>1, <1>4 DEF Announced
  <1>6. /\ FilesInv' /\ PromiseInv'
        /\ Recorded' = Recorded /\ Latest' = Latest
    BY <1>1, FilesUndisturbed, PromiseUndisturbed DEF RecoveryInv, disk
  <1>7. LeavingInv(p)
    BY <1>1, HereNow
  <1>8. GroupInv'
    BY <1>1, <1>4, <1>6, <1>7 DEF RecoveryInv, GroupInv, LeavingInv, UpToDate, Shows, disk
  <1>9. LeavingInv(p)'
    BY <1>1, <1>6, <1>7 DEF LeavingInv, UpToDate, Shows, disk
  <1>10. WorkInv(p)' /\ pc'[p] \notin ReaderLabels
    BY <1>3, <1>9, AtOneLabel DEF ReaderLabels
  <1>11. QED
    BY <1>2, <1>3, <1>5, <1>6, <1>8, <1>10, HolderMoves

LEMMA StepReleaseLock ==
  ASSUME TypeInv, TypeInv', LockInv, RecoveryInv, NEW p \in Procs, ReleaseLock(p)
  PROVE  RecoveryInv'
  <1>1. /\ pc[p] = "release" /\ pc[p] \in Critical
        /\ UNCHANGED <<shared, disk, cursor, ghosts>>
        /\ session' = IF req[p].op # "open" THEN session
                      ELSE IF result[p] = "ok" THEN "up" ELSE "down"
    BY DEF ReleaseLock, Critical
  <1>2. /\ \A q \in Procs \ {p} : pc[q] \notin Critical
        /\ req[p].op = "open" <=> session = "opening"
    BY <1>1, HoldersAreAlone DEF LockInv, SessionMatchesRequests
  <1>3. pc'[p] \in {"lookup", "idle"}
    BY DEF ReleaseLock, Goto, TypeInv, TypeOK, ControlOK
  <1>4. OnlyMoves(p)
    BY DEF ReleaseLock, Goto, ReturnToCaller, OnlyMoves, TypeInv, TypeOK, ControlOK,
       LocalsOK
  <1>5. Announced
    BY <1>1, HistoryType DEF Announced, shared
  <1>6. /\ FilesInv' /\ PromiseInv'
        /\ Recorded' = Recorded /\ Latest' = Latest
    BY <1>1, FilesUndisturbed, PromiseUndisturbed DEF RecoveryInv, disk, ghosts
  <1>7. LeavingInv(p)
    BY <1>1, HereNow
  <1>8. GroupInv'
    <2> USE <1>1, <1>6 DEF GroupInv, UpToDate, Shows, shared, disk, ghosts
    <2>1. CASE session' = session
      BY <2>1 DEF RecoveryInv
    <2>2. CASE session' = "down"
      BY <2>2 DEF RecoveryInv
    <2>3. CASE session = "opening" /\ session' = "up"
      <3>1. ~failed /\ ~dirty /\ ~torn /\ UpToDate /\ Shows
            /\ journal = <<>> /\ snapshotDisk.seq = Recorded
        BY <1>2, <1>7, <2>3, HistoryType DEF RecoveryInv, LeavingInv
      <3>2. ~Odd(version) => shown = sequence
        BY <1>2, <1>7, <2>3 DEF LeavingInv
      <3>3. QED
        BY <2>3, <3>1, <3>2 DEF RecoveryInv
    <2>4. QED
      BY <1>2, <2>1, <2>2, <2>3
  <1>9. WorkInv(p)' /\ pc'[p] \notin ReaderLabels
    BY <1>3, AtOneLabel DEF Critical, ReplayLabels, SetLabels, CheckpointLabels, ReaderLabels
  <1>10. QED
    BY <1>2, <1>4, <1>5, <1>6, <1>8, <1>9, HolderMoves
-----------------------------------------------------------------------------
(* Replay                                                                  *)

LEMMA StepReplayBegin ==
  ASSUME TypeInv, TypeInv', LockInv, RecoveryInv, NEW p \in Procs, ReplayBegin(p)
  PROVE  RecoveryInv'
  <1>1. /\ pc[p] = "replay" /\ pc[p] \in ReplayLabels /\ pc[p] \in Critical
        /\ version' = MakeOdd(version)
        /\ UNCHANGED <<table, sequence, checkpoint, dirty, failed, disk, session,
                       req, locals, result, ghosts>>
    BY DEF ReplayBegin, Critical, ReplayLabels
  <1>2. \A q \in Procs \ {p} : pc[q] \notin Critical
    BY <1>1, HoldersAreAlone
  <1>3. pc'[p] = "replayZero" /\ OnlyMoves(p)
    BY <1>1 DEF ReplayBegin, Goto, OnlyMoves, locals, TypeInv, TypeOK, ControlOK
  <1>4. version' >= version /\ Odd(version') /\ (Odd(version) => version' = version)
    <2>1. version \in Nat
      BY HistoryType
    <2>2. QED
      BY <1>1, <2>1, Parity
  <1>5. Announced
    BY <1>1, <1>4 DEF Announced
  <1>6. /\ FilesInv' /\ PromiseInv'
        /\ Recorded' = Recorded /\ Latest' = Latest
    BY <1>1, FilesUndisturbed, PromiseUndisturbed DEF RecoveryInv, disk, ghosts
  <1>7. GroupInv'
    BY <1>1, <1>4, <1>6 DEF RecoveryInv, GroupInv, UpToDate, disk, ghosts
  <1>8. ReplayInv(p)'
    BY <1>1, <1>3, <1>4, HereNow DEF ReplayInv
  <1>9. WorkInv(p)' /\ pc'[p] \notin ReaderLabels
    BY <1>3, <1>8, AtOneLabel DEF ReplayLabels, ReaderLabels
  <1>10. QED
    BY <1>2, <1>3, <1>5, <1>6, <1>7, <1>9, HolderMoves

(* While a recovery rewrites the table its version is odd, and the store   *)
(* is dirty unless the recovery is the first opener's.                     *)
LEMMA RewritingKeepsGroup ==
  ASSUME TypeInv, RecoveryInv, NEW p \in Procs, Odd(version),
         session = "up" => dirty,
         UNCHANGED <<version, dirty, failed, disk, session, ghosts>>
  PROVE  Announced /\ FilesInv' /\ PromiseInv' /\ GroupInv'
           /\ Recorded' = Recorded /\ Latest' = Latest
  <1>1. version' = version /\ version \in Nat
    BY HistoryType
  <1>2. Announced
    BY <1>1 DEF Announced
  <1>3. /\ FilesInv' /\ PromiseInv'
        /\ Recorded' = Recorded /\ Latest' = Latest
    BY FilesUndisturbed, PromiseUndisturbed DEF RecoveryInv, disk, ghosts
  <1>4. GroupInv'
    BY <1>3 DEF RecoveryInv, GroupInv, disk, ghosts
  <1>5. QED
    BY <1>2, <1>3, <1>4

LEMMA StepReplayZero ==
  ASSUME TypeInv, TypeInv', LockInv, RecoveryInv, NEW p \in Procs, ReplayZero(p)
  PROVE  RecoveryInv'
  <1>1. /\ pc[p] = "replayZero" /\ pc[p] \in ReplayLabels /\ pc[p] \in Critical
        /\ UNCHANGED <<version, dirty, failed, disk, session, req, locals,
                       result, ghosts>>
    BY DEF ReplayZero, Critical, ReplayLabels
  <1>2. \A q \in Procs \ {p} : pc[q] \notin Critical
    BY <1>1, HoldersAreAlone
  <1>3. pc'[p] = "replaySnapshot" /\ OnlyMoves(p)
    BY <1>1 DEF ReplayZero, Goto, OnlyMoves, locals, TypeInv, TypeOK, ControlOK
  <1>4. Odd(version) /\ (session = "up" => dirty)
    BY <1>1, HereNow DEF ReplayInv
  <1>5. Announced /\ FilesInv' /\ PromiseInv' /\ GroupInv'
    BY <1>1, <1>4, RewritingKeepsGroup
  <1>6. ReplayInv(p)'
    BY <1>1, <1>3, <1>4 DEF ReplayInv
  <1>7. WorkInv(p)' /\ pc'[p] \notin ReaderLabels
    BY <1>3, <1>6, AtOneLabel DEF ReplayLabels, ReaderLabels
  <1>8. QED
    BY <1>2, <1>3, <1>5, <1>7, HolderMoves

LEMMA StepReplaySnapshot ==
  ASSUME TypeInv, TypeInv', LockInv, RecoveryInv, NEW p \in Procs, ReplaySnapshot(p)
  PROVE  RecoveryInv'
  <1>1. /\ pc[p] = "replaySnapshot" /\ pc[p] \in ReplayLabels /\ pc[p] \in Critical
        /\ table' = snapshot.map
        /\ sequence' = snapshot.seq /\ checkpoint' = snapshot.seq /\ cursor' = 1
        /\ UNCHANGED <<version, dirty, failed, disk, session, req, saved, got,
                       result, ghosts>>
    BY DEF ReplaySnapshot, Critical, ReplayLabels
  <1>2. \A q \in Procs \ {p} : pc[q] \notin Critical
    BY <1>1, HoldersAreAlone
  <1>3. pc'[p] = "replayJournal" /\ OnlyMoves(p)
    BY <1>1 DEF ReplaySnapshot, Goto, OnlyMoves, TypeInv, TypeOK, ControlOK
  <1>4. Odd(version) /\ (session = "up" => dirty)
    BY <1>1, HereNow DEF ReplayInv
  <1>5. Announced /\ FilesInv' /\ PromiseInv' /\ GroupInv'
          /\ Recorded' = Recorded /\ Latest' = Latest
    BY <1>1, <1>4, RewritingKeepsGroup
  <1>6. snapshot.seq <= Recorded /\ snapshot.map = history[snapshot.seq + 1]
    BY DEF RecoveryInv, FilesInv, Holds, Recorded
  <1>7. Shows'
    BY <1>1, <1>5, <1>6 DEF Shows, ghosts
  <1>8. Len(journal) \in Nat /\ journal' = journal /\ snapshot' = snapshot
    BY <1>1, HistoryType, LenProperties DEF Logs, disk
  <1>9. ReplayInv(p)'
    BY <1>1, <1>3, <1>4, <1>7, <1>8 DEF ReplayInv
  <1>10. WorkInv(p)' /\ pc'[p] \notin ReaderLabels
    BY <1>3, <1>9, AtOneLabel DEF ReplayLabels, ReaderLabels
  <1>11. QED
    BY <1>2, <1>3, <1>5, <1>10, HolderMoves

(* What a recovery meets at its place in the journal: a record the         *)
(* snapshot holds, or the one after the last that it has applied.          *)
LEMMA NextInJournal ==
  ASSUME TypeInv, RecoveryInv, NEW p \in Procs,
         pc[p] = "replayJournal", cursor <= Len(journal)
  PROVE  /\ journal[cursor] \in Record
         /\ journal[cursor].seq <= Recorded
         /\ history[journal[cursor].seq + 1]
              = [history[journal[cursor].seq] EXCEPT ![journal[cursor].file]
                                                       = journal[cursor].owner]
         /\ journal[cursor].seq > snapshot.seq => journal[cursor].seq = sequence + 1
         /\ journal[cursor].seq <= snapshot.seq => sequence = snapshot.seq
  <1> DEFINE r == journal[cursor]
  <1>1. ReplayInv(p) /\ FilesInv
    BY HereNow DEF ReplayLabels, RecoveryInv
  <1>2. /\ cursor \in 1 .. Len(journal) /\ 1 \in 1 .. Len(journal)
        /\ journal # <<>> /\ cursor \in Nat
    BY HistoryType, LogEnds, LenProperties, LogElements DEF Logs
  <1>3. /\ r \in Record /\ r.seq \in Nat
        /\ journal[1].seq \in Nat
    BY <1>2, HistoryType, LogElements
  <1>4. /\ r.seq \in 1 .. Len(history) - 1
        /\ r.seq = journal[1].seq + (cursor - 1)
        /\ history[r.seq + 1] = [history[r.seq] EXCEPT ![r.file] = r.owner]
    BY <1>1, <1>2 DEF FilesInv, Explains
  <1>5. journal[1].seq <= snapshot.seq + 1
    <2>1. journal[1].seq <= snapshotDisk.seq + 1 /\ snapshotDisk.seq <= snapshot.seq
      BY <1>1, <1>2 DEF FilesInv, Meets
    <2>2. snapshotDisk.seq \in Nat /\ snapshot.seq \in Nat
      BY HistoryType
    <2>3. QED
      BY <1>3, <2>1, <2>2
  <1>6. sequence = IF cursor > 1 /\ journal[cursor - 1].seq > snapshot.seq
                   THEN journal[cursor - 1].seq ELSE snapshot.seq
    BY <1>1 DEF ReplayInv
  <1>7. cursor > 1 => journal[cursor - 1].seq = r.seq - 1
    <2>1. ASSUME cursor > 1 PROVE cursor - 1 \in 1 .. Len(journal)
      BY <1>2, <2>1
    <2>2. ASSUME cursor > 1
          PROVE  journal[cursor - 1].seq = journal[1].seq + ((cursor - 1) - 1)
      BY <1>1, <2>1, <2>2 DEF FilesInv, Explains
    <2>3. ASSUME cursor > 1, NEW first \in Nat, first = journal[1].seq
          PROVE  journal[cursor - 1].seq = r.seq - 1
      BY <1>2, <1>4, <2>2, <2>3
    <2>4. QED
      BY <1>3, <2>3
  <1> HIDE DEF r
  <1>8. snapshot.seq \in Nat
    BY HistoryType
  <1>9. (r.seq > snapshot.seq => r.seq = sequence + 1)
          /\ (r.seq <= snapshot.seq => sequence = snapshot.seq)
    <2>1. CASE cursor = 1
      BY <1>3, <1>4, <1>5, <1>6, <1>8, <2>1
    <2>2. CASE cursor > 1
      BY <1>3, <1>6, <1>7, <1>8, <2>2
    <2>3. QED
      BY <1>2, <2>1, <2>2
  <1>10. QED
    BY <1>3, <1>4, <1>9 DEF r, Recorded

LEMMA StepReplayRecord ==
  ASSUME TypeInv, TypeInv', LockInv, RecoveryInv, NEW p \in Procs, ReplayRecord(p)
  PROVE  RecoveryInv'
  <1> DEFINE r == journal[cursor]
  <1>1. /\ pc[p] = "replayJournal" /\ pc[p] \in ReplayLabels /\ pc[p] \in Critical
        /\ cursor <= Len(journal)
        /\ table' = IF r.seq > checkpoint THEN [table EXCEPT ![r.file] = r.owner]
                                          ELSE table
        /\ sequence' = IF r.seq > checkpoint THEN r.seq ELSE sequence
        /\ cursor' = cursor + 1
        /\ UNCHANGED <<version, checkpoint, dirty, failed, disk, session, pc, req,
                       saved, got, result, ghosts>>
    BY DEF ReplayRecord, Critical, ReplayLabels
  <1>2. \A q \in Procs \ {p} : pc[q] \notin Critical
    BY <1>1, HoldersAreAlone
  <1>3. pc'[p] = "replayJournal" /\ OnlyMoves(p)
    BY <1>1 DEF OnlyMoves
  <1>4. ReplayInv(p)
    BY <1>1, HereNow
  <1>5. Odd(version) /\ (session = "up" => dirty) /\ checkpoint = snapshot.seq
          /\ cursor <= Len(journal) + 1 /\ Shows
    BY <1>1, <1>4 DEF ReplayInv
  <1>6. Announced /\ FilesInv' /\ PromiseInv' /\ GroupInv'
          /\ Recorded' = Recorded /\ Latest' = Latest
    BY <1>1, <1>5, RewritingKeepsGroup
  <1>7. /\ r \in Record /\ r.seq <= Recorded
        /\ history[r.seq + 1] = [history[r.seq] EXCEPT ![r.file] = r.owner]
        /\ r.seq > snapshot.seq => r.seq = sequence + 1
        /\ r.seq <= snapshot.seq => sequence = snapshot.seq
    BY <1>1, NextInJournal
  <1> HIDE DEF r
  <1>8. r.seq \in Nat /\ snapshot.seq \in Nat /\ cursor \in Nat /\ cursor >= 1
          /\ Len(journal) \in Nat
    BY <1>7, HistoryType, LenProperties DEF Record, Logs
  <1>9. Shows' /\ sequence' = IF r.seq > snapshot.seq THEN r.seq ELSE snapshot.seq
    <2>1. CASE r.seq > snapshot.seq
      <3>1. table = history[r.seq]
        BY <1>5, <1>7, <1>8, <2>1, HistoryType DEF Shows
      <3>2. table' = history[r.seq + 1] /\ sequence' = r.seq
        BY <1>1, <1>5, <1>7, <2>1, <3>1
      <3>3. QED
        BY <1>1, <1>6, <1>7, <2>1, <3>2 DEF Shows, ghosts
    <2>2. CASE r.seq <= snapshot.seq
      <3>1. table' = table /\ sequence' = sequence /\ sequence = snapshot.seq
        BY <1>1, <1>5, <1>7, <1>8, <2>2
      <3>2. QED
        BY <1>1, <1>5, <1>6, <1>8, <2>2, <3>1 DEF Shows, ghosts
    <2>3. QED
      BY <1>8, <2>1, <2>2
  <1>10. cursor' > 1 /\ cursor' - 1 = cursor /\ cursor' <= Len(journal) + 1
    BY <1>1, <1>8
  <1>11. journal'[cursor' - 1] = r /\ journal' = journal /\ snapshot' = snapshot
    BY <1>1, <1>10 DEF disk, r
  <1>12. ReplayInv(p)'
    BY <1>1, <1>3, <1>5, <1>9, <1>10, <1>11 DEF ReplayInv
  <1>13. WorkInv(p)' /\ pc'[p] \notin ReaderLabels
    BY <1>3, <1>12, AtOneLabel DEF ReplayLabels, ReaderLabels
  <1>14. QED
    BY <1>2, <1>3, <1>6, <1>13, HolderMoves

LEMMA StepReplayFinish ==
  ASSUME TypeInv, TypeInv', LockInv, RecoveryInv, NEW p \in Procs, ReplayFinish(p)
  PROVE  RecoveryInv'
  <1>1. /\ pc[p] = "replayJournal" /\ pc[p] \in ReplayLabels /\ pc[p] \in Critical
        /\ cursor > Len(journal) /\ ~torn' /\ ~dirty'
        /\ UNCHANGED <<version, table, sequence, checkpoint, failed, journal,
                       journalDisk, snapshot, snapshotDisk, session, req, locals,
                       result, ghosts>>
    BY DEF ReplayFinish, Critical, ReplayLabels
  <1>2. \A q \in Procs \ {p} : pc[q] \notin Critical
    BY <1>1, HoldersAreAlone
  <1>3. pc'[p] = "replayPublish" /\ OnlyMoves(p)
    BY <1>1 DEF ReplayFinish, Goto, OnlyMoves, locals, TypeInv, TypeOK, ControlOK
  <1>4. ReplayInv(p)
    BY <1>1, HereNow
  <1>5. Announced
    BY <1>1, HistoryType DEF Announced
  <1>6. /\ FilesInv' /\ PromiseInv'
        /\ Recorded' = Recorded /\ Latest' = Latest
    BY <1>1, FilesUndisturbed, PromiseUndisturbed DEF RecoveryInv, ghosts
  <1>7. UpToDate
    <2>1. cursor = Len(journal) + 1 /\ Len(journal) \in Nat
      BY <1>1, <1>4, HistoryType, LenProperties DEF ReplayInv, Logs
    <2>2. sequence = IF Len(journal) >= 1 /\ journal[Len(journal)].seq > snapshot.seq
                     THEN journal[Len(journal)].seq ELSE snapshot.seq
      BY <1>1, <1>4, <2>1 DEF ReplayInv
    <2>3. journal # <<>> <=> Len(journal) >= 1
      BY <2>1, HistoryType, LogEnds
    <2>4. sequence = LastSeq(snapshot, journal)
      BY <2>2, <2>3 DEF LastSeq
    <2>5. QED
      BY <1>1, <1>4, <2>4, HistoryType DEF RecoveryInv, FilesInv, ReplayInv, Shows, UpToDate
  <1>8. UpToDate'
    BY <1>1, <1>6, <1>7 DEF UpToDate
  <1>9. Odd(version)
    BY <1>1, <1>4 DEF ReplayInv
  <1>10. GroupInv'
    BY <1>1, <1>6, <1>8, <1>9 DEF RecoveryInv, GroupInv, ghosts
  <1>11. ReplayInv(p)'
    BY <1>1, <1>3, <1>8, <1>9 DEF ReplayInv
  <1>12. WorkInv(p)' /\ pc'[p] \notin ReaderLabels
    BY <1>3, <1>11, AtOneLabel DEF ReplayLabels, ReaderLabels
  <1>13. QED
    BY <1>2, <1>3, <1>5, <1>6, <1>10, <1>12, HolderMoves

LEMMA StepReplayPublish ==
  ASSUME TypeInv, TypeInv', LockInv, RecoveryInv, NEW p \in Procs, ReplayPublish(p)
  PROVE  RecoveryInv'
  <1>1. /\ pc[p] = "replayPublish" /\ pc[p] \in ReplayLabels /\ pc[p] \in Critical
        /\ version' = MakeOdd(version) + 1
        /\ shown' = IF failed THEN shown ELSE sequence
        /\ UNCHANGED <<table, sequence, checkpoint, dirty, failed, disk, session,
                       req, locals, history, promised>>
    BY DEF ReplayPublish, Critical, ReplayLabels
  <1>2. /\ \A q \in Procs \ {p} : pc[q] \notin Critical
        /\ session \in {"opening", "up"} /\ (req[p].op = "open" <=> session = "opening")
    BY <1>1, HoldersAreAlone DEF LockInv, SessionMatchesRequests
  <1>3. OnlyMoves(p)
    <2>1. \E l : pc' = [pc EXCEPT ![p] = l]
      BY DEF ReplayPublish, Goto
    <2>2. result' = result \/ \E r : result' = [result EXCEPT ![p] = r]
      BY DEF ReplayPublish, Return
    <2>3. QED
      BY <1>1, <2>1, <2>2 DEF OnlyMoves, locals, TypeInv, TypeOK, ControlOK, LocalsOK
  <1>4. version' > version
    <2>1. version \in Nat
      BY HistoryType
    <2>2. QED
      BY <1>1, <2>1, Parity
  <1>5. Announced
    BY <1>1, <1>4, HistoryType DEF Announced
  <1>6. /\ FilesInv' /\ PromiseInv'
        /\ Recorded' = Recorded /\ Latest' = Latest
    BY <1>1, FilesUndisturbed, PromiseUndisturbed DEF RecoveryInv, disk
  <1>7. ReplayInv(p)
    BY <1>1, HereNow
  <1>8. UpToDate /\ Shows /\ ~torn /\ ~dirty
    BY <1>1, <1>2, <1>7, HistoryType DEF ReplayInv, RecoveryInv, GroupInv
  <1>9. UpToDate' /\ Shows' /\ ~torn' /\ ~dirty' /\ sequence = Recorded
    BY <1>1, <1>6, <1>8 DEF UpToDate, Shows, disk
  <1>10. GroupInv'
    BY <1>1, <1>6, <1>9, HistoryType DEF RecoveryInv, GroupInv, disk
  <1>11. WorkInv(p)' /\ pc'[p] \notin ReaderLabels
    <2>1. CASE failed
      <3>1. pc'[p] = "unlock"
        BY <2>1 DEF ReplayPublish, Goto, TypeInv, TypeOK, ControlOK
      <3>2. session' = "up" /\ failed' /\ req'[p].op # "open"
        BY <1>1, <1>2, <2>1 DEF RecoveryInv, GroupInv
      <3>3. LeavingInv(p)'
        BY <3>2 DEF LeavingInv
      <3>4. QED
        BY <3>1, <3>3, AtOneLabel DEF ReaderLabels
    <2>2. CASE ~failed /\ req[p].op = "set"
      <3>1. pc'[p] = "compare"
        BY <2>2 DEF ReplayPublish, Locked, Goto, TypeInv, TypeOK, ControlOK
      <3>2. SetInv(p)'
        BY <1>1, <1>9, <2>2, <3>1 DEF SetInv, PutLabels
      <3>3. QED
        BY <3>1, <3>2, AtOneLabel DEF SetLabels, ReaderLabels
    <2>3. CASE ~failed /\ req[p].op = "open"
      <3>1. pc'[p] = "ckptWrite"
        BY <2>3 DEF ReplayPublish, Locked, Goto, TypeInv, TypeOK, ControlOK
      <3>2. CheckpointInv(p)'
        BY <1>1, <1>9, <2>3, <3>1 DEF CheckpointInv
      <3>3. QED
        BY <3>1, <3>2, AtOneLabel DEF CheckpointLabels, ReaderLabels
    <2>4. CASE ~failed /\ req[p].op \notin {"set", "open"}
      <3>1. pc'[p] = "unlock"
        BY <2>4 DEF ReplayPublish, Locked, Goto, TypeInv, TypeOK, ControlOK
      <3>2. LeavingInv(p)'
        BY <1>1, <1>9, <2>4, <3>1 DEF LeavingInv
      <3>3. QED
        BY <3>1, <3>2, AtOneLabel DEF ReaderLabels
    <2>5. QED
      BY <2>1, <2>2, <2>3, <2>4
  <1>12. QED
    BY <1>2, <1>3, <1>5, <1>6, <1>10, <1>11, HolderMoves

LEMMA StepReplayFail ==
  ASSUME TypeInv, TypeInv', LockInv, RecoveryInv, NEW p \in Procs, ReplayFail(p)
  PROVE  RecoveryInv'
  <1>1. /\ pc[p] \in {"replaySnapshot", "replayJournal"}
        /\ failed' = (req[p].op # "open") /\ result' = [result EXCEPT ![p] = "error"]
        /\ UNCHANGED <<version, table, sequence, checkpoint, dirty, disk, session,
                       req, locals, ghosts>>
    BY DEF ReplayFail, Return
  <1>2. /\ \A q \in Procs \ {p} : pc[q] \notin Critical
        /\ session \in {"opening", "up"} /\ (req[p].op = "open" <=> session = "opening")
    <2>1. pc[p] \in Critical /\ pc[p] # "idle"
      BY <1>1 DEF Critical, ReplayLabels
    <2>2. QED
      BY <2>1, HoldersAreAlone DEF LockInv, SessionMatchesRequests
  <1>3. pc'[p] = "unlock" /\ result'[p] = "error" /\ OnlyMoves(p)
    BY <1>1 DEF ReplayFail, Goto, OnlyMoves, locals, TypeInv, TypeOK, ControlOK, LocalsOK
  <1>4. failed => failed'
    BY <1>1, <1>2 DEF RecoveryInv, GroupInv
  <1>5. Announced
    BY <1>1, <1>4, HistoryType DEF Announced
  <1>6. /\ FilesInv' /\ PromiseInv'
        /\ Recorded' = Recorded /\ Latest' = Latest
    BY <1>1, FilesUndisturbed, PromiseUndisturbed DEF RecoveryInv, disk, ghosts
  <1>7. session = "up" => failed'
    BY <1>1, <1>2
  <1>8. GroupInv'
    BY <1>1, <1>2, <1>6, <1>7 DEF RecoveryInv, GroupInv, disk, ghosts
  <1>9. LeavingInv(p)'
    BY <1>1, <1>3, <1>7 DEF LeavingInv
  <1>10. WorkInv(p)' /\ pc'[p] \notin ReaderLabels
    BY <1>3, <1>9, AtOneLabel DEF ReaderLabels
  <1>11. QED
    BY <1>2, <1>3, <1>5, <1>6, <1>8, <1>10, HolderMoves
-----------------------------------------------------------------------------
(* Set                                                                     *)

(* No file is ahead of the history.                                        *)
LEMMA WithinHistory ==
  ASSUME TypeInv, RecoveryInv
  PROVE  /\ \A log \in {journal, journalDisk} :
              log # <<>> => log[1].seq <= Recorded /\ log[Len(log)].seq <= Recorded
         /\ snapshot.seq <= Recorded /\ snapshotDisk.seq <= Recorded
         /\ DurableSeq \in Nat /\ DurableSeq <= Recorded
         /\ session = "up" => LastSeq(snapshotDisk, journal) = Recorded
  <1>1. Recorded \in Nat /\ Len(history) - 1 = Recorded
    BY HistoryType DEF Recorded
  <1>2. ASSUME NEW log \in {journal, journalDisk}, log # <<>>
        PROVE  log[1].seq <= Recorded /\ log[Len(log)].seq <= Recorded
    <2>1. Explains(history, log) /\ log \in Logs
      BY HistoryType DEF RecoveryInv, FilesInv
    <2>2. 1 \in 1 .. Len(log) /\ Len(log) \in 1 .. Len(log)
      BY <1>2, <2>1, LogEnds
    <2>3. log[1].seq \in 1 .. Recorded /\ log[Len(log)].seq \in 1 .. Recorded
      BY <1>1, <2>1, <2>2 DEF Explains
    <2>4. QED
      BY <1>1, <2>3
  <1>3. snapshot.seq <= Recorded /\ snapshotDisk.seq <= Recorded
    BY <1>1 DEF RecoveryInv, FilesInv, Holds
  <1>4. DurableSeq \in Nat /\ DurableSeq <= Recorded
    <2>1. /\ DurableSeq \in Nat
          /\ \/ DurableSeq = snapshotDisk.seq
             \/ journalDisk # <<>> /\ DurableSeq = journalDisk[Len(journalDisk)].seq
      BY HistoryType, LastSeqType DEF DurableSeq
    <2>2. QED
      BY <1>2, <1>3, <2>1
  <1>5. ASSUME session = "up" PROVE LastSeq(snapshotDisk, journal) = Recorded
    <2>1. CASE journal = <<>>
      <3>1. snapshotDisk.seq = Recorded
        BY <1>5, <2>1 DEF RecoveryInv, GroupInv
      <3>2. QED
        BY <2>1, <3>1, Zenon DEF LastSeq
    <2>2. CASE journal # <<>>
      <3>1. journal[Len(journal)].seq = Recorded
        BY <1>5, <2>2 DEF RecoveryInv, GroupInv
      <3>2. /\ LastSeq(snapshotDisk, journal) \in Nat
            /\ journal[Len(journal)].seq <= LastSeq(snapshotDisk, journal)
            /\ \/ LastSeq(snapshotDisk, journal) = snapshotDisk.seq
               \/ LastSeq(snapshotDisk, journal) = journal[Len(journal)].seq
        BY <2>2, HistoryType, LastSeqType
      <3>3. QED
        BY <1>1, <1>3, <3>1, <3>2
    <2>3. QED
      BY <2>1, <2>2
  <1>6. QED
    BY <1>2, <1>3, <1>4, <1>5

LEMMA SetFacts ==
  ASSUME TypeInv, LockInv, RecoveryInv, NEW p \in Procs, pc[p] \in SetLabels
  PROVE  /\ \A q \in Procs \ {p} : pc[q] \notin Critical
         /\ session = "up" /\ SetInv(p) /\ req[p].op = "set"
         /\ req[p].file \in Files /\ req[p].owner \in Owners /\ req[p].owner \in Slot
         /\ req[p].durable \in BOOLEAN
  <1>1. req[p] \in Requests /\ req[p].op = "set"
    BY DEF TypeInv, TypeOK, ControlOK, RequestMatchesLabel
  <1>2. req[p].file \in Files /\ req[p].owner \in Owners /\ req[p].durable \in BOOLEAN
    BY <1>1, SetRequestType
  <1>3. pc[p] \in Critical /\ pc[p] # "idle"
    BY DEF Critical, SetLabels
  <1>4. session = "up" /\ \A q \in Procs \ {p} : pc[q] \notin Critical
    BY <1>1, <1>3, HoldersAreAlone DEF LockInv, SessionMatchesRequests
  <1>5. QED
    BY <1>1, <1>2, <1>4, HereNow, OwnersAreSlots

(* A step of Set that moves to another label of it, or out, changes pc and *)
(* perhaps its own result.                                                 *)
LEMMA MovesTo ==
  ASSUME TypeInv, NEW p \in Procs, NEW l, pc' = [pc EXCEPT ![p] = l],
         result' = result \/ \E r : result' = [result EXCEPT ![p] = r],
         UNCHANGED <<req, got>>,
         saved' = saved \/ \E n : saved' = [saved EXCEPT ![p] = n]
  PROVE  pc'[p] = l /\ OnlyMoves(p)
  <1>1. pc'[p] = l /\ \A q \in Procs \ {p} : pc'[q] = pc[q]
    BY DEF TypeInv, TypeOK, ControlOK
  <1>2. \A q \in Procs \ {p} : result'[q] = result[q]
    BY DEF TypeInv, TypeOK, LocalsOK
  <1>3. \A q \in Procs \ {p} : saved'[q] = saved[q]
    BY DEF TypeInv, TypeOK, LocalsOK
  <1>4. QED
    BY <1>1, <1>2, <1>3 DEF OnlyMoves

LEMMA StepCompare ==
  ASSUME TypeInv, TypeInv', LockInv, RecoveryInv, NEW p \in Procs, Compare(p)
  PROVE  RecoveryInv'
  <1>1. /\ pc[p] = "compare"
        /\ UNCHANGED <<version, table, sequence, checkpoint, failed, disk, session,
                       req, locals, ghosts>>
        /\ \/ pc' = [pc EXCEPT ![p] = "unlock"] /\ dirty' = dirty
           \/ /\ pc' = [pc EXCEPT ![p] = "append"] /\ dirty'
              /\ req[p].previous # AnyOwner
                   => SameOwner(table[req[p].file], req[p].previous)
    BY DEF Compare, Goto
  <1>2. /\ \A q \in Procs \ {p} : pc[q] \notin Critical
        /\ session = "up" /\ SetInv(p)
    BY <1>1, SetFacts DEF SetLabels
  <1>3. /\ pc'[p] \in {"unlock", "append"} /\ OnlyMoves(p)
    <2>1. result' = result \/ \E r : result' = [result EXCEPT ![p] = r]
      BY DEF Compare, Return
    <2>2. QED
      BY <1>1, <2>1, MovesTo DEF locals
  <1>4. Announced
    BY <1>1, HistoryType DEF Announced
  <1>5. /\ FilesInv' /\ PromiseInv'
        /\ Recorded' = Recorded /\ Latest' = Latest
    BY <1>1, FilesUndisturbed, PromiseUndisturbed DEF RecoveryInv, disk, ghosts
  <1>6. UpToDate /\ Shows /\ ~torn /\ ~failed /\ ~dirty
    BY <1>1, <1>2, HistoryType DEF SetInv
  <1>7. UpToDate' /\ Shows' /\ ~torn' /\ ~failed'
    BY <1>1, <1>5, <1>6 DEF UpToDate, Shows, disk, ghosts
  <1>8. GroupInv'
    BY <1>1, <1>2, <1>5, <1>7 DEF RecoveryInv, GroupInv, disk, ghosts
  <1>9. WorkInv(p)' /\ pc'[p] \notin ReaderLabels
    <2>1. CASE pc'[p] = "unlock"
      <3>1. LeavingInv(p)'
        <4>1. req'[p].op = "set"
          BY <1>1, SetFacts DEF SetLabels
        <4>2. QED
          BY <1>7, <4>1 DEF LeavingInv
      <3>2. QED
        BY <2>1, <3>1, AtOneLabel DEF ReaderLabels
    <2>2. CASE pc'[p] = "append"
      <3>1. dirty' /\ (req[p].previous # AnyOwner
                         => SameOwner(table[req[p].file], req[p].previous))
        BY <1>1, <2>2 DEF TypeInv, TypeOK, ControlOK
      <3>2. SetInv(p)'
        BY <1>1, <1>7, <2>2, <3>1 DEF SetInv, PutLabels, SameOwner
      <3>3. QED
        BY <2>2, <3>2, AtOneLabel DEF SetLabels, ReaderLabels
    <2>3. QED
      BY <1>3, <2>1, <2>2
  <1>10. QED
    BY <1>2, <1>3, <1>4, <1>5, <1>8, <1>9, HolderMoves

LEMMA StepAppendRecord ==
  ASSUME TypeInv, TypeInv', LockInv, RecoveryInv, NEW p \in Procs, AppendRecord(p)
  PROVE  RecoveryInv'
  <1> DEFINE r == NextRecord(p)
             f == req[p].file
             owner == req[p].owner
             next == [Latest EXCEPT ![f] = owner]
  <1>1. /\ pc[p] = "append"
        /\ journal' = Append(journal, r) /\ history' = Append(history, next)
        /\ pc' = [pc EXCEPT ![p] = IF req[p].durable THEN "sync" ELSE "advance"]
        /\ UNCHANGED <<version, table, sequence, checkpoint, dirty, failed, torn,
                       journalDisk, snapshot, snapshotDisk, session, req, locals,
                       result, shown, promised>>
    BY DEF AppendRecord, Goto, shared
  <1>2. /\ \A q \in Procs \ {p} : pc[q] \notin Critical
        /\ session = "up" /\ SetInv(p)
        /\ f \in Files /\ owner \in Owners /\ owner \in Slot /\ req[p].durable \in BOOLEAN
    BY <1>1, SetFacts DEF SetLabels
  <1>3. /\ pc'[p] = IF req[p].durable THEN "sync" ELSE "advance"
        /\ OnlyMoves(p)
    BY <1>1, MovesTo DEF locals
  <1>4. Announced
    BY <1>1, HistoryType DEF Announced
  <1>5. UpToDate /\ Shows /\ ~torn /\ ~failed /\ dirty
    BY <1>1, <1>2, HistoryType DEF SetInv
  <1>6. /\ r \in Record /\ r.seq = Len(history) /\ r.seq = Recorded + 1
        /\ r.file = f /\ r.owner = owner
    BY <1>2, <1>5, HistoryType DEF NextRecord, Record, UpToDate
  <1>7. /\ journal' \in Logs /\ Len(journal') = Len(journal) + 1
        /\ Len(journal) \in Nat /\ journal' # <<>>
        /\ journal'[Len(journal) + 1] = r
        /\ \A i \in 1 .. Len(journal) : journal'[i] = journal[i]
    BY <1>1, <1>6, HistoryType, AppendProperties, LenProperties DEF Logs
  <1>8. /\ next \in [Files -> Slot]
        /\ history' \in Maps /\ Len(history') = Len(history) + 1
        /\ history'[Len(history) + 1] = next
        /\ \A i \in 1 .. Len(history) : history'[i] = history[i]
    <2>1. next \in [Files -> Slot]
      BY <1>2, HistoryType
    <2> HIDE DEF next
    <2>2. QED
      BY <1>1, <2>1, HistoryType, AppendProperties DEF Maps
  <1>9. Recorded' = Recorded + 1 /\ Latest' = next
    <2> HIDE DEF next
    <2>1. QED
      BY <1>8, HistoryType DEF Recorded, Latest
  <1> HIDE DEF r
  <1>10. /\ journal = <<>> => snapshotDisk.seq = Recorded
         /\ journal # <<>> => journal[Len(journal)].seq = Recorded
    BY <1>2 DEF RecoveryInv, GroupInv
  <1>11. Explains(history', journal')
    <2>1. Explains(history, journal) /\ history \in Maps /\ history # <<>> /\ journal \in Logs
      BY HistoryType, EmptySeq DEF RecoveryInv, FilesInv
    <2>2. journal # <<>> => journal[Len(journal)].seq + 1 = r.seq
      BY <1>2, <1>6, <1>10
    <2>3. history' = Append(history, [history[Len(history)] EXCEPT ![r.file] = r.owner])
      BY <1>1, <1>6 DEF Latest
    <2>4. QED
      BY <1>1, <1>6, <2>1, <2>2, <2>3, OneMore
  <1>12. /\ Explains(history', journalDisk)
         /\ Holds(history', snapshot) /\ Holds(history', snapshotDisk)
    <2>1. /\ history \in Maps /\ Recorded \in Nat
          /\ Recorded + 1 <= Len(history) /\ Recorded + 1 <= Len(history')
          /\ \A i \in 1 .. Recorded + 1 : history'[i] = history[i]
      BY <1>8, HistoryType
    <2>2. /\ journalDisk \in Logs /\ snapshot \in Snapshot /\ snapshotDisk \in Snapshot
          /\ journalDisk # <<>> => journalDisk[Len(journalDisk)].seq <= Recorded
          /\ snapshot.seq <= Recorded /\ snapshotDisk.seq <= Recorded
      BY HistoryType, WithinHistory
    <2>3. /\ Explains(history, journalDisk)
          /\ Holds(history, snapshot) /\ Holds(history, snapshotDisk)
      BY DEF RecoveryInv, FilesInv
    <2>4. QED
      BY <1>8, <2>1, <2>2, <2>3, OtherHistory
  <1>13. Meets(snapshotDisk, journal')
    <2>1. CASE journal = <<>>
      <3>1. journal'[1] = r /\ snapshotDisk.seq = Recorded
        BY <1>2, <1>7, <1>10, <2>1, EmptySeq
      <3>2. QED
        BY <1>6, <3>1, HistoryType DEF Meets
    <2>2. CASE journal # <<>>
      <3>1. journal'[1] = journal[1]
        BY <1>7, <2>2, HistoryType, LogEnds
      <3>2. QED
        BY <2>2, <3>1 DEF RecoveryInv, FilesInv, Meets
    <2>3. QED
      BY <2>1, <2>2
  <1>14. journal'[Len(journal')].seq = Recorded'
    BY <1>6, <1>7, <1>9
  <1>15. LastSeq(snapshot, journal') = Recorded'
    <2>1. snapshot.seq \in Nat /\ snapshot.seq <= Recorded /\ Recorded \in Nat
      BY HistoryType, WithinHistory
    <2>2. journal'[Len(journal')].seq > snapshot.seq
      BY <1>9, <1>14, <2>1
    <2>3. QED
      BY <1>7, <1>14, <2>2 DEF LastSeq
  <1>16. FilesInv'
    BY <1>1, <1>11, <1>12, <1>13, <1>15 DEF RecoveryInv, FilesInv
  <1>17. PromiseInv'
    <2>1. DurableSeq' = DurableSeq
      BY <1>1 DEF DurableSeq
    <2>2. Continues(journal, journalDisk) => Continues(journal', journalDisk)
      <3>1. Len(journalDisk) \in Nat
        BY HistoryType, LenProperties DEF Logs
      <3>2. ASSUME Continues(journal, journalDisk), NEW i \in 1 .. Len(journalDisk)
            PROVE  journal'[i] = journalDisk[i]
        BY <1>7, <3>1, <3>2 DEF Continues
      <3>3. QED
        BY <1>7, <3>1, <3>2 DEF Continues
    <2>3. QED
      BY <1>1, <2>1, <2>2 DEF RecoveryInv, PromiseInv
  <1>18. Shows' /\ sequence' + 1 = Recorded'
    BY <1>1, <1>5, <1>8, <1>9, HistoryType DEF Shows, UpToDate
  <1>19. GroupInv'
    <2>1. shown' <= Recorded'
      BY <1>1, <1>9, HistoryType DEF RecoveryInv, GroupInv
    <2>2. ~Odd(version') => shown' = sequence'
      BY <1>1, <1>2, <1>5 DEF RecoveryInv, GroupInv
    <2>3. QED
      BY <1>1, <1>2, <1>5, <1>7, <1>14, <1>18, <2>1, <2>2 DEF GroupInv
  <1>20. SetInv(p)'
    <2>1. Latest' = [table' EXCEPT ![req'[p].file] = req'[p].owner]
      BY <1>1, <1>5, <1>9 DEF UpToDate
    <2>2. pc'[p] \in {"sync", "advance"} /\ (req'[p].durable => pc'[p] = "sync")
      BY <1>1, <1>3
    <2> HIDE DEF next, owner, f
    <2>3. QED
      BY <1>1, <1>5, <1>18, <2>1, <2>2 DEF SetInv, PutLabels
  <1>21. WorkInv(p)' /\ pc'[p] \notin ReaderLabels
    BY <1>3, <1>20, AtOneLabel DEF SetLabels, ReaderLabels
  <1>22. QED
    BY <1>2, <1>3, <1>4, <1>16, <1>17, <1>19, <1>21, HolderMoves

LEMMA StepAppendFail ==
  ASSUME TypeInv, TypeInv', LockInv, RecoveryInv, NEW p \in Procs, AppendFail(p)
  PROVE  RecoveryInv'
  <1>1. /\ pc[p] = "append" /\ pc' = [pc EXCEPT ![p] = "unlock"]
        /\ result' = [result EXCEPT ![p] = "error"]
        /\ UNCHANGED <<shared, journal, journalDisk, snapshot, snapshotDisk, session,
                       req, locals, ghosts>>
    BY DEF AppendFail, Goto, Return
  <1>2. /\ \A q \in Procs \ {p} : pc[q] \notin Critical
        /\ session = "up" /\ SetInv(p) /\ req[p].op = "set"
    BY <1>1, SetFacts DEF SetLabels
  <1>3. pc'[p] = "unlock" /\ OnlyMoves(p)
    BY <1>1, MovesTo DEF locals
  <1>4. Announced
    BY <1>1, HistoryType DEF Announced, shared
  <1>5. /\ FilesInv' /\ PromiseInv'
        /\ Recorded' = Recorded /\ Latest' = Latest
    BY <1>1, FilesUndisturbed, PromiseUndisturbed DEF RecoveryInv, ghosts
  <1>6. Shows /\ dirty
    BY <1>1, <1>2, HistoryType DEF SetInv
  <1>7. Shows'
    BY <1>1, <1>5, <1>6 DEF Shows, shared, ghosts
  <1>8. GroupInv'
    BY <1>1, <1>2, <1>5, <1>6, <1>7 DEF RecoveryInv, GroupInv, shared, ghosts
  <1>9. LeavingInv(p)'
    BY <1>1, <1>2, <1>7 DEF LeavingInv
  <1>10. WorkInv(p)' /\ pc'[p] \notin ReaderLabels
    BY <1>3, <1>9, AtOneLabel DEF ReaderLabels
  <1>11. QED
    BY <1>2, <1>3, <1>4, <1>5, <1>8, <1>10, HolderMoves

LEMMA StepSyncJournal ==
  ASSUME TypeInv, TypeInv', LockInv, RecoveryInv, NEW p \in Procs, SyncJournal(p)
  PROVE  RecoveryInv'
  <1>1. /\ pc[p] = "sync" /\ pc' = [pc EXCEPT ![p] = "advance"]
        /\ journalDisk' = journal
        /\ UNCHANGED <<shared, journal, torn, snapshot, snapshotDisk, session,
                       req, locals, result, ghosts>>
    BY DEF SyncJournal, Goto
  <1>2. /\ \A q \in Procs \ {p} : pc[q] \notin Critical
        /\ session = "up" /\ SetInv(p)
    BY <1>1, SetFacts DEF SetLabels
  <1>3. pc'[p] = "advance" /\ OnlyMoves(p)
    BY <1>1, MovesTo DEF locals
  <1>4. Announced
    BY <1>1, HistoryType DEF Announced, shared
  <1>5. Recorded' = Recorded /\ Latest' = Latest
    BY <1>1 DEF Recorded, Latest, ghosts
  <1>6. FilesInv'
    BY <1>1, <1>5 DEF RecoveryInv, FilesInv, ghosts
  <1>7. PromiseInv'
    <2>1. DurableSeq' = Recorded
      BY <1>1, <1>2, WithinHistory DEF DurableSeq
    <2>2. promised' <= DurableSeq'
      BY <1>1, <2>1, WithinHistory, HistoryType DEF RecoveryInv, PromiseInv, ghosts
    <2>3. Continues(journal', journalDisk')
      BY <1>1, HistoryType, LenProperties DEF Continues, Logs
    <2>4. QED
      BY <2>2, <2>3 DEF PromiseInv
  <1>8. GroupInv'
    BY <1>1, <1>5 DEF RecoveryInv, GroupInv, UpToDate, Shows, shared, ghosts
  <1>9. SetInv(p)'
    BY <1>1, <1>2, <1>3, <1>5 DEF SetInv, PutLabels, Shows, shared, ghosts
  <1>10. WorkInv(p)' /\ pc'[p] \notin ReaderLabels
    BY <1>3, <1>9, AtOneLabel DEF SetLabels, ReaderLabels
  <1>11. QED
    BY <1>2, <1>3, <1>4, <1>6, <1>7, <1>8, <1>10, HolderMoves

LEMMA StepSyncFail ==
  ASSUME TypeInv, TypeInv', LockInv, RecoveryInv, NEW p \in Procs, SyncFail(p)
  PROVE  RecoveryInv'
  <1>1. /\ pc[p] = "sync" /\ pc' = [pc EXCEPT ![p] = "unlock"]
        /\ result' = [result EXCEPT ![p] = "error"]
        /\ UNCHANGED <<shared, disk, session, req, locals, ghosts>>
    BY DEF SyncFail, Goto, Return
  <1>2. /\ \A q \in Procs \ {p} : pc[q] \notin Critical
        /\ session = "up" /\ SetInv(p) /\ req[p].op = "set"
    BY <1>1, SetFacts DEF SetLabels
  <1>3. pc'[p] = "unlock" /\ OnlyMoves(p)
    BY <1>1, MovesTo DEF locals
  <1>4. Announced
    BY <1>1, HistoryType DEF Announced, shared
  <1>5. /\ FilesInv' /\ PromiseInv'
        /\ Recorded' = Recorded /\ Latest' = Latest
    BY <1>1, FilesUndisturbed, PromiseUndisturbed DEF RecoveryInv, disk, ghosts
  <1>6. Shows'
    BY <1>1, <1>2, <1>5 DEF SetInv, Shows, shared, ghosts
  <1>7. GroupInv'
    BY <1>1, <1>5 DEF RecoveryInv, GroupInv, UpToDate, Shows, shared, disk, ghosts
  <1>8. LeavingInv(p)'
    BY <1>1, <1>2, <1>6 DEF LeavingInv
  <1>9. WorkInv(p)' /\ pc'[p] \notin ReaderLabels
    BY <1>3, <1>8, AtOneLabel DEF ReaderLabels
  <1>10. QED
    BY <1>2, <1>3, <1>4, <1>5, <1>7, <1>9, HolderMoves

LEMMA StepAdvance ==
  ASSUME TypeInv, TypeInv', LockInv, RecoveryInv, NEW p \in Procs, Advance(p)
  PROVE  RecoveryInv'
  <1>1. /\ pc[p] = "advance" /\ pc' = [pc EXCEPT ![p] = "putInode"]
        /\ sequence' = sequence + 1 /\ version' = MakeOdd(version)
        /\ saved' = [saved EXCEPT ![p] = version]
        /\ UNCHANGED <<table, checkpoint, dirty, failed, disk, session, req, got,
                       result, ghosts>>
    BY DEF Advance, Goto
  <1>2. /\ \A q \in Procs \ {p} : pc[q] \notin Critical
        /\ session = "up" /\ SetInv(p)
    BY <1>1, SetFacts DEF SetLabels
  <1>3. pc'[p] = "putInode" /\ OnlyMoves(p) /\ saved'[p] = version
    BY <1>1, MovesTo DEF TypeInv, TypeOK, LocalsOK
  <1>4. version' >= version /\ Odd(version') /\ (Odd(version) => version' = version)
    <2>1. version \in Nat
      BY HistoryType
    <2>2. QED
      BY <1>1, <2>1, Parity
  <1>5. Announced
    BY <1>1 , <1>4 DEF Announced
  <1>6. /\ FilesInv' /\ PromiseInv'
        /\ Recorded' = Recorded /\ Latest' = Latest
    BY <1>1, FilesUndisturbed, PromiseUndisturbed DEF RecoveryInv, disk, ghosts
  <1>7. GroupInv'
    BY <1>1, <1>2, <1>4, <1>6 DEF RecoveryInv, GroupInv, SetInv, disk, ghosts
  <1>8. SetInv(p)'
    BY <1>1, <1>2, <1>3, <1>4, <1>6 DEF SetInv, PutLabels, disk
  <1>9. WorkInv(p)' /\ pc'[p] \notin ReaderLabels
    BY <1>3, <1>8, AtOneLabel DEF SetLabels, ReaderLabels
  <1>10. QED
    BY <1>2, <1>3, <1>5, <1>6, <1>7, <1>9, HolderMoves

(* The words of the table's record are replaced one by one, under an odd   *)
(* version.                                                                *)
LEMMA PutWord ==
  ASSUME TypeInv, TypeInv', LockInv, RecoveryInv, NEW p \in Procs,
         NEW l \in {"putUid", "putMode", "putEnd"}, NEW slot,
         pc[p] \in PutLabels, pc' = [pc EXCEPT ![p] = l],
         table' = [table EXCEPT ![req[p].file] = slot],
         l \in {"putUid", "putMode", "putEnd"} => slot.inode = req[p].owner.inode,
         l \in {"putMode", "putEnd"} => slot.uid = req[p].owner.uid,
         l = "putEnd" => slot.mode = req[p].owner.mode,
         UNCHANGED <<version, sequence, checkpoint, dirty, failed, disk, session,
                     req, locals, result, ghosts>>
  PROVE  RecoveryInv'
  <1>1. /\ pc[p] \in SetLabels /\ pc[p] \notin {"compare", "append", "sync", "advance", "clean"}
        /\ l \in SetLabels /\ l \notin ReaderLabels
        /\ l \notin {"compare", "append", "sync", "advance", "clean"} /\ l \in PutLabels
    BY DEF PutLabels, SetLabels, ReaderLabels
  <1>2. /\ \A q \in Procs \ {p} : pc[q] \notin Critical
        /\ session = "up" /\ SetInv(p) /\ req[p].file \in Files
    BY <1>1, SetFacts
  <1>3. pc'[p] = l /\ OnlyMoves(p)
    BY MovesTo DEF locals
  <1>4. /\ Odd(version) /\ version = MakeOdd(saved[p]) /\ dirty /\ ~failed /\ ~torn
        /\ sequence = Recorded
        /\ Latest = [table EXCEPT ![req[p].file] = req[p].owner]
        /\ req[p].durable => journalDisk = journal
    BY <1>1, <1>2 DEF SetInv
  <1>5. Announced
    BY <1>4, HistoryType DEF Announced
  <1>6. /\ FilesInv' /\ PromiseInv'
        /\ Recorded' = Recorded /\ Latest' = Latest
    BY FilesUndisturbed, PromiseUndisturbed DEF RecoveryInv, disk, ghosts
  <1>7. GroupInv'
    BY <1>4, <1>6 DEF RecoveryInv, GroupInv, disk, ghosts
  <1>8. /\ table'[req[p].file] = slot
        /\ Latest = [table' EXCEPT ![req[p].file] = req[p].owner]
    BY <1>2, <1>4, HistoryType
  <1>9. SetInv(p)'
    <2>1. /\ ~failed' /\ ~torn' /\ dirty' /\ Odd(version') /\ version' = MakeOdd(saved'[p])
          /\ sequence' = Recorded'
          /\ Latest' = [table' EXCEPT ![req'[p].file] = req'[p].owner]
          /\ req'[p].durable => journalDisk' = journal'
      BY <1>4, <1>6, <1>8 DEF disk, locals
    <2>2. /\ pc'[p] \in {"putUid", "putMode", "putEnd"}
               => table'[req'[p].file].inode = req'[p].owner.inode
          /\ pc'[p] \in {"putMode", "putEnd"}
               => table'[req'[p].file].uid = req'[p].owner.uid
          /\ pc'[p] = "putEnd" => table'[req'[p].file].mode = req'[p].owner.mode
      BY <1>3, <1>8
    <2>3. QED
      BY <1>1, <1>3, <2>1, <2>2 DEF SetInv
  <1>10. WorkInv(p)' /\ pc'[p] \notin ReaderLabels
    BY <1>1, <1>3, <1>9, AtOneLabel
  <1>11. QED
    BY <1>2, <1>3, <1>5, <1>6, <1>7, <1>10, HolderMoves

LEMMA StepPutInode ==
  ASSUME TypeInv, TypeInv', LockInv, RecoveryInv, NEW p \in Procs, PutInode(p)
  PROVE  RecoveryInv'
  <1> DEFINE slot == [table[req[p].file] EXCEPT !.inode = req[p].owner.inode]
  <1>1. /\ pc[p] = "putInode" /\ pc' = [pc EXCEPT ![p] = "putUid"]
        /\ table' = [table EXCEPT ![req[p].file] = slot]
        /\ UNCHANGED <<version, sequence, checkpoint, dirty, failed, disk, session,
                       req, locals, result, ghosts>>
    BY DEF PutInode, WriteWord, Old, New, Goto
  <1>2. SetInv(p) /\ req[p].file \in Files
    BY <1>1, SetFacts DEF SetLabels
  <1>3. table[req[p].file] \in Slot
    BY <1>2, HistoryType
  <1>4. /\ "putUid" \in {"putUid", "putMode", "putEnd"} => slot.inode = req[p].owner.inode
        /\ "putUid" \in {"putMode", "putEnd"} => slot.uid = req[p].owner.uid
        /\ "putUid" = "putEnd" => slot.mode = req[p].owner.mode
    BY <1>1, <1>2, <1>3 DEF SetInv, Slot
  <1> HIDE DEF slot
  <1>5. pc[p] \in PutLabels /\ "putUid" \in {"putUid", "putMode", "putEnd"}
    BY <1>1 DEF PutLabels
  <1>6. QED
    BY <1>1, <1>4, <1>5, PutWord

LEMMA StepPutUid ==
  ASSUME TypeInv, TypeInv', LockInv, RecoveryInv, NEW p \in Procs, PutUid(p)
  PROVE  RecoveryInv'
  <1> DEFINE slot == [table[req[p].file] EXCEPT !.uid = req[p].owner.uid]
  <1>1. /\ pc[p] = "putUid" /\ pc' = [pc EXCEPT ![p] = "putMode"]
        /\ table' = [table EXCEPT ![req[p].file] = slot]
        /\ UNCHANGED <<version, sequence, checkpoint, dirty, failed, disk, session,
                       req, locals, result, ghosts>>
    BY DEF PutUid, WriteWord, Old, New, Goto
  <1>2. SetInv(p) /\ req[p].file \in Files
    BY <1>1, SetFacts DEF SetLabels
  <1>3. table[req[p].file] \in Slot
    BY <1>2, HistoryType
  <1>4. /\ "putMode" \in {"putUid", "putMode", "putEnd"} => slot.inode = req[p].owner.inode
        /\ "putMode" \in {"putMode", "putEnd"} => slot.uid = req[p].owner.uid
        /\ "putMode" = "putEnd" => slot.mode = req[p].owner.mode
    BY <1>1, <1>2, <1>3 DEF SetInv, Slot
  <1> HIDE DEF slot
  <1>5. pc[p] \in PutLabels /\ "putMode" \in {"putUid", "putMode", "putEnd"}
    BY <1>1 DEF PutLabels
  <1>6. QED
    BY <1>1, <1>4, <1>5, PutWord

LEMMA StepPutMode ==
  ASSUME TypeInv, TypeInv', LockInv, RecoveryInv, NEW p \in Procs, PutMode(p)
  PROVE  RecoveryInv'
  <1> DEFINE slot == [table[req[p].file] EXCEPT !.mode = req[p].owner.mode]
  <1>1. /\ pc[p] = "putMode" /\ pc' = [pc EXCEPT ![p] = "putEnd"]
        /\ table' = [table EXCEPT ![req[p].file] = slot]
        /\ UNCHANGED <<version, sequence, checkpoint, dirty, failed, disk, session,
                       req, locals, result, ghosts>>
    BY DEF PutMode, WriteWord, Old, New, Goto
  <1>2. SetInv(p) /\ req[p].file \in Files
    BY <1>1, SetFacts DEF SetLabels
  <1>3. table[req[p].file] \in Slot
    BY <1>2, HistoryType
  <1>4. /\ "putEnd" \in {"putUid", "putMode", "putEnd"} => slot.inode = req[p].owner.inode
        /\ "putEnd" \in {"putMode", "putEnd"} => slot.uid = req[p].owner.uid
        /\ "putEnd" = "putEnd" => slot.mode = req[p].owner.mode
    BY <1>1, <1>2, <1>3 DEF SetInv, Slot
  <1> HIDE DEF slot
  <1>5. pc[p] \in PutLabels /\ "putEnd" \in {"putUid", "putMode", "putEnd"}
    BY <1>1 DEF PutLabels
  <1>6. QED
    BY <1>1, <1>4, <1>5, PutWord

LEMMA StepPutEnd ==
  ASSUME TypeInv, TypeInv', LockInv, RecoveryInv, NEW p \in Procs, PutEnd(p)
  PROVE  RecoveryInv'
  <1>1. /\ pc[p] = "putEnd" /\ pc' = [pc EXCEPT ![p] = "clean"]
        /\ version' = IF Odd(saved[p]) THEN version ELSE saved[p] + 2
        /\ shown' = IF Odd(saved[p]) THEN shown ELSE sequence
        /\ UNCHANGED <<table, sequence, checkpoint, dirty, failed, disk, session,
                       req, locals, result, history, promised>>
    BY DEF PutEnd, Goto
  <1>2. /\ \A q \in Procs \ {p} : pc[q] \notin Critical
        /\ session = "up" /\ SetInv(p)
        /\ req[p].file \in Files /\ req[p].owner \in Slot
    BY <1>1, SetFacts DEF SetLabels
  <1>3. pc'[p] = "clean" /\ OnlyMoves(p)
    BY <1>1, MovesTo DEF locals
  <1>4. UpToDate /\ dirty /\ ~failed /\ ~torn /\ Odd(version) /\ version = MakeOdd(saved[p])
          /\ (req[p].durable => journalDisk = journal)
    <2>1. /\ dirty /\ ~failed /\ ~torn /\ Odd(version) /\ version = MakeOdd(saved[p])
          /\ sequence = Recorded
          /\ Latest = [table EXCEPT ![req[p].file] = req[p].owner]
          /\ req[p].durable => journalDisk = journal
          /\ table[req[p].file].inode = req[p].owner.inode
          /\ table[req[p].file].uid = req[p].owner.uid
          /\ table[req[p].file].mode = req[p].owner.mode
      BY <1>1, <1>2 DEF SetInv, PutLabels
    <2>2. table[req[p].file] = req[p].owner
      <3>1. table[req[p].file] \in Slot
        BY <1>2, HistoryType
      <3>2. QED
        BY <1>2, <2>1, <3>1 DEF Slot
    <2>3. table = Latest
      BY <1>2, <2>1, <2>2, HistoryType
    <2>4. QED
      BY <2>1, <2>3 DEF UpToDate
  <1>5. version' >= version /\ (Odd(saved[p]) \/ version' = version + 1)
    <2>1. version \in Nat /\ saved[p] \in Nat
      BY HistoryType DEF TypeInv, TypeOK, LocalsOK
    <2>2. QED
      BY <1>1, <1>4, <2>1, Parity
  <1>6. Announced
    BY <1>1, <1>5 DEF Announced
  <1>7. /\ FilesInv' /\ PromiseInv'
        /\ Recorded' = Recorded /\ Latest' = Latest
    BY <1>1, FilesUndisturbed, PromiseUndisturbed DEF RecoveryInv, disk
  <1>8. UpToDate' /\ Shows'
    <2>1. UpToDate'
      BY <1>1, <1>4, <1>7 DEF UpToDate
    <2>2. Shows
      BY <1>4, HistoryType
    <2>3. QED
      BY <1>1, <1>7, <2>1, <2>2 DEF Shows
  <1>9. GroupInv'
    <2>1. shown' <= Recorded'
      BY <1>1, <1>4, <1>7, HistoryType DEF RecoveryInv, GroupInv, UpToDate
    <2>2. ~Odd(version') => shown' = sequence'
      BY <1>1, <1>4
    <2>3. QED
      BY <1>1, <1>2, <1>4, <1>7, <1>8, <2>1, <2>2 DEF RecoveryInv, GroupInv, disk
  <1>10. SetInv(p)'
    BY <1>1, <1>3, <1>4, <1>8 DEF SetInv, PutLabels, disk
  <1>11. WorkInv(p)' /\ pc'[p] \notin ReaderLabels
    BY <1>3, <1>10, AtOneLabel DEF SetLabels, ReaderLabels
  <1>12. QED
    BY <1>2, <1>3, <1>6, <1>7, <1>9, <1>11, HolderMoves

LEMMA StepClearDirty ==
  ASSUME TypeInv, TypeInv', LockInv, RecoveryInv, NEW p \in Procs, ClearDirty(p)
  PROVE  RecoveryInv'
  <1>1. /\ pc[p] = "clean" /\ ~dirty'
        /\ \/ pc' = [pc EXCEPT ![p] = "ckptWrite"] /\ UNCHANGED <<result, promised>>
           \/ /\ pc' = [pc EXCEPT ![p] = "unlock"] /\ result' = [result EXCEPT ![p] = "ok"]
              /\ promised' = IF req[p].durable THEN sequence ELSE promised
        /\ UNCHANGED <<version, table, sequence, checkpoint, failed, disk, session,
                       req, locals, history, shown>>
    BY DEF ClearDirty, Goto, Return
  <1>2. /\ \A q \in Procs \ {p} : pc[q] \notin Critical
        /\ session = "up" /\ SetInv(p) /\ req[p].op = "set"
    BY <1>1, SetFacts DEF SetLabels
  <1>3. pc'[p] \in {"ckptWrite", "unlock"} /\ OnlyMoves(p)
    <2>1. result' = result \/ \E r : result' = [result EXCEPT ![p] = r]
      BY <1>1
    <2>2. QED
      BY <1>1, <2>1, MovesTo DEF locals
  <1>4. UpToDate /\ Shows /\ ~failed /\ ~torn /\ (req[p].durable => journalDisk = journal)
    BY <1>1, <1>2, HistoryType DEF SetInv
  <1>5. Announced
    BY <1>1, HistoryType DEF Announced
  <1>6. FilesInv' /\ Recorded' = Recorded /\ Latest' = Latest /\ DurableSeq' = DurableSeq
    BY <1>1, FilesUndisturbed DEF RecoveryInv, disk
  <1>7. PromiseInv'
    <2>1. promised' = promised \/ (promised' = Recorded /\ journalDisk = journal)
      BY <1>1, <1>4 DEF UpToDate
    <2>2. journalDisk = journal => DurableSeq = Recorded
      BY <1>2, WithinHistory DEF DurableSeq
    <2>3. promised' <= DurableSeq'
      BY <1>6, <2>1, <2>2, HistoryType DEF RecoveryInv, PromiseInv
    <2>4. QED
      BY <1>1, <1>6, <2>3 DEF RecoveryInv, PromiseInv, Continues, disk
  <1>8. UpToDate' /\ Shows' /\ ~failed' /\ ~torn'
    BY <1>1, <1>4, <1>6 DEF UpToDate, Shows, disk
  <1>9. GroupInv'
    BY <1>1, <1>2, <1>6, <1>8 DEF RecoveryInv, GroupInv, disk
  <1>10. WorkInv(p)' /\ pc'[p] \notin ReaderLabels
    <2>1. CASE pc'[p] = "unlock"
      <3>1. LeavingInv(p)'
        BY <1>1, <1>2, <1>8 DEF LeavingInv
      <3>2. QED
        BY <2>1, <3>1, AtOneLabel DEF ReaderLabels
    <2>2. CASE pc'[p] = "ckptWrite"
      <3>1. CheckpointInv(p)'
        BY <1>1, <1>2, <1>8, <2>2 DEF CheckpointInv
      <3>2. QED
        BY <2>2, <3>1, AtOneLabel DEF CheckpointLabels, ReaderLabels
    <2>3. QED
      BY <1>3, <2>1, <2>2
  <1>11. QED
    BY <1>2, <1>3, <1>5, <1>6, <1>7, <1>9, <1>10, HolderMoves
-----------------------------------------------------------------------------
(* CheckpointLocked                                                        *)

LEMMA CheckpointFacts ==
  ASSUME TypeInv, LockInv, RecoveryInv, NEW p \in Procs, pc[p] \in CheckpointLabels
  PROVE  /\ \A q \in Procs \ {p} : pc[q] \notin Critical
         /\ CheckpointInv(p) /\ UpToDate /\ Shows /\ ~torn /\ ~failed /\ ~dirty
         /\ sequence = Recorded /\ table = Latest
  <1>1. \A q \in Procs \ {p} : pc[q] \notin Critical
    BY HoldersAreAlone DEF Critical
  <1>2. CheckpointInv(p)
    BY HereNow
  <1>3. UpToDate /\ ~torn /\ ~failed /\ ~dirty
    BY <1>2 DEF CheckpointInv
  <1>4. QED
    BY <1>1, <1>2, <1>3, HistoryType DEF UpToDate

LEMMA StepWriteSnapshot ==
  ASSUME TypeInv, TypeInv', LockInv, RecoveryInv, NEW p \in Procs, WriteSnapshot(p)
  PROVE  RecoveryInv'
  <1>1. /\ pc[p] = "ckptWrite" /\ pc' = [pc EXCEPT ![p] = "ckptSync"]
        /\ snapshot' = [seq |-> sequence, map |-> table]
        /\ UNCHANGED <<shared, journal, torn, journalDisk, snapshotDisk, session,
                       req, locals, result, ghosts>>
    BY DEF WriteSnapshot, Goto
  <1>2. /\ \A q \in Procs \ {p} : pc[q] \notin Critical
        /\ CheckpointInv(p) /\ UpToDate /\ Shows /\ ~torn /\ ~failed /\ ~dirty
        /\ sequence = Recorded /\ table = Latest
    BY <1>1, CheckpointFacts DEF CheckpointLabels
  <1>3. pc'[p] = "ckptSync" /\ OnlyMoves(p)
    BY <1>1, MovesTo DEF locals
  <1>4. Announced
    BY <1>1, HistoryType DEF Announced, shared
  <1>5. Recorded' = Recorded /\ Latest' = Latest /\ DurableSeq' = DurableSeq
    BY <1>1 DEF Recorded, Latest, DurableSeq, ghosts
  <1>6. snapshot'.seq = Recorded /\ snapshot'.map = history[Recorded + 1]
    BY <1>1, <1>2, HistoryType
  <1>7. FilesInv'
    <2>1. Holds(history, snapshot')
      BY <1>6, HistoryType DEF Holds, Recorded
    <2>2. snapshotDisk.seq <= snapshot'.seq
      BY <1>6, WithinHistory
    <2>3. LastSeq(snapshot', journal) = Recorded
      <3>1. journal = <<>> \/ ~(journal[Len(journal)].seq > Recorded)
        <4>1. ASSUME journal # <<>>
              PROVE  journal[Len(journal)].seq \in Nat /\ journal[Len(journal)].seq <= Recorded
          BY <4>1, HistoryType, LogEnds, WithinHistory
        <4>2. QED
          BY <4>1, HistoryType
      <3>2. QED
        BY <1>6, <3>1 DEF LastSeq
    <2>4. QED
      BY <1>1, <1>5, <2>1, <2>2, <2>3 DEF RecoveryInv, FilesInv, ghosts
  <1>8. PromiseInv'
    BY <1>1, <1>5 DEF RecoveryInv, PromiseInv, Continues, ghosts
  <1>9. GroupInv'
    BY <1>1, <1>5 DEF RecoveryInv, GroupInv, UpToDate, Shows, shared, ghosts
  <1>10. CheckpointInv(p)'
    BY <1>1, <1>2, <1>3, <1>5, <1>6 DEF CheckpointInv, UpToDate, shared, ghosts
  <1>11. WorkInv(p)' /\ pc'[p] \notin ReaderLabels
    BY <1>3, <1>10, AtOneLabel DEF CheckpointLabels, ReaderLabels
  <1>12. QED
    BY <1>2, <1>3, <1>4, <1>7, <1>8, <1>9, <1>11, HolderMoves

LEMMA StepSyncDirectory ==
  ASSUME TypeInv, TypeInv', LockInv, RecoveryInv, NEW p \in Procs, SyncDirectory(p)
  PROVE  RecoveryInv'
  <1>1. /\ pc[p] = "ckptSync" /\ pc' = [pc EXCEPT ![p] = "ckptTruncate"]
        /\ snapshotDisk' = snapshot
        /\ UNCHANGED <<version, table, sequence, dirty, failed, journal, torn,
                       journalDisk, snapshot, session, req, locals, result, ghosts>>
    BY DEF SyncDirectory, Goto
  <1>2. /\ \A q \in Procs \ {p} : pc[q] \notin Critical
        /\ CheckpointInv(p) /\ UpToDate /\ Shows /\ ~torn /\ ~failed /\ ~dirty
        /\ sequence = Recorded /\ table = Latest
    BY <1>1, CheckpointFacts DEF CheckpointLabels
  <1>3. pc'[p] = "ckptTruncate" /\ OnlyMoves(p)
    BY <1>1, MovesTo DEF locals
  <1>4. Announced
    BY <1>1, HistoryType DEF Announced
  <1>5. Recorded' = Recorded /\ Latest' = Latest
    BY <1>1 DEF Recorded, Latest, ghosts
  <1>6. snapshot.seq = Recorded
    BY <1>1, <1>2 DEF CheckpointInv
  <1>7. \A log \in {journal, journalDisk} :
          log # <<>> => log[1].seq <= snapshot.seq + 1 /\ ~(log[Len(log)].seq > snapshot.seq)
    <2>1. ASSUME NEW log \in {journal, journalDisk}, log # <<>>
          PROVE  log[1].seq <= snapshot.seq + 1 /\ ~(log[Len(log)].seq > snapshot.seq)
      <3>1. log[1].seq \in Nat /\ log[Len(log)].seq \in Nat
        BY <2>1, HistoryType, LogEnds
      <3>2. log[1].seq <= Recorded /\ log[Len(log)].seq <= Recorded
        BY <2>1, WithinHistory
      <3>3. QED
        BY <1>6, <3>1, <3>2, HistoryType
    <2>2. QED
      BY <2>1
  <1>8. FilesInv'
    <2>1. Meets(snapshotDisk', journal') /\ Meets(snapshotDisk', journalDisk')
      BY <1>1, <1>7 DEF Meets
    <2>2. snapshotDisk'.seq <= snapshot'.seq
      BY <1>1, HistoryType
    <2>3. QED
      BY <1>1, <1>5, <2>1, <2>2 DEF RecoveryInv, FilesInv, ghosts
  <1>9. PromiseInv'
    <2>1. DurableSeq' = snapshotDisk'.seq /\ DurableSeq' = Recorded
      BY <1>1, <1>6, <1>7 DEF DurableSeq, LastSeq
    <2>2. promised' <= DurableSeq'
      BY <1>1, <2>1, WithinHistory, HistoryType DEF RecoveryInv, PromiseInv, ghosts
    <2>3. QED
      BY <2>1, <2>2 DEF PromiseInv
  <1>10. GroupInv'
    BY <1>1, <1>5, <1>6 DEF RecoveryInv, GroupInv, UpToDate, Shows, ghosts
  <1>11. CheckpointInv(p)'
    BY <1>1, <1>2, <1>3, <1>5, <1>6 DEF CheckpointInv, UpToDate, ghosts
  <1>12. WorkInv(p)' /\ pc'[p] \notin ReaderLabels
    BY <1>3, <1>11, AtOneLabel DEF CheckpointLabels, ReaderLabels
  <1>13. QED
    BY <1>2, <1>3, <1>4, <1>8, <1>9, <1>10, <1>12, HolderMoves

LEMMA StepTruncateJournal ==
  ASSUME TypeInv, TypeInv', LockInv, RecoveryInv, NEW p \in Procs, TruncateJournal(p)
  PROVE  RecoveryInv'
  <1>1. /\ pc[p] = "ckptTruncate" /\ pc' = [pc EXCEPT ![p] = "ckptFlush"]
        /\ journal' = <<>> /\ ~torn'
        /\ UNCHANGED <<shared, journalDisk, snapshot, snapshotDisk, session, req,
                       locals, result, ghosts>>
    BY DEF TruncateJournal, Goto
  <1>2. /\ \A q \in Procs \ {p} : pc[q] \notin Critical
        /\ CheckpointInv(p) /\ UpToDate /\ Shows /\ ~torn /\ ~failed /\ ~dirty
        /\ sequence = Recorded /\ table = Latest
    BY <1>1, CheckpointFacts DEF CheckpointLabels
  <1>3. pc'[p] = "ckptFlush" /\ OnlyMoves(p)
    BY <1>1, MovesTo DEF locals
  <1>4. Announced
    BY <1>1, HistoryType DEF Announced, shared
  <1>5. Recorded' = Recorded /\ Latest' = Latest /\ DurableSeq' = DurableSeq
    BY <1>1 DEF Recorded, Latest, DurableSeq, ghosts
  <1>6. snapshot.seq = Recorded /\ snapshotDisk = snapshot
    BY <1>1, <1>2 DEF CheckpointInv
  <1>7. FilesInv'
    <2>1. Len(journal') = 0
      BY <1>1, EmptySeq
    <2>2. Explains(history', journal') /\ Meets(snapshotDisk', journal')
      BY <1>1, <2>1 DEF Explains, Meets
    <2>3. LastSeq(snapshot', journal') = Recorded'
      BY <1>1, <1>5, <1>6, Zenon DEF LastSeq
    <2>4. QED
      BY <1>1, <2>2, <2>3 DEF RecoveryInv, FilesInv, ghosts
  <1>8. PromiseInv'
    <2>1. DurableSeq = snapshotDisk.seq
      <3>1. snapshotDisk.seq <= DurableSeq /\ DurableSeq <= Recorded /\ DurableSeq \in Nat
        BY WithinHistory, HistoryType, LastSeqType DEF DurableSeq
      <3>2. QED
        BY <1>6, <3>1, HistoryType
    <2>2. QED
      BY <1>1, <1>5, <2>1 DEF RecoveryInv, PromiseInv, ghosts
  <1>9. GroupInv'
    BY <1>1, <1>2, <1>5, <1>6 DEF RecoveryInv, GroupInv, UpToDate, Shows, shared, ghosts
  <1>10. CheckpointInv(p)'
    BY <1>1, <1>2, <1>3, <1>5, <1>6 DEF CheckpointInv, UpToDate, shared, ghosts
  <1>11. WorkInv(p)' /\ pc'[p] \notin ReaderLabels
    BY <1>3, <1>10, AtOneLabel DEF CheckpointLabels, ReaderLabels
  <1>12. QED
    BY <1>2, <1>3, <1>4, <1>7, <1>8, <1>9, <1>11, HolderMoves

LEMMA StepFlushJournal ==
  ASSUME TypeInv, TypeInv', LockInv, RecoveryInv, NEW p \in Procs, FlushJournal(p)
  PROVE  RecoveryInv'
  <1>1. /\ pc[p] = "ckptFlush" /\ pc' = [pc EXCEPT ![p] = "unlock"]
        /\ result' = [result EXCEPT ![p] = "ok"]
        /\ journalDisk' = journal
        /\ promised' \in {promised, sequence}
        /\ UNCHANGED <<shared, journal, torn, snapshot, snapshotDisk, session,
                       req, locals, history, shown>>
    BY DEF FlushJournal, Goto, Return
  <1>2. /\ \A q \in Procs \ {p} : pc[q] \notin Critical
        /\ CheckpointInv(p) /\ UpToDate /\ Shows /\ ~torn /\ ~failed /\ ~dirty
        /\ sequence = Recorded /\ table = Latest
    BY <1>1, CheckpointFacts DEF CheckpointLabels
  <1>3. pc'[p] = "unlock" /\ OnlyMoves(p)
    BY <1>1, MovesTo DEF locals
  <1>4. Announced
    BY <1>1, HistoryType DEF Announced, shared
  <1>5. Recorded' = Recorded /\ Latest' = Latest
    BY <1>1 DEF Recorded, Latest
  <1>6. journal = <<>> /\ snapshotDisk = snapshot /\ snapshot.seq = Recorded
    BY <1>1, <1>2 DEF CheckpointInv
  <1>7. FilesInv'
    BY <1>1, <1>5 DEF RecoveryInv, FilesInv
  <1>8. PromiseInv'
    <2>1. DurableSeq' = Recorded
      BY <1>1, <1>6, Zenon DEF DurableSeq, LastSeq
    <2>2. promised' <= DurableSeq'
      BY <1>1, <1>2, <2>1, WithinHistory, HistoryType DEF RecoveryInv, PromiseInv
    <2>3. Continues(journal', journalDisk')
      BY <1>1, HistoryType, LenProperties DEF Continues, Logs
    <2>4. QED
      BY <2>2, <2>3 DEF PromiseInv
  <1>9. GroupInv'
    BY <1>1, <1>5 DEF RecoveryInv, GroupInv, UpToDate, Shows, shared
  <1>10. LeavingInv(p)'
    <2>1. UpToDate' /\ Shows'
      BY <1>1, <1>2, <1>5 DEF UpToDate, Shows, shared
    <2>2. req[p].op = "open" => shown = sequence
      BY <1>2 DEF CheckpointInv
    <2>3. QED
      BY <1>1, <1>2, <1>5, <1>6, <2>1, <2>2 DEF LeavingInv, shared
  <1>11. WorkInv(p)' /\ pc'[p] \notin ReaderLabels
    BY <1>3, <1>10, AtOneLabel DEF ReaderLabels
  <1>12. QED
    BY <1>2, <1>3, <1>4, <1>7, <1>8, <1>9, <1>11, HolderMoves

LEMMA StepCheckpointFail ==
  ASSUME TypeInv, TypeInv', LockInv, RecoveryInv, NEW p \in Procs, CheckpointFail(p)
  PROVE  RecoveryInv'
  <1>1. /\ pc[p] \in CheckpointLabels /\ pc' = [pc EXCEPT ![p] = "unlock"]
        /\ result' = [result EXCEPT ![p] = "error"]
        /\ UNCHANGED <<shared, disk, session, req, locals, ghosts>>
    BY DEF CheckpointFail, Goto, Return
  <1>2. (\A q \in Procs \ {p} : pc[q] \notin Critical) /\ Shows
    BY <1>1, CheckpointFacts
  <1>3. pc'[p] = "unlock" /\ OnlyMoves(p) /\ result'[p] = "error"
    BY <1>1, MovesTo DEF locals, TypeInv, TypeOK, LocalsOK
  <1>4. Announced
    BY <1>1, HistoryType DEF Announced, shared
  <1>5. /\ FilesInv' /\ PromiseInv'
        /\ Recorded' = Recorded /\ Latest' = Latest
    BY <1>1, FilesUndisturbed, PromiseUndisturbed DEF RecoveryInv, disk, ghosts
  <1>6. Shows'
    BY <1>1, <1>2, <1>5 DEF Shows, shared, ghosts
  <1>7. GroupInv'
    BY <1>1, <1>5 DEF RecoveryInv, GroupInv, UpToDate, Shows, shared, disk, ghosts
  <1>8. LeavingInv(p)'
    BY <1>3, <1>6 DEF LeavingInv
  <1>9. WorkInv(p)' /\ pc'[p] \notin ReaderLabels
    BY <1>3, <1>8, AtOneLabel DEF ReaderLabels
  <1>10. QED
    BY <1>2, <1>3, <1>4, <1>5, <1>7, <1>9, HolderMoves

-----------------------------------------------------------------------------
(* Lookup                                                                  *)

LEMMA StepLookup ==
  ASSUME TypeInv, TypeInv', LockInv, RecoveryInv, NEW p \in Procs, LookupSteps(p)
  PROVE  RecoveryInv'
  <1>1. UNCHANGED <<shared, disk, session, cursor, ghosts>>
    BY DEF LookupSteps, CheckFailed, ReadVersion, ReadInode, ReadUid, ReadMode, ReadWord, Recheck
  <1>2. OnlyMoves(p)
    <2>1. CASE CheckFailed(p) \/ Recheck(p)
      BY <2>1 DEF CheckFailed, Recheck, Goto, ReturnToCaller, OnlyMoves, TypeInv, TypeOK,
         ControlOK, LocalsOK
    <2>2. CASE ReadVersion(p)
      BY <2>2 DEF ReadVersion, Goto, OnlyMoves, TypeInv, TypeOK, ControlOK, LocalsOK
    <2>3. CASE ReadInode(p) \/ ReadUid(p) \/ ReadMode(p)
      BY <2>3 DEF ReadInode, ReadUid, ReadMode, ReadWord, Goto, OnlyMoves, TypeInv, TypeOK,
         ControlOK, LocalsOK
    <2>4. QED
      BY <2>1, <2>2, <2>3 DEF LookupSteps
  <1> USE DEF Critical, ReplayLabels, SetLabels, CheckpointLabels, ReaderLabels
  <1>3. CASE CheckFailed(p) \/ Recheck(p)
    <2>1. pc'[p] \in {"idle", "lookup", "readVersion"}
      BY <1>3 DEF CheckFailed, Recheck, Goto, TypeInv, TypeOK, ControlOK
    <2>2. pc'[p] \notin Critical /\ ReaderInv(p)'
      BY <2>1, AtOneLabel
    <2>3. QED
      BY <1>1, <1>2, <2>2, OutsiderMoves
  <1>4. CASE ReadVersion(p)
    <2>1. /\ pc'[p] = IF Odd(version) THEN "lock" ELSE "readInode"
          /\ saved'[p] = version
      BY <1>4 DEF ReadVersion, Goto, TypeInv, TypeOK, ControlOK, LocalsOK
    <2>2. pc'[p] \notin Critical
      BY <2>1
    <2>3. ReaderInv(p)'
      <3>1. pc'[p] \in ReaderLabels => pc'[p] = "readInode" /\ ~Odd(version)
        BY <2>1
      <3>2. version' = version /\ version \in Nat
        BY <1>1, HistoryType DEF shared
      <3>3. QED
        BY <2>1, <3>1, <3>2 DEF ReaderInv
    <2>4. QED
      BY <1>1, <1>2, <2>2, <2>3, OutsiderMoves
  <1>5. ASSUME ReadInode(p) \/ ReadUid(p) \/ ReadMode(p) PROVE RecoveryInv'
    <2> DEFINE f == req[p].file
    <2>1. /\ saved' = saved /\ req' = req /\ UNCHANGED <<version, table, failed>>
          /\ pc[p] \in {"readInode", "readUid", "readMode"}
      BY <1>1, <1>5 DEF ReadInode, ReadUid, ReadMode, ReadWord, shared
    <2>2. /\ pc'[p] = CASE pc[p] = "readInode" -> "readUid"
                        [] pc[p] = "readUid" -> "readMode"
                        [] OTHER -> "recheck"
      <3>1. CASE ReadInode(p)
        BY <3>1 DEF ReadInode, ReadWord, Goto, TypeInv, TypeOK, ControlOK
      <3>2. CASE ReadUid(p)
        BY <3>2 DEF ReadUid, ReadWord, Goto, TypeInv, TypeOK, ControlOK
      <3>3. CASE ReadMode(p)
        BY <3>3 DEF ReadMode, ReadWord, Goto, TypeInv, TypeOK, ControlOK
      <3>4. QED
        BY <1>5, <3>1, <3>2, <3>3
    <2>3. pc'[p] \in {"readUid", "readMode", "recheck"} /\ pc'[p] \notin Critical
      BY <2>1, <2>2
    <2>4. got[p] \in Slot
      BY DEF TypeInv, TypeOK, LocalsOK
    <2>5. /\ pc[p] = "readInode" => got'[p].inode = table[f].inode
          /\ pc[p] = "readUid" => got'[p].uid = table[f].uid /\ got'[p].inode = got[p].inode
          /\ pc[p] = "readMode" => /\ got'[p].mode = table[f].mode
                                   /\ got'[p].inode = got[p].inode
                                   /\ got'[p].uid = got[p].uid
      <3> USE <2>4 DEF Slot, ReadWord, Old, TypeInv, TypeOK, LocalsOK
      <3>1. CASE ReadInode(p)
        BY <3>1 DEF ReadInode
      <3>2. CASE ReadUid(p)
        BY <3>2 DEF ReadUid
      <3>3. CASE ReadMode(p)
        BY <3>3 DEF ReadMode
      <3>4. QED
        BY <1>5, <3>1, <3>2, <3>3
    <2>6. /\ ~Odd(saved[p]) /\ saved[p] <= version
          /\ ~failed /\ saved[p] = version =>
               /\ pc[p] # "readInode" => got[p].inode = table[f].inode
               /\ pc[p] = "readMode" => got[p].uid = table[f].uid
      BY <2>1 DEF RecoveryInv, ReaderInv
    <2>7. ReaderInv(p)'
      BY <2>1, <2>2, <2>3, <2>5, <2>6 DEF ReaderInv
    <2>8. QED
      BY <1>1, <1>2, <2>3, <2>7, OutsiderMoves
  <1>6. QED
    BY <1>3, <1>4, <1>5 DEF LookupSteps
-----------------------------------------------------------------------------
(* Kills and power failures                                                *)

LEMMA StepCrash ==
  ASSUME TypeInv, TypeInv', LockInv, RecoveryInv, NEW p \in Procs, Crash(p)
  PROVE  RecoveryInv'
  <1>1. /\ pc[p] # "idle" /\ pc' = [pc EXCEPT ![p] = "idle"]
        /\ torn' = torn \/ pc[p] = "append"
        /\ session' = IF session = "opening" THEN "down" ELSE session
        /\ UNCHANGED <<shared, journal, journalDisk, snapshot, snapshotDisk, cursor, ghosts>>
    BY DEF Crash, Goto
  <1>2. pc'[p] = "idle" /\ OnlyMoves(p)
    BY DEF Crash, Goto, ReturnToCaller, OnlyMoves, TypeInv, TypeOK, ControlOK, LocalsOK
  <1>3. Announced
    BY <1>1, HistoryType DEF Announced, shared
  <1>4. /\ FilesInv' /\ PromiseInv'
        /\ Recorded' = Recorded /\ Latest' = Latest
    BY <1>1, FilesUndisturbed, PromiseUndisturbed DEF RecoveryInv, ghosts
  <1>5. pc'[p] \notin Critical /\ pc'[p] \notin ReaderLabels
    BY <1>2 DEF Critical, ReplayLabels, SetLabels, CheckpointLabels, ReaderLabels
  <1>6. CASE pc[p] \in Critical
    <2>1. \A q \in Procs \ {p} : pc[q] \notin Critical
      BY <1>6, HoldersAreAlone
    <2>2. pc[p] = "append" => dirty
      <3>1. pc[p] = "append" => SetInv(p)
        BY HereNow DEF SetLabels
      <3>2. QED
        BY <3>1 DEF SetInv
    <2>3. GroupInv'
      <3>1. shown' <= Recorded'
        BY <1>1, <1>4 DEF RecoveryInv, GroupInv, ghosts
      <3>2. session' # "opening" /\ (session' = "up" => session = "up")
        BY <1>1
      <3>3. UpToDate => UpToDate'
        BY <1>1, <1>4 DEF UpToDate, shared
      <3>4. session' = "up" => torn' = torn \/ dirty
        BY <1>1, <2>2
      <3>5. QED
        BY <1>1, <1>4, <2>2, <3>1, <3>2, <3>3, <3>4 DEF RecoveryInv, GroupInv, Shows, shared, ghosts
    <2>4. WorkInv(p)'
      BY <1>5, AtOneLabel
    <2>5. QED
      BY <1>2, <1>3, <1>4, <1>5, <2>1, <2>3, <2>4, HolderMoves
  <1>7. CASE pc[p] \notin Critical
    <2>1. session # "opening"
      <3>1. ASSUME session = "opening" PROVE FALSE
        <4>1. req[p].op = "open"
          BY <1>1, <3>1 DEF LockInv, SessionMatchesRequests
        <4>2. pc[p] \notin LookupLabels \cup {"lock"}
          BY <4>1 DEF TypeInv, RequestMatchesLabel
        <4>3. QED
          BY <1>1, <1>7, <4>2 DEF TypeInv, TypeOK, ControlOK, Labels
      <3>2. QED
        BY <3>1
    <2>2. torn' = torn
      BY <1>7 DEF Crash, Critical, SetLabels
    <2>3. ReaderInv(p)'
      BY <1>5, AtOneLabel
    <2>4. QED
      BY <1>1, <1>2, <1>5, <2>1, <2>2, <2>3, OutsiderMoves DEF disk
  <1>8. QED
    BY <1>6, <1>7

(* Whatever a power failure leaves of the files explains itself, and holds *)
(* what is durable.                                                        *)
LEMMA WhatPowerLossLeaves ==
  ASSUME TypeInv, RecoveryInv,
         NEW log \in JournalsAfter, NEW snap \in {snapshot, snapshotDisk}
  PROVE  /\ log \in Logs /\ snap \in Snapshot
         /\ Explains(history, log) /\ Holds(history, snap) /\ Meets(snap, log)
         /\ LastSeq(snap, log) <= Recorded /\ DurableSeq <= LastSeq(snap, log)
  <1>1. FilesInv /\ PromiseInv
    BY DEF RecoveryInv
  <1>2. log = journalDisk \/ log \in Prefixes(journal)
    BY DEF JournalsAfter
  <1>3. /\ log \in Logs /\ snap \in Snapshot
        /\ Explains(history, log) /\ Holds(history, snap)
    BY <1>1, <1>2, HistoryType, PrefixesAreExplained DEF FilesInv
  <1>4. snapshotDisk.seq <= snap.seq /\ snap.seq \in Nat /\ snapshotDisk.seq \in Nat
    BY <1>1, HistoryType DEF FilesInv
  <1>5. log # <<>> => log[1].seq <= snapshotDisk.seq + 1
    BY <1>1, <1>2, HistoryType, PrefixesAreExplained DEF FilesInv, Meets
  <1>6. Meets(snap, log)
    <2>1. log # <<>> => log[1].seq \in Nat
      BY <1>3, LogEnds
    <2>2. QED
      BY <1>4, <1>5, <2>1 DEF Meets
  <1>7. /\ LastSeq(snap, log) \in Nat /\ snap.seq <= LastSeq(snap, log)
        /\ log # <<>> => log[Len(log)].seq <= LastSeq(snap, log)
        /\ \/ LastSeq(snap, log) = snap.seq
           \/ log # <<>> /\ LastSeq(snap, log) = log[Len(log)].seq
    BY <1>3, LastSeqType
  <1>8. LastSeq(snap, log) <= Recorded
    <2>1. log # <<>> => log[Len(log)].seq <= Recorded
      <3>1. ASSUME log # <<>> PROVE log[Len(log)].seq \in 1 .. Len(history) - 1
        BY <1>3, <3>1, LogEnds DEF Explains
      <3>2. QED
        BY <3>1, HistoryType DEF Recorded
    <2>2. QED
      BY <1>7, <2>1, WithinHistory
  <1>9. DurableSeq \in Nat /\ snapshotDisk.seq <= LastSeq(snap, log)
    BY <1>4, <1>7, WithinHistory
  <1>10. /\ \/ DurableSeq = snapshotDisk.seq
            \/ journalDisk # <<>> /\ DurableSeq = journalDisk[Len(journalDisk)].seq
    BY HistoryType, LastSeqType DEF DurableSeq
  <1>11. DurableSeq <= LastSeq(snap, log)
    <2>1. CASE DurableSeq = snapshotDisk.seq
      BY <1>9, <2>1
    <2>2. CASE log = journalDisk
      BY <1>7, <1>9, <1>10, <2>2
    <2>3. CASE /\ DurableSeq # snapshotDisk.seq /\ log # journalDisk
      <3>1. /\ Continues(journal, journalDisk) /\ journalDisk # <<>>
            /\ DurableSeq = journalDisk[Len(journalDisk)].seq
        BY <1>1, <1>10, <2>3 DEF PromiseInv
      <3>2. journalDisk \in Prefixes(journal)
        BY <3>1, HistoryType, ContinuedIsPrefix
      <3>3. log \in Prefixes(journal) /\ Len(log) >= Len(journalDisk)
        BY <2>3, <3>2 DEF JournalsAfter
      <3>4. /\ Len(log) \in Nat /\ Len(journalDisk) \in Nat /\ Len(journalDisk) >= 1
            /\ Len(journalDisk) \in 1 .. Len(journalDisk)
        BY <1>3, <3>1, HistoryType, LogEnds, LenProperties DEF Logs
      <3>5. log # <<>> /\ Len(journalDisk) \in 1 .. Len(log) /\ Len(log) \in 1 .. Len(log)
              /\ 1 \in 1 .. Len(log)
        BY <3>3, <3>4, EmptySeq
      <3>6. Continues(journal, log)
        BY <3>3, HistoryType, PrefixesAreExplained
      <3>7. log[Len(journalDisk)] = journalDisk[Len(journalDisk)]
        BY <3>1, <3>4, <3>5, <3>6 DEF Continues
      <3>8. /\ log[Len(log)].seq = log[1].seq + (Len(log) - 1)
            /\ log[Len(journalDisk)].seq = log[1].seq + (Len(journalDisk) - 1)
            /\ log[1].seq \in Nat
        BY <1>3, <3>5, LogElements DEF Explains
      <3>9. log[Len(journalDisk)].seq <= log[Len(log)].seq
        BY <3>3, <3>4, <3>8
      <3>10. log[Len(log)].seq \in Nat
        BY <1>3, <3>5, LogElements
      <3>11. QED
        BY <1>7, <1>9, <3>1, <3>5, <3>7, <3>9, <3>10
    <2>4. QED
      BY <2>1, <2>2, <2>3
  <1>12. QED
    BY <1>3, <1>6, <1>8, <1>11

LEMMA StepPowerLoss ==
  ASSUME TypeInv, TypeInv', LockInv, RecoveryInv, PowerLoss
  PROVE  /\ RecoveryInv'
         /\ Recorded' = LastSeq(snapshot', journal')
         /\ DurableSeq' = Recorded' /\ DurableSeq <= Recorded' /\ Recorded' <= Recorded
         /\ history' = SubSeq(history, 1, Recorded' + 1)
         /\ shown' = AtMost(shown, Recorded')
  <1> DEFINE kept == LastSeq(snapshot', journal')
  <1>1. /\ journal' \in JournalsAfter /\ journalDisk' = journal'
        /\ snapshot' \in {snapshot, snapshotDisk} /\ snapshotDisk' = snapshot'
        /\ history' = SubSeq(history, 1, AtMost(kept, Recorded) + 1)
        /\ shown' = AtMost(shown, AtMost(kept, Recorded))
        /\ session' = "down" /\ pc' = [q \in Procs |-> "idle"]
        /\ promised' = promised
    BY DEF PowerLoss
  <1>2. /\ journal' \in Logs /\ snapshot' \in Snapshot
        /\ Explains(history, journal') /\ Holds(history, snapshot')
        /\ Meets(snapshot', journal')
        /\ kept <= Recorded /\ DurableSeq <= kept
    BY <1>1, WhatPowerLossLeaves
  <1>3. /\ kept \in Nat /\ snapshot'.seq \in Nat /\ snapshot'.seq <= kept
        /\ journal' # <<>> => journal'[Len(journal')].seq <= kept
    BY <1>2, LastSeqType
  <1> HIDE DEF kept
  <1>4. /\ Recorded \in Nat /\ Recorded + 1 = Len(history) /\ history \in Maps
        /\ DurableSeq \in Nat /\ promised \in Nat /\ shown \in Nat
    BY HistoryType, WithinHistory
  <1>5. AtMost(kept, Recorded) = kept
    BY <1>2, <1>3, <1>4 DEF AtMost
  <1>6. /\ history' \in Maps /\ Len(history') = kept + 1
        /\ \A i \in 1 .. kept + 1 : history'[i] = history[i]
    <2>1. \A i \in 1 .. kept + 1 : history[i] \in [Files -> Slot]
      BY <1>2, <1>3, <1>4, ElementOfSeq DEF Maps
    <2>2. history' = SubSeq(history, 1, kept + 1)
      BY <1>1, <1>5
    <2>3. QED
      BY <1>3, <2>1, <2>2, SubSeqProperties DEF Maps
  <1>7. Recorded' = kept
    BY <1>3, <1>6 DEF Recorded
  <1>8. Explains(history', journal') /\ Holds(history', snapshot')
    <2>1. kept + 1 <= Len(history) /\ kept + 1 <= Len(history')
      BY <1>2, <1>3, <1>4, <1>6
    <2>2. QED
      BY <1>2, <1>3, <1>4, <1>6, <2>1, OtherHistory
  <1>9. FilesInv'
    BY <1>1, <1>2, <1>3, <1>7, <1>8 DEF FilesInv, kept
  <1>10. DurableSeq' = kept
    BY <1>1 DEF DurableSeq, kept
  <1>11. PromiseInv'
    <2>1. promised' <= DurableSeq'
      BY <1>1, <1>2, <1>3, <1>4, <1>10 DEF RecoveryInv, PromiseInv
    <2>2. Continues(journal', journalDisk')
      BY <1>1, <1>2, LenProperties DEF Continues, Logs
    <2>3. QED
      BY <2>1, <2>2 DEF PromiseInv
  <1>12. GroupInv'
    BY <1>1, <1>3, <1>4, <1>5, <1>7 DEF GroupInv, AtMost
  <1>13. \A q \in Procs : WorkInv(q)' /\ ReaderInv(q)'
    BY <1>1, AtOneLabel DEF Critical, ReplayLabels, SetLabels, CheckpointLabels, ReaderLabels
  <1>14. RecoveryInv'
    BY <1>9, <1>11, <1>12, <1>13 DEF RecoveryInv
  <1>15. QED
    BY <1>1, <1>2, <1>5, <1>7, <1>10, <1>14 DEF kept

-----------------------------------------------------------------------------
(* The theorems                                                            *)

LEMMA RecoveryInit == Init => RecoveryInv
  <1> SUFFICES ASSUME Init PROVE RecoveryInv
    OBVIOUS
  <1>0. TypeInv
    BY TypeInit
  <1>1. /\ journal = <<>> /\ journalDisk = <<>> /\ snapshotDisk = snapshot
        /\ snapshot.seq = 0 /\ snapshot.map = EmptyMap
        /\ history = <<EmptyMap>> /\ shown = 0 /\ promised = 0 /\ session = "down"
        /\ \A p \in Procs : pc[p] = "idle"
    BY DEF Init
  <1>2. Len(journal) = 0 /\ Len(history) = 1 /\ history[1] = EmptyMap
    BY <1>1, EmptySeq
  <1>3. Recorded = 0
    BY <1>2 DEF Recorded
  <1>4. LastSeq(snapshot, journal) = 0 /\ DurableSeq = 0
    BY <1>1, Zenon DEF LastSeq, DurableSeq
  <1>5. Explains(history, journal) /\ Explains(history, journalDisk)
    BY <1>1, <1>2 DEF Explains
  <1>6. Holds(history, snapshot) /\ Holds(history, snapshotDisk)
    BY <1>1, <1>2 DEF Holds
  <1>7. FilesInv
    BY <1>1, <1>3, <1>4, <1>5, <1>6 DEF FilesInv, Meets
  <1>8. PromiseInv
    BY <1>1, <1>4 DEF PromiseInv
  <1>9. GroupInv
    BY <1>1, <1>3 DEF GroupInv
  <1>10. \A p \in Procs : WorkInv(p) /\ ReaderInv(p)
    BY <1>1 DEF WorkInv, ReaderInv, ReplayLabels, SetLabels, CheckpointLabels
  <1>11. QED
    BY <1>7, <1>8, <1>9, <1>10 DEF RecoveryInv

LEMMA RecoveryStutter ==
  ASSUME RecoveryInv, UNCHANGED vars
  PROVE  RecoveryInv'
  <1> USE DEF vars, shared, disk, locals, ghosts
  <1>1. /\ FilesInv' /\ PromiseInv'
        /\ Recorded' = Recorded /\ Latest' = Latest
    BY FilesUndisturbed, PromiseUndisturbed DEF RecoveryInv
  <1>2. GroupInv'
    BY <1>1 DEF RecoveryInv, GroupInv, UpToDate, Shows
  <1>3. ASSUME NEW p \in Procs PROVE WorkInv(p)' /\ ReaderInv(p)'
    <2>1. ReplayInv(p) => ReplayInv(p)'
      BY <1>1 DEF ReplayInv, UpToDate, Shows
    <2>2. SetInv(p) => SetInv(p)'
      BY <1>1 DEF SetInv, UpToDate, Shows
    <2>3. CheckpointInv(p) => CheckpointInv(p)'
      BY <1>1 DEF CheckpointInv, UpToDate, Shows
    <2>4. LeavingInv(p) => LeavingInv(p)'
      BY <1>1 DEF LeavingInv, UpToDate, Shows
    <2>5. WorkInv(p)'
      BY <2>1, <2>2, <2>3, <2>4 DEF RecoveryInv, WorkInv
    <2>6. ReaderInv(p)'
      BY DEF RecoveryInv, ReaderInv
    <2>7. QED
      BY <2>5, <2>6
  <1>4. QED
    BY <1>1, <1>2, <1>3 DEF RecoveryInv

LEMMA RecoveryNext == TypeInv /\ LockInv /\ RecoveryInv /\ [Next]_vars => RecoveryInv'
  <1> SUFFICES ASSUME TypeInv, LockInv, RecoveryInv, [Next]_vars
               PROVE  RecoveryInv'
    OBVIOUS
  <1>0. TypeInv'
    BY TypeNext
  <1>1. ASSUME NEW p \in Procs, LockSteps(p) PROVE RecoveryInv'
    BY <1>0, <1>1, StepAcquireLock, StepUnlockVersion, StepReleaseLock DEF LockSteps
  <1>2. ASSUME NEW p \in Procs, ReplaySteps(p) PROVE RecoveryInv'
    BY <1>0, <1>2, StepReplayBegin, StepReplayZero, StepReplaySnapshot, StepReplayRecord,
       StepReplayFinish, StepReplayPublish, StepReplayFail DEF ReplaySteps
  <1>3. ASSUME NEW p \in Procs, SetSteps(p) PROVE RecoveryInv'
    BY <1>0, <1>3, StepCompare, StepAppendRecord, StepAppendFail, StepSyncJournal,
       StepSyncFail, StepAdvance, StepPutInode, StepPutUid, StepPutMode, StepPutEnd,
       StepClearDirty DEF SetSteps
  <1>4. ASSUME NEW p \in Procs, CheckpointSteps(p) PROVE RecoveryInv'
    BY <1>0, <1>4, StepWriteSnapshot, StepSyncDirectory, StepTruncateJournal,
       StepFlushJournal, StepCheckpointFail DEF CheckpointSteps
  <1>5. ASSUME NEW p \in Procs, LookupSteps(p) PROVE RecoveryInv'
    BY <1>0, <1>5, StepLookup
  <1>6. ASSUME NEW p \in Procs, OpenFirst(p) \/ StartSet(p) \/ StartLookup(p) \/ Crash(p)
        PROVE  RecoveryInv'
    BY <1>0, <1>6, StepOpenFirst, StepStart, StepCrash
  <1>7. CASE PowerLoss
    BY <1>0, <1>7, StepPowerLoss
  <1>8. CASE UNCHANGED vars
    BY <1>8, RecoveryStutter
  <1>9. QED
    BY <1>1, <1>2, <1>3, <1>4, <1>5, <1>6, <1>7, <1>8 DEF Next, Step

StoreInv == TypeInv /\ LockInv /\ RecoveryInv

LEMMA StoreInvariant == Spec => []StoreInv
  <1>1. Init => StoreInv
    BY TypeInit, LockInit, RecoveryInit DEF StoreInv
  <1>2. StoreInv /\ [Next]_vars => StoreInv'
    BY TypeNext, LockNext, RecoveryNext DEF StoreInv
  <1>3. QED
    BY <1>1, <1>2, PTL DEF Spec

(* Nothing is ever appended after the fragment of a record that a killed   *)
(* writer or a full disk left at the end of the journal.                   *)
THEOREM JournalStaysReadable == Spec => []AppendsAtBoundary
  <1>1. StoreInv => AppendsAtBoundary
    BY HereNow DEF StoreInv, AppendsAtBoundary, SetInv, SetLabels
  <1>2. QED
    BY <1>1, StoreInvariant, PTL

(* No recovery is refused: whatever was killed and whichever versions of   *)
(* the files survived, each record is the next one or in the snapshot.     *)
THEOREM RecoveryNeverRefuses == Spec => []RecoveryAccepts
  <1>1. StoreInv => RecoveryAccepts
    <2> SUFFICES ASSUME StoreInv, NEW p \in Procs,
                        pc[p] = "replayJournal", cursor <= Len(journal),
                        journal[cursor].seq > checkpoint
                 PROVE  journal[cursor].seq = sequence + 1
      BY DEF RecoveryAccepts
    <2>1. checkpoint = snapshot.seq
      BY HereNow DEF StoreInv, ReplayInv, ReplayLabels
    <2>2. QED
      BY <2>1, NextInJournal DEF StoreInv
  <1>2. QED
    BY <1>1, StoreInvariant, PTL

(* A recovery rebuilds the map of all records ever appended, no more and   *)
(* no less, before anyone can read it.                                     *)
THEOREM RecoveryRebuildsTheMap == Spec => []RecoveryIsExact
  <1>1. StoreInv => RecoveryIsExact
    BY HereNow DEF StoreInv, RecoveryIsExact, ReplayInv, ReplayLabels, UpToDate
  <1>2. QED
    BY <1>1, StoreInvariant, PTL

(* What a durable Set has acknowledged is recorded for ever, through every *)
(* kill and every power failure.                                           *)
THEOREM DurableSetsSurvive == Spec => []DurableSetSurvives
  <1>1. StoreInv => DurableSetSurvives
    <2> SUFFICES ASSUME StoreInv PROVE promised <= Recorded
      BY DEF DurableSetSurvives
    <2>1. promised <= DurableSeq /\ DurableSeq <= Recorded
      BY WithinHistory DEF StoreInv, RecoveryInv, PromiseInv
    <2>2. promised \in Nat /\ DurableSeq \in Nat /\ Recorded \in Nat
      BY WithinHistory, HistoryType DEF StoreInv
    <2>3. QED
      BY <2>1, <2>2
  <1>2. QED
    BY <1>1, StoreInvariant, PTL

(* A Lookup never returns a mixture of two records, nor a record of a      *)
(* table that is being rebuilt, however its reads interleave with writers, *)
(* kills and recoveries.                                                   *)
THEOREM LookupsAreAtomic == Spec => []ReadIsCurrentUnlessFailed
  <1>1. StoreInv => ReadIsCurrentUnlessFailed
    <2> SUFFICES ASSUME StoreInv, ~failed, NEW p \in Procs,
                        pc[p] = "recheck", version = saved[p]
                 PROVE  got[p] = history[shown + 1][req[p].file]
      BY DEF ReadIsCurrentUnlessFailed, ReadIsCurrent
    <2>1. /\ ~Odd(version)
          /\ got[p].inode = table[req[p].file].inode
          /\ got[p].uid = table[req[p].file].uid
          /\ got[p].mode = table[req[p].file].mode
      BY DEF StoreInv, RecoveryInv, ReaderInv
    <2>2. req[p].op = "lookup" /\ req[p].file \in Files
      BY LookupRequestType DEF StoreInv, TypeInv, TypeOK, ControlOK, RequestMatchesLabel,
         LookupLabels
    <2>3. session = "up"
      BY <2>2 DEF StoreInv, TypeInv, TypeOK, ControlOK, LockInv, SessionMatchesRequests
    <2>4. table = history[shown + 1]
      BY <2>1, <2>3 DEF StoreInv, RecoveryInv, GroupInv, Shows
    <2>5. got[p] = table[req[p].file]
      <3>1. got[p] \in Slot /\ table[req[p].file] \in Slot
        BY <2>2 DEF StoreInv, TypeInv, TypeOK, LocalsOK, SharedOK
      <3>2. QED
        BY <2>1, <3>1 DEF Slot
    <2>6. QED
      BY <2>4, <2>5
  <1>2. QED
    BY <1>1, StoreInvariant, PTL

(* A compare-and-swap appends its record only when the map of all recorded *)
(* changes holds the record it names.                                      *)
THEOREM SwapsCompareWhatTheyReplace == Spec => CasReplacesPrevious
  <1>1. ASSUME StoreInv, [Next]_vars
        PROVE  [\A p \in Procs :
                  pc[p] = "append" /\ Len(history') > Len(history)
                    /\ req[p].previous # AnyOwner
                    => SameOwner(Latest[req[p].file], req[p].previous)]_vars
    <2>1. ASSUME NEW p \in Procs, pc[p] = "append", req[p].previous # AnyOwner
          PROVE  SameOwner(Latest[req[p].file], req[p].previous)
      BY <1>1, <2>1, HereNow DEF StoreInv, SetInv, SetLabels, UpToDate
    <2>2. QED
      BY <2>1
  <1>2. QED
    BY <1>1, StoreInvariant, PTL DEF Spec, CasReplacesPrevious

-----------------------------------------------------------------------------
(* The store implements the abstract map                                   *)

(* What readers see never goes back: a writer whose fdatasync failed, and  *)
(* whoever unlocks after a killed one, publishes at least what is visible. *)
PublishLabels == {"sync", "unlock", "release"}

VisibleInv ==
  session = "up" /\ ~failed =>
    \A p \in Procs : pc[p] \in PublishLabels => shown <= sequence

MapInv  == StoreInv /\ VisibleInv
MapStep == [Abstract!Next]_Abstract!vars

LEMMA HolderPublishes ==
  ASSUME TypeInv, LockInv, NEW p \in Procs, pc[p] \in Critical,
         NEW l, pc' = [pc EXCEPT ![p] = l],
         l \in PublishLabels /\ session' = "up" /\ ~failed' => shown' <= sequence'
  PROVE  VisibleInv'
  <1>1. \A q \in Procs \ {p} : pc[q] \notin PublishLabels
    BY HoldersAreAlone DEF Critical, PublishLabels, SetLabels
  <1>2. \A q \in Procs : pc'[q] = IF q = p THEN l ELSE pc[q]
    BY DEF TypeInv, TypeOK, ControlOK
  <1>3. QED
    BY <1>1, <1>2 DEF VisibleInv

LEMMA OutsiderPublishesNothing ==
  ASSUME TypeInv, VisibleInv, NEW p \in Procs,
         NEW l, pc' = [pc EXCEPT ![p] = l], l \notin PublishLabels,
         session' = "up" => session = "up", UNCHANGED <<failed, shown, sequence>>
  PROVE  VisibleInv'
  <1>1. \A q \in Procs : pc'[q] = IF q = p THEN l ELSE pc[q]
    BY DEF TypeInv, TypeOK, ControlOK
  <1>2. QED
    BY <1>1 DEF VisibleInv

(* The steps that the abstract map does not see.                           *)
LEMMA MapStutters ==
  ASSUME UNCHANGED <<history, shown, journalDisk, snapshotDisk>>
  PROVE  MapStep
  BY DEF MapStep, Abstract!vars, DurableSeq, LastSeq

(* Readers see more of what is recorded.                                   *)
LEMMA MapPublishes ==
  ASSUME TypeInv, TypeInv', RecoveryInv', shown <= shown',
         UNCHANGED <<history, journalDisk, snapshotDisk>>
  PROVE  MapStep
  <1>1. shown \in Nat /\ shown' \in Nat /\ Recorded \in Nat
    BY HistoryType DEF TypeInv, TypeOK, GhostsOK
  <1>2. DurableSeq' = DurableSeq /\ Recorded' = Recorded
    BY DEF DurableSeq, LastSeq, Recorded
  <1>3. shown' <= Recorded
    BY <1>2 DEF RecoveryInv, GroupInv
  <1>4. CASE shown' = shown
    BY <1>4, MapStutters
  <1>5. CASE shown' # shown
    <2>1. shown' \in shown + 1 .. Recorded
      BY <1>1, <1>3, <1>5
    <2>2. Abstract!Publish
      BY <1>2, <2>1 DEF Abstract!Publish, Abstract!Changes, Recorded
    <2>3. QED
      BY <2>2 DEF MapStep, Abstract!Next
  <1>6. QED
    BY <1>4, <1>5

(* Everything recorded has reached the medium.                             *)
LEMMA MapHardens ==
  ASSUME TypeInv, RecoveryInv, DurableSeq' = Recorded, UNCHANGED <<history, shown>>
  PROVE  MapStep
  <1>1. DurableSeq \in Nat /\ Recorded \in Nat /\ DurableSeq <= Recorded
    BY WithinHistory, HistoryType
  <1>2. CASE DurableSeq = Recorded
    BY <1>2 DEF MapStep, Abstract!vars
  <1>3. CASE DurableSeq # Recorded
    <2>1. Abstract!Harden
      BY <1>1, <1>3 DEF Abstract!Harden, Abstract!Changes, Recorded
    <2>2. QED
      BY <2>1 DEF MapStep, Abstract!Next
  <1>4. QED
    BY <1>2, <1>3

LEMMA MapLockSteps ==
  ASSUME TypeInv, TypeInv', LockInv, RecoveryInv, RecoveryInv', VisibleInv,
         NEW p \in Procs, LockSteps(p)
  PROVE  VisibleInv' /\ MapStep
  <1>1. CASE AcquireLock(p)
    <2>1. /\ pc[p] = "lock" /\ lock = NoProc /\ shown' = shown /\ sequence' = sequence
          /\ failed' = failed
          /\ UNCHANGED <<history, shown, journalDisk, snapshotDisk>>
      BY <1>1 DEF AcquireLock, shared, disk, ghosts
    <2>2. \A q \in Procs : pc[q] \notin PublishLabels
      BY <2>1, ProcsAssumption DEF LockInv, WriterExclusion, PublishLabels, Critical, SetLabels
    <2>3. session = "up"
      BY <2>1 DEF LockInv, SessionMatchesRequests, TypeInv, TypeOK, ControlOK,
         RequestMatchesLabel
    <2>4. ASSUME ~failed, NEW q \in Procs, pc'[q] \in PublishLabels
          PROVE  shown <= sequence
      <3>1. q = p
        BY <1>1, <2>2, <2>4 DEF AcquireLock, Goto, TypeInv, TypeOK, ControlOK
      <3>2. ~dirty
        <4>1. ASSUME dirty PROVE pc'[p] = "replay"
          BY <1>1, <4>1 DEF AcquireLock, Goto, TypeInv, TypeOK, ControlOK
        <4>2. QED
          BY <2>4, <3>1, <4>1 DEF PublishLabels
      <3>3. UpToDate /\ shown <= Recorded
        BY <2>3, <2>4, <3>2 DEF RecoveryInv, GroupInv
      <3>4. QED
        BY <3>3 DEF UpToDate
    <2>5. VisibleInv'
      BY <2>1, <2>4 DEF VisibleInv
    <2>6. QED
      BY <2>1, <2>5, MapStutters
  <1>2. CASE UnlockVersion(p)
    <2>1. /\ pc[p] = "unlock" /\ pc[p] \in Critical
          /\ pc' = [pc EXCEPT ![p] = "release"]
          /\ shown' = IF Odd(version) /\ ~failed /\ session = "up" THEN sequence ELSE shown
          /\ UNCHANGED <<sequence, failed, session, history, journalDisk, snapshotDisk>>
      BY <1>2 DEF UnlockVersion, Goto, Critical, disk
    <2>2. session = "up" /\ ~failed => shown <= sequence
      BY <2>1 DEF VisibleInv, PublishLabels
    <2>3. shown \in Nat /\ sequence \in Nat
      BY HistoryType
    <2>4. shown <= shown' /\ (session' = "up" /\ ~failed' => shown' <= sequence')
      BY <2>1, <2>2, <2>3
    <2>5. VisibleInv'
      BY <2>1, <2>4, HolderPublishes
    <2>6. QED
      BY <2>1, <2>4, <2>5, MapPublishes
  <1>3. CASE ReleaseLock(p)
    <2>1. /\ pc[p] = "release" /\ pc[p] \in Critical
          /\ \E l \in {"lookup", "idle"} : pc' = [pc EXCEPT ![p] = l]
          /\ UNCHANGED <<history, shown, journalDisk, snapshotDisk>>
      BY <1>3 DEF ReleaseLock, Goto, Critical, disk, ghosts
    <2>2. VisibleInv'
      BY <2>1, HolderPublishes DEF PublishLabels
    <2>3. QED
      BY <2>1, <2>2, MapStutters
  <1>4. QED
    BY <1>1, <1>2, <1>3 DEF LockSteps

LEMMA MapReplaySteps ==
  ASSUME TypeInv, TypeInv', LockInv, RecoveryInv, RecoveryInv', VisibleInv,
         NEW p \in Procs, ReplaySteps(p)
  PROVE  VisibleInv' /\ MapStep
  <1>1. CASE \/ ReplayBegin(p) \/ ReplayZero(p) \/ ReplaySnapshot(p)
             \/ ReplayRecord(p) \/ ReplayFinish(p)
    <2>1. /\ pc[p] \in Critical
          /\ UNCHANGED <<history, shown, journalDisk, snapshotDisk>>
      BY <1>1 DEF ReplayBegin, ReplayZero, ReplaySnapshot, ReplayRecord, ReplayFinish,
         Critical, ReplayLabels, disk, ghosts
    <2>2. \E l \in ReplayLabels : pc' = [pc EXCEPT ![p] = l]
      <3>1. CASE ReplayRecord(p)
        <4>1. pc[p] \in ReplayLabels /\ pc' = pc
          BY <3>1 DEF ReplayRecord, ReplayLabels
        <4>2. pc' = [pc EXCEPT ![p] = pc[p]]
          BY <4>1 DEF TypeInv, TypeOK, ControlOK
        <4>3. QED
          BY <4>1, <4>2
      <3>2. CASE ReplayBegin(p) \/ ReplayZero(p) \/ ReplaySnapshot(p) \/ ReplayFinish(p)
        BY <3>2 DEF ReplayBegin, ReplayZero, ReplaySnapshot, ReplayFinish, Goto, ReplayLabels
      <3>3. QED
        BY <1>1, <3>1, <3>2
    <2>3. VisibleInv'
      BY <2>1, <2>2, HolderPublishes DEF PublishLabels, ReplayLabels
    <2>4. QED
      BY <2>1, <2>3, MapStutters
  <1>2. CASE ReplayPublish(p)
    <2>1. /\ pc[p] = "replayPublish" /\ pc[p] \in ReplayLabels /\ pc[p] \in Critical
          /\ shown' = IF failed THEN shown ELSE sequence
          /\ UNCHANGED <<sequence, failed, history, journalDisk, snapshotDisk>>
      BY <1>2 DEF ReplayPublish, Critical, ReplayLabels, disk
    <2>2. sequence = Recorded /\ shown <= Recorded /\ shown \in Nat
      BY <2>1, HereNow, HistoryType DEF ReplayInv, UpToDate, RecoveryInv, GroupInv
    <2>3. shown <= shown' /\ (~failed' => shown' <= sequence')
      BY <2>1, <2>2, HistoryType
    <2>4. \E l : pc' = [pc EXCEPT ![p] = l]
      BY <1>2 DEF ReplayPublish, Goto
    <2>5. VisibleInv'
      BY <2>1, <2>3, <2>4, HolderPublishes
    <2>6. QED
      BY <2>1, <2>3, <2>5, MapPublishes
  <1>3. CASE ReplayFail(p)
    <2>1. /\ pc[p] \in Critical /\ pc[p] # "idle" /\ failed' = (req[p].op # "open")
          /\ pc' = [pc EXCEPT ![p] = "unlock"] /\ session' = session
          /\ UNCHANGED <<history, shown, journalDisk, snapshotDisk>>
      BY <1>3 DEF ReplayFail, Goto, Critical, ReplayLabels, disk, ghosts
    <2>2. session' = "up" => failed'
      BY <2>1 DEF LockInv, SessionMatchesRequests
    <2>3. VisibleInv'
      BY <2>1, <2>2, HolderPublishes
    <2>4. QED
      BY <2>1, <2>3, MapStutters
  <1>4. QED
    BY <1>1, <1>2, <1>3 DEF ReplaySteps

LEMMA MapSetSteps ==
  ASSUME TypeInv, TypeInv', LockInv, RecoveryInv, RecoveryInv', VisibleInv,
         NEW p \in Procs, SetSteps(p)
  PROVE  VisibleInv' /\ MapStep
  <1>1. /\ pc[p] \in Critical /\ session = "up" /\ SetInv(p)
        /\ req[p].file \in Files /\ req[p].owner \in Owners
    <2>1. pc[p] \in SetLabels
      BY DEF SetSteps, Compare, AppendRecord, AppendFail, SyncJournal, SyncFail, Advance,
         PutInode, PutUid, PutMode, WriteWord, PutEnd, ClearDirty, SetLabels
    <2>2. QED
      BY <2>1, SetFacts DEF Critical
  <1>2. shown <= Recorded /\ ~failed
    BY <1>1 DEF RecoveryInv, GroupInv, SetInv
  <1>3. CASE Compare(p) \/ AppendFail(p) \/ ClearDirty(p)
    <2>1. /\ pc[p] \in {"compare", "append", "clean"}
          /\ \E l : pc' = [pc EXCEPT ![p] = l]
          /\ UNCHANGED <<sequence, history, shown, journalDisk, snapshotDisk>>
      BY <1>3 DEF Compare, AppendFail, ClearDirty, Goto, shared, disk, ghosts
    <2>2. shown' <= sequence'
      BY <1>1, <1>2, <2>1 DEF SetInv, UpToDate
    <2>3. VisibleInv'
      BY <1>1, <2>1, <2>2, HolderPublishes
    <2>4. QED
      BY <2>1, <2>3, MapStutters
  <1>4. CASE AppendRecord(p)
    <2> DEFINE f == req[p].file
               owner == req[p].owner
    <2>1. /\ pc[p] = "append" /\ \E l : pc' = [pc EXCEPT ![p] = l]
          /\ history' = Append(history, [Latest EXCEPT ![f] = owner])
          /\ UNCHANGED <<sequence, shown, journalDisk, snapshotDisk>>
      BY <1>4 DEF AppendRecord, Goto, shared
    <2>2. shown' <= sequence'
      BY <1>1, <1>2, <2>1 DEF SetInv, UpToDate
    <2>3. VisibleInv'
      BY <1>1, <2>1, <2>2, HolderPublishes
    <2>4. Abstract!Change(f, owner)
      BY <2>1 DEF Abstract!Change, Latest, DurableSeq, LastSeq
    <2>5. QED
      BY <1>1, <2>3, <2>4 DEF MapStep, Abstract!Next
  <1>5. CASE SyncJournal(p)
    <2>1. /\ pc' = [pc EXCEPT ![p] = "advance"] /\ journalDisk' = journal
          /\ UNCHANGED <<history, shown, snapshotDisk>>
      BY <1>5 DEF SyncJournal, Goto, ghosts
    <2>2. DurableSeq' = Recorded
      BY <1>1, <2>1, WithinHistory DEF DurableSeq
    <2>3. VisibleInv'
      BY <1>1, <2>1, HolderPublishes DEF PublishLabels
    <2>4. QED
      BY <2>1, <2>2, <2>3, MapHardens
  <1>6. CASE SyncFail(p)
    <2>1. /\ pc[p] = "sync" /\ pc' = [pc EXCEPT ![p] = "unlock"]
          /\ UNCHANGED <<sequence, history, shown, journalDisk, snapshotDisk>>
      BY <1>6 DEF SyncFail, Goto, shared, disk, ghosts
    <2>2. shown' <= sequence'
      BY <1>1, <1>2, <2>1 DEF VisibleInv, PublishLabels
    <2>3. VisibleInv'
      BY <1>1, <2>1, <2>2, HolderPublishes
    <2>4. QED
      BY <2>1, <2>3, MapStutters
  <1>7. CASE Advance(p) \/ PutInode(p) \/ PutUid(p) \/ PutMode(p)
    <2>1. /\ \E l \in PutLabels : pc' = [pc EXCEPT ![p] = l]
          /\ UNCHANGED <<history, shown, journalDisk, snapshotDisk>>
      BY <1>7 DEF Advance, PutInode, PutUid, PutMode, WriteWord, Goto, PutLabels, disk, ghosts
    <2>2. VisibleInv'
      BY <1>1, <2>1, HolderPublishes DEF PublishLabels, PutLabels
    <2>3. QED
      BY <2>1, <2>2, MapStutters
  <1>8. CASE PutEnd(p)
    <2>1. /\ pc[p] = "putEnd" /\ pc' = [pc EXCEPT ![p] = "clean"]
          /\ shown' = IF Odd(saved[p]) THEN shown ELSE sequence
          /\ UNCHANGED <<history, journalDisk, snapshotDisk>>
      BY <1>8 DEF PutEnd, Goto, disk
    <2>2. sequence = Recorded /\ shown \in Nat
      BY <1>1, <2>1, HistoryType DEF SetInv, PutLabels
    <2>3. shown <= shown'
      BY <1>2, <2>1, <2>2
    <2>4. VisibleInv'
      BY <1>1, <2>1, HolderPublishes DEF PublishLabels
    <2>5. QED
      BY <2>1, <2>3, <2>4, MapPublishes
  <1>9. QED
    BY <1>3, <1>4, <1>5, <1>6, <1>7, <1>8 DEF SetSteps

LEMMA MapCheckpointSteps ==
  ASSUME TypeInv, TypeInv', LockInv, RecoveryInv, RecoveryInv', VisibleInv,
         NEW p \in Procs, CheckpointSteps(p)
  PROVE  VisibleInv' /\ MapStep
  <1>1. pc[p] \in CheckpointLabels /\ pc[p] \in Critical
    BY DEF CheckpointSteps, WriteSnapshot, SyncDirectory, TruncateJournal, FlushJournal,
       CheckpointFail, CheckpointLabels, Critical
  <1>2. CheckpointInv(p) /\ sequence = Recorded /\ shown <= Recorded
    BY <1>1, CheckpointFacts DEF RecoveryInv, GroupInv
  <1>3. VisibleInv'
    <2>1. \E l : pc' = [pc EXCEPT ![p] = l]
      BY DEF CheckpointSteps, WriteSnapshot, SyncDirectory, TruncateJournal, FlushJournal,
         CheckpointFail, Goto
    <2>2. UNCHANGED <<shown, sequence>>
      BY DEF CheckpointSteps, WriteSnapshot, SyncDirectory, TruncateJournal, FlushJournal,
         CheckpointFail, shared, ghosts
    <2>3. QED
      BY <1>1, <1>2, <2>1, <2>2, HolderPublishes
  <1>4. CASE WriteSnapshot(p) \/ TruncateJournal(p) \/ CheckpointFail(p)
    <2>1. UNCHANGED <<history, shown, journalDisk, snapshotDisk>>
      BY <1>4 DEF WriteSnapshot, TruncateJournal, CheckpointFail, disk, ghosts
    <2>2. QED
      BY <1>3, <2>1, MapStutters
  <1>5. CASE SyncDirectory(p)
    <2>1. /\ pc[p] = "ckptSync" /\ snapshotDisk' = snapshot
          /\ UNCHANGED <<history, shown, journalDisk>>
      BY <1>5 DEF SyncDirectory, ghosts
    <2>2. snapshotDisk'.seq = Recorded /\ Recorded' = Recorded /\ Recorded \in Nat
      BY <1>2, <2>1, HistoryType DEF CheckpointInv, Recorded
    <2>3. /\ DurableSeq' \in Nat /\ snapshotDisk'.seq <= DurableSeq'
          /\ \/ DurableSeq' = snapshotDisk'.seq
             \/ journalDisk # <<>> /\ DurableSeq' = journalDisk[Len(journalDisk)].seq
      BY <2>1, HistoryType, LastSeqType DEF DurableSeq
    <2>4. journalDisk # <<>> => journalDisk[Len(journalDisk)].seq <= Recorded
      BY WithinHistory
    <2>5. DurableSeq' = Recorded
      BY <2>2, <2>3, <2>4
    <2>6. QED
      BY <1>3, <2>1, <2>5, MapHardens
  <1>6. CASE FlushJournal(p)
    <2>1. /\ pc[p] = "ckptFlush" /\ journalDisk' = journal
          /\ UNCHANGED <<history, shown, snapshotDisk>>
      BY <1>6 DEF FlushJournal
    <2>2. snapshotDisk.seq = Recorded /\ journal = <<>>
      BY <1>2, <2>1 DEF CheckpointInv
    <2>3. DurableSeq' = Recorded
      BY <2>1, <2>2, Zenon DEF DurableSeq, LastSeq
    <2>4. QED
      BY <1>3, <2>1, <2>3, MapHardens
  <1>7. QED
    BY <1>4, <1>5, <1>6 DEF CheckpointSteps

(* Lookups, the beginning of an operation and kills change nothing that    *)
(* the abstract map keeps.                                                 *)
LEMMA MapOtherSteps ==
  ASSUME TypeInv, TypeInv', LockInv, RecoveryInv, RecoveryInv', VisibleInv,
         NEW p \in Procs,
         LookupSteps(p) \/ OpenFirst(p) \/ StartSet(p) \/ StartLookup(p) \/ Crash(p)
  PROVE  VisibleInv' /\ MapStep
  <1>1. UNCHANGED <<history, shown, journalDisk, snapshotDisk>>
    BY DEF LookupSteps, CheckFailed, ReadVersion, ReadInode, ReadUid, ReadMode, ReadWord,
       Recheck, OpenFirst, StartSet, StartLookup, Crash, disk, ghosts
  <1>2. CASE OpenFirst(p)
    BY <1>1, <1>2, MapStutters DEF OpenFirst, VisibleInv
  <1>3. CASE LookupSteps(p) \/ StartSet(p) \/ StartLookup(p) \/ Crash(p)
    <2>1. \E l \in LookupLabels \cup {"idle", "lock"} : pc' = [pc EXCEPT ![p] = l]
      BY <1>3 DEF LookupSteps, CheckFailed, ReadVersion, ReadInode, ReadUid, ReadMode,
         ReadWord, Recheck, StartSet, StartLookup, Crash, Goto, LookupLabels
    <2>2. UNCHANGED <<failed, sequence>> /\ (session' = "up" => session = "up")
      BY <1>3 DEF LookupSteps, CheckFailed, ReadVersion, ReadInode, ReadUid, ReadMode,
         ReadWord, Recheck, StartSet, StartLookup, Crash, shared
    <2>3. VisibleInv'
      BY <1>1, <2>1, <2>2, OutsiderPublishesNothing DEF LookupLabels, PublishLabels
    <2>4. QED
      BY <1>1, <2>3, MapStutters
  <1>4. QED
    BY <1>2, <1>3

LEMMA MapPowerLoss ==
  ASSUME TypeInv, TypeInv', LockInv, RecoveryInv, PowerLoss
  PROVE  VisibleInv' /\ MapStep
  <1> DEFINE kept == Recorded'
  <1>1. /\ DurableSeq' = kept /\ DurableSeq <= kept /\ kept <= Recorded
        /\ history' = SubSeq(history, 1, kept + 1)
        /\ shown' = AtMost(shown, kept)
    BY StepPowerLoss
  <1>2. kept \in Nat /\ Recorded \in Nat /\ DurableSeq \in Nat /\ shown \in Nat
    <2>1. history' \in Seq([Files -> Slot]) /\ history' # <<>>
      BY DEF TypeInv, TypeOK, GhostsOK
    <2>2. Recorded' \in Nat
      BY <2>1, EmptySeq DEF Recorded
    <2>3. QED
      BY <2>2, HistoryType, WithinHistory
  <1> HIDE DEF kept
  <1>3. kept \in DurableSeq .. Recorded
    BY <1>1, <1>2
  <1>4. shown' \in {shown, kept} \cap (0 .. kept)
    BY <1>1, <1>2 DEF AtMost
  <1>5. Abstract!Restart
    BY <1>1, <1>3, <1>4 DEF Abstract!Restart, Abstract!Changes, Recorded
  <1>6. VisibleInv'
    BY DEF PowerLoss, VisibleInv
  <1>7. QED
    BY <1>5, <1>6 DEF MapStep, Abstract!Next

LEMMA MapInit == Init => MapInv /\ Abstract!Init
  <1> SUFFICES ASSUME Init PROVE MapInv /\ Abstract!Init
    OBVIOUS
  <1>1. StoreInv
    BY TypeInit, LockInit, RecoveryInit DEF StoreInv
  <1>2. /\ history = <<EmptyMap>> /\ shown = 0 /\ session = "down"
        /\ journalDisk = <<>> /\ snapshotDisk.seq = 0
    BY DEF Init
  <1>3. DurableSeq = 0
    BY <1>2, Zenon DEF DurableSeq, LastSeq
  <1>4. QED
    BY <1>1, <1>2, <1>3 DEF MapInv, VisibleInv, Abstract!Init

LEMMA MapNext == MapInv /\ [Next]_vars => MapInv' /\ MapStep
  <1> SUFFICES ASSUME MapInv, [Next]_vars PROVE MapInv' /\ MapStep
    OBVIOUS
  <1>0. /\ TypeInv /\ LockInv /\ RecoveryInv /\ VisibleInv
        /\ TypeInv' /\ LockInv' /\ RecoveryInv'
    BY TypeNext, LockNext, RecoveryNext DEF MapInv, StoreInv
  <1>1. ASSUME NEW p \in Procs, Step(p) PROVE VisibleInv' /\ MapStep
    BY <1>0, <1>1, MapLockSteps, MapReplaySteps, MapSetSteps, MapCheckpointSteps,
       MapOtherSteps DEF Step
  <1>2. ASSUME NEW p \in Procs, OpenFirst(p) \/ StartSet(p) \/ StartLookup(p) \/ Crash(p)
        PROVE  VisibleInv' /\ MapStep
    BY <1>0, <1>2, MapOtherSteps
  <1>3. ASSUME PowerLoss PROVE VisibleInv' /\ MapStep
    BY <1>0, <1>3, MapPowerLoss
  <1>4. ASSUME UNCHANGED vars PROVE VisibleInv' /\ MapStep
    <2>1. UNCHANGED <<history, shown, journalDisk, snapshotDisk>>
      BY <1>4 DEF vars, disk, ghosts
    <2>2. VisibleInv'
      BY <1>0, <1>4 DEF VisibleInv, vars, shared, ghosts
    <2>3. QED
      BY <2>1, <2>2, MapStutters
  <1>5. VisibleInv' /\ MapStep
    BY <1>1, <1>2, <1>3, <1>4 DEF Next
  <1>6. QED
    BY <1>0, <1>5 DEF MapInv, StoreInv

(* The store is a sequence of maps: each change is recorded once and in    *)
(* order, becomes visible with all before it, and is lost only in a power  *)
(* failure that loses every change after it too and none that is durable.  *)
THEOREM StoreImplementsMap == Spec => ImplementsMap
  <1>1. MapInv /\ [Next]_vars => [Abstract!Next]_Abstract!vars
    BY MapNext DEF MapStep
  <1>2. QED
    BY <1>1, MapInit, MapNext, PTL DEF Spec, ImplementsMap, Abstract!Spec
=============================================================================
