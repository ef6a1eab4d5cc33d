-------------------------- MODULE SessionGroupProofs --------------------------
(***************************************************************************)
(* Theorems about SessionGroup, for every set of tracers and every bound.  *)
(***************************************************************************)
EXTENDS SessionGroup, TLAPS

(* An opener refers to its own description of the lease from the moment it *)
(* tries to lock it, and holds the mode its step requires.                 *)
OwnLease ==
  \A o \in Openers :
    /\ pc[o] \in {"lease", "join"} => o \in leaseFds[o]
    /\ pc[o] \in Rebuilding => o \in leaseFds[o] /\ leaseMode[o] = "EX"
    /\ pc[o] \in {"check", "leaveOpen", "up"}
         => o \in leaseFds[o] /\ leaseMode[o] = "SH"

(* An exclusive lease is the only one.                                     *)
LeaseExcludes ==
  \A o \in Openers : \A q \in Others(o) :
    LeaseHeld(o) = "EX" => LeaseHeld(q) = "none"

(* What magic promises of a table that was reset since the device started. *)
MagicIsTrue ==
  /\ reset /\ magic => records = disk
  /\ \A o \in Openers : pc[o] = "publish" => records = disk
  /\ \A o \in Openers : reset /\ pc[o] \in {"leaveOpen", "up"} => magic

GroupInv == TypeOK /\ OwnLease /\ LeaseExcludes /\ MagicIsTrue

(* The invariant holds initially, and every step preserves it: a lemma for *)
(* each action.                                                            *)
LEMMA GroupInit == Init => GroupInv
  <1> SUFFICES ASSUME Init PROVE GroupInv
    OBVIOUS
  <1>1. TypeOK
    <2>1. magic \in BOOLEAN /\ reset \in BOOLEAN
      BY Zenon DEF Init
    <2>2. budget \in [{"open", "update", "kill", "fault", "reboot"} -> Nat]
      BY GroupBoundsAssumption DEF Init
    <2>3. pc \in [Openers -> Labels]
      BY DEF Init, Labels
    <2>4. QED
      BY <2>1, <2>2, <2>3 DEF Init, TypeOK
  <1>2. OwnLease /\ LeaseExcludes
    BY DEF Init, OwnLease, LeaseExcludes, LeaseHeld, Rebuilding
  <1>3. MagicIsTrue
    BY DEF Init, MagicIsTrue
  <1>4. QED
    BY <1>1, <1>2, <1>3 DEF GroupInv

(* Whoever rebuilds the table is alone, because the lease is.              *)
LEMMA LeaseMakesAlone == OwnLease /\ LeaseExcludes => RebuildsAlone
  BY DEF OwnLease, LeaseExcludes, RebuildsAlone, LeaseHeld, Others

LEMMA LockInitStep ==
  ASSUME GroupInv, NEW o \in Openers, LockInit(o)
  PROVE  GroupInv'
  <1>1. TypeOK'
    BY DEF LockInit, Goto, store, GroupInv, TypeOK, Labels, Opening
  <1>2. OwnLease'
    BY DEF LockInit, Goto, GroupInv, TypeOK, Rebuilding, OwnLease
  <1>3. LeaseExcludes'
    BY DEF LockInit, GroupInv, TypeOK, LeaseExcludes, LeaseHeld
  <1>4. MagicIsTrue'
    BY DEF LockInit, Goto, store, GroupInv, MagicIsTrue
  <1>5. QED
    BY <1>1, <1>2, <1>3, <1>4 DEF GroupInv

LEMMA TryLeaseStep ==
  ASSUME GroupInv, NEW o \in Openers, TryLease(o)
  PROVE  GroupInv'
  <1>1. TypeOK'
    BY DEF TryLease, Goto, store, GroupInv, TypeOK, Labels, Opening,
           Rebuilding
  <1>2. OwnLease'
    BY DEF TryLease, Goto, GroupInv, TypeOK, Rebuilding, OwnLease
  <1>3. LeaseExcludes'
    BY DEF TryLease, CanTakeLease, GroupInv, TypeOK, LeaseExcludes, LeaseHeld,
           Others
  <1>4. MagicIsTrue'
    BY DEF TryLease, Goto, store, GroupInv, TypeOK, MagicIsTrue
  <1>5. QED
    BY <1>1, <1>2, <1>3, <1>4 DEF GroupInv

LEMMA JoinLeaseStep ==
  ASSUME GroupInv, NEW o \in Openers, JoinLease(o)
  PROVE  GroupInv'
  <1>1. TypeOK'
    BY DEF JoinLease, Goto, store, GroupInv, TypeOK, Labels, Opening
  <1>2. OwnLease'
    BY DEF JoinLease, Goto, GroupInv, TypeOK, Rebuilding, OwnLease
  <1>3. LeaseExcludes'
    BY DEF JoinLease, CanShareLease, GroupInv, LeaseExcludes, LeaseHeld,
           Others
  <1>4. MagicIsTrue'
    BY DEF JoinLease, Goto, store, GroupInv, MagicIsTrue
  <1>5. QED
    BY <1>1, <1>2, <1>3, <1>4 DEF GroupInv

LEMMA ResetTableStep ==
  ASSUME GroupInv, NEW o \in Openers, ResetTable(o)
  PROVE  GroupInv'
  <1>1. TypeOK'
    <2>1. magic' \in BOOLEAN /\ reset' \in BOOLEAN
      BY Zenon DEF ResetTable
    <2>2. QED
      BY <2>1
         DEF ResetTable, Goto, descriptions, GroupInv, TypeOK, Labels,
             Opening, Rebuilding
  <1>2. OwnLease'
    BY DEF ResetTable, Goto, descriptions, GroupInv, TypeOK, Labels, Opening,
           OwnLease
  <1>3. LeaseExcludes'
    BY DEF ResetTable, descriptions, GroupInv, LeaseExcludes, LeaseHeld
  <1>4. MagicIsTrue'
    BY LeaseMakesAlone
       DEF ResetTable, Goto, GroupInv, TypeOK, Labels, Opening, MagicIsTrue,
           RebuildsAlone
  <1>5. QED
    BY <1>1, <1>2, <1>3, <1>4 DEF GroupInv

LEMMA RebuildStep ==
  ASSUME GroupInv, NEW o \in Openers, Rebuild(o)
  PROVE  GroupInv'
  <1>1. TypeOK'
    BY DEF Rebuild, Goto, descriptions, GroupInv, TypeOK, Labels, Opening,
           Rebuilding
  <1>2. OwnLease'
    BY DEF Rebuild, Goto, descriptions, GroupInv, TypeOK, Labels, Opening,
           OwnLease
  <1>3. LeaseExcludes'
    BY DEF Rebuild, descriptions, GroupInv, LeaseExcludes, LeaseHeld
  <1>4. MagicIsTrue'
    BY DEF Rebuild, Goto, GroupInv, MagicIsTrue
  <1>5. QED
    BY <1>1, <1>2, <1>3, <1>4 DEF GroupInv

LEMMA PublishStep ==
  ASSUME GroupInv, NEW o \in Openers, Publish(o)
  PROVE  GroupInv'
  <1>1. TypeOK'
    BY DEF Publish, Goto, GroupInv, TypeOK, Labels, Opening
  <1>2. OwnLease'
    BY DEF Publish, Goto, GroupInv, TypeOK, Rebuilding, OwnLease
  <1>3. LeaseExcludes'
    BY DEF Publish, GroupInv, TypeOK, Labels, Opening, OwnLease,
           LeaseExcludes, LeaseHeld
  <1>4. MagicIsTrue'
    BY DEF Publish, GroupInv, MagicIsTrue
  <1>5. QED
    BY <1>1, <1>2, <1>3, <1>4 DEF GroupInv

LEMMA CheckMagicStep ==
  ASSUME GroupInv, NEW o \in Openers, CheckMagic(o)
  PROVE  GroupInv'
  <1>1. TypeOK'
    BY DEF CheckMagic, Goto, descriptions, store, GroupInv, TypeOK, Labels,
           Opening
  <1>2. OwnLease'
    BY DEF CheckMagic, Goto, descriptions, GroupInv, Rebuilding, OwnLease
  <1>3. LeaseExcludes'
    BY DEF CheckMagic, descriptions, GroupInv, LeaseExcludes, LeaseHeld
  <1>4. MagicIsTrue'
    BY DEF CheckMagic, Goto, store, GroupInv, MagicIsTrue
  <1>5. QED
    BY <1>1, <1>2, <1>3, <1>4 DEF GroupInv

LEMMA CloseInitStep ==
  ASSUME GroupInv, NEW o \in Openers, CloseInit(o)
  PROVE  GroupInv'
  <1>1. TypeOK'
    BY DEF CloseInit, Goto, store, GroupInv, TypeOK, Labels
  <1>2. OwnLease'
    BY DEF CloseInit, Goto, GroupInv, Rebuilding, OwnLease
  <1>3. LeaseExcludes'
    BY DEF CloseInit, GroupInv, LeaseExcludes, LeaseHeld
  <1>4. MagicIsTrue'
    BY DEF CloseInit, Goto, store, GroupInv, MagicIsTrue
  <1>5. QED
    BY <1>1, <1>2, <1>3, <1>4 DEF GroupInv

LEMMA OpenFailsStep ==
  ASSUME GroupInv, NEW o \in Openers, OpenFails(o)
  PROVE  GroupInv'
  <1>1. TypeOK'
    BY DEF OpenFails, Goto, Spend, descriptions, store, GroupInv, TypeOK,
           Labels, Opening
  <1>2. OwnLease'
    BY DEF OpenFails, Goto, descriptions, GroupInv, Rebuilding, OwnLease
  <1>3. LeaseExcludes'
    BY DEF OpenFails, descriptions, GroupInv, LeaseExcludes, LeaseHeld
  <1>4. MagicIsTrue'
    BY DEF OpenFails, Goto, store, GroupInv, MagicIsTrue
  <1>5. QED
    BY <1>1, <1>2, <1>3, <1>4 DEF GroupInv

LEMMA DestroyStep ==
  ASSUME GroupInv, NEW o \in Openers, Destroy(o)
  PROVE  GroupInv'
  <1>1. TypeOK'
    BY DEF Destroy, Goto, store, GroupInv, TypeOK, Labels
  <1>2. OwnLease'
    BY DEF Destroy, Goto, GroupInv, TypeOK, Rebuilding, OwnLease
  <1>3. LeaseExcludes'
    BY DEF Destroy, GroupInv, LeaseExcludes, LeaseHeld
  <1>4. MagicIsTrue'
    BY DEF Destroy, Goto, store, GroupInv, MagicIsTrue
  <1>5. QED
    BY <1>1, <1>2, <1>3, <1>4 DEF GroupInv

LEMMA UpdateStep ==
  ASSUME GroupInv, NEW o \in Openers, Update(o)
  PROVE  GroupInv'
  <1>1. TypeOK'
    BY DEF Update, Spend, descriptions, GroupInv, TypeOK
  <1>2. OwnLease'
    BY DEF Update, descriptions, GroupInv, OwnLease
  <1>3. LeaseExcludes'
    BY DEF Update, descriptions, GroupInv, LeaseExcludes, LeaseHeld
  <1>4. MagicIsTrue'
    BY DEF Update, GroupInv, MagicIsTrue
  <1>5. QED
    BY <1>1, <1>2, <1>3, <1>4 DEF GroupInv

LEMMA OpenInitStep ==
  ASSUME GroupInv, NEW o \in Openers, OpenInit(o)
  PROVE  GroupInv'
  <1>1. TypeOK'
    BY DEF OpenInit, Goto, Spend, store, GroupInv, TypeOK, Labels, Opening
  <1>2. OwnLease'
    BY DEF OpenInit, Goto, GroupInv, Rebuilding, OwnLease
  <1>3. LeaseExcludes'
    BY DEF OpenInit, GroupInv, LeaseExcludes, LeaseHeld
  <1>4. MagicIsTrue'
    BY DEF OpenInit, Goto, store, GroupInv, MagicIsTrue
  <1>5. QED
    BY <1>1, <1>2, <1>3, <1>4 DEF GroupInv

LEMMA ForkStep ==
  ASSUME GroupInv, NEW t \in Tracers, Fork(t)
  PROVE  GroupInv'
  <1>1. TypeOK'
    BY DEF Fork, Goto, Spend, store, GroupInv, TypeOK, Labels, Opening,
           Openers
  <1>2. OwnLease'
    BY DEF Fork, Goto, GroupInv, Rebuilding, OwnLease
  <1>3. LeaseExcludes'
    BY DEF Fork, GroupInv, LeaseExcludes, LeaseHeld
  <1>4. MagicIsTrue'
    BY DEF Fork, Goto, store, GroupInv, MagicIsTrue
  <1>5. QED
    BY <1>1, <1>2, <1>3, <1>4 DEF GroupInv

LEMMA CloseInheritedDescriptorsStep ==
  ASSUME GroupInv, NEW t \in Tracers, CloseInheritedDescriptors(t)
  PROVE  GroupInv'
  <1>1. TypeOK'
    BY DEF CloseInheritedDescriptors, Goto, store, GroupInv, TypeOK, Labels,
           Opening, Openers
  <1>2. OwnLease'
    BY DEF CloseInheritedDescriptors, Goto, GroupInv, Rebuilding, OwnLease
  <1>3. LeaseExcludes'
    BY DEF CloseInheritedDescriptors, GroupInv, LeaseExcludes, LeaseHeld,
           Others
  <1>4. MagicIsTrue'
    BY DEF CloseInheritedDescriptors, Goto, store, GroupInv, MagicIsTrue
  <1>5. QED
    BY <1>1, <1>2, <1>3, <1>4 DEF GroupInv

LEMMA SpawnTraceeStep ==
  ASSUME GroupInv, NEW t \in Tracers, SpawnTracee(t)
  PROVE  GroupInv'
  <1>1. TypeOK'
    BY DEF SpawnTracee, store, GroupInv, TypeOK, Openers
  <1>2. OwnLease'
    BY DEF SpawnTracee, GroupInv, OwnLease
  <1>3. LeaseExcludes'
    BY DEF SpawnTracee, GroupInv, TypeOK, OwnLease, LeaseExcludes, LeaseHeld
  <1>4. MagicIsTrue'
    BY DEF SpawnTracee, store, GroupInv, MagicIsTrue
  <1>5. QED
    BY <1>1, <1>2, <1>3, <1>4 DEF GroupInv

LEMMA TraceeLetsGoStep ==
  ASSUME GroupInv, NEW t \in Tracers, TraceeLetsGo(t)
  PROVE  GroupInv'
  <1>1. TypeOK'
    BY DEF TraceeLetsGo, store, GroupInv, TypeOK, Openers
  <1>2. OwnLease'
    BY DEF TraceeLetsGo, GroupInv, OwnLease
  <1>3. LeaseExcludes'
    BY DEF TraceeLetsGo, GroupInv, LeaseExcludes, LeaseHeld
  <1>4. MagicIsTrue'
    BY DEF TraceeLetsGo, store, GroupInv, MagicIsTrue
  <1>5. QED
    BY <1>1, <1>2, <1>3, <1>4 DEF GroupInv

LEMMA KillStep ==
  ASSUME GroupInv, NEW t \in Tracers, Kill(t)
  PROVE  GroupInv'
  <1>1. TypeOK'
    BY DEF Kill, Goto, Spend, descriptions, store, GroupInv, TypeOK, Labels,
           Openers
  <1>2. OwnLease'
    BY DEF Kill, Goto, descriptions, GroupInv, Rebuilding, OwnLease
  <1>3. LeaseExcludes'
    BY DEF Kill, descriptions, GroupInv, LeaseExcludes, LeaseHeld
  <1>4. MagicIsTrue'
    BY DEF Kill, Goto, store, GroupInv, MagicIsTrue
  <1>5. QED
    BY <1>1, <1>2, <1>3, <1>4 DEF GroupInv

LEMMA ExitClosesInitStep ==
  ASSUME GroupInv, NEW t \in Tracers, ExitClosesInit(t)
  PROVE  GroupInv'
  <1>1. TypeOK'
    BY DEF ExitClosesInit, store, GroupInv, TypeOK
  <1>2. OwnLease'
    BY DEF ExitClosesInit, GroupInv, OwnLease
  <1>3. LeaseExcludes'
    BY DEF ExitClosesInit, GroupInv, LeaseExcludes, LeaseHeld
  <1>4. MagicIsTrue'
    BY DEF ExitClosesInit, store, GroupInv, MagicIsTrue
  <1>5. QED
    BY <1>1, <1>2, <1>3, <1>4 DEF GroupInv

LEMMA ExitClosesLeaseStep ==
  ASSUME GroupInv, NEW t \in Tracers, ExitClosesLease(t)
  PROVE  GroupInv'
  <1>1. TypeOK'
    BY DEF ExitClosesLease, store, GroupInv, TypeOK
  <1>2. OwnLease'
    BY DEF ExitClosesLease, GroupInv, Rebuilding, OwnLease
  <1>3. LeaseExcludes'
    BY DEF ExitClosesLease, GroupInv, LeaseExcludes, LeaseHeld
  <1>4. MagicIsTrue'
    BY DEF ExitClosesLease, store, GroupInv, MagicIsTrue
  <1>5. QED
    BY <1>1, <1>2, <1>3, <1>4 DEF GroupInv

LEMMA ExitEndsStep ==
  ASSUME GroupInv, NEW t \in Tracers, ExitEnds(t)
  PROVE  GroupInv'
  <1>1. TypeOK'
    BY DEF ExitEnds, Goto, descriptions, store, GroupInv, TypeOK, Labels,
           Openers
  <1>2. OwnLease'
    BY DEF ExitEnds, Goto, descriptions, GroupInv, Rebuilding, OwnLease
  <1>3. LeaseExcludes'
    BY DEF ExitEnds, descriptions, GroupInv, LeaseExcludes, LeaseHeld
  <1>4. MagicIsTrue'
    BY DEF ExitEnds, Goto, store, GroupInv, MagicIsTrue
  <1>5. QED
    BY <1>1, <1>2, <1>3, <1>4 DEF GroupInv

LEMMA RebootStep ==
  ASSUME GroupInv, Reboot
  PROVE  GroupInv'
  <1>1. TypeOK'
    <2>1. magic' \in BOOLEAN /\ reset' \in BOOLEAN
      BY Zenon DEF Reboot, GroupInv, TypeOK
    <2>2. QED
      BY <2>1 DEF Reboot, Spend, GroupInv, TypeOK, Labels
  <1>2. OwnLease'
    BY DEF Reboot, Rebuilding, OwnLease
  <1>3. LeaseExcludes'
    BY DEF Reboot, LeaseExcludes, LeaseHeld
  <1>4. MagicIsTrue'
    BY DEF Reboot, MagicIsTrue
  <1>5. QED
    BY <1>1, <1>2, <1>3, <1>4 DEF GroupInv

LEMMA UnchangedStep ==
  ASSUME GroupInv, UNCHANGED vars
  PROVE  GroupInv'
  BY DEF vars, descriptions, store, GroupInv, TypeOK, OwnLease, LeaseExcludes,
         MagicIsTrue, LeaseHeld

LEMMA GroupNext == GroupInv /\ [Next]_vars => GroupInv'
  <1> SUFFICES ASSUME GroupInv, [Next]_vars PROVE GroupInv'
    OBVIOUS
  <1>1. CASE \E o \in Openers : OpenSteps(o) \/ OpenFails(o) \/ Destroy(o) \/ Update(o)
    BY <1>1, LockInitStep, TryLeaseStep, JoinLeaseStep, ResetTableStep,
       RebuildStep, PublishStep, CheckMagicStep, CloseInitStep, OpenFailsStep,
       DestroyStep, UpdateStep
       DEF OpenSteps
  <1>2. CASE \E t \in Tracers : \/ Fork(t) \/ TracerSteps(t) \/ SpawnTracee(t)
                               \/ TraceeLetsGo(t) \/ Kill(t)
    BY <1>2, ForkStep, CloseInheritedDescriptorsStep, OpenInitStep,
       ExitClosesInitStep, ExitClosesLeaseStep, ExitEndsStep, SpawnTraceeStep,
       TraceeLetsGoStep, KillStep
       DEF TracerSteps, ExitSteps, Openers
  <1>3. CASE OpenInit(App)
    BY <1>3, OpenInitStep DEF Openers
  <1>4. CASE Reboot
    BY <1>4, RebootStep
  <1>5. CASE UNCHANGED vars
    BY <1>5, UnchangedStep
  <1>6. QED
    BY <1>1, <1>2, <1>3, <1>4, <1>5 DEF Next

(* What each opener holds of the lease fits where it is in Open, an         *)
(* exclusive lease is the only one, and magic vouches for the records.     *)
THEOREM GroupCorrect == Spec => []GroupInv
  <1>1. Init => GroupInv
    BY GroupInit
  <1>2. GroupInv /\ [Next]_vars => GroupInv'
    BY GroupNext
  <1>3. QED
    BY <1>1, <1>2, PTL DEF Spec

(* Type correctness; the table never holds more than the files.            *)
THEOREM TypeCorrect == Spec => []TypeOK
  <1>1. GroupInv => TypeOK
    BY DEF GroupInv
  <1>2. QED
    BY <1>1, GroupCorrect, PTL

(* The opener that resets and rebuilds the table is alone with it, however *)
(* many tracers open, inherit descriptors, fail and are killed.            *)
THEOREM RebuilderIsAlone == Spec => []RebuildsAlone
  <1>1. GroupInv => RebuildsAlone
    BY LeaseMakesAlone DEF GroupInv
  <1>2. QED
    BY <1>1, GroupCorrect, PTL

(* The table of an open store holds every change made through any store,   *)
(* once it was reset after the device started.                             *)
THEOREM OpenTableIsCurrent == Spec => []TableIsCurrent
  <1>1. GroupInv => TableIsCurrent
    BY DEF GroupInv, MagicIsTrue, TableIsCurrent
  <1>2. QED
    BY <1>1, GroupCorrect, PTL
=============================================================================
