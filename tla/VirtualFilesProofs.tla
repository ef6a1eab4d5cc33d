------------------------- MODULE VirtualFilesProofs -------------------------
(***************************************************************************)
(* Theorems about VirtualFiles, for every set of tracers, names, inode     *)
(* numbers and calls, every initial state, and every bound.                *)
(*                                                                         *)
(* StagedInv says what a tracer inside Create relies on; Respects(t) what  *)
(* a step of t leaves alone for the tracer that holds the lock.  Each      *)
(* action is shown to respect the holder and, where t itself is inside     *)
(* Create, to carry StagedInv on; RespectfulStep puts the two together.    *)
(***************************************************************************)
EXTENDS VirtualFiles, TLAPS

(* Shapes                                                                  *)
IsFile(f) == f = [kind |-> f.kind, mode |-> f.mode, born |-> f.born, by |-> f.by]
Shape(r)  == r = [pc |-> r.pc, call |-> r.call, node |-> r.node, seen |-> r.seen,
                  item |-> r.item, outcome |-> r.outcome]
IsRun(r)  == Shape(r) /\ (r.pc \in {"idle", "killed"} \/ r.call \in Calls)
IsOwner(o) == o = [uid |-> o.uid, gid |-> o.gid, mode |-> o.mode, kind |-> o.kind,
                   born |-> o.born]

Everywhere == Paths \cup {Root}
Named      == {names[p] : p \in Everywhere}

TypeInv ==
  /\ names \in [Everywhere -> Inodes \cup {None}]
  /\ disk = [i \in Inodes |-> disk[i]] /\ \A i \in Inodes : IsFile(disk[i])
  /\ rec = [i \in Inodes |-> rec[i]]
  /\ run = [t \in Tracers |-> run[t]] /\ \A t \in Tracers : IsRun(run[t])

(* A tracer that creates a file holds the lock from before the file is     *)
(* staged; the staged file has no name, and is what it will be recorded as.*)
Creating == {"stage", "record", "publish", "cleanup"}

StagedInv(t) ==
  /\ run[t].pc \in Creating => lock = t
  /\ run[t].pc \in {"create", "stage", "record", "publish"} => IsOwner(run[t].seen)
  /\ run[t].pc \in {"record", "publish"} =>
       /\ run[t].item \in Inodes \ Named
       /\ run[t].seen.born = disk[run[t].item].born
  /\ run[t].pc = "publish" => rec[run[t].item] = run[t].seen

FilesInv == TypeInv /\ \A t \in Tracers : StagedInv(t)

-----------------------------------------------------------------------------
(* A record with some of its fields replaced.                              *)
Is(q, pc, seen, item) == IsRun(q) /\ q.pc = pc /\ q.seen = seen /\ q.item = item

LEMMA With_pc ==
  ASSUME NEW r, Shape(r), NEW x
  PROVE  [r EXCEPT !.pc = x] =
           [pc |-> x, call |-> r.call, node |-> r.node, seen |-> r.seen,
            item |-> r.item, outcome |-> r.outcome]
  BY DEF Shape

LEMMA With_call ==
  ASSUME NEW r, Shape(r), NEW x
  PROVE  [r EXCEPT !.call = x] =
           [pc |-> r.pc, call |-> x, node |-> r.node, seen |-> r.seen,
            item |-> r.item, outcome |-> r.outcome]
  BY DEF Shape

LEMMA With_node ==
  ASSUME NEW r, Shape(r), NEW x
  PROVE  [r EXCEPT !.node = x] =
           [pc |-> r.pc, call |-> r.call, node |-> x, seen |-> r.seen,
            item |-> r.item, outcome |-> r.outcome]
  BY DEF Shape

LEMMA With_seen ==
  ASSUME NEW r, Shape(r), NEW x
  PROVE  [r EXCEPT !.seen = x] =
           [pc |-> r.pc, call |-> r.call, node |-> r.node, seen |-> x,
            item |-> r.item, outcome |-> r.outcome]
  BY DEF Shape

LEMMA With_item ==
  ASSUME NEW r, Shape(r), NEW x
  PROVE  [r EXCEPT !.item = x] =
           [pc |-> r.pc, call |-> r.call, node |-> r.node, seen |-> r.seen,
            item |-> x, outcome |-> r.outcome]
  BY DEF Shape

LEMMA With_outcome ==
  ASSUME NEW r, Shape(r), NEW x
  PROVE  [r EXCEPT !.outcome = x] =
           [pc |-> r.pc, call |-> r.call, node |-> r.node, seen |-> r.seen,
            item |-> r.item, outcome |-> x]
  BY DEF Shape

LEMMA Looked ==
  ASSUME NEW r, Shape(r), r.call \in Calls, NEW x1, NEW x2, NEW x3
  PROVE  LET q == [r EXCEPT !.node = x1, !.seen = x2, !.pc = x3]
         IN Is(q, x3, x2, r.item)
  <1> DEFINE r1 == [r EXCEPT !.node = x1]
             r2 == [r1 EXCEPT !.seen = x2]
             r3 == [r2 EXCEPT !.pc = x3]
  <1>1. r1 = [pc |-> r.pc, call |-> r.call, node |-> x1, seen |-> r.seen,
             item |-> r.item, outcome |-> r.outcome]
    BY With_node DEF Shape
  <1> HIDE DEF r1
  <1>2. r2 = [pc |-> r.pc, call |-> r.call, node |-> x1, seen |-> x2,
             item |-> r.item, outcome |-> r.outcome]
    BY <1>1, With_seen DEF Shape
  <1> HIDE DEF r2
  <1>3. r3 = [pc |-> x3, call |-> r.call, node |-> x1, seen |-> x2,
             item |-> r.item, outcome |-> r.outcome]
    BY <1>2, With_pc DEF Shape
  <1> HIDE DEF r3
  <1>4. IsRun(r3)
    BY <1>3 DEF IsRun, Shape
  <1>5. Is(r3, x3, x2, r.item)
    BY <1>3, <1>4 DEF Is
  <1>6. QED
    BY <1>5 DEF r1, r2, r3

LEMMA Sought ==
  ASSUME NEW r, Shape(r), r.call \in Calls, NEW x1, NEW x2
  PROVE  LET q == [r EXCEPT !.seen = x1, !.pc = x2]
         IN Is(q, x2, x1, r.item)
  <1> DEFINE r1 == [r EXCEPT !.seen = x1]
             r2 == [r1 EXCEPT !.pc = x2]
  <1>1. r1 = [pc |-> r.pc, call |-> r.call, node |-> r.node, seen |-> x1,
             item |-> r.item, outcome |-> r.outcome]
    BY With_seen DEF Shape
  <1> HIDE DEF r1
  <1>2. r2 = [pc |-> x2, call |-> r.call, node |-> r.node, seen |-> x1,
             item |-> r.item, outcome |-> r.outcome]
    BY <1>1, With_pc DEF Shape
  <1> HIDE DEF r2
  <1>3. IsRun(r2)
    BY <1>2 DEF IsRun, Shape
  <1>4. Is(r2, x2, x1, r.item)
    BY <1>2, <1>3 DEF Is
  <1>5. QED
    BY <1>4 DEF r1, r2

LEMMA Sent ==
  ASSUME NEW r, Shape(r), r.call \in Calls, NEW x1, NEW x2
  PROVE  LET q == [r EXCEPT !.pc = x1, !.seen = x2]
         IN Is(q, x1, x2, r.item)
  <1> DEFINE r1 == [r EXCEPT !.pc = x1]
             r2 == [r1 EXCEPT !.seen = x2]
  <1>1. r1 = [pc |-> x1, call |-> r.call, node |-> r.node, seen |-> r.seen,
             item |-> r.item, outcome |-> r.outcome]
    BY With_pc DEF Shape
  <1> HIDE DEF r1
  <1>2. r2 = [pc |-> x1, call |-> r.call, node |-> r.node, seen |-> x2,
             item |-> r.item, outcome |-> r.outcome]
    BY <1>1, With_seen DEF Shape
  <1> HIDE DEF r2
  <1>3. IsRun(r2)
    BY <1>2 DEF IsRun, Shape
  <1>4. Is(r2, x1, x2, r.item)
    BY <1>2, <1>3 DEF Is
  <1>5. QED
    BY <1>4 DEF r1, r2

LEMMA Begun ==
  ASSUME NEW r, Shape(r), NEW x1 \in Calls, NEW x2, NEW x3
  PROVE  LET q == [r EXCEPT !.call = x1, !.pc = x2, !.node = x3]
         IN Is(q, x2, r.seen, r.item)
  <1> DEFINE r1 == [r EXCEPT !.call = x1]
             r2 == [r1 EXCEPT !.pc = x2]
             r3 == [r2 EXCEPT !.node = x3]
  <1>1. r1 = [pc |-> r.pc, call |-> x1, node |-> r.node, seen |-> r.seen,
             item |-> r.item, outcome |-> r.outcome]
    BY With_call DEF Shape
  <1> HIDE DEF r1
  <1>2. r2 = [pc |-> x2, call |-> x1, node |-> r.node, seen |-> r.seen,
             item |-> r.item, outcome |-> r.outcome]
    BY <1>1, With_pc DEF Shape
  <1> HIDE DEF r2
  <1>3. r3 = [pc |-> x2, call |-> x1, node |-> x3, seen |-> r.seen,
             item |-> r.item, outcome |-> r.outcome]
    BY <1>2, With_node DEF Shape
  <1> HIDE DEF r3
  <1>4. IsRun(r3)
    BY <1>3 DEF IsRun, Shape
  <1>5. Is(r3, x2, r.seen, r.item)
    BY <1>3, <1>4 DEF Is
  <1>6. QED
    BY <1>5 DEF r1, r2, r3

LEMMA Placed ==
  ASSUME NEW r, Shape(r), r.call \in Calls, NEW x1, NEW x2, NEW x3
  PROVE  LET q == [r EXCEPT !.pc = x1, !.item = x2, !.outcome = x3]
         IN Is(q, x1, r.seen, x2)
  <1> DEFINE r1 == [r EXCEPT !.pc = x1]
             r2 == [r1 EXCEPT !.item = x2]
             r3 == [r2 EXCEPT !.outcome = x3]
  <1>1. r1 = [pc |-> x1, call |-> r.call, node |-> r.node, seen |-> r.seen,
             item |-> r.item, outcome |-> r.outcome]
    BY With_pc DEF Shape
  <1> HIDE DEF r1
  <1>2. r2 = [pc |-> x1, call |-> r.call, node |-> r.node, seen |-> r.seen,
             item |-> x2, outcome |-> r.outcome]
    BY <1>1, With_item DEF Shape
  <1> HIDE DEF r2
  <1>3. r3 = [pc |-> x1, call |-> r.call, node |-> r.node, seen |-> r.seen,
             item |-> x2, outcome |-> x3]
    BY <1>2, With_outcome DEF Shape
  <1> HIDE DEF r3
  <1>4. IsRun(r3)
    BY <1>3 DEF IsRun, Shape
  <1>5. Is(r3, x1, r.seen, x2)
    BY <1>3, <1>4 DEF Is
  <1>6. QED
    BY <1>5 DEF r1, r2, r3

LEMMA Left ==
  ASSUME NEW r, Shape(r), r.call \in Calls, NEW x1, NEW x2
  PROVE  LET q == [r EXCEPT !.pc = x1, !.outcome = x2]
         IN Is(q, x1, r.seen, r.item)
  <1> DEFINE r1 == [r EXCEPT !.pc = x1]
             r2 == [r1 EXCEPT !.outcome = x2]
  <1>1. r1 = [pc |-> x1, call |-> r.call, node |-> r.node, seen |-> r.seen,
             item |-> r.item, outcome |-> r.outcome]
    BY With_pc DEF Shape
  <1> HIDE DEF r1
  <1>2. r2 = [pc |-> x1, call |-> r.call, node |-> r.node, seen |-> r.seen,
             item |-> r.item, outcome |-> x2]
    BY <1>1, With_outcome DEF Shape
  <1> HIDE DEF r2
  <1>3. IsRun(r2)
    BY <1>2 DEF IsRun, Shape
  <1>4. Is(r2, x1, r.seen, r.item)
    BY <1>2, <1>3 DEF Is
  <1>5. QED
    BY <1>4 DEF r1, r2

LEMMA Made ==
  ASSUME NEW r, Shape(r), r.call \in Calls, NEW x1, NEW x2
  PROVE  LET q == [r EXCEPT !.pc = x1, !.item = x2]
         IN Is(q, x1, r.seen, x2)
  <1> DEFINE r1 == [r EXCEPT !.pc = x1]
             r2 == [r1 EXCEPT !.item = x2]
  <1>1. r1 = [pc |-> x1, call |-> r.call, node |-> r.node, seen |-> r.seen,
             item |-> r.item, outcome |-> r.outcome]
    BY With_pc DEF Shape
  <1> HIDE DEF r1
  <1>2. r2 = [pc |-> x1, call |-> r.call, node |-> r.node, seen |-> r.seen,
             item |-> x2, outcome |-> r.outcome]
    BY <1>1, With_item DEF Shape
  <1> HIDE DEF r2
  <1>3. IsRun(r2)
    BY <1>2 DEF IsRun, Shape
  <1>4. Is(r2, x1, r.seen, x2)
    BY <1>2, <1>3 DEF Is
  <1>5. QED
    BY <1>4 DEF r1, r2

LEMMA Staged ==
  ASSUME NEW r, Shape(r), r.call \in Calls, NEW x1, NEW x2, NEW x3, NEW x4
  PROVE  LET q == [r EXCEPT !.pc = x1, !.item = x2, !.node = x3, !.seen = x4]
         IN Is(q, x1, x4, x2)
  <1> DEFINE r1 == [r EXCEPT !.pc = x1]
             r2 == [r1 EXCEPT !.item = x2]
             r3 == [r2 EXCEPT !.node = x3]
             r4 == [r3 EXCEPT !.seen = x4]
  <1>1. r1 = [pc |-> x1, call |-> r.call, node |-> r.node, seen |-> r.seen,
             item |-> r.item, outcome |-> r.outcome]
    BY With_pc DEF Shape
  <1> HIDE DEF r1
  <1>2. r2 = [pc |-> x1, call |-> r.call, node |-> r.node, seen |-> r.seen,
             item |-> x2, outcome |-> r.outcome]
    BY <1>1, With_item DEF Shape
  <1> HIDE DEF r2
  <1>3. r3 = [pc |-> x1, call |-> r.call, node |-> x3, seen |-> r.seen,
             item |-> x2, outcome |-> r.outcome]
    BY <1>2, With_node DEF Shape
  <1> HIDE DEF r3
  <1>4. r4 = [pc |-> x1, call |-> r.call, node |-> x3, seen |-> x4,
             item |-> x2, outcome |-> r.outcome]
    BY <1>3, With_seen DEF Shape
  <1> HIDE DEF r4
  <1>5. IsRun(r4)
    BY <1>4 DEF IsRun, Shape
  <1>6. Is(r4, x1, x4, x2)
    BY <1>4, <1>5 DEF Is
  <1>7. QED
    BY <1>6 DEF r1, r2, r3, r4

LEMMA Finished ==
  ASSUME NEW r, Shape(r), r.call \in Calls, NEW x1, NEW x2, NEW x3
  PROVE  LET q == [r EXCEPT !.pc = x1, !.node = x2, !.seen = x3]
         IN Is(q, x1, x3, r.item)
  <1> DEFINE r1 == [r EXCEPT !.pc = x1]
             r2 == [r1 EXCEPT !.node = x2]
             r3 == [r2 EXCEPT !.seen = x3]
  <1>1. r1 = [pc |-> x1, call |-> r.call, node |-> r.node, seen |-> r.seen,
             item |-> r.item, outcome |-> r.outcome]
    BY With_pc DEF Shape
  <1> HIDE DEF r1
  <1>2. r2 = [pc |-> x1, call |-> r.call, node |-> x2, seen |-> r.seen,
             item |-> r.item, outcome |-> r.outcome]
    BY <1>1, With_node DEF Shape
  <1> HIDE DEF r2
  <1>3. r3 = [pc |-> x1, call |-> r.call, node |-> x2, seen |-> x3,
             item |-> r.item, outcome |-> r.outcome]
    BY <1>2, With_seen DEF Shape
  <1> HIDE DEF r3
  <1>4. IsRun(r3)
    BY <1>3 DEF IsRun, Shape
  <1>5. Is(r3, x1, x3, r.item)
    BY <1>3, <1>4 DEF Is
  <1>6. QED
    BY <1>5 DEF r1, r2, r3

LEMMA Gone ==
  ASSUME NEW r, Shape(r), r.call \in Calls, NEW x1
  PROVE  LET q == [r EXCEPT !.pc = x1]
         IN Is(q, x1, r.seen, r.item)
  <1> DEFINE r1 == [r EXCEPT !.pc = x1]
  <1>1. r1 = [pc |-> x1, call |-> r.call, node |-> r.node, seen |-> r.seen,
             item |-> r.item, outcome |-> r.outcome]
    BY With_pc DEF Shape
  <1> HIDE DEF r1
  <1>2. IsRun(r1)
    BY <1>1 DEF IsRun, Shape
  <1>3. Is(r1, x1, r.seen, r.item)
    BY <1>1, <1>2 DEF Is
  <1>4. QED
    BY <1>3 DEF r1

LEMMA PutDoes ==
  ASSUME TypeInv, NEW t \in Tracers, NEW r, IsRun(r), Put(t, r)
  PROVE  /\ (run = [u \in Tracers |-> run[u]])' /\ \A u \in Tracers : IsRun(run'[u])
         /\ run'[t] = r
         /\ \A u \in Tracers \ {t} : run'[u] = run[u]
  BY DEF Put, TypeInv

LEMMA IdleIsRun == IsRun(Idle) /\ Shape(Idle)
  BY DEF IsRun, Shape, Idle

LEMMA ShapeOfRun ==
  ASSUME TypeInv, NEW t \in Tracers, run[t].pc \notin {"idle", "killed"}
  PROVE  Shape(run[t]) /\ run[t].call \in Calls
  BY DEF TypeInv, IsRun

(* What a step of t leaves alone for the tracer that holds the lock.       *)
Respects(t) ==
  /\ run' = [u \in Tracers |-> run'[u]] /\ \A u \in Tracers : IsRun(run'[u])
  /\ \A u \in Tracers \ {t} : run'[u] = run[u]
  /\ lock' = lock \/ lock = NoTracer \/ lock = t
  /\ names' \in [Everywhere -> Inodes \cup {None}]
  /\ disk' = [i \in Inodes |-> disk'[i]] /\ \A i \in Inodes : IsFile(disk'[i])
  /\ rec' = [i \in Inodes |-> rec'[i]]
  /\ lock \notin {NoTracer, t} =>
       /\ \A i \in Inodes : rec'[i] = rec[i]
       /\ \A i \in Inodes \cap InUse : disk'[i].born = disk[i].born
       /\ \A p \in Everywhere : names'[p] \in Named \cup {None} \cup (Inodes \ InUse)

LEMMA RespectfulStep ==
  ASSUME FilesInv, NEW t \in Tracers, Respects(t), StagedInv(t)'
  PROVE  FilesInv'
  <1>1. TypeInv'
    BY DEF FilesInv, TypeInv, Respects
  <1>2. ASSUME NEW u \in Tracers \ {t}
        PROVE  StagedInv(u)'
    <2>1. run'[u] = run[u] /\ StagedInv(u) /\ run[u].item \in InUse
      BY DEF Respects, FilesInv, InUse
    <2>2. CASE run[u].pc \notin Creating
      BY <2>1, <2>2 DEF StagedInv, Creating
    <2>3. CASE run[u].pc \in Creating
      <3>1. lock = u /\ lock \notin {NoTracer, t} /\ lock' = u
        BY <2>1, <2>3, NamesAssumption DEF StagedInv, Respects
      <3>2. ASSUME run[u].item \in Inodes \ Named
            PROVE  run'[u].item \in Inodes \ Named'
        BY <2>1, <3>1, <3>2, NamesAssumption DEF Respects, Named
      <3>3. ASSUME run[u].item \in Inodes
            PROVE  /\ rec'[run[u].item] = rec[run[u].item]
                   /\ disk'[run[u].item].born = disk[run[u].item].born
        BY <2>1, <3>1, <3>3 DEF Respects
      <3>4. QED
        BY <2>1, <3>1, <3>2, <3>3 DEF StagedInv, Creating
    <2>4. QED
      BY <2>2, <2>3
  <1>3. QED
    BY <1>1, <1>2 DEF FilesInv

(* A step outside Create that leaves the store alone while it is locked.   *)
Calm == Creating \cup {"create"}
LEMMA CalmStep ==
  ASSUME FilesInv, NEW t \in Tracers, Respects(t), run'[t].pc \notin Calm
  PROVE  FilesInv'
  <1>1. StagedInv(t)'
    BY DEF StagedInv, Calm, Creating
  <1>2. QED
    BY <1>1, RespectfulStep

LEMMA Unchanging ==
  ASSUME FilesInv, NEW t \in Tracers, UNCHANGED <<names, disk>>,
         \/ rec' = rec
         \/ lock \in {NoTracer, t} /\ rec' = [i \in Inodes |-> rec'[i]],
         lock' = lock \/ lock = NoTracer \/ lock = t,
         run' = [u \in Tracers |-> run'[u]], \A u \in Tracers : IsRun(run'[u]),
         \A u \in Tracers \ {t} : run'[u] = run[u]
  PROVE  Respects(t)
  BY DEF Respects, FilesInv, TypeInv, Named

(* Each kind of step: one that goes on, and one that answers the call.     *)
LEMMA PutStep ==
  ASSUME FilesInv, NEW t \in Tracers, NEW r, Put(t, r), IsRun(r), r.pc \notin Calm,
         UNCHANGED <<names, disk>>,
         \/ rec' = rec
         \/ lock \in {NoTracer, t} /\ rec' = [i \in Inodes |-> rec'[i]],
         lock' = lock \/ lock = NoTracer \/ lock = t
  PROVE  FilesInv'
  <1>1. /\ run' = [u \in Tracers |-> run'[u]] /\ \A u \in Tracers : IsRun(run'[u])
        /\ run'[t] = r /\ \A u \in Tracers \ {t} : run'[u] = run[u]
    BY PutDoes DEF FilesInv
  <1>2. Respects(t)
    BY <1>1, Unchanging
  <1>3. QED
    BY <1>1, <1>2, CalmStep

LEMMA ReturnStep ==
  ASSUME FilesInv, NEW t \in Tracers, Return(t), UNCHANGED <<names, disk>>,
         \/ rec' = rec
         \/ lock \in {NoTracer, t} /\ rec' = [i \in Inodes |-> rec'[i]],
         lock' = lock \/ lock = NoTracer \/ lock = t
  PROVE  FilesInv'
  <1>1. IsRun(Idle) /\ Idle.pc \notin Calm /\ Put(t, Idle)
    BY IdleIsRun DEF Idle, Calm, Creating, Return
  <1>2. QED
    BY <1>1, PutStep

LEMMA GoStep ==
  ASSUME FilesInv, NEW t \in Tracers, NEW pc, Go(t, pc), pc \notin Calm,
         run[t].pc \notin {"idle", "killed"},
         UNCHANGED <<names, disk>>,
         \/ rec' = rec
         \/ lock \in {NoTracer, t} /\ rec' = [i \in Inodes |-> rec'[i]],
         lock' = lock \/ lock = NoTracer \/ lock = t
  PROVE  FilesInv'
  <1> DEFINE r == [run[t] EXCEPT !.pc = pc]
  <1>a. Shape(run[t]) /\ run[t].call \in Calls
    BY ShapeOfRun DEF FilesInv
  <1>1. IsRun(r) /\ r.pc \notin Calm
    BY <1>a DEF IsRun, Shape
  <1>2. Put(t, r)
    BY DEF Go
  <1> HIDE DEF r
  <1>3. QED
    BY <1>1, <1>2, PutStep

(* A record is replaced under the lock, or by nobody's leave but its own.  *)
LEMMA Recorded ==
  ASSUME FilesInv, NEW i, NEW r, rec' = [rec EXCEPT ![i] = r]
  PROVE  rec' = [j \in Inodes |-> rec'[j]]
  BY DEF FilesInv, TypeInv

-----------------------------------------------------------------------------
(* Every step keeps the invariant                                          *)

LEMMA BeginStep ==
  ASSUME FilesInv, NEW t \in Tracers, Begin(t)
  PROVE  FilesInv'
  <1>p. PICK c \in Calls :
          /\ Put(t, [Idle EXCEPT !.call = c,
                                 !.pc   = IF c.fd THEN "look" ELSE "search",
                                 !.node = IF c.fd THEN names[c.path] ELSE None])
          /\ UNCHANGED <<names, disk, rec, lock>>
    BY DEF Begin
  <1> DEFINE pc == IF c.fd THEN "look" ELSE "search"
             node == IF c.fd THEN names[c.path] ELSE None
             r == [Idle EXCEPT !.call = c, !.pc = pc, !.node = node]
  <1>1. pc \in {"look", "search"}
    OBVIOUS
  <1>2. Put(t, r) /\ UNCHANGED <<names, disk, rec, lock>>
    BY <1>p DEF Begin
  <1>3. Shape(Idle)
    BY IdleIsRun
  <1> HIDE DEF pc, node
  <1>4. Is(r, pc, Idle.seen, Idle.item)
    BY <1>3, Begun, Zenon
  <1> HIDE DEF r
  <1>5. IsRun(r) /\ r.pc = pc
    BY <1>4 DEF Is
  <1>6. QED
    BY <1>1, <1>2, <1>5, PutStep DEF Calm, Creating

LEMMA SearchStep ==
  ASSUME FilesInv, NEW t \in Tracers, Search(t)
  PROVE  FilesInv'
  BY GoStep, ReturnStep DEF Search, Calm, Creating, At

LEMMA StatStep ==
  ASSUME FilesInv, NEW t \in Tracers, Stat(t)
  PROVE  FilesInv'
  <1> DEFINE i == names[run[t].call.path]
             s == None
             pc == IF i = None THEN "decide" ELSE "look"
             r == [run[t] EXCEPT !.node = i, !.seen = s, !.pc = pc]
  <1>1. pc \in {"decide", "look"}
    OBVIOUS
  <1>2. Put(t, r) /\ UNCHANGED <<names, disk, rec, lock>>
    BY DEF Stat
  <1>3. Shape(run[t]) /\ run[t].call \in Calls
    BY ShapeOfRun DEF FilesInv, Stat, At
  <1> HIDE DEF i, s, pc
  <1>4. Is(r, pc, s, run[t].item)
    BY <1>3, Looked, Zenon
  <1> HIDE DEF r
  <1>5. IsRun(r) /\ r.pc = pc
    BY <1>4 DEF Is
  <1>6. QED
    BY <1>1, <1>2, <1>5, PutStep DEF Calm, Creating

LEMMA LookupStep ==
  ASSUME FilesInv, NEW t \in Tracers, Lookup(t)
  PROVE  FilesInv'
  <1> DEFINE s == rec[run[t].node]
             pc == IF s = None /\ ~run[t].call.fd THEN "import" ELSE "decide"
             r == [run[t] EXCEPT !.seen = s, !.pc = pc]
  <1>1. pc \in {"decide", "import"}
    OBVIOUS
  <1>2. Put(t, r) /\ UNCHANGED <<names, disk, rec, lock>>
    BY DEF Lookup
  <1>3. Shape(run[t]) /\ run[t].call \in Calls
    BY ShapeOfRun DEF FilesInv, Lookup, At
  <1> HIDE DEF s, pc
  <1>4. Is(r, pc, s, run[t].item)
    BY <1>3, Sought, Zenon
  <1> HIDE DEF r
  <1>5. IsRun(r) /\ r.pc = pc
    BY <1>4 DEF Is
  <1>6. QED
    BY <1>1, <1>2, <1>5, PutStep DEF Calm, Creating

LEMMA ImportStep ==
  ASSUME FilesInv, NEW t \in Tracers, Import(t)
  PROVE  FilesInv'
  <1> DEFINE i == names[run[t].call.path]
             s == IF i = None THEN None ELSE Identify(i)
             pc == IF i = None THEN "decide" ELSE "adopt"
             r == [run[t] EXCEPT !.node = i, !.seen = s, !.pc = pc]
  <1>1. pc \in {"decide", "adopt"}
    OBVIOUS
  <1>2. Put(t, r) /\ UNCHANGED <<names, disk, rec, lock>>
    BY DEF Import
  <1>3. Shape(run[t]) /\ run[t].call \in Calls
    BY ShapeOfRun DEF FilesInv, Import, At
  <1> HIDE DEF i, s, pc
  <1>4. Is(r, pc, s, run[t].item)
    BY <1>3, Looked, Zenon
  <1> HIDE DEF r
  <1>5. IsRun(r) /\ r.pc = pc
    BY <1>4 DEF Is
  <1>6. QED
    BY <1>1, <1>2, <1>5, PutStep DEF Calm, Creating

LEMMA AdoptStep ==
  ASSUME FilesInv, NEW t \in Tracers, Adopt(t) \/ Strip(t)
  PROVE  FilesInv'
  <1>1. /\ UNCHANGED <<names, disk, lock>> /\ lock = NoTracer
        /\ rec' = [j \in Inodes |-> rec'[j]]
    BY Recorded DEF Adopt, Strip
  <1>2. \E pc \in {"decide", "kernel", "parent"} : Go(t, pc)
    BY DEF Adopt, Strip
  <1>3. QED
    BY <1>1, <1>2, GoStep DEF Calm, Creating, Adopt, Strip, At

LEMMA ReplaceStep ==
  ASSUME FilesInv, NEW t \in Tracers, NEW may, NEW new, NEW pc \in {"idle", "mode"},
         Replace(t, may, new, pc), At(t, "decide")
  PROVE  FilesInv'
  <1> DEFINE r == IF pc = "idle" THEN Idle ELSE [run[t] EXCEPT !.pc = pc, !.seen = new]
  <1>a. Shape(run[t]) /\ run[t].call \in Calls
    BY ShapeOfRun DEF FilesInv, At
  <1>1. IsRun(r) /\ r.pc = pc
    <2>1. CASE pc = "idle"
      BY <2>1, IdleIsRun DEF Idle
    <2>2. CASE pc = "mode"
      <3>1. Is([run[t] EXCEPT !.pc = pc, !.seen = new], pc, new, run[t].item)
        BY <1>a, Sent, Zenon
      <3>2. PICK q : q = [run[t] EXCEPT !.pc = pc, !.seen = new]
        OBVIOUS
      <3>3. IsRun(q) /\ q.pc = pc
        BY <3>1, <3>2 DEF Is
      <3>4. QED
        BY <2>2, <3>2, <3>3
    <2>3. QED
      BY <2>1, <2>2
  <1>2. UNCHANGED <<names, disk, lock>>
    BY DEF Replace
  <1>3. CASE rec' = rec /\ Return(t)
    BY <1>2, <1>3, ReturnStep
  <1>4. CASE Put(t, r) /\ lock = NoTracer /\ rec' = [rec EXCEPT ![run[t].node] = new]
    <2>1. rec' = [j \in Inodes |-> rec'[j]]
      BY <1>4, Recorded
    <2> HIDE DEF r
    <2>2. QED
      BY <1>1, <1>2, <1>4, <2>1, PutStep DEF Calm, Creating
  <1>5. QED
    BY <1>3, <1>4 DEF Replace

LEMMA ChangeStep ==
  ASSUME FilesInv, NEW t \in Tracers, Chown(t) \/ Chmod(t)
  PROVE  FilesInv'
  BY ReplaceStep DEF Chown, Chmod

(* A record with fields replaced is put in the place of the earlier one.   *)
LEMMA IsStep ==
  ASSUME FilesInv, NEW t \in Tracers, NEW r, NEW pc, NEW seen, NEW item,
         Put(t, r), Is(r, pc, seen, item), pc \notin Calm,
         UNCHANGED <<names, disk>>,
         \/ rec' = rec
         \/ lock \in {NoTracer, t} /\ rec' = [i \in Inodes |-> rec'[i]],
         lock' = lock \/ lock = NoTracer \/ lock = t
  PROVE  FilesInv'
  BY PutStep DEF Is

LEMMA AccessStep ==
  ASSUME FilesInv, NEW t \in Tracers, Access(t)
  PROVE  FilesInv'
  BY ReturnStep DEF Access

LEMMA OpenExistingStep ==
  ASSUME FilesInv, NEW t \in Tracers, OpenExisting(t)
  PROVE  FilesInv'
  <1> DEFINE s == [run[t].seen EXCEPT !.mode = run[t].seen.mode \ SetIds]
  <1>1. UNCHANGED <<names, disk, rec, lock>>
    BY DEF OpenExisting
  <1>2. \/ Return(t)
        \/ Put(t, [run[t] EXCEPT !.pc = "strip", !.seen = s])
        \/ Go(t, "kernel") \/ Go(t, "parent")
    BY DEF OpenExisting
  <1> HIDE DEF s
  <1>3. Is([run[t] EXCEPT !.pc = "strip", !.seen = s], "strip", s, run[t].item)
    <2>1. Shape(run[t]) /\ run[t].call \in Calls
      BY ShapeOfRun DEF FilesInv, OpenExisting, At
    <2>2. QED
      BY <2>1, Sent, Zenon
  <1>4. "strip" \notin Calm /\ "kernel" \notin Calm /\ "parent" \notin Calm
    BY DEF Calm, Creating
  <1>5. CASE Return(t)
    BY <1>1, <1>5, ReturnStep
  <1>6. CASE Go(t, "kernel") \/ Go(t, "parent")
    BY <1>1, <1>4, <1>6, GoStep DEF OpenExisting, At
  <1>7. CASE Put(t, [run[t] EXCEPT !.pc = "strip", !.seen = s])
    <2>1. PICK r : r = [run[t] EXCEPT !.pc = "strip", !.seen = s]
      OBVIOUS
    <2>2. Put(t, r) /\ Is(r, "strip", s, run[t].item)
      BY <1>3, <1>7, <2>1
    <2>3. QED
      BY <1>1, <1>4, <2>2, IsStep
  <1>8. QED
    BY <1>2, <1>5, <1>6, <1>7

(* A file that is to be created has an owner.                              *)
LEMMA CreatesStep ==
  ASSUME FilesInv, NEW t \in Tracers, NEW parent, NEW pc \in {"create", "kernel"},
         Creates(t, parent, pc), run[t].pc \notin {"idle", "killed"}
  PROVE  FilesInv'
  <1> DEFINE s == NewOwner(parent, run[t].call)
  <1>1. UNCHANGED <<names, disk, rec, lock>>
    BY DEF Creates
  <1>2. CASE Return(t)
    BY <1>1, <1>2, ReturnStep
  <1>3. CASE Put(t, [run[t] EXCEPT !.seen = s, !.pc = pc])
    <2>1. IsOwner(s)
      BY DEF NewOwner, IsOwner
    <2> HIDE DEF s
    <2>2. Is([run[t] EXCEPT !.seen = s, !.pc = pc], pc, s, run[t].item)
      <3>1. Shape(run[t]) /\ run[t].call \in Calls
        BY ShapeOfRun DEF FilesInv
      <3>2. QED
        BY <3>1, Sought, Zenon
    <2>3. PICK r : r = [run[t] EXCEPT !.seen = s, !.pc = pc]
      OBVIOUS
    <2>4. Put(t, r) /\ IsRun(r) /\ r.pc = pc /\ r.seen = s
      BY <1>3, <2>2, <2>3 DEF Is
    <2>5. /\ run' = [u \in Tracers |-> run'[u]] /\ \A u \in Tracers : IsRun(run'[u])
          /\ run'[t] = r /\ \A u \in Tracers \ {t} : run'[u] = run[u]
      BY <2>4, PutDoes DEF FilesInv
    <2>6. Respects(t)
      BY <1>1, <2>5, Unchanging
    <2>7. StagedInv(t)'
      BY <2>1, <2>4, <2>5 DEF StagedInv, Creating
    <2>8. QED
      BY <2>6, <2>7, RespectfulStep
  <1>4. QED
    BY <1>2, <1>3 DEF Creates

LEMMA MissingStep ==
  ASSUME FilesInv, NEW t \in Tracers,
         OpenMissing(t) \/ Make(t) \/ OpenAnonymous(t) \/ Bind(t)
  PROVE  FilesInv'
  <1>1. \/ \E parent : Creates(t, parent, "create") \/ Creates(t, parent, "kernel")
        \/ /\ UNCHANGED <<names, disk, rec, lock>>
           /\ Go(t, "kernel") \/ Return(t)
    BY DEF OpenMissing, Make, OpenAnonymous, Bind
  <1>2. "kernel" \notin Calm /\ run[t].pc \notin {"idle", "killed"}
    BY DEF Calm, Creating, OpenMissing, Make, OpenAnonymous, Bind, At
  <1>3. QED
    BY <1>1, <1>2, CreatesStep, GoStep, ReturnStep

LEMMA RenameStep ==
  ASSUME FilesInv, NEW t \in Tracers, Rename(t)
  PROVE  FilesInv'
  <1> DEFINE j == IF run[t].call.op = "unlink" THEN None ELSE names[run[t].call.to]
  <1>1. UNCHANGED <<names, disk, lock>> /\ (Return(t) \/ Go(t, "kernel"))
    BY DEF Rename
  <1>2. \/ rec' = rec
        \/ lock = NoTracer /\ rec' = [rec EXCEPT ![j] = Owned(j)]
    <2>1. \/ rec' = rec
          \/ j # None /\ rec' = [rec EXCEPT ![j] = Owned(j)]
      BY DEF Rename
    <2>2. j # None => rec[j] # None \/ lock = NoTracer
      BY DEF Rename
    <2>3. ASSUME rec[j] # None, rec' = [rec EXCEPT ![j] = Owned(j)]
          PROVE  rec' = rec
      <3>1. Owned(j) = rec[j]
        BY <2>3 DEF Owned
      <3> HIDE DEF j
      <3>2. QED
        BY <2>3, <3>1 DEF FilesInv, TypeInv
    <2> HIDE DEF j
    <2>4. QED
      BY <2>1, <2>2, <2>3
  <1> HIDE DEF j
  <1>3. \/ rec' = rec
        \/ lock \in {NoTracer, t} /\ rec' = [i \in Inodes |-> rec'[i]]
    BY <1>2, Recorded
  <1>4. "kernel" \notin Calm /\ run[t].pc \notin {"idle", "killed"}
    BY DEF Calm, Creating, Rename, At
  <1>5. QED
    BY <1>1, <1>3, <1>4, GoStep, ReturnStep

-----------------------------------------------------------------------------
(* Steps that change files                                                 *)

LEMMA FileMode ==
  ASSUME NEW f, IsFile(f), NEW m
  PROVE  IsFile([f EXCEPT !.mode = m]) /\ [f EXCEPT !.mode = m].born = f.born
  <1>1. [f EXCEPT !.mode = m] = [kind |-> f.kind, mode |-> m, born |-> f.born, by |-> f.by]
    BY DEF IsFile
  <1> DEFINE g == [f EXCEPT !.mode = m]
  <1> HIDE DEF g
  <1>2. IsFile(g) /\ g.born = f.born
    BY <1>1 DEF g, IsFile
  <1>3. QED
    BY <1>2 DEF g

LEMMA ModeSet ==
  ASSUME FilesInv, NEW i, NEW m, disk' = [disk EXCEPT ![i].mode = m]
  PROVE  /\ disk' = [j \in Inodes |-> disk'[j]]
         /\ \A j \in Inodes : IsFile(disk'[j]) /\ disk'[j].born = disk[j].born
  <1> DEFINE g == [disk[i] EXCEPT !.mode = m]
  <1>1. disk' = [disk EXCEPT ![i] = g]
    OBVIOUS
  <1>2. i \in Inodes => IsFile(g) /\ g.born = disk[i].born
    BY FileMode DEF FilesInv, TypeInv
  <1> HIDE DEF g
  <1>3. QED
    BY <1>1, <1>2 DEF FilesInv, TypeInv

LEMMA NewDoes ==
  ASSUME FilesInv, NEW i, NEW kind, NEW mode, NEW by, New(i, kind, mode, by)
  PROVE  /\ disk' = [j \in Inodes |-> disk'[j]]
         /\ \A j \in Inodes : IsFile(disk'[j])
         /\ \A j \in Inodes \ {i} : disk'[j] = disk[j]
         /\ i \in Inodes => disk'[i].born = disk[i].born + 1
  BY DEF New, FilesInv, TypeInv, IsFile

(* A step of t that changes files, names and records but answers the call  *)
(* or goes on outside Create.                                              *)
LEMMA FileStep ==
  ASSUME FilesInv, NEW t \in Tracers, NEW r, Put(t, r), IsRun(r), r.pc \notin Calm,
         lock' = lock,
         names' \in [Everywhere -> Inodes \cup {None}],
         disk' = [i \in Inodes |-> disk'[i]], \A i \in Inodes : IsFile(disk'[i]),
         rec' = [i \in Inodes |-> rec'[i]], lock = NoTracer \/ rec' = rec,
         \A i \in Inodes \cap InUse : disk'[i].born = disk[i].born,
         \A p \in Everywhere : names'[p] \in Named \cup {None} \cup (Inodes \ InUse)
  PROVE  FilesInv'
  <1>1. /\ run' = [u \in Tracers |-> run'[u]] /\ \A u \in Tracers : IsRun(run'[u])
        /\ run'[t] = r /\ \A u \in Tracers \ {t} : run'[u] = run[u]
    BY PutDoes DEF FilesInv
  <1>2. Respects(t)
    BY <1>1 DEF Respects
  <1>3. QED
    BY <1>1, <1>2, CalmStep

LEMMA Answered ==
  ASSUME NEW t, Return(t)
  PROVE  Put(t, Idle) /\ IsRun(Idle) /\ Idle.pc \notin Calm
  BY IdleIsRun DEF Return, Idle, Calm, Creating

LEMMA NamesKept ==
  ASSUME FilesInv, names' = names
  PROVE  /\ names' \in [Everywhere -> Inodes \cup {None}]
         /\ \A p \in Everywhere : names'[p] \in Named \cup {None} \cup (Inodes \ InUse)
  BY DEF FilesInv, TypeInv, Named

LEMMA NameGiven ==
  ASSUME FilesInv, NEW p, NEW i \in Inodes \ InUse, names' = [names EXCEPT ![p] = i]
  PROVE  /\ names' \in [Everywhere -> Inodes \cup {None}]
         /\ \A q \in Everywhere : names'[q] \in Named \cup {None} \cup (Inodes \ InUse)
  BY DEF FilesInv, TypeInv, Named

LEMMA SetRealModeStep ==
  ASSUME FilesInv, NEW t \in Tracers, SetRealMode(t)
  PROVE  FilesInv'
  <1>1. /\ disk' = [j \in Inodes |-> disk'[j]]
        /\ \A j \in Inodes : IsFile(disk'[j]) /\ disk'[j].born = disk[j].born
    <2>1. \/ disk' = disk
          \/ \E i, m : disk' = [disk EXCEPT ![i].mode = m]
      BY DEF SetRealMode
    <2>2. QED
      BY <2>1, ModeSet DEF FilesInv, TypeInv
  <1>2. UNCHANGED <<names, rec, lock>> /\ Return(t)
    BY DEF SetRealMode
  <1>3. rec' = [i \in Inodes |-> rec'[i]]
    BY <1>2 DEF FilesInv, TypeInv
  <1>4. QED
    BY <1>1, <1>2, <1>3, Answered, NamesKept, FileStep

LEMMA KernelOpensStep ==
  ASSUME FilesInv, NEW t \in Tracers, KernelOpens(t)
  PROVE  FilesInv'
  <1>1. UNCHANGED <<rec, lock>> /\ Return(t) /\ rec' = [i \in Inodes |-> rec'[i]]
    BY DEF KernelOpens, FilesInv, TypeInv
  <1>2. CASE UNCHANGED <<names, disk>>
    BY <1>1, <1>2, ReturnStep
  <1>3. ASSUME NEW i \in Inodes \ InUse, New(i, "reg", run[t].call.mode, "kernel"),
               names' = [names EXCEPT ![run[t].call.path] = i]
        PROVE  FilesInv'
    <2>1. /\ disk' = [j \in Inodes |-> disk'[j]] /\ \A j \in Inodes : IsFile(disk'[j])
          /\ \A j \in Inodes \ {i} : disk'[j] = disk[j]
      BY <1>3, NewDoes
    <2>2. /\ names' \in [Everywhere -> Inodes \cup {None}]
          /\ \A q \in Everywhere : names'[q] \in Named \cup {None} \cup (Inodes \ InUse)
      BY <1>3, NameGiven
    <2>3. \A j \in Inodes \cap InUse : disk'[j].born = disk[j].born
      BY <1>3, <2>1
    <2>4. QED
      BY <1>1, <2>1, <2>2, <2>3, Answered, FileStep
  <1>4. QED
    BY <1>2, <1>3 DEF KernelOpens

LEMMA KernelMovesStep ==
  ASSUME FilesInv, NEW t \in Tracers, KernelMoves(t)
  PROVE  FilesInv'
  <1> DEFINE c == run[t].call
             i == names[c.path]
  <1>1. UNCHANGED <<disk, rec, lock>> /\ Return(t)
        /\ rec' = [j \in Inodes |-> rec'[j]] /\ disk' = [j \in Inodes |-> disk'[j]]
        /\ \A j \in Inodes : IsFile(disk'[j]) /\ disk'[j].born = disk[j].born
    BY DEF KernelMoves, FilesInv, TypeInv
  <1>2. names \in [Everywhere -> Inodes \cup {None}] /\ c.path \in Everywhere
    BY ShapeOfRun, FileCallsAssumption DEF FilesInv, TypeInv, KernelMoves, At, Everywhere
  <1>3. \/ names' = names
        \/ names' = [names EXCEPT ![c.path] = None]
        \/ names' = [names EXCEPT ![c.to] = i, ![c.path] = None]
        \/ names' = [names EXCEPT ![c.to] = i]
    BY DEF KernelMoves
  <1> HIDE DEF c
  <1>4. /\ names' \in [Everywhere -> Inodes \cup {None}]
        /\ \A p \in Everywhere : names'[p] \in Named \cup {None}
    BY <1>2, <1>3 DEF Named
  <1>5. QED
    BY <1>1, <1>4, Answered, FileStep

LEMMA KernelCreatesStep ==
  ASSUME FilesInv, NEW t \in Tracers, KernelCreates(t)
  PROVE  FilesInv'
  <1> DEFINE c == run[t].call
  <1>1. UNCHANGED <<rec, lock>> /\ rec' = [j \in Inodes |-> rec'[j]]
    BY DEF KernelCreates, FilesInv, TypeInv
  <1>2. CASE Return(t) /\ UNCHANGED <<names, disk>>
    BY <1>1, <1>2, ReturnStep
  <1>3. ASSUME NEW i \in Inodes \ InUse, New(i, c.kind, c.mode, c.op),
               names' = names \/ names' = [names EXCEPT ![c.path] = i],
               NEW item, Put(t, [run[t] EXCEPT !.pc = "finish", !.item = item])
        PROVE  FilesInv'
    <2>1. /\ disk' = [j \in Inodes |-> disk'[j]] /\ \A j \in Inodes : IsFile(disk'[j])
          /\ \A j \in Inodes \ {i} : disk'[j] = disk[j]
      BY <1>3, NewDoes
    <2>2. /\ names' \in [Everywhere -> Inodes \cup {None}]
          /\ \A q \in Everywhere : names'[q] \in Named \cup {None} \cup (Inodes \ InUse)
      BY <1>3, NameGiven, NamesKept
    <2>3. \A j \in Inodes \cap InUse : disk'[j].born = disk[j].born
      BY <1>3, <2>1
    <2>4. Shape(run[t]) /\ run[t].call \in Calls
      BY ShapeOfRun DEF FilesInv, KernelCreates, At
    <2>5. Is([run[t] EXCEPT !.pc = "finish", !.item = item], "finish", run[t].seen, item)
      BY <2>4, Made, Zenon
    <2>6. PICK r : r = [run[t] EXCEPT !.pc = "finish", !.item = item]
      OBVIOUS
    <2>7. Put(t, r) /\ IsRun(r) /\ r.pc \notin Calm
      BY <1>3, <2>5, <2>6 DEF Is, Calm, Creating
    <2>8. QED
      BY <1>1, <2>1, <2>2, <2>3, <2>7, FileStep
  <1>4. QED
    BY <1>2, <1>3 DEF KernelCreates

LEMMA FinishStep ==
  ASSUME FilesInv, NEW t \in Tracers, Finish(t)
  PROVE  FilesInv'
  <1>1. UNCHANGED <<names, disk, rec, lock>>
    BY DEF Finish
  <1>2. CASE Return(t)
    BY <1>1, <1>2, ReturnStep
  <1>3. ASSUME NEW i, NEW s, Put(t, [run[t] EXCEPT !.pc = "register", !.node = i, !.seen = s])
        PROVE  FilesInv'
    <2>1. Shape(run[t]) /\ run[t].call \in Calls
      BY ShapeOfRun DEF FilesInv, Finish, At
    <2>2. Is([run[t] EXCEPT !.pc = "register", !.node = i, !.seen = s], "register", s, run[t].item)
      BY <2>1, Finished, Zenon
    <2>3. PICK r : r = [run[t] EXCEPT !.pc = "register", !.node = i, !.seen = s]
      OBVIOUS
    <2>4. Put(t, r) /\ Is(r, "register", s, run[t].item) /\ "register" \notin Calm
      BY <1>3, <2>2, <2>3 DEF Calm, Creating
    <2>5. QED
      BY <1>1, <2>4, IsStep
  <1>4. QED
    BY <1>2, <1>3 DEF Finish

LEMMA RegisterStep ==
  ASSUME FilesInv, NEW t \in Tracers, Register(t)
  PROVE  FilesInv'
  <1>1. /\ UNCHANGED <<names, lock>> /\ lock = NoTracer
        /\ rec' = [j \in Inodes |-> rec'[j]]
    BY Recorded DEF Register
  <1>2. CASE disk' = disk /\ Go(t, "mode")
    BY <1>1, <1>2, GoStep DEF Register, At, Calm, Creating
  <1>3. CASE disk' = disk /\ Return(t)
    BY <1>1, <1>3, ReturnStep
  <1>4. ASSUME NEW i, NEW m, disk' = [disk EXCEPT ![i].mode = m], Return(t)
        PROVE  FilesInv'
    <2>1. /\ disk' = [j \in Inodes |-> disk'[j]]
          /\ \A j \in Inodes : IsFile(disk'[j]) /\ disk'[j].born = disk[j].born
      BY <1>4, ModeSet
    <2>2. QED
      BY <1>1, <1>4, <2>1, Answered, NamesKept, FileStep
  <1>5. QED
    BY <1>2, <1>3, <1>4 DEF Register

-----------------------------------------------------------------------------
(* Create                                                                  *)

(* The step of a tracer that takes or holds the lock.                      *)
LEMMA HolderStep ==
  ASSUME FilesInv, NEW t \in Tracers, NEW r, Put(t, r), IsRun(r),
         lock \in {NoTracer, t},
         names' \in [Everywhere -> Inodes \cup {None}],
         disk' = [i \in Inodes |-> disk'[i]], \A i \in Inodes : IsFile(disk'[i]),
         rec' = [i \in Inodes |-> rec'[i]]
  PROVE  Respects(t) /\ run'[t] = r
  <1>1. /\ run' = [u \in Tracers |-> run'[u]] /\ \A u \in Tracers : IsRun(run'[u])
        /\ run'[t] = r /\ \A u \in Tracers \ {t} : run'[u] = run[u]
    BY PutDoes DEF FilesInv
  <1>2. QED
    BY <1>1 DEF Respects

LEMMA Kept ==
  ASSUME FilesInv
  PROVE  /\ names' = names => names' \in [Everywhere -> Inodes \cup {None}]
         /\ disk' = disk => /\ disk' = [i \in Inodes |-> disk'[i]]
                            /\ \A i \in Inodes : IsFile(disk'[i])
         /\ rec' = rec => rec' = [i \in Inodes |-> rec'[i]]
  BY DEF FilesInv, TypeInv

LEMMA GoingOn ==
  ASSUME NEW r, Shape(r), r.call \in Calls, NEW pc
  PROVE  \E q : q = [r EXCEPT !.pc = pc] /\ Is(q, pc, r.seen, r.item)
  <1>1. Is([r EXCEPT !.pc = pc], pc, r.seen, r.item)
    BY Gone, Zenon
  <1>2. QED
    BY <1>1

LEMMA LockStoreStep ==
  ASSUME FilesInv, NEW t \in Tracers, LockStore(t)
  PROVE  FilesInv'
  <1>1. /\ At(t, "create") /\ lock = NoTracer /\ lock' = t /\ Go(t, "stage")
        /\ UNCHANGED <<names, disk, rec>>
    BY DEF LockStore
  <1>2. Shape(run[t]) /\ run[t].call \in Calls
    BY <1>1, ShapeOfRun DEF FilesInv, At
  <1>3. PICK r : r = [run[t] EXCEPT !.pc = "stage"] /\ Is(r, "stage", run[t].seen, run[t].item)
    BY <1>2, GoingOn
  <1>4. Put(t, r) /\ IsRun(r)
    BY <1>1, <1>3 DEF Go, Is
  <1>5. Respects(t) /\ run'[t] = r
    BY <1>1, <1>4, Kept, HolderStep
  <1>6. IsOwner(run[t].seen)
    BY <1>1 DEF FilesInv, StagedInv, At
  <1>7. StagedInv(t)'
    BY <1>1, <1>3, <1>5, <1>6 DEF StagedInv, Is
  <1>8. QED
    BY <1>5, <1>7, RespectfulStep

LEMMA BirthSet ==
  ASSUME NEW o, IsOwner(o), NEW b
  PROVE  IsOwner([o EXCEPT !.born = b]) /\ [o EXCEPT !.born = b].born = b
  <1>1. [o EXCEPT !.born = b] =
          [uid |-> o.uid, gid |-> o.gid, mode |-> o.mode, kind |-> o.kind, born |-> b]
    BY DEF IsOwner
  <1> DEFINE s == [o EXCEPT !.born = b]
  <1> HIDE DEF s
  <1>2. IsOwner(s) /\ s.born = b
    BY <1>1 DEF s, IsOwner
  <1>3. QED
    BY <1>2 DEF s

LEMMA StageStep ==
  ASSUME FilesInv, NEW t \in Tracers, Stage(t)
  PROVE  FilesInv'
  <1>1. PICK i \in Inodes \ InUse :
          /\ New(i, run[t].seen.kind, run[t].seen.mode \cup Wide(run[t].seen.kind), "store")
          /\ Put(t, [run[t] EXCEPT !.pc = "record", !.item = i, !.node = i,
                                   !.seen = [run[t].seen EXCEPT !.born = disk[i].born + 1]])
    BY DEF Stage
  <1>2. At(t, "stage") /\ UNCHANGED <<names, rec, lock>>
    BY DEF Stage
  <1>3. lock = t /\ IsOwner(run[t].seen)
    BY <1>2 DEF FilesInv, StagedInv, Creating, At
  <1> DEFINE s == [run[t].seen EXCEPT !.born = disk[i].born + 1]
  <1>4. IsOwner(s) /\ s.born = disk[i].born + 1
    BY <1>3, BirthSet
  <1>5. PICK r : r = [run[t] EXCEPT !.pc = "record", !.item = i, !.node = i, !.seen = s]
    OBVIOUS
  <1> HIDE DEF s
  <1>6. Is(r, "record", s, i)
    <2>1. Shape(run[t]) /\ run[t].call \in Calls
      BY <1>2, ShapeOfRun DEF FilesInv, At
    <2>2. Is([run[t] EXCEPT !.pc = "record", !.item = i, !.node = i, !.seen = s],
             "record", s, i)
      BY <2>1, Staged, Zenon
    <2>3. QED
      BY <1>5, <2>2
  <1>7. Put(t, r) /\ IsRun(r)
    BY <1>1, <1>5, <1>6 DEF Is, s
  <1>8. /\ disk' = [j \in Inodes |-> disk'[j]] /\ \A j \in Inodes : IsFile(disk'[j])
        /\ disk'[i].born = disk[i].born + 1
    BY <1>1, NewDoes
  <1>9. Respects(t) /\ run'[t] = r
    BY <1>2, <1>3, <1>7, <1>8, Kept, HolderStep
  <1>10. i \in Inodes \ Named'
    BY <1>1, <1>2 DEF InUse, Named, Everywhere
  <1>11. StagedInv(t)'
    BY <1>2, <1>3, <1>4, <1>6, <1>8, <1>9, <1>10 DEF StagedInv, Is
  <1>12. QED
    BY <1>9, <1>11, RespectfulStep

LEMMA RecordStep ==
  ASSUME FilesInv, NEW t \in Tracers, Record(t)
  PROVE  FilesInv'
  <1>1. /\ At(t, "record") /\ Go(t, "publish") /\ UNCHANGED <<names, disk, lock>>
        /\ rec' = [rec EXCEPT ![run[t].item] = run[t].seen]
    BY DEF Record
  <1>2. /\ lock = t /\ IsOwner(run[t].seen) /\ run[t].item \in Inodes \ Named
        /\ run[t].seen.born = disk[run[t].item].born
    BY <1>1 DEF FilesInv, StagedInv, Creating, At
  <1>3. PICK r : /\ r = [run[t] EXCEPT !.pc = "publish"]
                 /\ Is(r, "publish", run[t].seen, run[t].item)
    <2>1. Shape(run[t]) /\ run[t].call \in Calls
      BY <1>1, ShapeOfRun DEF FilesInv, At
    <2>2. QED
      BY <2>1, GoingOn
  <1>4. Put(t, r) /\ IsRun(r)
    BY <1>1, <1>3 DEF Go, Is
  <1>5. /\ rec' = [j \in Inodes |-> rec'[j]] /\ rec'[run[t].item] = run[t].seen
    BY <1>1, <1>2 DEF FilesInv, TypeInv
  <1>6. Respects(t) /\ run'[t] = r
    BY <1>1, <1>2, <1>4, <1>5, Kept, HolderStep
  <1>7. Named' = Named
    BY <1>1 DEF Named
  <1>8. StagedInv(t)'
    BY <1>1, <1>2, <1>3, <1>5, <1>6, <1>7 DEF StagedInv, Is
  <1>9. QED
    BY <1>6, <1>8, RespectfulStep

LEMMA PublishStep ==
  ASSUME FilesInv, NEW t \in Tracers, Publish(t)
  PROVE  FilesInv'
  <1>1. At(t, "publish") /\ UNCHANGED <<disk, rec, lock>>
    BY DEF Publish
  <1>2. lock = t /\ run[t].item \in Inodes
    BY <1>1 DEF FilesInv, StagedInv, Creating, At
  <1>3. Shape(run[t]) /\ run[t].call \in Calls
    BY <1>1, ShapeOfRun DEF FilesInv, At
  <1>4. names' \in [Everywhere -> Inodes \cup {None}]
    BY <1>2 DEF Publish, FilesInv, TypeInv
  <1>5. ASSUME NEW r, NEW item, Put(t, r), Is(r, "cleanup", run[t].seen, item)
        PROVE  FilesInv'
    <2>1. Respects(t) /\ run'[t] = r
      BY <1>1, <1>2, <1>4, <1>5, Kept, HolderStep DEF Is
    <2>2. StagedInv(t)'
      BY <1>1, <1>2, <1>5, <2>1 DEF StagedInv, Is
    <2>3. QED
      BY <2>1, <2>2, RespectfulStep
  <1>6. ASSUME NEW outcome,
               Put(t, [run[t] EXCEPT !.pc = "cleanup", !.item = None, !.outcome = outcome])
        PROVE  FilesInv'
    <2>1. Is([run[t] EXCEPT !.pc = "cleanup", !.item = None, !.outcome = outcome],
             "cleanup", run[t].seen, None)
      BY <1>3, Placed, Zenon
    <2>2. QED
      BY <1>5, <1>6, <2>1, Zenon
  <1>7. CASE Put(t, [run[t] EXCEPT !.pc = "cleanup", !.outcome = "exists"])
    <2>1. Is([run[t] EXCEPT !.pc = "cleanup", !.outcome = "exists"],
             "cleanup", run[t].seen, run[t].item)
      BY <1>3, Left, Zenon
    <2>2. QED
      BY <1>5, <1>7, <2>1, Zenon
  <1>8. QED
    BY <1>6, <1>7 DEF Publish

LEMMA CleanupStep ==
  ASSUME FilesInv, NEW t \in Tracers, Cleanup(t)
  PROVE  FilesInv'
  <1>1. At(t, "cleanup") /\ lock' = NoTracer /\ UNCHANGED <<names, disk, rec>>
    BY DEF Cleanup
  <1>2. lock = t
    BY <1>1 DEF FilesInv, StagedInv, Creating, At
  <1>3. Shape(run[t]) /\ run[t].call \in Calls
    BY <1>1, ShapeOfRun DEF FilesInv, At
  <1>4. "kernel" \notin Calm /\ "stat" \notin Calm
    BY DEF Calm, Creating
  <1>5. ASSUME NEW r, NEW pc, Put(t, r), Is(r, pc, run[t].seen, None), pc \notin Calm
        PROVE  FilesInv'
    BY <1>1, <1>2, <1>5, IsStep
  <1>6. CASE Put(t, [run[t] EXCEPT !.pc = "kernel", !.item = None, !.outcome = "none"])
    <2>1. Is([run[t] EXCEPT !.pc = "kernel", !.item = None, !.outcome = "none"],
             "kernel", run[t].seen, None)
      BY <1>3, Placed, Zenon
    <2>2. QED
      BY <1>4, <1>5, <1>6, <2>1, Zenon
  <1>7. CASE Put(t, [run[t] EXCEPT !.pc = "stat", !.item = None])
    <2>1. Is([run[t] EXCEPT !.pc = "stat", !.item = None], "stat", run[t].seen, None)
      BY <1>3, Made, Zenon
    <2>2. QED
      BY <1>4, <1>5, <1>7, <2>1, Zenon
  <1>8. CASE Return(t)
    BY <1>1, <1>2, <1>8, ReturnStep
  <1>9. QED
    BY <1>6, <1>7, <1>8 DEF Cleanup

LEMMA StoreFailsStep ==
  ASSUME FilesInv, NEW t \in Tracers, StoreFails(t)
  PROVE  FilesInv'
  <1>1. UNCHANGED <<names, disk, rec, lock>>
    BY DEF StoreFails
  <1>2. CASE Return(t)
    BY <1>1, <1>2, ReturnStep
  <1>3. CASE /\ At(t, "stage") \/ At(t, "record")
             /\ Put(t, [run[t] EXCEPT !.pc = "cleanup", !.outcome = "failed"])
    <2>1. Shape(run[t]) /\ run[t].call \in Calls /\ lock = t
      BY <1>3, ShapeOfRun DEF FilesInv, StagedInv, Creating, At
    <2>2. Is([run[t] EXCEPT !.pc = "cleanup", !.outcome = "failed"],
             "cleanup", run[t].seen, run[t].item)
      BY <2>1, Left, Zenon
    <2>3. PICK r : r = [run[t] EXCEPT !.pc = "cleanup", !.outcome = "failed"]
      OBVIOUS
    <2>4. Put(t, r) /\ Is(r, "cleanup", run[t].seen, run[t].item)
      BY <1>3, <2>2, <2>3
    <2>5. Respects(t) /\ run'[t] = r
      BY <1>1, <2>1, <2>4, Kept, HolderStep DEF Is
    <2>6. StagedInv(t)'
      BY <1>1, <2>1, <2>4, <2>5 DEF StagedInv, Is
    <2>7. QED
      BY <2>5, <2>6, RespectfulStep
  <1>4. QED
    BY <1>2, <1>3 DEF StoreFails

LEMMA KilledIsRun ==
  ASSUME NEW x
  PROVE  \E r : r = [Idle EXCEPT !.pc = "killed", !.item = x] /\ IsRun(r) /\ r.pc = "killed"
  <1> DEFINE r1 == [Idle EXCEPT !.pc = "killed"]
             r2 == [r1 EXCEPT !.item = x]
  <1>1. r1 = [pc |-> "killed", call |-> None, node |-> None, seen |-> None,
              item |-> None, outcome |-> "none"]
    BY DEF Idle
  <1> HIDE DEF r1
  <1>2. r2 = [pc |-> "killed", call |-> None, node |-> None, seen |-> None,
              item |-> x, outcome |-> "none"]
    BY <1>1
  <1> HIDE DEF r2
  <1>3. IsRun(r2) /\ r2.pc = "killed"
    BY <1>2 DEF IsRun, Shape
  <1>4. QED
    BY <1>3 DEF r1, r2

LEMMA KillStep ==
  ASSUME FilesInv, NEW t \in Tracers, Kill(t)
  PROVE  FilesInv'
  <1>1. UNCHANGED <<names, disk, rec>> /\ lock' = (IF lock = t THEN NoTracer ELSE lock)
    BY DEF Kill
  <1> DEFINE item == IF lock = t THEN run[t].item ELSE None
  <1>2. PICK r : /\ r = [Idle EXCEPT !.pc = "killed", !.item = item]
                 /\ IsRun(r) /\ r.pc = "killed"
    BY KilledIsRun
  <1>3. Put(t, r)
    BY <1>2 DEF Kill
  <1>4. "killed" \notin Calm
    BY DEF Calm, Creating
  <1>5. QED
    BY <1>1, <1>2, <1>3, <1>4, PutStep

-----------------------------------------------------------------------------
(* Theorems                                                                *)

LEMMA StepHolds ==
  ASSUME FilesInv, NEW t \in Tracers, Step(t)
  PROVE  FilesInv'
  <1>1. CASE Search(t) \/ Stat(t) \/ Lookup(t) \/ Import(t) \/ Adopt(t) \/ Strip(t)
    BY <1>1, SearchStep, StatStep, LookupStep, ImportStep, AdoptStep
  <1>2. CASE Chown(t) \/ Chmod(t) \/ SetRealMode(t) \/ Access(t)
    BY <1>2, ChangeStep, SetRealModeStep, AccessStep
  <1>3. CASE \/ OpenExisting(t) \/ OpenMissing(t) \/ OpenAnonymous(t)
             \/ Make(t) \/ Bind(t) \/ Rename(t)
    BY <1>3, OpenExistingStep, MissingStep, RenameStep
  <1>4. CASE LockStore(t) \/ Stage(t) \/ Record(t) \/ Publish(t) \/ Cleanup(t) \/ StoreFails(t)
    BY <1>4, LockStoreStep, StageStep, RecordStep, PublishStep, CleanupStep, StoreFailsStep
  <1>5. CASE \/ KernelOpens(t) \/ KernelMoves(t) \/ KernelCreates(t)
             \/ Finish(t) \/ Register(t)
    BY <1>5, KernelOpensStep, KernelMovesStep, KernelCreatesStep, FinishStep, RegisterStep
  <1>6. QED
    BY <1>1, <1>2, <1>3, <1>4, <1>5 DEF Step

LEMMA NextHolds == FilesInv /\ [Next]_vars => FilesInv'
  <1>1. ASSUME FilesInv, NEW t \in Tracers, Begin(t) \/ Step(t) \/ Kill(t)
        PROVE  FilesInv'
    BY <1>1, BeginStep, StepHolds, KillStep
  <1>2. ASSUME FilesInv, UNCHANGED vars
        PROVE  FilesInv'
    <2>1. /\ UNCHANGED <<names, disk, rec, lock, run>>
          /\ Named' = Named
      BY <1>2 DEF vars, Named
    <2>2. TypeInv'
      BY <1>2, <2>1 DEF FilesInv, TypeInv
    <2>3. \A t \in Tracers : StagedInv(t)'
      BY <1>2, <2>1 DEF FilesInv, StagedInv
    <2>4. QED
      BY <2>2, <2>3 DEF FilesInv
  <1>3. QED
    BY <1>1, <1>2 DEF Next, Rest

LEMMA InitHolds == Init => FilesInv
  <1> SUFFICES ASSUME Init PROVE FilesInv
    OBVIOUS
  <1>1. /\ names \in [Everywhere -> Inodes \cup {None}]
        /\ rec = [i \in Inodes |-> rec[i]]
        /\ disk = [i \in Inodes |-> [kind |-> disk[i].kind, mode |-> disk[i].mode,
                                     born |-> disk[i].born, by |-> disk[i].by]]
    BY StartsAssumption DEF Init, Everywhere
  <1>2. disk = [i \in Inodes |-> disk[i]] /\ \A i \in Inodes : IsFile(disk[i])
    BY <1>1 DEF IsFile
  <1>3. /\ run = [t \in Tracers |-> run[t]]
        /\ \A t \in Tracers : IsRun(run[t]) /\ run[t].pc = "idle"
    BY IdleIsRun DEF Init, Idle
  <1>4. QED
    BY <1>1, <1>2, <1>3 DEF FilesInv, TypeInv, StagedInv, Creating

(* In every reachable state a tracer at work inside Create holds the lock, *)
(* and its staged file is free of names and recorded as it will be found   *)
(* (FilesInv; LockStore, Stage, Record, Publish).                          *)
THEOREM FilesInvHolds == Spec => []FilesInv
  BY InitHolds, NextHolds, PTL DEF Spec

(* A staged file waits with its own record: no other tracer's step between *)
(* Record and Publish, no reuse of its inode number and no rename over it  *)
(* can change what the store will say of it, because Create holds the      *)
(* store's writer lock from before it stages the file (LockStore).         *)
THEOREM StagedFilesKeepTheirRecord == Spec => []PublishedAsRequested
  <1>1. FilesInv => PublishedAsRequested
    BY DEF FilesInv, StagedInv, PublishedAsRequested, Named, Everywhere, At
  <1>2. QED
    BY <1>1, FilesInvHolds, PTL

(* A step of one tracer leaves the others' calls as they are.              *)
LEMMA OthersKept ==
  ASSUME FilesInv, NEW u \in Tracers, NEW t \in Tracers \ {u},
         Begin(u) \/ Step(u) \/ Kill(u)
  PROVE  run'[t] = run[t]
  <1>1. ASSUME NEW r, Put(u, r)
        PROVE  run'[t] = run[t]
    BY <1>1 DEF Put, FilesInv, TypeInv
  <1>2. ASSUME Return(u) \/ \E pc : Go(u, pc)
        PROVE  run'[t] = run[t]
    BY <1>1, <1>2 DEF Return, Go
  <1>3. CASE Begin(u) \/ Kill(u) \/ Search(u) \/ Stat(u) \/ Lookup(u) \/ Import(u)
    BY <1>1, <1>2, <1>3 DEF Begin, Kill, Search, Stat, Lookup, Import
  <1>4. CASE Adopt(u) \/ Strip(u) \/ SetRealMode(u) \/ Access(u) \/ Register(u)
    BY <1>2, <1>4 DEF Adopt, Strip, SetRealMode, Access, Register
  <1>5. CASE Chown(u) \/ Chmod(u)
    BY <1>1, <1>2, <1>5 DEF Chown, Chmod, Replace
  <1>6. CASE OpenExisting(u) \/ Rename(u)
    BY <1>1, <1>2, <1>6 DEF OpenExisting, Rename
  <1>7. CASE OpenMissing(u) \/ OpenAnonymous(u) \/ Make(u) \/ Bind(u)
    BY <1>1, <1>2, <1>7 DEF OpenMissing, OpenAnonymous, Make, Bind, Creates
  <1>8. CASE LockStore(u) \/ Stage(u) \/ Record(u) \/ Publish(u) \/ Cleanup(u) \/ StoreFails(u)
    BY <1>1, <1>2, <1>8 DEF LockStore, Stage, Record, Publish, Cleanup, StoreFails
  <1>9. CASE KernelOpens(u) \/ KernelMoves(u) \/ KernelCreates(u) \/ Finish(u)
    BY <1>1, <1>2, <1>9 DEF KernelOpens, KernelMoves, KernelCreates, Finish
  <1>10. QED
    BY <1>3, <1>4, <1>5, <1>6, <1>7, <1>8, <1>9 DEF Step

(* What a tracer that decides may record.                                  *)
LEMMA DecidedLinear ==
  ASSUME NEW t \in Tracers, At(t, "decide"), rec' # rec, Begin(t) \/ Step(t) \/ Kill(t)
  PROVE  Linear(t)
  <1>1. ~Begin(t) /\ ~Kill(t)
    BY DEF At, Begin, Kill
  <1>2. Chown(t) \/ Chmod(t) \/ Rename(t)
    BY <1>1 DEF At, Step, Search, Stat, Lookup, Import, Adopt, SetRealMode, Access,
         OpenExisting, Strip, OpenMissing, OpenAnonymous, Make, Bind, Creates,
         LockStore, Stage, Record, Publish, Cleanup, StoreFails,
         KernelOpens, KernelMoves, KernelCreates, Finish, Register
  <1>3. CASE Rename(t)
    BY <1>3 DEF Rename, Linear, Op
  <1>4. CASE Chown(t)
    <2>1. /\ Op(t) = "chown" /\ MayChown(run[t].seen, run[t].call)
          /\ rec[run[t].node] = run[t].seen
          /\ rec' = [rec EXCEPT ![run[t].node] = Chowned(run[t].seen, run[t].call)]
      BY <1>4 DEF Chown, Replace
    <2>2. QED
      BY <2>1 DEF Linear, Op
  <1>5. CASE Chmod(t)
    <2>1. /\ Op(t) = "chmod" /\ MayChmod(run[t].seen, run[t].call)
          /\ rec[run[t].node] = run[t].seen
          /\ rec' = [rec EXCEPT ![run[t].node] = Chmodded(run[t].seen, run[t].call)]
      BY <1>5 DEF Chmod, Replace
    <2>2. QED
      BY <2>1 DEF Linear, Op
  <1>6. QED
    BY <1>2, <1>3, <1>4, <1>5

(* A chown or chmod that changes a record is the call applied to the       *)
(* record of that moment, by a caller that record entitles, however many   *)
(* tracers changed it since the check: Set compares the previous record.   *)
THEOREM ChangesTakeEffectAtOnce == Spec => ChangesAreLinear
  <1> DEFINE Own(t) == At(t, "decide") /\ run'[t] # run[t] /\ rec' # rec => Linear(t)
  <1>1. FilesInv /\ [Next]_vars => [\A t \in Tracers : Own(t)]_vars
    <2> SUFFICES ASSUME FilesInv, Next, NEW t \in Tracers,
                        At(t, "decide"), run'[t] # run[t], rec' # rec
                 PROVE  Linear(t)
      OBVIOUS
    <2>1. PICK u \in Tracers : Begin(u) \/ Step(u) \/ Kill(u)
      BY DEF Next, Rest, vars
    <2>2. u = t
      BY <2>1, OthersKept
    <2>3. QED
      BY <2>1, <2>2, DecidedLinear
  <1>2. QED
    BY <1>1, FilesInvHolds, PTL DEF Spec, ChangesAreLinear
=============================================================================
