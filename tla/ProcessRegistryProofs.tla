------------------------ MODULE ProcessRegistryProofs ------------------------
(***************************************************************************)
(* Theorems about ProcessRegistry, for any tracers, pids, hash function,   *)
(* table size and bounds.                                                  *)
(*                                                                         *)
(* Place(p, i) says that i is where a search for p must end: no other slot *)
(* has p, and the probe sequence of p leads to i without a slot that was   *)
(* never used.  Every slot with a pid is its place, and a tracer at work   *)
(* on a slot holds the lock and has found the place of its pid.  A slot    *)
(* that was used once is a tombstone ever after, so a place is not lost by *)
(* what is written elsewhere.                                              *)
(***************************************************************************)
EXTENDS ProcessRegistry, TLAPS

IsSlot(s) == s = [pid |-> s.pid, id |-> s.id, start |-> s.start]
IsReq(r)  == r = [op |-> r.op, pid |-> r.pid, id |-> r.id, start |-> r.start,
                  slot |-> r.slot]

Shapes ==
  /\ slots = [i \in Indices |-> slots[i]] /\ \A i \in Indices : IsSlot(slots[i])
  /\ req = [t \in Tracers |-> req[t]] /\ \A t \in Tracers : IsReq(req[t])
  /\ pc = [t \in Tracers |-> pc[t]]

Place(p, i) ==
  /\ \A j \in Indices \ {i} : slots[j].pid # p
  /\ \E n \in Indices :
       /\ Probe(p, n) = i
       /\ \A k \in 0 .. n - 1 : Probe(p, k) # i /\ slots[Probe(p, k)].pid # Free

Placed == \A i \in Indices : slots[i].pid \in Pids => Place(slots[i].pid, i)

Looking == {"version", "probe", "readId", "readStart", "recheck", "validate"}
Writing == {"mark", "blank", "id", "start", "name"}

Tracer(t) ==
  /\ pc[t] \in Writing \cup {"unlock"} => lock = t
  /\ pc[t] = "lock" /\ req[t].op # "lookup" => req[t].pid \in Pids
  /\ pc[t] \in Looking => req[t].op = "lookup"
  /\ pc[t] \in Writing => /\ req[t].pid \in Pids /\ req[t].slot \in Indices
                          /\ Place(req[t].pid, req[t].slot)

RegistryInv == Shapes /\ Placed /\ \A t \in Tracers : Tracer(t)

-----------------------------------------------------------------------------
LEMMA ProbeIsIndex ==
  ASSUME NEW p \in Pids, NEW n \in Nat
  PROVE  Probe(p, n) \in Indices
  BY HomeAssumption, SlotsAssumption DEF Probe, Indices

(* What a search finds is the place of the pid.                            *)
LEMMA FoundIsPlace ==
  ASSUME RegistryInv, NEW p \in Pids, NEW n \in Found(p)
  PROVE  Probe(p, n) \in Indices /\ Place(p, Probe(p, n))
  <1>1. n \in Indices /\ slots[Probe(p, n)].pid = p
    BY DEF Found, Examined
  <1>2. QED
    BY <1>1, ProbeIsIndex DEF RegistryInv, Placed, Indices

LEMMA NotFoundIsNowhere ==
  ASSUME RegistryInv, NEW p \in Pids, Found(p) = {}
  PROVE  \A i \in Indices : slots[i].pid # p
  <1> SUFFICES ASSUME NEW i \in Indices, slots[i].pid = p
               PROVE  FALSE
    OBVIOUS
  <1>1. PICK n \in Indices :
          /\ Probe(p, n) = i
          /\ \A k \in 0 .. n - 1 : Probe(p, k) # i /\ slots[Probe(p, k)].pid # Free
    BY DEF RegistryInv, Placed, Place
  <1>2. \A j \in Indices \ {i} : slots[j].pid # p
    BY DEF RegistryInv, Placed, Place
  <1>3. \A k \in 0 .. n - 1 : slots[Probe(p, k)].pid \notin {p, Free}
    BY <1>1, <1>2, ProbeIsIndex
  <1>4. n \in Found(p)
    BY <1>1, <1>3 DEF Found, Examined
  <1>5. QED
    BY <1>4

LEMMA UsableIsPlace ==
  ASSUME RegistryInv, NEW p \in Pids, Found(p) = {}, NEW n \in First(Usable(p))
  PROVE  Probe(p, n) \in Indices /\ Place(p, Probe(p, n))
  <1>1. /\ n \in Indices /\ slots[Probe(p, n)].pid \in {Free, Deleted}
        /\ \A k \in 0 .. n - 1 : slots[Probe(p, k)].pid \notin {p, Free}
        /\ \A k \in Usable(p) : n <= k
    BY DEF First, Usable, Examined
  <1>2. ASSUME NEW k \in 0 .. n - 1
        PROVE  Probe(p, k) # Probe(p, n)
    <2>1. SUFFICES ASSUME Probe(p, k) = Probe(p, n)
                   PROVE  FALSE
      OBVIOUS
    <2>2. k \in Indices /\ \A j \in 0 .. k - 1 : j \in 0 .. n - 1
      BY <1>1, SlotsAssumption DEF Indices
    <2>3. k \in Usable(p)
      BY <1>1, <2>1, <2>2 DEF Usable, Examined
    <2>4. QED
      BY <1>1, <2>2, <2>3 DEF Indices
  <1>3. Probe(p, n) \in Indices
    BY <1>1, ProbeIsIndex DEF Indices
  <1>4. QED
    BY <1>1, <1>2, <1>3, NotFoundIsNowhere DEF Place

(* Places stay where they are when a slot loses its pid, and when a pid is *)
(* put in its place.                                                       *)
LEMMA Kept ==
  ASSUME RegistryInv, NEW q, NEW i,
         \A j \in Indices : slots'[j].pid \in {slots[j].pid, Deleted}
  PROVE  Place(q, i) /\ q \in Pids => Place(q, i)'
  <1>1. \A n \in Nat : q \in Pids => Probe(q, n) \in Indices
    BY ProbeIsIndex
  <1>2. QED
    BY <1>1, NamesAssumption DEF Place, Probe, Indices

LEMMA PutInPlace ==
  ASSUME RegistryInv, NEW p \in Pids, NEW s \in Indices, Place(p, s),
         slots'[s].pid = p, \A j \in Indices \ {s} : slots'[j].pid = slots[j].pid
  PROVE  Placed'
  <1> SUFFICES ASSUME NEW i \in Indices, NEW q \in Pids, slots'[i].pid = q
               PROVE  Place(q, i)'
    BY DEF Placed, Place
  <1>1. Place(q, i)
    BY DEF RegistryInv, Placed
  <1>2. p = q => i = s
    BY DEF Place
  <1>3. \A n \in Nat : Probe(q, n) \in Indices
    BY ProbeIsIndex
  <1>4. \A j \in Indices \ {i} : slots'[j].pid # q
    BY <1>1, <1>2 DEF Place
  <1>5. \A j \in Indices : slots[j].pid # Free => slots'[j].pid # Free
    BY NamesAssumption
  <1>6. PICK n \in Indices :
          /\ Probe(q, n) = i
          /\ \A k \in 0 .. n - 1 : Probe(q, k) # i /\ slots[Probe(q, k)].pid # Free
    BY <1>1 DEF Place
  <1>7. \A k \in 0 .. n - 1 : slots'[Probe(q, k)].pid # Free
    BY <1>3, <1>5, <1>6
  <1>8. QED
    BY <1>4, <1>6, <1>7 DEF Place, Probe

-----------------------------------------------------------------------------
(* The other tracers are where they were.                                  *)
LEMMA OthersHold ==
  ASSUME RegistryInv, NEW t \in Tracers, NEW u \in Tracers \ {t},
         pc'[u] = pc[u], req'[u] = req[u],
         lock' = lock \/ lock \in {NoTracer, t},
         lock = t \/ \A j \in Indices : slots'[j].pid \in {slots[j].pid, Deleted}
  PROVE  Tracer(u)'
  <1>1. CASE pc[u] \in Writing \cup {"unlock"}
    <2>1. lock = u /\ lock' = u /\ u \notin {t, NoTracer}
      BY <1>1, NamesAssumption DEF RegistryInv, Tracer
    <2>2. pc[u] \in Writing => Place(req[u].pid, req[u].slot)'
      BY <2>1, Kept DEF RegistryInv, Tracer
    <2>3. QED
      BY <1>1, <2>1, <2>2 DEF RegistryInv, Tracer, Writing
  <1>2. CASE pc[u] \notin Writing \cup {"unlock"}
    BY <1>2 DEF RegistryInv, Tracer
  <1>3. QED
    BY <1>1, <1>2

LEMMA PlacedKept ==
  ASSUME RegistryInv, \A j \in Indices : slots'[j].pid \in {slots[j].pid, Deleted}
  PROVE  Placed'
  <1> SUFFICES ASSUME NEW i \in Indices, NEW q \in Pids, slots'[i].pid = q
               PROVE  Place(q, i)'
    BY DEF Placed, Place
  <1>1. Place(q, i)
    BY NamesAssumption DEF RegistryInv, Placed
  <1>2. QED
    BY <1>1, Kept

(* A step that leaves the table alone.                                     *)
LEMMA QuietStep ==
  ASSUME RegistryInv, NEW t \in Tracers, NEW label, Goto(t, label), slots' = slots,
         req' = [u \in Tracers |-> req'[u]], IsReq(req'[t]),
         \A u \in Tracers \ {t} : req'[u] = req[u],
         lock' = lock \/ lock \in {NoTracer, t},
         Tracer(t)'
  PROVE  RegistryInv'
  <1>1. Shapes'
    BY DEF Shapes, RegistryInv, Goto
  <1>2. Placed'
    BY PlacedKept
  <1>3. ASSUME NEW u \in Tracers \ {t}
        PROVE  Tracer(u)'
    BY OthersHold DEF Goto, RegistryInv, Shapes
  <1>4. QED
    BY <1>1, <1>2, <1>3 DEF RegistryInv

(* One that goes to a step where nothing is relied on.                     *)
Careless == {"idle", "killed"} \cup Looking
LEMMA CarelessStep ==
  ASSUME RegistryInv, NEW t \in Tracers, NEW label \in Careless, Goto(t, label),
         slots' = slots,
         req' = [u \in Tracers |-> req'[u]], IsReq(req'[t]),
         \A u \in Tracers \ {t} : req'[u] = req[u],
         label \in Looking => req'[t].op = "lookup",
         lock' = lock \/ lock \in {NoTracer, t}
  PROVE  RegistryInv'
  <1>1. pc'[t] = label
    BY DEF Goto, RegistryInv, Shapes
  <1>2. Tracer(t)'
    BY <1>1 DEF Tracer, Writing, Looking, Careless
  <1>3. QED
    BY <1>2, QuietStep

LEMMA ReqKept ==
  ASSUME RegistryInv, req' = req, NEW t \in Tracers
  PROVE  /\ req' = [u \in Tracers |-> req'[u]] /\ IsReq(req'[t])
         /\ \A u \in Tracers \ {t} : req'[u] = req[u]
  BY DEF RegistryInv, Shapes

LEMMA ReqPut ==
  ASSUME RegistryInv, NEW t \in Tracers, NEW r, IsReq(r), req' = [req EXCEPT ![t] = r]
  PROVE  /\ req' = [u \in Tracers |-> req'[u]] /\ req'[t] = r
         /\ \A u \in Tracers \ {t} : req'[u] = req[u]
  BY DEF RegistryInv, Shapes

Asks(r, op, p) == IsReq(r) /\ r.op = op /\ r.pid = p

LEMMA ForgetRequest ==
  ASSUME NEW op, NEW p, NEW s
  PROVE  Asks([NoRequest EXCEPT !.op = op, !.pid = p, !.start = s], op, p)
  <1> DEFINE r1 == [NoRequest EXCEPT !.op = op]
             r2 == [r1 EXCEPT !.pid = p]
             r3 == [r2 EXCEPT !.start = s]
  <1>1. r1 = [op |-> op, pid |-> Free, id |-> NoId, start |-> 0, slot |-> 0]
    BY DEF NoRequest
  <1> HIDE DEF r1
  <1>2. r2 = [op |-> op, pid |-> p, id |-> NoId, start |-> 0, slot |-> 0]
    BY <1>1
  <1> HIDE DEF r2
  <1>3. r3 = [op |-> op, pid |-> p, id |-> NoId, start |-> s, slot |-> 0]
    BY <1>2
  <1> HIDE DEF r3
  <1>4. Asks(r3, op, p)
    BY <1>3 DEF IsReq, Asks
  <1>5. QED
    BY <1>4 DEF r1, r2, r3

LEMMA LookupRequest ==
  ASSUME NEW op, NEW p
  PROVE  \E r : r = [NoRequest EXCEPT !.op = op, !.pid = p] /\ IsReq(r) /\ r.op = op
              /\ r.pid = p
  <1> DEFINE r1 == [NoRequest EXCEPT !.op = op]
             r2 == [r1 EXCEPT !.pid = p]
  <1>1. r1 = [op |-> op, pid |-> Free, id |-> NoId, start |-> 0, slot |-> 0]
    BY DEF NoRequest
  <1> HIDE DEF r1
  <1>2. r2 = [op |-> op, pid |-> p, id |-> NoId, start |-> 0, slot |-> 0]
    BY <1>1
  <1> HIDE DEF r2
  <1>3. IsReq(r2) /\ r2.op = op /\ r2.pid = p
    BY <1>2 DEF IsReq
  <1>4. QED
    BY <1>3 DEF r1, r2

LEMMA NoRequestIsReq == IsReq(NoRequest)
  BY DEF IsReq, NoRequest

-----------------------------------------------------------------------------
(* Processes and requests                                                  *)

LEMMA KernelStep ==
  ASSUME RegistryInv, UNCHANGED <<slots, lock, pc, req>>
  PROVE  RegistryInv'
  <1>1. Shapes'
    BY DEF RegistryInv, Shapes
  <1>2. Placed'
    BY PlacedKept
  <1>3. ASSUME NEW t \in Tracers
        PROVE  Tracer(t)'
    BY DEF RegistryInv, Tracer, Place
  <1>4. QED
    BY <1>1, <1>2, <1>3 DEF RegistryInv

LEMMA WaitStep ==
  ASSUME RegistryInv, NEW t \in Tracers, NEW p \in Pids, Wait(t, p)
  PROVE  RegistryInv'
  <1> DEFINE s == born[p]
  <1>a. req' = [req EXCEPT ![t] = [NoRequest EXCEPT !.op = "forget", !.pid = p, !.start = s]]
    BY DEF Wait
  <1> HIDE DEF s
  <1>b. Asks([NoRequest EXCEPT !.op = "forget", !.pid = p, !.start = s], "forget", p)
    BY ForgetRequest, Zenon
  <1>c. PICK r : r = [NoRequest EXCEPT !.op = "forget", !.pid = p, !.start = s]
    OBVIOUS
  <1>1. IsReq(r) /\ r.op = "forget" /\ r.pid = p
    BY <1>b, <1>c DEF Asks
  <1>2. Goto(t, "lock") /\ UNCHANGED <<slots, lock>> /\ req' = [req EXCEPT ![t] = r]
    BY <1>a, <1>c DEF Wait
  <1>3. /\ req' = [u \in Tracers |-> req'[u]] /\ req'[t] = r
        /\ \A u \in Tracers \ {t} : req'[u] = req[u]
    BY <1>1, <1>2, ReqPut
  <1>4. pc'[t] = "lock"
    BY <1>2 DEF Goto, RegistryInv, Shapes
  <1>5. Tracer(t)'
    BY <1>1, <1>3, <1>4 DEF Tracer, Writing, Looking
  <1>6. QED
    BY <1>1, <1>2, <1>3, <1>5, QuietStep

LEMMA StartRegisterStep ==
  ASSUME RegistryInv, NEW t \in Tracers, NEW p \in Pids, StartRegister(t, p)
  PROVE  RegistryInv'
  <1>1. PICK id \in Ids :
          req' = [req EXCEPT ![t] = [op |-> "register", pid |-> p, id |-> id,
                                     start |-> ProcessStart(p), slot |-> 0]]
    BY DEF StartRegister
  <1> DEFINE r == [op |-> "register", pid |-> p, id |-> id,
                   start |-> ProcessStart(p), slot |-> 0]
  <1>2. IsReq(r) /\ r.pid = p
    BY DEF IsReq
  <1> HIDE DEF r
  <1>3. /\ req' = [u \in Tracers |-> req'[u]] /\ req'[t] = r
        /\ \A u \in Tracers \ {t} : req'[u] = req[u]
    BY <1>1, <1>2, ReqPut DEF r
  <1>4. Goto(t, "lock") /\ UNCHANGED <<slots, lock>>
    BY DEF StartRegister
  <1>5. pc'[t] = "lock"
    BY <1>4 DEF Goto, RegistryInv, Shapes
  <1>6. Tracer(t)'
    BY <1>2, <1>3, <1>5 DEF Tracer, Writing, Looking
  <1>7. QED
    BY <1>2, <1>3, <1>4, <1>6, QuietStep

LEMMA StartLookupStep ==
  ASSUME RegistryInv, NEW t \in Tracers, NEW p \in Pids, StartLookup(t, p)
  PROVE  RegistryInv'
  <1>1. PICK r : r = [NoRequest EXCEPT !.op = "lookup", !.pid = p] /\ IsReq(r)
                 /\ r.op = "lookup"
    BY LookupRequest
  <1>2. Goto(t, "version") /\ UNCHANGED <<slots, lock>> /\ req' = [req EXCEPT ![t] = r]
    BY <1>1 DEF StartLookup
  <1>3. /\ req' = [u \in Tracers |-> req'[u]] /\ req'[t] = r
        /\ \A u \in Tracers \ {t} : req'[u] = req[u]
    BY <1>1, <1>2, ReqPut
  <1>4. QED
    BY <1>1, <1>2, <1>3, CarelessStep DEF Careless, Looking

LEMMA KillStep ==
  ASSUME RegistryInv, NEW t \in Tracers, Kill(t)
  PROVE  RegistryInv'
  <1>1. /\ Goto(t, "killed") /\ slots' = slots /\ req' = [req EXCEPT ![t] = NoRequest]
        /\ lock' = lock \/ lock = t
    BY DEF Kill
  <1>2. QED
    BY <1>1, NoRequestIsReq, ReqPut, CarelessStep DEF Careless, Looking

LEMMA UnlockStep ==
  ASSUME RegistryInv, NEW t \in Tracers, Unlock(t)
  PROVE  RegistryInv'
  <1>1. slots' = slots /\ lock = t
    BY DEF Unlock, RegistryInv, Tracer
  <1>2. CASE Goto(t, "version") /\ req' = req /\ req[t].op = "lookup"
    BY <1>1, <1>2, ReqKept, CarelessStep DEF Careless, Looking
  <1>3. CASE Finish(t)
    BY <1>1, <1>3, NoRequestIsReq, ReqPut, CarelessStep DEF Finish, Careless, Looking
  <1>4. QED
    BY <1>2, <1>3 DEF Unlock

LEMMA LookupStep ==
  ASSUME RegistryInv, NEW t \in Tracers, LookupSteps(t)
  PROVE  RegistryInv'
  <1>1. CASE ReadVersion(t)
    <2>1. /\ UNCHANGED <<slots, lock, req>> /\ req[t].op = "lookup"
          /\ Goto(t, "lock") \/ Goto(t, "probe")
      BY <1>1 DEF ReadVersion, RegistryInv, Tracer, Looking
    <2>2. CASE Goto(t, "probe")
      BY <2>1, <2>2, ReqKept, CarelessStep DEF Careless, Looking
    <2>3. CASE Goto(t, "lock")
      <3>1. pc'[t] = "lock"
        BY <2>3 DEF Goto, RegistryInv, Shapes
      <3>2. Tracer(t)'
        BY <2>1, <3>1 DEF Tracer, Writing, Looking
      <3>3. QED
        BY <2>1, <2>3, <3>2, ReqKept, QuietStep
    <2>4. QED
      BY <2>1, <2>2, <2>3
  <1>2. CASE LockForLookup(t)
    <2>1. /\ UNCHANGED <<slots, req>> /\ lock = NoTracer /\ lock' = t /\ Goto(t, "unlock")
      BY <1>2 DEF LockForLookup, AcquireLock
    <2>2. pc'[t] = "unlock"
      BY <2>1 DEF Goto, RegistryInv, Shapes
    <2>3. Tracer(t)'
      BY <2>1, <2>2 DEF Tracer, Writing, Looking
    <2>4. QED
      BY <2>1, <2>3, ReqKept, QuietStep
  <1>3. CASE ProbeSlot(t) \/ ReadId(t) \/ ReadStart(t) \/ Recheck(t)
    <2>1. /\ UNCHANGED <<slots, lock, req>> /\ req[t].op = "lookup"
          /\ \/ UNCHANGED pc
             \/ \E label \in Looking : Goto(t, label)
      BY <1>3 DEF ProbeSlot, ReadId, ReadStart, Recheck, ReadWord, RegistryInv, Tracer, Looking
    <2>2. QED
      BY <2>1, ReqKept, CarelessStep, KernelStep DEF Careless
  <1>4. CASE Validate(t)
    BY <1>4, NoRequestIsReq, ReqPut, CarelessStep DEF Validate, Finish, Careless, Looking
  <1>5. QED
    BY <1>1, <1>2, <1>3, <1>4 DEF LookupSteps

-----------------------------------------------------------------------------
(* Writers of the table                                                    *)

LEMMA SearchStep ==
  ASSUME RegistryInv, NEW t \in Tracers, Search(t)
  PROVE  RegistryInv'
  <1> DEFINE p == req[t].pid
  <1>1. /\ pc[t] = "lock" /\ req[t].op = "register" /\ lock = NoTracer /\ lock' = t
        /\ slots' = slots
    BY DEF Search, AcquireLock
  <1>2. p \in Pids /\ IsReq(req[t])
    BY <1>1 DEF RegistryInv, Tracer, Shapes
  <1>3. CASE Goto(t, "unlock") /\ req' = req
    <2>1. pc'[t] = "unlock"
      BY <1>3 DEF Goto, RegistryInv, Shapes
    <2>2. Tracer(t)'
      BY <1>1, <2>1 DEF Tracer, Writing, Looking
    <2>3. QED
      BY <1>1, <1>3, <2>2, ReqKept, QuietStep
  <1>4. ASSUME NEW i \in Indices, Place(p, i), Goto(t, "mark"),
               req' = [req EXCEPT ![t].slot = i]
        PROVE  RegistryInv'
    <2> DEFINE r == [req[t] EXCEPT !.slot = i]
    <2>1. r = [op |-> req[t].op, pid |-> p, id |-> req[t].id, start |-> req[t].start,
               slot |-> i]
      BY <1>2 DEF IsReq
    <2>2. IsReq(r) /\ r.pid = p /\ r.slot = i
      BY <2>1 DEF IsReq
    <2>3. req' = [req EXCEPT ![t] = r]
      BY <1>4
    <2> HIDE DEF r
    <2>4. /\ req' = [u \in Tracers |-> req'[u]] /\ req'[t] = r
          /\ \A u \in Tracers \ {t} : req'[u] = req[u]
      BY <2>2, <2>3, ReqPut
    <2>5. pc'[t] = "mark"
      BY <1>4 DEF Goto, RegistryInv, Shapes
    <2> HIDE DEF p
    <2>6. /\ req'[t].pid = p /\ req'[t].slot = i
      BY <2>2, <2>4
    <2>7. Tracer(t)'
      BY <1>1, <1>2, <1>4, <2>5, <2>6 DEF Tracer, Writing, Looking, Place, Probe
    <2>8. QED
      BY <1>1, <1>4, <2>2, <2>4, <2>7, QuietStep
  <1>5. CASE \E n \in Found(p) : req' = [req EXCEPT ![t].slot = Probe(p, n)] /\ Goto(t, "mark")
    BY <1>2, <1>4, <1>5, FoundIsPlace
  <1>6. CASE /\ Found(p) = {}
             /\ \E n \in First(Usable(p)) :
                  req' = [req EXCEPT ![t].slot = Probe(p, n)] /\ Goto(t, "mark")
    BY <1>2, <1>4, <1>6, UsableIsPlace
  <1>7. QED
    BY <1>3, <1>5, <1>6 DEF Search

(* The next step of a writer, with no pid put anywhere.                    *)
LEMMA WriterStep ==
  ASSUME RegistryInv, NEW t \in Tracers, pc[t] \in Writing, NEW label \in Writing,
         Goto(t, label), UNCHANGED <<req, lock>>,
         slots' = [i \in Indices |-> slots'[i]], \A i \in Indices : IsSlot(slots'[i]),
         \A i \in Indices : slots'[i].pid \in {slots[i].pid, Deleted}
  PROVE  RegistryInv'
  <1>1. Shapes'
    BY DEF Shapes, RegistryInv, Goto
  <1>2. Placed'
    BY PlacedKept
  <1>3. pc'[t] = label
    BY DEF Goto, RegistryInv, Shapes
  <1>4. lock = t /\ req[t].pid \in Pids /\ Place(req[t].pid, req[t].slot)
    BY DEF RegistryInv, Tracer
  <1>5. Place(req[t].pid, req[t].slot)'
    BY <1>4, Kept
  <1>6. Tracer(t)'
    BY <1>3, <1>5 DEF Tracer, Writing, Looking, RegistryInv
  <1>7. ASSUME NEW u \in Tracers \ {t}
        PROVE  Tracer(u)'
    BY OthersHold DEF Goto, RegistryInv, Shapes
  <1>8. QED
    BY <1>1, <1>2, <1>6, <1>7 DEF RegistryInv

LEMMA WordWritten ==
  ASSUME NEW s, IsSlot(s), NEW v
  PROVE  /\ IsSlot([s EXCEPT !.pid = v]) /\ [s EXCEPT !.pid = v].pid = v
         /\ IsSlot([s EXCEPT !.id = v]) /\ [s EXCEPT !.id = v].pid = s.pid
         /\ IsSlot([s EXCEPT !.start = v]) /\ [s EXCEPT !.start = v].pid = s.pid
  <1> DEFINE a == [s EXCEPT !.pid = v]
             b == [s EXCEPT !.id = v]
             c == [s EXCEPT !.start = v]
  <1>1. /\ a = [pid |-> v, id |-> s.id, start |-> s.start]
        /\ b = [pid |-> s.pid, id |-> v, start |-> s.start]
        /\ c = [pid |-> s.pid, id |-> s.id, start |-> v]
    BY DEF IsSlot
  <1> HIDE DEF a, b, c
  <1>2. /\ IsSlot(a) /\ a.pid = v
        /\ IsSlot(b) /\ b.pid = s.pid
        /\ IsSlot(c) /\ c.pid = s.pid
    BY <1>1 DEF IsSlot
  <1>3. QED
    BY <1>2 DEF a, b, c

LEMMA WritingStep ==
  ASSUME RegistryInv, NEW t \in Tracers, Mark(t) \/ Blank(t) \/ WriteId(t) \/ WriteStart(t)
  PROVE  RegistryInv'
  <1> DEFINE s == slots[req[t].slot]
  <1>1. CASE Mark(t)
    <2>1. pc[t] \in Writing /\ Goto(t, "blank") /\ UNCHANGED <<req, lock, slots>>
      BY <1>1 DEF Mark, Writing
    <2>2. QED
      BY <2>1, WriterStep DEF Writing, RegistryInv, Shapes
  <1>2. ASSUME NEW e, IsSlot(e), e.pid \in {s.pid, Deleted}, NEW from \in Writing,
               NEW to \in Writing, WriteSlot(t, e, from, to)
        PROVE  RegistryInv'
    <2>1. /\ pc[t] \in Writing /\ Goto(t, to) /\ UNCHANGED <<req, lock>>
          /\ slots' = [slots EXCEPT ![req[t].slot] = e]
      BY <1>2 DEF WriteSlot
    <2>2. /\ slots' = [i \in Indices |-> slots'[i]] /\ \A i \in Indices : IsSlot(slots'[i])
          /\ \A i \in Indices : slots'[i].pid \in {slots[i].pid, Deleted}
      BY <1>2, <2>1 DEF RegistryInv, Shapes
    <2>3. QED
      BY <2>1, <2>2, WriterStep
  <1>3. CASE Blank(t) \/ WriteId(t) \/ WriteStart(t)
    <2>1. IsSlot(s)
      BY <1>3 DEF Blank, WriteId, WriteStart, WriteSlot, RegistryInv, Shapes, Tracer, Writing
    <2>2. CASE Blank(t)
      <3>1. WriteSlot(t, [s EXCEPT !.pid = Deleted], "blank", "id")
        BY <2>2 DEF Blank, Entry
      <3>2. QED
        BY <1>2, <2>1, <3>1, WordWritten DEF Writing
    <2>3. CASE WriteId(t)
      <3>1. WriteSlot(t, [s EXCEPT !.id = req[t].id], "id", "start")
        BY <2>3 DEF WriteId, Entry
      <3>2. QED
        BY <1>2, <2>1, <3>1, WordWritten DEF Writing
    <2>4. CASE WriteStart(t)
      <3>1. WriteSlot(t, [s EXCEPT !.start = req[t].start], "start", "name")
        BY <2>4 DEF WriteStart, Entry
      <3>2. QED
        BY <1>2, <2>1, <3>1, WordWritten DEF Writing
    <2>5. QED
      BY <1>3, <2>2, <2>3, <2>4
  <1>4. QED
    BY <1>1, <1>3

LEMMA WritePidStep ==
  ASSUME RegistryInv, NEW t \in Tracers, WritePid(t)
  PROVE  RegistryInv'
  <1> DEFINE p == req[t].pid
             i == req[t].slot
             e == [slots[i] EXCEPT !.pid = p]
  <1>1. /\ pc[t] = "name" /\ Goto(t, "unlock") /\ UNCHANGED <<req, lock>>
        /\ slots' = [slots EXCEPT ![i] = e]
    BY DEF WritePid
  <1>2. lock = t /\ p \in Pids /\ i \in Indices /\ Place(p, i)
    BY <1>1 DEF RegistryInv, Tracer, Writing
  <1>3. IsSlot(e) /\ e.pid = p
    <2>1. IsSlot(slots[i])
      BY <1>2 DEF RegistryInv, Shapes
    <2> HIDE DEF p, i
    <2>2. QED
      BY <2>1, WordWritten
  <1> HIDE DEF e, p, i
  <1>4. /\ slots' = [j \in Indices |-> slots'[j]] /\ \A j \in Indices : IsSlot(slots'[j])
        /\ slots'[i].pid = p /\ \A j \in Indices \ {i} : slots'[j].pid = slots[j].pid
    BY <1>1, <1>2, <1>3 DEF RegistryInv, Shapes
  <1>5. Shapes'
    BY <1>1, <1>4 DEF Shapes, RegistryInv, Goto
  <1>6. Placed'
    BY <1>2, <1>4, PutInPlace
  <1>7. Tracer(t)'
    BY <1>1, <1>2 DEF Tracer, Writing, Looking, Goto, RegistryInv, Shapes
  <1>8. ASSUME NEW u \in Tracers \ {t}
        PROVE  Tracer(u)'
    BY <1>1, <1>2, OthersHold DEF Goto, RegistryInv, Shapes
  <1>9. QED
    BY <1>5, <1>6, <1>7, <1>8 DEF RegistryInv

LEMMA ForgetStep ==
  ASSUME RegistryInv, NEW t \in Tracers, Forget(t)
  PROVE  RegistryInv'
  <1>1. /\ pc[t] = "lock" /\ req[t].op = "forget" /\ lock = NoTracer /\ lock' = t
        /\ Goto(t, "unlock") /\ req' = req
    BY DEF Forget, AcquireLock
  <1>2. req[t].pid \in Pids
    BY <1>1 DEF RegistryInv, Tracer
  <1>3. /\ slots' = [i \in Indices |-> slots'[i]] /\ \A i \in Indices : IsSlot(slots'[i])
        /\ \A i \in Indices : slots'[i].pid \in {slots[i].pid, Deleted}
    <2>1. CASE slots' = slots
      BY <2>1 DEF RegistryInv, Shapes
    <2>2. ASSUME NEW n \in Found(req[t].pid),
                 slots' = [slots EXCEPT ![Probe(req[t].pid, n)].pid = Deleted]
          PROVE  /\ slots' = [j \in Indices |-> slots'[j]] /\ \A j \in Indices : IsSlot(slots'[j])
                 /\ \A j \in Indices : slots'[j].pid \in {slots[j].pid, Deleted}
      <3> DEFINE i == Probe(req[t].pid, n)
                 e == [slots[i] EXCEPT !.pid = Deleted]
      <3>1. i \in Indices
        BY <1>2, FoundIsPlace
      <3>2. IsSlot(e) /\ e.pid = Deleted /\ slots' = [slots EXCEPT ![i] = e]
        BY <2>2, <3>1, WordWritten DEF RegistryInv, Shapes
      <3> HIDE DEF i, e
      <3>3. QED
        BY <3>1, <3>2 DEF RegistryInv, Shapes
    <2>3. QED
      BY <2>1, <2>2 DEF Forget
  <1>4. Shapes'
    BY <1>1, <1>3 DEF Shapes, RegistryInv, Goto
  <1>5. Placed'
    BY <1>3, PlacedKept
  <1>6. Tracer(t)'
    BY <1>1 DEF Tracer, Writing, Looking, Goto, RegistryInv, Shapes
  <1>7. ASSUME NEW u \in Tracers \ {t}
        PROVE  Tracer(u)'
    BY <1>1, <1>3, OthersHold DEF Goto, RegistryInv, Shapes
  <1>8. QED
    BY <1>4, <1>5, <1>6, <1>7 DEF RegistryInv

-----------------------------------------------------------------------------
LEMMA InitHolds == Init => RegistryInv
  <1> SUFFICES ASSUME Init PROVE RegistryInv
    OBVIOUS
  <1>1. Shapes
    BY NoRequestIsReq DEF Init, Shapes, IsSlot, EmptySlot
  <1>2. \A i \in Indices : slots[i].pid = Free
    BY DEF Init, EmptySlot
  <1>3. Placed
    BY <1>2, NamesAssumption DEF Placed
  <1>4. QED
    BY <1>1, <1>3 DEF Init, RegistryInv, Tracer, Writing, Looking

LEMMA NextHolds == RegistryInv /\ [Next]_vars => RegistryInv'
  <1>1. ASSUME RegistryInv, NEW t \in Tracers, NEW p \in Pids,
               Birth(t, p) \/ Wait(t, p) \/ StartRegister(t, p) \/ StartLookup(t, p)
        PROVE  RegistryInv'
    BY <1>1, WaitStep, StartRegisterStep, StartLookupStep, KernelStep DEF Birth
  <1>2. ASSUME RegistryInv, NEW t \in Tracers,
               RegisterSteps(t) \/ Forget(t) \/ Unlock(t) \/ LookupSteps(t) \/ Kill(t)
        PROVE  RegistryInv'
    BY <1>2, SearchStep, WritingStep, WritePidStep, ForgetStep, UnlockStep, LookupStep,
       KillStep DEF RegisterSteps
  <1>3. ASSUME RegistryInv, \E p \in Pids : Vanish(p)
        PROVE  RegistryInv'
    BY <1>3, KernelStep DEF Vanish
  <1>4. ASSUME RegistryInv, UNCHANGED vars
        PROVE  RegistryInv'
    BY <1>4, KernelStep DEF vars
  <1>5. QED
    BY <1>1, <1>2, <1>3, <1>4 DEF Next

(* A pid never has two entries, wherever tombstones lie and whoever was    *)
(* killed in the middle of an entry: an entry is put where a search for    *)
(* the pid must end, and only the lock's holder writes (Search, WritePid,  *)
(* Forget).                                                                *)
THEOREM PidHasOneEntry == Spec => []OneEntryPerPid
  <1>1. Spec => []RegistryInv
    BY InitHolds, NextHolds, PTL DEF Spec
  <1>2. RegistryInv => OneEntryPerPid
    BY DEF RegistryInv, Placed, Place, OneEntryPerPid
  <1>3. QED
    BY <1>1, <1>2, PTL

-----------------------------------------------------------------------------
(* Answers.  An entry tells the truth: its identity was recorded for its   *)
(* start time.  A writer has marked the version before it touches a slot;  *)
(* a reader whose version still stands has copied what is there.           *)

Genuine(id, start) == start \in 1 .. MaxBirths /\ id \in ledger[start]

Frames ==
  /\ version \in Nat
  /\ state = [p \in Pids |-> state[p]] /\ born = [p \in Pids |-> born[p]] /\ clock \in Nat
  /\ \A p \in Pids : state[p] # "none" => born[p] \in 1 .. MaxBirths
  /\ ledger = [s \in 1 .. MaxBirths |-> ledger[s]]
  /\ saved \in [Tracers -> Nat] /\ probe \in [Tracers -> Nat]
  /\ got = [t \in Tracers |-> got[t]]
  /\ \A t \in Tracers : got[t] = [id |-> got[t].id, start |-> got[t].start]

TrueEntries ==
  \A i \in Indices : slots[i].pid \in Pids => Genuine(slots[i].id, slots[i].start)

Writes(t) ==
  /\ \/ pc[t] = "lock" /\ req[t].op = "register"
     \/ pc[t] \in Writing
     => req[t].start \in 1 .. MaxBirths
  /\ pc[t] \in Writing \ {"mark"} => Odd(version)
  /\ pc[t] \in {"id", "start", "name"} => slots[req[t].slot].pid = Deleted
  /\ pc[t] \in {"start", "name"} => slots[req[t].slot].id = req[t].id
  /\ pc[t] = "name" => slots[req[t].slot].start = req[t].start

Reads(t) ==
  /\ req[t].op = "lookup" => req[t].pid \in Pids
  /\ pc[t] \in {"probe", "readId", "readStart", "recheck"} =>
       ~Odd(saved[t]) /\ saved[t] <= version
  /\ pc[t] \notin {"readStart", "recheck", "validate"} => got[t].id = NoId
  /\ version = saved[t] =>
       /\ pc[t] \in {"readId", "readStart"} => Seen(t).pid = req[t].pid
       /\ pc[t] = "readStart" => got[t].id = Seen(t).id
       /\ pc[t] = "recheck" /\ got[t].id # NoId => Genuine(got[t].id, got[t].start)
  /\ pc[t] = "validate" /\ got[t].id # NoId => Genuine(got[t].id, got[t].start)

TruthInv == Frames /\ TrueEntries /\ \A t \in Tracers : Writes(t) /\ Reads(t)

LEMMA OneWriter ==
  ASSUME RegistryInv, NEW t \in Tracers, NEW u \in Tracers \ {t}, lock \in {NoTracer, t}
  PROVE  pc[u] \notin Writing \cup {"unlock"}
  BY NamesAssumption DEF RegistryInv, Tracer

LEMMA WritesKept ==
  ASSUME TruthInv, NEW u \in Tracers, pc'[u] = pc[u], req'[u] = req[u],
         pc[u] \notin Writing \/ UNCHANGED <<slots, version>>
  PROVE  Writes(u)'
  BY DEF TruthInv, Writes, Writing

LEMMA ReadsKept ==
  ASSUME TruthInv, NEW u \in Tracers, pc'[u] = pc[u], req'[u] = req[u],
         saved'[u] = saved[u], probe'[u] = probe[u], got'[u] = got[u],
         version' \in Nat, version <= version',
         \A s \in 1 .. MaxBirths : ledger[s] \subseteq ledger'[s],
         version' = version /\ ~Odd(version) => slots' = slots
  PROVE  Reads(u)'
  <1>1. \A id, start : Genuine(id, start) => Genuine(id, start)'
    BY DEF Genuine
  <1>2. CASE pc[u] \notin {"probe", "readId", "readStart", "recheck"}
    BY <1>1, <1>2 DEF TruthInv, Reads
  <1>3. CASE pc[u] \in {"probe", "readId", "readStart", "recheck"}
    <2>1. saved[u] \in Nat /\ version \in Nat /\ ~Odd(saved[u]) /\ saved[u] <= version
      BY <1>3 DEF TruthInv, Reads, Frames
    <2>2. version' = saved[u] => version = saved[u] /\ slots' = slots
      BY <2>1
    <2>3. QED
      BY <1>1, <1>3, <2>1, <2>2 DEF TruthInv, Reads, Seen, Probe
  <1>4. QED
    BY <1>2, <1>3

LEMMA Parity ==
  ASSUME NEW n \in Nat
  PROVE  /\ MakeOdd(n) \in Nat /\ n <= MakeOdd(n) /\ Odd(MakeOdd(n))
         /\ MakeEven(n) \in Nat /\ n <= MakeEven(n)
         /\ MakeEven(n) = n => ~Odd(n)
  BY DEF MakeOdd, MakeEven, Odd

(* What the steps of others leave alone.                                   *)
LEMMA OthersTrue ==
  ASSUME RegistryInv, TruthInv, NEW t \in Tracers, NEW u \in Tracers \ {t},
         pc'[u] = pc[u], req'[u] = req[u],
         saved'[u] = saved[u], probe'[u] = probe[u], got'[u] = got[u],
         \/ UNCHANGED <<slots, version>>
         \/ /\ lock \in {NoTracer, t}
            /\ version' \in Nat /\ version <= version'
            /\ version' = version /\ ~Odd(version) => slots' = slots,
         \A s \in 1 .. MaxBirths : ledger[s] \subseteq ledger'[s]
  PROVE  Writes(u)' /\ Reads(u)'
  <1>1. CASE UNCHANGED <<slots, version>>
    <2>1. version \in Nat /\ version <= version'
      BY <1>1 DEF TruthInv, Frames
    <2>2. QED
      BY <1>1, <2>1, WritesKept, ReadsKept
  <1>2. CASE ~UNCHANGED <<slots, version>>
    BY <1>2, OneWriter, WritesKept, ReadsKept
  <1>3. QED
    BY <1>1, <1>2

LEMMA ReadsNothing ==
  ASSUME NEW t, pc'[t] \notin {"probe", "readId", "readStart", "recheck", "validate"},
         got'[t].id = NoId, req'[t].op = "lookup" => req'[t].pid \in Pids
  PROVE  Reads(t)'
  BY DEF Reads

LEMMA WritesNothing ==
  ASSUME NEW t, pc'[t] \notin Writing,
         pc'[t] = "lock" /\ req'[t].op = "register" => req'[t].start \in 1 .. MaxBirths
  PROVE  Writes(t)'
  BY DEF Writes, Writing

(* One word of a slot or of a reader's copy.                               *)
LEMMA CopyWord ==
  ASSUME NEW c, NEW v, c = [id |-> c.id, start |-> c.start]
  PROVE  /\ [c EXCEPT !.id = v] = [id |-> v, start |-> c.start]
         /\ [c EXCEPT !.start = v] = [id |-> c.id, start |-> v]
  OBVIOUS

LEMMA SlotWord ==
  ASSUME NEW s, NEW v, IsSlot(s)
  PROVE  /\ [s EXCEPT !.pid = v] = [pid |-> v, id |-> s.id, start |-> s.start]
         /\ [s EXCEPT !.id = v] = [pid |-> s.pid, id |-> v, start |-> s.start]
         /\ [s EXCEPT !.start = v] = [pid |-> s.pid, id |-> s.id, start |-> v]
  BY DEF IsSlot

LEMMA GotoDone ==
  ASSUME RegistryInv, NEW t \in Tracers, NEW label, Goto(t, label)
  PROVE  pc'[t] = label /\ \A u \in Tracers \ {t} : pc'[u] = pc[u]
  BY DEF Goto, RegistryInv, Shapes

-----------------------------------------------------------------------------
(* One lemma for each action.                                              *)

LEMMA BirthTrue ==
  ASSUME RegistryInv, TruthInv, NEW t \in Tracers, NEW p \in Pids, Birth(t, p)
  PROVE  TruthInv'
  <1> USE DEF Birth, locals, ghosts
  <1>1. Frames'
    <2>1. clock' \in Nat /\ clock' \in 1 .. MaxBirths
      BY RegistryBoundsAssumption DEF TruthInv, Frames
    <2>2. \A q \in Pids : state'[q] # "none" => born'[q] \in 1 .. MaxBirths
      BY <2>1 DEF TruthInv, Frames
    <2>3. QED
      BY <2>1, <2>2 DEF TruthInv, Frames
  <1>2. TrueEntries'
    BY DEF TruthInv, TrueEntries, Genuine
  <1>3. ASSUME NEW u \in Tracers
        PROVE  Writes(u)' /\ Reads(u)'
    BY DEF TruthInv, Writes, Reads, Seen, Probe, Genuine
  <1>4. QED
    BY <1>1, <1>2, <1>3 DEF TruthInv

LEMMA VanishTrue ==
  ASSUME RegistryInv, TruthInv, NEW p \in Pids, Vanish(p)
  PROVE  TruthInv'
  <1> USE DEF Vanish, locals, ghosts
  <1>1. Frames'
    BY DEF TruthInv, Frames
  <1>2. TrueEntries'
    BY DEF TruthInv, TrueEntries, Genuine
  <1>3. ASSUME NEW u \in Tracers
        PROVE  Writes(u)' /\ Reads(u)'
    BY DEF TruthInv, Writes, Reads, Seen, Probe, Genuine
  <1>4. QED
    BY <1>1, <1>2, <1>3 DEF TruthInv

LEMMA WaitTrue ==
  ASSUME RegistryInv, TruthInv, NEW t \in Tracers, NEW p \in Pids, Wait(t, p)
  PROVE  TruthInv'
  <1> USE DEF locals, ghosts
  <1> DEFINE s == born[p]
  <1>a. req' = [req EXCEPT ![t] = [NoRequest EXCEPT !.op = "forget", !.pid = p, !.start = s]]
    BY DEF Wait
  <1> HIDE DEF s
  <1>b. Asks([NoRequest EXCEPT !.op = "forget", !.pid = p, !.start = s], "forget", p)
    BY ForgetRequest, Zenon
  <1>c. PICK r : r = [NoRequest EXCEPT !.op = "forget", !.pid = p, !.start = s]
    OBVIOUS
  <1>d. IsReq(r) /\ r.op = "forget" /\ req' = [req EXCEPT ![t] = r]
    BY <1>a, <1>b, <1>c DEF Asks
  <1>e. req'[t].op = "forget" /\ \A u \in Tracers \ {t} : req'[u] = req[u]
    BY <1>d, ReqPut
  <1>f. pc[t] = "idle" /\ pc'[t] = "lock" /\ \A u \in Tracers \ {t} : pc'[u] = pc[u]
    BY DEF Wait, Goto, RegistryInv, Shapes
  <1>g. UNCHANGED <<version, slots, born, clock, ledger, saved, probe, got>>
        /\ state' = [state EXCEPT ![p] = "waited"] /\ state[p] # "none"
    BY DEF Wait
  <1> HIDE DEF locals, ghosts
  <1>1. Frames'
    BY <1>g DEF TruthInv, Frames
  <1>2. TrueEntries'
    BY <1>g DEF TruthInv, TrueEntries, Genuine
  <1>3. Writes(t)'
    BY <1>e, <1>f, WritesNothing DEF Writing
  <1>4. Reads(t)'
    <2>1. got'[t].id = NoId
      BY <1>f, <1>g DEF TruthInv, Reads
    <2>2. QED
      BY <1>e, <1>f, <2>1, ReadsNothing
  <1>5. ASSUME NEW u \in Tracers \ {t}
        PROVE  Writes(u)' /\ Reads(u)'
    BY <1>e, <1>f, <1>g, OthersTrue
  <1>6. QED
    BY <1>1, <1>2, <1>3, <1>4, <1>5 DEF TruthInv

LEMMA StartRegisterTrue ==
  ASSUME RegistryInv, TruthInv, NEW t \in Tracers, NEW p \in Pids, StartRegister(t, p)
  PROVE  TruthInv'
  <1>a. PICK id \in Ids :
          req' = [req EXCEPT ![t] = [op |-> "register", pid |-> p, id |-> id,
                                     start |-> ProcessStart(p), slot |-> 0]]
    BY DEF StartRegister
  <1> DEFINE r == [op |-> "register", pid |-> p, id |-> id,
                   start |-> ProcessStart(p), slot |-> 0]
  <1>b. IsReq(r) /\ r.op = "register" /\ r.start = ProcessStart(p)
    BY DEF IsReq
  <1> HIDE DEF r
  <1>c. /\ req'[t].op = "register" /\ req'[t].start = ProcessStart(p)
        /\ \A u \in Tracers \ {t} : req'[u] = req[u]
    BY <1>a, <1>b, ReqPut DEF r
  <1>d. UNCHANGED <<version, slots, state, born, clock, ledger, saved, probe, got>>
    BY DEF StartRegister, locals, kernel, ghosts
  <1>e. pc[t] = "idle" /\ pc'[t] = "lock" /\ \A u \in Tracers \ {t} : pc'[u] = pc[u]
    BY GotoDone DEF StartRegister
  <1>f. ProcessStart(p) \in 1 .. MaxBirths
    BY DEF StartRegister, ProcessStart, TruthInv, Frames
  <1>1. Frames'
    BY <1>d DEF TruthInv, Frames
  <1>2. TrueEntries'
    BY <1>d DEF TruthInv, TrueEntries, Genuine
  <1>3. Writes(t)'
    BY <1>c, <1>e, <1>f, WritesNothing DEF Writing
  <1>4. Reads(t)'
    <2>1. got'[t].id = NoId
      BY <1>d, <1>e DEF TruthInv, Reads
    <2>2. QED
      BY <1>c, <1>e, <2>1, ReadsNothing
  <1>5. ASSUME NEW u \in Tracers \ {t}
        PROVE  Writes(u)' /\ Reads(u)'
    BY <1>c, <1>d, <1>e, OthersTrue
  <1>6. QED
    BY <1>1, <1>2, <1>3, <1>4, <1>5 DEF TruthInv

LEMMA StartLookupTrue ==
  ASSUME RegistryInv, TruthInv, NEW t \in Tracers, NEW p \in Pids, StartLookup(t, p)
  PROVE  TruthInv'
  <1>a. PICK r : r = [NoRequest EXCEPT !.op = "lookup", !.pid = p] /\ IsReq(r)
                 /\ r.op = "lookup" /\ r.pid = p
    BY LookupRequest
  <1>b. req' = [req EXCEPT ![t] = r]
    BY <1>a DEF StartLookup
  <1>c. req'[t] = r /\ \A u \in Tracers \ {t} : req'[u] = req[u]
    BY <1>a, <1>b, ReqPut
  <1>d. UNCHANGED <<version, slots, state, born, clock, ledger, saved, probe, got>>
    BY DEF StartLookup, locals, kernel, ghosts
  <1>e. pc[t] = "idle" /\ pc'[t] = "version" /\ \A u \in Tracers \ {t} : pc'[u] = pc[u]
    BY GotoDone DEF StartLookup
  <1>1. Frames'
    BY <1>d DEF TruthInv, Frames
  <1>2. TrueEntries'
    BY <1>d DEF TruthInv, TrueEntries, Genuine
  <1>3. Writes(t)'
    BY <1>e, WritesNothing DEF Writing
  <1>4. Reads(t)'
    <2>1. got'[t].id = NoId
      BY <1>d, <1>e DEF TruthInv, Reads
    <2>2. QED
      BY <1>a, <1>c, <1>e, <2>1, ReadsNothing
  <1>5. ASSUME NEW u \in Tracers \ {t}
        PROVE  Writes(u)' /\ Reads(u)'
    BY <1>c, <1>d, <1>e, OthersTrue
  <1>6. QED
    BY <1>1, <1>2, <1>3, <1>4, <1>5 DEF TruthInv

LEMMA KillTrue ==
  ASSUME RegistryInv, TruthInv, NEW t \in Tracers, Kill(t)
  PROVE  TruthInv'
  <1> USE DEF Kill, ghosts, Goto, NoRequest, Nothing
  <1>1. Frames'
    BY Parity DEF TruthInv, Frames
  <1>2. TrueEntries'
    BY NamesAssumption DEF TruthInv, TrueEntries, Genuine, RegistryInv, Shapes
  <1>3. Writes(t)'
    BY Parity DEF TruthInv, Writes, Writing, RegistryInv, Shapes, Tracer, Frames
  <1>4. Reads(t)'
    BY DEF TruthInv, Reads, RegistryInv, Shapes, Frames
  <1>5. ASSUME NEW u \in Tracers \ {t}
        PROVE  Writes(u)' /\ Reads(u)'
    BY Parity, OthersTrue DEF RegistryInv, Shapes, Tracer, Writing, TruthInv, Frames
  <1>6. QED
    BY <1>1, <1>2, <1>3, <1>4, <1>5 DEF TruthInv

LEMMA SearchTrue ==
  ASSUME RegistryInv, TruthInv, NEW t \in Tracers, Search(t)
  PROVE  TruthInv'
  <1>a. /\ pc[t] = "lock" /\ req[t].op = "register" /\ lock = NoTracer
        /\ UNCHANGED <<version, slots, born, clock, ledger, saved, probe, got>>
    BY DEF Search, AcquireLock, locals, ghosts
  <1>b. /\ state' = [q \in Pids |-> state'[q]]
        /\ \A q \in Pids : state'[q] # "none" => state[q] # "none"
    BY DEF Search, TruthInv, Frames
  <1>c. /\ req'[t].op = req[t].op /\ req'[t].start = req[t].start
        /\ \A u \in Tracers \ {t} : req'[u] = req[u]
    <2>1. ASSUME NEW i, req' = [req EXCEPT ![t].slot = i]
          PROVE  /\ req'[t].op = req[t].op /\ req'[t].start = req[t].start
                 /\ \A u \in Tracers \ {t} : req'[u] = req[u]
      <3> DEFINE r == [req[t] EXCEPT !.slot = i]
      <3>1. r = [op |-> req[t].op, pid |-> req[t].pid, id |-> req[t].id,
                 start |-> req[t].start, slot |-> i]
        BY DEF IsReq, RegistryInv, Shapes
      <3>2. IsReq(r) /\ r.op = req[t].op /\ r.start = req[t].start
        BY <3>1 DEF IsReq
      <3>3. req' = [req EXCEPT ![t] = r]
        BY <2>1
      <3> HIDE DEF r
      <3>4. QED
        BY <3>2, <3>3, ReqPut
    <2>2. QED
      BY <2>1 DEF Search
  <1>d. pc'[t] \in {"mark", "unlock"} /\ \A u \in Tracers \ {t} : pc'[u] = pc[u]
    BY GotoDone DEF Search
  <1>1. Frames'
    BY <1>a, <1>b DEF TruthInv, Frames
  <1>2. TrueEntries'
    BY <1>a DEF TruthInv, TrueEntries, Genuine
  <1>3. Writes(t)'
    <2>1. req[t].start \in 1 .. MaxBirths
      BY <1>a DEF TruthInv, Writes
    <2>2. QED
      BY <1>c, <1>d, <2>1 DEF Writes, Writing
  <1>4. Reads(t)'
    <2>1. got'[t].id = NoId
      BY <1>a DEF TruthInv, Reads
    <2>2. QED
      BY <1>a, <1>c, <1>d, <2>1, ReadsNothing
  <1>5. ASSUME NEW u \in Tracers \ {t}
        PROVE  Writes(u)' /\ Reads(u)'
    BY <1>a, <1>c, <1>d, OthersTrue
  <1>6. QED
    BY <1>1, <1>2, <1>3, <1>4, <1>5 DEF TruthInv

LEMMA MarkTrue ==
  ASSUME RegistryInv, TruthInv, NEW t \in Tracers, Mark(t)
  PROVE  TruthInv'
  <1> USE DEF Mark, Goto, locals, ghosts, kernel
  <1>1. Frames'
    BY Parity DEF TruthInv, Frames
  <1>2. TrueEntries'
    BY NamesAssumption DEF TruthInv, TrueEntries, Genuine, RegistryInv, Shapes
  <1>3. Writes(t)'
    BY Parity DEF TruthInv, Writes, Writing, RegistryInv, Shapes, Tracer, Frames
  <1>4. Reads(t)'
    BY DEF TruthInv, Reads, RegistryInv, Shapes, Frames
  <1>5. ASSUME NEW u \in Tracers \ {t}
        PROVE  Writes(u)' /\ Reads(u)'
    BY Parity, OthersTrue DEF RegistryInv, Shapes, Tracer, Writing, TruthInv, Frames
  <1>6. QED
    BY <1>1, <1>2, <1>3, <1>4, <1>5 DEF TruthInv

LEMMA BlankTrue ==
  ASSUME RegistryInv, TruthInv, NEW t \in Tracers, Blank(t)
  PROVE  TruthInv'
  <1> DEFINE i == req[t].slot
             e == [slots[i] EXCEPT !.pid = Deleted]
  <1>a. /\ pc[t] = "blank" /\ slots' = [slots EXCEPT ![i] = e]
        /\ UNCHANGED <<version, req, state, born, clock, ledger, saved, probe, got>>
    BY DEF Blank, WriteSlot, Entry, locals, kernel, ghosts
  <1>b. pc'[t] = "id" /\ \A u \in Tracers \ {t} : pc'[u] = pc[u]
    BY GotoDone DEF Blank, WriteSlot
  <1>c. lock = t /\ i \in Indices /\ IsSlot(slots[i])
    BY <1>a DEF RegistryInv, Tracer, Writing, Shapes
  <1>d. Odd(version) /\ version \in Nat
    BY <1>a DEF TruthInv, Writes, Writing, Frames
  <1>e. e = [pid |-> Deleted, id |-> slots[i].id, start |-> slots[i].start]
    BY <1>c, SlotWord
  <1> HIDE DEF e
  <1>f. slots'[i] = e /\ \A j \in Indices \ {i} : slots'[j] = slots[j]
    BY <1>a, <1>c DEF RegistryInv, Shapes
  <1> HIDE DEF i
  <1>1. Frames'
    BY <1>a DEF TruthInv, Frames
  <1>2. TrueEntries'
    <2>1. slots'[i].pid \notin Pids
      BY <1>e, <1>f, NamesAssumption
    <2>2. QED
      BY <1>a, <1>f, <2>1 DEF TruthInv, TrueEntries, Genuine
  <1>3. Writes(t)'
    BY <1>a, <1>b, <1>d, <1>e, <1>f DEF TruthInv, Writes, Writing, i
  <1>4. Reads(t)'
    <2>1. got'[t].id = NoId
      BY <1>a DEF TruthInv, Reads
    <2>2. QED
      BY <1>a, <1>b, <2>1, ReadsNothing DEF TruthInv, Reads
  <1>5. ASSUME NEW u \in Tracers \ {t}
        PROVE  Writes(u)' /\ Reads(u)'
    BY <1>a, <1>b, <1>c, <1>d, OthersTrue
  <1>6. QED
    BY <1>1, <1>2, <1>3, <1>4, <1>5 DEF TruthInv

LEMMA WriteIdTrue ==
  ASSUME RegistryInv, TruthInv, NEW t \in Tracers, WriteId(t)
  PROVE  TruthInv'
  <1> DEFINE i == req[t].slot
             e == [slots[i] EXCEPT !.id = req[t].id]
  <1>a. /\ pc[t] = "id" /\ slots' = [slots EXCEPT ![i] = e]
        /\ UNCHANGED <<version, req, state, born, clock, ledger, saved, probe, got>>
    BY DEF WriteId, WriteSlot, Entry, locals, kernel, ghosts
  <1>b. pc'[t] = "start" /\ \A u \in Tracers \ {t} : pc'[u] = pc[u]
    BY GotoDone DEF WriteId, WriteSlot
  <1>c. lock = t /\ i \in Indices /\ IsSlot(slots[i])
    BY <1>a DEF RegistryInv, Tracer, Writing, Shapes
  <1>d. Odd(version) /\ version \in Nat
    BY <1>a DEF TruthInv, Writes, Writing, Frames
  <1>e. e = [pid |-> slots[i].pid, id |-> req[t].id, start |-> slots[i].start]
    BY <1>c, SlotWord
  <1> HIDE DEF e
  <1>f. slots'[i] = e /\ \A j \in Indices \ {i} : slots'[j] = slots[j]
    BY <1>a, <1>c DEF RegistryInv, Shapes
  <1> HIDE DEF i
  <1>1. Frames'
    BY <1>a DEF TruthInv, Frames
  <1>2. TrueEntries'
    <2>1. slots[i].pid \notin Pids
      BY <1>a, NamesAssumption DEF TruthInv, Writes, i
    <2>2. slots'[i].pid \notin Pids
      BY <1>e, <1>f, <2>1
    <2>3. QED
      BY <1>a, <1>f, <2>2 DEF TruthInv, TrueEntries, Genuine
  <1>3. Writes(t)'
    <2>1. slots[i].pid = Deleted /\ req[t].start \in 1 .. MaxBirths
      BY <1>a DEF TruthInv, Writes, Writing, i
    <2>2. QED
      BY <1>a, <1>b, <1>d, <1>e, <1>f, <2>1 DEF Writes, Writing, i
  <1>4. Reads(t)'
    <2>1. got'[t].id = NoId
      BY <1>a DEF TruthInv, Reads
    <2>2. QED
      BY <1>a, <1>b, <2>1, ReadsNothing DEF TruthInv, Reads
  <1>5. ASSUME NEW u \in Tracers \ {t}
        PROVE  Writes(u)' /\ Reads(u)'
    BY <1>a, <1>b, <1>c, <1>d, OthersTrue
  <1>6. QED
    BY <1>1, <1>2, <1>3, <1>4, <1>5 DEF TruthInv

LEMMA WriteStartTrue ==
  ASSUME RegistryInv, TruthInv, NEW t \in Tracers, WriteStart(t)
  PROVE  TruthInv'
  <1> DEFINE i == req[t].slot
             e == [slots[i] EXCEPT !.start = req[t].start]
  <1>a. /\ pc[t] = "start" /\ slots' = [slots EXCEPT ![i] = e]
        /\ UNCHANGED <<version, req, state, born, clock, ledger, saved, probe, got>>
    BY DEF WriteStart, WriteSlot, Entry, locals, kernel, ghosts
  <1>b. pc'[t] = "name" /\ \A u \in Tracers \ {t} : pc'[u] = pc[u]
    BY GotoDone DEF WriteStart, WriteSlot
  <1>c. lock = t /\ i \in Indices /\ IsSlot(slots[i])
    BY <1>a DEF RegistryInv, Tracer, Writing, Shapes
  <1>d. Odd(version) /\ version \in Nat
    BY <1>a DEF TruthInv, Writes, Writing, Frames
  <1>e. e = [pid |-> slots[i].pid, id |-> slots[i].id, start |-> req[t].start]
    BY <1>c, SlotWord
  <1> HIDE DEF e
  <1>f. slots'[i] = e /\ \A j \in Indices \ {i} : slots'[j] = slots[j]
    BY <1>a, <1>c DEF RegistryInv, Shapes
  <1> HIDE DEF i
  <1>1. Frames'
    BY <1>a DEF TruthInv, Frames
  <1>2. TrueEntries'
    <2>1. slots[i].pid \notin Pids
      BY <1>a, NamesAssumption DEF TruthInv, Writes, i
    <2>2. slots'[i].pid \notin Pids
      BY <1>e, <1>f, <2>1
    <2>3. QED
      BY <1>a, <1>f, <2>2 DEF TruthInv, TrueEntries, Genuine
  <1>3. Writes(t)'
    <2>1. /\ slots[i].pid = Deleted /\ req[t].start \in 1 .. MaxBirths
          /\ slots[i].id = req[t].id
      BY <1>a DEF TruthInv, Writes, Writing, i
    <2>2. QED
      BY <1>a, <1>b, <1>d, <1>e, <1>f, <2>1 DEF Writes, Writing, i
  <1>4. Reads(t)'
    <2>1. got'[t].id = NoId
      BY <1>a DEF TruthInv, Reads
    <2>2. QED
      BY <1>a, <1>b, <2>1, ReadsNothing DEF TruthInv, Reads
  <1>5. ASSUME NEW u \in Tracers \ {t}
        PROVE  Writes(u)' /\ Reads(u)'
    BY <1>a, <1>b, <1>c, <1>d, OthersTrue
  <1>6. QED
    BY <1>1, <1>2, <1>3, <1>4, <1>5 DEF TruthInv

LEMMA WritePidTrue ==
  ASSUME RegistryInv, TruthInv, NEW t \in Tracers, WritePid(t)
  PROVE  TruthInv'
  <1> DEFINE i == req[t].slot
             e == [slots[i] EXCEPT !.pid = req[t].pid]
             s == req[t].start
  <1>a. /\ pc[t] = "name" /\ slots' = [slots EXCEPT ![i] = e]
        /\ ledger' = [ledger EXCEPT ![s] = @ \cup {req[t].id}]
        /\ UNCHANGED <<version, req, state, born, clock, saved, probe, got>>
    BY DEF WritePid, locals, kernel
  <1>b. pc'[t] = "unlock" /\ \A u \in Tracers \ {t} : pc'[u] = pc[u]
    BY GotoDone DEF WritePid
  <1>c. lock = t /\ i \in Indices /\ IsSlot(slots[i])
    BY <1>a DEF RegistryInv, Tracer, Writing, Shapes
  <1>d. Odd(version) /\ version \in Nat
    BY <1>a DEF TruthInv, Writes, Writing, Frames
  <1>e. e = [pid |-> req[t].pid, id |-> slots[i].id, start |-> slots[i].start]
    BY <1>c, SlotWord
  <1> HIDE DEF e
  <1>f. slots'[i] = e /\ \A j \in Indices \ {i} : slots'[j] = slots[j]
    BY <1>a, <1>c DEF RegistryInv, Shapes
  <1>g. slots[i].id = req[t].id /\ slots[i].start = s /\ s \in 1 .. MaxBirths
    BY <1>a DEF TruthInv, Writes, Writing
  <1> HIDE DEF i, s
  <1>h. /\ ledger' = [q \in 1 .. MaxBirths |-> ledger'[q]]
        /\ \A q \in 1 .. MaxBirths : ledger[q] \subseteq ledger'[q]
        /\ req[t].id \in ledger'[s]
    BY <1>a, <1>g DEF TruthInv, Frames
  <1>1. Frames'
    BY <1>a, <1>h DEF TruthInv, Frames
  <1>2. TrueEntries'
    <2>1. slots'[i].id = req[t].id /\ slots'[i].start = s
      BY <1>e, <1>f, <1>g
    <2>2. QED
      BY <1>f, <1>g, <1>h, <2>1 DEF TruthInv, TrueEntries, Genuine
  <1>3. Writes(t)'
    BY <1>b, WritesNothing DEF Writing
  <1>4. Reads(t)'
    <2>1. got'[t].id = NoId
      BY <1>a DEF TruthInv, Reads
    <2>2. QED
      BY <1>a, <1>b, <2>1, ReadsNothing DEF TruthInv, Reads
  <1>5. ASSUME NEW u \in Tracers \ {t}
        PROVE  Writes(u)' /\ Reads(u)'
    BY <1>a, <1>b, <1>c, <1>d, <1>h, OthersTrue
  <1>6. QED
    BY <1>1, <1>2, <1>3, <1>4, <1>5 DEF TruthInv

LEMMA UnlockTrue ==
  ASSUME RegistryInv, TruthInv, NEW t \in Tracers, Unlock(t)
  PROVE  TruthInv'
  <1>a. /\ pc[t] = "unlock" /\ version' = MakeEven(version) /\ lock = t
        /\ UNCHANGED <<slots, state, born, clock, ledger, saved, probe, got>>
    BY DEF Unlock, kernel, ghosts, locals, RegistryInv, Tracer
  <1>b. version \in Nat /\ version' \in Nat /\ version <= version'
        /\ (version' = version => ~Odd(version))
    BY <1>a, Parity DEF TruthInv, Frames
  <1>c. /\ pc'[t] \in {"version", "idle"} /\ \A u \in Tracers \ {t} : pc'[u] = pc[u]
        /\ \A u \in Tracers \ {t} : req'[u] = req[u]
        /\ req'[t].op = "lookup" => req'[t].pid \in Pids
    <2>1. CASE Goto(t, "version") /\ req' = req
      BY <2>1, GotoDone DEF TruthInv, Reads
    <2>2. CASE Finish(t)
      <3>1. Goto(t, "idle") /\ req' = [req EXCEPT ![t] = NoRequest]
        BY <2>2 DEF Finish
      <3>2. req'[t] = NoRequest /\ \A u \in Tracers \ {t} : req'[u] = req[u]
        BY <3>1, NoRequestIsReq, ReqPut
      <3>3. QED
        BY <3>1, <3>2, GotoDone DEF NoRequest
    <2>3. QED
      BY <2>1, <2>2 DEF Unlock
  <1>1. Frames'
    BY <1>a, <1>b DEF TruthInv, Frames
  <1>2. TrueEntries'
    BY <1>a DEF TruthInv, TrueEntries, Genuine
  <1>3. Writes(t)'
    BY <1>c, WritesNothing DEF Writing
  <1>4. Reads(t)'
    <2>1. got'[t].id = NoId
      BY <1>a DEF TruthInv, Reads
    <2>2. QED
      BY <1>c, <2>1, ReadsNothing
  <1>5. ASSUME NEW u \in Tracers \ {t}
        PROVE  Writes(u)' /\ Reads(u)'
    BY <1>a, <1>b, <1>c, OthersTrue
  <1>6. QED
    BY <1>1, <1>2, <1>3, <1>4, <1>5 DEF TruthInv

LEMMA ForgetTrue ==
  ASSUME RegistryInv, TruthInv, NEW t \in Tracers, Forget(t)
  PROVE  TruthInv'
  <1>a. /\ pc[t] = "lock" /\ req[t].op = "forget" /\ lock = NoTracer
        /\ UNCHANGED <<req, state, born, clock, ledger, saved, probe, got>>
    BY DEF Forget, AcquireLock, kernel, locals
  <1>b. pc'[t] = "unlock" /\ \A u \in Tracers \ {t} : pc'[u] = pc[u]
    BY GotoDone DEF Forget
  <1>c. version \in Nat
    BY DEF TruthInv, Frames
  <1>d. /\ version' \in Nat /\ version <= version'
        /\ version' = version /\ ~Odd(version) => slots' = slots
        /\ \A j \in Indices : \/ slots'[j] = slots[j]
                              \/ slots'[j].pid = Deleted
    <2>1. CASE UNCHANGED <<version, slots>>
      BY <1>c, <2>1
    <2>2. ASSUME NEW n \in Found(req[t].pid), version' = MakeOdd(version),
                 slots' = [slots EXCEPT ![Probe(req[t].pid, n)].pid = Deleted]
          PROVE  /\ version' \in Nat /\ version <= version' /\ Odd(version')
                 /\ \A j \in Indices : slots'[j] = slots[j] \/ slots'[j].pid = Deleted
      <3> DEFINE i == Probe(req[t].pid, n)
                 e == [slots[i] EXCEPT !.pid = Deleted]
      <3>1. i \in Indices
        BY <1>a, FoundIsPlace DEF RegistryInv, Tracer
      <3>2. e.pid = Deleted
        BY <3>1, WordWritten DEF RegistryInv, Shapes
      <3>3. slots' = [slots EXCEPT ![i] = e]
        BY <2>2
      <3> HIDE DEF i, e
      <3>4. \A j \in Indices : slots'[j] = slots[j] \/ slots'[j].pid = Deleted
        BY <3>1, <3>2, <3>3 DEF RegistryInv, Shapes
      <3>5. QED
        BY <1>c, <2>2, <3>4, Parity
    <2>3. QED
      BY <2>1, <2>2 DEF Forget
  <1>1. Frames'
    BY <1>a, <1>d DEF TruthInv, Frames
  <1>2. TrueEntries'
    BY <1>a, <1>d, NamesAssumption DEF TruthInv, TrueEntries, Genuine
  <1>3. Writes(t)'
    BY <1>b, WritesNothing DEF Writing
  <1>4. Reads(t)'
    <2>1. got'[t].id = NoId
      BY <1>a DEF TruthInv, Reads
    <2>2. QED
      BY <1>a, <1>b, <2>1, ReadsNothing DEF TruthInv, Reads
  <1>5. ASSUME NEW u \in Tracers \ {t}
        PROVE  Writes(u)' /\ Reads(u)'
    BY <1>a, <1>b, <1>d, OthersTrue
  <1>6. QED
    BY <1>1, <1>2, <1>3, <1>4, <1>5 DEF TruthInv

LEMMA ReadVersionTrue ==
  ASSUME RegistryInv, TruthInv, NEW t \in Tracers, ReadVersion(t)
  PROVE  TruthInv'
  <1>a. /\ pc[t] = "version" /\ saved' = [saved EXCEPT ![t] = IF Odd(version) THEN 0 ELSE version]
        /\ UNCHANGED <<version, slots, req, state, born, clock, ledger, probe, got>>
    BY DEF ReadVersion, kernel, ghosts
  <1>b. /\ pc'[t] = IF Odd(version) THEN "lock" ELSE "probe"
        /\ \A u \in Tracers \ {t} : pc'[u] = pc[u] /\ saved'[u] = saved[u]
    BY GotoDone DEF ReadVersion, TruthInv, Frames
  <1>c. req[t].op = "lookup" /\ version \in Nat
    BY <1>a DEF RegistryInv, Tracer, Looking, TruthInv, Frames
  <1>1. Frames'
    BY <1>a DEF TruthInv, Frames
  <1>2. TrueEntries'
    BY <1>a DEF TruthInv, TrueEntries, Genuine
  <1>3. Writes(t)'
    BY <1>a, <1>b, <1>c, WritesNothing DEF Writing
  <1>4. Reads(t)'
    <2>1. got'[t].id = NoId
      BY <1>a DEF TruthInv, Reads
    <2>2. CASE Odd(version)
      BY <1>a, <1>b, <2>1, <2>2, ReadsNothing DEF TruthInv, Reads
    <2>3. CASE ~Odd(version)
      <3>1. saved'[t] = version
        BY <1>a, <2>3 DEF TruthInv, Frames
      <3>2. pc'[t] = "probe"
        BY <1>b, <2>3
      <3>3. QED
        BY <1>a, <1>c, <2>1, <2>3, <3>1, <3>2 DEF TruthInv, Reads
    <2>4. QED
      BY <2>2, <2>3
  <1>5. ASSUME NEW u \in Tracers \ {t}
        PROVE  Writes(u)' /\ Reads(u)'
    BY <1>a, <1>b, OthersTrue
  <1>6. QED
    BY <1>1, <1>2, <1>3, <1>4, <1>5 DEF TruthInv

LEMMA LockForLookupTrue ==
  ASSUME RegistryInv, TruthInv, NEW t \in Tracers, LockForLookup(t)
  PROVE  TruthInv'
  <1> USE DEF LockForLookup, AcquireLock, Goto, ghosts, kernel, locals
  <1>1. Frames'
    BY Parity DEF TruthInv, Frames
  <1>2. TrueEntries'
    BY NamesAssumption DEF TruthInv, TrueEntries, Genuine, RegistryInv, Shapes
  <1>3. Writes(t)'
    BY Parity DEF TruthInv, Writes, Writing, RegistryInv, Shapes, Tracer, Frames
  <1>4. Reads(t)'
    BY DEF TruthInv, Reads, RegistryInv, Shapes, Frames
  <1>5. ASSUME NEW u \in Tracers \ {t}
        PROVE  Writes(u)' /\ Reads(u)'
    BY Parity, OthersTrue DEF RegistryInv, Shapes, Tracer, Writing, TruthInv, Frames
  <1>6. QED
    BY <1>1, <1>2, <1>3, <1>4, <1>5 DEF TruthInv

LEMMA ProbeSlotTrue ==
  ASSUME RegistryInv, TruthInv, NEW t \in Tracers, ProbeSlot(t)
  PROVE  TruthInv'
  <1> USE DEF ProbeSlot, Goto, ghosts, kernel, Seen
  <1>1. Frames'
    BY Parity DEF TruthInv, Frames
  <1>2. TrueEntries'
    BY NamesAssumption DEF TruthInv, TrueEntries, Genuine, RegistryInv, Shapes
  <1>3. Writes(t)'
    BY Parity DEF TruthInv, Writes, Writing, RegistryInv, Shapes, Tracer, Frames
  <1>4. Reads(t)'
    BY DEF TruthInv, Reads, RegistryInv, Shapes, Frames
  <1>5. ASSUME NEW u \in Tracers \ {t}
        PROVE  Writes(u)' /\ Reads(u)'
    BY Parity, OthersTrue DEF RegistryInv, Shapes, Tracer, Writing, TruthInv, Frames
  <1>6. QED
    BY <1>1, <1>2, <1>3, <1>4, <1>5 DEF TruthInv

LEMMA ReadIdTrue ==
  ASSUME RegistryInv, TruthInv, NEW t \in Tracers, ReadId(t)
  PROVE  TruthInv'
  <1> DEFINE c == [got[t] EXCEPT !.id = Seen(t).id]
  <1>a. /\ pc[t] = "readId" /\ got' = [got EXCEPT ![t] = c]
        /\ UNCHANGED <<version, slots, req, state, born, clock, ledger, probe, saved>>
    BY DEF ReadId, ReadWord, kernel, ghosts
  <1>b. /\ pc'[t] = "readStart" /\ \A u \in Tracers \ {t} : pc'[u] = pc[u]
    BY GotoDone DEF ReadId, ReadWord
  <1>c. c = [id |-> Seen(t).id, start |-> got[t].start]
    BY CopyWord DEF TruthInv, Frames
  <1> HIDE DEF c
  <1>d. got'[t] = c /\ \A u \in Tracers \ {t} : got'[u] = got[u]
    BY <1>a DEF TruthInv, Frames
  <1>e. c = [id |-> c.id, start |-> c.start] /\ c.id = Seen(t).id
    BY <1>c
  <1>1. Frames'
    BY <1>a, <1>d, <1>e DEF TruthInv, Frames
  <1>2. TrueEntries'
    BY <1>a DEF TruthInv, TrueEntries, Genuine
  <1>3. Writes(t)'
    BY <1>a, <1>b, WritesNothing DEF Writing
  <1>4. Reads(t)'
    BY <1>a, <1>b, <1>d, <1>e DEF TruthInv, Reads, Seen, Probe
  <1>5. ASSUME NEW u \in Tracers \ {t}
        PROVE  Writes(u)' /\ Reads(u)'
    BY <1>a, <1>b, <1>d, OthersTrue
  <1>6. QED
    BY <1>1, <1>2, <1>3, <1>4, <1>5 DEF TruthInv

LEMMA ReadStartTrue ==
  ASSUME RegistryInv, TruthInv, NEW t \in Tracers, ReadStart(t)
  PROVE  TruthInv'
  <1> DEFINE c == [got[t] EXCEPT !.start = Seen(t).start]
  <1>a. /\ pc[t] = "readStart" /\ got' = [got EXCEPT ![t] = c]
        /\ UNCHANGED <<version, slots, req, state, born, clock, ledger, probe, saved>>
    BY DEF ReadStart, ReadWord, kernel, ghosts
  <1>b. /\ pc'[t] = "recheck" /\ \A u \in Tracers \ {t} : pc'[u] = pc[u]
    BY GotoDone DEF ReadStart, ReadWord
  <1>c. c = [id |-> got[t].id, start |-> Seen(t).start]
    BY CopyWord DEF TruthInv, Frames
  <1> HIDE DEF c
  <1>d. got'[t] = c /\ \A u \in Tracers \ {t} : got'[u] = got[u]
    BY <1>a DEF TruthInv, Frames
  <1>e. c = [id |-> c.id, start |-> c.start] /\ c.id = got[t].id /\ c.start = Seen(t).start
    BY <1>c
  <1>1. Frames'
    BY <1>a, <1>d, <1>e DEF TruthInv, Frames
  <1>2. TrueEntries'
    BY <1>a DEF TruthInv, TrueEntries, Genuine
  <1>3. Writes(t)'
    BY <1>a, <1>b, WritesNothing DEF Writing
  <1>4. Reads(t)'
    <2>1. version = saved[t] => Genuine(c.id, c.start)
      <3>1. SUFFICES ASSUME version = saved[t]
                     PROVE  Genuine(c.id, c.start)
        OBVIOUS
      <3>2. Seen(t).pid = req[t].pid /\ req[t].pid \in Pids /\ got[t].id = Seen(t).id
        BY <1>a, <3>1 DEF TruthInv, Reads, RegistryInv, Tracer, Looking
      <3>3. PICK i \in Indices : Seen(t) = slots[i]
        BY <1>a, <3>2, ProbeIsIndex DEF Seen, TruthInv, Frames
      <3>4. QED
        BY <1>e, <3>2, <3>3 DEF TruthInv, TrueEntries
    <2>2. QED
      BY <1>a, <1>b, <1>d, <2>1 DEF TruthInv, Reads, Genuine
  <1>5. ASSUME NEW u \in Tracers \ {t}
        PROVE  Writes(u)' /\ Reads(u)'
    BY <1>a, <1>b, <1>d, OthersTrue
  <1>6. QED
    BY <1>1, <1>2, <1>3, <1>4, <1>5 DEF TruthInv

LEMMA RecheckTrue ==
  ASSUME RegistryInv, TruthInv, NEW t \in Tracers, Recheck(t)
  PROVE  TruthInv'
  <1>a. /\ pc[t] = "recheck"
        /\ UNCHANGED <<version, slots, req, state, born, clock, ledger>>
    BY DEF Recheck, kernel, ghosts
  <1>b. \A u \in Tracers \ {t} : pc'[u] = pc[u]
    BY GotoDone DEF Recheck
  <1>c. \/ version = saved[t] /\ pc'[t] = "validate" /\ UNCHANGED <<saved, probe, got>>
        \/ pc'[t] = "version" /\ Reset(t)
    BY GotoDone DEF Recheck
  <1>d. ASSUME Reset(t)
        PROVE  /\ saved' \in [Tracers -> Nat] /\ probe' \in [Tracers -> Nat]
               /\ got' = [u \in Tracers |-> got'[u]] /\ got'[t] = Nothing
               /\ \A u \in Tracers \ {t} : /\ saved'[u] = saved[u] /\ probe'[u] = probe[u]
                                           /\ got'[u] = got[u]
    BY <1>d DEF Reset, TruthInv, Frames
  <1>e. Nothing = [id |-> Nothing.id, start |-> Nothing.start] /\ Nothing.id = NoId
    BY DEF Nothing
  <1>1. Frames'
    <2>1. CASE UNCHANGED <<saved, probe, got>>
      BY <1>a, <2>1 DEF TruthInv, Frames
    <2>2. CASE Reset(t)
      BY <1>a, <1>d, <1>e, <2>2 DEF TruthInv, Frames
    <2>3. QED
      BY <1>c, <2>1, <2>2
  <1>2. TrueEntries'
    BY <1>a DEF TruthInv, TrueEntries, Genuine
  <1>3. Writes(t)'
    BY <1>a, <1>c, WritesNothing DEF Writing
  <1>4. Reads(t)'
    <2>1. CASE version = saved[t] /\ pc'[t] = "validate" /\ UNCHANGED <<saved, probe, got>>
      BY <1>a, <2>1 DEF TruthInv, Reads, Genuine
    <2>2. CASE pc'[t] = "version" /\ Reset(t)
      BY <1>a, <1>d, <1>e, <2>2, ReadsNothing DEF TruthInv, Reads
    <2>3. QED
      BY <1>c, <2>1, <2>2
  <1>5. ASSUME NEW u \in Tracers \ {t}
        PROVE  Writes(u)' /\ Reads(u)'
    BY <1>a, <1>b, <1>c, <1>d, OthersTrue
  <1>6. QED
    BY <1>1, <1>2, <1>3, <1>4, <1>5 DEF TruthInv

LEMMA ValidateTrue ==
  ASSUME RegistryInv, TruthInv, NEW t \in Tracers, Validate(t)
  PROVE  TruthInv'
  <1> USE DEF Validate, Finish, Goto, Reset, ghosts, kernel, Nothing, NoRequest
  <1>1. Frames'
    BY Parity DEF TruthInv, Frames
  <1>2. TrueEntries'
    BY NamesAssumption DEF TruthInv, TrueEntries, Genuine, RegistryInv, Shapes
  <1>3. Writes(t)'
    BY Parity DEF TruthInv, Writes, Writing, RegistryInv, Shapes, Tracer, Frames
  <1>4. Reads(t)'
    BY DEF TruthInv, Reads, RegistryInv, Shapes, Frames
  <1>5. ASSUME NEW u \in Tracers \ {t}
        PROVE  Writes(u)' /\ Reads(u)'
    BY Parity, OthersTrue DEF RegistryInv, Shapes, Tracer, Writing, TruthInv, Frames
  <1>6. QED
    BY <1>1, <1>2, <1>3, <1>4, <1>5 DEF TruthInv

-----------------------------------------------------------------------------
LEMMA TruthInit == Init => TruthInv
  <1> SUFFICES ASSUME Init PROVE TruthInv
    OBVIOUS
  <1>1. Frames
    BY RegistryBoundsAssumption DEF Init, Frames, Nothing
  <1>2. TrueEntries
    BY NamesAssumption DEF Init, TrueEntries, EmptySlot
  <1>3. ASSUME NEW t \in Tracers
        PROVE  Writes(t) /\ Reads(t)
    BY DEF Init, Writes, Reads, Writing, NoRequest, Nothing
  <1>4. QED
    BY <1>1, <1>2, <1>3 DEF TruthInv

LEMMA TruthNext == RegistryInv /\ TruthInv /\ [Next]_vars => TruthInv'
  <1>1. ASSUME RegistryInv, TruthInv, NEW t \in Tracers, NEW p \in Pids,
               Birth(t, p) \/ Wait(t, p) \/ StartRegister(t, p) \/ StartLookup(t, p)
        PROVE  TruthInv'
    BY <1>1, BirthTrue, WaitTrue, StartRegisterTrue, StartLookupTrue
  <1>2. ASSUME RegistryInv, TruthInv, NEW t \in Tracers,
               RegisterSteps(t) \/ Forget(t) \/ Unlock(t) \/ Kill(t)
        PROVE  TruthInv'
    BY <1>2, SearchTrue, MarkTrue, BlankTrue, WriteIdTrue, WriteStartTrue, WritePidTrue,
       ForgetTrue, UnlockTrue, KillTrue DEF RegisterSteps
  <1>3. ASSUME RegistryInv, TruthInv, NEW t \in Tracers, LookupSteps(t)
        PROVE  TruthInv'
    BY <1>3, ReadVersionTrue, LockForLookupTrue, ProbeSlotTrue, ReadIdTrue, ReadStartTrue,
       RecheckTrue, ValidateTrue DEF LookupSteps
  <1>4. ASSUME RegistryInv, TruthInv, \E p \in Pids : Vanish(p)
        PROVE  TruthInv'
    BY <1>4, VanishTrue
  <1>5. ASSUME TruthInv, UNCHANGED vars
        PROVE  TruthInv'
    BY <1>5 DEF vars, kernel, locals, ghosts, TruthInv, Frames, TrueEntries, Genuine,
       Writes, Reads, Seen, Probe, Writing
  <1>6. QED
    BY <1>1, <1>2, <1>3, <1>4, <1>5 DEF Next

(* What Process returns was recorded, as a whole, for the process that has *)
(* the pid now: the reader's copy is what the slot holds for as long as    *)
(* the version it read stands, a slot with a pid is whole, and the start   *)
(* time tells the process from those that had the pid before (ReadId,      *)
(* ReadStart, Recheck, Accepts).                                           *)
THEOREM LookupsTellTheTruth == Spec => []AnswersAreTrue
  <1>1. Spec => [](RegistryInv /\ TruthInv)
    <2>1. RegistryInv /\ TruthInv /\ [Next]_vars => (RegistryInv /\ TruthInv)'
      BY NextHolds, TruthNext
    <2>2. QED
      BY <2>1, InitHolds, TruthInit, PTL DEF Spec
  <1>2. TruthInv => AnswersAreTrue
    BY DEF TruthInv, Reads, Genuine, AnswersAreTrue, Accepts
  <1>3. QED
    BY <1>1, <1>2, PTL
-----------------------------------------------------------------------------
(***************************************************************************)
(* The identity of a live process is kept.  A start time belongs to one    *)
(* process; a tracer registers only its own tracee, and handles an end     *)
(* with the start time of the process that ended, so that an entry which   *)
(* the end of an earlier process removes is told from its own.             *)
(***************************************************************************)
Running   == {"live", "dead"}
Rewriting == {"id", "start", "name"}

BirthsInv ==
  /\ tracer = [p \in Pids |-> tracer[p]] /\ state = [p \in Pids |-> state[p]]
  /\ clock \in Nat /\ born \in [Pids -> 0 .. clock] /\ published \subseteq 1 .. clock
  /\ \A p, q \in Pids : born[p] = born[q] /\ born[p] # 0 => p = q
  /\ \A p \in Pids : state[p] # "none" => born[p] # 0

RequestInv(t) ==
  /\ pc[t] \in Writing => req[t].op = "register"
  /\ req[t].op = "register" =>
       /\ req[t].pid \in Pids /\ tracer[req[t].pid] = t /\ state[req[t].pid] \in Running
       /\ req[t].start = born[req[t].pid]
  /\ req[t].op = "forget" =>
       /\ req[t].pid \in Pids /\ req[t].start \in 0 .. clock
       /\ state[req[t].pid] \in Running => req[t].start < born[req[t].pid]
  /\ pc[t] \in {"mark", "blank"} =>
       slots[req[t].slot].pid \in {req[t].pid, Free, Deleted}

Rewrites(t, p) == lock = t /\ req[t].pid = p /\ pc[t] \in Rewriting
HasEntry(p) ==
  \/ \E i \in Indices : slots[i].pid = p /\ slots[i].start = born[p]
  \/ \E t \in Tracers : Rewrites(t, p)

EntriesKept ==
  \A p \in Pids : state[p] = "live" /\ born[p] \in published \ overtaken => HasEntry(p)

KeepsInv == BirthsInv /\ EntriesKept /\ \A t \in Tracers : RequestInv(t)

(* The end of a process is handled with the start time it had.             *)
AsksFor(r, op, p, s) == Asks(r, op, p) /\ r.start = s
LEMMA EndRequest ==
  ASSUME NEW op, NEW p, NEW s
  PROVE  AsksFor([NoRequest EXCEPT !.op = op, !.pid = p, !.start = s], op, p, s)
  <1> DEFINE r1 == [NoRequest EXCEPT !.op = op]
             r2 == [r1 EXCEPT !.pid = p]
             r3 == [r2 EXCEPT !.start = s]
  <1>1. r1 = [op |-> op, pid |-> Free, id |-> NoId, start |-> 0, slot |-> 0]
    BY DEF NoRequest
  <1> HIDE DEF r1
  <1>2. r2 = [op |-> op, pid |-> p, id |-> NoId, start |-> 0, slot |-> 0]
    BY <1>1
  <1> HIDE DEF r2
  <1>3. r3 = [op |-> op, pid |-> p, id |-> NoId, start |-> s, slot |-> 0]
    BY <1>2
  <1> HIDE DEF r3
  <1>4. AsksFor(r3, op, p, s)
    BY <1>3 DEF IsReq, Asks, AsksFor
  <1>5. QED
    BY <1>4 DEF r1, r2, r3

(* No process starts to run, and none that another tracer is registering   *)
(* ends.                                                                   *)
Calm(t) ==
  \A p \in Pids :
    /\ state'[p] \in Running => state[p] \in Running
    /\ state'[p] = "live" => state[p] = "live"
    /\ tracer[p] # t /\ state[p] \in Running => state'[p] \in Running

LEMMA OthersKeep ==
  ASSUME RegistryInv, KeepsInv, NEW t \in Tracers, NEW u \in Tracers \ {t},
         pc'[u] = pc[u], req'[u] = req[u], UNCHANGED <<born, tracer, clock>>,
         Calm(t),
         \/ lock \in {NoTracer, t}
         \/ \A i \in Indices : slots'[i].pid = slots[i].pid
  PROVE  RequestInv(u)'
  <1>1. pc[u] \in {"mark", "blank"} => slots'[req[u].slot].pid = slots[req[u].slot].pid
    BY OneWriter DEF RegistryInv, Tracer, Writing
  <1>2. RequestInv(u)
    BY DEF KeepsInv
  <1>3. QED
    BY <1>1, <1>2 DEF RequestInv, Calm, Writing, Running

(* A step of a tracer that leaves the table alone.                         *)
LEMMA MoveKeeps ==
  ASSUME RegistryInv, KeepsInv, NEW t \in Tracers, NEW label, Goto(t, label),
         UNCHANGED <<slots, born, tracer, clock, overtaken>>,
         published' \subseteq published,
         state' = [p \in Pids |-> state'[p]],
         \A p \in Pids : state'[p] # "none" => state[p] # "none",
         Calm(t),
         \A u \in Tracers \ {t} : req'[u] = req[u],
         lock' = lock \/ lock \in {NoTracer, t},
         pc[t] \notin Rewriting,
         RequestInv(t)'
  PROVE  KeepsInv'
  <1>1. pc'[t] = label /\ \A u \in Tracers \ {t} : pc'[u] = pc[u]
    BY GotoDone
  <1>2. BirthsInv'
    BY DEF KeepsInv, BirthsInv
  <1>3. EntriesKept'
    <2> SUFFICES ASSUME NEW p \in Pids, state'[p] = "live",
                        born[p] \in published \ overtaken
                 PROVE  HasEntry(p)'
      BY DEF EntriesKept
    <2>1. HasEntry(p)
      BY DEF KeepsInv, EntriesKept, Calm
    <2>2. ASSUME NEW u \in Tracers, Rewrites(u, p)
          PROVE  Rewrites(u, p)'
      BY <1>1, <2>2, NamesAssumption DEF Rewrites
    <2>3. QED
      BY <2>1, <2>2 DEF HasEntry
  <1>4. ASSUME NEW u \in Tracers \ {t}
        PROVE  RequestInv(u)'
    BY <1>1, OthersKeep
  <1>5. QED
    BY <1>2, <1>3, <1>4 DEF KeepsInv

(* One that goes to a step where no request is under way.                  *)
LEMMA IdleRequest ==
  ASSUME NEW t, pc'[t] \notin Writing, req'[t].op \notin {"register", "forget"}
  PROVE  RequestInv(t)'
  BY DEF RequestInv, Writing

LEMMA SameCalm ==
  ASSUME state' = state, NEW t
  PROVE  Calm(t)
  BY DEF Calm

LEMMA BirthKeeps ==
  ASSUME RegistryInv, KeepsInv, NEW t \in Tracers, NEW p \in Pids, Birth(t, p)
  PROVE  KeepsInv'
  <1>a. /\ state[p] = "none" /\ clock' = clock + 1
        /\ state' = [state EXCEPT ![p] = "live"] /\ born' = [born EXCEPT ![p] = clock + 1]
        /\ tracer' = [tracer EXCEPT ![p] = t]
        /\ UNCHANGED <<slots, lock, published, pc, req, overtaken>>
    BY DEF Birth, ghosts
  <1>b. /\ clock \in Nat /\ born \in [Pids -> 0 .. clock] /\ published \subseteq 1 .. clock
        /\ state = [q \in Pids |-> state[q]] /\ tracer = [q \in Pids |-> tracer[q]]
    BY DEF KeepsInv, BirthsInv
  <1>c. /\ born'[p] = clock + 1 /\ state'[p] = "live"
        /\ \A q \in Pids \ {p} : /\ born'[q] = born[q] /\ state'[q] = state[q]
                                 /\ tracer'[q] = tracer[q]
    BY <1>a, <1>b
  <1>1. BirthsInv'
    <2>1. \A q, r \in Pids : born'[q] = born'[r] /\ born'[q] # 0 => q = r
      BY <1>b, <1>c DEF KeepsInv, BirthsInv
    <2>2. \A q \in Pids : state'[q] # "none" => born'[q] # 0
      BY <1>b, <1>c DEF KeepsInv, BirthsInv
    <2>3. born' \in [Pids -> 0 .. clock'] /\ published' \subseteq 1 .. clock' /\ clock' \in Nat
      BY <1>a, <1>b
    <2>4. QED
      BY <1>a, <1>b, <2>1, <2>2, <2>3 DEF BirthsInv
  <1>2. EntriesKept'
    <2> SUFFICES ASSUME NEW q \in Pids, state'[q] = "live",
                        born'[q] \in published \ overtaken
                 PROVE  HasEntry(q)'
      BY <1>a DEF EntriesKept
    <2>1. q # p
      BY <1>b, <1>c
    <2>2. HasEntry(q)
      BY <1>c, <2>1 DEF KeepsInv, EntriesKept
    <2>3. QED
      BY <1>a, <1>c, <2>1, <2>2 DEF HasEntry, Rewrites
  <1>3. ASSUME NEW u \in Tracers
        PROVE  RequestInv(u)'
    <2>1. RequestInv(u)
      BY DEF KeepsInv
    <2>2. req[u].op = "register" => req[u].pid \in Pids \ {p}
      BY <1>a, <2>1 DEF RequestInv, Running
    <2>3. req[u].op = "forget" =>
            /\ req[u].pid \in Pids /\ req[u].start \in 0 .. clock'
            /\ state'[req[u].pid] \in Running => req[u].start < born'[req[u].pid]
      BY <1>a, <1>b, <1>c, <2>1 DEF RequestInv
    <2>4. req[u].op = "register" =>
            /\ tracer'[req[u].pid] = u /\ state'[req[u].pid] \in Running
            /\ req[u].start = born'[req[u].pid]
      BY <1>c, <2>1, <2>2 DEF RequestInv
    <2>5. QED
      BY <1>a, <2>1, <2>2, <2>3, <2>4 DEF RequestInv
  <1>4. QED
    BY <1>1, <1>2, <1>3 DEF KeepsInv

LEMMA VanishKeeps ==
  ASSUME RegistryInv, KeepsInv, NEW p \in Pids, Vanish(p)
  PROVE  KeepsInv'
  <1>a. /\ state[p] = "waited" /\ state' = [state EXCEPT ![p] = "none"]
        /\ UNCHANGED <<slots, lock, born, tracer, clock, published, pc, req, overtaken>>
    BY DEF Vanish, ghosts
  <1>b. state'[p] = "none" /\ \A q \in Pids \ {p} : state'[q] = state[q]
    BY <1>a DEF KeepsInv, BirthsInv
  <1>1. BirthsInv'
    BY <1>a, <1>b DEF KeepsInv, BirthsInv
  <1>2. EntriesKept'
    BY <1>a, <1>b DEF KeepsInv, EntriesKept, HasEntry, Rewrites
  <1>3. ASSUME NEW u \in Tracers
        PROVE  RequestInv(u)'
    BY <1>a, <1>b DEF KeepsInv, RequestInv, Running
  <1>4. QED
    BY <1>1, <1>2, <1>3 DEF KeepsInv

LEMMA WaitKeeps ==
  ASSUME RegistryInv, KeepsInv, NEW t \in Tracers, NEW p \in Pids, Wait(t, p)
  PROVE  KeepsInv'
  <1> DEFINE s == born[p]
  <1>a. req' = [req EXCEPT ![t] = [NoRequest EXCEPT !.op = "forget", !.pid = p, !.start = s]]
    BY DEF Wait
  <1>b. s \in 0 .. clock
    BY DEF KeepsInv, BirthsInv
  <1> HIDE DEF s
  <1>y. AsksFor([NoRequest EXCEPT !.op = "forget", !.pid = p, !.start = s], "forget", p, s)
    BY EndRequest, Zenon
  <1>c. PICK r : r = [NoRequest EXCEPT !.op = "forget", !.pid = p, !.start = s]
    OBVIOUS
  <1>d. /\ IsReq(r) /\ r.op = "forget" /\ r.pid = p /\ r.start = s
        /\ req' = [req EXCEPT ![t] = r]
    BY <1>a, <1>y, <1>c DEF Asks, AsksFor
  <1>e. req'[t] = r /\ \A u \in Tracers \ {t} : req'[u] = req[u]
    BY <1>d, ReqPut
  <1>f. pc[t] = "idle" /\ Goto(t, "lock") /\ pc'[t] = "lock"
    BY GotoDone DEF Wait
  <1>g. /\ UNCHANGED <<slots, lock, born, tracer, clock, overtaken>>
        /\ published' \subseteq published /\ state[p] \in Running /\ tracer[p] = t
        /\ state' = [state EXCEPT ![p] = "waited"]
    BY DEF Wait, ghosts, Running
  <1>h. /\ state' = [q \in Pids |-> state'[q]] /\ state'[p] = "waited"
        /\ \A q \in Pids \ {p} : state'[q] = state[q]
    BY <1>g DEF KeepsInv, BirthsInv
  <1>1. Calm(t)
    BY <1>g, <1>h DEF Calm, Running
  <1>2. RequestInv(t)'
    BY <1>b, <1>d, <1>e, <1>f, <1>g, <1>h DEF RequestInv, Writing, Running
  <1>3. \A q \in Pids : state'[q] # "none" => state[q] # "none"
    BY <1>g, <1>h DEF Running
  <1>4. QED
    BY <1>e, <1>f, <1>g, <1>h, <1>1, <1>2, <1>3, MoveKeeps DEF Rewriting

LEMMA StartRegisterKeeps ==
  ASSUME RegistryInv, KeepsInv, NEW t \in Tracers, NEW p \in Pids, StartRegister(t, p)
  PROVE  KeepsInv'
  <1>1. PICK id \in Ids :
          req' = [req EXCEPT ![t] = [op |-> "register", pid |-> p, id |-> id,
                                     start |-> ProcessStart(p), slot |-> 0]]
    BY DEF StartRegister
  <1> DEFINE r == [op |-> "register", pid |-> p, id |-> id,
                   start |-> ProcessStart(p), slot |-> 0]
  <1>2. IsReq(r) /\ r.op = "register" /\ r.pid = p /\ r.start = ProcessStart(p)
    BY DEF IsReq
  <1> HIDE DEF r
  <1>3. req'[t] = r /\ \A u \in Tracers \ {t} : req'[u] = req[u]
    BY <1>1, <1>2, ReqPut DEF r
  <1>4. /\ Goto(t, "lock") /\ pc[t] = "idle" /\ tracer[p] = t /\ state[p] = "live"
        /\ UNCHANGED <<slots, lock, state, born, tracer, clock, published, overtaken>>
    BY DEF StartRegister, kernel, ghosts
  <1>5. pc'[t] = "lock"
    BY <1>4, GotoDone
  <1>6. RequestInv(t)'
    BY <1>2, <1>3, <1>4, <1>5 DEF RequestInv, Writing, Running, ProcessStart
  <1>7. state' = [q \in Pids |-> state'[q]]
    BY <1>4 DEF KeepsInv, BirthsInv
  <1>8. QED
    BY <1>3, <1>4, <1>6, <1>7, SameCalm, MoveKeeps DEF Rewriting

LEMMA StartLookupKeeps ==
  ASSUME RegistryInv, KeepsInv, NEW t \in Tracers, NEW p \in Pids, StartLookup(t, p)
  PROVE  KeepsInv'
  <1>1. PICK r : r = [NoRequest EXCEPT !.op = "lookup", !.pid = p] /\ IsReq(r)
                 /\ r.op = "lookup"
    BY LookupRequest
  <1>2. /\ Goto(t, "version") /\ req' = [req EXCEPT ![t] = r] /\ pc[t] = "idle"
        /\ UNCHANGED <<slots, lock, state, born, tracer, clock, published, overtaken>>
    BY <1>1 DEF StartLookup, kernel, ghosts
  <1>3. req'[t] = r /\ \A u \in Tracers \ {t} : req'[u] = req[u]
    BY <1>1, <1>2, ReqPut
  <1>4. RequestInv(t)'
    <2>1. pc'[t] = "version" /\ req'[t].op = "lookup"
      BY <1>1, <1>2, <1>3, GotoDone
    <2>2. QED
      BY <2>1, IdleRequest DEF Writing
  <1>5. state' = [q \in Pids |-> state'[q]]
    BY <1>2 DEF KeepsInv, BirthsInv
  <1>6. QED
    BY <1>2, <1>3, <1>4, <1>5, SameCalm, MoveKeeps DEF Rewriting

LEMMA KillKeeps ==
  ASSUME RegistryInv, KeepsInv, NEW t \in Tracers, Kill(t)
  PROVE  KeepsInv'
  <1>a. /\ Goto(t, "killed") /\ lock' = (IF lock = t THEN NoTracer ELSE lock)
        /\ state' = [p \in Pids |-> IF tracer[p] = t /\ state[p] # "none"
                                    THEN "waited" ELSE state[p]]
        /\ published' \subseteq published /\ req' = [req EXCEPT ![t] = NoRequest]
        /\ UNCHANGED <<slots, born, tracer, clock, overtaken>>
    BY DEF Kill, ghosts
  <1>b. /\ req'[t] = NoRequest /\ \A u \in Tracers \ {t} : req'[u] = req[u]
        /\ pc'[t] = "killed" /\ \A u \in Tracers \ {t} : pc'[u] = pc[u]
    BY <1>a, NoRequestIsReq, ReqPut, GotoDone
  <1>c. Calm(t)
    BY <1>a DEF Calm, Running
  <1>1. BirthsInv'
    BY <1>a DEF KeepsInv, BirthsInv
  <1>2. EntriesKept'
    <2> SUFFICES ASSUME NEW p \in Pids, state'[p] = "live",
                        born[p] \in published \ overtaken
                 PROVE  HasEntry(p)'
      BY <1>a DEF EntriesKept
    <2>1. state[p] = "live" /\ tracer[p] # t
      BY <1>a
    <2>2. HasEntry(p)
      BY <2>1 DEF KeepsInv, EntriesKept
    <2>3. ASSUME NEW u \in Tracers, Rewrites(u, p)
          PROVE  Rewrites(u, p)'
      <3>1. req[u].op = "register" /\ tracer[p] = u
        BY <2>3 DEF Rewrites, KeepsInv, RequestInv, Rewriting, Writing
      <3>2. QED
        BY <1>a, <1>b, <2>1, <2>3, <3>1 DEF Rewrites
    <2>4. QED
      BY <1>a, <2>2, <2>3 DEF HasEntry
  <1>3. RequestInv(t)'
    BY <1>b, IdleRequest DEF NoRequest, Writing
  <1>4. ASSUME NEW u \in Tracers \ {t}
        PROVE  RequestInv(u)'
    BY <1>a, <1>b, <1>c, OthersKeep
  <1>5. QED
    BY <1>1, <1>2, <1>3, <1>4 DEF KeepsInv

LEMMA SearchKeeps ==
  ASSUME RegistryInv, KeepsInv, NEW t \in Tracers, Search(t)
  PROVE  KeepsInv'
  <1> DEFINE p == req[t].pid
  <1>a. /\ pc[t] = "lock" /\ req[t].op = "register" /\ lock = NoTracer
        /\ UNCHANGED <<slots, born, tracer, clock, published, overtaken>>
    BY DEF Search, AcquireLock, ghosts
  <1>b. /\ p \in Pids /\ IsReq(req[t]) /\ tracer[p] = t /\ state[p] \in Running
        /\ req[t].start = born[p]
    BY <1>a DEF RegistryInv, Shapes, KeepsInv, RequestInv
  <1>c. state = [q \in Pids |-> state[q]]
    BY DEF KeepsInv, BirthsInv
  <1>1. CASE /\ state' = [state EXCEPT ![p] = IF @ = "live" THEN "dead" ELSE @]
             /\ Goto(t, "unlock") /\ req' = req
    <2>1. /\ state' = [q \in Pids |-> state'[q]] /\ state'[p] = "dead"
          /\ \A q \in Pids \ {p} : state'[q] = state[q]
      BY <1>1, <1>b, <1>c DEF Running
    <2>2. Calm(t) /\ \A q \in Pids : state'[q] # "none" => state[q] # "none"
      BY <1>b, <2>1 DEF Calm, Running
    <2>3. RequestInv(t)'
      <3>1. pc'[t] = "unlock"
        BY <1>1, GotoDone
      <3>2. QED
        BY <1>a, <1>b, <1>1, <2>1, <3>1 DEF RequestInv, Writing, Running
    <2>4. QED
      BY <1>a, <1>1, <2>1, <2>2, <2>3, MoveKeeps DEF Rewriting
  <1>2. ASSUME NEW i \in Indices, slots[i].pid \in {p, Free, Deleted}, Goto(t, "mark"),
               req' = [req EXCEPT ![t].slot = i], state' = state
        PROVE  KeepsInv'
    <2> DEFINE r == [req[t] EXCEPT !.slot = i]
    <2>1. r = [op |-> req[t].op, pid |-> p, id |-> req[t].id, start |-> req[t].start,
               slot |-> i]
      BY <1>b DEF IsReq
    <2>2. /\ IsReq(r) /\ r.op = "register" /\ r.pid = p /\ r.start = born[p]
          /\ r.slot = i
      BY <1>a, <1>b, <2>1 DEF IsReq
    <2>3. req' = [req EXCEPT ![t] = r]
      BY <1>2
    <2> HIDE DEF r
    <2>4. req'[t] = r /\ \A u \in Tracers \ {t} : req'[u] = req[u]
      BY <2>2, <2>3, ReqPut
    <2>5. pc'[t] = "mark"
      BY <1>2, GotoDone
    <2>6. /\ req'[t].op = "register" /\ req'[t].pid = p /\ req'[t].start = born[p]
          /\ req'[t].slot = i
      BY <2>2, <2>4
    <2> HIDE DEF p
    <2>7. RequestInv(t)'
      BY <1>a, <1>b, <1>2, <2>5, <2>6 DEF RequestInv
    <2>8. QED
      BY <1>a, <1>c, <1>2, <2>4, <2>7, SameCalm, MoveKeeps DEF Rewriting, Search, AcquireLock
  <1>3. CASE /\ state' = state
             /\ \E n \in Found(p) : req' = [req EXCEPT ![t].slot = Probe(p, n)] /\ Goto(t, "mark")
    <2>1. PICK n \in Found(p) : req' = [req EXCEPT ![t].slot = Probe(p, n)] /\ Goto(t, "mark")
      BY <1>3
    <2>2. slots[Probe(p, n)].pid = p /\ Probe(p, n) \in Indices
      BY <1>b, FoundIsPlace DEF Found
    <2>3. QED
      BY <1>2, <1>3, <2>1, <2>2
  <1>4. CASE /\ state' = state /\ Found(p) = {}
             /\ \E n \in First(Usable(p)) :
                  req' = [req EXCEPT ![t].slot = Probe(p, n)] /\ Goto(t, "mark")
    <2>1. PICK n \in First(Usable(p)) :
                 req' = [req EXCEPT ![t].slot = Probe(p, n)] /\ Goto(t, "mark")
      BY <1>4
    <2>2. slots[Probe(p, n)].pid \in {Free, Deleted} /\ Probe(p, n) \in Indices
      BY <1>b, <1>4, UsableIsPlace DEF First, Usable
    <2>3. QED
      BY <1>2, <1>4, <2>1, <2>2
  <1>5. QED
    BY <1>1, <1>3, <1>4 DEF Search

(* The lock holder's steps that leave the table alone, and all of a lookup. *)
LEMMA PlainMoveKeeps ==
  ASSUME RegistryInv, KeepsInv, NEW t \in Tracers, NEW label, Goto(t, label),
         UNCHANGED <<slots, req, state, born, tracer, clock, published, overtaken>>,
         lock' = lock \/ lock \in {NoTracer, t},
         pc[t] \notin Rewriting,
         RequestInv(t)'
  PROVE  KeepsInv'
  <1>1. state' = [q \in Pids |-> state'[q]]
    BY DEF KeepsInv, BirthsInv
  <1>2. QED
    BY <1>1, SameCalm, MoveKeeps

LEMMA MarkKeeps ==
  ASSUME RegistryInv, KeepsInv, NEW t \in Tracers, Mark(t)
  PROVE  KeepsInv'
  <1>1. /\ pc[t] = "mark" /\ Goto(t, "blank")
        /\ UNCHANGED <<slots, lock, req, state, born, tracer, clock, published, overtaken>>
    BY DEF Mark, kernel, ghosts
  <1>2. pc'[t] = "blank"
    BY <1>1, GotoDone
  <1>3. RequestInv(t)'
    BY <1>1, <1>2 DEF KeepsInv, RequestInv, Writing
  <1>4. QED
    BY <1>1, <1>3, PlainMoveKeeps DEF Rewriting

LEMMA UnlockKeeps ==
  ASSUME RegistryInv, KeepsInv, NEW t \in Tracers, Unlock(t)
  PROVE  KeepsInv'
  <1>1. /\ pc[t] = "unlock" /\ lock = t
        /\ UNCHANGED <<slots, state, born, tracer, clock, published, overtaken>>
    BY DEF Unlock, kernel, ghosts, RegistryInv, Tracer
  <1>2. CASE Goto(t, "version") /\ req' = req /\ req[t].op = "lookup"
    <2>1. RequestInv(t)'
      <3>1. pc'[t] = "version" /\ req'[t].op = "lookup"
        BY <1>2, GotoDone
      <3>2. QED
        BY <3>1, IdleRequest DEF Writing
    <2>2. QED
      BY <1>1, <1>2, <2>1, PlainMoveKeeps DEF Rewriting
  <1>3. CASE Goto(t, "idle") /\ req' = [req EXCEPT ![t] = NoRequest]
    <2>1. req'[t] = NoRequest /\ \A u \in Tracers \ {t} : req'[u] = req[u]
      BY <1>3, NoRequestIsReq, ReqPut
    <2>2. pc'[t] = "idle" /\ req'[t].op = "none"
      BY <1>3, <2>1, GotoDone DEF NoRequest
    <2>3. RequestInv(t)'
      BY <2>2, IdleRequest DEF Writing
    <2>4. state' = [q \in Pids |-> state'[q]]
      BY <1>1 DEF KeepsInv, BirthsInv
    <2>5. QED
      BY <1>1, <1>3, <2>1, <2>3, <2>4, SameCalm, MoveKeeps DEF Rewriting
  <1>4. QED
    BY <1>2, <1>3 DEF Unlock, Finish

LEMMA LookupKeeps ==
  ASSUME RegistryInv, KeepsInv, NEW t \in Tracers, LookupSteps(t)
  PROVE  KeepsInv'
  <1> DEFINE Still == UNCHANGED <<slots, state, born, tracer, clock, published, overtaken>>
  <1>0. pc[t] \in Looking => req[t].op = "lookup"
    BY DEF RegistryInv, Tracer
  <1>1. ASSUME Still, req' = req, req[t].op = "lookup", pc[t] \notin Rewriting,
               NEW label, label \notin Writing, Goto(t, label),
               lock' = lock \/ lock = NoTracer
        PROVE  KeepsInv'
    <2>1. pc'[t] = label /\ req'[t].op = "lookup"
      BY <1>1, GotoDone
    <2>2. RequestInv(t)'
      BY <1>1, <2>1, IdleRequest
    <2>3. QED
      BY <1>1, <2>2, PlainMoveKeeps
  <1>2. CASE ReadVersion(t)
    <2>1. Still /\ UNCHANGED <<req, lock>> /\ pc[t] = "version"
          /\ (Goto(t, "lock") \/ Goto(t, "probe"))
      BY <1>2 DEF ReadVersion, kernel, ghosts
    <2>2. QED
      BY <1>0, <1>1, <2>1 DEF Looking, Writing, Rewriting
  <1>3. CASE LockForLookup(t)
    BY <1>1, <1>3 DEF LockForLookup, AcquireLock, kernel, ghosts, Writing, Rewriting
  <1>4. CASE ProbeSlot(t) /\ UNCHANGED pc
    <2>1. /\ pc[t] = "probe" /\ Still /\ UNCHANGED <<req, lock, pc>>
      BY <1>4 DEF ProbeSlot, kernel, ghosts
    <2>2. Goto(t, "probe")
      BY <2>1 DEF Goto, RegistryInv, Shapes
    <2>3. QED
      BY <1>0, <1>1, <2>1, <2>2 DEF Looking, Writing, Rewriting
  <1>5. CASE ProbeSlot(t) /\ (Goto(t, "readId") \/ Goto(t, "recheck"))
    <2>1. /\ pc[t] = "probe" /\ Still /\ UNCHANGED <<req, lock>>
      BY <1>5 DEF ProbeSlot, kernel, ghosts
    <2>2. QED
      BY <1>0, <1>1, <1>5, <2>1 DEF Looking, Writing, Rewriting
  <1>6. CASE ReadId(t) \/ ReadStart(t)
    <2>1. /\ pc[t] \in {"readId", "readStart"} /\ Still /\ UNCHANGED <<req, lock>>
          /\ (Goto(t, "readStart") \/ Goto(t, "recheck"))
      BY <1>6 DEF ReadId, ReadStart, ReadWord, kernel, ghosts
    <2>2. QED
      BY <1>0, <1>1, <2>1 DEF Looking, Writing, Rewriting
  <1>7. CASE Recheck(t)
    <2>1. /\ pc[t] = "recheck" /\ Still /\ UNCHANGED <<req, lock>>
          /\ (Goto(t, "validate") \/ Goto(t, "version"))
      BY <1>7 DEF Recheck, kernel, ghosts
    <2>2. QED
      BY <1>0, <1>1, <2>1 DEF Looking, Writing, Rewriting
  <1>8. CASE Validate(t)
    <2>1. /\ pc[t] = "validate" /\ Still /\ lock' = lock /\ Goto(t, "idle")
          /\ req' = [req EXCEPT ![t] = NoRequest]
      BY <1>8 DEF Validate, Finish, kernel, ghosts
    <2>2. req'[t] = NoRequest /\ \A u \in Tracers \ {t} : req'[u] = req[u]
      BY <2>1, NoRequestIsReq, ReqPut
    <2>3. pc'[t] = "idle" /\ req'[t].op = "none"
      BY <2>1, <2>2, GotoDone DEF NoRequest
    <2>4. RequestInv(t)'
      BY <2>3, IdleRequest DEF Writing
    <2>5. state' = [q \in Pids |-> state'[q]]
      BY <2>1 DEF KeepsInv, BirthsInv
    <2>6. QED
      BY <2>1, <2>2, <2>4, <2>5, SameCalm, MoveKeeps DEF Rewriting
  <1>9. QED
    BY <1>2, <1>3, <1>4, <1>5, <1>6, <1>7, <1>8 DEF LookupSteps, ProbeSlot

(* One word of the holder's slot, whose pid is gone or about to go.        *)
LEMMA WordKeeps ==
  ASSUME RegistryInv, KeepsInv, NEW t \in Tracers, pc[t] \in Writing,
         NEW label \in Rewriting, Goto(t, label), NEW e,
         slots' = [slots EXCEPT ![req[t].slot] = e],
         slots[req[t].slot].pid \in {req[t].pid, Free, Deleted},
         UNCHANGED <<req, lock, state, born, tracer, clock, published, overtaken>>
  PROVE  KeepsInv'
  <1> DEFINE i == req[t].slot
  <1>1. pc'[t] = label /\ \A u \in Tracers \ {t} : pc'[u] = pc[u]
    BY GotoDone
  <1>2. /\ lock = t /\ i \in Indices /\ slots = [j \in Indices |-> slots[j]]
        /\ \A j \in Indices \ {i} : slots'[j] = slots[j]
    BY DEF RegistryInv, Shapes, Tracer
  <1>3. BirthsInv'
    BY DEF KeepsInv, BirthsInv
  <1>4. EntriesKept'
    <2> SUFFICES ASSUME NEW p \in Pids, state[p] = "live",
                        born[p] \in published \ overtaken
                 PROVE  HasEntry(p)'
      BY DEF EntriesKept
    <2>1. HasEntry(p)
      BY DEF KeepsInv, EntriesKept
    <2>2. CASE req[t].pid = p
      BY <1>1, <1>2, <2>2 DEF HasEntry, Rewrites
    <2>3. CASE req[t].pid # p
      <3>1. ~\E u \in Tracers : Rewrites(u, p)
        BY <1>2, <2>3 DEF Rewrites
      <3>2. PICK j \in Indices : slots[j].pid = p /\ slots[j].start = born[p]
        BY <2>1, <3>1 DEF HasEntry
      <3>3. j # i
        BY <2>3, <3>2, NamesAssumption
      <3>4. QED
        BY <1>2, <3>2, <3>3 DEF HasEntry
    <2>4. QED
      BY <2>2, <2>3
  <1>5. RequestInv(t)'
    BY <1>1 DEF KeepsInv, RequestInv, Rewriting, Writing
  <1>6. ASSUME NEW u \in Tracers \ {t}
        PROVE  RequestInv(u)'
    BY <1>1, <1>2, SameCalm, OthersKeep
  <1>7. QED
    BY <1>3, <1>4, <1>5, <1>6 DEF KeepsInv

LEMMA WordsKeep ==
  ASSUME RegistryInv, TruthInv, KeepsInv, NEW t \in Tracers,
         Blank(t) \/ WriteId(t) \/ WriteStart(t)
  PROVE  KeepsInv'
  <1>1. CASE Blank(t)
    <2>1. /\ pc[t] = "blank" /\ Goto(t, "id")
          /\ slots' = [slots EXCEPT ![req[t].slot] = [Entry(t) EXCEPT !.pid = Deleted]]
          /\ UNCHANGED <<req, lock, state, born, tracer, clock, published, overtaken>>
      BY <1>1 DEF Blank, WriteSlot, kernel, ghosts
    <2>2. slots[req[t].slot].pid \in {req[t].pid, Free, Deleted}
      BY <2>1 DEF KeepsInv, RequestInv
    <2>3. QED
      BY <2>1, <2>2, WordKeeps DEF Writing, Rewriting
  <1>2. CASE WriteId(t) \/ WriteStart(t)
    <2>1. /\ pc[t] \in {"id", "start"} /\ \E label \in Rewriting : Goto(t, label)
          /\ \E e : slots' = [slots EXCEPT ![req[t].slot] = e]
          /\ UNCHANGED <<req, lock, state, born, tracer, clock, published, overtaken>>
      BY <1>2 DEF WriteId, WriteStart, WriteSlot, kernel, ghosts, Rewriting
    <2>2. slots[req[t].slot].pid = Deleted
      BY <2>1 DEF TruthInv, Writes
    <2>3. QED
      BY <2>1, <2>2, WordKeeps DEF Writing
  <1>3. QED
    BY <1>1, <1>2

LEMMA WritePidKeeps ==
  ASSUME RegistryInv, TruthInv, KeepsInv, NEW t \in Tracers, WritePid(t)
  PROVE  KeepsInv'
  <1> DEFINE i == req[t].slot
             p == req[t].pid
             e == [slots[i] EXCEPT !.pid = p]
  <1>a. /\ pc[t] = "name" /\ Goto(t, "unlock") /\ slots' = [slots EXCEPT ![i] = e]
        /\ published' = published \cup {req[t].start}
        /\ UNCHANGED <<req, lock, state, born, tracer, clock, overtaken>>
    BY DEF WritePid, kernel
  <1>b. pc'[t] = "unlock" /\ \A u \in Tracers \ {t} : pc'[u] = pc[u]
    BY <1>a, GotoDone
  <1>c. /\ lock = t /\ i \in Indices /\ IsSlot(slots[i]) /\ p \in Pids
    BY <1>a DEF RegistryInv, Tracer, Writing, Shapes
  <1>d. /\ req[t].start = born[p] /\ state[p] \in Running /\ req[t].op = "register"
        /\ tracer[p] = t
        /\ slots[i].start = born[p] /\ slots[i].pid = Deleted
    BY <1>a DEF KeepsInv, RequestInv, TruthInv, Writes, Writing
  <1>e. e = [pid |-> p, id |-> slots[i].id, start |-> slots[i].start]
    BY <1>c, SlotWord
  <1>f. e.pid = p /\ e.start = born[p]
    BY <1>d, <1>e
  <1> HIDE DEF e
  <1>g. slots'[i].pid = p /\ slots'[i].start = born[p]
        /\ \A j \in Indices \ {i} : slots'[j] = slots[j]
    BY <1>a, <1>c, <1>f DEF RegistryInv, Shapes
  <1>h. /\ clock \in Nat /\ born[p] \in 0 .. clock /\ born[p] # 0
        /\ published \subseteq 1 .. clock
    BY <1>c, <1>d DEF KeepsInv, BirthsInv, Running
  <1>1. BirthsInv'
    <2>0. req[t].start \in 1 .. clock
      BY <1>d, <1>h
    <2>1. published' \subseteq 1 .. clock
      BY <1>a, <1>h, <2>0
    <2>2. QED
      BY <1>a, <2>1 DEF KeepsInv, BirthsInv
  <1>2. EntriesKept'
    <2> SUFFICES ASSUME NEW q \in Pids, state[q] = "live",
                        born[q] \in published' \ overtaken
                 PROVE  HasEntry(q)'
      BY <1>a DEF EntriesKept
    <2>1. CASE q = p
      BY <1>a, <1>c, <1>g, <2>1 DEF HasEntry
    <2>2. CASE q # p
      <3>1. born[q] # born[p]
        BY <1>c, <1>h, <2>2 DEF KeepsInv, BirthsInv
      <3>2. HasEntry(q)
        BY <1>a, <1>d, <3>1 DEF KeepsInv, EntriesKept
      <3>3. ~\E u \in Tracers : Rewrites(u, q)
        BY <1>c, <2>2 DEF Rewrites
      <3>4. PICK j \in Indices : slots[j].pid = q /\ slots[j].start = born[q]
        BY <3>2, <3>3 DEF HasEntry
      <3>5. j # i
        BY <1>d, <3>4, NamesAssumption
      <3>6. QED
        BY <1>a, <1>g, <3>4, <3>5 DEF HasEntry
    <2>3. QED
      BY <2>1, <2>2
  <1>3. RequestInv(t)'
    BY <1>a, <1>b, <1>c, <1>d DEF RequestInv, Writing
  <1>4. ASSUME NEW u \in Tracers \ {t}
        PROVE  RequestInv(u)'
    BY <1>a, <1>b, <1>c, SameCalm, OthersKeep
  <1>5. QED
    BY <1>1, <1>2, <1>3, <1>4 DEF KeepsInv

(* The one entry of the pid is removed; if it is that of the process that  *)
(* has the pid now, it is later than the end being handled.                *)
LEMMA ForgetKeeps ==
  ASSUME RegistryInv, KeepsInv, NEW t \in Tracers, Forget(t)
  PROVE  KeepsInv'
  <1> DEFINE p == req[t].pid
  <1>a. /\ pc[t] = "lock" /\ req[t].op = "forget" /\ lock = NoTracer /\ lock' = t
        /\ Goto(t, "unlock")
        /\ UNCHANGED <<req, state, born, tracer, clock, published>>
    BY DEF Forget, AcquireLock, kernel
  <1>b. pc'[t] = "unlock" /\ \A u \in Tracers \ {t} : pc'[u] = pc[u]
    BY <1>a, GotoDone
  <1>c. /\ p \in Pids /\ req[t].start \in 0 .. clock /\ clock \in Nat
        /\ state[p] \in Running => req[t].start < born[p]
    BY <1>a DEF KeepsInv, RequestInv, BirthsInv
  <1>1. BirthsInv'
    BY <1>a DEF KeepsInv, BirthsInv
  <1>2. EntriesKept'
    <2>0. SUFFICES ASSUME NEW q \in Pids, state[q] = "live",
                          born[q] \in published \ overtaken'
                   PROVE  \E j \in Indices : slots'[j].pid = q /\ slots'[j].start = born[q]
      BY <1>a DEF EntriesKept, HasEntry
    <2>1. overtaken \subseteq overtaken'
      BY DEF Forget, Overtakes
    <2>2. HasEntry(q)
      BY <2>0, <2>1 DEF KeepsInv, EntriesKept
    <2>3. ~\E u \in Tracers : Rewrites(u, q)
      BY <1>a, NamesAssumption DEF Rewrites
    <2>4. PICK j \in Indices : slots[j].pid = q /\ slots[j].start = born[q]
      BY <2>2, <2>3 DEF HasEntry
    <2>5. CASE UNCHANGED slots
      BY <2>4, <2>5
    <2>6. ASSUME NEW n \in Found(p), Overtakes(t, slots[Probe(p, n)]),
                 slots' = [slots EXCEPT ![Probe(p, n)].pid = Deleted]
          PROVE  slots'[j].pid = q /\ slots'[j].start = born[q]
      <3> DEFINE i == Probe(p, n)
                 e == [slots[i] EXCEPT !.pid = Deleted]
      <3>1. i \in Indices /\ Place(p, i) /\ slots[i].pid = p
        BY <1>c, FoundIsPlace DEF Found
      <3>2. slots' = [slots EXCEPT ![i] = e]
        BY <2>6
      <3>3. q # p
        <4>1. SUFFICES ASSUME q = p
                       PROVE  FALSE
          OBVIOUS
        <4>2. j = i
          BY <2>4, <3>1, <4>1 DEF Place
        <4>3. slots[i].start > req[t].start
          <5>1. born[p] \in Nat /\ req[t].start \in Nat /\ req[t].start < born[p]
            BY <1>c, <2>0, <4>1 DEF KeepsInv, BirthsInv, Running
          <5>2. QED
            BY <2>4, <4>1, <4>2, <5>1
        <4>4. slots[i].start \in overtaken'
          BY <2>6, <4>3 DEF Overtakes
        <4>5. QED
          BY <2>0, <2>4, <4>2, <4>4
      <3>4. j # i
        BY <2>4, <3>1, <3>3
      <3> HIDE DEF e, i
      <3>5. slots'[j] = slots[j]
        BY <3>1, <3>2, <3>4 DEF RegistryInv, Shapes
      <3>6. QED
        BY <2>4, <3>5
    <2>7. QED
      BY <2>4, <2>5, <2>6 DEF Forget
  <1>3. RequestInv(t)'
    BY <1>a, <1>b, <1>c DEF RequestInv, Writing
  <1>4. ASSUME NEW u \in Tracers \ {t}
        PROVE  RequestInv(u)'
    BY <1>a, <1>b, SameCalm, OthersKeep
  <1>5. QED
    BY <1>1, <1>2, <1>3, <1>4 DEF KeepsInv

-----------------------------------------------------------------------------
LEMMA KeepsInit == Init => KeepsInv
  <1> SUFFICES ASSUME Init PROVE KeepsInv
    OBVIOUS
  <1>1. BirthsInv
    BY DEF Init, BirthsInv
  <1>2. EntriesKept
    BY DEF Init, EntriesKept
  <1>3. ASSUME NEW t \in Tracers
        PROVE  RequestInv(t)
    BY DEF Init, RequestInv, Writing, NoRequest
  <1>4. QED
    BY <1>1, <1>2, <1>3 DEF KeepsInv

LEMMA KeepsNext == RegistryInv /\ TruthInv /\ KeepsInv /\ [Next]_vars => KeepsInv'
  <1>1. ASSUME RegistryInv, KeepsInv, NEW t \in Tracers, NEW p \in Pids,
               Birth(t, p) \/ Wait(t, p) \/ StartRegister(t, p) \/ StartLookup(t, p)
        PROVE  KeepsInv'
    BY <1>1, BirthKeeps, WaitKeeps, StartRegisterKeeps, StartLookupKeeps
  <1>2. ASSUME RegistryInv, TruthInv, KeepsInv, NEW t \in Tracers,
               RegisterSteps(t) \/ Forget(t) \/ Unlock(t) \/ LookupSteps(t) \/ Kill(t)
        PROVE  KeepsInv'
    BY <1>2, SearchKeeps, MarkKeeps, WordsKeep, WritePidKeeps, ForgetKeeps, UnlockKeeps,
       LookupKeeps, KillKeeps DEF RegisterSteps
  <1>3. ASSUME RegistryInv, KeepsInv, \E p \in Pids : Vanish(p)
        PROVE  KeepsInv'
    BY <1>3, VanishKeeps
  <1>4. ASSUME KeepsInv, UNCHANGED vars
        PROVE  KeepsInv'
    BY <1>4 DEF vars, kernel, locals, ghosts, KeepsInv, BirthsInv, EntriesKept, HasEntry,
       Rewrites, RequestInv
  <1>5. QED
    BY <1>1, <1>2, <1>3, <1>4 DEF Next

(* A recorded identity is found for as long as its process lives, whoever  *)
(* else comes, goes or is killed, unless the end of an earlier process of  *)
(* the same pid took it: no other tracer writes over its slot, no          *)
(* tombstone cuts its probe sequence, and ForgetProcess, which looks at    *)
(* the pid only, can remove a live process's entry in no other way         *)
(* (RegisterProcess, ForgetProcess).                                       *)
THEOREM LiveIdentitiesAreKept == Spec => []LiveIdentityKept
  <1>1. Spec => [](RegistryInv /\ KeepsInv)
    <2>1. RegistryInv /\ TruthInv /\ KeepsInv /\ [Next]_vars
            => (RegistryInv /\ TruthInv /\ KeepsInv)'
      BY NextHolds, TruthNext, KeepsNext
    <2>2. QED
      BY <2>1, InitHolds, TruthInit, KeepsInit, PTL DEF Spec
  <1>2. RegistryInv /\ KeepsInv => LiveIdentityKept
    <2> SUFFICES ASSUME RegistryInv, KeepsInv, NEW p \in Pids, state[p] = "live",
                        born[p] \in published \ overtaken
                 PROVE  \/ \E n \in Found(p) : slots[Probe(p, n)].start = born[p]
                        \/ \E t \in Tracers : lock = t /\ req[t].pid = p
      BY DEF LiveIdentityKept
    <2>1. CASE \E t \in Tracers : Rewrites(t, p)
      BY <2>1 DEF Rewrites
    <2>2. ASSUME NEW i \in Indices, slots[i].pid = p, slots[i].start = born[p]
          PROVE  \E n \in Found(p) : slots[Probe(p, n)].start = born[p]
      <3>1. Found(p) # {}
        BY <2>2, NotFoundIsNowhere
      <3>2. PICK n \in Found(p) : TRUE
        BY <3>1
      <3>3. Probe(p, n) \in Indices /\ Place(p, Probe(p, n))
        BY FoundIsPlace
      <3>4. Probe(p, n) = i
        BY <2>2, <3>3 DEF Place
      <3>5. QED
        BY <2>2, <3>4
    <2>3. HasEntry(p)
      BY DEF KeepsInv, EntriesKept
    <2>4. QED
      BY <2>1, <2>2, <2>3 DEF HasEntry
  <1>3. QED
    BY <1>1, <1>2, PTL
=============================================================================
