------------------------ MODULE EmulatedCallsProofs ------------------------
(***************************************************************************)
(* Theorems about EmulatedCalls, for every thread group, every set of      *)
(* calls and every bound.                                                  *)
(***************************************************************************)
EXTENDS EmulatedCalls, TLAPS

(* Shapes                                                                  *)
Map(f)        == f = [p \in Threads |-> f[p]]
IsCall(r)     == r = [pc |-> r.pc, call |-> r.call, result |-> r.result, again |-> r.again]
IsCred(c)     == /\ c = [uid |-> c.uid, gid |-> c.gid, groups |-> c.groups, nnp |-> c.nnp]
                 /\ c.uid \in Ids /\ c.gid \in Ids /\ c.nnp \in BOOLEAN

TypeInv ==
  /\ Map(cred) /\ Map(exec) /\ Map(alias) /\ Map(published) /\ Map(run) /\ Map(table)
  /\ sockets = [t \in Targets |-> sockets[t]]
  /\ \A p \in Threads : IsCred(cred[p]) /\ IsCall(run[p])
  /\ fresh \subseteq Threads

(* What is known of a thread by where it is.                               *)
ThreadInv(p) ==
  /\ ~Alive(p) => alias[p] = NoAlias
  /\ run[p].again # None => run[p].again.call.op = "connect"
  /\ At(p, "exit") /\ run[p].result = "restart" => run[p].call.op = "connect"
  /\ At(p, "kernel") /\ run[p].call.op = "execve" => exec[p] \in Images
  /\ exec[p] # None => exec[p] \in Images
  /\ exec[p] # None => At(p, "kernel") \/ At(p, "exit")
  /\ At(p, "emulated") => run[p].result \in {"ok", "error"}
  /\ p \in fresh => Alive(p)
  /\ published[p].pid \in Threads \cup {None} /\ table[p] \in Identities \cup {None}
  /\ run[p].pc \in {"kernel", "exit", "emulated"} => published[p].pid = p
  /\ published[p].pid = p => table[p] = published[p].id
  /\ Alive(p) /\ ~At(p, "emulated") /\ p \notin fresh => table[p] = Identity(cred[p])

CallsInv == TypeInv /\ \A p \in Threads : ThreadInv(p)

-----------------------------------------------------------------------------
(* Identities                                                              *)

LEMMA IdentityIsSome ==
  ASSUME NEW c, IsCred(c)
  PROVE  Identity(c) \in Identities /\ Identity(c) # None
  BY ThreadsAssumption DEF Identity, IsCred, Ids, Identities

(* A set of ids stays one, and without a superuser's id among them no      *)
(* permitted call brings one.                                              *)
NoRoot(ids) == RootUid \notin {ids.real, ids.effective, ids.saved, ids.fs}

LEMMA SetIdKeeps ==
  ASSUME NEW ids \in Ids, NEW b \in BOOLEAN, NEW id \in AnyId
  PROVE  /\ SetId(ids, b, id) \in Ids
         /\ NoRoot(ids) /\ ~b /\ MaySetId(ids, b, id) => NoRoot(SetId(ids, b, id))
  BY DEF Ids, SetId, All, NoRoot, MaySetId, RootUid

LEMMA SetFsIdKeeps ==
  ASSUME NEW ids \in Ids, NEW b \in BOOLEAN, NEW id \in AnyId
  PROVE  /\ SetFsId(ids, b, id) \in Ids
         /\ NoRoot(ids) /\ ~b => NoRoot(SetFsId(ids, b, id))
  BY DEF Ids, SetFsId, NoRoot, Known, RootUid

LEMMA SetIdsKeeps ==
  ASSUME NEW ids \in Ids, NEW b \in BOOLEAN, NEW new, NEW saves \in BOOLEAN,
         {new.real, new.effective, new.saved} \subseteq AnyId
  PROVE  /\ SetIds(ids, new, saves) \in Ids
         /\ NoRoot(ids) /\ ~b /\ MaySetIds(ids, b, new) => NoRoot(SetIds(ids, new, saves))
  <1>1. SetIds(ids, new, saves) \in Ids
    BY DEF Ids, SetIds
  <1>2. NoRoot(ids) /\ ~b /\ MaySetIds(ids, b, new) => NoRoot(SetIds(ids, new, saves))
    BY KeepAssumption DEF Ids, SetIds, NoRoot, MaySetIds, Known, RootUid
  <1>3. QED
    BY <1>1, <1>2

LEMMA ExecIdsKeeps ==
  ASSUME NEW ids \in Ids, NEW b \in BOOLEAN, NEW id \in AnyId
  PROVE  /\ ExecIds(ids, b, id) \in Ids
         /\ NoRoot(ids) /\ (b => id # RootUid) => NoRoot(ExecIds(ids, b, id))
  BY DEF Ids, ExecIds, NoRoot

LEMMA IsRootIsNoRoot ==
  ASSUME NEW c
  PROVE  IsRoot(c) <=> ~NoRoot(c.uid)
  BY DEF IsRoot, NoRoot

(* A call changes a credential's parts as sets of ids.                     *)
LEMMA ChangedParts ==
  ASSUME NEW cr, IsCred(cr), NEW c \in Calls, May(cr, c)
  PROVE  /\ IsCred(Changed(cr, c))
         /\ NoRoot(cr.uid) => NoRoot(Changed(cr, c).uid)
  <1> DEFINE ids == IF c.kind = "uid" THEN cr.uid ELSE cr.gid
             new == CASE c.op = "setid" -> SetId(ids, Privileged(cr), c.new.effective)
                      [] c.op = "setfs" -> SetFsId(ids, Privileged(cr), c.new.effective)
                      [] OTHER          -> SetIds(ids, c.new, c.op = "setre")
  <1>1. ids \in Ids /\ Privileged(cr) \in BOOLEAN /\ (c.op = "setre") \in BOOLEAN
    BY DEF IsCred, Privileged
  <1>2. c.new.effective \in AnyId /\ {c.new.real, c.new.effective, c.new.saved} \subseteq AnyId
    BY CallsAssumption
  <1>3. new \in Ids
    BY <1>1, <1>2, SetIdKeeps, SetFsIdKeeps, SetIdsKeeps
  <1>4. ASSUME c.op \in {"setid", "setfs", "setre", "setres"}, c.kind = "uid", NoRoot(cr.uid)
        PROVE  NoRoot(new)
    <2>1. ~Privileged(cr)
      BY <1>4 DEF NoRoot, Privileged
    <2>2. ids = cr.uid
      BY <1>4
    <2>3. CASE c.op = "setid"
      BY <1>1, <1>2, <1>4, <2>1, <2>2, <2>3, SetIdKeeps DEF May
    <2>4. CASE c.op = "setfs"
      BY <1>1, <1>2, <1>4, <2>1, <2>2, <2>4, SetFsIdKeeps
    <2>5. CASE c.op \in {"setre", "setres"}
      <3>1. new = SetIds(ids, c.new, c.op = "setre")
        BY <2>5
      <3>2. MaySetIds(ids, Privileged(cr), c.new)
        BY <2>5, <2>2, <1>4 DEF May
      <3>3. QED
        BY <1>1, <1>2, <1>4, <2>1, <2>2, <3>1, <3>2, SetIdsKeeps
    <2>6. QED
      BY <1>4, <2>3, <2>4, <2>5
  <1> HIDE DEF ids, new
  <1>5. Changed(cr, c) =
          CASE c.op = "setgroups" -> [cr EXCEPT !.groups = c.groups]
            [] c.op = "getid"     -> cr
            [] c.op \in {"setid", "setfs", "setre", "setres"} /\ c.kind = "uid"
                                  -> [cr EXCEPT !.uid = new]
            [] OTHER              -> [cr EXCEPT !.gid = new]
    BY DEF Changed, new, ids
  <1>6. \/ Changed(cr, c) = [cr EXCEPT !.groups = c.groups]
        \/ Changed(cr, c) = cr
        \/ /\ c.op \in {"setid", "setfs", "setre", "setres"} /\ c.kind = "uid"
           /\ Changed(cr, c) = [cr EXCEPT !.uid = new]
        \/ Changed(cr, c) = [cr EXCEPT !.gid = new]
    BY <1>5
  <1>7. QED
    BY <1>3, <1>4, <1>6 DEF IsCred

LEMMA AfterExecParts ==
  ASSUME NEW cr, IsCred(cr), NEW f \in Images
  PROVE  /\ IsCred(AfterExec(cr, f))
         /\ AfterExec(cr, f).uid = ExecIds(cr.uid, f.setuid /\ ~cr.nnp, f.uid)
  <1> DEFINE u == ExecIds(cr.uid, f.setuid /\ ~cr.nnp, f.uid)
             g == ExecIds(cr.gid, f.setgid /\ ~cr.nnp, f.gid)
  <1>1. f.uid \in AnyId /\ f.gid \in AnyId
    BY DEF Images, AnyId
  <1>2. u \in Ids /\ g \in Ids
    BY <1>1, ExecIdsKeeps DEF IsCred
  <1> HIDE DEF u, g
  <1>3. AfterExec(cr, f) = [cr EXCEPT !.uid = u, !.gid = g]
    BY DEF AfterExec, u, g
  <1>4. AfterExec(cr, f) = [uid |-> u, gid |-> g, groups |-> cr.groups, nnp |-> cr.nnp]
    BY <1>3 DEF IsCred
  <1>5. QED
    BY <1>2, <1>4 DEF IsCred, u

-----------------------------------------------------------------------------
(* What the steps' helpers do to the variables they change                 *)

LEMMA PublishDoes ==
  ASSUME TypeInv, NEW p \in Threads, ThreadInv(p), Publish(p)
  PROVE  /\ Map(table)' /\ Map(published)'
         /\ fresh' = fresh \ {p}
         /\ published'[p].pid = p
         /\ table'[p] = published'[p].id /\ table'[p] = Identity(cred[p])
         /\ table'[p] \in Identities
         /\ \A q \in Threads \ {p} : table'[q] = table[q] /\ published'[q] = published[q]
  BY IdentityIsSome DEF Publish, TypeInv, Map, ThreadInv

LEMMA MovedRun ==
  ASSUME TypeInv, NEW p \in Threads, NEW pc, NEW c, NEW r,
         run' = [run EXCEPT ![p].pc = pc, ![p].call = c, ![p].result = r]
  PROVE  /\ Map(run)' /\ \A q \in Threads : IsCall(run'[q])
         /\ run'[p] = [pc |-> pc, call |-> c, result |-> r, again |-> run[p].again]
         /\ \A q \in Threads \ {p} : run'[q] = run[q]
  <1> DEFINE a == [run EXCEPT ![p].pc = pc]
             b == [a EXCEPT ![p].call = c]
             d == [b EXCEPT ![p].result = r]
  <1>1. run' = d
    OBVIOUS
  <1>2. /\ Map(a) /\ \A q \in Threads \ {p} : a[q] = run[q]
        /\ a[p] = [pc |-> pc, call |-> run[p].call, result |-> run[p].result,
                  again |-> run[p].again]
    BY DEF TypeInv, IsCall, Map
  <1> HIDE DEF a
  <1>3. /\ Map(b) /\ \A q \in Threads \ {p} : b[q] = run[q]
        /\ b[p] = [pc |-> pc, call |-> c, result |-> run[p].result, again |-> run[p].again]
    BY <1>2 DEF Map
  <1> HIDE DEF b
  <1>4. /\ Map(d) /\ \A q \in Threads \ {p} : d[q] = run[q]
        /\ d[p] = [pc |-> pc, call |-> c, result |-> r, again |-> run[p].again]
    BY <1>3 DEF Map
  <1> HIDE DEF d
  <1>5. Map(run)'
    BY <1>1, <1>4 DEF Map
  <1>6. QED
    BY <1>1, <1>4, <1>5 DEF TypeInv, IsCall

LEMMA EmulateDoes ==
  ASSUME TypeInv, NEW p \in Threads, NEW c, NEW r, Emulate(p, c, r)
  PROVE  /\ Map(run)' /\ \A q \in Threads : IsCall(run'[q])
         /\ run'[p] = [pc |-> "emulated", call |-> c, result |-> r, again |-> run[p].again]
         /\ \A q \in Threads \ {p} : run'[q] = run[q]
  BY MovedRun DEF Emulate

LEMMA ProceedDoes ==
  ASSUME TypeInv, NEW p \in Threads, NEW c, Proceed(p, c)
  PROVE  /\ Map(run)' /\ \A q \in Threads : IsCall(run'[q])
         /\ run'[p] = [pc |-> "kernel", call |-> c, result |-> "none", again |-> run[p].again]
         /\ \A q \in Threads \ {p} : run'[q] = run[q]
  BY MovedRun DEF Proceed

(* At an entry stop the identity is published, and the call begins.        *)
LEMMA EntryKeeps ==
  ASSUME CallsInv, NEW p \in Threads, NEW c \in Calls, Entering(p, c),
         NEW r \in {"ok", "error"},
         \/ Emulate(p, c, r) /\ exec'[p] = None
         \/ /\ Proceed(p, c) /\ Identity(cred'[p]) = Identity(cred[p])
            /\ c.op = "execve" => exec'[p] \in Images,
         Map(cred)', Map(exec)', Map(alias)', sockets' = sockets,
         IsCred(cred'[p]), \A q \in Threads \ {p} : cred'[q] = cred[q] /\ exec'[q] = exec[q]
                                                  /\ alias'[q] = alias[q],
         exec'[p] \in Images \cup {None}
  PROVE  CallsInv'
  <1>1. Publish(p) /\ At(p, "running")
    BY DEF Entering
  <1>2. /\ Map(table)' /\ Map(published)'
        /\ fresh' = fresh \ {p}
        /\ published'[p].pid = p
        /\ table'[p] = published'[p].id /\ table'[p] = Identity(cred[p])
        /\ table'[p] \in Identities
        /\ \A q \in Threads \ {p} : table'[q] = table[q] /\ published'[q] = published[q]
    BY <1>1, PublishDoes DEF CallsInv
  <1>3. /\ Map(run)' /\ \A q \in Threads : IsCall(run'[q])
        /\ \/ /\ run'[p] = [pc |-> "emulated", call |-> c, result |-> r, again |-> run[p].again]
              /\ exec'[p] = None
           \/ /\ run'[p] = [pc |-> "kernel", call |-> c, result |-> "none", again |-> run[p].again]
              /\ Identity(cred'[p]) = Identity(cred[p])
              /\ c.op = "execve" => exec'[p] \in Images
        /\ \A q \in Threads \ {p} : run'[q] = run[q]
    BY EmulateDoes, ProceedDoes DEF CallsInv
  <1>4. TypeInv'
    BY <1>2, <1>3 DEF CallsInv, TypeInv
  <1>5. \A q \in Threads \ {p} : ThreadInv(q)'
    BY <1>2, <1>3 DEF CallsInv, ThreadInv, Alive, At
  <1>6. ThreadInv(p)'
    <2>1. CASE /\ run'[p] = [pc |-> "emulated", call |-> c, result |-> r, again |-> run[p].again]
               /\ exec'[p] = None
      BY <1>2, <2>1 DEF CallsInv, ThreadInv, Alive, At
    <2>2. CASE /\ run'[p] = [pc |-> "kernel", call |-> c, result |-> "none", again |-> run[p].again]
               /\ Identity(cred'[p]) = Identity(cred[p])
               /\ c.op = "execve" => exec'[p] \in Images
      BY <1>2, <2>2 DEF CallsInv, ThreadInv, Alive, At
    <2>3. QED
      BY <1>3, <2>1, <2>2
  <1>7. QED
    BY <1>4, <1>5, <1>6 DEF CallsInv

-----------------------------------------------------------------------------
(* Every step keeps the invariant                                          *)

LEMMA IdentifyStep ==
  ASSUME CallsInv, NEW p \in Threads, NEW c \in Calls, Identify(p, c)
  PROVE  CallsInv'
  <1>1. Map(cred)' /\ IsCred(cred'[p]) /\ \A q \in Threads \ {p} : cred'[q] = cred[q]
    BY ChangedParts DEF Identify, CallsInv, TypeInv, Map
  <1>2. PICK r \in {"ok", "error"} : Emulate(p, c, r)
    BY DEF Identify
  <1>3. /\ Map(exec)' /\ Map(alias)' /\ sockets' = sockets /\ Entering(p, c)
        /\ exec'[p] = None
        /\ \A q \in Threads : exec'[q] = exec[q] /\ alias'[q] = alias[q]
    BY DEF Identify, Entering, At, CallsInv, TypeInv, ThreadInv, Map
  <1>4. QED
    BY <1>1, <1>2, <1>3, EntryKeeps

LEMMA NoNewPrivilegesIs ==
  ASSUME NEW cr, NEW u, NEW g, NEW gs, NEW n, NEW v,
         cr = [uid |-> u, gid |-> g, groups |-> gs, nnp |-> n]
  PROVE  [cr EXCEPT !.nnp = v] = [uid |-> u, gid |-> g, groups |-> gs, nnp |-> v]
  OBVIOUS

LEMMA NoNewPrivilegesUid ==
  ASSUME NEW cr, IsCred(cr)
  PROVE  [cr EXCEPT !.nnp = TRUE].uid = cr.uid
  BY DEF IsCred

LEMMA NoNewPrivilegesStep ==
  ASSUME CallsInv, NEW p \in Threads, NEW c \in Calls, NoNewPrivileges(p, c)
  PROVE  CallsInv'
  <1> DEFINE n == [cred[p] EXCEPT !.nnp = TRUE]
  <1>a. IsCred(cred[p])
    BY DEF CallsInv, TypeInv
  <1>b. cred' = [cred EXCEPT ![p] = n]
    BY DEF NoNewPrivileges
  <1>c. n = [uid |-> cred[p].uid, gid |-> cred[p].gid, groups |-> cred[p].groups, nnp |-> TRUE]
    <2>1. PICK v : v = TRUE
      OBVIOUS
    <2>2. PICK cr : cr = cred[p]
      OBVIOUS
    <2>3. cr = [uid |-> cr.uid, gid |-> cr.gid, groups |-> cr.groups, nnp |-> cr.nnp]
      BY <1>a, <2>2, Zenon DEF IsCred
    <2>4. [cr EXCEPT !.nnp = v] = [uid |-> cr.uid, gid |-> cr.gid, groups |-> cr.groups, nnp |-> v]
      BY <2>3, NoNewPrivilegesIs
    <2>5. QED
      BY <2>1, <2>2, <2>4, Zenon
  <1> HIDE DEF n
  <1>1. Map(cred)' /\ cred'[p] = n /\ \A q \in Threads \ {p} : cred'[q] = cred[q]
    BY <1>b DEF CallsInv, TypeInv, Map
  <1>d. IsCred(n)
    BY <1>a, <1>c DEF IsCred
  <1>e. n.uid = cred[p].uid /\ n.gid = cred[p].gid
    BY <1>c
  <1>2. IsCred(cred'[p]) /\ Identity(cred'[p]) = Identity(cred[p])
    BY <1>1, <1>d, <1>e DEF Identity
  <1>3. /\ Map(exec)' /\ Map(alias)' /\ sockets' = sockets /\ Entering(p, c) /\ Proceed(p, c)
        /\ exec'[p] \in Images \cup {None} /\ c.op # "execve"
        /\ \A q \in Threads : exec'[q] = exec[q] /\ alias'[q] = alias[q]
    BY DEF NoNewPrivileges, CallsInv, TypeInv, ThreadInv, Map
  <1>4. QED
    BY <1>1, <1>2, <1>3, EntryKeeps

LEMMA PlainStep ==
  ASSUME CallsInv, NEW p \in Threads, NEW c \in Calls, Plain(p, c)
  PROVE  CallsInv'
  <1>1. /\ Map(cred)' /\ Map(exec)' /\ Map(alias)' /\ sockets' = sockets
        /\ Entering(p, c) /\ Proceed(p, c)
        /\ exec'[p] \in Images \cup {None} /\ c.op # "execve" /\ IsCred(cred'[p])
        /\ \A q \in Threads : cred'[q] = cred[q] /\ exec'[q] = exec[q] /\ alias'[q] = alias[q]
    BY DEF Plain, CallsInv, TypeInv, ThreadInv, Map
  <1>2. QED
    BY <1>1, EntryKeeps

LEMMA ExecveStep ==
  ASSUME CallsInv, NEW p \in Threads, NEW c \in Calls, Execve(p, c)
  PROVE  CallsInv'
  <1>1. /\ Map(cred)' /\ Map(exec)' /\ Map(alias)' /\ sockets' = sockets
        /\ Entering(p, c) /\ IsCred(cred'[p])
        /\ exec'[p] = c.file /\ c.file \in Images \cup {None}
        /\ \A q \in Threads : cred'[q] = cred[q] /\ alias'[q] = alias[q]
        /\ \A q \in Threads \ {p} : exec'[q] = exec[q]
    BY CallsAssumption DEF Execve, CallsInv, TypeInv, Map
  <1>2. \/ Emulate(p, c, "error") /\ exec'[p] = None
        \/ Proceed(p, c) /\ exec'[p] \in Images
    BY <1>1 DEF Execve
  <1>3. QED
    BY <1>1, <1>2, EntryKeeps

LEMMA CreateAliasStep ==
  ASSUME CallsInv, NEW p \in Threads, NEW c \in Calls, CreateAlias(p, c)
  PROVE  CallsInv'
  <1>1. /\ Map(cred)' /\ Map(exec)' /\ sockets' = sockets
        /\ Entering(p, c) /\ IsCred(cred'[p]) /\ exec'[p] = None
        /\ \A q \in Threads : cred'[q] = cred[q] /\ exec'[q] = exec[q]
        /\ c.op # "execve"
    BY DEF CreateAlias, Entering, At, CallsInv, TypeInv, ThreadInv, Map
  <1>2. Map(alias)' /\ \A q \in Threads \ {p} : alias'[q] = alias[q]
    BY DEF CreateAlias, CallsInv, TypeInv, Map, RemoveAlias, NewAlias
  <1>3. Emulate(p, c, "error") \/ Proceed(p, c)
    BY DEF CreateAlias
  <1>4. QED
    BY <1>1, <1>2, <1>3, EntryKeeps

LEMMA RestartStep ==
  ASSUME CallsInv, NEW p \in Threads, Restart(p)
  PROVE  CallsInv'
  <1>1. /\ Map(table)' /\ Map(published)' /\ fresh' = fresh \ {p}
        /\ published'[p].pid = p
        /\ table'[p] = published'[p].id /\ table'[p] = Identity(cred[p])
        /\ table'[p] \in Identities
        /\ \A q \in Threads \ {p} : table'[q] = table[q] /\ published'[q] = published[q]
    BY PublishDoes DEF CallsInv, Restart
  <1>2. Map(alias)' /\ \A q \in Threads \ {p} : alias'[q] = alias[q]
    BY DEF Restart, CallsInv, TypeInv, Map, NewAlias
  <1>3. PICK pc \in {"kernel", "emulated"} :
          run' = [run EXCEPT ![p] =
            [pc |-> pc, call |-> run[p].again.call, again |-> None,
             result |-> IF pc = "kernel" THEN "none" ELSE "error"]]
    BY DEF Restart
  <1>4. run[p].again.call.op = "connect" /\ At(p, "running") /\ cred' = cred /\ exec' = exec
        /\ sockets' = sockets
    BY DEF Restart, CallsInv, ThreadInv
  <1>a. /\ Map(run)' /\ \A q \in Threads \ {p} : run'[q] = run[q]
        /\ run'[p] = [pc |-> pc, call |-> run[p].again.call, again |-> None,
                     result |-> IF pc = "kernel" THEN "none" ELSE "error"]
    BY <1>3 DEF CallsInv, TypeInv, Map
  <1>b. IsCall(run'[p])
    BY <1>a DEF IsCall
  <1>5. TypeInv'
    BY <1>1, <1>2, <1>4, <1>a, <1>b DEF CallsInv, TypeInv, Map
  <1>c. \A q \in Threads \ {p} : ThreadInv(q)'
    BY <1>1, <1>2, <1>4, <1>a DEF CallsInv, ThreadInv, Alive, At
  <1>d. ThreadInv(p)'
    <2>1. /\ run'[p].pc = pc /\ run'[p].call.op = "connect" /\ run'[p].again = None
          /\ pc = "emulated" => run'[p].result = "error"
      BY <1>4, <1>a
    <2>2. cred'[p] = cred[p] /\ exec'[p] = exec[p] /\ p \notin fresh'
      BY <1>1, <1>4
    <2>3. exec[p] = None
      BY <1>4 DEF CallsInv, ThreadInv, At
    <2>4. QED
      BY <1>1, <2>1, <2>2, <2>3 DEF ThreadInv, Alive, At
  <1>6. \A q \in Threads : ThreadInv(q)'
    BY <1>c, <1>d
  <1>7. QED
    BY <1>5, <1>6 DEF CallsInv

LEMMA KernelReturnsStep ==
  ASSUME CallsInv, NEW p \in Threads, KernelReturns(p)
  PROVE  CallsInv'
  <1>1. PICK r \in Outcomes(p) : run' = [run EXCEPT ![p].pc = "exit", ![p].result = r]
    BY DEF KernelReturns, Go
  <1>2. r = "restart" => run[p].call.op = "connect"
    BY DEF Outcomes
  <1>3. run' = [run EXCEPT ![p].pc = "exit", ![p].call = run[p].call, ![p].result = r]
    BY <1>1 DEF CallsInv, TypeInv, Map, IsCall
  <1>4. /\ Map(run)' /\ \A q \in Threads : IsCall(run'[q])
        /\ run'[p] = [pc |-> "exit", call |-> run[p].call, result |-> r, again |-> run[p].again]
        /\ \A q \in Threads \ {p} : run'[q] = run[q]
    BY <1>3, MovedRun DEF CallsInv
  <1>5. UNCHANGED <<states, table, sockets, fresh>> /\ At(p, "kernel")
    BY DEF KernelReturns
  <1>6. TypeInv'
    BY <1>4, <1>5 DEF CallsInv, TypeInv, Map, states
  <1>7. \A q \in Threads : ThreadInv(q)'
    BY <1>2, <1>4, <1>5 DEF CallsInv, ThreadInv, Alive, At, states
  <1>8. QED
    BY <1>6, <1>7 DEF CallsInv

LEMMA ExitStep ==
  ASSUME CallsInv, NEW p \in Threads, Exit(p)
  PROVE  CallsInv'
  <1>1. /\ Map(table)' /\ Map(published)' /\ fresh' = fresh \ {p}
        /\ published'[p].pid = p
        /\ table'[p] = published'[p].id /\ table'[p] = Identity(cred[p])
        /\ table'[p] \in Identities
        /\ \A q \in Threads \ {p} : table'[q] = table[q] /\ published'[q] = published[q]
    BY PublishDoes DEF CallsInv, Exit
  <1>2. /\ Map(alias)' /\ \A q \in Threads \ {p} : alias'[q] = alias[q]
        /\ sockets' = [t \in Targets |-> sockets'[t]]
    BY DEF Exit, CallsInv, TypeInv, Map, FinishAlias, RemoveAlias
  <1>3. /\ Map(exec)' /\ exec'[p] = None /\ \A q \in Threads \ {p} : exec'[q] = exec[q]
        /\ cred' = cred /\ At(p, "exit")
    BY DEF Exit, CallsInv, TypeInv, Map
  <1> DEFINE again == IF run[p].result = "restart"
                      THEN [call |-> run[p].call, file |-> alias[p].file] ELSE run[p].again
  <1>4. again # None => again.call.op = "connect"
    BY <1>3 DEF CallsInv, ThreadInv
  <1>5. run' = [run EXCEPT ![p] =
                 [pc |-> "running", call |-> None, result |-> "none", again |-> again]]
    BY DEF Exit
  <1> HIDE DEF again
  <1>6. /\ Map(run)' /\ \A q \in Threads \ {p} : run'[q] = run[q]
        /\ run'[p] = [pc |-> "running", call |-> None, result |-> "none", again |-> again]
    BY <1>5 DEF CallsInv, TypeInv, Map
  <1>7. TypeInv'
    BY <1>1, <1>2, <1>3, <1>6 DEF CallsInv, TypeInv, Map, IsCall
  <1>8. \A q \in Threads \ {p} : ThreadInv(q)'
    BY <1>1, <1>2, <1>3, <1>6 DEF CallsInv, ThreadInv, Alive, At
  <1>9. ThreadInv(p)'
    BY <1>1, <1>3, <1>4, <1>6 DEF TypeInv, ThreadInv, Alive, At
  <1>10. QED
    BY <1>7, <1>8, <1>9 DEF CallsInv

LEMMA ExitEmulatedStep ==
  ASSUME CallsInv, NEW p \in Threads, ExitEmulated(p)
  PROVE  CallsInv'
  <1>1. /\ Map(table)' /\ Map(published)' /\ fresh' = fresh \ {p}
        /\ published'[p].pid = p
        /\ table'[p] = published'[p].id /\ table'[p] = Identity(cred[p])
        /\ table'[p] \in Identities
        /\ \A q \in Threads \ {p} : table'[q] = table[q] /\ published'[q] = published[q]
    BY PublishDoes DEF CallsInv, ExitEmulated
  <1>2. /\ Map(alias)' /\ \A q \in Threads \ {p} : alias'[q] = alias[q]
        /\ cred' = cred /\ exec' = exec /\ sockets' = sockets /\ exec[p] = None
    BY DEF ExitEmulated, At, CallsInv, TypeInv, ThreadInv, Map, RemoveAlias
  <1>3. /\ Map(run)' /\ \A q \in Threads : IsCall(run'[q])
        /\ run'[p] = [pc |-> "running", call |-> None, result |-> "none", again |-> run[p].again]
        /\ \A q \in Threads \ {p} : run'[q] = run[q]
    BY MovedRun DEF ExitEmulated, CallsInv
  <1>4. TypeInv'
    BY <1>1, <1>2, <1>3 DEF CallsInv, TypeInv, Map
  <1>5. \A q \in Threads \ {p} : ThreadInv(q)'
    BY <1>1, <1>2, <1>3 DEF CallsInv, ThreadInv, Alive, At
  <1>6. ThreadInv(p)'
    BY <1>1, <1>2, <1>3 DEF CallsInv, ThreadInv, Alive, At
  <1>7. QED
    BY <1>4, <1>5, <1>6 DEF CallsInv

LEMMA CloneStep ==
  ASSUME CallsInv, NEW p \in Threads, NEW q \in Threads, Clone(p, q)
  PROVE  CallsInv'
  <1>1. /\ p # q /\ published[p].pid = p /\ run[p].pc = "kernel"
        /\ Identity(cred[p]) \in Identities
    BY IdentityIsSome DEF Clone, CallsInv, TypeInv, ThreadInv, Alive, At
  <1>2. /\ Map(cred)' /\ Map(exec)' /\ Map(alias)' /\ Map(published)' /\ Map(table)'
        /\ cred'[q] = cred[p] /\ exec'[q] = None /\ alias'[q] = NoAlias
        /\ published'[q] = published[p] /\ table'[q] = Identity(cred[p])
        /\ \A o \in Threads \ {q} :
             /\ cred'[o] = cred[o] /\ exec'[o] = exec[o] /\ alias'[o] = alias[o]
             /\ published'[o] = published[o] /\ table'[o] = table[o]
        /\ fresh' = fresh /\ sockets' = sockets
    BY DEF Clone, ChildState, CallsInv, TypeInv, Map
  <1> DEFINE born == [run EXCEPT ![q] = [Outside EXCEPT !.pc = "running"]]
  <1>3. /\ Map(born) /\ \A o \in Threads \ {q} : born[o] = run[o]
        /\ born[q] = [pc |-> "running", call |-> None, result |-> "none", again |-> None]
    BY DEF CallsInv, TypeInv, Map, Outside
  <1>4. run' = [born EXCEPT ![p].pc = "exit", ![p].result = "ok"]
    BY DEF Clone
  <1> HIDE DEF born
  <1>5. IsCall(born[p])
    BY <1>1, <1>3 DEF CallsInv, TypeInv
  <1>6. /\ Map(run)' /\ \A o \in Threads \ {p} : run'[o] = born[o]
        /\ run'[p] = [pc |-> "exit", call |-> born[p].call, result |-> "ok", again |-> born[p].again]
    BY <1>3, <1>4, <1>5 DEF Map, IsCall
  <1>7. \A o \in Threads : IsCall(run'[o])
    BY <1>3, <1>6 DEF CallsInv, TypeInv, IsCall
  <1>8. TypeInv'
    BY <1>1, <1>2, <1>6, <1>7 DEF CallsInv, TypeInv
  <1>9. \A o \in Threads \ {p, q} : ThreadInv(o)'
    BY <1>2, <1>3, <1>6 DEF CallsInv, ThreadInv, Alive, At
  <1>10. ThreadInv(p)'
    BY <1>1, <1>2, <1>3, <1>6 DEF CallsInv, ThreadInv, Alive, At
  <1>11. ThreadInv(q)'
    BY <1>1, <1>2, <1>3, <1>6 DEF ThreadInv, Alive, At, Identity
  <1>12. QED
    BY <1>8, <1>9, <1>10, <1>11 DEF CallsInv

LEMMA ExecEventStep ==
  ASSUME CallsInv, NEW p \in Threads, ExecEvent(p)
  PROVE  CallsInv'
  <1>1. /\ exec[p] \in Images /\ IsCred(cred[p]) /\ Leader \in Threads
        /\ published[p].pid = p
    BY ThreadsAssumption DEF ExecEvent, CallsInv, TypeInv, ThreadInv, At
  <1>2. IsCred(AfterExec(cred[p], exec[p]))
    BY <1>1, AfterExecParts
  <1>3. /\ Map(cred)' /\ IsCred(cred'[Leader]) /\ \A q \in Threads \ {Leader} : cred'[q] = cred[q]
        /\ Map(exec)' /\ exec'[p] = None /\ exec'[Leader] = None
        /\ \A q \in Threads \ {p, Leader} : exec'[q] = exec[q]
        /\ table' = table /\ sockets' = sockets /\ Leader \in fresh'
        /\ fresh' \subseteq Threads /\ (p # Leader => p \notin fresh')
        /\ \A q \in Threads \ {p, Leader} : q \in fresh' <=> q \in fresh
        /\ \A q \in Threads : table[q] \in Identities \cup {None}
    BY <1>1, <1>2 DEF ExecEvent, CallsInv, TypeInv, ThreadInv, Map
  <1>4. /\ Map(alias)' /\ (p # Leader => alias'[p] = NoAlias)
        /\ \A q \in Threads \ {p, Leader} : alias'[q] = alias[q]
    BY <1>1 DEF ExecEvent, CallsInv, TypeInv, Map
  <1>5. /\ Map(published)' /\ (p # Leader => published'[p] = NoIdentity)
        /\ published'[Leader] = published[p]
        /\ \A q \in Threads \ {p, Leader} : published'[q] = published[q]
    BY <1>1 DEF ExecEvent, CallsInv, TypeInv, Map
  <1>6. /\ Map(run)' /\ (p # Leader => run'[p] = Outside)
        /\ run'[Leader] = [pc |-> "running", call |-> None, result |-> "none", again |-> None]
        /\ \A q \in Threads \ {p, Leader} : run'[q] = run[q]
    BY <1>1 DEF ExecEvent, CallsInv, TypeInv, Map, Outside
  <1>7. \A q \in Threads : IsCall(run'[q])
    BY <1>1, <1>6 DEF CallsInv, TypeInv, IsCall, Outside
  <1>8. TypeInv'
    BY <1>3, <1>4, <1>5, <1>6, <1>7 DEF CallsInv, TypeInv
  <1>9. \A q \in Threads \ {p, Leader} : ThreadInv(q)'
    BY <1>3, <1>4, <1>5, <1>6 DEF CallsInv, ThreadInv, Alive, At
  <1>10. p # Leader => ThreadInv(p)'
    BY <1>3, <1>4, <1>5, <1>6, ThreadsAssumption DEF ThreadInv, Alive, At, Outside, NoIdentity
  <1>11. ThreadInv(Leader)'
    BY <1>1, <1>3, <1>5, <1>6 DEF CallsInv, ThreadInv, Alive, At
  <1>12. QED
    BY <1>8, <1>9, <1>10, <1>11 DEF CallsInv

LEMMA EndStep ==
  ASSUME CallsInv, NEW p \in Threads, End(p)
  PROVE  CallsInv'
  <1>1. IsCred(InitialCredentials(Uid, Gid))
    BY IdentityAssumption DEF InitialCredentials, IsCred, All, Ids, AnyId
  <1>2. /\ Map(cred)' /\ IsCred(cred'[p]) /\ \A q \in Threads \ {p} : cred'[q] = cred[q]
        /\ Map(exec)' /\ exec'[p] = None /\ \A q \in Threads \ {p} : exec'[q] = exec[q]
        /\ Map(alias)' /\ alias'[p] = NoAlias /\ \A q \in Threads \ {p} : alias'[q] = alias[q]
        /\ sockets' = sockets /\ fresh' = fresh \ {p}
    BY <1>1 DEF End, CallsInv, TypeInv, Map, RemoveAlias
  <1>3. /\ Map(table)' /\ table'[p] = None /\ \A q \in Threads \ {p} : table'[q] = table[q]
        /\ Map(published)' /\ published'[p] = NoIdentity
        /\ \A q \in Threads \ {p} : published'[q] = published[q]
        /\ Map(run)' /\ run'[p] = Outside /\ \A q \in Threads \ {p} : run'[q] = run[q]
    BY DEF End, CallsInv, TypeInv, Map
  <1>4. TypeInv'
    BY <1>2, <1>3 DEF CallsInv, TypeInv, IsCall, Outside
  <1>5. \A q \in Threads \ {p} : ThreadInv(q)'
    BY <1>2, <1>3 DEF CallsInv, ThreadInv, Alive, At
  <1>6. ThreadInv(p)'
    BY <1>2, <1>3, ThreadsAssumption DEF ThreadInv, Alive, At, Outside, NoIdentity
  <1>7. QED
    BY <1>4, <1>5, <1>6 DEF CallsInv

LEMMA OthersStep ==
  ASSUME CallsInv, NEW t \in Targets, Others(t)
  PROVE  CallsInv'
  BY DEF Others, CallsInv, TypeInv, ThreadInv, Map, Alive, At, states

LEMMA StutterStep ==
  ASSUME CallsInv, UNCHANGED vars
  PROVE  CallsInv'
  BY DEF CallsInv, TypeInv, ThreadInv, Map, Alive, At, vars, states, bounds

-----------------------------------------------------------------------------
(* What a step may do to targets, to aliases and to ids                    *)

LEMMA SocketsStep ==
  ASSUME CallsInv, [Next]_vars
  PROVE  \A t \in Targets : KeptOrRemoved(t)
  <1>1. CASE sockets' = sockets
    BY <1>1 DEF KeptOrRemoved
  <1>2. ASSUME NEW p \in Threads, Exit(p)
        PROVE  \A t \in Targets : KeptOrRemoved(t)
    <2>1. \/ sockets' = sockets
          \/ /\ sockets[alias[p].target] = None
             /\ sockets' = [sockets EXCEPT ![alias[p].target] = alias[p].file]
      BY <1>2 DEF Exit, FinishAlias
    <2>2. QED
      BY <2>1 DEF KeptOrRemoved, CallsInv, TypeInv
  <1>3. ASSUME NEW t \in Targets, Others(t)
        PROVE  \A u \in Targets : KeptOrRemoved(u)
    <2>1. sockets' = [sockets EXCEPT ![t] = IF sockets[t] = None THEN Elsewhere ELSE None]
      BY <1>3 DEF Others
    <2>2. QED
      BY <2>1 DEF KeptOrRemoved, CallsInv, TypeInv
  <1>4. \/ sockets' = sockets
        \/ \E p \in Threads : Exit(p)
        \/ \E t \in Targets : Others(t)
    <2>1. ASSUME NEW p \in Threads, NEW c \in Calls,
                 \/ Identify(p, c) \/ NoNewPrivileges(p, c) \/ Plain(p, c)
                 \/ Execve(p, c) \/ CreateAlias(p, c)
          PROVE  sockets' = sockets
      BY <2>1 DEF Identify, NoNewPrivileges, Plain, Execve, CreateAlias
    <2>2. ASSUME NEW p \in Threads,
                 \/ Restart(p) \/ KernelReturns(p) \/ ExitEmulated(p) \/ ExecEvent(p) \/ End(p)
          PROVE  sockets' = sockets
      BY <2>2 DEF Restart, KernelReturns, ExitEmulated, ExecEvent, End
    <2>3. ASSUME NEW p \in Threads, NEW q \in Threads, Clone(p, q)
          PROVE  sockets' = sockets
      BY <2>3 DEF Clone
    <2>4. ASSUME Rest \/ UNCHANGED vars
          PROVE  sockets' = sockets
      BY <2>4 DEF Rest, vars
    <2>5. QED
      BY <2>1, <2>2, <2>3, <2>4 DEF Next
  <1>5. QED
    BY <1>1, <1>2, <1>3, <1>4

LEMMA AliasesStep ==
  ASSUME CallsInv, [Next]_vars
  PROVE  \A f \in files : RemovedWhenForgotten(f)
  <1> SUFFICES ASSUME NEW f \in files, KnownAlias(f), ~KnownAlias(f)', f \in files'
               PROVE  /\ f = alias[Leader].file
                      /\ \E q \in Threads \ {Leader} : exec[q] # None /\ ~Alive(q)'
    BY DEF RemovedWhenForgotten
  <1>1. PICK o \in Threads : alias[o].file = f /\ alias'[o] # alias[o]
    BY DEF KnownAlias
  <1>2. ASSUME NEW p \in Threads, RemoveAlias(p)
        PROVE  FALSE
    <2>1. o = p
      BY <1>1, <1>2 DEF RemoveAlias, CallsInv, TypeInv, Map
    <2>2. QED
      BY <1>1, <1>2, <2>1 DEF RemoveAlias
  <1>3. ASSUME NEW p \in Threads, NEW c, NewAlias(p, c)
        PROVE  FALSE
    <2>1. o = p /\ alias'[p].file = counter
      BY <1>1, <1>3 DEF NewAlias, CallsInv, TypeInv, Map
    <2>2. f = counter
      BY <1>1, <1>3, <2>1 DEF NewAlias
    <2>3. QED
      BY <2>1, <2>2 DEF KnownAlias
  <1>4. ASSUME NEW p \in Threads, NEW q \in Threads, Clone(p, q)
        PROVE  FALSE
    <2>1. alias[q] = NoAlias
      BY <1>4 DEF Clone, CallsInv, ThreadInv
    <2>2. QED
      BY <1>1, <1>4, <2>1 DEF Clone, ChildState, CallsInv, TypeInv, Map
  <1>5. ASSUME NEW p \in Threads, ExecEvent(p)
        PROVE  /\ f = alias[Leader].file
               /\ \E q \in Threads \ {Leader} : exec[q] # None /\ ~Alive(q)'
    <2>1. exec[p] \in Images /\ Leader \in Threads
      BY <1>5, ThreadsAssumption DEF ExecEvent, CallsInv, ThreadInv, At
    <2>2. p # Leader
      BY <1>1, <1>5, <2>1 DEF ExecEvent, CallsInv, TypeInv, Map
    <2>3. alias'[Leader] = alias[p] /\ \A q \in Threads \ {p, Leader} : alias'[q] = alias[q]
      BY <1>5, <2>1 DEF ExecEvent, CallsInv, TypeInv, Map
    <2>4. o = Leader
      BY <1>1, <2>1, <2>3 DEF KnownAlias
    <2>5. run'[p] = Outside
      BY <1>5, <2>2 DEF ExecEvent, CallsInv, TypeInv, Map
    <2>6. QED
      BY <1>1, <2>1, <2>2, <2>4, <2>5, ThreadsAssumption DEF Alive, Outside
  <1>6. \/ alias' = alias
        \/ \E p \in Threads : RemoveAlias(p)
        \/ \E p \in Threads, c \in Calls : NewAlias(p, c)
        \/ \E p \in Threads : NewAlias(p, run[p].again.call)
        \/ \E p, q \in Threads : Clone(p, q)
        \/ \E p \in Threads : ExecEvent(p)
    <2>1. ASSUME NEW p \in Threads, NEW c \in Calls,
                 \/ Identify(p, c) \/ NoNewPrivileges(p, c) \/ Plain(p, c)
                 \/ Execve(p, c) \/ CreateAlias(p, c)
          PROVE  alias' = alias \/ RemoveAlias(p) \/ NewAlias(p, c)
      BY <2>1 DEF Identify, NoNewPrivileges, Plain, Execve, CreateAlias
    <2>2. ASSUME NEW p \in Threads, Restart(p)
          PROVE  alias' = alias \/ NewAlias(p, run[p].again.call)
      BY <2>2 DEF Restart
    <2>3. ASSUME NEW p \in Threads,
                 KernelReturns(p) \/ Exit(p) \/ ExitEmulated(p) \/ End(p)
          PROVE  alias' = alias \/ RemoveAlias(p)
      BY <2>3 DEF KernelReturns, states, Exit, FinishAlias, ExitEmulated, End
    <2>4. ASSUME Rest \/ UNCHANGED vars \/ \E t \in Targets : Others(t)
          PROVE  alias' = alias
      BY <2>4 DEF Rest, vars, states, Others
    <2>5. QED
      BY <2>1, <2>2, <2>3, <2>4 DEF Next
  <1>7. QED
    BY <1>1, <1>2, <1>3, <1>4, <1>5, <1>6

LEMMA IdsStep ==
  ASSUME CallsInv, [Next]_vars
  PROVE  \A p \in Threads : RegainedByExecve(p)
  <1> SUFFICES ASSUME NEW o \in Threads, Alive(o), Alive(o)', ~IsRoot(cred[o]), IsRoot(cred'[o])
               PROVE  \E q \in Threads : Elevates(q)
    BY DEF RegainedByExecve
  <1>1. cred'[o] # cred[o]
    OBVIOUS
  <1>2. ASSUME NEW p \in Threads, NEW c \in Calls, Identify(p, c)
        PROVE  FALSE
    <2>1. o = p /\ cred'[p] = Changed(cred[p], c) /\ May(cred[p], c)
      BY <1>1, <1>2 DEF Identify, CallsInv, TypeInv, Map
    <2>2. QED
      BY <2>1, ChangedParts, IsRootIsNoRoot DEF CallsInv, TypeInv
  <1>3. ASSUME NEW p \in Threads, NEW c \in Calls, NoNewPrivileges(p, c)
        PROVE  FALSE
    <2>1. IsCred(cred[p])
      BY DEF CallsInv, TypeInv
    <2>2. o = p /\ cred'[p] = [cred[p] EXCEPT !.nnp = TRUE]
      BY <1>1, <1>3 DEF NoNewPrivileges, CallsInv, TypeInv, Map
    <2>3. cred'[p].uid = cred[p].uid
      BY <2>1, <2>2, NoNewPrivilegesUid
    <2>4. QED
      BY <2>2, <2>3, IsRootIsNoRoot
  <1>4. ASSUME NEW p \in Threads, NEW q \in Threads, Clone(p, q)
        PROVE  FALSE
    BY <1>1, <1>4 DEF Clone, CallsInv, TypeInv, Map
  <1>5. ASSUME NEW p \in Threads, ExecEvent(p)
        PROVE  Elevates(p)
    <2>1. exec[p] \in Images /\ IsCred(cred[p]) /\ Leader \in Threads /\ At(p, "kernel")
      BY <1>5, ThreadsAssumption DEF ExecEvent, CallsInv, TypeInv, ThreadInv, At
    <2>2. o = Leader /\ cred'[Leader] = AfterExec(cred[p], exec[p])
      BY <1>1, <1>5, <2>1 DEF ExecEvent, CallsInv, TypeInv, Map
    <2>3. IsRoot(cred[p]) \/ (exec[p].setuid /\ exec[p].uid = RootUid /\ ~cred[p].nnp)
      <3>1. ~NoRoot(ExecIds(cred[p].uid, exec[p].setuid /\ ~cred[p].nnp, exec[p].uid))
        BY <2>1, <2>2, AfterExecParts, IsRootIsNoRoot
      <3>2. exec[p].uid \in AnyId /\ cred[p].uid \in Ids
        BY <2>1 DEF Images, AnyId, IsCred
      <3>3. ~NoRoot(cred[p].uid) \/ (exec[p].setuid /\ ~cred[p].nnp /\ exec[p].uid = RootUid)
        BY <3>1, <3>2, ExecIdsKeeps
      <3>4. QED
        BY <3>3, IsRootIsNoRoot
    <2>4. exec'[p] = None /\ (p = Leader => p \in fresh')
      BY <1>5 DEF ExecEvent
    <2>5. p # Leader => ~Alive(p)'
      BY <1>5, <2>1 DEF ExecEvent, CallsInv, TypeInv, Map, Alive, Outside
    <2>6. exec[p] # None
      BY <2>1, ThreadsAssumption
    <2>7. QED
      BY <2>1, <2>3, <2>4, <2>5, <2>6 DEF Elevates
  <1>6. ASSUME NEW p \in Threads, End(p)
        PROVE  FALSE
    BY <1>1, <1>6 DEF End, CallsInv, TypeInv, Map, Alive, Outside
  <1>7. \/ cred' = cred
        \/ \E p \in Threads, c \in Calls : Identify(p, c) \/ NoNewPrivileges(p, c)
        \/ \E p, q \in Threads : Clone(p, q)
        \/ \E p \in Threads : ExecEvent(p) \/ End(p)
    BY DEF Next, vars, states, Plain, Execve, CreateAlias, Restart, KernelReturns, Exit,
           ExitEmulated, Others, Rest
  <1>8. QED
    BY <1>1, <1>2, <1>3, <1>4, <1>5, <1>6, <1>7

-----------------------------------------------------------------------------
(* Aliases: numbers are given out once, and the file of a connect's is     *)
(* there for as long as its thread has it.                                 *)
AliasInv ==
  /\ counter \in Nat
  /\ \A p \in Threads : alias[p].file # None =>
       /\ alias[p].file \in 0 .. counter - 1
       /\ alias[p].file \notin files => alias[p].bind
  /\ \A p, q \in Threads :
       p # q /\ alias[p].file # None => alias[p].file # alias[q].file

LEMMA RemoveAliasKeeps ==
  ASSUME CallsInv, AliasInv, NEW p \in Threads, RemoveAlias(p), counter' \in {counter, counter + 1}
  PROVE  AliasInv'
  <1>1. /\ alias'[p].file = None /\ files' = files \ {alias[p].file}
        /\ \A q \in Threads \ {p} : alias'[q] = alias[q]
    BY DEF RemoveAlias, NoAlias, CallsInv, TypeInv, Map
  <1>2. QED
    BY <1>1 DEF AliasInv

LEMMA NewAliasKeeps ==
  ASSUME CallsInv, AliasInv, NEW p \in Threads, NEW c, c.op \in {"bind", "connect"}, NewAlias(p, c)
  PROVE  AliasInv'
  <1>1. /\ alias'[p].file = counter /\ alias'[p].bind = (c.op = "bind")
        /\ counter' = counter + 1
        /\ files' = (files \ {alias[p].file}) \cup (IF c.op = "connect" THEN {counter} ELSE {})
        /\ \A q \in Threads \ {p} : alias'[q] = alias[q]
    BY DEF NewAlias, CallsInv, TypeInv, Map
  <1>2. alias'[p].file \in 0 .. counter' - 1 /\ (alias'[p].file \notin files' => alias'[p].bind)
    <2>1. alias'[p].file \in 0 .. counter' - 1
      BY <1>1 DEF AliasInv
    <2>2. CASE c.op = "bind"
      BY <1>1, <2>1, <2>2
    <2>3. CASE c.op = "connect"
      BY <1>1, <2>1, <2>3
    <2>4. QED
      BY <2>2, <2>3
  <1>3. \A q \in Threads \ {p} : alias[q].file # None =>
          /\ alias'[q].file \in 0 .. counter' - 1 /\ alias'[q].file # counter
          /\ alias'[q].file \notin files' => alias'[q].bind
    <2> SUFFICES ASSUME NEW q \in Threads \ {p}, alias[q].file # None
                 PROVE  /\ alias'[q].file \in 0 .. counter' - 1 /\ alias'[q].file # counter
                        /\ alias'[q].file \notin files' => alias'[q].bind
      OBVIOUS
    <2>1. alias'[q] = alias[q] /\ counter' = counter + 1
      BY <1>1
    <2>2. alias[q].file \in 0 .. counter - 1 /\ counter \in Nat
      BY DEF AliasInv
    <2>3. alias[q].file # alias[p].file
      BY DEF AliasInv
    <2>4. alias[q].file \notin files' => alias[q].file \notin files
      BY <1>1, <2>3
    <2>5. QED
      BY <2>1, <2>2, <2>4 DEF AliasInv
  <1>4. ASSUME NEW q \in Threads, NEW r \in Threads, q # r, alias'[q].file # None
        PROVE  alias'[q].file # alias'[r].file
    <2>1. CASE q = p
      BY <1>1, <1>3, <1>4, <2>1
    <2>2. CASE r = p
      BY <1>1, <1>3, <1>4, <2>2
    <2>3. CASE p \notin {q, r}
      BY <1>1, <1>4, <2>3 DEF AliasInv
    <2>4. QED
      BY <2>1, <2>2, <2>3
  <1>5. QED
    BY <1>1, <1>2, <1>3, <1>4 DEF AliasInv

LEMMA AliasesKept ==
  ASSUME AliasInv, UNCHANGED <<alias, counter>>, files \subseteq files'
  PROVE  AliasInv'
  BY DEF AliasInv

LEMMA ExecMovesAlias ==
  ASSUME CallsInv, AliasInv, NEW p \in Threads, ExecEvent(p)
  PROVE  AliasInv'
  <1>1. /\ Leader \in Threads /\ alias'[Leader] = alias[p]
        /\ p # Leader => alias'[p].file = None
        /\ \A q \in Threads \ {p, Leader} : alias'[q] = alias[q]
        /\ UNCHANGED <<counter, files>>
    BY ThreadsAssumption DEF ExecEvent, NoAlias, CallsInv, TypeInv, Map
  <1>2. \A q \in Threads : alias'[q].file # None =>
          \E r \in Threads : /\ alias'[q] = alias[r]
                             /\ r = IF q = Leader THEN p ELSE q
                             /\ q # Leader => q # p
    BY <1>1
  <1>3. QED
    BY <1>1, <1>2 DEF AliasInv

LEMMA CloneKeepsAliases ==
  ASSUME CallsInv, AliasInv, NEW p \in Threads, NEW q \in Threads, Clone(p, q)
  PROVE  AliasInv'
  <1>1. /\ alias'[q].file = None /\ UNCHANGED <<counter, files>>
        /\ \A r \in Threads \ {q} : alias'[r] = alias[r]
    BY DEF Clone, ChildState, NoAlias, CallsInv, TypeInv, Map
  <1>2. QED
    BY <1>1 DEF AliasInv

LEMMA AliasInvStep ==
  ASSUME CallsInv, AliasInv, [Next]_vars
  PROVE  AliasInv'
  <1>1. ASSUME NEW p \in Threads, NEW c \in Calls,
               \/ Identify(p, c) \/ NoNewPrivileges(p, c) \/ Plain(p, c) \/ Execve(p, c)
        PROVE  AliasInv'
    BY <1>1, AliasesKept DEF Identify, NoNewPrivileges, Plain, Execve
  <1>2. ASSUME NEW p \in Threads, NEW c \in Calls, CreateAlias(p, c)
        PROVE  AliasInv'
    BY <1>2, RemoveAliasKeeps, NewAliasKeeps DEF CreateAlias
  <1>3. ASSUME NEW p \in Threads, Restart(p)
        PROVE  AliasInv'
    <2>1. run[p].again.call.op = "connect"
      BY <1>3 DEF Restart, CallsInv, ThreadInv
    <2>2. QED
      BY <1>3, <2>1, NewAliasKeeps, AliasesKept DEF Restart
  <1>4. ASSUME NEW p \in Threads, KernelReturns(p)
        PROVE  AliasInv'
    BY <1>4, AliasesKept DEF KernelReturns, states
  <1>5. ASSUME NEW p \in Threads, Exit(p) \/ ExitEmulated(p) \/ End(p)
        PROVE  AliasInv'
    BY <1>5, RemoveAliasKeeps, AliasesKept DEF Exit, FinishAlias, ExitEmulated, End
  <1>6. ASSUME Rest \/ UNCHANGED vars \/ \E t \in Targets : Others(t)
        PROVE  AliasInv'
    BY <1>6, AliasesKept DEF Rest, vars, states, Others
  <1>7. QED
    BY <1>1, <1>2, <1>3, <1>4, <1>5, <1>6, ExecMovesAlias, CloneKeepsAliases DEF Next

LEMMA InitAliases == Init => AliasInv
  BY DEF Init, AliasInv, NoAlias

-----------------------------------------------------------------------------
LEMMA InitHolds ==
  Init => CallsInv
  <1> SUFFICES ASSUME Init PROVE CallsInv
    OBVIOUS
  <1>1. IsCred(InitialCredentials(Uid, Gid))
    BY IdentityAssumption DEF InitialCredentials, IsCred, All, Ids, AnyId
  <1>2. \A p \in Threads : \/ run[p] = Outside
                           \/ run[p] = [pc |-> "running", call |-> None, result |-> "none",
                                        again |-> None] /\ p \in fresh
    BY DEF Init, Outside
  <1>3. TypeInv
    BY <1>1, <1>2, ThreadsAssumption DEF Init, TypeInv, Map, IsCall, Outside
  <1>4. \A p \in Threads : ThreadInv(p)
    BY <1>2, ThreadsAssumption DEF Init, ThreadInv, Alive, At, Outside, NoIdentity
  <1>5. QED
    BY <1>3, <1>4 DEF CallsInv

LEMMA StepHolds ==
  CallsInv /\ [Next]_vars => CallsInv'
  BY IdentifyStep, NoNewPrivilegesStep, PlainStep, ExecveStep, CreateAliasStep, RestartStep,
     KernelReturnsStep, ExitStep, ExitEmulatedStep, CloneStep, ExecEventStep, EndStep,
     OthersStep, StutterStep
     DEF Next, Rest

LEMMA AlwaysCallsInv == Spec => []CallsInv
  BY InitHolds, StepHolds, PTL DEF Spec

(* The invariant says of a thread outside emulated calls that the store    *)
(* has its present identity.                                               *)
LEMMA InvTells ==
  CallsInv => PeersAgree
  <1> SUFFICES ASSUME CallsInv, NEW p \in Threads,
                      Alive(p) /\ ~At(p, "emulated") /\ p \notin fresh
               PROVE  /\ SentCredentials(p, TRUE) = SentCredentials(p, FALSE)
                      /\ PeerCredentials(p, TRUE) = PeerCredentials(p, FALSE)
    BY DEF PeersAgree
  <1>1. table[p] = Identity(cred[p]) /\ table[p] # None
    BY IdentityIsSome DEF CallsInv, TypeInv, ThreadInv
  <1>2. \A which : Told(p, TRUE, which) = Told(p, FALSE, which)
    BY <1>1 DEF Told
  <1>3. QED
    BY <1>2 DEF SentCredentials, PeerCredentials

(* Ids, results and identities keep their types, every alias is of one     *)
(* thread, and the link a connect goes through is there.                   *)
THEOREM TypeCorrect == Spec => []TypeOK
  <1>1. CallsInv /\ AliasInv => TypeOK
    BY DEF CallsInv, TypeInv, ThreadInv, AliasInv, TypeOK, IsCred
  <1>2. CallsInv /\ AliasInv /\ [Next]_vars => AliasInv'
    BY AliasInvStep
  <1>3. QED
    BY AlwaysCallsInv, InitAliases, <1>1, <1>2, PTL DEF Spec

(* Every tracer is told the same of a thread, from its state or the store. *)
THEOREM PeersAlwaysAgree == Spec => []PeersAgree
  BY AlwaysCallsInv, InvTells, PTL

(* Only an execve brings a superuser's id back.                            *)
THEOREM IdsAreDropped == Spec => DroppedIdsStayDropped
  <1>1. CallsInv /\ [Next]_vars => [\A p \in Threads : RegainedByExecve(p)]_vars
    BY IdsStep
  <1>2. QED
    BY AlwaysCallsInv, <1>1, PTL DEF Spec, DroppedIdsStayDropped

(* An alias that is forgotten is removed.                                  *)
THEOREM AliasesAreRemoved == Spec => AliasesRemoved
  <1>1. CallsInv /\ [Next]_vars => [\A f \in files : RemovedWhenForgotten(f)]_vars
    BY AliasesStep
  <1>2. QED
    BY AlwaysCallsInv, <1>1, PTL DEF Spec, AliasesRemoved

(* A bound socket takes the place of nothing.                              *)
THEOREM SocketsAreKept == Spec => NoSocketReplaced
  <1>1. CallsInv /\ [Next]_vars => [\A t \in Targets : KeptOrRemoved(t)]_vars
    BY SocketsStep
  <1>2. QED
    BY AlwaysCallsInv, <1>1, PTL DEF Spec, NoSocketReplaced
=============================================================================
