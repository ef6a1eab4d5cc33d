--------------------------- MODULE EmulatedCalls ---------------------------
(***************************************************************************)
(* What a tracer keeps of its tracees from the entry stop of a call to its *)
(* exit stop, and from call to call: their credentials, the executable of  *)
(* an execve, the identity last published to the store, and the alias that *)
(* stands in for a socket path too long for a sockaddr.  A signal may      *)
(* interrupt a call, to be restarted when its handler returns; a thread    *)
(* that calls execve takes over its leader's id and its state.             *)
(*                                                                         *)
(* One tracer, one thread group.  Each action is one stop, which the       *)
(* tracer handles before it takes another, or a step of the kernel.        *)
(* SyscallStops has the stops themselves.                                  *)
(***************************************************************************)
EXTENDS Credentials, FiniteSets

CONSTANTS
  Leader, Threads, None,
  Calls,              (* the calls tracees make                            *)
  Uid, Gid,           (* the session's initial identity                    *)
  Default,            (* what a process without identity is taken for      *)
  MaxCalls, MaxSignals, MaxOthers (* bounds                                *)

AnyId      == Nat \cup {Keep}
Images     == [uid : Nat, gid : Nat, setuid : BOOLEAN, setgid : BOOLEAN]
Identities == [real : AnyId \X AnyId, effective : AnyId \X AnyId]

ASSUME ThreadsAssumption ==
  Leader \in Threads /\ None \notin Threads \cup Images \cup Identities \cup Calls
ASSUME CallsAssumption ==
  \A c \in Calls :
    /\ {c.new.real, c.new.effective, c.new.saved} \subseteq AnyId
    /\ c.file \in Images \cup {None}
ASSUME IdentityAssumption == Uid \in Nat /\ Gid \in Nat
ASSUME EmulatedBoundsAssumption == {MaxCalls, MaxSignals, MaxOthers} \subseteq Nat

VARIABLES
  cred, exec, alias,  (* TraceeState: ids, pending_executable, the alias   *)
  published,          (* TraceeState: published_identity                   *)
  run,                (* of each thread: where it is, in which call        *)
  table,              (* the identities in the store                       *)
  files,              (* aliases on disk                                   *)
  sockets,            (* of each target: the alias it was, None: no file   *)
  counter,            (* alias_counter                                     *)
  fresh,              (* threads that have not stopped since their execve  *)
  budget, signals, others

states == <<cred, exec, alias, published>>
bounds == <<signals, others>>
vars   == <<states, run, table, files, sockets, counter, fresh, budget, bounds>>

Elsewhere  == -1           (* made by another process                       *)
Targets    == {c.target : c \in Calls} \ {None}
NoAlias    == [file |-> None, target |-> None, bind |-> FALSE]
NoIdentity == [pid |-> None, id |-> None]
Outside    == [pc |-> "none", call |-> None, result |-> "none", again |-> None]
Alive(p)   == run[p].pc # "none"
At(p, pc)  == run[p].pc = pc
Go(p, pc, result) == run' = [run EXCEPT ![p].pc = pc, ![p].result = result]

Init ==
  /\ cred = [p \in Threads |-> InitialCredentials(Uid, Gid)]
  /\ exec = [p \in Threads |-> None] /\ alias = [p \in Threads |-> NoAlias]
  /\ published = [p \in Threads |-> NoIdentity]
  /\ run = [p \in Threads |-> IF p = Leader THEN [Outside EXCEPT !.pc = "running"]
                              ELSE Outside]
  /\ table = [p \in Threads |-> None]
  /\ files = {} /\ sockets = [t \in Targets |-> None] /\ counter = 0 /\ fresh = {Leader}
  /\ budget = MaxCalls /\ signals = MaxSignals /\ others = MaxOthers

-----------------------------------------------------------------------------
(* Every stop publishes an identity that has changed before it does        *)
(* anything else.                                                          *)

(* Mutant: identities are compared, and not whose they are.                *)
PublishChanged(p) ==
  LET mine == [pid |-> p, id |-> Identity(cred[p])] IN
  /\ fresh' = fresh \ {p}
  /\ IF published[p].id = mine.id THEN UNCHANGED <<table, published>>
     ELSE /\ table' = [table EXCEPT ![p] = mine.id]
          /\ published' = [published EXCEPT ![p] = mine]

Publish(p) ==
  LET mine == [pid |-> p, id |-> Identity(cred[p])] IN
  /\ fresh' = fresh \ {p}
  /\ IF published[p] = mine THEN UNCHANGED <<table, published>>
     ELSE /\ table' = [table EXCEPT ![p] = mine.id]
          /\ published' = [published EXCEPT ![p] = mine]

(* What SCM_CREDENTIALS and SO_PEERCRED tell about p: to tracees of p's    *)
(* own tracer from its state, to others from the store.                    *)
Told(p, own, which) ==
  CASE own      -> Identity(cred[p])[which]
    [] ~own /\ table[p] # None -> table[p][which]
    [] OTHER    -> <<Default, Default>>
SentCredentials(p, own) == Told(p, own, "real")
PeerCredentials(p, own) == Told(p, own, "effective")

-----------------------------------------------------------------------------
(* Entry stops                                                             *)

(* A call begins; one made by a signal's handler leaves the interrupted    *)
(* call to be restarted later.                                             *)
Entering(p, c) ==
  /\ At(p, "running") /\ budget > 0
  /\ budget' = budget - 1
  /\ UNCHANGED bounds
  /\ Publish(p)

Emulate(p, c, result) ==
  run' = [run EXCEPT ![p].pc = "emulated", ![p].call = c, ![p].result = result]
Proceed(p, c) ==
  run' = [run EXCEPT ![p].pc = "kernel", ![p].call = c, ![p].result = "none"]

(* The set*id and get*id calls never reach the kernel.                     *)
Identify(p, c) ==
  /\ c.op \in {"setid", "setre", "setres", "setfs", "setgroups", "getid"}
  /\ Entering(p, c)
  /\ IF May(cred[p], c) THEN cred' = [cred EXCEPT ![p] = Changed(@, c)] /\ Emulate(p, c, "ok")
                        ELSE cred' = cred /\ Emulate(p, c, "error")
  /\ UNCHANGED <<exec, alias, files, sockets, counter>>

NoNewPrivileges(p, c) ==
  /\ c.op = "nnp"
  /\ Entering(p, c)
  /\ cred' = [cred EXCEPT ![p].nnp = TRUE]
  /\ Proceed(p, c)
  /\ UNCHANGED <<exec, alias, files, sockets, counter>>

(* Any other call.                                                         *)
Plain(p, c) ==
  /\ c.op \in {"plain", "clone"}
  /\ Entering(p, c)
  /\ Proceed(p, c)
  /\ UNCHANGED <<cred, exec, alias, files, sockets, counter>>

(* execve finds, opens and hands the kernel another image; c.file = None:  *)
(* it cannot.                                                              *)
Execve(p, c) ==
  /\ c.op = "execve"
  /\ Entering(p, c)
  /\ exec' = [exec EXCEPT ![p] = c.file]
  /\ IF c.file = None THEN Emulate(p, c, "error") ELSE Proceed(p, c)
  /\ UNCHANGED <<cred, alias, files, sockets, counter>>

-----------------------------------------------------------------------------
(* Aliases                                                                 *)

(* Mutant: the alias is forgotten and its file stays.                      *)
ForgetAlias(p) ==
  /\ files' = files
  /\ alias' = [alias EXCEPT ![p] = NoAlias]

RemoveAlias(p) ==
  /\ files' = files \ {alias[p].file}
  /\ alias' = [alias EXCEPT ![p] = NoAlias]

(* A new alias takes the place of the thread's earlier one: a symbolic     *)
(* link to the target, or, to bind, a name that does not exist yet.        *)
NewAlias(p, c) ==
  /\ counter' = counter + 1
  /\ alias' = [alias EXCEPT ![p] = [file |-> counter, target |-> c.target,
                                    bind |-> c.op = "bind"]]
  /\ files' = (files \ {alias[p].file}) \cup
              (IF c.op = "connect" THEN {counter} ELSE {})

(* bind or connect to a path too long for a sockaddr.  The owner check     *)
(* that follows may refuse the call.  bind is refused when the target      *)
(* exists, or its directory does not; without a link the call goes on as   *)
(* it is.                                                                  *)
CreateAlias(p, c) ==
  /\ c.op \in {"bind", "connect"}
  /\ Entering(p, c)
  /\ \/ /\ c.op = "bind"
        /\ RemoveAlias(p) /\ counter' = counter + 1
        /\ Emulate(p, c, "error")
     \/ /\ c.op = "connect" \/ sockets[c.target] = None
        /\ NewAlias(p, c)
        /\ Proceed(p, c) \/ Emulate(p, c, "error")
     \/ /\ c.op = "connect"
        /\ RemoveAlias(p) /\ counter' = counter + 1
        /\ Proceed(p, c) \/ Emulate(p, c, "error")
  /\ UNCHANGED <<cred, exec, sockets>>

(* The kernel restarts an interrupted connect with the alias for address:  *)
(* the link is followed to its target, which gets another alias.  If the   *)
(* link is gone, removed by a call of the signal's handler, the address    *)
(* stays what it is, and the call will not find it.                        *)
Restart(p) ==
  /\ At(p, "running") /\ run[p].again # None
  /\ Publish(p)
  /\ \E pc \in {"kernel", "emulated"} :
       run' = [run EXCEPT ![p] =
         [pc |-> pc, call |-> run[p].again.call, again |-> None,
          result |-> IF pc = "kernel" THEN "none" ELSE "error"]]
  /\ IF run[p].again.file \in files THEN NewAlias(p, run[p].again.call)
     ELSE UNCHANGED <<alias, files, counter>>
  /\ UNCHANGED <<cred, exec, sockets, budget, bounds>>

(* Mutant: rename takes the place of whatever the target is.               *)
ReplaceTarget(p, result) ==
  LET a    == alias[p]
      move == a.bind /\ result = "ok"
  IN CASE a.file = None \/ result = "restart" -> UNCHANGED <<alias, files, sockets>>
       [] a.file # None /\ result # "restart" ->
            /\ sockets' = IF move THEN [sockets EXCEPT ![a.target] = a.file] ELSE sockets
            /\ RemoveAlias(p)

(* A bound socket moves from its alias to the target, unless that exists   *)
(* by now.                                                                 *)
FinishAlias(p, result) ==
  LET a    == alias[p]
      move == a.bind /\ result = "ok" /\ sockets[a.target] = None
  IN CASE a.file = None \/ result = "restart" -> UNCHANGED <<alias, files, sockets>>
       [] a.file # None /\ result # "restart" ->
            /\ sockets' = IF move THEN [sockets EXCEPT ![a.target] = a.file] ELSE sockets
            /\ RemoveAlias(p)

-----------------------------------------------------------------------------
(* The kernel's part, and exit stops                                       *)

(* One interrupted call at a time.                                         *)
Outcomes(p) ==
  LET op      == run[p].call.op
      aliased == alias[p].file # None
  IN {"error"} \cup {r \in {"ok"} : \/ op \in {"plain", "nnp"}
                                    \/ op \in {"bind", "connect"} /\ aliased}
               \cup {r \in {"restart"} : /\ op = "connect" /\ aliased
                                         /\ signals > 0 /\ run[p].again = None}

KernelReturns(p) ==
  /\ At(p, "kernel")
  /\ \E result \in Outcomes(p) :
       /\ Go(p, "exit", result)
       /\ files' = IF run[p].call.op = "bind" /\ result = "ok"
                   THEN files \cup {alias[p].file} ELSE files
       /\ signals' = IF result = "restart" THEN signals - 1 ELSE signals
  /\ UNCHANGED <<states, table, sockets, counter, fresh, budget, others>>

Exit(p) ==
  /\ At(p, "exit")
  /\ Publish(p)
  /\ FinishAlias(p, run[p].result)
  /\ exec' = [exec EXCEPT ![p] = None]
  /\ run' = [run EXCEPT ![p] =
       [pc |-> "running", call |-> None, result |-> "none",
        again |-> IF @.result = "restart"
                  THEN [call |-> @.call, file |-> alias[p].file] ELSE @.again]]
  /\ UNCHANGED <<cred, counter, budget, bounds>>

(* The exit stop of a call the tracer answered itself.                     *)
ExitEmulated(p) ==
  /\ At(p, "emulated")
  /\ Publish(p)
  /\ RemoveAlias(p)
  /\ run' = [run EXCEPT ![p].pc = "running", ![p].call = None, ![p].result = "none"]
  /\ UNCHANGED <<cred, exec, sockets, counter, budget, bounds>>

-----------------------------------------------------------------------------
(* Threads                                                                 *)

(* Mutant: a child has its parent's alias.                                 *)
CopyState(p) == [cred |-> cred[p], exec |-> None, alias |-> alias[p],
                 published |-> published[p]]

(* What a child has of its parent's state.                                 *)
ChildState(p) == [cred |-> cred[p], exec |-> None, alias |-> NoAlias,
                  published |-> published[p]]

(* A clone event, which registers the child.                               *)
Clone(p, q) ==
  /\ At(p, "kernel") /\ run[p].call.op = "clone" /\ ~Alive(q)
  /\ cred' = [cred EXCEPT ![q] = ChildState(p).cred]
  /\ exec' = [exec EXCEPT ![q] = ChildState(p).exec]
  /\ alias' = [alias EXCEPT ![q] = ChildState(p).alias]
  /\ published' = [published EXCEPT ![q] = ChildState(p).published]
  /\ table' = [table EXCEPT ![q] = Identity(cred[p])]
  /\ run' = [run EXCEPT ![q] = [Outside EXCEPT !.pc = "running"],
                        ![p].pc = "exit", ![p].result = "ok"]
  /\ UNCHANGED <<files, sockets, counter, fresh, budget, bounds>>

(* execve succeeds: the other threads are gone, and p has the leader's id. *)
(* Its state moves there, whatever the leader had is dropped, and no exit  *)
(* stop follows.                                                           *)
ExecEvent(p) ==
  /\ At(p, "kernel") /\ run[p].call.op = "execve"
  /\ \A q \in Threads \ {p, Leader} : ~Alive(q)
  /\ cred' = [cred EXCEPT ![Leader] = AfterExec(cred[p], exec[p])]
  /\ exec' = [q \in Threads |-> IF q \in {p, Leader} THEN None ELSE exec[q]]
  /\ alias' = [alias EXCEPT ![p] = NoAlias, ![Leader] = alias[p]]
  /\ published' = [published EXCEPT ![p] = NoIdentity, ![Leader] = published[p]]
  /\ run' = [run EXCEPT ![p] = Outside, ![Leader] = [Outside EXCEPT !.pc = "running"]]
  /\ fresh' = (fresh \ {p}) \cup {Leader}
  /\ UNCHANGED <<table, files, sockets, counter, budget, bounds>>

(* A thread ends; the leader's end is reported after all others.           *)
End(p) ==
  /\ Alive(p)
  /\ p = Leader => \A q \in Threads \ {Leader} : ~Alive(q)
  /\ RemoveAlias(p)
  /\ table' = [table EXCEPT ![p] = None]
  /\ cred' = [cred EXCEPT ![p] = InitialCredentials(Uid, Gid)]
  /\ exec' = [exec EXCEPT ![p] = None]
  /\ published' = [published EXCEPT ![p] = NoIdentity]
  /\ run' = [run EXCEPT ![p] = Outside]
  /\ fresh' = fresh \ {p}
  /\ UNCHANGED <<sockets, counter, budget, bounds>>

(* A process outside the group creates or removes a target.                *)
Others(t) ==
  /\ others > 0 /\ others' = others - 1
  /\ sockets' = [sockets EXCEPT ![t] = IF @ = None THEN Elsewhere ELSE None]
  /\ UNCHANGED <<states, run, table, files, counter, fresh, budget, signals>>

Rest ==
  /\ \A p \in Threads : ~Alive(p)
  /\ UNCHANGED vars

Next ==
  \/ \E p \in Threads :
       \/ \E c \in Calls : \/ Identify(p, c) \/ NoNewPrivileges(p, c) \/ Plain(p, c)
                           \/ Execve(p, c) \/ CreateAlias(p, c)
       \/ Restart(p) \/ KernelReturns(p) \/ Exit(p) \/ ExitEmulated(p)
       \/ ExecEvent(p) \/ End(p)
       \/ \E q \in Threads : Clone(p, q)
  \/ \E t \in Targets : Others(t)
  \/ Rest

Spec == Init /\ [][Next]_vars

-----------------------------------------------------------------------------
Ids == [real : AnyId, effective : AnyId, saved : AnyId, fs : AnyId]

(* Types: setuid(-1) makes -1 an id.  A thread that waits for the result   *)
(* of a call has one to get, at most one thread has a given alias, and an  *)
(* alias without a file is a bind's.                                       *)
TypeOK ==
  /\ \A p \in Threads :
       /\ cred[p].uid \in Ids /\ cred[p].gid \in Ids /\ cred[p].nnp \in BOOLEAN
       /\ At(p, "emulated") => run[p].result \in {"ok", "error"}
       /\ exec[p] # None => At(p, "kernel") \/ At(p, "exit")
       /\ table[p] \in Identities \cup {None} /\ published[p].pid \in Threads \cup {None}
       /\ alias[p].file # None => alias[p].file \in 0 .. counter - 1
       /\ alias[p].file # None /\ alias[p].file \notin files => alias[p].bind
  /\ \A p, q \in Threads :
       p # q /\ alias[p].file # None => alias[p].file # alias[q].file
  /\ fresh \subseteq {p \in Threads : Alive(p)}

(* Whoever asks about a thread outside an emulated call is told the same   *)
(* by its own tracer, which looks into its state, and by another, which    *)
(* asks the store: also after a sequence of set*id calls, and after a      *)
(* thread took over its leader's id.                                       *)
PeersAgree ==
  \A p \in Threads :
    Alive(p) /\ ~At(p, "emulated") /\ p \notin fresh
      => /\ SentCredentials(p, TRUE) = SentCredentials(p, FALSE)
         /\ PeerCredentials(p, TRUE) = PeerCredentials(p, FALSE)

(* A thread none of whose user ids is the superuser's becomes one with     *)
(* such an id only by an execve: its leader's id was taken over by a       *)
(* thread that had one, or the file has the set-user-ID bit, belongs to    *)
(* the superuser, and no_new_privs is not set.                             *)
Elevates(p) ==
  /\ At(p, "kernel") /\ exec[p] # None /\ exec'[p] = None
  /\ ~Alive(p)' \/ p \in fresh'
  /\ \/ IsRoot(cred[p])
     \/ exec[p].setuid /\ exec[p].uid = RootUid /\ ~cred[p].nnp
RegainedByExecve(p) ==
  Alive(p) /\ Alive(p)' /\ ~IsRoot(cred[p]) /\ IsRoot(cred'[p])
    => \E q \in Threads : Elevates(q)
DroppedIdsStayDropped == [][\A p \in Threads : RegainedByExecve(p)]_vars

(* No alias's file outlives what the tracer knows of it, whatever becomes  *)
(* of the call: the kernel's errors, refused and restarted calls, targets  *)
(* that appear meanwhile, ends of threads.  Only what a leader had when    *)
(* another thread's execve took its id is left.                            *)
KnownAlias(f) == \E p \in Threads : alias[p].file = f
RemovedWhenForgotten(f) ==
  KnownAlias(f) /\ ~KnownAlias(f)' /\ f \in files'
    => /\ f = alias[Leader].file
       /\ \E q \in Threads \ {Leader} : exec[q] # None /\ ~Alive(q)'
AliasesRemoved == [][\A f \in files : RemovedWhenForgotten(f)]_vars

(* A bind through an alias never takes the place of a file: one that was   *)
(* there at its entry, or that came before its socket was moved.           *)
KeptOrRemoved(t) == sockets[t] # None => sockets'[t] \in {sockets[t], None}
NoSocketReplaced == [][\A t \in Targets : KeptOrRemoved(t)]_vars
=============================================================================
