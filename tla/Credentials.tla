---------------------------- MODULE Credentials ----------------------------
(***************************************************************************)
(* The user and group ids a tracer keeps for a tracee, and what the        *)
(* emulated calls and execve make of them.  Credentials are a record       *)
(* [uid, gid, groups, nnp]; uid and gid have a real, an effective, a saved *)
(* and a file-system id each, nnp is no_new_privs.                         *)
(***************************************************************************)
EXTENDS Integers

CONSTANT Keep           (* kUnchangedId                                    *)

ASSUME KeepAssumption == Keep \notin Nat

RootUid       == 0
Privileged(c) == c.uid.effective = RootUid

All(id)    == [real |-> id, effective |-> id, saved |-> id, fs |-> id]
Known(ids) == {ids.real, ids.effective, ids.saved}
IsRoot(c)  == RootUid \in {c.uid.real, c.uid.effective, c.uid.saved, c.uid.fs}

InitialCredentials(uid, gid) ==
  [uid |-> All(uid), gid |-> All(gid), groups |-> {gid}, nnp |-> FALSE]

(* setuid, setgid                                                          *)
MaySetId(ids, privileged, id) == privileged \/ id \in {ids.real, ids.saved}

SetId(ids, privileged, id) ==
  IF privileged THEN All(id) ELSE [ids EXCEPT !.effective = id, !.fs = id]

(* setresuid, setresgid, and setreuid and setregid, which name no saved id *)
(* and take the effective one for it when they name any.                   *)
MaySetIds(ids, privileged, new) ==
  privileged \/ {new.real, new.effective, new.saved} \subseteq Known(ids) \cup {Keep}

SetIds(ids, new, saves) ==
  LET effective == IF new.effective = Keep THEN ids.effective ELSE new.effective
  IN [real      |-> IF new.real = Keep THEN ids.real ELSE new.real,
      effective |-> effective,
      fs        |-> IF new.effective = Keep THEN ids.fs ELSE effective,
      saved     |-> IF new.saved # Keep THEN new.saved
                    ELSE IF saves /\ {new.real, new.effective} # {Keep}
                    THEN effective ELSE ids.saved]

(* setfsuid and setfsgid never fail.                                       *)
SetFsId(ids, privileged, id) ==
  IF privileged \/ id \in Known(ids) THEN [ids EXCEPT !.fs = id] ELSE ids

(* A call c.op on the ids of c.kind, "uid" or "gid".                       *)
May(cred, c) ==
  LET ids == IF c.kind = "uid" THEN cred.uid ELSE cred.gid
  IN CASE c.op = "setid"               -> MaySetId(ids, Privileged(cred), c.new.effective)
       [] c.op \in {"setre", "setres"} -> MaySetIds(ids, Privileged(cred), c.new)
       [] c.op = "setgroups"           -> Privileged(cred)
       [] OTHER                        -> TRUE

Changed(cred, c) ==
  LET ids == IF c.kind = "uid" THEN cred.uid ELSE cred.gid
      new == CASE c.op = "setid" -> SetId(ids, Privileged(cred), c.new.effective)
               [] c.op = "setfs" -> SetFsId(ids, Privileged(cred), c.new.effective)
               [] OTHER          -> SetIds(ids, c.new, c.op = "setre")
  IN CASE c.op = "setgroups"  -> [cred EXCEPT !.groups = c.groups]
       [] c.op = "getid"      -> cred
       [] c.op \in {"setid", "setfs", "setre", "setres"} /\ c.kind = "uid"
                              -> [cred EXCEPT !.uid = new]
       [] OTHER               -> [cred EXCEPT !.gid = new]

ExecIds(ids, set, owner) ==
  LET id == IF set THEN owner ELSE ids.effective
  IN [ids EXCEPT !.effective = id, !.saved = id, !.fs = id]

(* Mutant: no_new_privs is forgotten.                                      *)
AfterAnyExec(cred, file) ==
  [cred EXCEPT !.uid = ExecIds(@, file.setuid, file.uid),
               !.gid = ExecIds(@, file.setgid, file.gid)]

(* execve of a file whose record has set-ID bits and an owner.             *)
AfterExec(cred, file) ==
  [cred EXCEPT !.uid = ExecIds(@, file.setuid /\ ~cred.nnp, file.uid),
               !.gid = ExecIds(@, file.setgid /\ ~cred.nnp, file.gid)]

(* What other processes are told: the identity the store has.              *)
Identity(cred) ==
  [real |-> <<cred.uid.real, cred.gid.real>>,
   effective |-> <<cred.uid.effective, cred.gid.effective>>]
=============================================================================
