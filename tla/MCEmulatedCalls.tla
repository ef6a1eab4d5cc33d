-------------------------- MODULE MCEmulatedCalls --------------------------
(* A session of the superuser or of a user, programs with set-ID bits, one *)
(* socket path that is too long.                                           *)
EXTENDS EmulatedCalls

Call(op)  == [op |-> op, kind |-> "uid", new |-> [real |-> Keep, effective |-> Keep,
              saved |-> Keep], groups |-> {}, file |-> None, target |-> None]
IdsCall(op, r, e, s) == [Call(op) EXCEPT !.new = [real |-> r, effective |-> e, saved |-> s]]
File(uid, setuid) == [uid |-> uid, gid |-> uid, setuid |-> setuid, setgid |-> setuid]

MCCalls ==
  { IdsCall("setid", Keep, 0, Keep), IdsCall("setid", Keep, 1, Keep),
    IdsCall("setid", Keep, Keep, Keep),
    IdsCall("setre", 1, 0, Keep), IdsCall("setre", Keep, 1, Keep),
    IdsCall("setres", 1, 1, Keep), IdsCall("setres", Keep, 0, 1),
    IdsCall("setfs", Keep, 1, Keep), IdsCall("setfs", Keep, 0, Keep),
    [IdsCall("setres", 1, 1, 1) EXCEPT !.kind = "gid"],
    [Call("setgroups") EXCEPT !.groups = {1}],
    Call("nnp"), Call("plain"), Call("clone"), Call("execve"),
    [Call("execve") EXCEPT !.file = File(0, TRUE)],
    [Call("execve") EXCEPT !.file = File(1, FALSE)],
    [Call("bind") EXCEPT !.target = "s"],
    [Call("connect") EXCEPT !.target = "s"] }
=============================================================================
