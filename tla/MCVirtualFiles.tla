-------------------------- MODULE MCVirtualFiles ---------------------------
(* One directory that anyone may write to, one file in it: known or not,   *)
(* the superuser's or a user's.  Calls chosen so that every handler meets  *)
(* every other one on the same name.                                       *)
EXTENDS VirtualFiles, TLC

CONSTANTS i1, i2, i3, i4, i5

Bits(who, what) == {<<w, b>> : w \in who, b \in what}
RW  == Bits({"u"}, {"r", "w"})
Exe == RW \cup Bits({"u", "o"}, {"x"}) \cup {SetUid}
Dir == Bits({"u", "g", "o"}, {"r", "w", "x"})

Root0 == [uid |-> 0, gid |-> 0, groups |-> {}]
Alice == [uid |-> 1, gid |-> 1, groups |-> {2}]
Bob   == [uid |-> 2, gid |-> 2, groups |-> {}]

Base == [op |-> "access", path |-> "p", to |-> "q", fd |-> FALSE, by |-> Alice,
         uid |-> None, gid |-> None, mode |-> RW, kind |-> "reg", mask |-> {"w"},
         creat |-> FALSE, excl |-> FALSE, trunc |-> FALSE]

FileCalls ==
  { [Base EXCEPT !.by = Bob],
    [Base EXCEPT !.op = "chown", !.by = Root0, !.uid = 1, !.gid = 1],
    [Base EXCEPT !.op = "chmod", !.by = Root0, !.mode = Exe, !.fd = TRUE],
    [Base EXCEPT !.op = "chmod", !.mode = {}],
    [Base EXCEPT !.op = "open", !.creat = TRUE],
    [Base EXCEPT !.op = "open", !.creat = TRUE, !.excl = TRUE, !.by = Bob],
    [Base EXCEPT !.op = "make", !.kind = "dir", !.mode = Dir],
    [Base EXCEPT !.op = "tmpfile", !.path = "root"],
    [Base EXCEPT !.op = "unlink"],
    [Base EXCEPT !.op = "rename", !.path = "q", !.to = "p"],
    [Base EXCEPT !.op = "link"],
    [Base EXCEPT !.op = "chmod", !.by = Root0, !.path = "root", !.mode = RW],
    [Base EXCEPT !.op = "chown", !.gid = 2],
    [Base EXCEPT !.op = "bind", !.kind = "sock"] }

Owner(uid, mode) == [uid |-> uid, gid |-> uid, mode |-> mode, kind |-> "reg", born |-> 1]
File(kind, mode, born) == [kind |-> kind, mode |-> mode, born |-> born, by |-> "host"]

StartWith(path, sticky, record) ==
  [names |-> [n \in {"root", "p", "q"} |->
                CASE n = "root" -> i1 [] n = path -> i2 [] OTHER -> None],
   disk  |-> [i \in Inodes |->
                CASE i = i1 -> File("dir", Dir, 1)
                  [] i = i2 -> File("reg", RW, 1)
                  [] OTHER -> File("reg", RW, 0)],
   rec   |-> [i \in Inodes |->
                CASE i = i1 -> [uid |-> 0, gid |-> 0, mode |-> Dir \cup sticky,
                               kind |-> "dir", born |-> 1]
                  [] i = i2 -> record
                  [] OTHER -> None]]

Symmetry == Permutations(Tracers) \cup Permutations({i3, i4, i5})

FileStarts ==
  { StartWith("q", {StickyBit}, Owner(1, Exe)),
    StartWith("p", {}, Owner(1, Exe)),
    StartWith("p", {SetGid}, None) }
=============================================================================
