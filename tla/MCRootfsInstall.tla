-------------------------- MODULE MCRootfsInstall --------------------------
(* An archive with a directory and an account file whose modes must be     *)
(* widened; the directory is there twice.                                  *)
EXTENDS RootfsInstall

MCArchive ==
  << [path |-> "dir",    uid |-> 5, mode |-> "ro", text |-> {}],
     [path |-> "passwd", uid |-> 0, mode |-> "ro", text |-> {"root"}],
     [path |-> "dir",    uid |-> 6, mode |-> "ro", text |-> {}] >>

(* As many birth times as files and records can have, and one more.        *)
MCBirths == 1 .. 20
=============================================================================
