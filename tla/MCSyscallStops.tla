--------------------------- MODULE MCSyscallStops ---------------------------
(* One call of each kind: free, traced and left alone, emulated, trapped   *)
(* and emulated, trapped and rerouted, trapped for good, traced or not,    *)
(* and two that replace the executable, one of them by way of the other.   *)
EXTENDS SyscallStops, TLC

MCCalls    == {"getpid", "openat", "getuid", "setuid", "openat2", "statx",
               "keyctl", "execve", "execveat"}
MCTraced   == {"openat", "getuid", "setuid", "openat2", "statx", "execve",
               "execveat"}
MCTrapped  == {"setuid", "openat2", "statx", "keyctl"}
MCEmulated == {"getuid", "setuid"}
MCRerouted == {"openat2", "execveat"}
MCRoute    == [c \in MCRerouted |-> IF c = "openat2" THEN "openat" ELSE "execve"]
MCExecs    == {"execve"}
=============================================================================
