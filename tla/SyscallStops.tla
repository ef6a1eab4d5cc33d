----------------------------- MODULE SyscallStops -----------------------------
(***************************************************************************)
(* One tracee's system calls: the stops the kernel reports for each - at   *)
(* the entry, at the tracer's seccomp filter, at the exit, as SIGSYS when  *)
(* another filter traps the call - and what the tracer does at each.       *)
(*                                                                         *)
(* A call is its number; the handlers of the tracer are reduced to what    *)
(* they do to the number: leave it, replace it by another call's, or by    *)
(* getpid's with a result to be delivered at the exit.  The direction of a *)
(* stop is known (the kernel tells it in a call or in x7).                 *)
(***************************************************************************)
EXTENDS Integers

CONSTANTS
  Calls,
  Getpid,
  Traced,        (* kTracedSyscalls: the tracer's filter stops them        *)
  Trapped,       (* another filter of the process traps them               *)
  Emulated,      (* the entry handler replaces them by getpid              *)
  Rerouted, Route,   (* ... or by another call                             *)
  Execs,         (* calls that replace the executable                      *)
  Kernels,       (* "new": the filter comes after the entry stop, and sees *)
                 (* the number the tracer leaves; "old" (before 4.8): it   *)
                 (* comes first                                            *)
  MaxSignals     (* bound                                                  *)

ASSUME GetpidAssumption == Getpid \in Calls \ (Traced \cup Trapped)
ASSUME CallsAssumption ==
  /\ Trapped \subseteq Calls /\ Traced \subseteq Calls
  /\ Emulated \subseteq Traced /\ Rerouted \subseteq Traced \ Emulated
  /\ Execs \subseteq Traced \ (Trapped \cup Emulated \cup Rerouted)
  /\ Route \in [Rerouted -> Traced \ (Trapped \cup Rerouted)]
ASSUME KernelsAssumption == Kernels \subseteq {"new", "old"}
ASSUME SignalsAssumption == MaxSignals \in Nat

VARIABLES
  kernel,
  phase,          (* where the call is in the kernel; "user": it returned  *)
  call, number,   (* what the program asked for; x8 now                    *)
  result,         (* x0 now                                                *)
  stop,           (* the ptrace-stop the tracee is in                      *)
  syscallTrace,   (* last resumed with PTRACE_SYSCALL                      *)
  trap,           (* a SIGSYS is pending                                   *)
  expect_entry, blocked_syscall_retry, entry_stop_pc,
  retried_syscall_number, has_emulated_return,    (* TraceeState           *)
  handled,        (* ghost: how often the handlers saw this call, up to 2  *)
  retries,        (* ghost: how often it was retried, up to 2              *)
  signals         (* what the bound still allows                           *)

traceeState == <<expect_entry, blocked_syscall_retry, entry_stop_pc,
                 retried_syscall_number, has_emulated_return>>
registers   == <<number, result>>
ghosts      == <<handled, retries>>
vars        == <<kernel, phase, call, registers, stop, syscallTrace, trap,
                 traceeState, ghosts, signals>>

Init ==
  /\ kernel \in Kernels
  /\ phase = "user" /\ call = Getpid /\ number = Getpid /\ result = "done"
  /\ stop = "none" /\ syscallTrace = FALSE /\ trap = FALSE
  /\ expect_entry = TRUE /\ blocked_syscall_retry = "none"
  /\ entry_stop_pc = Getpid /\ retried_syscall_number = Getpid
  /\ has_emulated_return = FALSE
  /\ handled = 0 /\ retries = 0
  /\ signals = MaxSignals

-----------------------------------------------------------------------------
(* The kernel                                                              *)

First == IF kernel = "new" THEN "entry" ELSE "seccomp"

Invoke(c) ==
  /\ phase = "user" /\ stop = "none"
  /\ phase' = First
  /\ call' = c /\ number' = c /\ result' = "none"
  /\ handled' = 0 /\ retries' = 0
  /\ UNCHANGED <<kernel, stop, syscallTrace, trap, traceeState, signals>>

(* The call goes on, after a stop if there is one.                         *)
Proceed(to, s) ==
  /\ phase' = to /\ stop' = s
  /\ UNCHANGED <<kernel, call, registers, syscallTrace, traceeState, ghosts, signals>>

Entry ==
  /\ phase = "entry" /\ stop = "none"
  /\ Proceed(IF kernel = "new" THEN "seccomp" ELSE "run",
             IF syscallTrace THEN "entry" ELSE "none")
  /\ UNCHANGED trap

(* The filters: a trap beats a trace.                                      *)
Seccomp ==
  /\ phase = "seccomp" /\ stop = "none"
  /\ \/ number \in Trapped /\ Proceed("exit", "none") /\ trap' = TRUE
     \/ /\ number \in Traced \ Trapped
        /\ Proceed(IF kernel = "new" THEN "run" ELSE "entry", "seccomp")
        /\ UNCHANGED trap
     \/ /\ number \notin Traced \cup Trapped
        /\ Proceed(IF kernel = "new" THEN "run" ELSE "entry", "none")
        /\ UNCHANGED trap

Run ==
  /\ phase = "run" /\ stop = "none"
  /\ phase' = "exit"
  /\ result' = "done"
  /\ stop' \in IF number \in Execs THEN {"none", "exec"} ELSE {"none"}
  /\ UNCHANGED <<kernel, call, number, syscallTrace, trap, traceeState, ghosts,
                 signals>>

Exit ==
  /\ phase = "exit" /\ stop = "none"
  /\ Proceed("deliver", IF syscallTrace THEN "exit" ELSE "none")
  /\ UNCHANGED trap

(* A pending SIGSYS comes before anything else.                            *)
Deliver ==
  /\ phase = "deliver" /\ stop = "none"
  /\ Proceed("user", IF trap THEN "SIGSYS" ELSE "none")
  /\ trap' = FALSE

Signal ==
  /\ phase = "user" /\ stop = "none" /\ signals > 0
  /\ signals' = signals - 1
  /\ stop' = "signal"
  /\ UNCHANGED <<kernel, phase, call, registers, syscallTrace, trap, traceeState,
                 ghosts>>

-----------------------------------------------------------------------------
(* The tracer                                                              *)

(* The state after a stop decides how the tracee is resumed.               *)
ResumeTracee ==
  /\ stop' = "none"
  /\ syscallTrace' = (~expect_entry' \/ blocked_syscall_retry' = "awaiting")

(* The exit of a retried call only matters to the next stop.               *)
Retry == IF blocked_syscall_retry = "exited" THEN "none" ELSE blocked_syscall_retry

(* The entry handlers.                                                     *)
Handled == CASE number \in Emulated -> Getpid
             [] number \in Rerouted -> Route[number]
             [] OTHER               -> number

(* Mutant: every entry stop is handled.                                    *)
Never == FALSE

(* A second stop for the same entry.                                       *)
SecondEntryStop == ~expect_entry /\ entry_stop_pc = call

EntryAgain ==
  /\ stop \in {"entry", "seccomp"} /\ SecondEntryStop
  /\ blocked_syscall_retry' = Retry
  /\ UNCHANGED <<expect_entry, entry_stop_pc, retried_syscall_number,
                 has_emulated_return>>
  /\ ResumeTracee
  /\ UNCHANGED <<kernel, phase, call, registers, trap, ghosts, signals>>

HandleEntry ==
  /\ stop \in {"entry", "seccomp"} /\ ~SecondEntryStop
  /\ entry_stop_pc' = call
  /\ blocked_syscall_retry' = IF Retry = "awaiting" THEN "inFlight" ELSE "none"
  /\ number' = Handled
  /\ has_emulated_return' = (has_emulated_return \/ number \in Emulated)
  /\ retried_syscall_number' = IF Retry = "awaiting" THEN Handled
                               ELSE retried_syscall_number
  /\ expect_entry' = FALSE
  /\ ResumeTracee
  /\ handled' = IF handled = 2 THEN 2 ELSE handled + 1
  /\ UNCHANGED <<kernel, phase, call, result, trap, retries, signals>>

(* Mutant: the emulated result is not written.                             *)
ExitWithoutResult ==
  /\ stop = "exit"
  /\ blocked_syscall_retry' = IF Retry = "inFlight" THEN "exited" ELSE Retry
  /\ has_emulated_return' = FALSE
  /\ expect_entry' = TRUE
  /\ UNCHANGED <<entry_stop_pc, retried_syscall_number>>
  /\ ResumeTracee
  /\ UNCHANGED <<kernel, phase, call, registers, trap, ghosts, signals>>

(* Mutant: the emulated result is not cleared.                             *)
ExitKeepsResult ==
  /\ stop = "exit"
  /\ blocked_syscall_retry' = IF Retry = "inFlight" THEN "exited" ELSE Retry
  /\ result' = IF has_emulated_return THEN "emulated" ELSE result
  /\ expect_entry' = TRUE
  /\ UNCHANGED <<entry_stop_pc, retried_syscall_number, has_emulated_return>>
  /\ ResumeTracee
  /\ UNCHANGED <<kernel, phase, call, number, trap, ghosts, signals>>

HandleExit ==
  /\ stop = "exit"
  /\ blocked_syscall_retry' = IF Retry = "inFlight" THEN "exited" ELSE Retry
  /\ result' = IF has_emulated_return THEN "emulated" ELSE result
  /\ has_emulated_return' = FALSE
  /\ expect_entry' = TRUE
  /\ UNCHANGED <<entry_stop_pc, retried_syscall_number>>
  /\ ResumeTracee
  /\ UNCHANGED <<kernel, phase, call, number, trap, ghosts, signals>>

(* After an exec that the tracer loads itself the exit is not waited for.  *)
HandleExec ==
  /\ stop = "exec"
  /\ blocked_syscall_retry' = Retry
  /\ expect_entry' \in {TRUE, expect_entry}
  /\ UNCHANGED <<entry_stop_pc, retried_syscall_number, has_emulated_return>>
  /\ ResumeTracee
  /\ UNCHANGED <<kernel, phase, call, registers, trap, ghosts, signals>>

(* Mutant: a call that was trapped again is retried again.                 *)
AlwaysRetries == number \in Traced

(* A traced call that was trapped before the tracer's filter saw it, and   *)
(* not one that was retried and has just been trapped again.               *)
Retries == /\ number \in Traced
           /\ ~(blocked_syscall_retry = "exited" /\ number = retried_syscall_number)

RetryBlockedSyscall ==
  /\ stop = "SIGSYS" /\ Retries
  /\ phase' = First
  /\ expect_entry' = TRUE
  /\ blocked_syscall_retry' = "awaiting"
  /\ UNCHANGED <<entry_stop_pc, retried_syscall_number, has_emulated_return>>
  /\ ResumeTracee
  /\ retries' = IF retries = 2 THEN 2 ELSE retries + 1
  /\ UNCHANGED <<kernel, call, registers, trap, handled, signals>>

SuppressBlockedSyscall ==
  /\ stop = "SIGSYS" /\ ~Retries
  /\ result' = "ENOSYS"
  /\ expect_entry' = TRUE /\ has_emulated_return' = FALSE
  /\ blocked_syscall_retry' = Retry
  /\ UNCHANGED <<entry_stop_pc, retried_syscall_number>>
  /\ ResumeTracee
  /\ UNCHANGED <<kernel, phase, call, number, trap, ghosts, signals>>

HandleSignal ==
  /\ stop = "signal"
  /\ blocked_syscall_retry' = Retry
  /\ UNCHANGED <<expect_entry, entry_stop_pc, retried_syscall_number,
                 has_emulated_return>>
  /\ ResumeTracee
  /\ UNCHANGED <<kernel, phase, call, registers, trap, ghosts, signals>>

-----------------------------------------------------------------------------
Handle == \/ EntryAgain \/ HandleEntry \/ HandleExit \/ HandleExec
          \/ RetryBlockedSyscall \/ SuppressBlockedSyscall \/ HandleSignal
Advance == Entry \/ Seccomp \/ Run \/ Exit \/ Deliver

Next == Handle \/ Advance \/ Signal \/ \E c \in Calls : Invoke(c)

Spec     == Init /\ [][Next]_vars
(* The tracer and the kernel go on; the program need not call or be        *)
(* signalled again.                                                        *)
FairSpec == Spec /\ WF_vars(Handle) /\ WF_vars(Advance)

-----------------------------------------------------------------------------
(* Type correctness; a result waits to be delivered only between an entry  *)
(* and its exit.                                                           *)
TypeOK ==
  /\ kernel \in {"new", "old"}
  /\ phase \in {"user", "entry", "seccomp", "run", "exit", "deliver"}
  /\ {call, number, entry_stop_pc, retried_syscall_number} \subseteq Calls
  /\ result \in {"none", "done", "emulated", "ENOSYS"}
  /\ stop \in {"none", "entry", "seccomp", "exit", "exec", "SIGSYS", "signal"}
  /\ syscallTrace \in BOOLEAN /\ trap \in BOOLEAN
  /\ expect_entry \in BOOLEAN /\ has_emulated_return \in BOOLEAN
  /\ has_emulated_return => number = Getpid /\ ~expect_entry
  /\ blocked_syscall_retry \in {"none", "awaiting", "inFlight", "exited"}
  /\ handled \in 0 .. 2 /\ retries \in 0 .. 2 /\ signals \in 0 .. MaxSignals

(* A kernel before 4.8 traps a call before its entry stop.                 *)
TrapsFirst == kernel = "old" /\ call \in Traced \cap Trapped

(* No traced call runs that the handlers have not seen, or saw twice; and  *)
(* none runs in the place of one that is emulated.                         *)
RunsAsHandled ==
  phase = "run" /\ stop = "none"
    => /\ handled = IF call \in Traced THEN 1 ELSE 0
       /\ call \in Emulated => number = Getpid
       /\ call \in Rerouted => number = Route[call]

(* A call returns what it should: the tracer's result when it is emulated, *)
(* ENOSYS when the other filter traps what the tracer leaves of it.        *)
Answer == CASE call \in Emulated -> "emulated"
            [] call \in Trapped \ (Emulated \cup Rerouted) -> "ENOSYS"
            [] OTHER -> "done"
ReturnsItsResult ==
  phase = "user" /\ stop = "none" => result = Answer

(* Every call returns: a retry does not lead to another for ever.          *)
CallsReturn == (phase # "user" /\ ~TrapsFirst) ~> (phase = "user" /\ stop = "none")

(* The retry is abandoned when the same call is trapped again.             *)
RetryIsAbandoned == retries <= 1
=============================================================================
