--------------------------- MODULE TracerLoopProofs ---------------------------
(***************************************************************************)
(* Theorems about the two halves of the tracer's wait loop.                *)
(*                                                                         *)
(* SyscallStops, for every set of calls, traced, trapped, emulated and     *)
(* rerouted, on both kinds of kernels.                                     *)
(*                                                                         *)
(* TraceeTree, for any thread ids, credentials and bounds, on a kernel     *)
(* that does not use a thread id again while the tracer knows its last     *)
(* user.  TreeInv says of each kind of stop what the tracer's records must *)
(* hold for its handler to leave the right ones behind (Record), that an   *)
(* event names a tid no other event names (Aimed), and that a first stop   *)
(* that was put aside is still the first stop, or the tracee's grave       *)
(* (Deferred).                                                             *)
(***************************************************************************)
EXTENDS SyscallStops, TraceeTree, TLAPS

-----------------------------------------------------------------------------
(* SyscallStops                                                            *)


(* What the entry handlers make of a call.                                 *)
HandledAs(c) == IF c \in Emulated THEN Getpid
                ELSE IF c \in Rerouted THEN Route[c] ELSE c

(* The handlers have not seen the call; it may be on its way to a retry.   *)
Fresh ==
  /\ handled = 0 /\ number = call /\ expect_entry = TRUE
  /\ has_emulated_return = FALSE
  /\ syscallTrace = (blocked_syscall_retry = "awaiting")
  /\ blocked_syscall_retry = "awaiting" => call \in Traced \cap Trapped

(* They have seen it, and its exit is yet to be reported.                  *)
Seen ==
  /\ handled = 1 /\ call \in Traced /\ number = HandledAs(call)
  /\ expect_entry = FALSE /\ syscallTrace = TRUE /\ entry_stop_pc = call
  /\ has_emulated_return = (call \in Emulated)
  /\ blocked_syscall_retry \in {"none", "inFlight"}
  /\ call \in Trapped
       => blocked_syscall_retry = "inFlight" /\ retried_syscall_number = number

(* Nothing waits for the exit any more.                                    *)
Over ==
  /\ expect_entry = TRUE /\ has_emulated_return = FALSE /\ syscallTrace = FALSE
  /\ blocked_syscall_retry # "awaiting"

(* A call that was retried was trapped again.                              *)
TrappedAgain ==
  /\ Over /\ blocked_syscall_retry = "exited"
  /\ number = call /\ call \in Trapped \ (Emulated \cup Rerouted)
  /\ retried_syscall_number = number

Free(c) == c \notin Traced \cup Trapped

(* Before the call runs, by phase and stop.                                *)
Arriving ==
  /\ phase = "entry" =>
       /\ stop \in {"none", "seccomp"} /\ trap = FALSE
       /\ kernel = "new" => stop = "none" /\ Fresh
       /\ kernel = "old" /\ stop = "none" => (Fresh /\ Free(call)) \/ (Seen /\ call \notin Trapped)
       /\ stop = "seccomp" => Fresh /\ call \in Traced \ Trapped
  /\ phase = "seccomp" =>
       /\ stop \in {"none", "entry"} /\ trap = FALSE
       /\ stop = "entry" => kernel = "new" /\ Fresh /\ blocked_syscall_retry = "awaiting"
       /\ kernel = "old" => Fresh
       /\ kernel = "new" /\ stop = "none" => (Fresh /\ syscallTrace = FALSE) \/ Seen
  /\ phase = "run" =>
       /\ stop \in {"none", "entry", "seccomp"} /\ trap = FALSE
       /\ stop = "none" => (Fresh /\ Free(call)) \/ (Seen /\ number \notin Trapped)
       /\ stop = "entry" => Seen /\ number \notin Trapped
       /\ stop = "seccomp" => \/ Fresh /\ call \in Traced \ Trapped
                              \/ Seen /\ number \notin Trapped

(* After it ran, or was trapped.                                           *)
LeavingTrapped == (Fresh /\ call \in Trapped) \/ (Seen /\ number \in Trapped)
LeavingDone ==
  /\ result = "done"
  /\ \/ Fresh /\ Free(call)
     \/ Seen /\ number \notin Trapped
     \/ Over /\ Answer = "done"
Leaving ==
  /\ phase = "exit" =>
       /\ stop \in {"none", "exec"}
       /\ stop = "exec" => /\ trap = FALSE /\ result = "done"
                           /\ Seen /\ number \notin Trapped /\ number \in Execs
       /\ trap = TRUE => LeavingTrapped
       /\ trap = FALSE => LeavingDone
  /\ phase = "deliver" =>
       /\ stop \in {"none", "exit"}
       /\ stop = "exit" => /\ syscallTrace = TRUE
                           /\ trap = TRUE => LeavingTrapped
                           /\ trap = FALSE => LeavingDone
       /\ stop = "none" => /\ trap = TRUE => (Fresh /\ call \in Trapped) \/ TrappedAgain
                           /\ trap = FALSE => Over /\ result = Answer
  /\ phase = "user" =>
       /\ stop \in {"none", "signal", "SIGSYS"} /\ trap = FALSE
       /\ stop = "SIGSYS" => (Fresh /\ call \in Trapped) \/ TrappedAgain
       /\ stop # "SIGSYS" => Over /\ result = Answer

(* Only a call that the handlers leave alone is given up when it is trapped*)
(* a second time.                                                          *)
RetriedIsKept ==
  retried_syscall_number \in Trapped =>
    retried_syscall_number \notin Emulated \cup Rerouted

StopsInv == TypeOK /\ RetriedIsKept /\ Arriving /\ Leaving

(* The invariant holds initially, and every step preserves it: a lemma for *)
(* each action.                                                            *)
LEMMA StopsInit == Init => StopsInv
  <1> SUFFICES ASSUME Init PROVE StopsInv
    OBVIOUS
  <1>1. TypeOK
    <2>1. syscallTrace \in BOOLEAN /\ trap \in BOOLEAN
      BY Zenon DEF Init
    <2>2. expect_entry \in BOOLEAN /\ has_emulated_return \in BOOLEAN
      BY Zenon DEF Init
    <2>3. QED
      BY <2>1, <2>2, GetpidAssumption, KernelsAssumption, SignalsAssumption
         DEF Init, TypeOK
  <1>2. RetriedIsKept
    BY GetpidAssumption DEF Init, RetriedIsKept
  <1>3. Arriving /\ Leaving
    BY GetpidAssumption, CallsAssumption
       DEF Init, Arriving, Leaving, Over, Answer
  <1>4. QED
    BY <1>1, <1>2, <1>3 DEF StopsInv

-----------------------------------------------------------------------------
(* The steps of the program and the kernel.                                *)
LEMMA InvokeStep ==
  ASSUME StopsInv, NEW c \in Calls, Invoke(c)
  PROVE  StopsInv'
  <1>1. TypeOK'
    BY DEF Invoke, First, traceeState, StopsInv, TypeOK, Leaving, Over
  <1>2. RetriedIsKept'
    BY DEF Invoke, traceeState, StopsInv, RetriedIsKept
  <1>3. Arriving'
    BY DEF Invoke, First, traceeState, StopsInv, TypeOK, Arriving, Leaving,
           Fresh, Over
  <1>4. Leaving'
    BY DEF Invoke, First, Leaving
  <1>5. QED
    BY <1>1, <1>2, <1>3, <1>4 DEF StopsInv

LEMMA EntryStep ==
  ASSUME StopsInv, Entry
  PROVE  StopsInv'
  <1>1. TypeOK'
    BY DEF Entry, Proceed, traceeState, registers, ghosts, StopsInv, TypeOK
  <1>2. RetriedIsKept'
    BY DEF Entry, Proceed, traceeState, StopsInv, RetriedIsKept
  <1>3. Arriving'
    BY GetpidAssumption, CallsAssumption
       DEF Entry, Proceed, traceeState, registers, ghosts, StopsInv, TypeOK,
           Arriving, Fresh, Seen, Free, HandledAs
  <1>4. Leaving'
    BY DEF Entry, Proceed, Leaving
  <1>5. QED
    BY <1>1, <1>2, <1>3, <1>4 DEF StopsInv

LEMMA SeccompStep ==
  ASSUME StopsInv, Seccomp
  PROVE  StopsInv'
  <1>1. TypeOK'
    <2>1. trap' \in BOOLEAN /\ has_emulated_return' \in BOOLEAN
      BY Zenon DEF Seccomp, Proceed, traceeState, StopsInv, TypeOK
    <2>2. expect_entry' \in BOOLEAN /\ syscallTrace' \in BOOLEAN
      BY Zenon DEF Seccomp, Proceed, traceeState, StopsInv, TypeOK
    <2>3. (has_emulated_return => number = Getpid /\ ~expect_entry)'
      <3>1. UNCHANGED <<number, expect_entry, has_emulated_return>>
        BY Zenon DEF Seccomp, Proceed, traceeState, registers
      <3>2. QED
        BY <3>1, Zenon DEF StopsInv, TypeOK
    <2>4. QED
      BY <2>1
         DEF Seccomp, Proceed, traceeState, registers, ghosts, StopsInv,
             TypeOK
  <1>2. RetriedIsKept'
    BY DEF Seccomp, Proceed, traceeState, StopsInv, RetriedIsKept
  <1>3. Arriving'
    BY DEF Seccomp, Proceed, traceeState, registers, ghosts, StopsInv, TypeOK,
           Arriving, Fresh, Seen, Free
  <1>4. Leaving'
    BY DEF Seccomp, Proceed, traceeState, registers, ghosts, StopsInv, TypeOK,
           Arriving, Leaving, LeavingTrapped, Fresh, Seen
  <1>5. QED
    BY <1>1, <1>2, <1>3, <1>4 DEF StopsInv

LEMMA RunStep ==
  ASSUME StopsInv, Run
  PROVE  StopsInv'
  <1>1. TypeOK'
    BY DEF Run, traceeState, ghosts, StopsInv, TypeOK
  <1>2. RetriedIsKept'
    BY DEF Run, traceeState, StopsInv, RetriedIsKept
  <1>3. Arriving'
    BY DEF Run, Arriving
  <1>4. Leaving'
    BY CallsAssumption
       DEF Run, traceeState, ghosts, StopsInv, Arriving, Leaving, LeavingDone,
           Fresh, Seen, Free
  <1>5. QED
    BY <1>1, <1>2, <1>3, <1>4 DEF StopsInv

LEMMA ExitStep ==
  ASSUME StopsInv, Exit
  PROVE  StopsInv'
  <1>1. TypeOK'
    BY DEF Exit, Proceed, traceeState, registers, ghosts, StopsInv, TypeOK
  <1>2. RetriedIsKept'
    BY DEF Exit, Proceed, traceeState, StopsInv, RetriedIsKept
  <1>3. Arriving'
    BY DEF Exit, Proceed, Arriving
  <1>4. Leaving'
    BY CallsAssumption
       DEF Exit, Proceed, traceeState, registers, ghosts, StopsInv, Leaving,
           LeavingTrapped, LeavingDone, Fresh, Seen, Over, Free, Answer
  <1>5. QED
    BY <1>1, <1>2, <1>3, <1>4 DEF StopsInv

LEMMA DeliverStep ==
  ASSUME StopsInv, Deliver
  PROVE  StopsInv'
  <1>1. TypeOK'
    <2>1. trap' \in BOOLEAN /\ has_emulated_return' \in BOOLEAN
      BY Zenon DEF Deliver, Proceed, traceeState, StopsInv, TypeOK
    <2>2. expect_entry' \in BOOLEAN /\ syscallTrace' \in BOOLEAN
      BY Zenon DEF Deliver, Proceed, traceeState, StopsInv, TypeOK
    <2>3. (has_emulated_return => number = Getpid /\ ~expect_entry)'
      BY DEF Deliver, Proceed, traceeState, registers, StopsInv, TypeOK
    <2>4. QED
      BY <2>1
         DEF Deliver, Proceed, traceeState, registers, ghosts, StopsInv,
             TypeOK
  <1>2. RetriedIsKept'
    BY DEF Deliver, Proceed, traceeState, StopsInv, RetriedIsKept
  <1>3. Arriving'
    BY DEF Deliver, Proceed, Arriving
  <1>4. Leaving'
    BY DEF Deliver, Proceed, traceeState, registers, ghosts, StopsInv,
           Leaving, Fresh, Over, TrappedAgain, Answer
  <1>5. QED
    BY <1>1, <1>2, <1>3, <1>4 DEF StopsInv

LEMMA SignalStep ==
  ASSUME StopsInv, Signal
  PROVE  StopsInv'
  <1>1. TypeOK'
    BY SignalsAssumption
       DEF Signal, traceeState, registers, ghosts, StopsInv, TypeOK
  <1>2. RetriedIsKept'
    BY DEF Signal, traceeState, StopsInv, RetriedIsKept
  <1>3. Arriving'
    BY DEF Signal, Arriving
  <1>4. Leaving'
    BY DEF Signal, traceeState, registers, StopsInv, Leaving, Over, Answer
  <1>5. QED
    BY <1>1, <1>2, <1>3, <1>4 DEF StopsInv

-----------------------------------------------------------------------------
(* The steps of the tracer.                                                *)
LEMMA EntryAgainStep ==
  ASSUME StopsInv, EntryAgain
  PROVE  StopsInv'
  <1>1. TypeOK'
    BY DEF EntryAgain, ResumeTracee, Retry, registers, ghosts, StopsInv,
           TypeOK
  <1>2. RetriedIsKept'
    BY DEF EntryAgain, StopsInv, RetriedIsKept
  <1>3. Arriving'
    BY DEF EntryAgain, ResumeTracee, Retry, SecondEntryStop, registers,
           ghosts, StopsInv, TypeOK, Arriving, Fresh, Seen
  <1>4. Leaving'
    BY DEF EntryAgain, StopsInv, Leaving
  <1>5. QED
    BY <1>1, <1>2, <1>3, <1>4 DEF StopsInv

LEMMA HandleEntryStep ==
  ASSUME StopsInv, HandleEntry
  PROVE  StopsInv'
  <1>1. TypeOK'
    <2>1. trap' \in BOOLEAN /\ has_emulated_return' \in BOOLEAN
      BY Zenon DEF HandleEntry, StopsInv, TypeOK
    <2>2. expect_entry' \in BOOLEAN /\ syscallTrace' \in BOOLEAN
      BY Zenon DEF HandleEntry, ResumeTracee
    <2>3. (has_emulated_return => number = Getpid /\ ~expect_entry)'
      BY CallsAssumption
         DEF HandleEntry, SecondEntryStop, Handled, StopsInv, TypeOK,
             Arriving, Leaving, Fresh, Seen
    <2>4. QED
      BY <2>2, GetpidAssumption, CallsAssumption
         DEF HandleEntry, ResumeTracee, Handled, StopsInv, TypeOK
  <1>2. RetriedIsKept'
    BY GetpidAssumption, CallsAssumption
       DEF HandleEntry, Handled, StopsInv, RetriedIsKept
  <1>3. Arriving'
    BY GetpidAssumption, CallsAssumption
       DEF HandleEntry, ResumeTracee, Retry, SecondEntryStop, Handled,
           StopsInv, TypeOK, Arriving, Fresh, Seen, HandledAs
  <1>4. Leaving'
    BY DEF HandleEntry, StopsInv, Leaving
  <1>5. QED
    BY <1>1, <1>2, <1>3, <1>4 DEF StopsInv

LEMMA HandleExitStep ==
  ASSUME StopsInv, HandleExit
  PROVE  StopsInv'
  <1>1. TypeOK'
    <2>1. trap' \in BOOLEAN /\ has_emulated_return' \in BOOLEAN
      BY Zenon DEF HandleExit, StopsInv, TypeOK
    <2>2. expect_entry' \in BOOLEAN /\ syscallTrace' \in BOOLEAN
      BY Zenon DEF HandleExit, ResumeTracee
    <2>3. (has_emulated_return => number = Getpid /\ ~expect_entry)'
      BY DEF HandleExit
    <2>4. QED
      BY <2>1 DEF HandleExit, ResumeTracee, Retry, ghosts, StopsInv, TypeOK
  <1>2. RetriedIsKept'
    BY DEF HandleExit, StopsInv, RetriedIsKept
  <1>3. Arriving'
    BY DEF HandleExit, StopsInv, Arriving
  <1>4. Leaving'
    <2>1. phase = "deliver" /\ phase' = phase /\ stop' = "none" /\ trap' = trap
      BY DEF HandleExit, ResumeTracee, StopsInv, TypeOK, Arriving, Leaving
    <2>2. CASE trap = TRUE
      <3>1. LeavingTrapped
        BY <2>1, <2>2 DEF HandleExit, StopsInv, Leaving
      <3>2. CASE Fresh /\ call \in Trapped
        BY <2>1, <2>2, <3>2
           DEF HandleExit, ResumeTracee, Retry, ghosts, Leaving, Fresh
      <3>3. CASE Seen /\ number \in Trapped
        <4>1. number = call /\ call \notin Emulated \cup Rerouted
          BY <3>3, GetpidAssumption, CallsAssumption DEF Seen, HandledAs
        <4>2. TrappedAgain'
          BY <3>3, <4>1
             DEF HandleExit, ResumeTracee, Retry, traceeState, registers,
                 ghosts, Seen, TrappedAgain, Over
        <4>3. QED
          BY <2>1, <2>2, <4>2 DEF Leaving
      <3>4. QED
        BY <3>1, <3>2, <3>3 DEF LeavingTrapped
    <2>3. CASE trap = FALSE
      <3>1. LeavingDone
        BY <2>1, <2>3 DEF HandleExit, StopsInv, Leaving
      <3>2. Over'
        BY <2>3
           DEF HandleExit, ResumeTracee, Retry, StopsInv, TypeOK, Arriving,
               Leaving, LeavingDone, Fresh, Free, Seen, Over
      <3>3. result' = Answer'
        <4>1. CASE Fresh /\ Free(call)
          BY <3>1, <4>1, CallsAssumption
             DEF HandleExit, LeavingDone, Fresh, Free, Answer
        <4>2. CASE Seen /\ number \notin Trapped
          <5>1. result' = IF call \in Emulated THEN "emulated" ELSE "done"
            BY <3>1, <4>2, Zenon DEF HandleExit, LeavingDone, Seen
          <5>2. call' = call
            BY DEF HandleExit
          <5>3. call \notin Trapped \ (Emulated \cup Rerouted)
            BY <4>2 DEF Seen, HandledAs
          <5>4. QED
            BY <5>1, <5>2, <5>3 DEF Answer
        <4>3. CASE Over /\ Answer = "done"
          BY <3>1, <4>3 DEF HandleExit, LeavingDone, Over, Answer
        <4>4. QED
          BY <3>1, <4>1, <4>2, <4>3 DEF LeavingDone
      <3>4. QED
        BY <2>1, <2>3, <3>2, <3>3 DEF Leaving
    <2>4. QED
      BY <2>2, <2>3 DEF StopsInv, TypeOK
  <1>5. QED
    BY <1>1, <1>2, <1>3, <1>4 DEF StopsInv

LEMMA HandleExecStep ==
  ASSUME StopsInv, HandleExec
  PROVE  StopsInv'
  <1>0. /\ phase = "exit" /\ Seen /\ trap = FALSE /\ result = "done"
        /\ number \in Execs /\ number \notin Trapped
    BY DEF HandleExec, StopsInv, TypeOK, Arriving, Leaving
  <1>9. call \notin Emulated /\ Answer = "done"
    BY <1>0, GetpidAssumption, CallsAssumption DEF Seen, HandledAs, Answer
  <1>1. TypeOK'
    <2>1. trap' \in BOOLEAN /\ has_emulated_return' \in BOOLEAN
      BY Zenon DEF HandleExec, StopsInv, TypeOK
    <2>2. expect_entry' \in BOOLEAN /\ syscallTrace' \in BOOLEAN
      BY Zenon DEF HandleExec, ResumeTracee, StopsInv, TypeOK
    <2>3. (has_emulated_return => number = Getpid /\ ~expect_entry)'
      <3>1. UNCHANGED has_emulated_return
        BY Zenon DEF HandleExec
      <3>2. ~has_emulated_return
        BY <1>0, GetpidAssumption, CallsAssumption DEF StopsInv, TypeOK
      <3>3. QED
        BY <3>1, <3>2
    <2>4. QED
      BY <2>2, <2>3
         DEF HandleExec, ResumeTracee, Retry, registers, ghosts, StopsInv,
             TypeOK
  <1>2. RetriedIsKept'
    BY DEF HandleExec, StopsInv, RetriedIsKept
  <1>3. Arriving'
    BY DEF HandleExec, StopsInv, Arriving
  <1>4. Leaving'
    <2>1. CASE Over'
      BY <1>0, <1>9, <2>1
         DEF HandleExec, ResumeTracee, registers, Leaving, LeavingDone, Answer
    <2>2. CASE expect_entry' = expect_entry
      <3>1. Seen'
        BY <1>0, <2>2
           DEF HandleExec, ResumeTracee, Retry, traceeState, registers,
               ghosts, Seen, HandledAs
      <3>2. QED
        BY <1>0, <3>1
           DEF HandleExec, ResumeTracee, registers, Leaving, LeavingDone
    <2>3. CASE expect_entry' = TRUE
      <3>1. UNCHANGED has_emulated_return /\ ~has_emulated_return
        BY <1>0, <1>9, Zenon DEF HandleExec, Seen
      <3>2. has_emulated_return' = FALSE
        BY <3>1
      <3>3. blocked_syscall_retry' \in {"none", "inFlight"}
        BY <1>0 DEF HandleExec, Retry, Seen
      <3>4. syscallTrace' = FALSE
        <4>1. blocked_syscall_retry' # "awaiting"
          BY <3>3
        <4>2. QED
          BY <2>3, <4>1, Zenon DEF HandleExec, ResumeTracee
      <3>5. Over'
        BY <2>3, <3>2, <3>3, <3>4 DEF Over
      <3>6. QED
        BY <2>1, <3>5
    <2>4. QED
      BY <2>2, <2>3 DEF HandleExec
  <1>5. QED
    BY <1>1, <1>2, <1>3, <1>4 DEF StopsInv

LEMMA RetryBlockedSyscallStep ==
  ASSUME StopsInv, RetryBlockedSyscall
  PROVE  StopsInv'
  <1>1. TypeOK'
    BY DEF RetryBlockedSyscall, First, Retries, ResumeTracee, registers,
           StopsInv, TypeOK, Arriving, Leaving, Fresh, TrappedAgain
  <1>2. RetriedIsKept'
    BY DEF RetryBlockedSyscall, StopsInv, RetriedIsKept
  <1>3. Arriving'
    BY DEF RetryBlockedSyscall, First, Retries, ResumeTracee, registers,
           StopsInv, TypeOK, Arriving, Leaving, Fresh, TrappedAgain
  <1>4. Leaving'
    BY DEF RetryBlockedSyscall, First, Leaving
  <1>5. QED
    BY <1>1, <1>2, <1>3, <1>4 DEF StopsInv

LEMMA SuppressBlockedSyscallStep ==
  ASSUME StopsInv, SuppressBlockedSyscall
  PROVE  StopsInv'
  <1>1. TypeOK'
    <2>1. trap' \in BOOLEAN /\ has_emulated_return' \in BOOLEAN
      BY Zenon DEF SuppressBlockedSyscall, StopsInv, TypeOK
    <2>2. expect_entry' \in BOOLEAN /\ syscallTrace' \in BOOLEAN
      BY Zenon DEF SuppressBlockedSyscall, ResumeTracee
    <2>3. (has_emulated_return => number = Getpid /\ ~expect_entry)'
      BY DEF SuppressBlockedSyscall
    <2>4. QED
      BY <2>1
         DEF SuppressBlockedSyscall, Retry, ResumeTracee, ghosts, StopsInv,
             TypeOK
  <1>2. RetriedIsKept'
    BY DEF SuppressBlockedSyscall, StopsInv, RetriedIsKept
  <1>3. Arriving'
    BY DEF SuppressBlockedSyscall, StopsInv, Arriving
  <1>4. Leaving'
    BY CallsAssumption
       DEF SuppressBlockedSyscall, Retries, Retry, ResumeTracee, StopsInv,
           TypeOK, RetriedIsKept, Leaving, Fresh, Over, TrappedAgain, Answer
  <1>5. QED
    BY <1>1, <1>2, <1>3, <1>4 DEF StopsInv

LEMMA HandleSignalStep ==
  ASSUME StopsInv, HandleSignal
  PROVE  StopsInv'
  <1>1. TypeOK'
    BY DEF HandleSignal, ResumeTracee, Retry, registers, ghosts, StopsInv,
           TypeOK
  <1>2. RetriedIsKept'
    BY DEF HandleSignal, StopsInv, RetriedIsKept
  <1>3. Arriving'
    BY DEF HandleSignal, StopsInv, Arriving
  <1>4. Leaving'
    BY DEF HandleSignal, ResumeTracee, Retry, registers, StopsInv, TypeOK,
           Leaving, Over, Answer
  <1>5. QED
    BY <1>1, <1>2, <1>3, <1>4 DEF StopsInv

-----------------------------------------------------------------------------
LEMMA UnchangedStep ==
  ASSUME StopsInv, UNCHANGED vars
  PROVE  StopsInv'
  BY DEF vars, traceeState, registers, ghosts, StopsInv, TypeOK, RetriedIsKept,
         Arriving, Leaving, LeavingTrapped, LeavingDone, Fresh, Seen, Over,
         TrappedAgain, Answer

LEMMA StopsNext == StopsInv /\ [Next]_vars => StopsInv'
  <1> SUFFICES ASSUME StopsInv, [Next]_vars PROVE StopsInv'
    OBVIOUS
  <1>1. CASE Handle
    BY <1>1, EntryAgainStep, HandleEntryStep, HandleExitStep, HandleExecStep,
       RetryBlockedSyscallStep, SuppressBlockedSyscallStep, HandleSignalStep
       DEF Handle
  <1>2. CASE Advance
    BY <1>2, EntryStep, SeccompStep, RunStep, ExitStep, DeliverStep DEF Advance
  <1>3. CASE Signal
    BY <1>3, SignalStep
  <1>4. CASE \E c \in Calls : Invoke(c)
    BY <1>4, InvokeStep
  <1>5. CASE UNCHANGED vars
    BY <1>5, UnchangedStep
  <1>6. QED
    BY <1>1, <1>2, <1>3, <1>4, <1>5 DEF Next

(* The state the tracer keeps about a tracee always fits the call that the *)
(* tracee is making: whether the handlers saw it, whether an exit is still *)
(* to come, whether a retry is under way.                                  *)
THEOREM StopsCorrect == Spec => []StopsInv
  <1>1. Init => StopsInv
    BY StopsInit
  <1>2. StopsInv /\ [Next]_vars => StopsInv'
    BY StopsNext
  <1>3. QED
    BY <1>1, <1>2, PTL DEF Spec

(* Type correctness; a result is only to be delivered between the entry of *)
(* a call and its exit.                                                    *)
THEOREM TypeCorrect == Spec => []TypeOK
  <1>1. StopsInv => TypeOK
    BY DEF StopsInv
  <1>2. QED
    BY <1>1, StopsCorrect, PTL

(* The handlers see a traced call exactly once before it runs, whatever    *)
(* the kernel's order of the stops and whatever other filters trap, and    *)
(* what runs is what they left of it.                                      *)
THEOREM HandledExactlyOnce == Spec => []RunsAsHandled
  <1>1. StopsInv => RunsAsHandled
    BY GetpidAssumption, CallsAssumption
       DEF StopsInv, Arriving, RunsAsHandled, Fresh, Free, Seen, HandledAs
  <1>2. QED
    BY <1>1, StopsCorrect, PTL

(* A call returns the tracer's result exactly when the tracer emulates it, *)
(* and never the result that was meant for another call.                   *)
THEOREM CallReturnsItsResult == Spec => []ReturnsItsResult
  <1>1. StopsInv => ReturnsItsResult
    BY DEF StopsInv, Leaving, ReturnsItsResult
  <1>2. QED
    BY <1>1, StopsCorrect, PTL

-----------------------------------------------------------------------------
(* TraceeTree                                                              *)


Types ==
  /\ life \in [Tids -> {"free", "live", "execing", "zombie"}]
  /\ leader \in [Tids -> Tids] /\ about \in [Tids -> Tids]
  /\ event \in [Tids -> {"none", "newborn", "clone", "exec", "call"}]
  /\ told \in [Tids -> BOOLEAN]
  /\ truth \in [Tids -> Creds] /\ states \in [Tids -> Creds \cup {NoCred}]
  /\ tracked \subseteq Tids /\ current \in Tids

(* The leader of a group is there as long as one of its threads is.        *)
Leaders ==
  \A t \in Tids : life[t] # "free" =>
    life[leader[t]] # "free" /\ leader[leader[t]] = leader[t]

Aimed ==
  \A p, q \in Tids : about[p] = about[q] /\ about[p] \notin {p, q} => p = q

(* No other thread is in the group of c.                                   *)
Alone(c) == \A u \in Tids \ {c} : life[u] = "free" \/ leader[u] # c

(* A tracee that has not run yet.                                          *)
Unstarted(c) ==
  /\ life[c] = "free" => states[c] # NoCred
  /\ Live(c) => event[c] = "newborn"
  /\ Alone(c)

Deferred ==
  /\ pc = "newborn" => Unstarted(current)
  /\ \/ ready = << >>
     \/ /\ pc \in {"wait", "resume", "done"}
        /\ \E c \in Tids : ready = <<c>> /\ Unstarted(c)

Recorded(t) == /\ states[t] # NoCred /\ t \in tracked
               /\ t \notin unheard => states[t] = truth[t]

(* A handler is at work that will resume t, whatever stop t is then in.    *)
Handling(t) == pc \in {"clone", "call", "resume"} /\ current = t

(* What may have become of the stop that is handled, and of its tracee.    *)
Handlers ==
  /\ pc = "clone" => event[current] \in {"none", "clone", "exec"}
  /\ pc = "call" => event[current] \in {"none", "call", "exec"}
  /\ pc = "exec" => event[current] \in {"none", "exec"} /\ Alone(current)
  /\ pc = "resume" => event[current] # "newborn"
  /\ pc \in {"clone", "call", "exec", "resume"} /\ event[current] = "none" =>
       life[current] = "zombie"
  /\ pc \in {"clone", "call", "resume"} =>
       \/ states[current] # NoCred /\ current \in tracked
       \/ event[current] = "none" /\ Alone(current)

(* The event of a clone is about a tracee that waits for it.               *)
Cloned(t) ==
  event[t] = "clone" =>
    /\ about[t] # t /\ Recorded(t) /\ Alone(about[t])
    /\ states[about[t]] = NoCred \/ (pc = "resume" /\ current = t)
    /\ Live(about[t]) => /\ event[about[t]] = "newborn"
                        /\ truth[about[t]] = truth[t]
                        /\ ((about[t] \in unheard) <=> (t \in unheard))

(* That of an exec is about an id that nobody has any more.                *)
Execed(t) ==
  event[t] = "exec" =>
    /\ about[t] # t /\ life[about[t]] = "free" /\ Alone(t)
    /\ \/ Handling(t)
       \/ /\ states[about[t]] # NoCred /\ about[t] \in tracked
          /\ t \notin unheard => states[about[t]] = truth[t]

Record(t) ==
  /\ event[t] # "none" => life[t] = "live"
  /\ event[t] \in {"none", "newborn", "call"} => about[t] = t
  /\ Live(t) /\ event[t] \in {"none", "call"} => Recorded(t)
  /\ event[t] = "newborn" => Alone(t) /\ (states[t] # NoCred => Recorded(t))
  /\ Cloned(t) /\ Execed(t)

EndsLast == pc = "done" => \A t \in Tids : Live(t) => event[t] = "newborn"

TreeInv == /\ Types /\ Leaders /\ Aimed /\ Deferred /\ Handlers /\ EndsLast
           /\ \A t \in Tids : Record(t)

-----------------------------------------------------------------------------
LEMMA TreeInitHolds == TreeInit => TreeInv
  BY TidsAssumption, CredsAssumption
  DEF TreeInit, TreeInv, Types, Leaders, Aimed, Alone, Unstarted, Deferred, Recorded,
      Cloned, Execed, Record, Handling, Handlers, EndsLast, Live, Running

(* Who an event is about has not run yet, or is no more.                   *)
LEMMA AboutOther ==
  ASSUME TreeInv, NEW q \in Tids, about[q] # q
  PROVE  /\ about[q] \in Tids /\ event[q] \in {"clone", "exec"}
         /\ Live(about[q]) => life[about[q]] = "live" /\ event[about[q]] = "newborn"
  <1>1. Types /\ Record(q) /\ about[q] \in Tids /\ Record(about[q])
    BY DEF TreeInv, Types
  <1>2. event[q] \in {"clone", "exec"}
    BY <1>1 DEF Types, Record
  <1>3. event[q] = "clone" /\ Live(about[q]) => event[about[q]] = "newborn"
    BY <1>1 DEF Record, Cloned
  <1>4. event[q] = "exec" => ~Live(about[q])
    BY <1>1 DEF Record, Execed, Live
  <1>5. QED
    BY <1>1, <1>2, <1>3, <1>4 DEF Record

LEMMA CloneHolds ==
  ASSUME TreeInv, NEW p \in Tids, NEW c \in Tids, NEW g \in Tids,
         EarlyReuse = FALSE, Clone(p, c, g)
  PROVE  TreeInv'
  <1> USE CredsAssumption DEF Clone, Known, maps, TreeInv
  <1>1. Types'
    BY DEF Types
  <1>2. Leaders'
    BY DEF Types, Leaders, Live, Running
  <1>3. Aimed'
    BY DEF Types, Aimed, Cloned, Execed, Record, Live, Running
  <1>4. Deferred'
    BY DEF Types, Leaders, Alone, Unstarted, Deferred, Cloned, Execed, Record, Live, Running
  <1>5. Handlers'
    BY DEF Types, Leaders, Alone, Handlers, Cloned, Execed, Record, Recorded, Live,
           Running
  <1>6. EndsLast'
    BY DEF Types, EndsLast, Cloned, Execed, Record, Recorded, Live, Running
  <1>7. ASSUME NEW x \in Tids
        PROVE  Record(x)'
    <2>1. Cloned(x)'
      BY DEF Types, Leaders, Aimed, Alone, Unstarted, Deferred, Cloned, Execed, Record,
             Recorded, Handlers, Live, Running
    <2>2. Execed(x)'
      BY DEF Types, Leaders, Aimed, Alone, Cloned, Execed, Record, Recorded, Handling,
             Handlers, Live, Running
    <2>3. QED
      BY <2>1, <2>2 DEF Types, Leaders, Aimed, Alone, Unstarted, Deferred, Cloned, Record,
                        Recorded, Handling, Handlers, Live, Running
  <1>8. QED
    BY <1>1, <1>2, <1>3, <1>4, <1>5, <1>6, <1>7

LEMMA ExecBeginsHolds ==
  ASSUME TreeInv, NEW t \in Tids, ExecBegins(t)
  PROVE  TreeInv'
  <1> USE CredsAssumption DEF ExecBegins, LoseStops, Ended, Group, maps, history, TreeInv
  <1>1. Types'
    BY DEF Types
  <1>2. Leaders'
    BY DEF Types, Leaders, Live, Running
  <1>3. Aimed'
    BY DEF Types, Aimed, Cloned, Execed, Record, Live, Running
  <1>4. Deferred'
    <2>1. ASSUME NEW c \in Tids, Unstarted(c)
          PROVE  Unstarted(c)'
      BY <2>1 DEF Types, Leaders, Alone, Unstarted, Record, Live, Running
    <2>2. QED
      BY <2>1 DEF Deferred, Types
  <1>5. Handlers'
    BY DEF Types, Leaders, Alone, Handlers, Cloned, Execed, Record, Recorded, Live,
           Running
  <1>6. EndsLast'
    BY DEF Types, EndsLast, Cloned, Execed, Record, Recorded, Live, Running
  <1>7. ASSUME NEW x \in Tids
        PROVE  Record(x)'
    BY DEF Types, Leaders, Aimed, Alone, Unstarted, Deferred, Cloned, Execed, Record,
           Recorded, Handling, Handlers, Live, Running
  <1>8. QED
    BY <1>1, <1>2, <1>3, <1>4, <1>5, <1>6, <1>7

LEMMA ThreadExecHolds ==
  ASSUME TreeInv, NEW t \in Tids, ThreadExec(t)
  PROVE  TreeInv'
  <1> USE CredsAssumption DEF ThreadExec, Group, maps, TreeInv
  <1>1. Types'
    BY DEF Types
  <1>2. Leaders'
    BY DEF Types, Leaders, Live, Running
  <1>3. Aimed'
    <2>1. \A q \in Tids : about[q] # t \/ q = t
      BY AboutOther DEF Live
    <2>2. QED
      BY <2>1 DEF Types, Aimed, Record, Live
  <1>4. Deferred'
    <2>1. ASSUME NEW c \in Tids, Unstarted(c)
          PROVE  Unstarted(c)'
      BY <2>1 DEF Types, Leaders, Alone, Unstarted, Record, Live, Running
    <2>2. QED
      BY <2>1 DEF Deferred, Types
  <1>5. Handlers'
    BY DEF Types, Leaders, Alone, Handlers, Cloned, Execed, Record, Recorded, Live,
           Running
  <1>6. EndsLast'
    BY DEF Types, EndsLast, Cloned, Execed, Record, Recorded, Live, Running
  <1>7. ASSUME NEW x \in Tids
        PROVE  Record(x)'
    BY DEF Types, Leaders, Aimed, Alone, Unstarted, Deferred, Cloned, Execed, Record,
           Recorded, Handling, Handlers, Live, Running
  <1>8. QED
    BY <1>1, <1>2, <1>3, <1>4, <1>5, <1>6, <1>7

LEMMA ExitHolds ==
  ASSUME TreeInv, NEW t \in Tids, ExitThread(t)
  PROVE  TreeInv'
  <1> USE CredsAssumption DEF ExitThread, LoseStops, Ended, maps, history, TreeInv
  <1>1. Types'
    BY DEF Types
  <1>2. Leaders'
    BY DEF Types, Leaders, Live, Running
  <1>3. Aimed'
    BY DEF Types, Aimed, Cloned, Execed, Record, Live, Running
  <1>4. Deferred'
    BY DEF Types, Leaders, Alone, Unstarted, Deferred, Cloned, Execed, Record, Live, Running
  <1>5. Handlers'
    BY DEF Types, Leaders, Alone, Handlers, Cloned, Execed, Record, Recorded, Live,
           Running
  <1>6. EndsLast'
    BY DEF Types, EndsLast, Cloned, Execed, Record, Recorded, Live, Running
  <1>7. ASSUME NEW x \in Tids
        PROVE  Record(x)'
    BY DEF Types, Leaders, Aimed, Alone, Unstarted, Deferred, Cloned, Execed, Record,
           Recorded, Handling, Handlers, Live, Running
  <1>8. QED
    BY <1>1, <1>2, <1>3, <1>4, <1>5, <1>6, <1>7

LEMMA KillGroupHolds ==
  ASSUME TreeInv, NEW t \in Tids, KillGroup(t)
  PROVE  TreeInv'
  <1> USE CredsAssumption DEF KillGroup, LoseStops, Ended, Group, maps, history, TreeInv
  <1>1. Types'
    BY DEF Types
  <1>2. Leaders'
    BY DEF Types, Leaders, Live, Running
  <1>3. Aimed'
    BY DEF Types, Aimed, Cloned, Execed, Record, Live, Running
  <1>4. Deferred'
    BY DEF Types, Leaders, Alone, Unstarted, Deferred, Cloned, Execed, Record, Live, Running
  <1>5. Handlers'
    BY DEF Types, Leaders, Alone, Handlers, Cloned, Execed, Record, Recorded, Live,
           Running
  <1>6. EndsLast'
    BY DEF Types, EndsLast, Cloned, Execed, Record, Recorded, Live, Running
  <1>7. ASSUME NEW x \in Tids
        PROVE  Record(x)'
    BY DEF Types, Leaders, Aimed, Alone, Unstarted, Deferred, Cloned, Execed, Record,
           Recorded, Handling, Handlers, Live, Running
  <1>8. QED
    BY <1>1, <1>2, <1>3, <1>4, <1>5, <1>6, <1>7

LEMMA CallHolds ==
  ASSUME TreeInv, NEW t \in Tids, Call(t)
  PROVE  TreeInv'
  <1> USE CredsAssumption DEF Call, maps, history, TreeInv
  <1>1. Types'
    BY DEF Types
  <1>2. Leaders'
    BY DEF Types, Leaders, Live, Running
  <1>3. Aimed'
    BY DEF Types, Aimed, Cloned, Execed, Record, Live, Running
  <1>4. Deferred'
    BY DEF Types, Leaders, Alone, Unstarted, Deferred, Cloned, Execed, Record, Live, Running
  <1>5. Handlers'
    BY DEF Types, Leaders, Alone, Handlers, Cloned, Execed, Record, Recorded, Live,
           Running
  <1>6. EndsLast'
    BY DEF Types, EndsLast, Cloned, Execed, Record, Recorded, Live, Running
  <1>7. ASSUME NEW x \in Tids
        PROVE  Record(x)'
    BY DEF Types, Leaders, Aimed, Alone, Unstarted, Deferred, Cloned, Execed, Record,
           Recorded, Handling, Handlers, Live, Running
  <1>8. QED
    BY <1>1, <1>2, <1>3, <1>4, <1>5, <1>6, <1>7

LEMMA WaitStopHolds ==
  ASSUME TreeInv, NEW t \in Tids, WaitStop(t)
  PROVE  TreeInv'
  <1> USE CredsAssumption DEF WaitStop, maps, history, TreeInv
  <1>1. Types'
    BY DEF Types
  <1>2. Leaders'
    BY DEF Types, Leaders, Live, Running
  <1>3. Aimed'
    BY DEF Types, Aimed, Cloned, Execed, Record, Live, Running
  <1>4. Deferred'
    BY DEF Types, Leaders, Alone, Unstarted, Deferred, Cloned, Execed, Record, Live, Running
  <1>5. Handlers'
    BY DEF Types, Leaders, Alone, Handlers, Cloned, Execed, Record, Recorded, Live,
           Running
  <1>6. EndsLast'
    BY DEF Types, EndsLast, Cloned, Execed, Record, Recorded, Live, Running
  <1>7. ASSUME NEW x \in Tids
        PROVE  Record(x)'
    <2>1. Cloned(x)'
      BY DEF Types, Leaders, Aimed, Alone, Unstarted, Deferred, Cloned, Execed, Record,
             Recorded, Handlers, Live, Running
    <2>2. Execed(x)'
      BY DEF Types, Leaders, Aimed, Alone, Cloned, Execed, Record, Recorded, Handling,
             Handlers, Live, Running
    <2>3. QED
      BY <2>1, <2>2 DEF Types, Leaders, Aimed, Alone, Unstarted, Deferred, Cloned, Record,
                        Recorded, Handling, Handlers, Live, Running
  <1>8. QED
    BY <1>1, <1>2, <1>3, <1>4, <1>5, <1>6, <1>7

LEMMA WaitEndHolds ==
  ASSUME TreeInv, NEW t \in Tids, WaitEnd(t)
  PROVE  TreeInv'
  <1> USE CredsAssumption DEF WaitEnd, Group, history, TreeInv
  <1>1. Types'
    BY DEF Types
  <1>2. Leaders'
    BY DEF Types, Leaders, Live, Running
  <1>3. Aimed'
    BY DEF Types, Aimed, Cloned, Execed, Record, Live, Running
  <1>4. Deferred'
    BY DEF Types, Leaders, Alone, Unstarted, Deferred, Cloned, Execed, Record, Live, Running
  <1>5. Handlers'
    BY DEF Types, Leaders, Alone, Handlers, Cloned, Execed, Record, Recorded, Live,
           Running
  <1>6. EndsLast'
    BY DEF Types, EndsLast, Cloned, Execed, Record, Recorded, Live, Running
  <1>7. ASSUME NEW x \in Tids
        PROVE  Record(x)'
    BY DEF Types, Leaders, Aimed, Alone, Unstarted, Deferred, Cloned, Execed, Record,
           Recorded, Handling, Handlers, Live, Running
  <1>8. QED
    BY <1>1, <1>2, <1>3, <1>4, <1>5, <1>6, <1>7

LEMMA TakeReadyHolds ==
  ASSUME TreeInv, TakeReady
  PROVE  TreeInv'
  <1>1. PICK c \in Tids : ready = <<c>> /\ Unstarted(c)
    BY DEF TreeInv, Deferred, TakeReady
  <1>2. current' = c /\ ready' = << >> /\ pc = "wait" /\ pc' = "newborn"
    BY <1>1 DEF TakeReady
  <1>3. /\ UNCHANGED <<tasks, history, tracked, states, pending, budget>>
    BY DEF TakeReady
  <1> USE <1>2, <1>3 DEF tasks, history, TreeInv
  <1>4. Types' /\ Leaders' /\ Aimed' /\ Handlers' /\ EndsLast'
    BY DEF Types, Leaders, Aimed, Handlers, EndsLast, Live
  <1>5. Deferred'
    BY <1>1 DEF Deferred, Unstarted, Alone, Live
  <1>6. ASSUME NEW x \in Tids
        PROVE  Record(x)'
    BY DEF Cloned, Execed, Record, Recorded, Handling, Alone, Live, Running
  <1>7. QED
    BY <1>4, <1>5, <1>6

LEMMA HandleNewbornHolds ==
  ASSUME TreeInv, HandleNewborn
  PROVE  TreeInv'
  <1>1. CASE UNCHANGED tasks
    <2> USE <1>1, CredsAssumption DEF HandleNewborn, tasks, history, TreeInv
    <2>1. Types' /\ Leaders' /\ Aimed' /\ Handlers' /\ EndsLast'
      BY DEF Types, Leaders, Aimed, Handlers, EndsLast, Live
    <2>2. Deferred'
      BY DEF Deferred, Unstarted, Alone, Live
    <2>3. ASSUME NEW x \in Tids
          PROVE  Record(x)'
      BY DEF Cloned, Execed, Record, Recorded, Handling, Alone, Live, Running
    <2>4. QED
      BY <2>1, <2>2, <2>3
  <1>2. CASE states[current] # NoCred /\ Resume(current)
    <2>1. /\ pc = "newborn" /\ pc' = "wait" /\ Unstarted(current)
          /\ UNCHANGED <<life, leader, history, tracked, states, ready, current>>
      BY <1>2 DEF HandleNewborn, Resume, TreeInv, Deferred
    <2> USE <1>2, <2>1, CredsAssumption DEF Resume, history, TreeInv
    <2>2. Types'
      BY DEF Types
    <2>3. Leaders'
      BY DEF Types, Leaders
    <2>4. Aimed'
      BY DEF Types, Aimed, Cloned, Execed, Record, Live, Running
    <2>5. Deferred' /\ Handlers' /\ EndsLast'
      BY DEF Deferred, Handlers, EndsLast
    <2>6. ASSUME NEW x \in Tids
          PROVE  Record(x)'
      BY DEF Types, Aimed, Alone, Unstarted, Cloned, Execed, Record, Recorded, Handling, Live, Running
    <2>7. QED
      BY <2>2, <2>3, <2>4, <2>5, <2>6
  <1>3. QED
    BY <1>1, <1>2 DEF HandleNewborn

LEMMA HandleCloneHolds ==
  ASSUME TreeInv, HandleClone
  PROVE  TreeInv'
  <1> USE CredsAssumption DEF HandleClone, tasks, TreeInv
  <1>1. Types'
    BY DEF Types
  <1>2. Leaders'
    BY DEF Types, Leaders, Live, Running
  <1>3. Aimed'
    BY DEF Types, Aimed, Cloned, Execed, Record, Live, Running
  <1>4. Deferred'
    <2>1. Alone(about[current]) /\ about[current] # current
      BY DEF Types, Leaders, Alone, Handlers, Cloned, Execed, Record
    <2>2. Live(about[current]) => event[about[current]] = "newborn"
      BY <2>1, AboutOther DEF Types
    <2>3. states'[about[current]] # NoCred
      BY <2>1 DEF Types, Handlers, Cloned, Execed, Record
    <2>4. Unstarted(about[current])'
      BY <2>1, <2>2, <2>3 DEF Types, Unstarted, Alone, Live
    <2>5. QED
      BY <2>4 DEF Types, Deferred
  <1>5. Handlers'
    BY DEF Types, Leaders, Alone, Handlers, Cloned, Execed, Record, Recorded, Live,
           Running
  <1>6. EndsLast'
    BY DEF Types, EndsLast, Cloned, Execed, Record, Recorded, Live, Running
  <1>7. ASSUME NEW x \in Tids
        PROVE  Record(x)'
    <2>1. Cloned(x)'
      BY DEF Types, Leaders, Aimed, Alone, Unstarted, Deferred, Cloned, Execed, Record,
             Recorded, Handlers, Live, Running
    <2>2. Execed(x)'
      BY DEF Types, Leaders, Aimed, Alone, Cloned, Execed, Record, Recorded, Handling,
             Handlers, Live, Running
    <2>3. CASE x = about[current]
      <3>1. event[current] \in {"clone", "exec"} /\ x # current
        BY <2>3 DEF Types, Handlers, Cloned, Execed, Record
      <3>2. CASE event[current] = "exec"
        <4>1. ~Live(x) /\ event[x] = "none" /\ about[x] = x
          BY <2>3, <3>2 DEF Types, Execed, Record, Live
        <4>2. QED
          BY <2>1, <2>2, <4>1 DEF Record, Live
      <3>3. CASE event[current] = "clone"
        <4>1. /\ Recorded(current) /\ Alone(x)
              /\ Live(x) => /\ event[x] = "newborn" /\ truth[x] = truth[current]
                            /\ ((x \in unheard) <=> (current \in unheard))
          BY <2>3, <3>3 DEF Types, Cloned, Record
        <4>2. Live(x) => Recorded(x)'
          BY <2>3, <3>1, <4>1 DEF Types, Recorded
        <4>3. event[x] # "none" => Live(x)
          BY DEF Record, Live
        <4>4. QED
          BY <2>1, <2>2, <4>1, <4>2, <4>3 DEF Record, Alone, Live
      <3>4. QED
        BY <3>1, <3>2, <3>3
    <2>4. CASE x # about[current]
      BY <2>1, <2>2, <2>4 DEF Types, Alone, Record, Recorded, Live
    <2>5. QED
      BY <2>3, <2>4
  <1>8. QED
    BY <1>1, <1>2, <1>3, <1>4, <1>5, <1>6, <1>7

LEMMA HandleExecHolds ==
  ASSUME TreeInv, HandleExecEvent
  PROVE  TreeInv'
  <1> USE CredsAssumption DEF HandleExecEvent, Resume, history, TreeInv
  <1>1. Types'
    BY DEF Types
  <1>2. Leaders'
    BY DEF Types, Leaders, Live, Running
  <1>3. Aimed'
    BY DEF Types, Aimed, Cloned, Execed, Record, Live, Running
  <1>4. Deferred'
    BY DEF Types, Leaders, Alone, Unstarted, Deferred, Cloned, Execed, Record, Live, Running
  <1>5. Handlers'
    BY DEF Types, Leaders, Alone, Handlers, Cloned, Execed, Record, Recorded, Live,
           Running
  <1>6. EndsLast'
    BY DEF Types, EndsLast, Cloned, Execed, Record, Recorded, Live, Running
  <1>7. ASSUME NEW x \in Tids
        PROVE  Record(x)'
    BY DEF Types, Leaders, Aimed, Alone, Unstarted, Deferred, Cloned, Execed, Record,
           Recorded, Handling, Handlers, Live, Running
  <1>8. QED
    BY <1>1, <1>2, <1>3, <1>4, <1>5, <1>6, <1>7

LEMMA HandleCallHolds ==
  ASSUME TreeInv, HandleCall
  PROVE  TreeInv'
  <1> USE CredsAssumption DEF HandleCall, tasks, TreeInv
  <1>1. Types'
    BY DEF Types
  <1>2. Leaders'
    BY DEF Types, Leaders, Live, Running
  <1>3. Aimed'
    BY DEF Types, Aimed, Cloned, Execed, Record, Live, Running
  <1>4. Deferred'
    BY DEF Types, Leaders, Alone, Unstarted, Deferred, Cloned, Execed, Record, Live, Running
  <1>5. Handlers'
    BY DEF Types, Leaders, Alone, Handlers, Cloned, Execed, Record, Recorded, Live,
           Running
  <1>6. EndsLast'
    BY DEF Types, EndsLast, Cloned, Execed, Record, Recorded, Live, Running
  <1>7. ASSUME NEW x \in Tids
        PROVE  Record(x)'
    BY DEF Types, Leaders, Aimed, Alone, Unstarted, Deferred, Cloned, Execed, Record,
           Recorded, Handling, Handlers, Live, Running
  <1>8. QED
    BY <1>1, <1>2, <1>3, <1>4, <1>5, <1>6, <1>7

LEMMA HandleGoneHolds ==
  ASSUME TreeInv, HandleGone
  PROVE  TreeInv'
  <1> USE CredsAssumption DEF HandleGone, tasks, maps, history, TreeInv
  <1>1. Types'
    BY DEF Types
  <1>2. Leaders'
    BY DEF Types, Leaders, Live, Running
  <1>3. Aimed'
    BY DEF Types, Aimed, Cloned, Execed, Record, Live, Running
  <1>4. Deferred'
    BY DEF Types, Leaders, Alone, Unstarted, Deferred, Cloned, Execed, Record, Live, Running
  <1>5. Handlers'
    BY DEF Types, Leaders, Alone, Handlers, Cloned, Execed, Record, Recorded, Live,
           Running
  <1>6. EndsLast'
    BY DEF Types, EndsLast, Cloned, Execed, Record, Recorded, Live, Running
  <1>7. ASSUME NEW x \in Tids
        PROVE  Record(x)'
    BY DEF Types, Leaders, Aimed, Alone, Unstarted, Deferred, Cloned, Execed, Record,
           Recorded, Handling, Handlers, Live, Running
  <1>8. QED
    BY <1>1, <1>2, <1>3, <1>4, <1>5, <1>6, <1>7

LEMMA ResumeStoppedHolds ==
  ASSUME TreeInv, ResumeStopped
  PROVE  TreeInv'
  <1> USE CredsAssumption DEF ResumeStopped, Resume, maps, TreeInv
  <1>1. Types'
    BY DEF Types
  <1>2. Leaders'
    BY DEF Types, Leaders, Live, Running
  <1>3. Aimed'
    BY DEF Types, Aimed, Cloned, Execed, Record, Live, Running
  <1>4. Deferred'
    BY DEF Types, Leaders, Alone, Unstarted, Deferred, Handlers, Cloned, Execed, Record, Live, Running
  <1>5. Handlers'
    BY DEF Types, Leaders, Alone, Handlers, Cloned, Execed, Record, Recorded, Live,
           Running
  <1>6. EndsLast'
    BY DEF Types, EndsLast, Cloned, Execed, Record, Recorded, Live, Running
  <1>7. ASSUME NEW x \in Tids
        PROVE  Record(x)'
    BY DEF Types, Leaders, Aimed, Alone, Unstarted, Deferred, Cloned, Execed, Record,
           Recorded, Handling, Handlers, Live, Running
  <1>8. QED
    BY <1>1, <1>2, <1>3, <1>4, <1>5, <1>6, <1>7

LEMMA DoneHolds ==
  ASSUME TreeInv, Done
  PROVE  TreeInv'
  <1> USE CredsAssumption DEF Done, tasks, maps, history, TreeInv
  <1>1. Types'
    BY DEF Types
  <1>2. Leaders'
    BY DEF Types, Leaders, Live, Running
  <1>3. Aimed'
    BY DEF Types, Aimed, Cloned, Execed, Record, Live, Running
  <1>4. Deferred'
    BY DEF Types, Leaders, Alone, Unstarted, Deferred, Cloned, Execed, Record, Live, Running
  <1>5. Handlers'
    BY DEF Types, Leaders, Alone, Handlers, Cloned, Execed, Record, Recorded, Live,
           Running
  <1>6. EndsLast'
    BY DEF Types, EndsLast, Cloned, Execed, Record, Recorded, Handling, Live, Running
  <1>7. ASSUME NEW x \in Tids
        PROVE  Record(x)'
    BY DEF Types, Leaders, Aimed, Alone, Unstarted, Deferred, Cloned, Execed, Record,
           Recorded, Handling, Handlers, Live, Running
  <1>8. QED
    BY <1>1, <1>2, <1>3, <1>4, <1>5, <1>6, <1>7

-----------------------------------------------------------------------------
(* Theorems                                                                *)

LEMMA TreeNextHolds ==
  ASSUME EarlyReuse = FALSE
  PROVE  TreeInv /\ [TreeNext]_treeVars => TreeInv'
  <1>1. ASSUME TreeInv, Track
        PROVE  TreeInv'
    BY <1>1, TakeReadyHolds, HandleNewbornHolds, HandleCloneHolds, HandleExecHolds,
       HandleCallHolds, HandleGoneHolds, ResumeStoppedHolds, DoneHolds DEF Track
  <1>2. ASSUME TreeInv, NEW t \in Tids, Report(t)
        PROVE  TreeInv'
    BY <1>2, WaitStopHolds, WaitEndHolds DEF Report
  <1>3. ASSUME TreeInv, NEW t \in Tids, Tracee(t)
        PROVE  TreeInv'
    BY <1>3, CloneHolds, ExecBeginsHolds, ThreadExecHolds, ExitHolds, KillGroupHolds,
       CallHolds DEF Tracee
  <1>4. ASSUME TreeInv, UNCHANGED treeVars
        PROVE  TreeInv'
    <2> USE <1>4 DEF treeVars, tasks, history, maps, TreeInv
    <2>1. Types' /\ Leaders' /\ Aimed' /\ Handlers' /\ EndsLast'
      BY DEF Types, Leaders, Aimed, Alone, Handlers, EndsLast, Live
    <2>2. Deferred'
      BY DEF Deferred, Unstarted, Alone, Live
    <2>3. ASSUME NEW x \in Tids
          PROVE  Record(x)'
      BY DEF Cloned, Execed, Record, Recorded, Handling, Alone, Live, Running
    <2>4. QED
      BY <2>1, <2>2, <2>3
  <1>5. QED
    BY <1>1, <1>2, <1>3, <1>4 DEF TreeNext

LEMMA TreeInvHolds ==
  ASSUME EarlyReuse = FALSE
  PROVE  TreeSpec => []TreeInv
  BY TreeInitHolds, TreeNextHolds, PTL DEF TreeSpec

(* A tracee that runs has the record its history gives it, in whatever     *)
(* order the stops of parents and children, of threads that exec and of    *)
(* those that are killed are reported, and whatever becomes of a stop      *)
(* before its handler acts (HandleNewborn, HandleClone, HandleExecEvent,   *)
(* HandleCall).  Excepted are tracees whose exec was resumed by another    *)
(* stop's handler (ResumeStopped), with their clones, and what may inherit *)
(* a record that an earlier tracee left: the kernel is assumed not to use  *)
(* a thread id again while the tracer knows its last user.                 *)
THEOREM RunningTraceesInherit ==
  ASSUME EarlyReuse = FALSE
  PROVE  TreeSpec => []ChildInherits
  <1>1. TreeInv => ChildInherits
    BY DEF TreeInv, Cloned, Execed, Record, Recorded, ChildInherits, Live, Running
  <1>2. QED
    BY <1>1, TreeInvHolds, PTL

(* The tracer does not end, and so kill its tracees, while one of them has *)
(* run and lives: every such tracee, or the thread whose place it took, is *)
(* tracked (HandleClone, HandleExecEvent, Done).                           *)
THEOREM TracerStaysForTracees ==
  ASSUME EarlyReuse = FALSE
  PROVE  TreeSpec => []TracerOutlivesTracees
  <1>1. TreeInv => TracerOutlivesTracees
    BY DEF TreeInv, EndsLast, TracerOutlivesTracees
  <1>2. QED
    BY <1>1, TreeInvHolds, PTL
=============================================================================
