------------------------ MODULE TerminalTableProofs ------------------------
(***************************************************************************)
(* Theorems about TerminalTable, for any tracers, inode numbers, table     *)
(* size, owners and bounds.                                                *)
(*                                                                         *)
(* Kept(e, s, i, f, p) says that entry e of slot s stands for inode number *)
(* i: for as long as e's keeper runs, the keeper has the slot's pin on the *)
(* node, with the descriptor the entry names.  It holds of every valid     *)
(* entry, and of the entry a writer has made invalid to change its owner.  *)
(* The files f, pins p and entries T are parameters, for the table between *)
(* Unpin and what Enter does next.                                         *)
(***************************************************************************)
EXTENDS TerminalTable, TLAPS

Owners    == Users \cup {Default}
File      == [ino : Inodes \cup {0}, born : Nat]
EntryType == [ino : Inodes \cup {0}, born : Nat, uid : Owners, gid : Owners,
              keeper : Tracers \cup {0}, start : Nat, fd : Fds \cup {NoFd}]
OwnerType == [uid : Owners, gid : Owners, born : Nat]
Recording == {"record", "recording", "recorded"}
Replacing == {"replace", "replacing", "replaced"}
CallType  == [pc : {"idle", "ask", "checked", "change"} \cup Recording \cup Replacing,
              ino : Inodes \cup {0}, born : Nat, fd : Fds \cup {NoFd}, slot : Slot,
              live : BOOLEAN, new : Owners, expected : OwnerType]
TableType == [Slot -> EntryType]
FilesType == [Tracers -> [Fds -> File]]
PinsType  == [Tracers -> [Slot -> Fds \cup {NoFd}]]

Types ==
  /\ node \in [Inodes -> Nat] /\ made \in Nat
  /\ table \in TableType /\ fds \in FilesType /\ pins \in PinsType
  /\ start \in [Tracers -> Nat] /\ call \in [Tracers -> CallType]
  /\ answer \in [Tracers -> File]

(* A pin is an open file, of one slot.                                     *)
Pinned(t, f, p) ==
  \A s \in Slot : p[t][s] # NoFd =>
    /\ f[t][p[t][s]] # NoFile
    /\ \A q \in Slot : p[t][q] = p[t][s] => q = s

Kept(e, s, i, f, p) ==
  /\ i \in Inodes /\ e.keeper \in Tracers /\ e.fd \in Fds
  /\ e.start <= start[e.keeper]
  /\ e.start = start[e.keeper] =>
       p[e.keeper][s] = e.fd /\ f[e.keeper][e.fd] = [ino |-> i, born |-> e.born]

Only(T, s, i) == \A q \in Slot \ {s} : T[q].ino # i

Entry(T, s, f, p) ==
  T[s].ino # 0 =>
    /\ T[s].uid = T[s].gid /\ Kept(T[s], s, T[s].ino, f, p)
    /\ Only(T, s, T[s].ino)

(* A call has its file open, with a descriptor that is no pin.             *)
Holds(t, f) ==
  LET c == call[t] IN
  /\ c.ino \in Inodes /\ c.fd \in Fds /\ f[t][c.fd] = [ino |-> c.ino, born |-> c.born]
Unpinned(t, p) == \A s \in Slot : p[t][s] # call[t].fd

Given(t) == IF call[t].pc \in Replacing THEN call[t].new ELSE Default

Call(t) ==
  LET c == call[t]
      e == table[c.slot]
  IN
  /\ c.pc = "checked" => c.ino \in Inodes
  /\ c.pc \in {"ask", "change"} => Holds(t, fds) /\ Unpinned(t, pins)
  /\ c.pc \in Recording \cup Replacing =>
       lock = {t} /\ Holds(t, fds) /\ Only(table, c.slot, c.ino)
  /\ c.pc \in Recording => ~c.live /\ pins[t][c.slot] = c.fd
  /\ c.pc \in Replacing =>
       /\ c.live /\ Unpinned(t, pins) /\ Kept(e, c.slot, c.ino, fds, pins)
       /\ e.born = c.expected.born
  /\ c.pc \in {"recording", "replacing", "recorded", "replaced"} =>
       e.ino = 0 /\ e.uid = Given(t)
  /\ c.pc \in {"recorded", "replaced"} => e.gid = Given(t)
  /\ c.pc = "recorded" => Kept(e, c.slot, c.ino, fds, pins)

AnswerIsOfNode(t) ==
  answer[t] # NoFile =>
    /\ answer[t].ino \in Inodes /\ answer[t].born # 0
    /\ answer[t].born = node[answer[t].ino]

TableInv ==
  /\ Types
  /\ \A s \in Slot : Entry(table, s, fds, pins)
  /\ \A t \in Tracers : Pinned(t, fds, pins) /\ Call(t) /\ AnswerIsOfNode(t)

-----------------------------------------------------------------------------
LEMMA SlotIsOne == 1 \in Slot /\ NoFd \notin Fds /\ 0 \notin Inodes
  BY TerminalBoundsAssumption DEF Slot, Fds, NoFd

LEMMA NothingTypes ==
  /\ NoFile \in File /\ NoEntry \in EntryType /\ NoCall \in CallType
  /\ NoCall.pc = "idle"
  BY SlotIsOne DEF NoFile, File, NoEntry, EntryType, NoCall, CallType, NoOwner, OwnerType,
     Owners

LEMMA InitHolds == Init => TableInv
  <1> SUFFICES ASSUME Init PROVE TableInv
    OBVIOUS
  <1>1. Types
    BY NothingTypes DEF Init, Types, TableType, FilesType, PinsType
  <1>2. ASSUME NEW s \in Slot
        PROVE  Entry(table, s, fds, pins)
    BY DEF Init, Entry, NoEntry
  <1>3. ASSUME NEW t \in Tracers
        PROVE  Pinned(t, fds, pins) /\ Call(t) /\ AnswerIsOfNode(t)
    BY NothingTypes DEF Init, Pinned, Call, AnswerIsOfNode, Recording, Replacing
  <1>4. QED
    BY <1>1, <1>2, <1>3 DEF TableInv

-----------------------------------------------------------------------------
(* What a step leaves alone                                                *)

(* An entry stays kept while its keeper's pin does, or once it is gone.    *)
LEMMA KeptStays ==
  ASSUME Types, NEW e, NEW s \in Slot, NEW i, Kept(e, s, i, fds, pins), e.start \in Nat,
         start' \in [Tracers -> Nat],
         \/ start[e.keeper] < start'[e.keeper]
         \/ /\ start'[e.keeper] = start[e.keeper]
            /\ pins'[e.keeper][s] = pins[e.keeper][s]
            /\ \/ fds'[e.keeper][e.fd] = fds[e.keeper][e.fd]
               \/ e.start # start[e.keeper]
  PROVE  Kept(e, s, i, fds, pins)'
  BY DEF Kept, Types

(* Of a tracer that is not the one that steps, when that one has the lock  *)
(* or nobody has it.                                                       *)
LEMMA OtherCall ==
  ASSUME TableInv, NEW t \in Tracers, NEW r \in Tracers \ {t}, lock \in {{}, {t}},
         call'[r] = call[r], fds'[r] = fds[r], pins'[r] = pins[r]
  PROVE  Call(r)'
  <1>1. Call(r) /\ call[r].pc \notin Recording \cup Replacing
    BY DEF TableInv, Call
  <1>2. QED
    BY <1>1 DEF Call, Holds, Unpinned, Recording, Replacing

LEMMA OtherPinned ==
  ASSUME TableInv, NEW r \in Tracers, fds'[r] = fds[r], pins'[r] = pins[r]
  PROVE  Pinned(r, fds, pins)'
  BY DEF TableInv, Pinned

LEMMA AnswersStay ==
  ASSUME TableInv, NEW r \in Tracers, answer'[r] \in {answer[r], NoFile}, node' = node
  PROVE  AnswerIsOfNode(r)'
  BY DEF TableInv, AnswerIsOfNode, NoFile

-----------------------------------------------------------------------------
(* Steps that leave the table alone                                        *)

(* A descriptor that is free is nobody's pin and no call's.                *)
LEMMA FilesGrow ==
  ASSUME TableInv, UNCHANGED <<table, pins, start>>,
         \A r \in Tracers : \A n \in Fds : fds[r][n] # NoFile => fds'[r][n] = fds[r][n]
  PROVE  /\ \A s \in Slot : Entry(table, s, fds, pins)'
         /\ \A r \in Tracers : Pinned(r, fds, pins)'
         /\ \A s \in Slot : \A i :
              Kept(table[s], s, i, fds, pins) => Kept(table[s], s, i, fds, pins)'
  <1>1. ASSUME NEW s \in Slot, NEW i, Kept(table[s], s, i, fds, pins)
        PROVE  Kept(table[s], s, i, fds, pins)'
    <2>1. [ino |-> i, born |-> table[s].born] # NoFile
      BY <1>1, SlotIsOne DEF Kept, NoFile
    <2>2. QED
      BY <1>1, <2>1 DEF Kept
  <1>2. ASSUME NEW s \in Slot
        PROVE  Entry(table, s, fds, pins)'
    BY <1>1 DEF TableInv, Entry, Only
  <1>3. ASSUME NEW r \in Tracers
        PROVE  Pinned(r, fds, pins)'
    BY DEF TableInv, Types, PinsType, Pinned
  <1>4. QED
    BY <1>1, <1>2, <1>3

LEMMA CallsGrow ==
  ASSUME TableInv, UNCHANGED <<table, pins, start, lock>>,
         \A r \in Tracers : \A n \in Fds : fds[r][n] # NoFile => fds'[r][n] = fds[r][n],
         NEW r \in Tracers, call'[r] = call[r]
  PROVE  Call(r)'
  <1>1. Call(r) /\ (call[r].pc \in Recording \cup Replacing => call[r].slot \in Slot)
    BY DEF TableInv, Types, CallType
  <1>2. Holds(r, fds) => Holds(r, fds)'
    BY SlotIsOne DEF Holds, NoFile
  <1>3. Unpinned(r, pins) => Unpinned(r, pins)'
    BY DEF Unpinned
  <1>4. call[r].pc \in Recording \cup Replacing =>
          (Kept(table[call[r].slot], call[r].slot, call[r].ino, fds, pins)
             => Kept(table[call[r].slot], call[r].slot, call[r].ino, fds, pins)')
    BY <1>1, FilesGrow
  <1>5. QED
    BY <1>1, <1>2, <1>3, <1>4 DEF Call, Only, Given, Recording, Replacing

LEMMA LookupHolds ==
  ASSUME TableInv, NEW t \in Tracers, NEW i \in Inodes, Lookup(t, i)
  PROVE  TableInv'
  <1>a. /\ UNCHANGED <<node, table, fds, pins, start, call, lock, made>> /\ node[i] # 0
        /\ \/ answer' = [answer EXCEPT ![t] = NoFile]
           \/ \E s \in Slot :
                /\ table[s].ino = i /\ Live(table[s], fds)
                /\ answer' = [answer EXCEPT ![t] = [ino |-> i, born |-> table[s].born]]
    BY DEF Lookup
  <1>1. ASSUME NEW s \in Slot, table[s].ino = i, Live(table[s], fds)
        PROVE  table[s].born = node[i] /\ [ino |-> i, born |-> table[s].born] \in File
    <2>1. Kept(table[s], s, i, fds, pins) /\ table[s].start = start[table[s].keeper]
      BY <1>1, SlotIsOne DEF TableInv, Entry, Live
    <2>2. fds[table[s].keeper][table[s].fd] = [ino |-> i, born |-> table[s].born]
      BY <2>1 DEF Kept
    <2>3. Linked([ino |-> i, born |-> table[s].born])
      BY <1>1, <2>2 DEF Live
    <2>4. table[s].born = node[i]
      BY <2>3 DEF Linked
    <2>5. QED
      BY <2>4 DEF TableInv, Types, File
  <1>2. /\ \A r \in Tracers \ {t} : answer'[r] = answer[r]
        /\ answer' \in [Tracers -> File]
        /\ answer'[t] # NoFile =>
             answer'[t].ino = i /\ answer'[t].born = node[i]
    <2>1. CASE answer' = [answer EXCEPT ![t] = NoFile]
      BY <2>1, NothingTypes DEF TableInv, Types
    <2>2. ASSUME NEW s \in Slot, table[s].ino = i, Live(table[s], fds),
                 answer' = [answer EXCEPT ![t] = [ino |-> i, born |-> table[s].born]]
          PROVE  /\ \A r \in Tracers \ {t} : answer'[r] = answer[r]
                 /\ answer' \in [Tracers -> File]
                 /\ answer'[t].ino = i /\ answer'[t].born = node[i]
      <3>1. table[s].born = node[i] /\ [ino |-> i, born |-> table[s].born] \in File
        BY <1>1, <2>2
      <3>2. QED
        BY <2>2, <3>1 DEF TableInv, Types
    <2>3. QED
      BY <1>a, <2>1, <2>2
  <1>3. Types'
    BY <1>a, <1>2 DEF TableInv, Types
  <1>4. ASSUME NEW r \in Tracers
        PROVE  AnswerIsOfNode(r)'
    <2>1. CASE r = t
      BY <1>a, <1>2, <2>1 DEF AnswerIsOfNode
    <2>2. CASE r # t
      BY <1>a, <1>2, <2>2, AnswersStay
    <2>3. QED
      BY <2>1, <2>2
  <1>5. \A n, r : fds[r][n] # NoFile => fds'[r][n] = fds[r][n]
    BY <1>a
  <1>6. QED
    BY <1>a, <1>3, <1>4, <1>5, FilesGrow, CallsGrow DEF TableInv

(* Open: what Begin and Change do with a node that is there.               *)
LEMMA Opened ==
  ASSUME TableInv, NEW t \in Tracers, NEW i \in Inodes, NEW new \in Owners,
         NEW expected \in OwnerType, NEW pc \in {"ask", "change"},
         Open(t, i, new, expected, pc), UNCHANGED <<table, pins, start, lock>>
  PROVE  /\ fds' \in FilesType /\ call' \in [Tracers -> CallType]
         /\ \A s \in Slot : Entry(table, s, fds, pins)'
         /\ \A r \in Tracers : Pinned(r, fds, pins)' /\ Call(r)'
  <1>1. PICK fd \in Fds :
          /\ fds[t][fd] = NoFile
          /\ fds' = [fds EXCEPT ![t][fd] = [ino |-> i, born |-> node[i]]]
          /\ call' = [call EXCEPT ![t] =
               [pc |-> pc, ino |-> i, born |-> node[i], fd |-> fd, slot |-> 1,
                live |-> FALSE, new |-> new, expected |-> expected]]
    BY DEF Open, First
  <1> DEFINE c == [pc |-> pc, ino |-> i, born |-> node[i], fd |-> fd, slot |-> 1,
                   live |-> FALSE, new |-> new, expected |-> expected]
             f == [ino |-> i, born |-> node[i]]
  <1>2. c \in CallType /\ f \in File
    BY SlotIsOne DEF CallType, File, TableInv, Types
  <1>3. /\ c.pc \in {"ask", "change"} /\ c.fd = fd /\ c.ino = i /\ c.born = node[i]
        /\ f = [ino |-> c.ino, born |-> c.born]
    OBVIOUS
  <1>4. call' = [call EXCEPT ![t] = c] /\ fds' = [fds EXCEPT ![t][fd] = f]
    BY <1>1
  <1> HIDE DEF c, f
  <1>5. /\ fds' \in FilesType /\ call' \in [Tracers -> CallType]
        /\ call'[t] = c /\ fds'[t][fd] = f
        /\ \A r \in Tracers \ {t} : call'[r] = call[r]
    BY <1>2, <1>4 DEF TableInv, Types, FilesType
  <1>6. \A r \in Tracers : \A n \in Fds : fds[r][n] # NoFile => fds'[r][n] = fds[r][n]
    BY <1>1, <1>4 DEF TableInv, Types, FilesType
  <1>7. Call(t)'
    <2>1. Holds(t, fds)'
      BY <1>3, <1>5 DEF Holds
    <2>2. Unpinned(t, pins)'
      BY <1>1, <1>3, <1>5, SlotIsOne DEF Unpinned, TableInv, Pinned
    <2>3. QED
      BY <1>3, <1>5, <2>1, <2>2 DEF Call, Recording, Replacing
  <1>8. QED
    BY <1>5, <1>6, <1>7, FilesGrow, CallsGrow

LEMMA BeginHolds ==
  ASSUME TableInv, NEW t \in Tracers, NEW i \in Inodes, NEW new \in Owners, Begin(t, i, new)
  PROVE  TableInv'
  <1>1. /\ Open(t, i, new, NoOwner, "ask") /\ answer' = [answer EXCEPT ![t] = NoFile]
        /\ UNCHANGED <<node, table, pins, start, lock, made>>
    BY DEF Begin
  <1>2. NoOwner \in OwnerType
    BY DEF NoOwner, OwnerType, Owners
  <1>3. /\ answer' \in [Tracers -> File]
        /\ \A r \in Tracers : answer'[r] \in {answer[r], NoFile}
    BY <1>1, NothingTypes DEF TableInv, Types
  <1>4. /\ fds' \in FilesType /\ call' \in [Tracers -> CallType]
        /\ \A s \in Slot : Entry(table, s, fds, pins)'
        /\ \A r \in Tracers : Pinned(r, fds, pins)' /\ Call(r)'
    BY <1>1, <1>2, Opened
  <1>5. Types'
    BY <1>1, <1>3, <1>4 DEF TableInv, Types
  <1>6. QED
    BY <1>1, <1>3, <1>4, <1>5, AnswersStay DEF TableInv

(* A call without a file and without the lock.                             *)
LEMMA QuietCall ==
  ASSUME NEW t, call'[t].pc \in {"idle", "checked"}, call'[t].pc = "checked" => call'[t].ino \in Inodes
  PROVE  Call(t)'
  BY DEF Call, Recording, Replacing

LEMMA ChangeHolds ==
  ASSUME TableInv, NEW t \in Tracers, Change(t)
  PROVE  TableInv'
  <1>1. /\ call[t].pc = "checked" /\ call[t].ino \in Inodes /\ call[t] \in CallType
        /\ UNCHANGED <<node, table, pins, start, lock, answer, made>>
    BY DEF Change, At, TableInv, Call, Types
  <1>2. \A r \in Tracers : AnswerIsOfNode(r)'
    BY <1>1, AnswersStay
  <1>3. /\ fds' \in FilesType /\ call' \in [Tracers -> CallType]
        /\ \A s \in Slot : Entry(table, s, fds, pins)'
        /\ \A r \in Tracers : Pinned(r, fds, pins)' /\ Call(r)'
    <2>1. CASE call' = [call EXCEPT ![t] = NoCall] /\ UNCHANGED fds
      <3>1. /\ call' \in [Tracers -> CallType] /\ call'[t] = NoCall
            /\ \A r \in Tracers \ {t} : call'[r] = call[r]
        BY <2>1, NothingTypes DEF TableInv, Types
      <3>2. \A n, r : fds[r][n] # NoFile => fds'[r][n] = fds[r][n]
        BY <2>1
      <3>3. Call(t)'
        BY <3>1, NothingTypes, QuietCall
      <3>4. QED
        BY <1>1, <2>1, <3>1, <3>2, <3>3, FilesGrow, CallsGrow DEF TableInv, Types
    <2>2. CASE Open(t, call[t].ino, call[t].new, call[t].expected, "change")
      BY <1>1, <2>2, Opened DEF CallType
    <2>3. QED
      BY <2>1, <2>2 DEF Change
  <1>4. Types'
    BY <1>1, <1>3 DEF TableInv, Types
  <1>5. QED
    BY <1>2, <1>3, <1>4 DEF TableInv

-----------------------------------------------------------------------------
(* Nodes and processes                                                     *)

LEMMA UnlinkHolds ==
  ASSUME TableInv, NEW i \in Inodes, Unlink(i)
  PROVE  TableInv'
  <1>1. /\ node' = [node EXCEPT ![i] = 0] /\ answer' = [t \in Tracers |-> NoFile]
        /\ UNCHANGED <<table, fds, pins, start, call, lock, made>>
    BY DEF Unlink
  <1>2. Types'
    BY <1>1, NothingTypes DEF TableInv, Types
  <1>3. \A n, r : fds[r][n] # NoFile => fds'[r][n] = fds[r][n]
    BY <1>1
  <1>4. QED
    BY <1>1, <1>2, <1>3, FilesGrow, CallsGrow DEF TableInv, AnswerIsOfNode

LEMMA CreateHolds ==
  ASSUME TableInv, NEW i \in Inodes, Create(i)
  PROVE  TableInv'
  <1>1. /\ node[i] = 0 /\ node' = [node EXCEPT ![i] = made + 1] /\ made' = made + 1
        /\ UNCHANGED <<table, fds, pins, start, call, lock, answer>>
    BY DEF Create
  <1>2. Types'
    BY <1>1 DEF TableInv, Types
  <1>3. \A n, r : fds[r][n] # NoFile => fds'[r][n] = fds[r][n]
    BY <1>1
  <1>4. ASSUME NEW r \in Tracers
        PROVE  AnswerIsOfNode(r)'
    <2>1. answer[r] # NoFile => answer[r].ino \in Inodes \ {i}
      BY <1>1 DEF TableInv, AnswerIsOfNode
    <2>2. \A j \in Inodes \ {i} : node'[j] = node[j]
      BY <1>1 DEF TableInv, Types
    <2>3. QED
      BY <1>1, <2>1, <2>2 DEF TableInv, AnswerIsOfNode
  <1>5. QED
    BY <1>1, <1>2, <1>3, <1>4, FilesGrow, CallsGrow DEF TableInv

(* What its keeper's end leaves of an entry is its start time, which no    *)
(* later process has.                                                      *)
LEMMA EndHolds ==
  ASSUME TableInv, NEW t \in Tracers, End(t)
  PROVE  TableInv'
  <1>1. /\ start' = [start EXCEPT ![t] = @ + 1]
        /\ fds' = [fds EXCEPT ![t] = [n \in Fds |-> NoFile]]
        /\ pins' = [pins EXCEPT ![t] = [s \in Slot |-> NoFd]]
        /\ call' = [call EXCEPT ![t] = NoCall]
        /\ answer' = [answer EXCEPT ![t] = NoFile]
        /\ lock' = lock \ {t}
        /\ UNCHANGED <<node, table, made>>
    BY DEF End
  <1>2. Types'
    BY <1>1, NothingTypes DEF TableInv, Types, FilesType, PinsType
  <1>3. /\ start'[t] = start[t] + 1 /\ start[t] \in Nat /\ start' \in [Tracers -> Nat]
        /\ \A r \in Tracers \ {t} : /\ start'[r] = start[r] /\ fds'[r] = fds[r]
                                    /\ pins'[r] = pins[r] /\ call'[r] = call[r]
        /\ \A r \in Tracers : answer'[r] \in {answer[r], NoFile}
    BY <1>1 DEF TableInv, Types, FilesType, PinsType
  <1>4. ASSUME NEW s \in Slot, NEW i, Kept(table[s], s, i, fds, pins)
        PROVE  Kept(table[s], s, i, fds, pins)'
    <2>1. table[s].keeper \in Tracers /\ table[s].start \in Nat
      BY <1>4 DEF Kept, TableInv, Types, TableType, EntryType
    <2>2. table' = table /\ Types
      BY <1>1 DEF TableInv
    <2>3. start[table[s].keeper] < start'[table[s].keeper]
          \/ /\ start'[table[s].keeper] = start[table[s].keeper]
             /\ pins'[table[s].keeper][s] = pins[table[s].keeper][s]
             /\ fds'[table[s].keeper][table[s].fd] = fds[table[s].keeper][table[s].fd]
      BY <1>3, <2>1
    <2>4. QED
      BY <1>3, <1>4, <2>1, <2>2, <2>3 DEF Kept
  <1>5. ASSUME NEW s \in Slot
        PROVE  Entry(table, s, fds, pins)'
    BY <1>1, <1>4 DEF TableInv, Entry, Only
  <1>6. ASSUME NEW r \in Tracers
        PROVE  Pinned(r, fds, pins)' /\ Call(r)'
    <2>1. CASE r = t
      <3>1. pins'[t] = [s \in Slot |-> NoFd] /\ call'[t] = NoCall
        BY <1>1 DEF TableInv, Types, PinsType
      <3>2. Pinned(t, fds, pins)'
        BY <3>1 DEF Pinned
      <3>3. Call(t)'
        BY <3>1, NothingTypes, QuietCall
      <3>4. QED
        BY <2>1, <3>2, <3>3
    <2>2. CASE r # t
      <3>1. Pinned(r, fds, pins)'
        BY <1>3, <2>2, OtherPinned
      <3>2. Call(r) /\ (call[r].pc \in Recording \cup Replacing => call[r].slot \in Slot)
        BY DEF TableInv, Types, CallType
      <3>3. /\ call'[r] = call[r] /\ fds'[r] = fds[r] /\ pins'[r] = pins[r] /\ table' = table
            /\ lock = {r} => lock' = {r}
        BY <1>1, <1>3, <2>2
      <3>4. call[r].pc \in Recording \cup Replacing =>
              (Kept(table[call[r].slot], call[r].slot, call[r].ino, fds, pins)
                 => Kept(table[call[r].slot], call[r].slot, call[r].ino, fds, pins)')
        BY <1>4, <3>2, <3>3
      <3>5. Call(r)'
        BY <3>2, <3>3, <3>4 DEF Call, Holds, Unpinned, Only, Given, Recording, Replacing
      <3>6. QED
        BY <3>1, <3>5
    <2>3. QED
      BY <2>1, <2>2
  <1>7. QED
    BY <1>1, <1>2, <1>3, <1>5, <1>6, AnswersStay DEF TableInv

-----------------------------------------------------------------------------
(* The writer's steps                                                      *)

(* A writer's slot changes, and no other; no descriptor or pin does, save  *)
(* that the last step may close one that is no pin.                        *)
LEMMA WriterStep ==
  ASSUME TableInv, NEW t \in Tracers, lock = {t}, NEW s \in Slot, NEW e \in EntryType,
         table' = [table EXCEPT ![s] = e], UNCHANGED <<node, pins, start, answer, made>>,
         lock' \in {{}, {t}},
         fds' \in FilesType, \A r \in Tracers \ {t} : fds'[r] = fds[r],
         \A n \in Fds : (\E q \in Slot : pins[t][q] = n) => fds'[t][n] = fds[t][n],
         NEW c \in CallType, call' = [call EXCEPT ![t] = c],
         Entry(table, s, fds, pins)',
         \A q \in Slot \ {s} : table[q].ino # 0 => table[q].ino # e.ino,
         Call(t)'
  PROVE  TableInv'
  <1>1. /\ table' \in TableType /\ table'[s] = e
        /\ \A q \in Slot \ {s} : table'[q] = table[q]
        /\ call' \in [Tracers -> CallType] /\ \A r \in Tracers \ {t} : call'[r] = call[r]
    BY DEF TableInv, Types, TableType
  <1>2. Types'
    BY <1>1 DEF TableInv, Types
  <1>3. ASSUME NEW q \in Slot
        PROVE  Entry(table, q, fds, pins)'
    <2>1. CASE q = s
      BY <2>1
    <2>2. CASE q # s
      <3>1. SUFFICES ASSUME table[q].ino # 0
                     PROVE  Entry(table, q, fds, pins)'
        BY <1>1, <2>2 DEF Entry
      <3>2. /\ table[q].uid = table[q].gid /\ Kept(table[q], q, table[q].ino, fds, pins)
            /\ Only(table, q, table[q].ino)
        BY <3>1 DEF TableInv, Entry
      <3>3. Kept(table[q], q, table[q].ino, fds, pins)'
        BY <1>1, <2>2, <3>2 DEF Kept
      <3>4. Only(table, q, table[q].ino)'
        BY <1>1, <2>2, <3>1, <3>2 DEF Only
      <3>5. QED
        BY <1>1, <2>2, <3>2, <3>3, <3>4 DEF Entry
    <2>3. QED
      BY <2>1, <2>2
  <1>4. ASSUME NEW r \in Tracers
        PROVE  Pinned(r, fds, pins)' /\ Call(r)'
    <2>1. CASE r = t
      <3>1. Pinned(t, fds, pins)'
        BY DEF TableInv, Types, PinsType, Pinned
      <3>2. QED
        BY <2>1, <3>1
    <2>2. CASE r # t
      BY <1>1, <2>2, OtherPinned, OtherCall
    <2>3. QED
      BY <2>1, <2>2
  <1>5. QED
    BY <1>2, <1>3, <1>4, AnswersStay DEF TableInv

LEMMA InvalidateHolds ==
  ASSUME TableInv, NEW t \in Tracers, Invalidate(t)
  PROVE  TableInv'
  <1>s. PICK s : s = call[t].slot
    OBVIOUS
  <1>e. PICK e : e = [[table[s] EXCEPT !.ino = 0] EXCEPT !.uid = Owner(t)]
    OBVIOUS
  <1>p. PICK to : to = IF At(t, "record") THEN "recording" ELSE "replacing"
    OBVIOUS
  <1>c. PICK c : c = [call[t] EXCEPT !.pc = to]
    OBVIOUS
  <1>1. /\ lock = {t} /\ call[t].pc \in {"record", "replace"}
        /\ call' = [call EXCEPT ![t] = c] /\ table' = [table EXCEPT ![s] = e]
        /\ UNCHANGED <<node, fds, pins, start, lock, answer, made>>
    BY <1>s, <1>e, <1>p, <1>c DEF Invalidate, Writing, TableInv, Types, CallType, TableType
  <1>2. /\ s \in Slot /\ call[t] \in CallType /\ table[s] \in EntryType
        /\ Owner(t) \in Owners /\ Call(t) /\ table \in TableType
    BY <1>s DEF TableInv, Types, CallType, TableType, Owner, Owners
  <1>3. /\ e \in EntryType /\ e.ino = 0 /\ e.uid = Owner(t) /\ e.born = table[s].born
        /\ e.keeper = table[s].keeper /\ e.start = table[s].start /\ e.fd = table[s].fd
    BY <1>e, <1>2 DEF EntryType
  <1>4. /\ c \in CallType /\ c.pc = to /\ c.ino = call[t].ino /\ c.born = call[t].born
        /\ c.fd = call[t].fd /\ c.slot = s /\ c.live = call[t].live
        /\ c.new = call[t].new /\ c.expected = call[t].expected
    BY <1>s, <1>p, <1>c, <1>2 DEF CallType, Recording, Replacing
  <1>5. \/ to = "recording" /\ call[t].pc = "record" /\ Owner(t) = Default
        \/ to = "replacing" /\ call[t].pc = "replace" /\ Owner(t) = call[t].new
    <2>1. CASE call[t].pc = "record"
      <3>1. Owner(t) = Default
        BY <2>1 DEF Owner
      <3>2. to = "recording"
        BY <1>p, <2>1 DEF At
      <3>3. QED
        BY <2>1, <3>1, <3>2
    <2>2. CASE call[t].pc = "replace"
      BY <1>p, <2>2 DEF At, Owner
    <2>3. QED
      BY <1>1, <2>1, <2>2
  <1>6. /\ table'[s] = e /\ call'[t] = c
        /\ \A q \in Slot \ {s} : table'[q] = table[q]
    BY <1>1, <1>2 DEF TableInv, Types, TableType
  <1>7. Entry(table, s, fds, pins)'
    BY <1>3, <1>6 DEF Entry
  <1>8. Call(t)'
    <2>1. Holds(t, fds)' /\ Only(table, s, c.ino)'
      BY <1>s, <1>1, <1>2, <1>4, <1>6 DEF Call, Holds, Only, Recording, Replacing
    <2>2. CASE to = "recording"
      BY <1>s, <1>1, <1>2, <1>3, <1>4, <1>5, <1>6, <2>1, <2>2
         DEF Call, Recording, Replacing, Given
    <2>3. CASE to = "replacing"
      <3>1. Unpinned(t, pins)' /\ Kept(e, s, c.ino, fds, pins)' /\ e.born = c.expected.born
        BY <1>s, <1>1, <1>2, <1>3, <1>4, <1>5, <1>6, <2>3
           DEF Call, Recording, Replacing, Unpinned, Kept
      <3>2. c.live
        BY <1>2, <1>4, <1>5, <2>3 DEF Call, Replacing
      <3>3. QED
        BY <1>1, <1>3, <1>4, <1>5, <1>6, <2>1, <2>3, <3>1, <3>2
           DEF Call, Recording, Replacing, Given, Kept
    <2>4. QED
      BY <1>5, <2>2, <2>3
  <1>9. \A q \in Slot \ {s} : table[q].ino # 0 => table[q].ino # e.ino
    BY <1>3
  <1>10. QED
    BY <1>1, <1>2, <1>3, <1>4, <1>7, <1>8, <1>9, WriterStep DEF TableInv, Types

LEMMA FieldsHolds ==
  ASSUME TableInv, NEW t \in Tracers, Fields(t)
  PROVE  TableInv'
  <1>s. PICK s : s = call[t].slot
    OBVIOUS
  <1>k. PICK k : k = call[t]
    OBVIOUS
  <1>d. PICK d : d = table[s]
    OBVIOUS
  <1>e. PICK e : e = [ino |-> d.ino, uid |-> d.uid, gid |-> Owner(t),
             born   |-> IF k.live THEN k.expected.born ELSE k.born,
             keeper |-> IF k.live THEN d.keeper ELSE t,
             start  |-> IF k.live THEN d.start ELSE start[t],
             fd     |-> IF k.live THEN d.fd ELSE k.fd]
    OBVIOUS
  <1>p. PICK to : to = IF k.pc = "recording" THEN "recorded" ELSE "replaced"
    OBVIOUS
  <1>c. PICK c : c = [k EXCEPT !.pc = to]
    OBVIOUS
  <1>1. /\ k.pc \in {"recording", "replacing"}
        /\ call' = [call EXCEPT ![t] = c] /\ table' = [table EXCEPT ![s] = e]
        /\ UNCHANGED <<node, fds, pins, start, lock, answer, made>>
    BY <1>s, <1>k, <1>d, <1>e, <1>p, <1>c DEF Fields
  <1>2. /\ s \in Slot /\ k \in CallType /\ d \in EntryType /\ k.slot = s
        /\ Owner(t) \in Owners /\ Call(t) /\ start[t] \in Nat
    BY <1>s, <1>k, <1>d DEF TableInv, Types, CallType, TableType, Owner, Owners
  <1>3. /\ lock = {t} /\ Holds(t, fds) /\ Only(table, s, k.ino) /\ d.ino = 0
        /\ d.uid = Given(t)
        /\ k.pc = "recording" => ~k.live /\ pins[t][s] = k.fd
        /\ k.pc = "replacing" =>
             /\ k.live /\ Unpinned(t, pins) /\ Kept(d, s, k.ino, fds, pins)
             /\ d.born = k.expected.born
    BY <1>1, <1>s, <1>k, <1>d, <1>2 DEF Call, Recording, Replacing
  <1>4. e \in EntryType
    BY <1>e, <1>2 DEF EntryType, CallType, OwnerType
  <1>5. /\ e.ino = 0 /\ e.uid = d.uid /\ e.gid = Owner(t)
        /\ k.pc = "recording" => /\ e.born = k.born /\ e.keeper = t /\ e.start = start[t]
                                 /\ e.fd = k.fd
        /\ k.pc = "replacing" => /\ e.born = d.born /\ e.keeper = d.keeper
                                 /\ e.start = d.start /\ e.fd = d.fd
    BY <1>e, <1>1, <1>3
  <1>6. /\ c \in CallType /\ c.pc = to /\ c.ino = k.ino /\ c.born = k.born /\ c.fd = k.fd
        /\ c.slot = s /\ c.live = k.live /\ c.new = k.new /\ c.expected = k.expected
    BY <1>p, <1>c, <1>2 DEF CallType, Recording, Replacing
  <1>7. /\ table'[s] = e /\ call'[t] = c
        /\ \A q \in Slot \ {s} : table'[q] = table[q]
    BY <1>1, <1>2 DEF TableInv, Types, TableType
  <1>8. Entry(table, s, fds, pins)'
    BY <1>5, <1>7 DEF Entry
  <1>9. Call(t)'
    <2>1. Holds(t, fds)' /\ Only(table, s, c.ino)'
      BY <1>k, <1>1, <1>3, <1>6, <1>7 DEF Holds, Only
    <2>2. CASE k.pc = "recording"
      <3>1. to = "recorded" /\ Owner(t) = Default /\ Given(t) = Default /\ Given(t)' = Default
        BY <1>k, <1>p, <1>6, <1>7, <2>2 DEF Owner, Given, Replacing
      <3>2. Kept(e, s, c.ino, fds, pins)'
        BY <1>k, <1>1, <1>2, <1>3, <1>5, <1>6, <2>2 DEF Kept, Holds
      <3>3. QED
        BY <1>1, <1>3, <1>5, <1>6, <1>7, <2>1, <2>2, <3>1, <3>2 DEF Call, Recording, Replacing
    <2>3. CASE k.pc = "replacing"
      <3>1. to = "replaced" /\ Owner(t) = k.new /\ Given(t) = k.new /\ Given(t)' = k.new
        BY <1>k, <1>p, <1>6, <1>7, <2>3 DEF Owner, Given, Replacing
      <3>2. Kept(e, s, c.ino, fds, pins)' /\ Unpinned(t, pins)'
        BY <1>k, <1>1, <1>3, <1>5, <1>6, <1>7, <2>3 DEF Kept, Unpinned
      <3>3. QED
        BY <1>1, <1>3, <1>5, <1>6, <1>7, <2>1, <2>3, <3>1, <3>2 DEF Call, Recording, Replacing
    <2>4. QED
      BY <1>1, <2>2, <2>3
  <1>10. \A q \in Slot \ {s} : table[q].ino # 0 => table[q].ino # e.ino
    BY <1>5
  <1>11. QED
    BY <1>1, <1>2, <1>3, <1>4, <1>6, <1>8, <1>9, <1>10, WriterStep DEF TableInv, Types

LEMMA CheckedType ==
  ASSUME NEW k \in CallType, NEW d \in EntryType, k.ino \in Inodes
  PROVE  Checked(k, d) \in CallType /\ Checked(k, d).pc = "checked" /\ Checked(k, d).ino \in Inodes
  BY SlotIsOne DEF Checked, CallType, EntryType, OwnerType

LEMMA PublishHolds ==
  ASSUME TableInv, NEW t \in Tracers, Publish(t)
  PROVE  TableInv'
  <1>s. PICK s : s = call[t].slot
    OBVIOUS
  <1>k. PICK k : k = call[t]
    OBVIOUS
  <1>d. PICK d : d = table[s]
    OBVIOUS
  <1>e. PICK e : e = [d EXCEPT !.ino = k.ino]
    OBVIOUS
  <1>c. PICK c : c = IF k.pc = "replaced" THEN NoCall ELSE Checked(k, d)
    OBVIOUS
  <1>1. /\ k.pc \in {"recorded", "replaced"}
        /\ call' = [call EXCEPT ![t] = c] /\ table' = [table EXCEPT ![s] = e]
        /\ fds' = IF k.live THEN [fds EXCEPT ![t][k.fd] = NoFile] ELSE fds
        /\ lock' = {} /\ UNCHANGED <<node, pins, start, answer, made>>
    BY <1>s, <1>k, <1>d, <1>e, <1>c DEF Publish, Close
  <1>2. /\ s \in Slot /\ k \in CallType /\ d \in EntryType /\ k.slot = s /\ Call(t)
        /\ fds \in FilesType
    BY <1>s, <1>k, <1>d DEF TableInv, Types, CallType, TableType
  <1>3. /\ lock = {t} /\ Only(table, s, k.ino) /\ k.ino \in Inodes
        /\ k.live => Unpinned(t, pins) /\ k.fd \in Fds
        /\ d.uid = d.gid /\ Kept(d, s, k.ino, fds, pins)
    BY <1>1, <1>s, <1>k, <1>d, <1>2 DEF Call, Holds, Recording, Replacing
  <1>4. /\ e \in EntryType /\ e.ino = k.ino /\ e.uid = d.uid /\ e.gid = d.gid /\ e.born = d.born
        /\ e.keeper = d.keeper /\ e.start = d.start /\ e.fd = d.fd
    BY <1>e, <1>2, <1>3 DEF EntryType
  <1>5. /\ c \in CallType /\ c.pc \in {"idle", "checked"}
        /\ c.pc = "checked" => c.ino \in Inodes
    BY <1>c, <1>2, <1>3, CheckedType, NothingTypes
  <1>6. /\ table'[s] = e /\ call'[t] = c
        /\ \A q \in Slot \ {s} : table'[q] = table[q]
    BY <1>1, <1>2 DEF TableInv, Types, TableType
  <1>7. /\ fds' \in FilesType /\ \A r \in Tracers \ {t} : fds'[r] = fds[r]
        /\ \A n \in Fds : (\E q \in Slot : pins[t][q] = n) => fds'[t][n] = fds[t][n]
    <2>1. CASE ~k.live
      BY <1>1, <1>2, <2>1
    <2>2. CASE k.live
      <3>1. fds' = [fds EXCEPT ![t][k.fd] = NoFile]
        BY <1>1, <2>2
      <3>2. \A q \in Slot : pins[t][q] # k.fd
        BY <1>k, <1>3, <2>2 DEF Unpinned
      <3>3. QED
        BY <1>2, <3>1, <3>2, NothingTypes DEF FilesType
    <2>3. QED
      BY <1>2, <2>1, <2>2 DEF CallType
  <1>8. Entry(table, s, fds, pins)'
    <2>1. Kept(e, s, k.ino, fds, pins)'
      BY <1>1, <1>2, <1>3, <1>4, <1>7 DEF Kept
    <2>2. Only(table, s, k.ino)'
      BY <1>3, <1>6 DEF Only
    <2>3. QED
      BY <1>3, <1>4, <1>6, <2>1, <2>2 DEF Entry
  <1>9. Call(t)'
    BY <1>5, <1>6, QuietCall
  <1>10. \A q \in Slot \ {s} : table[q].ino # 0 => table[q].ino # e.ino
    BY <1>3, <1>4 DEF Only
  <1>11. QED
    BY <1>1, <1>2, <1>3, <1>4, <1>5, <1>7, <1>8, <1>9, <1>10, WriterStep

-----------------------------------------------------------------------------
(* Enter: what is found under the lock                                     *)

Unpinning(t, u) ==
  /\ u.entries \in TableType /\ u.files \in FilesType /\ u.pins \in PinsType
  /\ \A r \in Tracers \ {t} : u.files[r] = fds[r] /\ u.pins[r] = pins[r]
  /\ \A s \in Slot : u.entries[s] = table[s] \/ u.entries[s].ino = 0
  /\ \A s \in Slot : Entry(u.entries, s, u.files, u.pins)
  /\ Pinned(t, u.files, u.pins)
  /\ \A s \in Slot : u.pins[t][s] # NoFd => Linked(u.files[t][u.pins[t][s]])
  /\ \A s \in Slot : u.pins[t][s] \in {pins[t][s], NoFd}
  /\ \A n \in Fds : (\A s \in Slot : pins[t][s] # n) => u.files[t][n] = fds[t][n]

LEMMA UnpinDone ==
  ASSUME TableInv, NEW t \in Tracers
  PROVE  Unpinning(t, Unpin(t))
  <1> DEFINE stale == {s \in Slot : pins[t][s] # NoFd /\ ~Linked(fds[t][pins[t][s]])}
             F == [n \in Fds |-> IF \E s \in stale : pins[t][s] = n THEN NoFile ELSE fds[t][n]]
             P == [s \in Slot |-> IF s \in stale THEN NoFd ELSE pins[t][s]]
             files == [fds EXCEPT ![t] = F]
             ps    == [pins EXCEPT ![t] = P]
             T     == [s \in Slot |->
                         IF s \in stale /\ table[s].keeper = t /\ table[s].fd = pins[t][s]
                         THEN [table[s] EXCEPT !.ino = 0] ELSE table[s]]
  <1>1. Unpin(t) = [files |-> files, pins |-> ps, entries |-> T]
    BY DEF Unpin, TableInv, Types, FilesType, PinsType
  <1>2. /\ fds \in FilesType /\ pins \in PinsType /\ table \in TableType
        /\ \A s \in Slot : table[s] \in EntryType
    BY DEF TableInv, Types, TableType
  <1>3. files \in FilesType /\ ps \in PinsType
    BY <1>2, NothingTypes DEF FilesType, PinsType
  <1>4. /\ files[t] = F /\ ps[t] = P
        /\ \A r \in Tracers \ {t} : files[r] = fds[r] /\ ps[r] = pins[r]
    BY <1>2 DEF FilesType, PinsType
  <1>5. \A s \in Slot : [table[s] EXCEPT !.ino = 0] \in EntryType
                        /\ [table[s] EXCEPT !.ino = 0].ino = 0
    BY <1>2 DEF EntryType
  <1>6. /\ T \in TableType
        /\ \A s \in Slot : T[s] = table[s] \/ T[s].ino = 0
        /\ \A s \in Slot : s \in stale /\ table[s].keeper = t /\ table[s].fd = pins[t][s]
                           => T[s].ino = 0
    BY <1>2, <1>5 DEF TableType
  <1>7. /\ \A s \in Slot : P[s] = IF s \in stale THEN NoFd ELSE pins[t][s]
        /\ \A n \in Fds : F[n] = IF \E s \in stale : pins[t][s] = n THEN NoFile ELSE fds[t][n]
        /\ \A s \in Slot : pins[t][s] \in Fds \cup {NoFd}
        /\ \A s \in Slot : s \in stale <=> pins[t][s] # NoFd /\ ~Linked(fds[t][pins[t][s]])
    BY <1>2 DEF PinsType
  <1> HIDE DEF F, P, T, files, ps, stale
  <1>8. ASSUME NEW s \in Slot, P[s] # NoFd
        PROVE  P[s] = pins[t][s] /\ F[P[s]] = fds[t][P[s]] /\ s \notin stale
    <2>1. P[s] = pins[t][s] /\ s \notin stale
      BY <1>7, <1>8
    <2>2. \A q \in Slot : pins[t][q] = pins[t][s] => q = s
      BY <1>8, <2>1 DEF TableInv, Pinned
    <2>3. ~\E q \in stale : pins[t][q] = P[s]
      BY <2>1, <2>2 DEF stale
    <2>4. QED
      BY <1>7, <1>8, <2>1, <2>3
  <1>9. Pinned(t, files, ps)
    BY <1>4, <1>8 DEF TableInv, Pinned
  <1>10. \A s \in Slot : ps[t][s] # NoFd => Linked(files[t][ps[t][s]])
    BY <1>4, <1>7, <1>8
  <1>11. ASSUME NEW s \in Slot
         PROVE  Entry(T, s, files, ps)
    <2>1. SUFFICES ASSUME T[s].ino # 0
                   PROVE  Entry(T, s, files, ps)
      BY DEF Entry
    <2>2. T[s] = table[s]
      BY <1>6, <2>1
    <2>3. /\ table[s].uid = table[s].gid /\ Kept(table[s], s, table[s].ino, fds, pins)
          /\ Only(table, s, table[s].ino)
      BY <2>1, <2>2 DEF TableInv, Entry
    <2>4. Only(T, s, table[s].ino)
      BY <1>6, <2>1, <2>2, <2>3 DEF Only
    <2>5. Kept(table[s], s, table[s].ino, files, ps)
      <3>1. CASE table[s].keeper # t
        BY <1>4, <2>3, <3>1 DEF Kept
      <3>2. CASE table[s].keeper = t
        <4>1. SUFFICES ASSUME table[s].start = start[t]
                       PROVE  /\ P[s] = table[s].fd
                              /\ F[table[s].fd] = [ino |-> table[s].ino, born |-> table[s].born]
          BY <1>4, <2>3, <3>2 DEF Kept
        <4>2. /\ pins[t][s] = table[s].fd /\ table[s].fd # NoFd
              /\ fds[t][table[s].fd] = [ino |-> table[s].ino, born |-> table[s].born]
          BY <2>3, <3>2, <4>1, SlotIsOne DEF Kept
        <4>3. s \notin stale
          BY <1>6, <2>1, <3>2, <4>2
        <4>4. P[s] = pins[t][s] /\ P[s] # NoFd
          BY <1>7, <4>2, <4>3
        <4>5. QED
          BY <1>8, <4>2, <4>4
      <3>3. QED
        BY <3>1, <3>2
    <2>6. QED
      BY <2>2, <2>3, <2>4, <2>5 DEF Entry
  <1>12. \A n \in Fds : (\A s \in Slot : pins[t][s] # n) => files[t][n] = fds[t][n]
    BY <1>4, <1>7 DEF stale
  <1>13. \A s \in Slot : ps[t][s] \in {pins[t][s], NoFd}
    BY <1>4, <1>7
  <1>14. QED
    BY <1>1, <1>3, <1>4, <1>6, <1>9, <1>10, <1>11, <1>12, <1>13 DEF Unpinning

(* The slot of the terminal, one that is free, or one whose entry is dead; *)
(* no other slot is the terminal's.                                        *)
LEMMA SlotChosen ==
  ASSUME NEW u, NEW i, NEW s \in Choose(i, u.entries, u.files),
         u.entries \in TableType,
         \A q \in Slot : Entry(u.entries, q, u.files, u.pins), i # 0
  PROVE  /\ s \in Slot /\ Only(u.entries, s, i)
         /\ \/ u.entries[s].ino = i \/ u.entries[s].ino = 0
            \/ ~Live(u.entries[s], u.files)
  <1> DEFINE mine == {q \in Slot : u.entries[q].ino = i}
             free == {q \in Slot : u.entries[q].ino = 0}
             dead == {q \in Slot : ~Live(u.entries[q], u.files)}
  <1>1. CASE mine # {}
    <2>1. s \in mine
      BY <1>1 DEF Choose, First
    <2>2. QED
      BY <2>1 DEF Entry
  <1>2. CASE mine = {} /\ free # {}
    <2>1. s \in free
      BY <1>2 DEF Choose, First
    <2>2. QED
      BY <1>2, <2>1 DEF Only
  <1>3. CASE mine = {} /\ free = {}
    <2>1. s \in dead
      BY <1>3 DEF Choose, First
    <2>2. QED
      BY <1>3, <2>1 DEF Only
  <1>4. QED
    BY <1>1, <1>2, <1>3

(* What every way out of Enter leaves.                                     *)
LEMMA EnterStep ==
  ASSUME TableInv, NEW t \in Tracers, lock = {}, NEW u, Unpinning(t, u),
         table' = u.entries, UNCHANGED <<node, start, answer, made>>,
         fds' \in FilesType, pins' \in PinsType,
         \A r \in Tracers \ {t} : fds'[r] = fds[r] /\ pins'[r] = pins[r],
         \A s \in Slot : Entry(table, s, fds, pins)',
         Pinned(t, fds, pins)',
         NEW c \in CallType, call' = [call EXCEPT ![t] = c],
         Call(t)'
  PROVE  TableInv'
  <1>1. /\ call' \in [Tracers -> CallType] /\ \A r \in Tracers \ {t} : call'[r] = call[r]
    BY DEF TableInv, Types
  <1>2. Types'
    BY <1>1 DEF TableInv, Types, Unpinning
  <1>3. ASSUME NEW r \in Tracers
        PROVE  Pinned(r, fds, pins)' /\ Call(r)'
    BY <1>1, OtherPinned, OtherCall
  <1>4. QED
    BY <1>2, <1>3, AnswersStay DEF TableInv

(* The call gives up, or has its answer: its file is closed.               *)
LEMMA LeaveHolds ==
  ASSUME TableInv, NEW t \in Tracers, lock = {}, NEW u, Unpinning(t, u),
         Holds(t, fds), Unpinned(t, pins), NEW after \in CallType,
         after.pc \in {"idle", "checked"}, after.pc = "checked" => after.ino \in Inodes,
         Leave(t, u, after), UNCHANGED <<node, start, answer, made>>
  PROVE  TableInv'
  <1>f. PICK fd : fd = call[t].fd
    OBVIOUS
  <1>1. /\ fds' = [u.files EXCEPT ![t][fd] = NoFile] /\ pins' = u.pins /\ table' = u.entries
        /\ call' = [call EXCEPT ![t] = after]
    BY <1>f DEF Leave, Close
  <1>2. fd \in Fds /\ \A s \in Slot : pins[t][s] # fd
    BY <1>f DEF Holds, Unpinned
  <1>3. \A s \in Slot : u.pins[t][s] # fd
    BY <1>2, SlotIsOne DEF Unpinning
  <1>4. /\ fds' \in FilesType /\ \A r \in Tracers \ {t} : fds'[r] = fds[r] /\ pins'[r] = pins[r]
        /\ \A r \in Tracers : \A n \in Fds : r # t \/ n # fd => fds'[r][n] = u.files[r][n]
    BY <1>1, <1>2, NothingTypes DEF Unpinning, FilesType
  <1>5. ASSUME NEW s \in Slot
        PROVE  Entry(table, s, fds, pins)'
    <2>1. SUFFICES ASSUME table'[s].ino # 0
                   PROVE  Entry(table, s, fds, pins)'
      BY DEF Entry
    <2>2. /\ table'[s].uid = table'[s].gid /\ Only(table, s, table[s].ino)'
          /\ Kept(u.entries[s], s, u.entries[s].ino, u.files, u.pins)
      BY <1>1, <2>1 DEF Unpinning, Entry, Only
    <2>3. Kept(table[s], s, table[s].ino, fds, pins)'
      BY <1>1, <1>3, <1>4, <2>2 DEF Kept
    <2>4. QED
      BY <2>2, <2>3 DEF Entry
  <1>6. Pinned(t, fds, pins)'
    <2>1. Pinned(t, u.files, u.pins) /\ \A s \in Slot : u.pins[t][s] \in Fds \cup {NoFd}
      BY DEF Unpinning, PinsType
    <2>2. QED
      BY <1>1, <1>3, <1>4, <2>1 DEF Pinned
  <1>7. Call(t)'
    BY <1>1, QuietCall DEF TableInv, Types
  <1>8. pins' \in PinsType
    BY <1>1 DEF Unpinning
  <1>9. QED
    BY <1>1, <1>4, <1>5, <1>6, <1>7, <1>8, EnterStep

(* The entry of a terminal whose owner changes: nothing moves but the lock.*)
LEMMA ReplaceHolds ==
  ASSUME TableInv, NEW t \in Tracers, lock = {}, NEW u, Unpinning(t, u),
         Holds(t, fds), Unpinned(t, pins), NEW s \in Slot,
         Only(u.entries, s, call[t].ino), u.entries[s].ino = call[t].ino,
         Same(call[t].expected, u.entries[s]),
         Write(t, u, s, TRUE), UNCHANGED <<node, start, answer, made>>
  PROVE  TableInv'
  <1>k. PICK k : k = call[t]
    OBVIOUS
  <1>c. PICK c : c = [[[k EXCEPT !.pc = "replace"] EXCEPT !.slot = s] EXCEPT !.live = TRUE]
    OBVIOUS
  <1>1. k \in CallType /\ k.ino \in Inodes /\ k.fd \in Fds
    BY <1>k DEF TableInv, Types, Holds
  <1>2. /\ fds' = u.files /\ pins' = u.pins /\ table' = u.entries /\ lock' = {t}
        /\ call' = [call EXCEPT ![t] = c]
    BY <1>k, <1>c, <1>1 DEF Write, TableInv, Types
  <1>3. /\ c \in CallType /\ c.pc = "replace" /\ c.ino = k.ino /\ c.born = k.born
        /\ c.fd = k.fd /\ c.slot = s /\ c.live = TRUE /\ c.new = k.new
        /\ c.expected = k.expected
    BY <1>c, <1>1 DEF CallType, Recording, Replacing
  <1>4. call'[t] = c
    BY <1>2 DEF TableInv, Types
  <1>5. \A q \in Slot : Entry(table, q, fds, pins)'
    BY <1>2 DEF Unpinning, Entry, Kept, Only
  <1>6. Pinned(t, fds, pins)'
    BY <1>2 DEF Unpinning, Pinned
  <1>7. Call(t)'
    <2>1. Holds(t, fds)'
      BY <1>k, <1>1, <1>2, <1>3, <1>4 DEF Holds, Unpinning, Unpinned
    <2>2. Unpinned(t, pins)'
      BY <1>k, <1>1, <1>2, <1>3, <1>4, SlotIsOne DEF Unpinned, Unpinning
    <2>3. Only(table, s, c.ino)'
      BY <1>k, <1>2, <1>3 DEF Only
    <2>4. Kept(u.entries[s], s, c.ino, fds, pins)'
      <3>1. Kept(u.entries[s], s, c.ino, u.files, u.pins)
        BY <1>k, <1>1, <1>3, SlotIsOne DEF Unpinning, Entry
      <3>2. QED
        BY <1>2, <3>1 DEF Kept
    <2>5. Kept(table[s], s, c.ino, fds, pins)'
      BY <1>2, <2>4 DEF Kept
    <2>6. table'[s].born = c.expected.born
      BY <1>k, <1>2, <1>3 DEF Same
    <2>7. QED
      BY <1>2, <1>3, <1>4, <2>1, <2>2, <2>3, <2>5, <2>6 DEF Call, Recording, Replacing
  <1>8. /\ fds' \in FilesType /\ pins' \in PinsType
        /\ \A r \in Tracers \ {t} : fds'[r] = fds[r] /\ pins'[r] = pins[r]
    BY <1>2 DEF Unpinning
  <1>9. QED
    BY <1>2, <1>3, <1>5, <1>6, <1>7, <1>8, EnterStep

(* A terminal's first entry: the call's descriptor becomes the slot's pin. *)
(* The entry it replaces is not one the tracer itself keeps, for its pins  *)
(* are of nodes that are there.                                            *)
LEMMA RecordHolds ==
  ASSUME TableInv, NEW t \in Tracers, lock = {}, NEW u, Unpinning(t, u),
         Holds(t, fds), Unpinned(t, pins), NEW s \in Slot,
         Only(u.entries, s, call[t].ino),
         u.entries[s].ino = 0 \/ ~Live(u.entries[s], u.files),
         Write(t, u, s, FALSE), UNCHANGED <<node, start, answer, made>>
  PROVE  TableInv'
  <1>k. PICK k : k = call[t]
    OBVIOUS
  <1>c. PICK c : c = [[[k EXCEPT !.pc = "record"] EXCEPT !.slot = s] EXCEPT !.live = FALSE]
    OBVIOUS
  <1>o. PICK old : old = u.pins[t][s]
    OBVIOUS
  <1>1. k \in CallType /\ k.ino \in Inodes /\ k.fd \in Fds
    BY <1>k DEF TableInv, Types, Holds
  <1>2. /\ fds' = IF old # NoFd THEN [u.files EXCEPT ![t][old] = NoFile] ELSE u.files
        /\ pins' = [u.pins EXCEPT ![t][s] = k.fd] /\ table' = u.entries /\ lock' = {t}
        /\ call' = [call EXCEPT ![t] = c]
    BY <1>k, <1>c, <1>o, <1>1 DEF Write, Close, TableInv, Types
  <1>3. /\ c \in CallType /\ c.pc = "record" /\ c.ino = k.ino /\ c.born = k.born
        /\ c.fd = k.fd /\ c.slot = s /\ c.live = FALSE
    BY <1>c, <1>1 DEF CallType, Recording, Replacing
  <1>4. call'[t] = c
    BY <1>2 DEF TableInv, Types
  <1>5. /\ u.files \in FilesType /\ u.pins \in PinsType /\ old \in Fds \cup {NoFd}
        /\ \A q \in Slot : u.pins[t][q] \in Fds \cup {NoFd} /\ u.pins[t][q] # k.fd
        /\ \A q \in Slot \ {s} : u.pins[t][q] # NoFd => u.pins[t][q] # old
    <2>1. \A q \in Slot : pins[t][q] # k.fd
      BY <1>k DEF Unpinned
    <2>2. QED
      BY <1>o, <1>1, <2>1, SlotIsOne DEF Unpinning, PinsType, Pinned
  <1>6. /\ fds' \in FilesType
        /\ \A n \in Fds : n # old => fds'[t][n] = u.files[t][n]
        /\ \A r \in Tracers \ {t} : fds'[r] = u.files[r]
    BY <1>2, <1>5, NothingTypes DEF FilesType
  <1>7. /\ pins' \in PinsType /\ pins'[t][s] = k.fd
        /\ \A q \in Slot \ {s} : pins'[t][q] = u.pins[t][q]
        /\ \A r \in Tracers \ {t} : pins'[r] = u.pins[r]
    BY <1>1, <1>2, <1>5 DEF PinsType
  <1>8. fds'[t][k.fd] = [ino |-> k.ino, born |-> k.born]
    <2>1. u.files[t][k.fd] = fds[t][k.fd]
      BY <1>k, <1>1 DEF Unpinning, Unpinned
    <2>2. k.fd # old
      BY <1>o, <1>5
    <2>3. QED
      BY <1>k, <1>1, <1>6, <2>1, <2>2 DEF Holds
  <1>9. ASSUME NEW q \in Slot
        PROVE  Entry(table, q, fds, pins)'
    <2>1. SUFFICES ASSUME table'[q].ino # 0
                   PROVE  Entry(table, q, fds, pins)'
      BY DEF Entry
    <2>2. /\ table'[q].uid = table'[q].gid /\ Only(table, q, table[q].ino)'
          /\ Kept(u.entries[q], q, u.entries[q].ino, u.files, u.pins)
      BY <1>2, <2>1 DEF Unpinning, Entry, Only
    <2>e. PICK e : e = u.entries[q]
      OBVIOUS
    <2>3. CASE e.keeper # t \/ e.start # start[e.keeper]
      <3>1. Kept(e, q, e.ino, u.files, u.pins)
        BY <2>e, <2>2
      <3>2. e.keeper # t => fds'[e.keeper] = u.files[e.keeper] /\ pins'[e.keeper] = u.pins[e.keeper]
        BY <1>6, <1>7, <3>1 DEF Kept
      <3>3. Kept(e, q, e.ino, fds, pins)'
        BY <2>3, <3>1, <3>2 DEF Kept
      <3>4. Kept(table[q], q, table[q].ino, fds, pins)'
        BY <1>2, <2>e, <3>3 DEF Kept
      <3>5. QED
        BY <2>2, <3>4 DEF Entry
    <2>4. CASE e.keeper = t /\ e.start = start[t]
      <3>1. /\ u.pins[t][q] = e.fd /\ e.fd \in Fds /\ e.ino \in Inodes
            /\ u.files[t][e.fd] = [ino |-> e.ino, born |-> e.born]
        BY <2>e, <2>2, <2>4 DEF Kept
      <3>2. Linked(u.files[t][e.fd])
        BY <3>1, SlotIsOne DEF Unpinning
      <3>3. Live(e, u.files)
        BY <2>4, <3>1, <3>2, SlotIsOne DEF Live
      <3>4. q # s
        BY <1>2, <2>e, <2>1, <3>3
      <3>5. e.fd # old
        BY <1>5, <3>1, <3>4, SlotIsOne
      <3>6. fds'[t][e.fd] = [ino |-> e.ino, born |-> e.born] /\ pins'[t][q] = e.fd
        BY <1>6, <1>7, <3>1, <3>4, <3>5
      <3>7. Kept(table[q], q, table[q].ino, fds, pins)'
        BY <1>2, <2>e, <2>2, <2>4, <3>6 DEF Kept
      <3>8. QED
        BY <2>2, <3>7 DEF Entry
    <2>5. QED
      BY <2>e, <2>2, <2>3, <2>4, <1>2 DEF Entry
  <1>10. Pinned(t, fds, pins)'
    <2>1. fds'[t][k.fd] # NoFile
      BY <1>1, <1>8, SlotIsOne DEF NoFile
    <2>2. ASSUME NEW q \in Slot \ {s}, u.pins[t][q] # NoFd
          PROVE  /\ fds'[t][u.pins[t][q]] # NoFile
                 /\ \A r \in Slot \ {s} : u.pins[t][r] = u.pins[t][q] => r = q
      BY <1>5, <1>6, <2>2 DEF Unpinning, Pinned
    <2>3. QED
      BY <1>5, <1>7, <2>1, <2>2 DEF Pinned
  <1>11. Call(t)'
    <2>1. Holds(t, fds)'
      BY <1>1, <1>3, <1>4, <1>8 DEF Holds
    <2>2. Only(table, s, c.ino)'
      BY <1>k, <1>2, <1>3 DEF Only
    <2>3. pins'[t][s] = c.fd
      BY <1>3, <1>7
    <2>4. QED
      BY <1>2, <1>3, <1>4, <2>1, <2>2, <2>3 DEF Call, Recording, Replacing
  <1>12. \A r \in Tracers \ {t} : fds'[r] = fds[r] /\ pins'[r] = pins[r]
    BY <1>6, <1>7 DEF Unpinning
  <1>13. QED
    BY <1>2, <1>3, <1>6, <1>7, <1>9, <1>10, <1>11, <1>12, EnterStep

LEMMA EnterHolds ==
  ASSUME TableInv, NEW t \in Tracers, Enter(t)
  PROVE  TableInv'
  <1>u. PICK u : u = Unpin(t)
    OBVIOUS
  <1>1. Unpinning(t, u)
    BY <1>u, UnpinDone
  <1>2. /\ call[t].pc \in {"ask", "change"} /\ lock = {}
        /\ UNCHANGED <<node, start, answer, made>>
    BY DEF Enter, At
  <1>3. Holds(t, fds) /\ Unpinned(t, pins) /\ call[t] \in CallType /\ call[t].ino \in Inodes
    BY <1>2 DEF TableInv, Types, Call, Holds
  <1>4. CASE Leave(t, u, NoCall)
    BY <1>1, <1>2, <1>3, <1>4, NothingTypes, LeaveHolds
  <1>5. ASSUME NEW s \in Choose(call[t].ino, u.entries, u.files),
               LET e    == u.entries[s]
                   live == e.ino = call[t].ino /\ Live(e, u.files)
               IN \/ At(t, "ask") /\ live /\ Leave(t, u, Checked(call[t], e))
                  \/ At(t, "ask") /\ ~live /\ Write(t, u, s, FALSE)
                  \/ At(t, "change") /\ live /\ Same(call[t].expected, e) /\ Write(t, u, s, TRUE)
                  \/ At(t, "change") /\ ~(live /\ Same(call[t].expected, e)) /\ Leave(t, u, NoCall)
        PROVE  TableInv'
    <2> DEFINE e    == u.entries[s]
               live == e.ino = call[t].ino /\ Live(e, u.files)
    <2>0. u.entries \in TableType /\ \A q \in Slot : Entry(u.entries, q, u.files, u.pins)
      BY <1>1 DEF Unpinning
    <2>1. /\ s \in Slot /\ Only(u.entries, s, call[t].ino)
          /\ e.ino = call[t].ino \/ e.ino = 0 \/ ~Live(e, u.files)
      <3>1. call[t].ino # 0
        BY <1>3, SlotIsOne
      <3>2. QED
        BY <2>0, <3>1, SlotChosen
    <2>2. e \in EntryType
      BY <2>0, <2>1 DEF TableType
    <2>3. CASE live /\ Leave(t, u, Checked(call[t], e))
      BY <1>1, <1>2, <1>3, <2>2, <2>3, CheckedType, LeaveHolds
    <2>4. CASE ~live /\ Write(t, u, s, FALSE)
      BY <1>1, <1>2, <1>3, <2>1, <2>4, RecordHolds
    <2>5. CASE live /\ Same(call[t].expected, e) /\ Write(t, u, s, TRUE)
      BY <1>1, <1>2, <1>3, <2>1, <2>5, ReplaceHolds
    <2>6. CASE Leave(t, u, NoCall)
      BY <1>1, <1>2, <1>3, <2>6, NothingTypes, LeaveHolds
    <2>7. QED
      BY <1>5, <2>3, <2>4, <2>5, <2>6
  <1>6. QED
    BY <1>u, <1>4, <1>5 DEF Enter

-----------------------------------------------------------------------------
LEMMA NextHolds == TableInv /\ [Next]_vars => TableInv'
  <1>1. ASSUME TableInv, NEW t \in Tracers, NEW i \in Inodes,
               Lookup(t, i) \/ \E new \in Users \cup {Default} : Begin(t, i, new)
        PROVE  TableInv'
    BY <1>1, LookupHolds, BeginHolds DEF Owners
  <1>2. ASSUME TableInv, NEW t \in Tracers,
               Enter(t) \/ Invalidate(t) \/ Fields(t) \/ Publish(t) \/ Change(t) \/ End(t)
        PROVE  TableInv'
    BY <1>2, EnterHolds, InvalidateHolds, FieldsHolds, PublishHolds, ChangeHolds, EndHolds
  <1>3. ASSUME TableInv, NEW i \in Inodes, Unlink(i) \/ Create(i)
        PROVE  TableInv'
    BY <1>3, UnlinkHolds, CreateHolds
  <1>4. ASSUME TableInv, UNCHANGED vars
        PROVE  TableInv'
    BY <1>4 DEF vars, TableInv, Types, Entry, Kept, Only, Pinned, Call, Holds, Unpinned,
       Given, AnswerIsOfNode
  <1>5. QED
    BY <1>1, <1>2, <1>3, <1>4 DEF Next, Rest

LEMMA TableInvAlways == Spec => []TableInv
  BY InitHolds, NextHolds, PTL DEF Spec

(* What LookupTerminal finds was recorded for the node that has the inode  *)
(* number now: the keeper of a live entry has had the entry's node open    *)
(* all along (LookupTerminal, ProcessStartTime, the pins).                 *)
THEOREM AnswersAreOfTheNode == Spec => []AnswersAreOfThisNode
  <1>1. TableInv => AnswersAreOfThisNode
    BY DEF TableInv, AnswerIsOfNode, AnswersAreOfThisNode
  <1>2. QED
    BY <1>1, TableInvAlways, PTL

(* A valid entry has one owner, and is its terminal's only entry, wherever *)
(* writers are killed (TerminalOwner).                                     *)
THEOREM EntriesAreWhole == Spec => []TerminalIsWhole
  <1>1. TableInv => TerminalIsWhole
    BY DEF TableInv, Entry, Only, TerminalIsWhole
  <1>2. QED
    BY <1>1, TableInvAlways, PTL

(* While the keeper of an entry runs, it has the entry's node open with    *)
(* the descriptor the entry names, and knows it for a pin: no call of its  *)
(* own closes it (TerminalOwner's eviction, its pins and its descriptors). *)
THEOREM KeepersHoldTheirPins == Spec => []KeeperHasPin
  <1>1. TableInv => KeeperHasPin
    BY DEF TableInv, Entry, Kept, KeeperHasPin
  <1>2. QED
    BY <1>1, TableInvAlways, PTL
=============================================================================
