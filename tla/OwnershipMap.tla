---------------------------- MODULE OwnershipMap ----------------------------
(***************************************************************************)
(* What the ownership store promises its callers, without table, journal   *)
(* or lock: one sequence of maps.  Changes become visible in order, each   *)
(* with all before it (several only after a recovery was killed), and      *)
(* losing power loses only changes at the end that are not durable.        *)
(***************************************************************************)
EXTENDS Integers, Sequences

CONSTANTS Files, Owners, EmptyMap

VARIABLES
  maps,      (* maps[n + 1]: the map after n changes                       *)
  visible,   (* how many changes lookups see                               *)
  durable    (* how many survive a power failure                           *)

vars == <<maps, visible, durable>>

Changes == Len(maps) - 1

Init == maps = <<EmptyMap>> /\ visible = 0 /\ durable = 0

(* A Set, or a compare-and-swap, changes one file's record.                *)
Change(f, owner) ==
  /\ maps' = Append(maps, [maps[Len(maps)] EXCEPT ![f] = owner])
  /\ UNCHANGED <<visible, durable>>

(* Its writer, or whoever recovers after it, makes it visible, with what   *)
(* came before; a change whose own synchronization failed waits longer.    *)
Publish ==
  /\ visible' \in visible + 1 .. Changes
  /\ UNCHANGED <<maps, durable>>

(* A synchronized journal or snapshot holds every change so far.           *)
Harden ==
  /\ durable < Changes
  /\ durable' = Changes
  /\ UNCHANGED <<maps, visible>>

(* The session group ends and the next one begins.                         *)
Restart ==
  /\ \E kept \in durable .. Changes :
       /\ maps' = SubSeq(maps, 1, kept + 1)
       /\ durable' = kept
       /\ visible' \in {visible, kept} \cap (0 .. kept)

Next ==
  \/ \E f \in Files, owner \in Owners : Change(f, owner)
  \/ Publish
  \/ Harden
  \/ Restart

Spec == Init /\ [][Next]_vars
=============================================================================
