-------------------------- MODULE MCOwnershipStore --------------------------
(* Small instances of OwnershipStore.  Two owner records that differ in    *)
(* every word make a torn copy visible.                                    *)
EXTENDS OwnershipStore, TLC

MCAttrs  == {1, 2}
MCOwners == {[inode |-> TRUE, uid |-> a, mode |-> a] : a \in MCAttrs}
MCExpected == MCOwners \cup {AnyOwner}
NoneExpected == {AnyOwner}
Both     == BOOLEAN
Durable  == {TRUE}
Symmetry == Permutations(Procs)
=============================================================================
