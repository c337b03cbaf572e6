--------------------------- MODULE SnapshotReplica ---------------------------
(***************************************************************************)
(* What the stable session protocol promises an importer, without digests,  *)
(* events, deltas or tombstones: the archive is copied as a whole, as it    *)
(* stood at one value of the ingest fence.                                  *)
(***************************************************************************)
EXTENDS Integers

CONSTANTS Sessions, Contents

VARIABLES source,      \* session -> what an export of it prints now
          fence,       \* the ingest fence
          frozen,      \* the view a snapshot holds, or NotFrozen
          replica,     \* session -> what the importer keeps
          checkpoint   \* the fence the importer has committed

vars == <<source, fence, frozen, replica, checkpoint>>

Views == [Sessions -> Contents]
NotFrozen == [fence |-> -1]

Init ==
    /\ source \in Views
    /\ fence \in Nat
    /\ frozen = NotFrozen
    /\ replica \in Views
    /\ checkpoint \in 0..fence

Write ==
    /\ source' \in Views
    /\ fence' \in Nat /\ fence' > fence
    /\ UNCHANGED <<frozen, replica, checkpoint>>

Freeze ==
    /\ frozen = NotFrozen
    /\ frozen' = [fence |-> fence, view |-> source]
    /\ UNCHANGED <<source, fence, replica, checkpoint>>

Discard ==
    /\ frozen' = NotFrozen
    /\ UNCHANGED <<source, fence, replica, checkpoint>>

\* The replica becomes the frozen view: all of it, and nothing else.
Apply ==
    /\ frozen # NotFrozen
    /\ checkpoint <= frozen.fence
    /\ replica' = frozen.view
    /\ checkpoint' = frozen.fence
    /\ UNCHANGED <<source, fence, frozen>>

Next == Write \/ Freeze \/ Discard \/ Apply

Spec == Init /\ [][Next]_vars
=============================================================================
