-------------------------- MODULE SnapshotVersions --------------------------
(***************************************************************************)
(* What a snapshot store promises its users: one published list, which     *)
(* only grows by one update at a time, and leases that keep the list a     *)
(* reader acquired until that reader releases it.                          *)
(***************************************************************************)
CONSTANTS Readers, Updates, NoLease

VARIABLES
  published,   \* the updates contained in the current list
  lease        \* the list each reader works with

PublishUpdate(t) ==
  /\ t \notin published
  /\ published' = published \cup {t} /\ UNCHANGED lease

Lease(r) ==
  /\ lease[r] = NoLease /\ published # {}
  /\ lease' = [lease EXCEPT ![r] = published] /\ UNCHANGED published

EndLease(r) ==
  /\ lease[r] # NoLease
  /\ lease' = [lease EXCEPT ![r] = NoLease] /\ UNCHANGED published

Init == published = {} /\ lease = [r \in Readers |-> NoLease]

Next ==
  \/ \E t \in Updates : PublishUpdate(t)
  \/ \E r \in Readers : Lease(r) \/ EndLease(r)

Spec == Init /\ [][Next]_<<published, lease>>
=============================================================================
