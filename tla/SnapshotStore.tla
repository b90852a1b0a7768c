---------------------------- MODULE SnapshotStore ----------------------------
(***************************************************************************)
(* The snapshot slots shared by the certificate store and the canceled     *)
(* card list store (snapshot.c, x509_store.c, the store half of            *)
(* twic_ccl.c).  Updaters derive a new list from the current one, prepare  *)
(* it in a free slot and publish it against the revision they started      *)
(* from; readers lease the current slot.  The application's lock makes     *)
(* every call one step, and nothing more.                                  *)
(***************************************************************************)
EXTENDS Naturals, FiniteSets

CONSTANTS
  Slots, Readers, Updaters,
  NoSlot, NoLease,
  Dates,            \* publication dates of canceled card lists
  MaxReaders,       \* SIZE_MAX of a slot's reader count
  MaxRevision,      \* SIZE_MAX of the store's revision
  MaxUpdates        \* bound on the updates begun in one behaviour

VARIABLES
  kind,        \* which of the two stores this is
  slot,        \* the caller's slots: state, readers, payload
  current,     \* store->current
  revision,    \* store->revision
  begun,       \* updates begun so far
  draft,       \* per updater: the revision it read, its new list, its slot
  held,        \* per reader: the slot it acquired
  answer       \* per reader: what its last lookup returned

vars == <<kind, slot, current, revision, begun, draft, held, answer>>

Updates == 1 .. MaxUpdates

ASSUME Constants ==
  /\ NoSlot \notin Slots /\ \A list \in SUBSET Updates : NoLease # list
  /\ IsFiniteSet(Readers) /\ Dates \subseteq Nat
  /\ {MaxReaders, MaxRevision, MaxUpdates} \subseteq Nat

Payloads == [list : SUBSET Updates, published_at : Dates \cup {0}]
Nothing == [list |-> {}, published_at |-> 0]
NoDraft == [revision |-> 0, list |-> {}, slot |-> NoSlot]

\* TC_snapshot_state with the bookkeeping fields of a slot.
SlotRecords ==
  [state : {"FREE", "PREPARED", "CURRENT", "RETIRED"}, readers : 0 .. MaxReaders,
   payload : Payloads]

\* recycle: the whole slot is zeroed, and zero is FREE.
Recycled(s) == [state |-> "FREE", readers |-> 0, payload |-> Nothing]

Published == IF current = NoSlot THEN {} ELSE slot[current].payload.list

\* The application reads the store and works out its next list.
Begin(u) ==
  /\ draft[u] = NoDraft /\ begun < MaxUpdates
  /\ begun' = begun + 1
  /\ draft' = [draft EXCEPT ![u] = [revision |-> revision, list |-> Published \cup {begun + 1},
                                    slot |-> NoSlot]]
  /\ UNCHANGED <<kind, slot, current, revision, held, answer>>

\* tc_snapshot_prepare, with the payload the caller then copies into the slot.
SnapshotPrepare(s, payload) ==
  /\ slot[s].state = "FREE" /\ slot[s].readers = 0
  /\ slot' = [slot EXCEPT ![s] = [state |-> "PREPARED", readers |-> 0, payload |-> payload]]

Undrafted(u) == draft[u] # NoDraft /\ draft[u].slot = NoSlot

X509Prepare(u, s) ==
  /\ kind = "x509" /\ Undrafted(u)
  /\ SnapshotPrepare(s, [list |-> draft[u].list, published_at |-> 0])
  /\ draft' = [draft EXCEPT ![u].slot = s]
  /\ UNCHANGED <<kind, current, revision, begun, held, answer>>

\* TC_TWIC_CCL_store_prepare: a list received before it was published is refused.
CclPrepare(u, s, published_at, received_at) ==
  /\ kind = "ccl" /\ Undrafted(u) /\ published_at <= received_at
  /\ SnapshotPrepare(s, [list |-> draft[u].list, published_at |-> published_at])
  /\ draft' = [draft EXCEPT ![u].slot = s]
  /\ UNCHANGED <<kind, current, revision, begun, held, answer>>

\* tc_snapshot_discard; the updater may also give up before it has a slot.
Discard(u) ==
  /\ draft[u] # NoDraft
  /\ \/ draft[u].slot = NoSlot /\ UNCHANGED slot
     \/ /\ draft[u].slot # NoSlot
        /\ slot[draft[u].slot].state = "PREPARED" /\ slot[draft[u].slot].readers = 0
        /\ slot' = [slot EXCEPT ![draft[u].slot] = Recycled(@)]
  /\ draft' = [draft EXCEPT ![u] = NoDraft]
  /\ UNCHANGED <<kind, current, revision, begun, held, answer>>

\* tc_snapshot_publish_check.
PublishCheck(next) ==
  /\ next # NoSlot /\ next # current
  /\ slot[next].state = "PREPARED" /\ slot[next].readers = 0
  /\ current # NoSlot => slot[current].state = "CURRENT"

\* Mutant: the previous slot is freed under its readers.
SupersededFree(s) == Recycled(s)

\* The previous slot stays for its readers, and is recycled when it has none.
Superseded(s) == IF s.readers > 0 THEN [s EXCEPT !.state = "RETIRED"] ELSE Recycled(s)

\* Mutant: the revision the update started from is not compared.
PublishCommitLatest(next, expected) ==
  /\ revision < MaxRevision
  /\ revision' = revision + 1
  /\ slot' = [s \in Slots |-> IF s = next THEN [slot[s] EXCEPT !.state = "CURRENT"]
                              ELSE IF s = current THEN Superseded(slot[s]) ELSE slot[s]]

\* tc_snapshot_publish_commit, and store->current when it succeeds.
PublishCommit(next, expected) ==
  /\ expected = revision /\ revision < MaxRevision
  /\ revision' = revision + 1
  /\ slot' = [s \in Slots |-> IF s = next THEN [slot[s] EXCEPT !.state = "CURRENT"]
                              ELSE IF s = current THEN Superseded(slot[s]) ELSE slot[s]]

X509Publish(u) ==
  /\ kind = "x509" /\ PublishCheck(draft[u].slot)
  /\ PublishCommit(draft[u].slot, draft[u].revision)
  /\ current' = draft[u].slot /\ draft' = [draft EXCEPT ![u] = NoDraft]
  /\ UNCHANGED <<kind, begun, held, answer>>

\* Mutant: the dates are not compared.
CclPublishAnyDate(u) ==
  /\ kind = "ccl" /\ PublishCheck(draft[u].slot)
  /\ PublishCommit(draft[u].slot, draft[u].revision)
  /\ current' = draft[u].slot /\ draft' = [draft EXCEPT ![u] = NoDraft]
  /\ UNCHANGED <<kind, begun, held, answer>>

\* TC_TWIC_CCL_store_publish also refuses a list older than the current one.
CclPublish(u) ==
  /\ kind = "ccl" /\ PublishCheck(draft[u].slot)
  /\ current # NoSlot =>
       slot[draft[u].slot].payload.published_at >= slot[current].payload.published_at
  /\ PublishCommit(draft[u].slot, draft[u].revision)
  /\ current' = draft[u].slot /\ draft' = [draft EXCEPT ![u] = NoDraft]
  /\ UNCHANGED <<kind, begun, held, answer>>

Acquire(r) ==
  /\ held[r] = NoSlot /\ current # NoSlot
  /\ slot[current].state = "CURRENT" /\ slot[current].readers < MaxReaders
  /\ slot' = [slot EXCEPT ![current].readers = @ + 1]
  /\ held' = [held EXCEPT ![r] = current]
  /\ UNCHANGED <<kind, current, revision, begun, draft, answer>>

\* Mutant: a retired slot stays retired.
ReleasedOnly(s) == [s EXCEPT !.readers = @ - 1]

\* The last reader of a retired slot recycles it.
Released(s) ==
  IF s.readers = 1 /\ s.state = "RETIRED" THEN Recycled(s) ELSE [s EXCEPT !.readers = @ - 1]

\* tc_snapshot_held.
Held(s) == s.readers > 0 /\ s.state \in {"CURRENT", "RETIRED"}

Release(r) ==
  /\ held[r] # NoSlot /\ Held(slot[held[r]])
  /\ slot' = [slot EXCEPT ![held[r]] = Released(@)]
  /\ held' = [held EXCEPT ![r] = NoSlot] /\ answer' = [answer EXCEPT ![r] = NoLease]
  /\ UNCHANGED <<kind, current, revision, begun, draft>>

\* Mutant: a superseded list still answers.
LookupRetired(s) == s.payload.list

\* TC_TWIC_CCL_snapshot_contains on a held slot.
Lookup(s) == IF s.state = "RETIRED" THEN NoLease ELSE s.payload.list

Query(r) ==
  /\ kind = "ccl" /\ held[r] # NoSlot /\ Held(slot[held[r]])
  /\ answer' = [answer EXCEPT ![r] = Lookup(slot[held[r]])]
  /\ UNCHANGED <<kind, slot, current, revision, begun, draft, held>>

Init ==
  /\ kind \in {"x509", "ccl"} /\ current = NoSlot /\ revision = 0 /\ begun = 0
  /\ slot = [s \in Slots |-> [state |-> "FREE", readers |-> 0, payload |-> Nothing]]
  /\ draft = [u \in Updaters |-> NoDraft] /\ held = [r \in Readers |-> NoSlot]
  /\ answer = [r \in Readers |-> NoLease]

Next ==
  \/ \E u \in Updaters :
       \/ Begin(u) \/ Discard(u) \/ X509Publish(u) \/ CclPublish(u)
       \/ \E s \in Slots : \/ X509Prepare(u, s)
                           \/ \E p, q \in Dates : CclPrepare(u, s, p, q)
  \/ \E r \in Readers : Acquire(r) \/ Release(r) \/ Query(r)

Spec == Init /\ [][Next]_vars /\ \A r \in Readers : WF_vars(Release(r))

(******************************* Properties *******************************)

\* Every variable keeps its shape, the current slot of the store is the one
\* marked so, and a free slot holds nothing of an earlier list.
TypeOK ==
  /\ slot \in [Slots -> SlotRecords] /\ current \in Slots \cup {NoSlot}
  /\ revision \in 0 .. MaxRevision /\ held \in [Readers -> Slots \cup {NoSlot}]
  /\ \A s \in Slots : /\ slot[s].state = "CURRENT" <=> s = current
                     /\ slot[s].state = "FREE" => slot[s].readers = 0 /\ slot[s].payload = Nothing

Leased == [r \in Readers |-> IF held[r] = NoSlot THEN NoLease ELSE slot[held[r]].payload.list]
V == INSTANCE SnapshotVersions WITH published <- Published, lease <- Leased

\* The slots implement leased versions: what a reader leased never changes or
\* disappears while it holds it, and no publication drops an earlier update.
ImplementsVersions == V!Spec

\* The reader count of a slot is the number of readers that hold it, so that a
\* slot is recycled by the last of them and never before.
ReadersCounted ==
  \A s \in Slots : slot[s].readers = Cardinality({r \in Readers : held[r] = s})

\* Lists are published in the order of their dates: a delayed older list never
\* replaces a newer one.
DatesAscend ==
  [][kind = "ccl" /\ current # NoSlot /\ current' # current =>
       slot'[current'].payload.published_at >= slot[current].payload.published_at]_vars

\* A lookup that answers does so from the list that is current at that moment.
AnswersCurrent ==
  [][\A r \in Readers : answer'[r] \notin {answer[r], NoLease} => answer'[r] = Published]_vars

\* Readers release what they acquire, so the storage of a superseded list
\* always becomes reusable.
RetiredReclaimed == \A s \in Slots : slot[s].state = "RETIRED" ~> slot[s].state = "FREE"
=============================================================================
