------------------------- MODULE SnapshotStoreProofs -------------------------
(***************************************************************************)
(* Proofs about the stores of lists: the slots that readers and updaters   *)
(* share, for any number of slots, readers, updaters, dates and updates    *)
(* (SnapshotStore), and the list of canceled cards, for every file, limit, *)
(* policy and failure of a read (CancelList).                              *)
(***************************************************************************)
EXTENDS SnapshotStore, Integers, Sequences, FiniteSetTheorems, TLAPS

Holders(s) == {r \in Readers : held[r] = s}
Drafts == [revision : 0 .. MaxRevision, list : SUBSET Updates, slot : Slots \cup {NoSlot}]

Shape ==
  /\ slot \in [Slots -> SlotRecords] /\ current \in Slots \cup {NoSlot}
  /\ revision \in 0 .. MaxRevision /\ begun \in 0 .. MaxUpdates
  /\ draft \in [Updaters -> Drafts] /\ held \in [Readers -> Slots \cup {NoSlot}]
  /\ answer \in [Readers -> (SUBSET Updates) \cup {NoLease}]

\* The state of a slot tells whether the store, a draft or a reader has it.
Marked ==
  \A s \in Slots :
    /\ slot[s].state = "CURRENT" <=> s = current
    /\ slot[s].state = "FREE" => slot[s].readers = 0 /\ slot[s].payload = Nothing
    /\ slot[s].state = "PREPARED" => slot[s].readers = 0
    /\ slot[s].state = "RETIRED" => slot[s].readers # 0

\* A draft based on the current revision is the published list and one update
\* that is not in it; its slot is prepared, and no other draft's.
DraftBased(u) ==
  /\ draft[u].revision <= revision
  /\ draft[u].revision = revision =>
       \E t \in 1 .. begun : t \notin Published /\ draft[u].list = Published \cup {t}
DraftPlaced(u) ==
  draft[u].slot # NoSlot =>
    /\ slot[draft[u].slot].state = "PREPARED"
    /\ slot[draft[u].slot].payload.list = draft[u].list
    /\ \A w \in Updaters : draft[w].slot = draft[u].slot => w = u
Drafted == \A u \in Updaters : draft[u] # NoDraft => DraftBased(u) /\ DraftPlaced(u)

\* The published list has begun updates only, and is never empty.
Grown == Published \subseteq 1 .. begun /\ (current # NoSlot => Published # {})

IInv == Shape /\ Marked /\ ReadersCounted /\ Drafted /\ Grown

\* Lists, drafts and recycled slots have their types.
LEMMA PayloadTypes ==
  ASSUME Shape
  PROVE  /\ Published \in SUBSET Updates /\ Nothing \in Payloads
         /\ NoDraft \in Drafts /\ Updates \subseteq Nat
         /\ \A s \in Slots : Recycled(slot[s]) \in SlotRecords
  BY Constants DEF Shape, Published, Nothing, NoDraft, Payloads, Drafts, SlotRecords, Updates, Recycled

\* A held slot has readers, and is current or retired.
LEMMA HeldSlot ==
  ASSUME IInv, NEW r \in Readers, held[r] # NoSlot
  PROVE  /\ held[r] \in Slots /\ slot[held[r]].readers > 0
         /\ slot[held[r]].state \in {"CURRENT", "RETIRED"}
<1>1. held[r] \in Slots /\ slot[held[r]] \in SlotRecords
  BY DEF IInv, Shape
<1>2. r \in Holders(held[r]) /\ Holders(held[r]) \in SUBSET Readers
  BY DEF Holders
<1>3. IsFiniteSet(Holders(held[r]))
  BY <1>2, Constants, FS_Subset
<1>4. Cardinality(Holders(held[r])) \in Nat /\ Cardinality(Holders(held[r])) # 0
  BY <1>2, <1>3, FS_CardinalityType, FS_EmptySet
<1>5. slot[held[r]].readers = Cardinality(Holders(held[r]))
  BY <1>1 DEF IInv, ReadersCounted, Holders
<1>6. slot[held[r]].readers > 0
  BY <1>4, <1>5
<1>7. slot[held[r]].state \notin {"FREE", "PREPARED"}
  BY <1>1, <1>6 DEF IInv, Marked
<1>8. QED
  BY <1>1, <1>6, <1>7 DEF SlotRecords

\* A slot that is free or prepared has no readers and is not the current one.
LEMMA SpareSlot ==
  ASSUME IInv, NEW s \in Slots, slot[s].state \in {"FREE", "PREPARED"}
  PROVE  s # current /\ \A r \in Readers : held[r] # s
<1>1. s # current
  BY DEF IInv, Marked
<1>2. ASSUME NEW r \in Readers, held[r] = s PROVE FALSE
  BY <1>2, HeldSlot, Constants
<1>3. QED
  BY <1>1, <1>2

\* An initialized store satisfies the invariant.
LEMMA InitIInv ==
  ASSUME Init
  PROVE  IInv
<1>1. Shape
  BY Constants DEF Init, Shape, SlotRecords, Payloads, Nothing, Drafts, NoDraft
<1>2. Marked
  BY Constants DEF Init, Marked
<1>3. ReadersCounted
  <2>1. SUFFICES ASSUME NEW s \in Slots
                 PROVE  slot[s].readers = Cardinality({r \in Readers : held[r] = s})
    BY DEF ReadersCounted
  <2>2. {r \in Readers : held[r] = s} = {}
    BY Constants DEF Init
  <2>3. QED
    BY <2>2, FS_EmptySet DEF Init
<1>4. Drafted /\ Grown
  BY DEF Init, Drafted, Grown, Published
<1>5. QED
  BY <1>1, <1>2, <1>3, <1>4 DEF IInv

\* An updater starts from the published list and one new update.
LEMMA BeginIInv ==
  ASSUME IInv, NEW u \in Updaters, Begin(u)
  PROVE  IInv'
<1>0. /\ draft' = [draft EXCEPT ![u] = [revision |-> revision, slot |-> NoSlot,
                                        list |-> Published \cup {begun + 1}]]
      /\ begun' = begun + 1 /\ begun' \in 1 .. MaxUpdates /\ begun' \notin Published
      /\ UNCHANGED <<slot, current, revision, held, answer>>
  BY Constants DEF IInv, Shape, Grown, Begin
<1>1. Published' = Published
  BY <1>0 DEF Published
<1>2. draft'[u] \in Drafts
  BY <1>0, PayloadTypes, Constants DEF IInv, Shape, Drafts, Updates
<1>3. Shape'
  BY <1>0, <1>2, Constants DEF IInv, Shape
<1>4. Marked' /\ ReadersCounted'
  BY <1>0 DEF IInv, Marked, ReadersCounted
<1>5. Drafted'
  <2>1. SUFFICES ASSUME NEW w \in Updaters, draft'[w] # NoDraft
                 PROVE  DraftBased(w)' /\ DraftPlaced(w)'
    BY DEF Drafted
  <2>2. CASE w = u
    BY <1>0, <1>1, <2>2, Constants DEF IInv, Shape, DraftBased, DraftPlaced
  <2>3. CASE w # u
    <3>1. draft'[w] = draft[w] /\ DraftBased(w) /\ DraftPlaced(w)
      BY <1>0, <2>1, <2>3 DEF IInv, Shape, Drafted
    <3>2. 1 .. begun \subseteq 1 .. begun'
      BY <1>0, Constants DEF IInv, Shape
    <3>3. DraftBased(w)'
      BY <1>0, <1>1, <3>1, <3>2 DEF DraftBased
    <3>4. \A x \in Updaters : draft'[x].slot = NoSlot \/ draft'[x].slot = draft[x].slot
      BY <1>0 DEF IInv, Shape
    <3>5. QED
      BY <1>0, <3>1, <3>3, <3>4 DEF DraftPlaced
  <2>4. QED
    BY <2>2, <2>3
<1>6. Grown'
  BY <1>0, <1>1, Constants DEF IInv, Shape, Grown
<1>7. QED
  BY <1>3, <1>4, <1>5, <1>6 DEF IInv

\* Both prepare calls: a free slot takes the list of the draft.
LEMMA PrepareIInv ==
  ASSUME IInv, NEW u \in Updaters, NEW s \in Slots, NEW date \in Dates \cup {0}, Undrafted(u),
         SnapshotPrepare(s, [list |-> draft[u].list, published_at |-> date]),
         draft' = [draft EXCEPT ![u].slot = s],
         UNCHANGED <<kind, current, revision, begun, held, answer>>
  PROVE  IInv'
<1>1. /\ s # current /\ \A r \in Readers : held[r] # s
      /\ slot[s].state = "FREE" /\ slot[s].readers = 0
  BY SpareSlot DEF SnapshotPrepare
<1>2. /\ slot' \in [Slots -> SlotRecords] /\ \A x \in Slots : x # s => slot'[x] = slot[x]
      /\ slot'[s] = [state |-> "PREPARED", readers |-> 0,
                     payload |-> [list |-> draft[u].list, published_at |-> date]]
  <2>1. draft[u].list \in SUBSET Updates
    BY DEF IInv, Shape, Drafts
  <2>2. [list |-> draft[u].list, published_at |-> date] \in Payloads
    BY <2>1 DEF Payloads
  <2>3. [state |-> "PREPARED", readers |-> 0,
         payload |-> [list |-> draft[u].list, published_at |-> date]] \in SlotRecords
    BY <2>2, Constants DEF SlotRecords
  <2>4. QED
    BY <2>3 DEF IInv, Shape, SnapshotPrepare
<1>3. Published' = Published
  BY <1>1, <1>2 DEF IInv, Shape, Published
<1>4. /\ draft'[u] = [draft[u] EXCEPT !.slot = s] /\ draft'[u] \in Drafts
      /\ \A w \in Updaters : w # u => draft'[w] = draft[w]
  BY DEF IInv, Shape, Drafts
<1>5. Shape'
  BY <1>2, <1>4 DEF IInv, Shape
<1>6. Marked'
  BY <1>1, <1>2 DEF IInv, Marked
<1>7. ReadersCounted'
  BY <1>1, <1>2 DEF IInv, ReadersCounted
<1>8. Drafted'
  <2>1. SUFFICES ASSUME NEW w \in Updaters, draft'[w] # NoDraft
                 PROVE  DraftBased(w)' /\ DraftPlaced(w)'
    BY DEF Drafted
  <2>2. \A x \in Updaters : draft[x] # NoDraft => draft[x].slot # s
    BY <1>1, Constants DEF IInv, Drafted, DraftPlaced
  <2>3. \A x \in Updaters : draft[x].slot # s
    BY <2>2, Constants DEF NoDraft
  <2>4. /\ draft[w] # NoDraft /\ draft'[w].revision = draft[w].revision
        /\ draft'[w].list = draft[w].list
    BY <1>4, <2>1 DEF IInv, Shape, Drafts, Undrafted
  <2>5. DraftBased(w) /\ DraftPlaced(w)
    BY <2>4 DEF IInv, Drafted
  <2>6. DraftBased(w)'
    BY <1>3, <2>4, <2>5 DEF DraftBased
  <2>7. draft'[u].slot = s
    BY <1>4 DEF IInv, Shape, Drafts
  <2>8. CASE w = u
    BY <1>2, <1>4, <2>3, <2>4, <2>6, <2>7, <2>8 DEF DraftPlaced
  <2>9. CASE w # u
    <3>1. CASE draft[w].slot = NoSlot
      BY <1>4, <2>6, <2>9, <3>1 DEF DraftPlaced
    <3>2. CASE draft[w].slot # NoSlot
      <4>1. draft'[w] = draft[w] /\ draft[w].slot \in Slots /\ draft[w].slot # s
        BY <1>4, <2>3, <2>9, <3>2 DEF IInv, Shape, Drafts
      <4>2. QED
        BY <1>2, <1>4, <2>5, <2>6, <2>7, <3>2, <4>1, Zenon DEF DraftPlaced
    <3>3. QED
      BY <3>1, <3>2
  <2>10. QED
    BY <2>8, <2>9
<1>9. Grown'
  BY <1>3 DEF IInv, Grown
<1>10. QED
  BY <1>5, <1>6, <1>7, <1>8, <1>9 DEF IInv

\* A discarded draft gives its slot back, and no other draft had that slot.
LEMMA DiscardIInv ==
  ASSUME IInv, NEW u \in Updaters, Discard(u)
  PROVE  IInv'
<1>0. /\ draft' = [draft EXCEPT ![u] = NoDraft] /\ DraftPlaced(u) /\ draft[u] # NoDraft
      /\ UNCHANGED <<kind, current, revision, begun, held, answer>>
  BY DEF Discard, IInv, Drafted
<1>1. \A w \in Updaters : draft'[w] = NoDraft \/ (w # u /\ draft'[w] = draft[w])
  BY <1>0 DEF IInv, Shape
<1>2. draft' \in [Updaters -> Drafts]
  BY <1>0, PayloadTypes DEF IInv, Shape
<1>3. CASE draft[u].slot = NoSlot
  <2>1. slot' = slot /\ Published' = Published
    BY <1>0, <1>3 DEF Discard, Published
  <2>2. Shape' /\ Marked' /\ ReadersCounted' /\ Grown'
    BY <1>0, <1>2, <2>1 DEF IInv, Shape, Marked, ReadersCounted, Grown
  <2>3. Drafted'
    BY <1>0, <1>1, <2>1 DEF IInv, Drafted, DraftBased, DraftPlaced, NoDraft
  <2>4. QED
    BY <2>2, <2>3 DEF IInv
<1>4. CASE draft[u].slot # NoSlot
  <2> DEFINE s == draft[u].slot
  <2>1. s \in Slots /\ slot[s].state = "PREPARED"
    BY <1>0, <1>4 DEF IInv, Shape, Drafts, DraftPlaced
  <2>2. s # current /\ \A r \in Readers : held[r] # s
    BY <2>1, SpareSlot
  <2>3. /\ slot' = [slot EXCEPT ![s] = Recycled(slot[s])] /\ slot[s].readers = 0
        /\ Recycled(slot[s]) = [state |-> "FREE", readers |-> 0, payload |-> Nothing]
    BY <1>4 DEF Discard, Recycled
  <2>4. /\ slot' \in [Slots -> SlotRecords]
        /\ slot'[s] = [state |-> "FREE", readers |-> 0, payload |-> Nothing]
        /\ \A x \in Slots : x # s => slot'[x] = slot[x]
    BY <2>1, <2>3, PayloadTypes DEF IInv, Shape
  <2> HIDE DEF s
  <2>5. Published' = Published
    BY <1>0, <2>2, <2>4 DEF IInv, Shape, Published
  <2>6. Shape' /\ Grown'
    BY <1>0, <1>2, <2>4, <2>5 DEF IInv, Shape, Grown
  <2>7. Marked'
    BY <1>0, <2>1, <2>2, <2>4 DEF IInv, Marked
  <2>8. ReadersCounted'
    BY <1>0, <2>1, <2>3, <2>4 DEF IInv, ReadersCounted
  <2>9. Drafted'
    <3>1. SUFFICES ASSUME NEW w \in Updaters, draft'[w] # NoDraft
                   PROVE  DraftBased(w)' /\ DraftPlaced(w)'
      BY DEF Drafted
    <3>2. w # u /\ draft'[w] = draft[w] /\ DraftBased(w) /\ DraftPlaced(w)
      BY <1>1, <3>1 DEF IInv, Drafted
    <3>3. DraftBased(w)'
      BY <1>0, <2>5, <3>2 DEF DraftBased
    <3>4. draft[w].slot # s /\ draft[w].slot \in Slots \cup {NoSlot}
      BY <1>0, <1>4, <3>2 DEF DraftPlaced, s, IInv, Shape, Drafts
    <3>5. QED
      BY <1>1, <2>4, <3>2, <3>3, <3>4 DEF DraftPlaced, NoDraft
  <2>10. QED
    BY <2>6, <2>7, <2>8, <2>9 DEF IInv
<1>5. QED
  BY <1>3, <1>4

\* What both publish calls do once their own checks have passed.
Publication(u) ==
  /\ PublishCheck(draft[u].slot) /\ PublishCommit(draft[u].slot, draft[u].revision)
  /\ current' = draft[u].slot /\ draft' = [draft EXCEPT ![u] = NoDraft]
  /\ UNCHANGED <<kind, begun, held, answer>>

\* The slots behind a publication, and the list that it publishes.
LEMMA PublicationSlots ==
  ASSUME IInv, NEW u \in Updaters, Publication(u)
  PROVE  /\ draft[u].slot \in Slots /\ draft[u].slot # current
         /\ slot' \in [Slots -> SlotRecords]
         /\ slot'[draft[u].slot] = [slot[draft[u].slot] EXCEPT !.state = "CURRENT"]
         /\ \A x \in Slots : x = current => slot'[x] = Superseded(slot[x])
         /\ \A x \in Slots : x \notin {current, draft[u].slot} => slot'[x] = slot[x]
         /\ \E t \in 1 .. begun : t \notin Published /\ Published' = Published \cup {t}
<1> DEFINE n == draft[u].slot
<1>1. n \in Slots /\ n # current /\ draft[u].revision = revision /\ draft[u] # NoDraft
  BY DEF IInv, Shape, Drafts, Publication, PublishCheck, PublishCommit, NoDraft
<1>2. slot' = [x \in Slots |-> IF x = n THEN [slot[x] EXCEPT !.state = "CURRENT"]
                               ELSE IF x = current THEN Superseded(slot[x]) ELSE slot[x]]
  BY DEF Publication, PublishCommit
<1>3. ASSUME NEW x \in Slots
      PROVE  Superseded(slot[x]) \in SlotRecords /\ [slot[x] EXCEPT !.state = "CURRENT"] \in SlotRecords
  <2>1. slot[x] \in SlotRecords /\ Recycled(slot[x]) \in SlotRecords
    BY PayloadTypes DEF IInv, Shape
  <2>2. QED
    BY <2>1 DEF SlotRecords, Superseded
<1>4. slot' \in [Slots -> SlotRecords]
  BY <1>2, <1>3 DEF IInv, Shape
<1>5. slot'[n] = [slot[n] EXCEPT !.state = "CURRENT"]
  BY <1>1, <1>2
<1>6. DraftBased(u) /\ DraftPlaced(u)
  BY <1>1 DEF IInv, Drafted
<1>7. slot'[n].payload = slot[n].payload
  BY <1>1, <1>5 DEF IInv, Shape, SlotRecords
<1>8. slot[n].payload.list = draft[u].list
  BY <1>1, <1>6, Constants DEF DraftPlaced
<1>9. Published' = draft[u].list
  BY <1>1, <1>7, <1>8, Constants DEF Published, Publication
<1>10. \E t \in 1 .. begun : t \notin Published /\ Published' = Published \cup {t}
  BY <1>1, <1>6, <1>9 DEF DraftBased
<1>11. QED
  BY <1>1, <1>2, <1>4, <1>5, <1>10

\* After a publication every other draft is based on an older revision.
LEMMA PublicationIInv ==
  ASSUME IInv, NEW u \in Updaters, Publication(u)
  PROVE  IInv'
<1> DEFINE n == draft[u].slot
<1>1. /\ n \in Slots /\ n # current /\ current' = n
      /\ slot' \in [Slots -> SlotRecords]
      /\ slot'[n] = [slot[n] EXCEPT !.state = "CURRENT"]
      /\ \A x \in Slots : x = current => slot'[x] = Superseded(slot[x])
      /\ \A x \in Slots : x \notin {current, n} => slot'[x] = slot[x]
      /\ \E t \in 1 .. begun : t \notin Published /\ Published' = Published \cup {t}
  BY PublicationSlots, Zenon DEF Publication
<1>2. /\ revision' = revision + 1 /\ revision' \in 0 .. MaxRevision /\ slot[n].state = "PREPARED"
      /\ draft' = [draft EXCEPT ![u] = NoDraft] /\ UNCHANGED <<begun, held, answer>>
  BY Constants DEF Publication, PublishCheck, PublishCommit, IInv, Shape
<1> HIDE DEF n
<1>3. \A w \in Updaters : draft'[w] = NoDraft \/ (w # u /\ draft'[w] = draft[w])
  BY <1>2 DEF IInv, Shape
<1>4. slot'[n].state = "CURRENT" /\ slot'[n].readers = slot[n].readers
  BY <1>1 DEF IInv, Shape, SlotRecords
<1>5. ASSUME NEW x \in Slots, x = current
      PROVE  /\ slot'[x].readers = slot[x].readers
             /\ \/ slot'[x].state = "RETIRED" /\ slot'[x].readers # 0
                \/ slot'[x].state = "FREE" /\ slot'[x].readers = 0 /\ slot'[x].payload = Nothing
  <2>1. slot[x] \in SlotRecords /\ slot'[x] = Superseded(slot[x])
    BY <1>1, <1>5 DEF IInv, Shape
  <2>2. QED
    BY <2>1, Constants DEF SlotRecords, Superseded, Recycled
<1>6. Shape'
  BY <1>1, <1>2, PayloadTypes DEF IInv, Shape
<1>7. Marked'
  <2>1. SUFFICES ASSUME NEW x \in Slots
                 PROVE  /\ slot'[x].state = "CURRENT" <=> x = current'
                        /\ slot'[x].state = "FREE" => slot'[x].readers = 0 /\ slot'[x].payload = Nothing
                        /\ slot'[x].state = "PREPARED" => slot'[x].readers = 0
                        /\ slot'[x].state = "RETIRED" => slot'[x].readers # 0
    BY DEF Marked
  <2>2. CASE x = n
    BY <1>1, <1>4, <2>2, Zenon
  <2>3. CASE x = current
    BY <1>1, <1>5, <2>3
  <2>4. CASE x \notin {current, n}
    BY <1>1, <2>4 DEF IInv, Marked
  <2>5. QED
    BY <2>2, <2>3, <2>4
<1>8. ReadersCounted'
  <2>1. \A x \in Slots : slot'[x].readers = slot[x].readers
    BY <1>1, <1>4, <1>5, Zenon
  <2>2. held' = held
    BY <1>2
  <2>3. QED
    BY <2>1, <2>2 DEF IInv, ReadersCounted
<1>9. Drafted'
  <2>1. SUFFICES ASSUME NEW w \in Updaters, draft'[w] # NoDraft
                 PROVE  DraftBased(w)' /\ DraftPlaced(w)'
    BY DEF Drafted
  <2>2. w # u /\ draft'[w] = draft[w] /\ DraftBased(w) /\ DraftPlaced(w)
    BY <1>3, <2>1 DEF IInv, Drafted
  <2>3. draft[w].revision \in Int /\ revision \in Int
    BY DEF IInv, Shape, Drafts
  <2>4. DraftBased(w)'
    BY <1>2, <2>2, <2>3 DEF DraftBased
  <2>5. draft[w].slot # NoSlot => draft[w].slot \notin {current, n} /\ draft[w].slot \in Slots
    BY <2>2 DEF DraftPlaced, n, IInv, Shape, Drafts, Marked
  <2>6. QED
    BY <1>1, <1>3, <2>2, <2>4, <2>5 DEF DraftPlaced, NoDraft
<1>10. Grown'
  BY <1>1, <1>2 DEF IInv, Grown
<1>11. QED
  BY <1>6, <1>7, <1>8, <1>9, <1>10 DEF IInv

\* A new lease is counted in the current slot.
LEMMA AcquireIInv ==
  ASSUME IInv, NEW r \in Readers, Acquire(r)
  PROVE  IInv'
<1>1. /\ current \in Slots /\ held[r] = NoSlot /\ slot[current].state = "CURRENT"
      /\ slot' = [slot EXCEPT ![current].readers = slot[current].readers + 1]
      /\ slot[current].readers + 1 \in 0 .. MaxReaders
      /\ held' = [held EXCEPT ![r] = current]
      /\ UNCHANGED <<kind, current, revision, begun, draft, answer>>
  BY Constants DEF Acquire, IInv, Shape, SlotRecords
<1>2. /\ slot' \in [Slots -> SlotRecords]
      /\ slot'[current] = [slot[current] EXCEPT !.readers = slot[current].readers + 1]
      /\ \A x \in Slots : x # current => slot'[x] = slot[x]
  BY <1>1 DEF IInv, Shape, SlotRecords
<1>3. /\ slot'[current].state = "CURRENT" /\ slot'[current].payload = slot[current].payload
      /\ slot'[current].readers = slot[current].readers + 1
  BY <1>1, <1>2 DEF IInv, Shape, SlotRecords
<1>4. Published' = Published
  BY <1>1, <1>3 DEF Published
<1>5. Shape' /\ Grown'
  BY <1>1, <1>2, <1>4 DEF IInv, Shape, Grown
<1>6. Marked'
  BY <1>1, <1>2, <1>3 DEF IInv, Marked
<1>7. ReadersCounted'
  <2>1. SUFFICES ASSUME NEW s \in Slots
                 PROVE  slot'[s].readers = Cardinality(Holders(s)')
    BY DEF ReadersCounted, Holders
  <2>2. slot[s].readers = Cardinality(Holders(s)) /\ IsFiniteSet(Holders(s))
    BY FS_Subset, Constants DEF IInv, ReadersCounted, Holders
  <2>3. CASE s = current
    <3>1. Holders(s)' = Holders(s) \cup {r} /\ r \notin Holders(s)
      BY <1>1, <2>3, Constants DEF Holders, IInv, Shape
    <3>2. Cardinality(Holders(s) \cup {r}) = Cardinality(Holders(s)) + 1
      BY <2>2, <3>1, FS_AddElement, Zenon
    <3>3. QED
      BY <1>3, <2>2, <2>3, <3>1, <3>2
  <2>4. CASE s # current
    <3>1. Holders(s)' = Holders(s)
      BY <1>1, <2>4, Constants DEF Holders, IInv, Shape
    <3>2. QED
      BY <1>2, <2>2, <2>4, <3>1
  <2>5. QED
    BY <2>3, <2>4
<1>8. Drafted'
  <2>1. SUFFICES ASSUME NEW w \in Updaters, draft[w] # NoDraft
                 PROVE  DraftBased(w)' /\ DraftPlaced(w)'
    BY <1>1 DEF Drafted
  <2>2. DraftBased(w) /\ DraftPlaced(w)
    BY <2>1 DEF IInv, Drafted
  <2>3. DraftBased(w)'
    BY <1>1, <1>4, <2>2 DEF DraftBased
  <2>4. draft[w].slot # NoSlot => draft[w].slot # current /\ draft[w].slot \in Slots
    BY <1>1, <2>2 DEF DraftPlaced, IInv, Shape, Drafts
  <2>5. QED
    BY <1>1, <1>2, <2>2, <2>3, <2>4 DEF DraftPlaced
<1>9. QED
  BY <1>5, <1>6, <1>7, <1>8 DEF IInv

\* What a release leaves of the slot, and of its holders.
LEMMA ReleasedSlot ==
  ASSUME IInv, NEW r \in Readers, Release(r)
  PROVE  LET s == held[r] IN
         /\ s \in Slots /\ slot[s] \in SlotRecords /\ slot[s].state \in {"CURRENT", "RETIRED"}
         /\ slot'[s] = Released(slot[s]) /\ slot'[s] \in SlotRecords
         /\ slot'[s].readers = slot[s].readers - 1
         /\ \/ slot'[s].state = slot[s].state /\ slot'[s].payload = slot[s].payload
               /\ (slot[s].state = "RETIRED" => slot'[s].readers # 0)
            \/ /\ slot[s].state = "RETIRED" /\ slot[s].readers = 1 /\ slot'[s].readers = 0
               /\ slot'[s].state = "FREE" /\ slot'[s].payload = Nothing
         /\ \A x \in Slots : x # s => slot'[x] = slot[x]
<1> DEFINE s == held[r]
<1>1. s \in Slots /\ slot[s].readers > 0 /\ slot[s].state \in {"CURRENT", "RETIRED"}
  BY HeldSlot DEF Release
<1>2. slot[s] \in SlotRecords /\ Recycled(slot[s]) \in SlotRecords
  BY <1>1, PayloadTypes DEF IInv, Shape
<1>3. slot'[s] = Released(slot[s]) /\ \A x \in Slots : x # s => slot'[x] = slot[x]
  BY <1>1 DEF Release, IInv, Shape
<1> HIDE DEF s
<1>4. CASE slot[s].readers = 1 /\ slot[s].state = "RETIRED"
  <2>1. Released(slot[s]) = Recycled(slot[s])
    BY <1>4 DEF Released
  <2>2. QED
    BY <1>1, <1>2, <1>3, <1>4, <2>1 DEF Recycled, s
<1>5. CASE ~(slot[s].readers = 1 /\ slot[s].state = "RETIRED")
  <2>1. Released(slot[s]) = [slot[s] EXCEPT !.readers = slot[s].readers - 1]
    BY <1>5 DEF Released
  <2>2. slot[s].readers \in 0 .. MaxReaders /\ slot[s].readers - 1 \in 0 .. MaxReaders
    BY <1>1, <1>2, Constants DEF SlotRecords
  <2>3. /\ slot'[s] \in SlotRecords /\ slot'[s].readers = slot[s].readers - 1
        /\ slot'[s].state = slot[s].state /\ slot'[s].payload = slot[s].payload
    BY <1>2, <1>3, <2>1, <2>2 DEF SlotRecords
  <2>4. slot[s].state = "RETIRED" => slot'[s].readers # 0
    BY <1>5, <2>2, <2>3
  <2>5. QED
    BY <1>1, <1>2, <1>3, <2>3, <2>4 DEF s
<1>6. QED
  BY <1>4, <1>5

\* A release is counted in the slot that was held.
LEMMA ReleaseIInv ==
  ASSUME IInv, NEW r \in Readers, Release(r)
  PROVE  IInv'
<1> DEFINE s == held[r]
<1>1. /\ s \in Slots /\ slot[s] \in SlotRecords /\ slot[s].state \in {"CURRENT", "RETIRED"}
      /\ slot'[s] \in SlotRecords /\ slot'[s].readers = slot[s].readers - 1
      /\ \/ slot'[s].state = slot[s].state /\ slot'[s].payload = slot[s].payload
            /\ (slot[s].state = "RETIRED" => slot'[s].readers # 0)
         \/ /\ slot[s].state = "RETIRED" /\ slot[s].readers = 1 /\ slot'[s].readers = 0
            /\ slot'[s].state = "FREE" /\ slot'[s].payload = Nothing
      /\ \A x \in Slots : x # s => slot'[x] = slot[x]
  BY ReleasedSlot
<1>2. /\ held' = [held EXCEPT ![r] = NoSlot] /\ answer' = [answer EXCEPT ![r] = NoLease]
      /\ slot' = [slot EXCEPT ![s] = Released(slot[s])]
      /\ UNCHANGED <<kind, current, revision, begun, draft>>
  BY DEF Release
<1>3. s = held[r]
  OBVIOUS
<1> HIDE DEF s
<1>4. Published' = Published
  <2>1. CASE current = s
    BY <1>1, <1>2, <2>1 DEF Published, IInv, Marked
  <2>2. CASE current # s
    BY <1>1, <1>2, <2>2 DEF Published, IInv, Shape
  <2>3. QED
    BY <2>1, <2>2
<1>5. slot' \in [Slots -> SlotRecords]
  BY <1>1, <1>2 DEF IInv, Shape
<1>6. Shape' /\ Grown'
  BY <1>2, <1>4, <1>5 DEF IInv, Shape, Grown
<1>7. Marked'
  <2>1. SUFFICES ASSUME NEW x \in Slots
                 PROVE  /\ slot'[x].state = "CURRENT" <=> x = current
                        /\ slot'[x].state = "FREE" => slot'[x].readers = 0 /\ slot'[x].payload = Nothing
                        /\ slot'[x].state = "PREPARED" => slot'[x].readers = 0
                        /\ slot'[x].state = "RETIRED" => slot'[x].readers # 0
    BY <1>2 DEF Marked
  <2>2. CASE x = s
    BY <1>1, <2>2, Zenon DEF IInv, Marked
  <2>3. CASE x # s
    BY <1>1, <2>3 DEF IInv, Marked
  <2>4. QED
    BY <2>2, <2>3
<1>8. ReadersCounted'
  <2>1. SUFFICES ASSUME NEW x \in Slots
                 PROVE  slot'[x].readers = Cardinality(Holders(x)')
    BY DEF ReadersCounted, Holders
  <2>2. slot[x].readers = Cardinality(Holders(x)) /\ IsFiniteSet(Holders(x))
    BY FS_Subset, Constants DEF IInv, ReadersCounted, Holders
  <2>3. CASE x = s
    <3>1. Holders(x)' = Holders(x) \ {r} /\ r \in Holders(x)
      BY <1>2, <1>3, <2>3, Constants DEF Holders, IInv, Shape
    <3>2. Cardinality(Holders(x) \ {r}) = Cardinality(Holders(x)) - 1
      BY <2>2, <3>1, FS_RemoveElement, Zenon
    <3>3. QED
      BY <1>1, <2>2, <2>3, <3>1, <3>2
  <2>4. CASE x # s
    <3>1. Holders(x)' = Holders(x)
      BY <1>2, <1>3, <2>4, Constants DEF Holders, IInv, Shape
    <3>2. QED
      BY <1>1, <2>2, <2>4, <3>1
  <2>5. QED
    BY <2>3, <2>4
<1>9. Drafted'
  <2>1. SUFFICES ASSUME NEW w \in Updaters, draft[w] # NoDraft
                 PROVE  DraftBased(w)' /\ DraftPlaced(w)'
    BY <1>2 DEF Drafted
  <2>2. DraftBased(w) /\ DraftPlaced(w)
    BY <2>1 DEF IInv, Drafted
  <2>3. DraftBased(w)'
    BY <1>2, <1>4, <2>2 DEF DraftBased
  <2>4. draft[w].slot # NoSlot => draft[w].slot # s /\ draft[w].slot \in Slots
    BY <1>1, <2>2 DEF DraftPlaced, IInv, Shape, Drafts
  <2>5. QED
    BY <1>1, <1>2, <2>2, <2>3, <2>4 DEF DraftPlaced
<1>10. QED
  BY <1>6, <1>7, <1>8, <1>9 DEF IInv

\* Every step is a begin, a preparation, a discard, a publication or a step of
\* one reader; a stuttering step changes nothing.
LEMMA StepCases ==
  ASSUME [Next]_vars
  PROVE  \/ \E u \in Updaters : Begin(u) \/ Discard(u) \/ Publication(u)
         \/ \E u \in Updaters, s \in Slots, date \in Dates \cup {0} :
              /\ Undrafted(u)
              /\ SnapshotPrepare(s, [list |-> draft[u].list, published_at |-> date])
              /\ draft' = [draft EXCEPT ![u].slot = s]
              /\ UNCHANGED <<kind, current, revision, begun, held, answer>>
         \/ \E r \in Readers : Acquire(r) \/ Release(r) \/ Query(r)
         \/ UNCHANGED vars
<1>1. ASSUME NEW u \in Updaters, X509Publish(u) \/ CclPublish(u) PROVE Publication(u)
  BY <1>1 DEF X509Publish, CclPublish, Publication
<1>2. ASSUME NEW u \in Updaters, NEW s \in Slots,
             X509Prepare(u, s) \/ \E p, q \in Dates : CclPrepare(u, s, p, q)
      PROVE  \E date \in Dates \cup {0} :
               /\ Undrafted(u)
               /\ SnapshotPrepare(s, [list |-> draft[u].list, published_at |-> date])
               /\ draft' = [draft EXCEPT ![u].slot = s]
               /\ UNCHANGED <<kind, current, revision, begun, held, answer>>
  BY <1>2 DEF X509Prepare, CclPrepare
<1>3. QED
  BY <1>1, <1>2, Zenon DEF Next

\* Every step preserves the invariant.
LEMMA NextIInv ==
  ASSUME IInv, [Next]_vars
  PROVE  IInv'
<1>1. ASSUME NEW u \in Updaters, Begin(u) \/ Discard(u) \/ Publication(u) PROVE IInv'
  BY <1>1, BeginIInv, DiscardIInv, PublicationIInv
<1>2. ASSUME NEW u \in Updaters, NEW s \in Slots, NEW date \in Dates \cup {0}, Undrafted(u),
             SnapshotPrepare(s, [list |-> draft[u].list, published_at |-> date]),
             draft' = [draft EXCEPT ![u].slot = s],
             UNCHANGED <<kind, current, revision, begun, held, answer>>
      PROVE  IInv'
  BY <1>2, PrepareIInv, Zenon
<1>3. ASSUME NEW r \in Readers, Query(r) PROVE IInv'
  <2>1. /\ UNCHANGED <<slot, current, revision, begun, draft, held>> /\ Published' = Published
        /\ answer' = [answer EXCEPT ![r] = Lookup(slot[held[r]])]
    BY <1>3 DEF Query, Published
  <2>2. Lookup(slot[held[r]]) \in (SUBSET Updates) \cup {NoLease}
    BY <1>3, HeldSlot DEF Query, Lookup, IInv, Shape, SlotRecords, Payloads
  <2>3. Shape'
    BY <2>1, <2>2 DEF IInv, Shape
  <2>4. Drafted'
    BY <2>1 DEF IInv, Drafted, DraftBased, DraftPlaced
  <2>5. QED
    BY <2>1, <2>3, <2>4 DEF IInv, Marked, ReadersCounted, Grown
<1>4. ASSUME NEW r \in Readers, Acquire(r) \/ Release(r) PROVE IInv'
  BY <1>4, AcquireIInv, ReleaseIInv
<1>5. CASE UNCHANGED vars
  <2>1. UNCHANGED <<slot, current, revision, begun, draft, held, answer>> /\ Published' = Published
    BY <1>5 DEF vars, Published
  <2>2. Drafted'
    BY <2>1 DEF IInv, Drafted, DraftBased, DraftPlaced
  <2>3. QED
    BY <2>1, <2>2 DEF IInv, Shape, Marked, ReadersCounted, Grown
<1>6. QED
  BY <1>1, <1>2, <1>3, <1>4, <1>5, StepCases, Zenon

\* The invariant holds in every reachable state.
LEMMA Invariant == Spec => []IInv
  BY InitIInv, NextIInv, PTL DEF Spec

\* The slots, the current slot and the reader counts keep their shape; the one
\* slot marked current is the store's, and a free slot is empty (snapshot.c).
THEOREM TypeCorrect == Spec => []TypeOK
<1>1. IInv => TypeOK
  BY DEF IInv, Shape, Marked, TypeOK
<1>2. QED
  BY <1>1, Invariant, PTL

\* The reader count of a slot is the number of readers that hold it
\* (tc_snapshot_acquire and tc_snapshot_release).
THEOREM CountsExact == Spec => []ReadersCounted
<1>1. IInv => ReadersCounted
  BY DEF IInv
<1>2. QED
  BY <1>1, Invariant, PTL

\* No publication of a canceled card list goes back in time
\* (TC_TWIC_CCL_store_publish).
THEOREM PublicationOrder == Spec => DatesAscend
<1> DEFINE Ascending == kind = "ccl" /\ current # NoSlot /\ current' # current =>
              slot'[current'].payload.published_at >= slot[current].payload.published_at
<1>1. ASSUME IInv, [Next]_vars PROVE [Ascending]_vars
  <2>1. SUFFICES ASSUME kind = "ccl", current # NoSlot, current' # current
                 PROVE  slot'[current'].payload.published_at >= slot[current].payload.published_at
    OBVIOUS
  <2>2. PICK u \in Updaters : CclPublish(u)
    BY <1>1, <2>1, Zenon DEF Next, vars, Begin, Discard, X509Publish, X509Prepare, CclPrepare, Acquire,
                      Release, Query
  <2>3. Publication(u)
    BY <2>2 DEF CclPublish, Publication
  <2>4. /\ draft[u].slot \in Slots /\ current' = draft[u].slot
        /\ slot'[draft[u].slot] = [slot[draft[u].slot] EXCEPT !.state = "CURRENT"]
    BY <1>1, <2>3, PublicationSlots, Zenon DEF Publication
  <2>5. slot'[current'].payload = slot[draft[u].slot].payload
    BY <1>1, <2>4 DEF IInv, Shape, SlotRecords
  <2>6. QED
    BY <2>1, <2>2, <2>5 DEF CclPublish
<1>2. QED
  BY <1>1, Invariant, PTL DEF Spec, DatesAscend

\* A lookup answers from the list that is current at that moment, or refuses
\* (TC_TWIC_CCL_snapshot_contains).
THEOREM LookupsCurrent == Spec => AnswersCurrent
<1> DEFINE Answered == \A r \in Readers : answer'[r] \notin {answer[r], NoLease} => answer'[r] = Published
<1>1. ASSUME IInv, [Next]_vars PROVE [Answered]_vars
  <2>1. SUFFICES ASSUME NEW r \in Readers, answer'[r] \notin {answer[r], NoLease}
                 PROVE  answer'[r] = Published
    OBVIOUS
  <2>2. PICK q \in Readers : Release(q) \/ Query(q)
    BY <1>1, <2>1, Zenon DEF Next, vars, Begin, Discard, X509Publish, CclPublish, X509Prepare, CclPrepare,
                      Acquire
  <2>3. answer \in [Readers -> (SUBSET Updates) \cup {NoLease}]
    BY <1>1 DEF IInv, Shape
  <2>4. CASE Release(q)
    BY <2>1, <2>3, <2>4 DEF Release
  <2>5. CASE Query(q)
    <3>1. q = r /\ answer'[r] = Lookup(slot[held[r]])
      BY <2>1, <2>3, <2>5 DEF Query
    <3>2. held[r] \in Slots /\ slot[held[r]].state \in {"CURRENT", "RETIRED"}
      BY <1>1, <2>5, <3>1, HeldSlot DEF Query
    <3>3. slot[held[r]].state = "CURRENT" /\ answer'[r] = slot[held[r]].payload.list
      BY <2>1, <3>1, <3>2 DEF Lookup
    <3>4. held[r] = current
      BY <1>1, <3>2, <3>3 DEF IInv, Marked
    <3>5. QED
      BY <3>2, <3>3, <3>4, Constants DEF Published
  <2>6. QED
    BY <2>2, <2>4, <2>5
<1>2. QED
  BY <1>1, Invariant, PTL DEF Spec, AnswersCurrent

\* A slot keeps its list as long as a reader holds it: only the release of the
\* last holder can recycle it.
LEMMA LeasesStable ==
  ASSUME IInv, NEW x \in Readers, held[x] # NoSlot, held' = held,
         \/ UNCHANGED slot
         \/ \E s \in Slots : /\ slot[s].state \in {"FREE", "PREPARED"}
                             /\ \A y \in Slots : y # s => slot'[y] = slot[y]
         \/ \E u \in Updaters : Publication(u)
  PROVE  slot'[held[x]].payload = slot[held[x]].payload
<1>1. held[x] \in Slots /\ slot[held[x]].readers > 0 /\ slot[held[x]] \in SlotRecords
      /\ slot[held[x]].state \in {"CURRENT", "RETIRED"}
  BY HeldSlot DEF IInv, Shape
<1>2. ASSUME NEW u \in Updaters, Publication(u)
      PROVE  slot'[held[x]].payload = slot[held[x]].payload
  <2>1. held[x] # draft[u].slot
    BY <1>1, <1>2 DEF Publication, PublishCheck
  <2>2. CASE held[x] = current
    BY <1>1, <1>2, <2>2, PublicationSlots, Zenon DEF Superseded, SlotRecords
  <2>3. CASE held[x] # current
    BY <1>1, <1>2, <2>1, <2>3, PublicationSlots, Zenon
  <2>4. QED
    BY <2>2, <2>3
<1>3. QED
  BY <1>1, <1>2

\* The store implements leased versions: a lease keeps its list until it is
\* released, and a publication adds one update to the published list and drops
\* none (snapshot.c against its users in x509_store.c and twic_ccl.c).
THEOREM Refinement == Spec => ImplementsVersions
<1>1. ASSUME Init PROVE V!Init
  BY <1>1, Constants DEF Init, V!Init, Published, Leased
<1>2. ASSUME IInv, [Next]_vars PROVE [V!Next]_<<Published, Leased>>
  <2>1. Shape /\ Leased = [r \in Readers |-> IF held[r] = NoSlot THEN NoLease ELSE slot[held[r]].payload.list]
        /\ Leased' = [r \in Readers |-> IF held'[r] = NoSlot THEN NoLease ELSE slot'[held'[r]].payload.list]
    BY <1>2 DEF IInv, Leased
  <2>2. ASSUME NEW u \in Updaters, Publication(u) PROVE V!Next
    <3>1. Leased' = Leased
      BY <1>2, <2>1, <2>2, LeasesStable, Zenon DEF Publication
    <3>2. PICK t \in 1 .. begun : t \notin Published /\ Published' = Published \cup {t}
      BY <1>2, <2>2, PublicationSlots, Zenon
    <3>3. t \in Updates
      BY <2>1, Constants DEF Shape, Updates
    <3>4. QED
      BY <3>1, <3>2, <3>3 DEF V!Next, V!PublishUpdate
  <2>3. ASSUME NEW s \in Slots, slot[s].state \in {"FREE", "PREPARED"}, held' = held,
               current' = current, \A y \in Slots : y # s => slot'[y] = slot[y]
        PROVE  UNCHANGED <<Published, Leased>>
    <3>1. s # current
      BY <1>2, <2>3, SpareSlot
    <3>2. Published' = Published
      BY <2>1, <2>3, <3>1 DEF Published, Shape
    <3>3. Leased' = Leased
      BY <1>2, <2>1, <2>3, LeasesStable
    <3>4. QED
      BY <3>2, <3>3
  <2>4. ASSUME UNCHANGED <<slot, current, held>> PROVE UNCHANGED <<Published, Leased>>
    BY <2>1, <2>4 DEF Published
  <2>5. ASSUME NEW u \in Updaters, Begin(u) \/ Discard(u) PROVE UNCHANGED <<Published, Leased>>
    <3>1. CASE Begin(u)
      BY <2>4, <3>1 DEF Begin
    <3>2. CASE Discard(u) /\ draft[u].slot = NoSlot
      BY <2>4, <3>2 DEF Discard
    <3>3. CASE Discard(u) /\ draft[u].slot # NoSlot
      <4>1. draft[u].slot \in Slots /\ slot \in [Slots -> SlotRecords]
        BY <2>1, <3>3 DEF Shape, Drafts
      <4>2. /\ slot[draft[u].slot].state = "PREPARED" /\ held' = held /\ current' = current
            /\ \A y \in Slots : y # draft[u].slot => slot'[y] = slot[y]
        BY <3>3, <4>1 DEF Discard
      <4>3. QED
        BY <2>3, <4>1, <4>2
    <3>4. QED
      BY <2>5, <3>1, <3>2, <3>3
  <2>6. ASSUME NEW u \in Updaters, NEW s \in Slots, NEW date \in Dates \cup {0},
               SnapshotPrepare(s, [list |-> draft[u].list, published_at |-> date]),
               UNCHANGED <<kind, current, revision, begun, held, answer>>
        PROVE  UNCHANGED <<Published, Leased>>
    <3>1. slot[s].state = "FREE" /\ \A y \in Slots : y # s => slot'[y] = slot[y]
      BY <2>1, <2>6 DEF SnapshotPrepare, Shape
    <3>2. QED
      BY <2>3, <2>6, <3>1
  <2>7. ASSUME NEW r \in Readers, Acquire(r) PROVE V!Next
    <3>1. /\ current \in Slots /\ held[r] = NoSlot /\ held' = [held EXCEPT ![r] = current]
          /\ current' = current
      BY <2>1, <2>7 DEF Acquire, Shape
    <3>2. \A x \in Slots : slot'[x].payload = slot[x].payload
      BY <2>1, <2>7 DEF Acquire, Shape, SlotRecords
    <3>3. Published' = Published /\ Published # {} /\ Published = slot[current].payload.list
      BY <1>2, <3>1, <3>2, Constants DEF Published, IInv, Grown
    <3>4. Leased' = [Leased EXCEPT ![r] = Published] /\ Leased[r] = NoLease
      BY <2>1, <3>1, <3>2, <3>3, Constants DEF Shape
    <3>5. QED
      BY <3>3, <3>4, Zenon DEF V!Next, V!Lease
  <2>8. ASSUME NEW r \in Readers, Release(r) PROVE V!Next
    <3>1. /\ held[r] \in Slots /\ slot[held[r]] \in SlotRecords
          /\ held' = [held EXCEPT ![r] = NoSlot] /\ current' = current
          /\ \/ slot'[held[r]].payload = slot[held[r]].payload
             \/ slot[held[r]].state = "RETIRED" /\ slot[held[r]].readers = 1
          /\ \A x \in Slots : x # held[r] => slot'[x] = slot[x]
      BY <1>2, <2>8, ReleasedSlot, Zenon DEF Release
    <3>2. Published' = Published
      <4>1. CASE current = held[r]
        BY <1>2, <3>1, <4>1 DEF Published, IInv, Marked
      <4>2. CASE current # held[r]
        BY <2>1, <3>1, <4>2 DEF Published, Shape
      <4>3. QED
        BY <4>1, <4>2
    <3>3. ASSUME NEW q \in Readers, q # r, held[q] = held[r]
          PROVE  slot'[held[r]].payload = slot[held[r]].payload
      <4>1. SUFFICES ASSUME slot[held[r]].readers = 1 PROVE FALSE
        BY <3>1
      <4>2. IsFiniteSet(Holders(held[r])) /\ Cardinality(Holders(held[r])) = 1
        BY <1>2, <3>1, <4>1, FS_Subset, Constants, Zenon DEF Holders, IInv, ReadersCounted
      <4>3. PICK y : Holders(held[r]) = {y}
        BY <4>2, FS_Singleton, Zenon
      <4>4. QED
        BY <3>3, <4>3 DEF Holders
    <3>4. \A q \in Readers : q # r /\ held[q] # NoSlot => slot'[held[q]].payload = slot[held[q]].payload
      BY <2>1, <3>1, <3>3 DEF Shape
    <3>5. Leased' = [Leased EXCEPT ![r] = NoLease]
      BY <2>1, <3>1, <3>4 DEF Shape
    <3>6. Leased[r] # NoLease
      BY <2>1, <3>1, Constants DEF SlotRecords, Payloads
    <3>7. QED
      BY <3>2, <3>5, <3>6, Zenon DEF V!Next, V!EndLease
  <2>9. ASSUME (\E r \in Readers : Query(r)) \/ UNCHANGED vars PROVE UNCHANGED <<Published, Leased>>
    BY <2>4, <2>9 DEF Query, vars
  <2>10. QED
    BY <1>2, <2>2, <2>5, <2>6, <2>7, <2>8, <2>9, StepCases, Zenon
<1>3. QED
  BY <1>1, <1>2, Invariant, PTL DEF Spec, ImplementsVersions, V!Spec

(* ---------------------- the list of canceled cards ----------------------- *)

\* The constants and variables of CancelList, beside answer.
CONSTANTS Keys, DateChars, Jobs, Policies, ReadLimits, MaxStaged
VARIABLES job, phase, reader, chunk, error, source, store, search

\* An element of a sequence is of its type.
LEMMA SeqElement == ASSUME NEW S, NEW s \in Seq(S), NEW i \in 1 .. Len(s) PROVE s[i] \in S
PROOF
  BY SMT

LEMMA SeqLength == ASSUME NEW S, NEW s \in Seq(S) PROVE Len(s) \in Nat
PROOF
  BY SMT

Canceled == INSTANCE CancelList

\* The lists in the store and the list being searched can be searched.
Searchable(keys) == keys \in Seq(Keys) /\ Canceled!Ascending(keys)

StoreSound ==
  /\ job \in Jobs /\ store \in [next : Canceled!Lists, current : Canceled!Lists, readers : Nat]
  /\ Searchable(store.next.keys) /\ Searchable(store.current.keys)
  /\ Canceled!ListsAscending /\ Canceled!LeaseReturned

\* index_prepare has read and compared the keys up to its position.
KeysChecked ==
  phase = "keys" =>
    /\ source.keys \in Seq(Canceled!Entries) /\ source.at \in 0 .. Len(source.keys)
    /\ \A i \in 1 .. source.at : source.keys[i] \in Keys
    /\ \A i, j \in 1 .. source.at : i <= j => source.keys[i] <= source.keys[j]

\* The query lies between the keys that the search has excluded.
Between ==
  phase = "search" =>
    /\ Searchable(search.keys) /\ search.key \in Keys
    /\ search.begin \in Nat /\ search.end \in Nat /\ search.end <= Len(search.keys)
    /\ search.begin <= search.end
    /\ \A i \in 1 .. Len(search.keys) : /\ i <= search.begin => search.keys[i] < search.key
                                        /\ i > search.end => search.key < search.keys[i]
    /\ answer.key = search.key /\ answer.fresh /\ answer.result = "NONE"
    /\ answer = [result |-> answer.result, key |-> answer.key, listed |-> answer.listed,
                 warning |-> answer.warning, fresh |-> answer.fresh]
    /\ search = [key |-> search.key, begin |-> search.begin, end |-> search.end, reads |-> search.reads,
                 allowed |-> search.allowed, keys |-> search.keys]

Scanning == phase = "scanned" => job.mode = "csv"

CanceledInv == StoreSound /\ Scanning /\ KeysChecked /\ Between /\ Canceled!AnswersExact

LEMMA EmptyListTyped ==
  ASSUME Canceled!CallTypes
  PROVE  Canceled!NoList \in Canceled!Lists /\ Searchable(Canceled!NoList.keys)
PROOF
  BY DEF Canceled!NoList, Canceled!Lists, Searchable, Canceled!Ascending

LEMMA CanceledInit ==
  ASSUME Canceled!CallTypes, Canceled!Init
  PROVE  CanceledInv
<1>1. StoreSound
  <2>1. job.current \in Canceled!Lists /\ Searchable(job.current.keys)
    BY DEF Canceled!CallTypes, Canceled!Init, Searchable, Canceled!Lists
  <2>2. QED
    BY <2>1, EmptyListTyped DEF Canceled!Init, StoreSound, Canceled!ListsAscending, Canceled!LeaseReturned
<1>2. Scanning /\ KeysChecked /\ Between
  BY DEF Canceled!Init, Scanning, KeysChecked, Between
<1>3. Canceled!AnswersExact
  BY DEF Canceled!Init, Canceled!AnswersExact, Canceled!NoAnswer
<1>4. QED
  BY <1>1, <1>2, <1>3 DEF CanceledInv

\* A step that leaves the store, the search and the answer alone, and ends in
\* no loop over the index.
LEMMA CanceledQuiet ==
  ASSUME CanceledInv, phase # "search", phase' \in {"idle", "rows", "scanned"},
         phase' = "scanned" => job.mode = "csv", UNCHANGED <<job, store, search, answer>>
  PROVE  CanceledInv'
<1>1. StoreSound'
  BY DEF CanceledInv, StoreSound, Canceled!ListsAscending, Canceled!LeaseReturned, Searchable,
         Canceled!Ascending, Canceled!Lists, Canceled!NoList
<1>2. Scanning' /\ KeysChecked' /\ Between'
  BY DEF Scanning, KeysChecked, Between
<1>3. Canceled!AnswersExact'
  BY DEF CanceledInv, Canceled!AnswersExact
<1>4. QED
  BY <1>1, <1>2, <1>3 DEF CanceledInv

LEMMA FailKeeps ==
  ASSUME CanceledInv, phase # "search", NEW result, Canceled!Fail(result)
  PROVE  CanceledInv'
PROOF
  BY CanceledQuiet DEF Canceled!Fail

\* Reading the file touches neither the lists nor an answer.
LEMMA ReadingKeeps ==
  ASSUME CanceledInv,
         \/ \E n \in 0 .. Len(job.text) : Canceled!Update(n)
         \/ Canceled!TooLong \/ Canceled!KeepPartial
         \/ \E accepted \in BOOLEAN : Canceled!EmitRecord(accepted)
         \/ Canceled!EndUpdate \/ Canceled!Clear
  PROVE  CanceledInv'
<1>1. CASE \E n \in 0 .. Len(job.text) : Canceled!Update(n)
  <2>1. CASE Canceled!Fail("ARGUMENT") \/ Canceled!Fail("LIMIT")
    BY <1>1, <2>1, FailKeeps, Zenon DEF Canceled!Update
  <2>2. CASE phase = "idle" /\ phase' = "rows" /\ UNCHANGED <<job, error, source, store, search, answer>>
    BY <2>2, CanceledQuiet
  <2>3. QED
    BY <1>1, <2>1, <2>2, Zenon DEF Canceled!Update
<1>2. CASE Canceled!TooLong \/ Canceled!KeepPartial
  BY <1>2, FailKeeps, CanceledQuiet DEF Canceled!TooLong, Canceled!KeepPartial
<1>3. CASE \E accepted \in BOOLEAN : Canceled!EmitRecord(accepted)
  BY <1>3, FailKeeps, CanceledQuiet DEF Canceled!EmitRecord, Canceled!Emit
<1>4. CASE Canceled!EndUpdate \/ Canceled!Clear
  BY <1>4, CanceledQuiet DEF Canceled!EndUpdate, Canceled!Clear
<1>5. QED
  BY <1>1, <1>2, <1>3, <1>4, Zenon

\* The lookup in a buffer.
LEMMA ContainsKeeps ==
  ASSUME Canceled!CallTypes, CanceledInv, NEW key \in Keys, Canceled!Contains(key)
  PROVE  CanceledInv'
<1>1. CASE Canceled!Fail("INVALID")
  BY <1>1, FailKeeps DEF Canceled!Contains
<1>2. CASE phase' = "idle" /\ UNCHANGED <<job, chunk, error, source, store, search>>
  <2>1. StoreSound'
    BY <1>2 DEF CanceledInv, StoreSound, Canceled!ListsAscending, Canceled!LeaseReturned, Searchable,
                Canceled!Ascending, Canceled!Lists, Canceled!NoList, Canceled!Contains
  <2>2. Scanning' /\ KeysChecked' /\ Between' /\ Canceled!AnswersExact'
    BY <1>2 DEF CanceledInv, Scanning, KeysChecked, Between, Canceled!AnswersExact, Canceled!Contains
  <2>3. QED
    BY <2>1, <2>2 DEF CanceledInv
<1>3. QED
  BY <1>1, <1>2 DEF Canceled!Contains

(* The index. *)

\* What an application stages is a sequence of entries.
LEMMA SourceTyped ==
  ASSUME NEW keys \in Canceled!Sources
  PROVE  keys \in Seq(Canceled!Entries)
<1>1. PICK n \in 0 .. MaxStaged : keys \in [1 .. n -> Canceled!Entries]
  BY DEF Canceled!Sources
<1>2. QED
  BY <1>1

LEMMA IndexPrepareKeeps ==
  ASSUME CanceledInv, phase = "idle", NEW keys \in Canceled!Sources, NEW most,
         Canceled!IndexPrepare(keys, most)
  PROVE  CanceledInv'
<1>1. CASE Canceled!Fail("INVALID") \/ Canceled!Fail("LIMIT")
  BY <1>1, FailKeeps
<1>2. CASE /\ source' = [keys |-> keys, at |-> 0] /\ phase' = "keys"
           /\ UNCHANGED <<job, reader, chunk, error, store, search, answer>>
  <2>1. StoreSound'
    BY <1>2 DEF CanceledInv, StoreSound, Canceled!ListsAscending, Canceled!LeaseReturned, Searchable,
                Canceled!Ascending, Canceled!Lists, Canceled!NoList
  <2>2. KeysChecked'
    BY <1>2, SourceTyped DEF KeysChecked
  <2>3. Scanning' /\ Between' /\ Canceled!AnswersExact'
    BY <1>2 DEF CanceledInv, Scanning, Between, Canceled!AnswersExact
  <2>4. QED
    BY <2>1, <2>2, <2>3 DEF CanceledInv
<1>3. QED
  BY <1>1, <1>2 DEF Canceled!IndexPrepare

LEMMA StagingKeeps ==
  ASSUME CanceledInv, NEW keys \in Canceled!Sources, Canceled!Finish(keys) \/ Canceled!OpenImage(keys)
  PROVE  CanceledInv'
<1>1. CASE Canceled!Finish(keys)
  BY <1>1, FailKeeps, IndexPrepareKeeps DEF Canceled!Finish
<1>2. CASE Canceled!OpenImage(keys)
  BY <1>2, FailKeeps, IndexPrepareKeeps DEF Canceled!OpenImage
<1>3. QED
  BY <1>1, <1>2

\* A key that is not below the one before it is not below any before it.
LEMMA PrepareKeyKeeps ==
  ASSUME Canceled!CallTypes, CanceledInv, Canceled!PrepareKey
  PROVE  CanceledInv'
<1> DEFINE position == source.at + 1
<1>1. phase = "keys" /\ source.at < Len(source.keys)
  BY DEF Canceled!PrepareKey
<1>2. CASE Canceled!Fail("SOURCE_ERROR") \/ Canceled!Fail("INVALID")
  BY <1>1, <1>2, FailKeeps
<1>3. CASE /\ source.keys[position] \in Keys /\ ~Canceled!OutOfOrder(position)
           /\ source' = [source EXCEPT !.at = position]
           /\ UNCHANGED <<job, phase, reader, chunk, error, store, search, answer>>
  <2>1. KeysChecked'
    <3>1. /\ source.keys \in Seq(Canceled!Entries) /\ source.at \in 0 .. Len(source.keys)
          /\ \A i \in 1 .. source.at : source.keys[i] \in Keys
          /\ \A i, j \in 1 .. source.at : i <= j => source.keys[i] <= source.keys[j]
      BY <1>1 DEF CanceledInv, KeysChecked
    <3>0. Keys \subseteq Nat
      BY DEF Canceled!CallTypes
    <3>2. source'.keys = source.keys /\ source'.at = source.at + 1
      BY <1>3, <1>1 DEF CanceledInv
    <3>3. source.at + 1 \in 0 .. Len(source.keys)
      BY <1>1, <3>1
    <3>4. \A i \in 1 .. source.at + 1 : source.keys[i] \in Keys
      BY <1>3, <3>1
    <3>5. \A i \in 1 .. source.at : source.keys[i] <= source.keys[source.at + 1]
      <4>1. SUFFICES ASSUME NEW i \in 1 .. source.at
                     PROVE  source.keys[i] <= source.keys[source.at + 1]
        OBVIOUS
      <4>5. /\ i \in 1 .. source.at + 1 /\ source.at \in 1 .. source.at + 1
            /\ source.at + 1 \in 1 .. source.at + 1
        BY <3>1
      <4>6. source.keys[i] \in Nat /\ source.keys[source.at] \in Nat /\ source.keys[source.at + 1] \in Nat
        BY <4>5, <3>0, <3>4, Zenon
      <4>2. source.keys[source.at] <= source.keys[source.at + 1]
        BY <1>3, <3>1, <4>6 DEF Canceled!OutOfOrder
      <4>3. source.keys[i] <= source.keys[source.at]
        BY <3>1
      <4>4. QED
        BY <4>6, <4>2, <4>3
    <3>6. \A i, j \in 1 .. source.at + 1 : i <= j => source.keys[i] <= source.keys[j]
      <4>1. SUFFICES ASSUME NEW i \in 1 .. source.at + 1, NEW j \in 1 .. source.at + 1, i <= j
                     PROVE  source.keys[i] <= source.keys[j]
        OBVIOUS
      <4>2. source.keys[i] \in Nat
        BY <3>0, <3>4, Zenon
      <4>3. QED
        BY <4>1, <4>2, <3>1, <3>5
    <3>7. QED
      BY <3>1, <3>2, <3>3, <3>4, <3>6 DEF KeysChecked
  <2>2. StoreSound'
    BY <1>3, <1>1 DEF CanceledInv, StoreSound, Canceled!ListsAscending, Canceled!LeaseReturned, Searchable,
                      Canceled!Ascending, Canceled!Lists, Canceled!NoList
  <2>3. Scanning' /\ Between' /\ Canceled!AnswersExact'
    BY <1>3, <1>1 DEF CanceledInv, Scanning, Between, Canceled!AnswersExact
  <2>4. QED
    BY <2>1, <2>2, <2>3 DEF CanceledInv
<1>4. QED
  BY <1>2, <1>3 DEF Canceled!PrepareKey

\* The list is written to the slot once every key was compared.
LEMMA IndexReadyKeeps ==
  ASSUME Canceled!CallTypes, CanceledInv, Canceled!IndexReady
  PROVE  CanceledInv'
<1>1. phase = "keys" /\ source.at = Len(source.keys)
  BY DEF Canceled!IndexReady
<1>2. CASE Canceled!Fail("INVALID") \/ Canceled!Fail("LIMIT")
  BY <1>1, <1>2, FailKeeps
<1>3. CASE /\ job.published <= job.received
           /\ store' = [store EXCEPT !.next = Canceled!Prepared] /\ phase' = "idle"
           /\ UNCHANGED <<job, chunk, error, search, answer>>
  <2>1. source.keys \in Seq(Keys) /\ Canceled!Ascending(source.keys)
    <3>1. /\ source.keys \in Seq(Canceled!Entries)
          /\ \A i \in 1 .. Len(source.keys) : source.keys[i] \in Keys
          /\ \A i, j \in 1 .. Len(source.keys) : i <= j => source.keys[i] <= source.keys[j]
      BY <1>1 DEF CanceledInv, KeysChecked
    <3>2. QED
      BY <3>1 DEF Canceled!Ascending
  <2>2. Canceled!Prepared \in Canceled!Lists
    BY <2>1 DEF CanceledInv, StoreSound, Canceled!CallTypes, Canceled!Prepared, Canceled!Lists
  <2>3. /\ store' \in [next : Canceled!Lists, current : Canceled!Lists, readers : Nat]
        /\ store'.next = Canceled!Prepared /\ store'.current = store.current /\ store'.readers = store.readers
    BY <1>3, <2>2 DEF CanceledInv, StoreSound
  <2>4. /\ Canceled!Prepared.keys = source.keys
        /\ Canceled!Prepared.published <= Canceled!Prepared.received
    BY <1>3 DEF Canceled!Prepared
  <2>5. Searchable(store.current.keys)'
    BY <2>3 DEF CanceledInv, StoreSound, Searchable, Canceled!Ascending
  <2>6. Searchable(store.next.keys)'
    BY <2>1, <2>3, <2>4 DEF Searchable, Canceled!Ascending
  <2>7. Canceled!ListsAscending'
    <3>1. \A list \in {store.next, store.current} \ {Canceled!NoList, job.current} :
            list \in Canceled!Lists /\ Canceled!Ascending(list.keys) /\ list.published <= list.received
      BY Zenon DEF CanceledInv, StoreSound, Canceled!ListsAscending
    <3>2. \A list \in {store'.next, store'.current} \ {Canceled!NoList, job'.current} :
            list \in Canceled!Lists /\ Canceled!Ascending(list.keys) /\ list.published <= list.received
      BY <1>3, <2>1, <2>2, <2>3, <2>4, <3>1, Zenon
    <3>3. QED
      BY <3>2 DEF Canceled!ListsAscending, Canceled!Lists, Canceled!NoList, Canceled!Ascending
  <2>8. Canceled!LeaseReturned'
    BY <1>1, <1>3, <2>3 DEF CanceledInv, StoreSound, Canceled!LeaseReturned
  <2>9. StoreSound'
    BY <1>3, <2>3, <2>5, <2>6, <2>7, <2>8 DEF CanceledInv, StoreSound
  <2>10. Scanning' /\ KeysChecked' /\ Between' /\ Canceled!AnswersExact'
    BY <1>3 DEF CanceledInv, Scanning, KeysChecked, Between, Canceled!AnswersExact
  <2>11. QED
    BY <2>9, <2>10 DEF CanceledInv
<1>4. QED
  BY <1>2, <1>3 DEF Canceled!IndexReady

LEMMA PublishKeeps ==
  ASSUME Canceled!CallTypes, CanceledInv, Canceled!Publish
  PROVE  CanceledInv'
<1>1. /\ phase = "idle" /\ store' = [store EXCEPT !.current = store.next, !.next = Canceled!NoList]
      /\ UNCHANGED <<job, phase, source, search, answer>>
  BY DEF Canceled!Publish
<1>2. /\ store' \in [next : Canceled!Lists, current : Canceled!Lists, readers : Nat]
      /\ store'.next = Canceled!NoList /\ store'.current = store.next /\ store'.readers = store.readers
  BY <1>1, EmptyListTyped, Zenon DEF CanceledInv, StoreSound
<1>3. Searchable(store.next.keys)' /\ Searchable(store.current.keys)'
  BY <1>2, EmptyListTyped DEF CanceledInv, StoreSound, Searchable, Canceled!Ascending
<1>4. Canceled!ListsAscending'
  <2>1. \A list \in {store.next, store.current} \ {Canceled!NoList, job.current} :
          list \in Canceled!Lists /\ Canceled!Ascending(list.keys) /\ list.published <= list.received
    BY Zenon DEF CanceledInv, StoreSound, Canceled!ListsAscending
  <2>2. \A list \in {store'.next, store'.current} \ {Canceled!NoList, job'.current} :
          list \in Canceled!Lists /\ Canceled!Ascending(list.keys) /\ list.published <= list.received
    BY <1>1, <1>2, <2>1, Zenon
  <2>3. QED
    BY <2>2 DEF Canceled!ListsAscending, Canceled!Lists, Canceled!NoList, Canceled!Ascending
<1>5. Canceled!LeaseReturned'
  BY <1>1, <1>2 DEF CanceledInv, StoreSound, Canceled!LeaseReturned
<1>6. StoreSound'
  BY <1>1, <1>2, <1>3, <1>4, <1>5 DEF CanceledInv, StoreSound
<1>7. Scanning' /\ KeysChecked' /\ Between' /\ Canceled!AnswersExact'
  BY <1>1 DEF CanceledInv, Scanning, KeysChecked, Between, Canceled!AnswersExact
<1>8. QED
  BY <1>6, <1>7 DEF CanceledInv

(* The search. *)

\* The lists do not change while a lease is taken or given back.
LEMMA LeaseKeeps ==
  ASSUME CanceledInv, NEW readers \in Nat, store' = [store EXCEPT !.readers = readers], job' = job,
         readers = IF phase' = "search" THEN 1 ELSE 0
  PROVE  StoreSound'
<1>1. /\ store' \in [next : Canceled!Lists, current : Canceled!Lists, readers : Nat]
      /\ store'.next = store.next /\ store'.current = store.current /\ store'.readers = readers
  BY DEF CanceledInv, StoreSound
<1>2. Canceled!ListsAscending'
  BY <1>1, Zenon DEF CanceledInv, StoreSound, Canceled!ListsAscending, Canceled!Ascending, Canceled!Lists,
              Canceled!NoList
<1>3. QED
  BY <1>1, <1>2 DEF CanceledInv, StoreSound, Searchable, Canceled!Ascending, Canceled!LeaseReturned

\* The search starts with the whole list, of which it has excluded nothing.
LEMMA CheckKeeps ==
  ASSUME Canceled!CallTypes, CanceledInv, NEW key \in Keys, NEW policy \in Policies, NEW reads \in ReadLimits,
         Canceled!Check(key, policy, reads)
  PROVE  CanceledInv'
<1> DEFINE list == store.current
<1>1. phase = "idle" /\ answer = Canceled!NoAnswer
  BY DEF Canceled!Check
<1>2. ASSUME NEW result, Canceled!Refuse(result), result # "OK" PROVE CanceledInv'
  <2>1. UNCHANGED <<job, phase, reader, chunk, error, source, store, search>> /\ answer'.result # "OK"
    BY <1>2, SMTT(30) DEF Canceled!Refuse, Canceled!NoAnswer
  <2>2. StoreSound'
    BY <2>1 DEF CanceledInv, StoreSound, Canceled!ListsAscending, Canceled!LeaseReturned, Searchable,
                Canceled!Ascending, Canceled!Lists, Canceled!NoList
  <2>3. Scanning' /\ KeysChecked' /\ Between' /\ Canceled!AnswersExact'
    BY <1>1, <2>1 DEF CanceledInv, Scanning, KeysChecked, Between, Canceled!AnswersExact
  <2>4. QED
    BY <2>2, <2>3 DEF CanceledInv
<1>3. CASE /\ Canceled!CheckFreshness(list, policy) = "OK"
           /\ store' = [store EXCEPT !.readers = @ + 1] /\ phase' = "search"
           /\ search' = [key |-> key, begin |-> 0, end |-> Len(list.keys), reads |-> reads,
                         allowed |-> reads, keys |-> list.keys]
           /\ answer' = [Canceled!NoAnswer EXCEPT !.key = key,
                                                  !.warning = policy.now - list.published > policy.warn,
                                                  !.fresh = /\ list.published >= policy.minimum
                                                            /\ policy.now \in list.received .. list.published + policy.age]
           /\ UNCHANGED <<job, reader, chunk, error, source>>
  <2>1. list \in Canceled!Lists /\ Searchable(list.keys) /\ store.readers = 0
    BY <1>1 DEF CanceledInv, StoreSound, Canceled!LeaseReturned
  <2>2. policy \in [now : Nat, minimum : Nat, age : Nat, warn : Nat]
    BY DEF Canceled!CallTypes
  <2>3. /\ list.published >= policy.minimum
        /\ policy.now \in list.received .. list.published + policy.age
    BY <1>3, <2>1, <2>2 DEF Canceled!CheckFreshness, Canceled!Lists
  <2>4. StoreSound'
    BY <1>3, <2>1, LeaseKeeps
  <2>5. Between'
    <3>1. Searchable(list.keys)' /\ Len(list.keys) \in Nat
      BY <1>3, <2>1 DEF Searchable, Canceled!Ascending, CanceledInv, StoreSound
    <3>2. /\ search'.key = key /\ search'.begin = 0 /\ search'.end = Len(list.keys)
          /\ search'.keys = list.keys /\ search'.reads = reads /\ search'.allowed = reads
      BY <1>3
    <3>3. /\ answer'.key = key /\ answer'.result = "NONE" /\ answer'.fresh /\ answer'.listed = FALSE
          /\ answer' = [result |-> "NONE", key |-> answer'.key, listed |-> FALSE,
                        warning |-> answer'.warning, fresh |-> answer'.fresh]
      BY <1>3, <2>3, Zenon DEF Canceled!NoAnswer
    <3>4. Searchable(search.keys)'
      BY <2>1, <3>2 DEF Searchable, Canceled!Ascending
    <3>5. search' = [key |-> search'.key, begin |-> search'.begin, end |-> search'.end, reads |-> search'.reads,
                     allowed |-> search'.allowed, keys |-> search'.keys]
      BY <1>3
    <3>6. \A i \in 1 .. Len(search'.keys) : ~(i <= search'.begin) /\ ~(i > search'.end)
      BY <3>1, <3>2
    <3>7. QED
      BY <3>1, <3>2, <3>3, <3>4, <3>5, <3>6 DEF Between
  <2>6. Scanning' /\ KeysChecked' /\ Canceled!AnswersExact'
    BY <1>3 DEF Scanning, KeysChecked, Canceled!AnswersExact, Canceled!NoAnswer
  <2>7. QED
    BY <2>4, <2>5, <2>6 DEF CanceledInv
<1>4. QED
  BY <1>2, <1>3, Zenon DEF Canceled!Check

LEMMA ReleaseKeeps ==
  ASSUME CanceledInv, phase = "search", NEW result, NEW listed \in BOOLEAN, Canceled!Release(result, listed),
         result = "OK" => (listed <=> \E i \in 1 .. Len(search.keys) : search.keys[i] = search.key)
  PROVE  CanceledInv'
<1>1. /\ store' = [store EXCEPT !.readers = @ - 1] /\ phase' = "idle"
      /\ UNCHANGED <<job, source, search>>
  BY DEF Canceled!Release
<1>2. StoreSound'
  <2>1. store.readers = 1
    BY DEF CanceledInv, StoreSound, Canceled!LeaseReturned
  <2>2. store' = [store EXCEPT !.readers = 0]
    BY <1>1, <2>1, SMTT(30)
  <2>3. QED
    BY <1>1, <2>2, LeaseKeeps
<1>3. Canceled!AnswersExact'
  <2>1. CASE result = "OK"
    <3>1. /\ answer'.listed = listed /\ answer'.key = search.key /\ answer'.fresh
      BY <2>1 DEF CanceledInv, Between, Canceled!Release
    <3>2. QED
      BY <1>1, <2>1, <3>1 DEF Canceled!AnswersExact
  <2>2. CASE result # "OK"
    <3>1. answer'.result = result
      BY <2>2 DEF Canceled!Release, Canceled!NoAnswer
    <3>2. QED
      BY <2>2, <3>1 DEF Canceled!AnswersExact
  <2>3. QED
    BY <2>1, <2>2
<1>4. Scanning' /\ KeysChecked' /\ Between'
  BY <1>1 DEF Scanning, KeysChecked, Between
<1>5. QED
  BY <1>2, <1>3, <1>4 DEF CanceledInv

\* The middle of a range that is not empty lies in it.
LEMMA MiddleInside ==
  ASSUME NEW b \in Nat, NEW e \in Nat, b < e
  PROVE  LET m == b + (e - b) \div 2 IN m \in Nat /\ b <= m /\ m < e
<1>1. e - b \in Nat /\ 0 < e - b
  OBVIOUS
<1>2. (e - b) \div 2 \in Nat /\ (e - b) \div 2 < e - b
  BY <1>1
<1>3. QED
  BY <1>2

\* Keys in order: what lies below the middle is at most the key read there, and
\* what lies above it is at least that key, so either half keeps the bounds.
LEMMA Halved ==
  ASSUME NEW n \in Nat, NEW keys, NEW wanted \in Nat, NEW b \in Nat, NEW e \in Nat, NEW m \in Nat,
         \A i \in 1 .. n : keys[i] \in Nat, \A i, j \in 1 .. n : i <= j => keys[i] <= keys[j],
         b <= m, m < e, e <= n, wanted # keys[m + 1],
         \A i \in 1 .. n : (i <= b => keys[i] < wanted) /\ (i > e => wanted < keys[i])
  PROVE  \A i \in 1 .. n : /\ wanted < keys[m + 1] => (i > m => wanted < keys[i])
                           /\ ~(wanted < keys[m + 1]) => (i <= m + 1 => keys[i] < wanted)
<1>1. m + 1 \in 1 .. n /\ keys[m + 1] \in Nat
  OBVIOUS
<1> SUFFICES ASSUME NEW i \in 1 .. n
             PROVE  /\ wanted < keys[m + 1] => (i > m => wanted < keys[i])
                    /\ ~(wanted < keys[m + 1]) => (i <= m + 1 => keys[i] < wanted)
  OBVIOUS
<1>2. /\ keys[i] \in Nat /\ i <= m + 1 => keys[i] <= keys[m + 1]
      /\ m + 1 <= i => keys[m + 1] <= keys[i]
  BY <1>1
<1>3. QED
  BY <1>1, <1>2

\* A read halves the range, and what it drops is beyond the key read.
LEMMA NarrowKeeps ==
  ASSUME Canceled!CallTypes, CanceledInv, phase = "search", search.begin < search.end,
         NEW key, key = search.keys[Canceled!Middle + 1], search.key # key, search' = Canceled!Narrowed(key),
         UNCHANGED <<job, phase, reader, chunk, error, source, store, answer>>
  PROVE  CanceledInv'
<1> DEFINE keys == search.keys
           m == Canceled!Middle
<1>1. /\ Searchable(keys) /\ search.key \in Keys
      /\ search.begin \in Nat /\ search.end \in Nat /\ search.end <= Len(keys)
      /\ \A i \in 1 .. Len(keys) : /\ i <= search.begin => keys[i] < search.key
                                   /\ i > search.end => search.key < keys[i]
  BY Zenon DEF CanceledInv, Between
<1>2. m \in Nat /\ search.begin <= m /\ m < search.end
  BY <1>1, MiddleInside, Zenon DEF Canceled!Middle
<1>3. Keys \subseteq Nat /\ keys \in Seq(Keys) /\ Canceled!Ascending(keys)
  BY <1>1, Zenon DEF Canceled!CallTypes, Searchable
<1>4. Len(keys) \in Nat /\ \A i \in 1 .. Len(keys) : keys[i] \in Nat
  <2>1. Len(keys) \in Nat
    BY <1>3, SeqLength, Zenon
  <2>2. QED
    BY <1>3, <2>1, SeqElement, Zenon
<1>5. \A i, j \in 1 .. Len(keys) : i <= j => keys[i] <= keys[j]
  BY <1>3, Zenon DEF Canceled!Ascending
<1>6. search.key \in Nat /\ key = keys[m + 1]
  BY <1>1, <1>3, Zenon
<1>7. /\ search'.keys = keys /\ search'.key = search.key
      /\ search' = [key |-> search'.key, begin |-> search'.begin, end |-> search'.end, reads |-> search'.reads,
                    allowed |-> search'.allowed, keys |-> search'.keys]
      /\ search.key < key => search'.begin = search.begin /\ search'.end = m
      /\ ~(search.key < key) => search'.begin = m + 1 /\ search'.end = search.end
  BY Zenon DEF CanceledInv, Between, Canceled!Narrowed
<1>8. \A i \in 1 .. Len(keys) : /\ search.key < key => (i > m => search.key < keys[i])
                                /\ ~(search.key < key) => (i <= m + 1 => keys[i] < search.key)
  <2> DEFINE b == search.begin
             e == search.end
             n == Len(keys)
             wanted == search.key
  <2>1. /\ n \in Nat /\ wanted \in Nat /\ b \in Nat /\ e \in Nat /\ m \in Nat
        /\ \A i \in 1 .. n : keys[i] \in Nat
        /\ \A i, j \in 1 .. n : i <= j => keys[i] <= keys[j]
        /\ b <= m /\ m < e /\ e <= n /\ wanted # keys[m + 1]
        /\ \A i \in 1 .. n : (i <= b => keys[i] < wanted) /\ (i > e => wanted < keys[i])
    BY <1>1, <1>2, <1>4, <1>5, <1>6, Zenon
  <2> HIDE DEF b, e, n, wanted, m, keys
  <2>2. \A i \in 1 .. n : /\ wanted < keys[m + 1] => (i > m => wanted < keys[i])
                          /\ ~(wanted < keys[m + 1]) => (i <= m + 1 => keys[i] < wanted)
    BY <2>1, Halved, Zenon
  <2>3. QED
    BY <1>6, <2>2, Zenon DEF n, wanted
<1>9. \A i \in 1 .. Len(keys) : /\ i <= search'.begin => keys[i] < search.key
                                /\ i > search'.end => search.key < keys[i]
  <2>1. CASE search.key < key
    <3>1. search'.begin = search.begin /\ search'.end = m
      BY <1>7, <2>1, Zenon
    <3>2. QED
      BY <1>1, <1>8, <2>1, <3>1, Zenon
  <2>2. CASE ~(search.key < key)
    <3>1. search'.begin = m + 1 /\ search'.end = search.end
      BY <1>7, <2>2, Zenon
    <3>2. QED
      BY <1>1, <1>8, <2>2, <3>1, Zenon
  <2>3. QED
    BY <2>1, <2>2, Zenon
<1>10. /\ search'.begin \in Nat /\ search'.end \in Nat /\ search'.end <= Len(keys)
       /\ search'.begin <= search'.end
  <2> DEFINE b == search.begin
             e == search.end
             n == Len(keys)
  <2>1. b \in Nat /\ e \in Nat /\ n \in Nat /\ e <= n /\ m \in Nat /\ b <= m /\ m < e
    BY <1>1, <1>2, <1>4, Zenon
  <2> HIDE DEF b, e, n, m
  <2>2. m <= n /\ m + 1 \in Nat /\ m + 1 <= e
    BY <2>1
  <2>3. QED
    BY <1>7, <2>1, <2>2, Zenon DEF b, e, n
<1>11. Between'
  <2>1. answer' = answer /\ phase' = phase
    BY Zenon
  <2>2. Searchable(search'.keys) /\ search'.key \in Keys
    BY <1>1, <1>7, Zenon
  <2>3. /\ answer.key = search.key /\ answer.fresh /\ answer.result = "NONE"
        /\ answer = [result |-> answer.result, key |-> answer.key, listed |-> answer.listed,
                     warning |-> answer.warning, fresh |-> answer.fresh]
    BY Zenon DEF CanceledInv, Between
  <2>4. QED
    BY <1>7, <1>9, <1>10, <2>1, <2>2, <2>3, Zenon DEF Between, Searchable, Canceled!Ascending
<1>12. StoreSound'
  BY Zenon DEF CanceledInv, StoreSound, Canceled!ListsAscending, Canceled!LeaseReturned, Searchable,
         Canceled!Ascending, Canceled!Lists, Canceled!NoList
<1>13. Scanning' /\ KeysChecked' /\ Canceled!AnswersExact'
  BY DEF CanceledInv, Between, Scanning, KeysChecked, Canceled!AnswersExact
<1>14. QED
  BY <1>11, <1>12, <1>13 DEF CanceledInv

LEMMA ProbeKeeps ==
  ASSUME Canceled!CallTypes, CanceledInv, NEW fails \in BOOLEAN, Canceled!Probe(fails)
  PROVE  CanceledInv'
<1> DEFINE key == search.keys[Canceled!Middle + 1]
<1>1. phase = "search" /\ search.begin < search.end
  BY Zenon DEF Canceled!Probe
<1>2. CASE Canceled!Release("LIMIT", FALSE) \/ Canceled!Release("SOURCE_ERROR", FALSE)
  BY <1>1, <1>2, ReleaseKeeps, Zenon
<1>3. CASE search.key = key /\ Canceled!Release("OK", TRUE)
  <2>1. Canceled!Middle + 1 \in 1 .. Len(search.keys)
    <3>1. /\ search.keys \in Seq(Keys) /\ search.begin \in Nat /\ search.end \in Nat
          /\ search.end <= Len(search.keys)
      BY <1>1, Zenon DEF CanceledInv, Between, Searchable
    <3>2. Canceled!Middle \in Nat /\ Canceled!Middle < search.end
      BY <1>1, <3>1, MiddleInside, Zenon DEF Canceled!Middle
    <3>3. Len(search.keys) \in Nat
      BY <3>1, SeqLength, Zenon
    <3>4. QED
      BY <3>1, <3>2, <3>3
  <2>2. QED
    BY <1>1, <1>3, <2>1, ReleaseKeeps, Zenon
<1>4. CASE /\ search.key # key /\ search' = Canceled!Narrowed(key)
           /\ UNCHANGED <<job, phase, reader, chunk, error, source, store, answer>>
  BY <1>1, <1>4, NarrowKeeps
<1>5. QED
  BY <1>2, <1>3, <1>4, Zenon DEF Canceled!Probe

LEMMA NotListedKeeps ==
  ASSUME Canceled!CallTypes, CanceledInv, Canceled!NotListed
  PROVE  CanceledInv'
<1>1. phase = "search" /\ search.begin >= search.end /\ Canceled!Release("OK", FALSE)
  BY Zenon DEF Canceled!NotListed
<1>2. \A i \in 1 .. Len(search.keys) : search.keys[i] # search.key
  <2>1. /\ search.begin \in Nat /\ search.end \in Nat /\ search.key \in Nat
        /\ \A i \in 1 .. Len(search.keys) : search.keys[i] \in Nat
    <3>1. Searchable(search.keys) /\ search.key \in Keys /\ Keys \subseteq Nat
      BY <1>1 DEF CanceledInv, Between, Canceled!CallTypes
    <3>2. \A i \in 1 .. Len(search.keys) : search.keys[i] \in Keys
      BY <3>1, SeqElement, Zenon DEF Searchable
    <3>3. QED
      BY <1>1, <3>1, <3>2, Zenon DEF CanceledInv, Between
  <2>2. \A i \in 1 .. Len(search.keys) : /\ i <= search.begin => search.keys[i] < search.key
                                         /\ i > search.end => search.key < search.keys[i]
    BY <1>1 DEF CanceledInv, Between
  <2> SUFFICES ASSUME NEW i \in 1 .. Len(search.keys) PROVE search.keys[i] # search.key
    OBVIOUS
  <2>3. search.keys[i] \in Nat /\ (i <= search.begin \/ i > search.end)
    BY <1>1, <2>1
  <2>4. CASE i <= search.begin
    BY <2>1, <2>2, <2>3, <2>4
  <2>5. CASE i > search.end
    BY <2>1, <2>2, <2>3, <2>5
  <2>6. QED
    BY <2>3, <2>4, <2>5
<1>3. QED
  BY <1>1, <1>2, ReleaseKeeps, Zenon

LEMMA CanceledStep ==
  ASSUME Canceled!CallTypes, CanceledInv, [Canceled!Next]_(Canceled!vars)
  PROVE  CanceledInv'
<1>1. CASE UNCHANGED Canceled!vars
  <2>1. UNCHANGED <<job, phase, source, store, search, answer>>
    BY <1>1, SMTT(30) DEF Canceled!vars
  <2>2. StoreSound'
    BY <2>1 DEF CanceledInv, StoreSound, Canceled!ListsAscending, Canceled!LeaseReturned, Searchable,
                Canceled!Ascending, Canceled!Lists, Canceled!NoList
  <2>3. Scanning' /\ KeysChecked' /\ Between' /\ Canceled!AnswersExact'
    BY <2>1 DEF CanceledInv, Scanning, KeysChecked, Between, Canceled!AnswersExact, Searchable,
                Canceled!Ascending
  <2>4. QED
    BY <2>2, <2>3 DEF CanceledInv
<1>2. CASE Canceled!Next
  <2>1. CASE \/ \E n \in 0 .. Len(job.text) : Canceled!Update(n)
             \/ Canceled!TooLong \/ Canceled!KeepPartial
             \/ \E accepted \in BOOLEAN : Canceled!EmitRecord(accepted)
             \/ Canceled!EndUpdate \/ Canceled!Clear
    BY <2>1, ReadingKeeps, Zenon
  <2>2. CASE \E key \in Keys : Canceled!Contains(key)
    BY <2>2, ContainsKeeps, Zenon
  <2>3. CASE \E keys \in Canceled!Sources : Canceled!Finish(keys) \/ Canceled!OpenImage(keys)
    BY <2>3, StagingKeeps, Zenon
  <2>4. CASE Canceled!PrepareKey \/ Canceled!IndexReady \/ Canceled!Publish
    BY <2>4, PrepareKeyKeeps, IndexReadyKeeps, PublishKeeps, Zenon
  <2>5. CASE \E key \in Keys, policy \in Policies, reads \in ReadLimits : Canceled!Check(key, policy, reads)
    BY <2>5, CheckKeeps, Zenon
  <2>6. CASE (\E fails \in BOOLEAN : Canceled!Probe(fails)) \/ Canceled!NotListed
    BY <2>6, ProbeKeeps, NotListedKeeps, Zenon
  <2>7. QED
    BY <1>2, <2>1, <2>2, <2>3, <2>4, <2>5, <2>6, Zenon DEF Canceled!Next
<1>3. QED
  BY <1>1, <1>2

\* Whatever the files, limits and policies, and wherever a read or an import
\* fails: every list that can be published ascends and has its dates in order,
\* every answer is what the leased list says of the card, from a fresh list,
\* and the lease is given back.
THEOREM CancellationSound ==
  ASSUME Canceled!CallTypes
  PROVE  Canceled!Spec => [](Canceled!ListsAscending /\ Canceled!AnswersExact /\ Canceled!LeaseReturned)
PROOF
<1>1. Canceled!Init => CanceledInv
  BY CanceledInit
<1>2. CanceledInv /\ [Canceled!Next]_(Canceled!vars) => CanceledInv'
  BY CanceledStep
<1>3. CanceledInv => Canceled!ListsAscending /\ Canceled!AnswersExact /\ Canceled!LeaseReturned
  BY DEF CanceledInv, StoreSound
<1>4. QED
  BY <1>1, <1>2, <1>3, PTL DEF Canceled!Spec
=============================================================================
