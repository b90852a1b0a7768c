-------------------------- MODULE CredentialProofs --------------------------
(***************************************************************************)
(* Proofs about the steps of reading a credential: the proof of possession *)
(* for every cost, grant and number of challenges (KeyChallenge), the      *)
(* inventory of a card's objects for every catalogue and pool              *)
(* (CardInventory), and the search for a certification path for every      *)
(* store, storage and budget (PathSearch).                                 *)
(***************************************************************************)
EXTENDS KeyChallenge, TLAPS

\* The constants and variables of CardInventory and of PathSearch, beside work.
CONSTANTS Budgets, Catalogs, Links, Pools, Caps, Rooms, Largest
CONSTANTS Capacities, MaxCertificates, MaxInput, StoreSize
VARIABLES call, phase, used, touched, dirty, objects, sent, inventory
VARIABLES capacity, store, anchors, target, frames, path, failure, outcome

(* -------------------------- the key challenge ---------------------------- *)

\* The proofs so far were given by the card, each for a challenge of its own,
\* and the challenge in the workspace is not one of them.
Recorded ==
  /\ proofs \in Seq(Nat) /\ ProvedOnce
  /\ \A i \in DOMAIN proofs : workspace.state = "ACTIVE" => proofs[i] # workspace.digest

\* What is left and what was spent of the grant.
Accounted == spent \in Nat /\ granted \in Nat /\ WorkBounded

IInv == TypeOK /\ Recorded /\ Accounted

\* A charge that the budget covers does not wrap.
LEMMA LessExact ==
  ASSUME NEW m \in 0 .. Modulus - 1, NEW a \in 0 .. m
  PROVE  Less(m, a) = m - a /\ Less(m, a) \in 0 .. Modulus - 1
<1>1. m - a \in 0 .. Modulus - 1
  BY Constants
<1>2. (m - a) % Modulus = m - a
  BY <1>1, Constants
<1>3. QED
  BY <1>1, <1>2 DEF Less

\* A verification hands back no more than it was lent less its own charge,
\* whatever the provider reports; and it only accepts the digest.
LEMMA VerifyDigestSound ==
  ASSUME NEW lent \in Nat, NEW digest, NEW signature,
         NEW checked \in VerifyDigest(lent, digest, signature)
  PROVE  /\ checked.left \in Nat /\ checked.done \in Nat /\ checked.left + checked.done <= lent
         /\ checked.verdict = "VALID" => signature = digest
<1> DEFINE available == lent - PreflightCost
           verdicts == {"INVALID", "UNSUPPORTED", "LIMIT", "ERROR"} \cup
                         (IF signature = digest THEN {"VALID"} ELSE {})
<1>1. PreflightCost \in Nat /\ available \in Int
  BY Constants
<1>2. CASE available < 0
  <2>1. checked = [verdict |-> "LIMIT", done |-> 0, left |-> 0]
    BY <1>2 DEF VerifyDigest
  <2>2. QED
    BY <2>1
<1>3. CASE ~(available < 0)
  <2>1. PICK v \in verdicts, left \in 0 .. Modulus - 1 :
          checked = [verdict |-> CallbackResult(v, available, left).verdict, done |-> PreflightCost,
                     left |-> CallbackResult(v, available, left).left]
    BY <1>3 DEF VerifyDigest
  <2>2. CallbackResult(v, available, left).left \in 0 .. available
    BY <1>1, <1>3, <2>1 DEF CallbackResult
  <2>3. CallbackResult(v, available, left).verdict \in {v, "ERROR"}
    BY <2>1 DEF CallbackResult
  <2>4. checked.verdict = "VALID" => signature = digest
    BY <2>1, <2>3
  <2>5. QED
    BY <1>1, <1>3, <2>1, <2>2, <2>4
<1>4. QED
  BY <1>1, <1>2, <1>3

\* A new sequence of proofs: the old ones and the digest just proved.
LEMMA AppendRecorded ==
  ASSUME NEW seq \in Seq(Nat), NEW d \in Nat, NEW S, \A i \in DOMAIN seq : seq[i] # d,
         \A i, j \in DOMAIN seq : i # j => seq[i] # seq[j], \A i \in DOMAIN seq : seq[i] \in S, d \in S
  PROVE  LET new == Append(seq, d) IN
         /\ new \in Seq(Nat) /\ \A i, j \in DOMAIN new : i # j => new[i] # new[j]
         /\ \A i \in DOMAIN new : new[i] \in S
<1> DEFINE new == Append(seq, d)
<1>1. /\ new \in Seq(Nat) /\ Len(new) = Len(seq) + 1 /\ Len(seq) \in Nat
      /\ DOMAIN new = 1 .. Len(seq) + 1 /\ DOMAIN seq = 1 .. Len(seq)
      /\ \A i \in DOMAIN seq : new[i] = seq[i] /\ new[Len(seq) + 1] = d
  OBVIOUS
<1>2. new[Len(seq) + 1] = d
  OBVIOUS
<1>3. \A i \in DOMAIN new : i \in DOMAIN seq \/ i = Len(seq) + 1
  BY <1>1
<1> HIDE DEF new
<1>4. QED
  BY <1>1, <1>2, <1>3 DEF new

\* Before the first call nothing is granted, drawn or proved.
LEMMA InitIInv ==
  ASSUME Init
  PROVE  IInv
  BY Constants DEF Init, IInv, TypeOK, Recorded, ProvedOnce, Accounted, WorkBounded, Wiped

\* A funded, wiped or signing step leaves the proofs alone.
LEMMA QuietIInv ==
  ASSUME IInv, UNCHANGED <<draws, proofs>>, TypeOK', Accounted', signed \subseteq signed',
         workspace' = Wiped \/ workspace' = workspace
  PROVE  IInv'
  BY DEF IInv, Recorded, ProvedOnce, Wiped

\* A preparation charges what it did and draws a digest nobody signed yet.
LEMMA PrepareIInv ==
  ASSUME IInv, NEW scheme \in Schemes, Prepare(scheme)
  PROVE  IInv'
<1> DEFINE full == DigestCost + SaltWork(scheme) + EncodingWork(scheme)
<1>1. /\ {DigestCost, SaltWork(scheme), EncodingWork(scheme)} \subseteq Nat /\ work >= full
      /\ work \in 0 .. Modulus - 1
  BY Constants DEF SaltWork, EncodingWork, Prepare, Affordable, IInv, TypeOK
<1>2. PICK amount \in Nat : /\ amount <= full /\ Charge(amount)
                            /\ workspace' \in {Wiped, [state |-> "ACTIVE", digest |-> draws + 1]}
  BY <1>1 DEF Prepare
<1>3. work' = work - amount /\ work' \in 0 .. Modulus - 1 /\ spent' = spent + amount
  BY <1>1, <1>2, LessExact DEF Charge
<1>4. Accounted'
  BY <1>1, <1>2, <1>3 DEF Prepare, IInv, Accounted, WorkBounded
<1>5. /\ draws' = draws + 1 /\ draws' \in 0 .. MaxDraws /\ UNCHANGED <<signed, proofs>>
      /\ signed \subseteq 1 .. draws /\ draws \in Nat
  BY Constants DEF Prepare, IInv, TypeOK
<1>6. TypeOK'
  BY <1>2, <1>3, <1>5 DEF TypeOK, Wiped
<1>7. \A i \in DOMAIN proofs : proofs[i] \in 1 .. draws
  BY <1>5 DEF IInv, Recorded, ProvedOnce
<1>8. Recorded'
  BY <1>2, <1>5, <1>7 DEF IInv, Recorded, ProvedOnce, Wiped
<1>9. QED
  BY <1>4, <1>6, <1>8 DEF IInv

\* A verification ends the challenge, and records it at most once.
LEMMA VerifyIInv ==
  ASSUME IInv, NEW signature \in signed \cup {0}, Verify(signature)
  PROVE  IInv'
<1>1. /\ workspace.state = "ACTIVE" /\ workspace.digest \in 1 .. draws /\ draws \in Nat
      /\ work \in 0 .. Modulus - 1 /\ UNCHANGED <<granted, draws, signed>>
  BY Constants DEF IInv, TypeOK, Wiped, Verify
<1>2. CASE workspace' = Wiped /\ UNCHANGED <<work, spent, proofs>>
  BY <1>1, <1>2, QuietIInv DEF IInv, TypeOK, Accounted, WorkBounded
<1>3. ASSUME NEW checked \in VerifyDigest(work, workspace.digest, signature),
             work' = Less(work, work - checked.left), spent' = spent + checked.done,
             proofs' = IF checked.verdict = "VALID" THEN Append(proofs, workspace.digest) ELSE proofs,
             workspace' = Finished(workspace, checked.verdict)
      PROVE  IInv'
  <2>1. /\ checked.left \in Nat /\ checked.done \in Nat /\ checked.left + checked.done <= work
        /\ checked.verdict = "VALID" => signature = workspace.digest
    BY <1>1, Constants, VerifyDigestSound
  <2>2. work - checked.left \in 0 .. work /\ work - (work - checked.left) = checked.left
    BY <1>1, <2>1
  <2>3. work' = checked.left /\ work' \in 0 .. Modulus - 1
    BY Zenon, <1>1, <1>3, <2>2, LessExact
  <2>4. Accounted'
    <3>1. spent \in Nat /\ granted \in Nat /\ work + spent <= granted /\ granted' = granted
      BY <1>1 DEF IInv, Accounted, WorkBounded
    <3>2. work' = checked.left /\ spent' = spent + checked.done
      BY <1>3, <2>3
    <3>3. spent' \in Nat /\ work' + spent' <= granted
      BY <1>1, <2>1, <3>1, <3>2
    <3>4. QED
      BY <3>1, <3>3 DEF Accounted, WorkBounded
  <2>5. workspace' = Wiped
    BY <1>3 DEF Finished
  <2>6. TypeOK'
    BY <1>1, <2>3, <2>5 DEF IInv, TypeOK
  <2>7. CASE checked.verdict = "VALID"
    <3>1. workspace.digest \in signed
      BY <1>1, <2>1, <2>7
    <3>2. proofs' = Append(proofs, workspace.digest)
      BY <1>3, <2>7
    <3>3. /\ proofs \in Seq(Nat) /\ workspace.digest \in Nat
          /\ \A i \in DOMAIN proofs : proofs[i] # workspace.digest
          /\ \A i, j \in DOMAIN proofs : i # j => proofs[i] # proofs[j]
          /\ \A i \in DOMAIN proofs : proofs[i] \in signed
      BY <1>1 DEF IInv, Recorded, ProvedOnce
    <3>4. /\ proofs' \in Seq(Nat) /\ \A i, j \in DOMAIN proofs' : i # j => proofs'[i] # proofs'[j]
          /\ \A i \in DOMAIN proofs' : proofs'[i] \in signed
      BY <3>1, <3>2, <3>3, AppendRecorded
    <3>5. Recorded'
      BY <1>1, <2>5, <3>4 DEF Recorded, ProvedOnce, Wiped
    <3>6. QED
      BY <2>4, <2>6, <3>5 DEF IInv
  <2>8. CASE checked.verdict # "VALID"
    BY <1>1, <1>3, <2>4, <2>5, <2>6, <2>8, QuietIInv
  <2>9. QED
    BY <2>7, <2>8
<1>4. QED
  BY <1>2, <1>3 DEF Verify

\* Every step preserves the invariant.
LEMMA NextIInv ==
  ASSUME IInv, [Next]_vars
  PROVE  IInv'
<1>1. ASSUME NEW amount \in Grants, Fund(amount) PROVE IInv'
  <2>1. amount \in 0 .. Modulus - 1 /\ amount \in Nat
    BY Constants
  <2>2. TypeOK' /\ Accounted'
    BY <1>1, <2>1 DEF Fund, IInv, TypeOK, Accounted, WorkBounded
  <2>3. QED
    BY <1>1, <2>2, QuietIInv DEF Fund
<1>2. ASSUME NEW scheme \in Schemes, Prepare(scheme) PROVE IInv'
  BY <1>2, PrepareIInv
<1>3. CASE CardSigns
  <2>1. workspace.digest \in 1 .. draws
    BY <1>3 DEF CardSigns, IInv, TypeOK, Wiped
  <2>2. TypeOK'
    BY Zenon, <1>3, <2>1 DEF CardSigns, IInv, TypeOK
  <2>3. Accounted'
    BY <1>3 DEF CardSigns, IInv, Accounted, WorkBounded
  <2>4. QED
    BY <1>3, <2>2, <2>3, QuietIInv DEF CardSigns
<1>4. ASSUME NEW signature \in signed \cup {0}, Verify(signature) PROVE IInv'
  BY <1>4, VerifyIInv
<1>5. CASE Clear \/ UNCHANGED vars
  <2>1. TypeOK' /\ Accounted'
    BY Zenon, <1>5 DEF Clear, vars, IInv, TypeOK, Accounted, WorkBounded
  <2>2. QED
    BY <1>5, <2>1, QuietIInv DEF Clear, vars
<1>6. QED
  BY <1>1, <1>2, <1>3, <1>4, <1>5 DEF Next

\* The invariant holds in every reachable state.
LEMMA Invariant == Spec => []IInv
  BY InitIInv, NextIInv, PTL DEF Spec

\* A workspace without a challenge is wiped, for every sequence of calls
\* (key_challenge.c).
THEOREM TypeCorrect == Spec => []TypeOK
<1>1. IInv => TypeOK
  BY DEF IInv
<1>2. QED
  BY <1>1, Invariant, PTL

\* Each challenge proves possession at most once, by a signature the card made
\* over it (TC_key_challenge_verify).
THEOREM PossessionProvedOnce == Spec => []ProvedOnce
<1>1. IInv => ProvedOnce
  BY DEF IInv, Recorded
<1>2. QED
  BY <1>1, Invariant, PTL

\* The budget never wraps nor grows by itself, whatever a signature provider
\* reports (signature_callback_result, tc_pki_work_settle).
THEOREM BudgetBounded == Spec => []WorkBounded
<1>1. IInv => WorkBounded
  BY DEF IInv, Accounted
<1>2. QED
  BY <1>1, Invariant, PTL

(* ------------------------------ the inventory ---------------------------- *)

\* An element of a sequence is of its type.
LEMMA SeqElement == ASSUME NEW S, NEW s \in Seq(S), NEW i \in 1 .. Len(s) PROVE s[i] \in S
PROOF
  BY SMT

Card == INSTANCE CardInventory

ObjectStates == {"PRESENT", "EMPTY", "ABSENT", "RESTRICTED", "DENIED", "OVERSIZED", "SKIPPED"}
SpanRecord == [state : ObjectStates, start : Nat, end : Nat]

\* The entries so far: their spans follow one another up to used, nothing is
\* beyond touched, what was sent was allowed, and the work is accounted for.
EntriesSoFar ==
  /\ objects \in Seq(SpanRecord) /\ sent \subseteq 1 .. Len(objects)
  /\ work = call.budget - Len(objects) - used
  /\ IF objects = <<>> THEN used = 0 ELSE used = objects[Len(objects)].end
  /\ \A i \in 1 .. Len(objects) :
       /\ objects[i].state \in {"SKIPPED", "RESTRICTED"} => i \notin sent /\ objects[i].start = objects[i].end
       /\ i \in sent => /\ Card!AccessMet(Card!Rule(call.catalog[i]))
                        /\ call.catalog[i].pairing => call.pairing
       /\ objects[i].start <= objects[i].end /\ objects[i].end <= used
       /\ i > 1 => objects[i].start = objects[i - 1].end

CardInv ==
  /\ Card!TypeOK
  /\ phase = "idle" => used = 0 /\ touched = 0 /\ work = call.budget /\ sent = {}
  /\ phase \in {"reading", "OK"} => EntriesSoFar
  /\ phase = "reading" => dirty \subseteq 1 .. touched
  /\ phase = "OK" => dirty \subseteq 1 .. used /\ Len(objects) = Len(call.catalog)
                     /\ inventory = [count |-> Len(objects), used |-> used]
  /\ phase \notin {"reading", "OK"} => dirty = {} /\ objects = <<>> /\ inventory = Card!Empty

\* The arguments of a read, spelled out.
LEMMA CallType ==
  ASSUME Card!InventoryTypes, call \in Card!Calls
  PROVE  /\ call.catalog \in Seq(Card!Entry) /\ call.pool \in Nat /\ call.cap \in Nat /\ call.budget \in Nat
         /\ Len(call.catalog) \in Nat
PROOF
<1>1. call.catalog \in Catalogs /\ call.pool \in Pools /\ call.cap \in Caps /\ call.budget \in Budgets
  BY DEF Card!Calls
<1>2. call.catalog \in Seq(Card!Entry)
  BY <1>1 DEF Card!InventoryTypes
<1>3. call.pool \in Nat /\ call.cap \in Nat /\ call.budget \in Nat
  BY Zenon, <1>1 DEF Card!InventoryTypes
<1>4. Len(call.catalog) \in Nat
  BY <1>2
<1> QED  BY <1>2, <1>3, <1>4

\* The region offered lies in the pool.
LEMMA RegionInPool ==
  ASSUME Card!InventoryTypes, call \in Card!Calls, used \in Nat, touched \in Nat,
         used <= touched, touched <= call.pool
  PROVE  /\ Card!Region \in Nat /\ used + Card!Region <= call.pool
         /\ Card!Offered \in Nat /\ Card!Offered <= call.pool /\ touched <= Card!Offered
         /\ used + Card!Region <= Card!Offered
PROOF
<1>1. Card!Region \in Nat /\ used + Card!Region <= call.pool
  BY CallType DEF Card!Region, Card!Cap
<1>2. /\ Card!Offered \in Nat /\ Card!Offered <= call.pool
      /\ touched <= Card!Offered /\ used + Card!Region <= Card!Offered
  BY <1>1, CallType DEF Card!Offered
<1> QED  BY <1>1, <1>2

\* Whatever an answer leaves in its region, an abort wipes.
LEMMA AbortWipes ==
  ASSUME Card!InventoryTypes, CardInv, phase = "reading",
         NEW result \in {"LIMIT", "INVALID", "CARD_STATUS", "ERROR"}, NEW reached, NEW offered \in Nat,
         reached \subseteq 1 .. offered, touched <= offered, offered <= call.pool,
         Card!Abort(result, reached, offered), UNCHANGED <<call, used>>, work' \in Nat,
         sent' \subseteq 1 .. Len(call.catalog)
  PROVE  CardInv'
PROOF
<1> USE DEF CardInv, Card!TypeOK
<1>1. phase' = result /\ touched' = offered /\ objects' = <<>> /\ inventory' = Card!Empty
  BY DEF Card!Abort
<1>2. dirty \subseteq 1 .. offered
  OBVIOUS
<1>3. dirty' = {}
  BY <1>2 DEF Card!Abort
<1>4. Len(objects') = 0 /\ Len(call.catalog) \in Nat
  BY <1>1, CallType
<1>5. Card!TypeOK'
  BY <1>1, <1>4 DEF Card!Calls
<1> QED  BY <1>1, <1>3, <1>5 DEF Card!Empty

\* An entry is written after those before it; what follows it is not touched.
LEMMA StoreKeeps ==
  ASSUME Card!InventoryTypes, EntriesSoFar, Card!TypeOK, NEW state \in ObjectStates, NEW size \in Nat,
         Card!Store(state, size), UNCHANGED call, work \in Nat, work' = work - 1 - size,
         sent' \in {sent, sent \cup {Card!Position}},
         Card!Position \in sent' => /\ Card!AccessMet(Card!Rule(Card!Current)) /\ state \notin {"SKIPPED", "RESTRICTED"}
                                    /\ Card!Current.pairing => call.pairing,
         state \in {"SKIPPED", "RESTRICTED"} => size = 0
  PROVE  EntriesSoFar' /\ Len(objects') = Len(objects) + 1
PROOF
<1> DEFINE new == [state |-> state, start |-> used, end |-> used + size]
<1>1. used \in Nat /\ objects \in Seq(SpanRecord) /\ new \in SpanRecord
  BY DEF EntriesSoFar, Card!TypeOK, SpanRecord
<1>2. objects' = Append(objects, new) /\ used' = used + size
  BY DEF Card!Store
<1>3. used' \in Nat /\ used <= used'
  BY <1>1, <1>2
<1> HIDE DEF new
<1>4. /\ objects' \in Seq(SpanRecord) /\ Len(objects') = Len(objects) + 1 /\ Len(objects) \in Nat
      /\ objects'[Len(objects) + 1] = new
      /\ \A i \in 1 .. Len(objects) : objects'[i] = objects[i]
  BY <1>1, <1>2
<1>5. sent' \subseteq 1 .. Len(objects')
  BY <1>4 DEF EntriesSoFar, Card!Position
<1>6. work' = call'.budget - Len(objects') - used'
  <2>1. call.budget \in Nat
    BY CallType DEF Card!TypeOK
  <2>2. work = call.budget - Len(objects) - used
    BY DEF EntriesSoFar
  <2>3. call'.budget = call.budget /\ Len(objects') = Len(objects) + 1 /\ used' = used + size
    BY <1>2, <1>4
  <2>4. \A b, l, u, k \in Nat : b - l - u - 1 - k = b - (l + 1) - (u + k)
    OBVIOUS
  <2>5. work' = call.budget - Len(objects) - used - 1 - size
    BY <2>2
  <2>6. used \in Nat /\ Len(objects) \in Nat
    BY <1>1, <1>4
  <2>7. work' = call.budget - (Len(objects) + 1) - (used + size)
    BY <2>1, <2>4, <2>5, <2>6, SMT
  <2> QED  BY <2>3, <2>7, Zenon
<1>7. new.start = used /\ new.end = used' /\ new.state = state
  BY <1>2 DEF new
<1>8. objects' # <<>> /\ used' = objects'[Len(objects')].end
  BY <1>4, <1>7
<1>9. ASSUME NEW i \in 1 .. Len(objects')
      PROVE  /\ objects'[i].state \in {"SKIPPED", "RESTRICTED"} => i \notin sent' /\ objects'[i].start = objects'[i].end
             /\ i \in sent' => /\ Card!AccessMet(Card!Rule(call.catalog[i]))'
                               /\ call'.catalog[i].pairing => call'.pairing
             /\ objects'[i].start <= objects'[i].end /\ objects'[i].end <= used'
             /\ i > 1 => objects'[i].start = objects'[i - 1].end
  <2>0. Card!AccessMet(Card!Rule(call.catalog[i]))' <=> Card!AccessMet(Card!Rule(call.catalog[i]))
    BY DEF Card!AccessMet, Card!Rule
  <2>1. CASE i \in 1 .. Len(objects)
    <3>1. objects'[i] = objects[i] /\ (i > 1 => objects'[i - 1] = objects[i - 1])
      BY <1>4, <2>1
    <3>2. i \in sent' <=> i \in sent
      BY <1>4, <2>1 DEF Card!Position
    <3>3. objects[i].end \in Nat
      <4>1. objects[i] \in SpanRecord
        BY <1>1, <2>1, SeqElement
      <4> QED  BY <4>1 DEF SpanRecord
    <3>4. /\ objects[i].state \in {"SKIPPED", "RESTRICTED"} => i \notin sent /\ objects[i].start = objects[i].end
          /\ i \in sent => /\ Card!AccessMet(Card!Rule(call.catalog[i]))
                           /\ call.catalog[i].pairing => call.pairing
          /\ objects[i].start <= objects[i].end /\ objects[i].end <= used
          /\ i > 1 => objects[i].start = objects[i - 1].end
      BY <2>1 DEF EntriesSoFar
    <3>5. objects[i].end <= used'
      BY <1>1, <1>3, <3>3, <3>4
    <3> QED  BY <2>0, <3>1, <3>2, <3>4, <3>5
  <2>2. CASE i = Len(objects) + 1
    <3>1. objects'[i] = new /\ i = Card!Position
      BY <1>4, <2>2 DEF Card!Position
    <3>2. i > 1 => objects'[i].start = objects'[i - 1].end
      <4> SUFFICES ASSUME i > 1 PROVE objects'[i].start = objects'[i - 1].end
        OBVIOUS
      <4>1. i - 1 = Len(objects) /\ objects # <<>> /\ objects'[i - 1] = objects[Len(objects)]
        BY <1>1, <1>4, <2>2
      <4> QED  BY <1>7, <3>1, <4>1 DEF EntriesSoFar
    <3>3. i \in sent' => /\ Card!AccessMet(Card!Rule(call.catalog[i])) /\ state \notin {"SKIPPED", "RESTRICTED"}
                         /\ call.catalog[i].pairing => call.pairing
      BY <3>1 DEF Card!Current
    <3>4. objects'[i].start <= objects'[i].end /\ objects'[i].end <= used'
      BY <1>1, <1>3, <1>7, <3>1
    <3>5. state \in {"SKIPPED", "RESTRICTED"} => used' = used
      BY <1>1, <1>2
    <3> QED  BY <1>7, <2>0, <3>1, <3>2, <3>3, <3>4, <3>5
  <2> QED  BY <1>4, <2>1, <2>2
<1> QED  BY <1>4, <1>5, <1>6, <1>8, <1>9 DEF EntriesSoFar

LEMMA CardInvInit == ASSUME Card!InventoryTypes, Card!Init PROVE CardInv
PROOF
<1>1. call \in Card!Calls /\ call.pool \in Nat /\ call.budget \in Nat /\ Len(call.catalog) \in Nat
  BY CallType DEF Card!Init
<1>2. Len(objects) = 0
  BY DEF Card!Init
<1> QED  BY <1>1, <1>2 DEF Card!Init, CardInv, Card!TypeOK

LEMMA CardInvStep == ASSUME Card!InventoryTypes, CardInv, [Card!Next]_(Card!vars) PROVE CardInv'
PROOF
<1> USE DEF CardInv
<1>0. CASE UNCHANGED Card!vars
  BY <1>0 DEF Card!vars, Card!TypeOK, EntriesSoFar, Card!AccessMet, Card!Rule, Card!Calls, Card!Empty
<1>1. /\ Len(call.catalog) \in Nat /\ call.budget \in Nat /\ used \in Nat /\ touched \in Nat /\ work \in Nat
      /\ call.pool \in Nat
  BY CallType DEF Card!TypeOK
<1>2. CASE Card!Begin
  <2>1. UNCHANGED <<call, used, touched, work, dirty, objects, sent, inventory>> /\ phase = "idle"
    BY <1>2 DEF Card!Begin
  <2>2. /\ objects = <<>> /\ Len(objects) = 0 /\ dirty = {} /\ inventory = Card!Empty
        /\ used = 0 /\ work = call.budget /\ sent = {}
    BY <2>1
  <2>3. phase' \in {"ARGUMENT", "REFUSED", "UNSUPPORTED", "NO_ROOM", "reading"}
    BY <1>2 DEF Card!Begin
  <2>4. Card!TypeOK'
    BY <2>1, <2>3 DEF Card!TypeOK, Card!Calls
  <2>5. EntriesSoFar'
    <3> HIDE DEF CardInv
    <3> QED  BY <1>1, <2>1, <2>2 DEF EntriesSoFar
  <2> QED  BY <2>1, <2>2, <2>3, <2>4, <2>5 DEF Card!Empty
<1>3. CASE Card!OutOfWork
  <2>1. phase = "reading" /\ Card!Abort("LIMIT", {}, touched) /\ UNCHANGED <<call, used, work, sent>>
    BY <1>3 DEF Card!OutOfWork, Card!Reading
  <2>2. /\ touched <= call.pool /\ sent' \subseteq 1 .. Len(call.catalog) /\ {} \subseteq 1 .. touched
        /\ work' \in Nat /\ UNCHANGED <<call, used>>
    BY Zenon, <1>1, <2>1 DEF Card!TypeOK
  <2>3. touched <= touched
    BY <1>1
  <2> HIDE DEF CardInv
  <2> QED  BY Zenon, <1>1, <2>1, <2>2, <2>3, AbortWipes
<1>4. CASE Card!Withhold
  <2>1. /\ phase = "reading" /\ work > 0 /\ Card!Withheld \in {"SKIPPED", "RESTRICTED", "OVERSIZED"}
        /\ work' = work - 1 /\ Card!Store(Card!Withheld, 0) /\ Card!Position <= Len(call.catalog)
        /\ UNCHANGED <<call, phase, touched, dirty, sent, inventory>>
    BY <1>4 DEF Card!Withhold, Card!Reading, Card!Withheld
  <2>2. EntriesSoFar /\ Card!Position \notin sent
    BY <2>1 DEF EntriesSoFar, Card!Position
  <2>3. EntriesSoFar' /\ Len(objects') = Len(objects) + 1
    <3>1. Card!Withheld \in ObjectStates /\ 0 \in Nat /\ work' = work - 1 - 0 /\ Card!TypeOK
      BY <1>1, <2>1 DEF ObjectStates
    <3>2. sent' \in {sent, sent \cup {Card!Position}} /\ Card!Position \notin sent'
      BY <2>1, <2>2
    <3> QED  BY <1>1, <2>1, <2>2, <3>1, <3>2, StoreKeeps
  <2>4. used' = used /\ work' \in Nat /\ Len(objects') <= Len(call.catalog)
    BY <1>1, <2>1, <2>3 DEF Card!Store, Card!Position
  <2>5. Card!TypeOK'
    BY <2>1, <2>4 DEF Card!TypeOK, Card!Calls
  <2> QED  BY <2>1, <2>3, <2>5
<1>5. ASSUME Card!Send, NEW reached \in SUBSET (used + 1 .. used + Card!Region)
      PROVE  /\ phase = "reading" /\ work > 0 /\ EntriesSoFar /\ UNCHANGED call
             /\ sent' = sent \cup {Card!Position} /\ sent' \subseteq 1 .. Len(call.catalog)
             /\ Card!Position <= Len(call.catalog)
             /\ Card!AccessMet(Card!Rule(Card!Current)) /\ (Card!Current.pairing => call.pairing)
             /\ Card!Region \in Nat /\ used + Card!Region <= Card!Offered
             /\ Card!Offered \in Nat /\ touched <= Card!Offered /\ Card!Offered <= call.pool
             /\ reached \subseteq 1 .. Card!Offered
  <2>1. phase = "reading" /\ work > 0 /\ Card!Position <= Len(call.catalog) /\ Card!Withheld = "no"
        /\ sent' = sent \cup {Card!Position} /\ UNCHANGED call
    BY <1>5 DEF Card!Send, Card!Reading
  <2>2. EntriesSoFar
    BY <2>1
  <2>3. Card!Position \in Nat \ {0}
    BY <2>2 DEF EntriesSoFar, Card!Position
  <2>4. sent' \subseteq 1 .. Len(call.catalog)
    BY <1>1, <2>1, <2>3 DEF Card!TypeOK
  <2>5. Card!AccessMet(Card!Rule(Card!Current)) /\ (Card!Current.pairing => call.pairing)
    BY <2>1 DEF Card!Withheld
  <2>6. /\ Card!Region \in Nat /\ used + Card!Region <= Card!Offered
        /\ Card!Offered \in Nat /\ touched <= Card!Offered /\ Card!Offered <= call.pool
    BY Zenon, RegionInPool DEF Card!TypeOK
  <2>7. reached \subseteq 1 .. Card!Offered
    BY <1>1, <2>6
  <2> QED  BY <2>1, <2>2, <2>4, <2>5, <2>6, <2>7
\* An answer that the inventory goes on after.
<1>6. ASSUME Card!Send, NEW reached \in SUBSET (used + 1 .. used + Card!Region), NEW size \in 0 .. Card!Region,
             NEW state \in {"PRESENT", "EMPTY", "ABSENT", "DENIED", "OVERSIZED"},
             Card!Store(state, size), work' = work - 1 - size, size <= work - 1,
             dirty' = dirty \cup reached, touched' = Card!Offered, UNCHANGED <<phase, inventory>>
      PROVE  CardInv'
  <2>0. /\ phase = "reading" /\ work > 0 /\ EntriesSoFar /\ UNCHANGED call
        /\ sent' = sent \cup {Card!Position} /\ sent' \subseteq 1 .. Len(call.catalog)
        /\ Card!Position <= Len(call.catalog)
        /\ Card!AccessMet(Card!Rule(Card!Current)) /\ (Card!Current.pairing => call.pairing)
        /\ Card!Region \in Nat /\ used + Card!Region <= Card!Offered
        /\ Card!Offered \in Nat /\ touched <= Card!Offered /\ Card!Offered <= call.pool
        /\ reached \subseteq 1 .. Card!Offered
    BY <1>5, <1>6
  <2>1. EntriesSoFar' /\ Len(objects') = Len(objects) + 1
    <3>1. size \in Nat /\ Card!TypeOK
      BY <1>1, <2>0
    <3>2. sent' \in {sent, sent \cup {Card!Position}} /\ state \notin {"SKIPPED", "RESTRICTED"} /\ state \in ObjectStates
      BY <2>0 DEF ObjectStates
    <3> QED  BY <1>1, <1>6, <2>0, <3>1, <3>2, StoreKeeps
  <2>2. used' = used + size /\ used' \in Nat /\ used' <= touched'
    BY <1>1, <1>6, <2>0 DEF Card!Store
  <2>3. work' \in Nat /\ Len(objects') <= Len(call.catalog)
    BY <1>1, <1>6, <2>0, <2>1 DEF Card!Position
  <2>4. Card!TypeOK'
    BY <1>6, <2>0, <2>2, <2>3 DEF Card!TypeOK, Card!Calls
  <2>5. dirty' \subseteq 1 .. touched'
    <3>1. dirty \subseteq 1 .. touched
      BY <2>0
    <3> QED  BY <1>1, <1>6, <2>0, <3>1
  <2> QED  BY <1>6, <2>0, <2>1, <2>4, <2>5
\* An answer that ends it.
<1>7. ASSUME Card!Send, NEW reached \in SUBSET (used + 1 .. used + Card!Region),
             NEW result \in {"LIMIT", "INVALID", "CARD_STATUS", "ERROR"},
             Card!Abort(result, reached, Card!Offered), UNCHANGED used, work' \in Nat
      PROVE  CardInv'
  BY Zenon, <1>5, <1>7, AbortWipes
<1>8. CASE Card!Receive
  <2> PICK end \in 0 .. Card!Region, reached \in SUBSET (used + 1 .. used + Card!Region),
           state \in {"PRESENT", "EMPTY"} :
         IF end = 0 /\ ~Card!Current.optional
         THEN Card!Abort("INVALID", reached, Card!Offered) /\ work' = work - 1 /\ UNCHANGED used
         ELSE IF end > work - 1
         THEN Card!Abort("LIMIT", reached, Card!Offered) /\ work' = 0 /\ UNCHANGED used
         ELSE /\ work' = work - 1 - end /\ Card!Store(state, end)
              /\ dirty' = dirty \cup reached /\ touched' = Card!Offered
              /\ UNCHANGED <<phase, inventory>>
    BY Zenon, <1>8 DEF Card!Receive
  <2>1. Card!Send /\ work > 0
    BY <1>8, <1>5 DEF Card!Receive
  <2>2. CASE end = 0 /\ ~Card!Current.optional
    <3>1. Card!Abort("INVALID", reached, Card!Offered) /\ work' = work - 1 /\ UNCHANGED used
      BY Zenon, <2>2
    <3>2. work' \in Nat
      BY <1>1, <2>1, <3>1
    <3> QED  BY Zenon, <1>7, <2>1, <3>1, <3>2
  <2>3. CASE ~(end = 0 /\ ~Card!Current.optional) /\ end > work - 1
    <3>1. Card!Abort("LIMIT", reached, Card!Offered) /\ work' = 0 /\ UNCHANGED used
      BY Zenon, <2>3
    <3>2. work' \in Nat
      BY <3>1
    <3> QED  BY Zenon, <1>7, <2>1, <3>1, <3>2
  <2>4. CASE ~(end = 0 /\ ~Card!Current.optional) /\ ~(end > work - 1)
    <3>1. end <= work - 1
      BY <1>1, <1>5, <2>1, <2>4
    <3> QED  BY Zenon, <1>6, <2>1, <2>4, <3>1
  <2> QED  BY <2>2, <2>3, <2>4
<1>9. CASE Card!Refusal
  <2> PICK reached \in SUBSET (used + 1 .. used + Card!Region), state \in {"ABSENT", "DENIED", "OVERSIZED"} :
         Card!Store(state, 0) /\ dirty' = dirty \cup reached /\ touched' = Card!Offered
    BY <1>9 DEF Card!Refusal
  <2>1. Card!Send /\ work' = work - 1 /\ UNCHANGED <<phase, inventory>>
    BY <1>9 DEF Card!Refusal
  <2>2. work > 0 /\ Card!Region \in Nat
    BY Zenon, <1>5, <2>1
  <2>3. 0 \in 0 .. Card!Region /\ work' = work - 1 - 0 /\ 0 <= work - 1
    BY <1>1, <2>1, <2>2
  <2> QED  BY Zenon, <1>6, <2>1, <2>3
<1>10. CASE Card!Fail
  <2> PICK reached \in SUBSET (used + 1 .. used + Card!Region),
           result \in {"CARD_STATUS", "LIMIT", "INVALID", "ERROR"} :
         Card!Abort(result, reached, Card!Offered)
    BY <1>10 DEF Card!Fail
  <2>1. Card!Send /\ work' = work - 1 /\ UNCHANGED used
    BY <1>10 DEF Card!Fail
  <2>2. work' \in Nat
    BY SMTT(30), <1>1, <1>5, <2>1
  <2> QED  BY <1>7, <2>1, <2>2
<1>11. CASE Card!Finish
  <2>1. /\ phase = "reading" /\ phase' = "OK" /\ dirty' = dirty \ (used + 1 .. touched)
        /\ inventory' = [count |-> Len(call.catalog), used |-> used] /\ Card!Position > Len(call.catalog)
        /\ UNCHANGED <<call, used, touched, work, objects, sent>>
    BY SMTT(30), <1>11 DEF Card!Finish
  <2>2. EntriesSoFar /\ Len(objects) \in Nat
    <3>1. EntriesSoFar
      BY Zenon, <2>1
    <3>2. objects \in Seq(SpanRecord)
      BY Zenon, <3>1 DEF EntriesSoFar
    <3> HIDE DEF CardInv
    <3> QED  BY <3>1, <3>2
  <2>3. Len(objects) = Len(call.catalog)
    BY <1>1, <2>1, <2>2 DEF Card!Position, Card!TypeOK
  <2>4. dirty' \subseteq 1 .. used
    BY <1>1, <2>1
  <2>5. Card!TypeOK'
    BY SMTT(30), <2>1 DEF Card!TypeOK, Card!Calls
  <2>6. EntriesSoFar'
    BY Zenon, <2>1, <2>2 DEF EntriesSoFar, Card!AccessMet, Card!Rule
  <2> QED  BY <2>1, <2>3, <2>4, <2>5, <2>6
<1>12. CASE Card!Clear
  <2>1. /\ phase \notin {"idle", "reading"} /\ phase' = "CLEARED" /\ dirty' = dirty \ (1 .. inventory.used)
        /\ objects' = <<>> /\ inventory' = Card!Empty /\ UNCHANGED <<call, used, touched, work, sent>>
    BY <1>12 DEF Card!Clear
  <2>2. dirty' = {}
    BY <2>1
  <2>3. Card!TypeOK'
    BY <1>1, <2>1 DEF Card!TypeOK, Card!Calls
  <2> QED  BY <2>1, <2>2, <2>3 DEF Card!Empty
<1> HIDE DEF CardInv
<1> QED  BY Zenon, <1>0, <1>2, <1>3, <1>4, <1>8, <1>9, <1>10, <1>11, <1>12 DEF Card!Next

\* Whichever calls, answers and failures there are, nothing of the card outlives
\* an aborted or cleared inventory, and a finished one keeps its objects' bytes
\* and no others; its entries are exact, inside the pool and paid for.
THEOREM InventorySafe ==
  ASSUME Card!InventoryTypes
  PROVE  Card!Spec => [](Card!TypeOK /\ Card!NothingLeft /\ Card!EntriesExact /\ Card!WorkExact)
PROOF
<1>1. CardInv => Card!TypeOK /\ Card!NothingLeft /\ Card!EntriesExact /\ Card!WorkExact
  <2> SUFFICES ASSUME CardInv PROVE Card!TypeOK /\ Card!NothingLeft /\ Card!EntriesExact /\ Card!WorkExact
    BY Zenon
  <2>1. Card!TypeOK /\ Card!WorkExact
    BY Zenon DEF CardInv, EntriesSoFar, Card!WorkExact
  <2>2. phase = "OK" => /\ dirty \subseteq 1 .. used /\ Len(objects) = Len(call.catalog)
                        /\ inventory = [count |-> Len(objects), used |-> used] /\ EntriesSoFar
    BY Zenon DEF CardInv
  <2>3. phase \notin {"idle", "reading", "OK"} => dirty = {} /\ objects = <<>> /\ inventory = Card!Empty
    BY Zenon DEF CardInv
  <2>4. phase = "OK" => inventory.used = used
    BY <2>2
  <2>5. Card!NothingLeft
    BY Zenon, <2>2, <2>3, <2>4 DEF Card!NothingLeft
  <2>6. Card!EntriesExact
    BY Zenon, <2>2 DEF EntriesSoFar, Card!EntriesExact
  <2> QED  BY Zenon, <2>1, <2>5, <2>6
<1>2. CardInv /\ [Card!Next]_(Card!vars) => CardInv'
  BY CardInvStep
<1>3. Card!Init => CardInv
  BY CardInvInit
<1> QED  BY <1>1, <1>2, <1>3, PTL DEF Card!Spec

(* ---------------------------- the path search ---------------------------- *)

Search == INSTANCE PathSearch

\* What the caller gives: sizes, limits and budgets are numbers.
SearchTypes ==
  /\ Capacities \subseteq Nat /\ MaxCertificates \in Nat /\ MaxInput \in Nat
  /\ StoreSize \in Nat /\ Budgets \subseteq Nat

Certified == [subject : 0 .. 3, issuer : 1 .. 3, length : 1 .. 2, framed : BOOLEAN,
              parse : {"OK", "INVALID", "UNSUPPORTED"}, verdict : {"VALID", "INVALID", "UNSUPPORTED"}]
FrameType == [anchor : Nat, candidate : Nat, bytes : Nat, issuer : 1 .. 3]

\* The caller's records, which no step changes.
SearchGiven ==
  /\ store \in [1 .. StoreSize -> Search!CandidateRecords] /\ capacity \in Capacities
  /\ anchors \in Search!AnchorRecords /\ target \in Search!Targets

\* The path is linked: each certificate is issued by the one before it, every
\* one but the target is a record of the store, and none occurs twice.
Linked ==
  /\ path \in Seq(Certified)
  /\ path # <<>> => path[Len(path)] = target
  /\ \A i \in 1 .. Len(path) - 1 :
       path[i + 1].issuer = path[i].subject /\ \E j \in 1 .. StoreSize : path[i] = store[j]
  /\ \A i \in 1 .. Len(path) : path[i].parse = "OK"
  /\ \A i, j \in 1 .. Len(path) : path[i] = path[j] => i = j

\* The stack has one frame for each certificate, which remembers its issuer.
Stacked ==
  /\ frames \in Seq(FrameType) /\ Len(frames) = Len(path) /\ Len(frames) <= Search!Limit
  /\ \A i \in 1 .. Len(frames) :
       frames[i].issuer = path[Len(path) - i + 1].issuer /\ 1 <= frames[i].anchor /\ 1 <= frames[i].candidate

\* The answer is given for the path on the stack.
Answered ==
  /\ failure \in {"INVALID", "UNSUPPORTED", "LIMIT"}
  /\ outcome.status \in Search!Statuses
  /\ outcome.status = "VALID" =>
       /\ outcome.path = path /\ path # <<>>
       /\ outcome.anchor \in 1 .. Len(anchors) /\ anchors[outcome.anchor] = path[1].issuer
       /\ \A i \in 1 .. Len(path) : path[i].verdict = "VALID"

SearchInv == work \in Nat /\ SearchGiven /\ Linked /\ Stacked /\ Answered

\* A record with one field damaged, spelled out.
LEMMA EditedRecord ==
  ASSUME NEW c \in Certified, c.framed = TRUE, NEW d,
         \/ d = [c EXCEPT !.length = 2] \/ d = [c EXCEPT !.parse = "INVALID"]
         \/ d = [c EXCEPT !.framed = FALSE, !.parse = "UNSUPPORTED"]
         \/ d = [c EXCEPT !.verdict = "INVALID"] \/ d = [c EXCEPT !.verdict = "UNSUPPORTED"]
  PROVE  d \in Certified /\ (d.parse = "OK" => d.framed = TRUE)
PROOF
<1>1. CASE d = [c EXCEPT !.length = 2]  BY <1>1 DEF Certified
<1>2. CASE d = [c EXCEPT !.parse = "INVALID"]  BY <1>2 DEF Certified
<1>3. CASE d = [c EXCEPT !.framed = FALSE, !.parse = "UNSUPPORTED"]  BY Zenon, <1>3 DEF Certified
<1>4. CASE d = [c EXCEPT !.verdict = "INVALID"]  BY <1>4 DEF Certified
<1>5. CASE d = [c EXCEPT !.verdict = "UNSUPPORTED"]  BY <1>5 DEF Certified
<1> QED  BY Zenon, <1>1, <1>2, <1>3, <1>4, <1>5

\* The records, spelled out; one that parses has a readable prefix.
LEMMA RecordTypes ==
  /\ \A c \in Search!CandidateRecords : c \in Certified /\ (c.parse = "OK" => c.framed = TRUE)
  /\ \A c \in Search!Targets : c \in Certified
  /\ \A a \in Search!AnchorRecords : a \in Seq(0 .. 3)
PROOF
<1> DEFINE C(s, i) == Search!Certificate(s, i)
<1>1. ASSUME NEW s \in {0, 1, 2}, NEW i \in {1, 2, 3}
      PROVE  C(s, i) \in Certified /\ C(s, i).framed = TRUE
  BY DEF Search!Certificate, Certified
<1> HIDE DEF C
<1>2. C(1, 3) \in Certified /\ C(1, 3).framed = TRUE /\ C(2, 3) \in Certified /\ C(2, 3).framed = TRUE
  BY Zenon, <1>1
<1>3. C(0, 1) \in Certified /\ C(0, 1).framed = TRUE /\ C(0, 3) \in Certified /\ C(0, 3).framed = TRUE
  BY Zenon, <1>1
<1>4. ASSUME NEW c \in Search!CandidateRecords
      PROVE  c \in Certified /\ (c.parse = "OK" => c.framed = TRUE)
  <2> DEFINE Listed == c \in {Search!Certificate(s, i) : s \in {Search!Inner, Search!Outer},
                                                        i \in {Search!Inner, Search!Outer, Search!Root}}
             Plain == \E s \in {1, 2}, i \in {1, 2, 3} : c = C(s, i)
             Edited == \/ c = [C(1, 3) EXCEPT !.length = 2] \/ c = [C(1, 3) EXCEPT !.parse = "INVALID"]
                       \/ c = [C(1, 3) EXCEPT !.framed = FALSE, !.parse = "UNSUPPORTED"]
                       \/ c = [C(1, 3) EXCEPT !.verdict = "INVALID"]
             Unsupported == c = [C(2, 3) EXCEPT !.verdict = "UNSUPPORTED"]
  <2>1. Listed \/ Edited \/ Unsupported
    BY DEF Search!CandidateRecords, Search!Inner, Search!Outer, Search!Root, C
  <2>2. Listed => Plain
    BY DEF Search!Inner, Search!Outer, Search!Root, C
  <2>3. CASE Plain
    BY Zenon, <1>1, <2>3
  <2>4. CASE Edited
    BY Zenon, <1>2, <2>4, EditedRecord
  <2>5. CASE Unsupported
    BY Zenon, <1>2, <2>5, EditedRecord
  <2> HIDE DEF Listed, Plain, Edited, Unsupported
  <2> QED  BY Zenon, <2>1, <2>2, <2>3, <2>4, <2>5
<1>5. ASSUME NEW c \in Search!Targets PROVE c \in Certified
  <2>1. \/ c = C(0, 1) \/ c = [C(0, 1) EXCEPT !.length = 2] \/ c = [C(0, 3) EXCEPT !.parse = "INVALID"]
    BY DEF Search!Targets, Search!Inner, Search!NoName, Search!Root, C
  <2>2. CASE c = [C(0, 1) EXCEPT !.length = 2]
    BY Zenon, <1>3, <2>2, EditedRecord
  <2>3. CASE c = [C(0, 3) EXCEPT !.parse = "INVALID"]
    BY Zenon, <1>3, <2>3, EditedRecord
  <2> QED  BY Zenon, <1>3, <2>1, <2>2, <2>3
<1>6. ASSUME NEW a \in Search!AnchorRecords PROVE a \in Seq(0 .. 3)
  <2>1. a \in {<<3>>, <<0, 3>>, <<2, 3>>, <<>>}
    BY DEF Search!AnchorRecords, Search!Outer, Search!NoName, Search!Root
  <2>2. CASE a = <<3>>  BY <2>2
  <2>3. CASE a = <<0, 3>>  BY <2>3
  <2>4. CASE a = <<2, 3>>  BY <2>4
  <2>5. CASE a = <<>>  BY <2>5
  <2> QED  BY <2>1, <2>2, <2>3, <2>4, <2>5
<1> QED  BY Zenon, <1>4, <1>5, <1>6

\* A limit of the search is a number.
LEMMA LimitType ==
  ASSUME SearchTypes, SearchGiven
  PROVE  Search!Limit \in Nat /\ (Search!Limit = 0 \/ Search!Limit >= 1)
PROOF
  BY DEF SearchTypes, SearchGiven, Search!Limit

LEMMA SearchInvInit == ASSUME SearchTypes, Search!Init PROVE SearchInv
PROOF
<1>1. SearchGiven /\ work \in Nat
  BY DEF Search!Init, SearchGiven, SearchTypes
<1>2. path = <<>> /\ frames = <<>> /\ path \in Seq(Certified) /\ frames \in Seq(FrameType)
  BY DEF Search!Init
<1>3. Linked
  BY <1>2 DEF Linked
<1>4. Stacked
  BY <1>1, <1>2, LimitType DEF Stacked
<1>5. Answered
  BY DEF Search!Init, Answered, Search!Pending, Search!Statuses
<1> QED  BY <1>1, <1>3, <1>4, <1>5 DEF SearchInv

\* A step that answers without a path leaves the stack alone.
LEMMA ReturnKeeps ==
  ASSUME SearchInv, NEW s \in Search!Statuses \ {"VALID"}, Search!Return(s), work' \in Nat
  PROVE  SearchInv'
PROOF
<1>1. SearchGiven' /\ Linked' /\ Stacked'
  BY DEF SearchInv, SearchGiven, Linked, Stacked, Search!Return, Search!Limit
<1>2. Answered'
  BY DEF SearchInv, Answered, Search!Return, Search!Pending
<1> QED  BY <1>1, <1>2 DEF SearchInv

\* The first certificate: the target is read.
LEMMA BeginKeeps == ASSUME SearchTypes, SearchInv, Search!Begin PROVE SearchInv'
PROOF
<1>0. target \in Certified /\ target.length \in Nat /\ target.parse \in {"OK", "INVALID", "UNSUPPORTED"}
  BY RecordTypes DEF SearchInv, SearchGiven, Certified
<1>1. CASE \E s \in Search!Statuses \ {"VALID"} : Search!Return(s) /\ work' \in {0, work, work - target.length} /\ work' \in Nat
  BY <1>1, ReturnKeeps DEF SearchInv
<1>2. CASE /\ Search!Limit # 0 /\ target.parse = "OK" /\ ~(target.length > work)
           /\ work' = work - target.length
           /\ path' = <<target>> /\ frames' = <<Search!Frame(target, target.length)>>
           /\ UNCHANGED <<capacity, store, anchors, target, failure, outcome>>
           /\ outcome.status = "NONE"
  <2>1. work' \in Nat /\ SearchGiven' /\ Search!Limit' = Search!Limit
    BY <1>0, <1>2 DEF SearchInv, SearchGiven, Search!Limit
  <2>2. path' \in Seq(Certified) /\ Len(path') = 1 /\ path'[1] = target
    BY <1>0, <1>2
  <2>3. Linked'
    BY <1>2, <2>2 DEF Linked
  <2>4. Search!Frame(target, target.length) \in FrameType
    BY <1>0 DEF Search!Frame, FrameType, Certified
  <2>5. frames' \in Seq(FrameType) /\ Len(frames') = 1 /\ frames'[1] = Search!Frame(target, target.length)
    BY <1>2, <2>4
  <2>6. Stacked'
    <3>1. 1 <= Search!Limit
      BY <1>2, LimitType DEF SearchInv
    <3>2. \A i \in 1 .. 1 : i = 1
      OBVIOUS
    <3> QED  BY <2>1, <2>2, <2>5, <3>1, <3>2 DEF Stacked, Search!Frame
  <2>7. Answered'
    BY <1>2 DEF SearchInv, Answered
  <2> QED  BY <2>1, <2>3, <2>6, <2>7 DEF SearchInv
<1>3. work \in Nat /\ 0 \in Nat /\ (~(target.length > work) => work - target.length \in Nat)
  BY <1>0 DEF SearchInv
<1> QED
  BY <1>0, <1>1, <1>2, <1>3 DEF Search!Begin, Search!Statuses

\* A source that fails, and a search that cannot go on.
LEMMA FailureKeeps ==
  ASSUME SearchInv, work >= 1, NEW answer \in Search!SourceAnswers, answer # "OK", Search!SourceFailed(answer)
  PROVE  SearchInv'
PROOF
<1>1. work' \in Nat
  BY DEF Search!SourceFailed, SearchInv
<1>2. \E s \in Search!Statuses \ {"VALID"} : Search!Return(s)
  BY DEF Search!SourceFailed, Search!SourceAnswers, Search!Statuses
<1> QED  BY <1>1, <1>2, ReturnKeeps

\* Moving on in the top frame keeps the stack in step with the path.
LEMMA AdvanceKeeps ==
  ASSUME SearchInv, frames # <<>>, NEW f,
         \/ f = [frames EXCEPT ![Search!Depth].anchor = @ + 1]
         \/ f = [frames EXCEPT ![Search!Depth].candidate = @ + 1]
  PROVE  /\ f \in Seq(FrameType) /\ Len(f) = Len(frames)
         /\ \A i \in 1 .. Len(f) : f[i].issuer = path[Len(path) - i + 1].issuer
                                   /\ 1 <= f[i].anchor /\ 1 <= f[i].candidate
PROOF
<1>1. frames \in Seq(FrameType) /\ Len(frames) = Len(path) /\ Len(frames) \in Nat /\ Len(frames) >= 1
  BY DEF SearchInv, Stacked
<1>2. \A i \in 1 .. Len(frames) : frames[i] \in FrameType
  BY <1>1, SeqElement
<1>3. /\ \A r \in FrameType : [r EXCEPT !.anchor = @ + 1] \in FrameType
      /\ \A r \in FrameType : [r EXCEPT !.candidate = @ + 1] \in FrameType
  BY DEF FrameType
<1>4. /\ \A r \in FrameType : [r EXCEPT !.anchor = @ + 1].issuer = r.issuer
                              /\ [r EXCEPT !.anchor = @ + 1].anchor = r.anchor + 1
                              /\ [r EXCEPT !.anchor = @ + 1].candidate = r.candidate
      /\ \A r \in FrameType : [r EXCEPT !.candidate = @ + 1].issuer = r.issuer
                              /\ [r EXCEPT !.candidate = @ + 1].anchor = r.anchor
                              /\ [r EXCEPT !.candidate = @ + 1].candidate = r.candidate + 1
  BY DEF FrameType
<1>5. PICK r \in FrameType : /\ f = [frames EXCEPT ![Len(frames)] = r]
                             /\ r.issuer = frames[Len(frames)].issuer
                             /\ r.anchor >= frames[Len(frames)].anchor
                             /\ r.candidate >= frames[Len(frames)].candidate
  <2>1. frames[Len(frames)] \in FrameType
    BY <1>1, <1>2
  <2>2. frames[Len(frames)].anchor \in Nat /\ frames[Len(frames)].candidate \in Nat
    BY <2>1 DEF FrameType
  <2> DEFINE top == frames[Len(frames)]
  <2>3. \/ f = [frames EXCEPT ![Len(frames)] = [top EXCEPT !.anchor = @ + 1]]
        \/ f = [frames EXCEPT ![Len(frames)] = [top EXCEPT !.candidate = @ + 1]]
    BY <1>1 DEF Search!Depth
  <2> HIDE DEF top
  <2>4. top \in FrameType /\ top.anchor \in Nat /\ top.candidate \in Nat
    BY <2>1, <2>2 DEF top
  <2>5. CASE f = [frames EXCEPT ![Len(frames)] = [top EXCEPT !.anchor = @ + 1]]
    <3>1. [top EXCEPT !.anchor = @ + 1] \in FrameType
      BY <1>3, <2>4
    <3>2. /\ [top EXCEPT !.anchor = @ + 1].issuer = top.issuer
          /\ [top EXCEPT !.anchor = @ + 1].anchor >= top.anchor
          /\ [top EXCEPT !.anchor = @ + 1].candidate >= top.candidate
      BY <1>4, <2>4
    <3> QED  BY Zenon, <2>5, <3>1, <3>2 DEF top
  <2>6. CASE f = [frames EXCEPT ![Len(frames)] = [top EXCEPT !.candidate = @ + 1]]
    <3>1. [top EXCEPT !.candidate = @ + 1] \in FrameType
      BY <1>3, <2>4
    <3>2. /\ [top EXCEPT !.candidate = @ + 1].issuer = top.issuer
          /\ [top EXCEPT !.candidate = @ + 1].anchor >= top.anchor
          /\ [top EXCEPT !.candidate = @ + 1].candidate >= top.candidate
      BY <1>4, <2>4
    <3> QED  BY Zenon, <2>6, <3>1, <3>2 DEF top
  <2> QED  BY <2>3, <2>5, <2>6
<1>6. f \in Seq(FrameType) /\ Len(f) = Len(frames)
  BY <1>1, <1>5
<1>7. ASSUME NEW i \in 1 .. Len(f)
      PROVE  f[i].issuer = frames[i].issuer /\ f[i].anchor >= frames[i].anchor /\ f[i].candidate >= frames[i].candidate
  <2>1. i \in 1 .. Len(frames) /\ frames[i] \in FrameType
    BY <1>2, <1>6
  <2>2. frames[i].anchor \in Nat /\ frames[i].candidate \in Nat
    BY <2>1 DEF FrameType
  <2>3. CASE i = Len(frames)
    <3>1. f[i] = r
      BY <1>1, <1>5, <2>3
    <3> QED  BY <1>5, <2>3, <3>1
  <2>4. CASE i # Len(frames)
    <3>1. f[i] = frames[i]
      BY <1>1, <1>5, <2>1, <2>4
    <3> QED  BY <2>2, <3>1
  <2> QED  BY <2>3, <2>4
<1>8. ASSUME NEW i \in 1 .. Len(f)
      PROVE  f[i].issuer = path[Len(path) - i + 1].issuer /\ 1 <= f[i].anchor /\ 1 <= f[i].candidate
  <2>1. /\ frames[i].issuer = path[Len(path) - i + 1].issuer /\ 1 <= frames[i].anchor /\ 1 <= frames[i].candidate
    BY <1>6 DEF SearchInv, Stacked
  <2>2. frames[i] \in FrameType /\ f[i] \in FrameType
    BY <1>2, <1>6, SeqElement
  <2>3. frames[i].anchor \in Nat /\ frames[i].candidate \in Nat /\ f[i].anchor \in Nat /\ f[i].candidate \in Nat
    BY <2>2 DEF FrameType
  <2>4. \A a, b \in Nat : b >= a /\ 1 <= a => 1 <= b
    OBVIOUS
  <2>5. f[i].issuer = frames[i].issuer /\ f[i].anchor >= frames[i].anchor /\ f[i].candidate >= frames[i].candidate
    BY <1>7
  <2> QED  BY <2>1, <2>3, <2>4, <2>5
<1> QED  BY <1>6, <1>8

\* An anchor: the chain is reported when the names match and every
\* certificate on it is valid.
LEMMA AnchorKeeps == ASSUME SearchTypes, SearchInv, Search!TryAnchor PROVE SearchInv'
PROOF
<1> DEFINE name == anchors[Search!Top.anchor]
           f == [frames EXCEPT ![Search!Depth].anchor = @ + 1]
           cost == IF name = Search!NoName THEN 2 ELSE IF name # Search!Top.issuer THEN 3 ELSE 3 + Search!Depth
<1>0. /\ work \in Nat /\ work > 1 /\ frames # <<>> /\ frames \in Seq(FrameType) /\ Len(frames) = Len(path)
      /\ path \in Seq(Certified) /\ Search!Depth \in Nat /\ Search!Depth = Len(path) /\ path # <<>>
      /\ outcome.status = "NONE" /\ Search!Top.anchor <= Len(anchors)
  BY DEF SearchInv, Stacked, Linked, Search!TryAnchor, Search!Searching, Search!Depth
<1>1. PICK answer \in Search!SourceAnswers :
        IF answer # "OK" THEN Search!SourceFailed(answer)
        ELSE /\ work' = IF cost > work THEN 0 ELSE work - cost
             /\ frames' = f
             /\ UNCHANGED <<capacity, store, anchors, target, path>>
             /\ IF cost > work THEN failure' = Search!Remember("LIMIT") /\ UNCHANGED outcome
                ELSE IF name # Search!Top.issuer THEN UNCHANGED <<failure, outcome>>
                ELSE /\ failure' = Search!Remember(Search!Validated)
                     /\ outcome' = IF Search!Validated = "VALID"
                                   THEN [status |-> "VALID", path |-> path, anchor |-> Search!Top.anchor]
                                   ELSE outcome
  BY DEF Search!TryAnchor
<1>2. CASE answer # "OK"
  BY <1>0, <1>1, <1>2, FailureKeeps
<1>3. CASE answer = "OK"
  <2>1. /\ work' = IF cost > work THEN 0 ELSE work - cost
        /\ frames' = f
        /\ UNCHANGED <<capacity, store, anchors, target, path>>
    BY <1>1, <1>3
  <2>2. cost \in Nat
    BY <1>0
  <2>3. work' \in Nat
    <3> HIDE DEF cost
    <3> QED  BY <1>0, <2>1, <2>2
  <2>4. SearchGiven' /\ Linked' /\ Search!Limit' = Search!Limit
    BY <2>1 DEF SearchInv, SearchGiven, Linked, Search!Limit
  <2>5. Stacked'
    <3>1. /\ f \in Seq(FrameType) /\ Len(f) = Len(frames)
          /\ \A i \in 1 .. Len(f) : f[i].issuer = path[Len(path) - i + 1].issuer
                                    /\ 1 <= f[i].anchor /\ 1 <= f[i].candidate
      BY Zenon, <1>0, AdvanceKeeps
    <3> HIDE DEF f
    <3> QED  BY <2>1, <2>4, <3>1 DEF SearchInv, Stacked
  <2>6. failure' \in {"INVALID", "UNSUPPORTED", "LIMIT"}
    <3>1. \A s : Search!Remember(s) \in {"INVALID", "UNSUPPORTED", "LIMIT"}
      BY DEF Search!Remember, SearchInv, Answered
    <3> QED  BY <1>1, <1>3, <3>1 DEF SearchInv, Answered
  <2>9. Answered'
    <3>7. CASE outcome' = outcome
      BY <1>0, <2>1, <2>6, <3>7 DEF SearchInv, Answered
    <3>8. CASE /\ outcome' = [status |-> "VALID", path |-> path, anchor |-> Search!Top.anchor]
               /\ Search!Validated = "VALID" /\ name = Search!Top.issuer
      <4>1. Search!Top.issuer = path[1].issuer /\ 1 <= Search!Top.anchor /\ Search!Top \in FrameType
        BY <1>0, SeqElement DEF SearchInv, Stacked, Search!Top
      <4>2. Search!Top.anchor \in 1 .. Len(anchors)
        BY <1>0, <4>1 DEF FrameType
      <4>3. ASSUME NEW i \in 1 .. Len(path) PROVE path[i].verdict = "VALID"
        <5>1. path[i] \in Search!Range(path)
          BY <1>0 DEF Search!Range
        <5>2. path[i] \in Certified
          BY <1>0, SeqElement
        <5>3. path[i].verdict \in {"VALID", "INVALID", "UNSUPPORTED"}
          BY <5>2 DEF Certified
        <5>4. path[i].verdict \notin {"INVALID", "UNSUPPORTED"}
          BY <3>8, <5>1 DEF Search!Validated
        <5> QED  BY <5>3, <5>4
      <4>4. /\ outcome'.status = "VALID" /\ outcome'.path = path' /\ outcome'.anchor = Search!Top.anchor
        BY <2>1, <3>8
      <4> QED  BY <1>0, <2>1, <2>6, <3>8, <4>1, <4>2, <4>3, <4>4 DEF Answered, Search!Statuses
    <3> QED  BY <1>1, <1>3, <3>7, <3>8
  <2> QED  BY <2>3, <2>4, <2>5, <2>9 DEF SearchInv
<1> QED  BY <1>2, <1>3

\* Each frame of f stands for its certificate of the path.
InStep(f) ==
  \A i \in 1 .. Len(f) : f[i].issuer = path[Len(path) - i + 1].issuer
                         /\ 1 <= f[i].anchor /\ 1 <= f[i].candidate

\* The step that takes the certificate c.
Pushed(c, f) ==
  /\ path' = <<c>> \o path /\ frames' = Append(f, Search!Frame(c, Search!Top.bytes + c.length))
  /\ UNCHANGED <<capacity, store, target>>

\* A certificate put in front of the path, named by the one below it and not
\* yet on it, keeps the path linked and the stack in step.
LEMMA PushKeeps ==
  ASSUME SearchTypes, SearchInv, path # <<>>, NEW c, NEW j \in 1 .. StoreSize, c = store[j],
         ~Search!OnPath(c), Search!Named(c), c.parse = "OK", Search!Fits(c),
         NEW f \in Seq(FrameType), Len(f) = Len(frames), InStep(f), Pushed(c, f)
  PROVE  Linked' /\ Stacked'
PROOF
<1>0. /\ frames \in Seq(FrameType) /\ Len(frames) = Len(path) /\ path \in Seq(Certified)
      /\ Len(path) \in Nat /\ Len(path) >= 1 /\ path[Len(path)] = target
  <2>1. /\ frames \in Seq(FrameType) /\ Len(frames) = Len(path) /\ path \in Seq(Certified)
        /\ path[Len(path)] = target
    BY Zenon DEF SearchInv, Stacked, Linked
  <2>2. Len(path) \in Nat /\ Len(path) >= 1
    BY SMTT(30), <2>1
  <2> QED  BY Zenon, <2>1, <2>2
<1>1. c \in Certified
  BY Zenon, RecordTypes DEF SearchInv, SearchGiven
<1>2. /\ path' \in Seq(Certified) /\ Len(path') = Len(path) + 1 /\ path'[1] = c
      /\ \A i \in 1 .. Len(path) : path'[i + 1] = path[i]
  <2>1. path' = <<c>> \o path
    BY Zenon DEF Pushed
  <2> QED  BY <1>0, <1>1, <2>1
<1>3. \A i \in 2 .. Len(path') : path'[i] = path[i - 1] /\ i - 1 \in 1 .. Len(path)
  <2> TAKE i \in 2 .. Len(path')
  <2>1. i - 1 \in 1 .. Len(path) /\ (i - 1) + 1 = i
    BY <1>0, <1>2
  <2> QED  BY <1>2, <2>1
<1>4. path[1].issuer = c.subject
  <2>1. Search!Top.issuer = path[1].issuer
    BY <1>0 DEF SearchInv, Stacked, Search!Top, Search!Depth
  <2> QED  BY <2>1 DEF Search!Named
<1>5. \A i \in 1 .. Len(path) : path[i] # c
  <2>1. DOMAIN path = 1 .. Len(path)
    BY <1>0
  <2>2. \A i \in DOMAIN path : path[i] # c
    BY Zenon DEF Search!OnPath, Search!Range
  <2> QED  BY Zenon, <2>1, <2>2
<1>6. Linked'
  <2>0. target' = target /\ store' = store
    BY Zenon DEF Pushed
  <2>1. path' # <<>> /\ path'[Len(path')] = target'
    BY <1>0, <1>2, <2>0
  <2>2. ASSUME NEW i \in 1 .. Len(path') - 1
        PROVE  path'[i + 1].issuer = path'[i].subject /\ \E k \in 1 .. StoreSize : path'[i] = store'[k]
    <3>1. CASE i = 1
      <4>1. 1 \in 1 .. Len(path) /\ 1 + 1 = i + 1
        BY <1>0, <3>1
      <4>2. path'[i + 1] = path[1] /\ path'[i] = c
        BY Zenon, <1>2, <3>1, <4>1
      <4> QED  BY Zenon, <1>4, <2>0, <4>2
    <3>2. CASE i # 1
      <4>1. i \in 2 .. Len(path') /\ i - 1 \in 1 .. Len(path) - 1 /\ i \in 1 .. Len(path)
        BY SMTT(30), <1>0, <1>2, <3>2
      <4>2. path'[i] = path[i - 1] /\ path'[i + 1] = path[i] /\ (i - 1) + 1 = i
        BY <1>2, <1>3, <4>1
      <4>3. path[(i - 1) + 1].issuer = path[i - 1].subject /\ \E k \in 1 .. StoreSize : path[i - 1] = store[k]
        BY Zenon, <4>1 DEF SearchInv, Linked
      <4> QED  BY Zenon, <2>0, <4>2, <4>3
    <3> QED  BY <3>1, <3>2
  <2>3. ASSUME NEW i \in 1 .. Len(path') PROVE path'[i].parse = "OK"
    <3>1. CASE i = 1
      BY Zenon, <1>2, <3>1
    <3>2. CASE i # 1
      <4>1. i \in 2 .. Len(path')
        BY <1>0, <1>2, <3>2
      <4>2. path'[i] = path[i - 1] /\ i - 1 \in 1 .. Len(path)
        BY Zenon, <1>3, <4>1
      <4> QED  BY Zenon, <4>2 DEF SearchInv, Linked
    <3> QED  BY <3>1, <3>2
  <2>4. ASSUME NEW i \in 1 .. Len(path'), NEW k \in 1 .. Len(path'), path'[i] = path'[k] PROVE i = k
    <3>0. \A n \in 1 .. Len(path') : n = 1 \/ n \in 2 .. Len(path')
      BY <1>2
    <3>1. \A n \in 2 .. Len(path') : path'[n] # c
      BY Zenon, <1>3, <1>5
    <3>2. CASE i = 1 \/ k = 1
      BY Zenon, <1>2, <2>4, <3>0, <3>1, <3>2
    <3>3. CASE i # 1 /\ k # 1
      <4>1. path[i - 1] = path[k - 1] /\ i - 1 \in 1 .. Len(path) /\ k - 1 \in 1 .. Len(path)
        BY Zenon, <1>3, <2>4, <3>0, <3>3
      <4>2. i - 1 = k - 1
        BY Zenon, <4>1 DEF SearchInv, Linked
      <4> QED  BY <1>0, <1>2, <4>2
    <3> QED  BY Zenon, <3>2, <3>3
  <2> QED  BY Zenon, <1>2, <2>1, <2>2, <2>3, <2>4 DEF Linked
<1>7. Stacked'
  <2> DEFINE top == Search!Frame(c, Search!Top.bytes + c.length)
  <2>1. top \in FrameType /\ top.issuer = c.issuer /\ top.anchor = 1 /\ top.candidate = 1
    <3>1. Search!Top \in FrameType
      BY <1>0, SeqElement DEF Search!Top, Search!Depth
    <3>2. Search!Top.bytes \in Nat /\ c.length \in Nat /\ c.issuer \in 1 .. 3
      BY SMTT(30), <1>1, <3>1 DEF FrameType, Certified
    <3> QED  BY <3>2 DEF Search!Frame, FrameType
  <2> HIDE DEF top
  <2>2. frames' = Append(f, top)
    BY Zenon DEF top, Pushed
  <2>3. /\ frames' \in Seq(FrameType) /\ Len(frames') = Len(f) + 1 /\ frames'[Len(f) + 1] = top
        /\ \A i \in 1 .. Len(f) : frames'[i] = f[i]
    BY <2>1, <2>2
  <2>4. Len(frames') = Len(path') /\ Len(frames') <= Search!Limit'
    <3>1. Len(frames) < Search!Limit /\ Search!Limit \in Nat /\ Search!Limit' = Search!Limit
      <4>1. capacity' = capacity
        BY Zenon DEF Pushed
      <4> QED  BY Zenon, <4>1, LimitType DEF Search!Fits, Search!Depth, Search!Limit, SearchInv
    <3> QED  BY <1>0, <1>2, <2>3, <3>1
  <2>5. ASSUME NEW i \in 1 .. Len(frames')
        PROVE  frames'[i].issuer = path'[Len(path') - i + 1].issuer
                 /\ 1 <= frames'[i].anchor /\ 1 <= frames'[i].candidate
    <3>1. CASE i = Len(frames')
      <4>1. Len(path') - i + 1 = 1 /\ frames'[i] = top
        BY <1>0, <1>2, <2>3, <2>4, <3>1
      <4>2. path'[Len(path') - i + 1] = c
        BY Zenon, <1>2, <4>1
      <4>3. 1 <= 1
        OBVIOUS
      <4> QED  BY Zenon, <2>1, <4>1, <4>2, <4>3
    <3>2. CASE i # Len(frames')
      <4>1. i \in 1 .. Len(f) /\ frames'[i] = f[i]
        BY <1>0, <2>3, <3>2
      <4>2. Len(path) - i + 1 \in 1 .. Len(path) /\ Len(path') - i + 1 = (Len(path) - i + 1) + 1
        <5> DEFINE n == Len(path)
                   m == Len(path')
        <5>1. n \in Nat /\ m = n + 1 /\ i \in 1 .. n
          BY <1>0, <1>2, <4>1
        <5> HIDE DEF n, m
        <5>2. n - i + 1 \in 1 .. n /\ m - i + 1 = (n - i + 1) + 1
          BY <5>1
        <5> QED  BY Zenon, <5>2 DEF n, m
      <4>3. path'[Len(path') - i + 1] = path[Len(path) - i + 1]
        <5>1. path'[(Len(path) - i + 1) + 1] = path[Len(path) - i + 1]
          BY Zenon, <1>2, <4>2
        <5> QED  BY Zenon, <4>2, <5>1
      <4>4. f[i].issuer = path[Len(path) - i + 1].issuer /\ 1 <= f[i].anchor /\ 1 <= f[i].candidate
        BY Zenon, <4>1 DEF InStep
      <4> QED  BY Zenon, <4>1, <4>3, <4>4
    <3> QED  BY Zenon, <3>1, <3>2
  <2> QED  BY Zenon, <2>3, <2>4, <2>5 DEF Stacked
<1> QED  BY Zenon, <1>6, <1>7

\* Returning to the certificate below.
LEMMA BacktrackKeeps == ASSUME SearchTypes, SearchInv, Search!Backtrack PROVE SearchInv'
PROOF
<1>0. /\ work \in Nat /\ work > 0 /\ frames \in Seq(FrameType) /\ Len(frames) = Len(path)
      /\ path \in Seq(Certified) /\ Len(path) >= 1 /\ Len(path) \in Nat /\ outcome.status = "NONE"
      /\ path[Len(path)] = target
  BY DEF SearchInv, Stacked, Linked, Search!Backtrack, Search!Searching, Search!Depth
<1>1. /\ work' = work - 1 /\ frames' = SubSeq(frames, 1, Len(frames) - 1) /\ path' = Tail(path)
      /\ UNCHANGED <<capacity, store, anchors, target, failure>>
      /\ outcome' = IF Search!Depth = 1 THEN [Search!Pending EXCEPT !.status = failure] ELSE outcome
  BY DEF Search!Backtrack, Search!Depth
<1>2. work' \in Nat /\ SearchGiven' /\ Search!Limit' = Search!Limit
  BY <1>0, <1>1 DEF SearchInv, SearchGiven, Search!Limit
<1>3. /\ path' \in Seq(Certified) /\ Len(path') = Len(path) - 1
      /\ \A i \in 1 .. Len(path) - 1 : path'[i] = path[i + 1]
  BY <1>0, <1>1
<1>4. /\ frames' \in Seq(FrameType) /\ Len(frames') = Len(frames) - 1
      /\ \A i \in 1 .. Len(frames) - 1 : frames'[i] = frames[i]
  BY <1>0, <1>1
<1>5. Linked'
  <2>1. path' # <<>> => path'[Len(path')] = target'
    BY <1>0, <1>1, <1>3
  <2>2. ASSUME NEW i \in 1 .. Len(path') - 1
        PROVE  path'[i + 1].issuer = path'[i].subject /\ \E k \in 1 .. StoreSize : path'[i] = store'[k]
    <3>1. i + 1 \in 1 .. Len(path) - 1 /\ i \in 1 .. Len(path) - 1
      BY <1>0, <1>3
    <3>2. path[(i + 1) + 1].issuer = path[i + 1].subject /\ \E k \in 1 .. StoreSize : path[i + 1] = store[k]
      BY <3>1 DEF SearchInv, Linked
    <3> QED  BY <1>1, <1>3, <3>1, <3>2
  <2>3. ASSUME NEW i \in 1 .. Len(path') PROVE path'[i].parse = "OK"
    BY <1>0, <1>3 DEF SearchInv, Linked
  <2>4. ASSUME NEW i \in 1 .. Len(path'), NEW k \in 1 .. Len(path'), path'[i] = path'[k] PROVE i = k
    <3>1. path[i + 1] = path[k + 1] /\ i + 1 \in 1 .. Len(path) /\ k + 1 \in 1 .. Len(path)
      BY <1>0, <1>3, <2>4
    <3>2. i + 1 = k + 1
      BY <3>1 DEF SearchInv, Linked
    <3> QED  BY <3>2
  <2> QED  BY Zenon, <1>3, <2>1, <2>2, <2>3, <2>4 DEF Linked
<1>6. Stacked'
  <2>1. Len(frames') <= Search!Limit'
    BY <1>0, <1>2, <1>4, LimitType DEF SearchInv, Stacked
  <2>2. ASSUME NEW i \in 1 .. Len(frames')
        PROVE  frames'[i].issuer = path'[Len(path') - i + 1].issuer
                 /\ 1 <= frames'[i].anchor /\ 1 <= frames'[i].candidate
    <3>1. /\ i \in 1 .. Len(frames) /\ frames'[i] = frames[i] /\ Len(path') - i + 1 \in 1 .. Len(path) - 1
          /\ (Len(path') - i + 1) + 1 = Len(path) - i + 1
      BY <1>0, <1>3, <1>4
    <3>2. path'[Len(path') - i + 1] = path[Len(path) - i + 1]
      BY <1>3, <3>1
    <3>3. frames[i].issuer = path[Len(path) - i + 1].issuer /\ 1 <= frames[i].anchor /\ 1 <= frames[i].candidate
      BY <3>1 DEF SearchInv, Stacked
    <3> QED  BY <3>1, <3>2, <3>3
  <2> QED  BY <1>0, <1>3, <1>4, <2>1, <2>2 DEF Stacked
<1>7. Answered'
  BY <1>0, <1>1 DEF SearchInv, Answered, Search!Pending, Search!Statuses
<1> QED  BY <1>2, <1>5, <1>6, <1>7 DEF SearchInv

\* The facts about finite sets that the cost of a comparison and the length of
\* a path rest on.
INSTANCE FiniteSetTheorems

\* The length of a certificate and what its comparison costs are numbers.
LEMMA CostType ==
  ASSUME path \in Seq(Certified), NEW c \in Certified
  PROVE  Search!CompareCost(c) \in Nat /\ c.length \in Nat
PROOF
<1> DEFINE same == {i \in 1 .. Len(path) : path[i].length = c.length}
<1>1. IsFiniteSet(1 .. Len(path)) /\ same \subseteq 1 .. Len(path)
  BY FS_Interval
<1>2. Cardinality(same) \in Nat
  BY <1>1, FS_Subset, FS_CardinalityType
<1>3. c.length \in Nat
  BY DEF Certified
<1>4. Len(path) \in Nat
  OBVIOUS
<1>5. Search!CompareCost(c) = Len(path) + Cardinality(same) * c.length
  <2>1. Search!Cardinality(same) = Cardinality(same)
    BY DEF Search!Cardinality, Cardinality
  <2>2. Search!CompareCost(c) = Len(path) + Search!Cardinality(same) * c.length
    BY DEF Search!CompareCost
  <2> QED  BY <2>1, <2>2
<1> HIDE DEF same
<1> QED
  <2>1. \A a, b, d \in Nat : a + b * d \in Nat
    OBVIOUS
  <2> QED  BY <1>2, <1>3, <1>4, <1>5, <2>1

\* A candidate: skipped, turned down, left unexplored, or descended to.
LEMMA CandidateKeeps == ASSUME SearchTypes, SearchInv, Search!TryCandidate PROVE SearchInv'
PROOF
<1> DEFINE c == store[Search!Top.candidate]
           f == [frames EXCEPT ![Search!Depth].candidate = @ + 1]
           cost == 2 + Search!CompareCost(c) + IF Search!OnPath(c) THEN 0
                      ELSE (IF c.framed THEN 1 ELSE c.length)
                             + (IF Search!Named(c) /\ c.framed THEN c.length ELSE 0)
<1>0. /\ work \in Nat /\ work > 1 /\ frames # <<>> /\ frames \in Seq(FrameType) /\ Len(frames) = Len(path)
      /\ path \in Seq(Certified) /\ path # <<>> /\ outcome.status = "NONE" /\ Search!Top.candidate <= Len(store)
  <2>1. work > 1 /\ Len(frames) > 0 /\ outcome.status = "NONE" /\ Search!Top.candidate <= Len(store)
    BY Zenon DEF Search!TryCandidate, Search!Searching, Search!Depth
  <2>2. /\ work \in Nat /\ frames \in Seq(FrameType) /\ Len(frames) = Len(path)
        /\ path \in Seq(Certified)
    BY Zenon DEF SearchInv, Stacked, Linked
  <2> QED  BY <2>1, <2>2
<1>1. PICK answer \in Search!SourceAnswers :
        IF answer # "OK" THEN Search!SourceFailed(answer)
        ELSE IF cost > work THEN Search!Return("LIMIT") /\ work' = 0
        ELSE /\ work' = work - cost
             /\ UNCHANGED <<capacity, store, anchors, target, outcome>>
             /\ IF Search!OnPath(c) \/ (c.framed /\ ~Search!Named(c))
                THEN frames' = f /\ UNCHANGED <<path, failure>>
                ELSE IF c.parse # "OK"
                THEN frames' = f /\ failure' = Search!Remember(c.parse) /\ UNCHANGED path
                ELSE /\ failure' = Search!Unexplored(c)
                     /\ path' = IF Search!Fits(c) THEN <<c>> \o path ELSE path
                     /\ frames' = IF Search!Fits(c)
                                  THEN Append(f, Search!Frame(c, Search!Top.bytes + c.length)) ELSE f
  BY Zenon DEF Search!TryCandidate
<1>2. PICK j \in 1 .. StoreSize : c = store[j]
  <2>1. Search!Top \in FrameType /\ 1 <= Search!Top.candidate
    BY <1>0, SeqElement DEF Search!Top, Search!Depth, SearchInv, Stacked
  <2>2. Search!Top.candidate \in Nat
    BY <2>1 DEF FrameType
  <2>3. Len(store) = StoreSize
    BY DEF SearchInv, SearchGiven, SearchTypes
  <2>4. Search!Top.candidate \in 1 .. StoreSize
    BY <1>0, <2>1, <2>2, <2>3 DEF SearchTypes
  <2> QED  BY <2>4
<1>3. c \in Certified /\ (c.parse = "OK" => c.framed) /\ c.parse \in {"OK", "INVALID", "UNSUPPORTED"}
  BY <1>2, RecordTypes DEF SearchInv, SearchGiven, Certified
<1>4. /\ f \in Seq(FrameType) /\ Len(f) = Len(frames)
      /\ \A i \in 1 .. Len(f) : f[i].issuer = path[Len(path) - i + 1].issuer
                                /\ 1 <= f[i].anchor /\ 1 <= f[i].candidate
  BY Zenon, <1>0, AdvanceKeeps
<1>5. cost \in Nat
  <2>1. Search!CompareCost(c) \in Nat /\ c.length \in Nat
    BY <1>0, <1>3, CostType
  <2> DEFINE rest == IF Search!OnPath(c) THEN 0
                     ELSE (IF c.framed THEN 1 ELSE c.length) + (IF Search!Named(c) /\ c.framed THEN c.length ELSE 0)
  <2>2. rest \in Nat
    <3> HIDE DEF c
    <3> QED  BY <2>1
  <2> HIDE DEF rest
  <2>3. cost = 2 + Search!CompareCost(c) + rest
    BY DEF rest
  <2> HIDE DEF cost, c
  <2> QED  BY <2>1, <2>2, <2>3
<1> HIDE DEF c, f, cost
<1>6. CASE answer # "OK"
  <2>1. Search!SourceFailed(answer)
    BY <1>1, <1>6
  <2>2. work >= 1
    BY <1>0
  <2> QED  BY <1>6, <2>1, <2>2, FailureKeeps
<1>7. CASE answer = "OK" /\ cost > work
  <2>1. Search!Return("LIMIT") /\ work' \in Nat
    BY <1>1, <1>7
  <2>2. "LIMIT" \in Search!Statuses \ {"VALID"}
    BY DEF Search!Statuses
  <2> QED  BY <2>1, <2>2, ReturnKeeps
<1>8. CASE answer = "OK" /\ ~(cost > work)
  <2>1. work' = work - cost /\ UNCHANGED <<capacity, store, anchors, target, outcome>>
    BY <1>1, <1>8
  <2>2. work' \in Nat /\ SearchGiven' /\ Search!Limit' = Search!Limit
    BY SMTT(30), <1>0, <1>5, <1>8, <2>1 DEF SearchInv, SearchGiven, Search!Limit
  <2>3. Answered'
    <3>1. failure' \in {failure, "LIMIT", Search!Remember(c.parse)}
      BY <1>1, <1>8 DEF Search!Unexplored
    <3>2. failure' \in {"INVALID", "UNSUPPORTED", "LIMIT"}
      BY <3>1 DEF Search!Remember, SearchInv, Answered
    <3> QED  BY Zenon, <1>0, <2>1, <3>2 DEF SearchInv, Answered
  <2>4. CASE path' = path /\ frames' = f
    <3>1. Linked'
      BY <2>1, <2>4 DEF SearchInv, Linked
    <3>2. Stacked'
      BY <1>4, <2>2, <2>4 DEF SearchInv, Stacked
    <3> QED  BY <2>2, <2>3, <3>1, <3>2 DEF SearchInv
  <2>5. CASE /\ path' = <<c>> \o path /\ frames' = Append(f, Search!Frame(c, Search!Top.bytes + c.length))
             /\ ~Search!OnPath(c) /\ Search!Named(c) /\ c.parse = "OK" /\ Search!Fits(c)
    <3>1. Linked' /\ Stacked'
      <4>1. InStep(f) /\ Pushed(c, f)
        BY Zenon, <1>4, <2>1, <2>5 DEF InStep, Pushed
      <4> QED  BY Zenon, <1>0, <1>2, <1>4, <2>5, <4>1, PushKeeps
    <3> QED  BY <2>2, <2>3, <3>1 DEF SearchInv
  <2> QED  BY <1>1, <1>3, <1>8, <2>4, <2>5
<1> QED  BY <1>6, <1>7, <1>8

LEMMA SearchInvStep ==
  ASSUME SearchTypes, SearchInv, [Search!Next]_(Search!vars)
  PROVE  SearchInv'
PROOF
<1>1. CASE Search!Begin
  BY <1>1, BeginKeeps
<1>2. CASE Search!TryAnchor
  BY <1>2, AnchorKeeps
<1>3. CASE Search!TryCandidate
  BY <1>3, CandidateKeeps
<1>4. CASE Search!Backtrack
  BY <1>4, BacktrackKeeps
<1>5. CASE Search!OutOfWork
  <2>1. Search!Return("LIMIT") /\ work' = 0
    BY <1>5 DEF Search!OutOfWork
  <2>2. "LIMIT" \in Search!Statuses \ {"VALID"} /\ work' \in Nat
    BY <2>1 DEF Search!Statuses
  <2> QED  BY <2>1, <2>2, ReturnKeeps
<1>6. CASE Search!Done \/ UNCHANGED Search!vars
  <2>1. UNCHANGED <<capacity, store, anchors, target, frames, path, work, failure, outcome>>
    BY <1>6 DEF Search!Done, Search!vars
  <2>2. SearchGiven' /\ Linked' /\ Search!Limit' = Search!Limit
    BY <2>1 DEF SearchInv, SearchGiven, Linked, Search!Limit
  <2>3. Stacked' /\ Answered' /\ work' \in Nat
    BY <2>1, <2>2 DEF SearchInv, Stacked, Answered
  <2> QED  BY <2>2, <2>3 DEF SearchInv
<1> QED  BY <1>1, <1>2, <1>3, <1>4, <1>5, <1>6 DEF Search!Next

\* A path of distinct certificates has at most StoreSize of them above the
\* target: distinct records of the store.
LEMMA PathInStore ==
  ASSUME SearchTypes, SearchInv, path # <<>>
  PROVE  \E q \in Search!Above : path = Append(q, target)
PROOF
<1> DEFINE n == Len(path) - 1
           q == [i \in 1 .. n |-> path[i]]
           S == Search!Range(store)
<1>0. path \in Seq(Certified) /\ Len(path) \in Nat /\ Len(path) >= 1 /\ n \in Nat /\ path[Len(path)] = target
  BY DEF SearchInv, Linked
<1>1. S = {store[k] : k \in 1 .. StoreSize} /\ store \in [1 .. StoreSize -> S]
  BY DEF Search!Range, SearchInv, SearchGiven
<1>2. IsFiniteSet(S) /\ Cardinality(S) <= StoreSize
  <2>1. store \in Surjection(1 .. StoreSize, S)
    BY <1>1 DEF Surjection
  <2>2. IsFiniteSet(1 .. StoreSize) /\ Cardinality(1 .. StoreSize) = StoreSize
    BY FS_Interval DEF SearchTypes
  <2> HIDE DEF S
  <2> QED  BY <2>1, <2>2, FS_Surjection
<1>3. q \in [1 .. n -> S]
  <2>1. ASSUME NEW i \in 1 .. n PROVE path[i] \in S
    BY <1>1 DEF SearchInv, Linked
  <2> QED  BY <2>1
<1>4. \A i, k \in 1 .. n : q[i] = q[k] => i = k
  <2>1. \A i \in 1 .. n : i \in 1 .. Len(path)
    BY <1>0
  <2> QED  BY <2>1 DEF SearchInv, Linked
<1>5. n <= StoreSize
  <2> HIDE DEF S, q
  <2>1. q \in Injection(1 .. n, S)
    BY <1>3, <1>4 DEF Injection, IsInjective
  <2>2. Cardinality(1 .. n) <= Cardinality(S)
    BY <1>2, <2>1, FS_Injection
  <2>3. Cardinality(1 .. n) = n
    BY <1>0, FS_Interval
  <2>4. Cardinality(S) \in Nat
    BY <1>2, FS_CardinalityType
  <2> HIDE DEF n
  <2> QED  BY <1>0, <1>2, <2>2, <2>3, <2>4 DEF SearchTypes
<1>6. q \in Search!Above
  <2> HIDE DEF q, S
  <2>1. n \in 0 .. StoreSize
    BY <1>0, <1>5 DEF SearchTypes
  <2>2. q \in [1 .. n -> Search!Range(store)]
    BY <1>3 DEF S
  <2> HIDE DEF n
  <2> QED  BY <2>1, <2>2 DEF Search!Above
<1>7. path = Append(q, target)
  <2>1. q \in Seq(Certified) /\ Len(q) = n /\ \A i \in 1 .. n : q[i] = path[i]
    BY <1>0, SeqElement
  <2> HIDE DEF q
  <2>2. Len(Append(q, target)) = Len(path)
    BY <1>0, <2>1
  <2>3. ASSUME NEW i \in 1 .. Len(path) PROVE Append(q, target)[i] = path[i]
    BY <1>0, <2>1
  <2>4. target \in Certified
    BY RecordTypes DEF SearchInv, SearchGiven
  <2>5. Append(q, target) \in Seq(Certified)
    BY <2>1, <2>4
  <2> QED  BY <1>0, <2>2, <2>3, <2>5
<1> QED  BY <1>6, <1>7

\* What the invariant says of the stack and of a path that is reported.
LEMMA SearchInvSound == ASSUME SearchTypes, SearchInv PROVE Search!StackSound /\ Search!FoundIsChain
PROOF
<1>0. path \in Seq(Certified) /\ frames \in Seq(FrameType) /\ Len(frames) = Len(path) /\ DOMAIN path = 1 .. Len(path)
  <2>1. path \in Seq(Certified) /\ frames \in Seq(FrameType) /\ Len(frames) = Len(path)
    BY Zenon DEF SearchInv, Linked, Stacked
  <2> QED  BY <2>1
<1>1. Search!IsInjective(path)
  BY <1>0 DEF Search!IsInjective, SearchInv, Linked
<1>2. Search!StackSound
  BY <1>0, <1>1 DEF Search!StackSound, Search!Depth, SearchInv, Stacked
<1>3. ASSUME outcome.status = "VALID"
      PROVE  /\ Search!Chain(outcome.path, outcome.anchor) /\ outcome.path[Len(outcome.path)] = target
             /\ outcome.path \in Search!Chains /\ Len(outcome.path) <= Search!Limit
  <2>1. /\ outcome.path = path /\ path # <<>> /\ outcome.anchor \in 1 .. Len(anchors)
        /\ anchors[outcome.anchor] = path[1].issuer /\ \A i \in 1 .. Len(path) : path[i].verdict = "VALID"
    BY <1>3 DEF SearchInv, Answered
  <2>2. Head(path) = path[1] /\ path[1].issuer # Search!NoName
    <3>1. path[1] \in Certified
      BY <1>0, <2>1, SeqElement
    <3> QED  BY <1>0, <2>1, <3>1 DEF Certified, Search!NoName
  <2>3. Search!Chain(path, outcome.anchor)
    BY <2>1, <2>2 DEF Search!Chain, SearchInv, Linked
  <2>4. path[Len(path)] = target
    BY <2>1 DEF SearchInv, Linked
  <2>5. path \in Search!Chains
    <3>1. \E q \in Search!Above : path = Append(q, target)
      BY <2>1, PathInStore
    <3>2. \E a \in 1 .. Len(anchors) : Search!Chain(path, a)
      BY <2>1, <2>3
    <3> QED  BY <1>1, <3>1, <3>2 DEF Search!Chains
  <2>6. Len(path) <= Search!Limit
    BY <1>0 DEF SearchInv, Stacked
  <2> QED  BY <2>1, <2>3, <2>4, <2>5, <2>6
<1> QED  BY <1>2, <1>3 DEF Search!FoundIsChain

\* Whatever the store, the anchors, the storage and the budget
\* (tc_x509_path_build_work): a path is reported only as a chain of distinct
\* sound certificates that leads from the reported anchor to the target,
\* within the caller's storage, and no work is spent that was not there.
THEOREM ReportedPathIsChain ==
  ASSUME SearchTypes
  PROVE  Search!Spec => [](Search!StackSound /\ Search!FoundIsChain)
PROOF
<1>1. Search!Init => SearchInv
  BY SearchInvInit
<1>2. SearchInv /\ [Search!Next]_(Search!vars) => SearchInv'
  BY SearchInvStep
<1>3. SearchInv => Search!StackSound /\ Search!FoundIsChain
  BY SearchInvSound
<1> QED  BY <1>1, <1>2, <1>3, PTL DEF Search!Spec

=============================================================================
