--------------------------- MODULE DrbgMechanisms ---------------------------
(***************************************************************************)
(* The mechanisms of SP 800-90A behind the envelope of module Drbg:        *)
(* HMAC_DRBG (drbg_hmac.c), Hash_DRBG (drbg_hash.c) and CTR_DRBG with and  *)
(* without its derivation function (drbg_ctr.c); and the RFC 6979 nonce    *)
(* generator of ECDSA (ec.c), which runs beside HMAC_DRBG on the same      *)
(* inputs.                                                                 *)
(*                                                                         *)
(* A primitive is an injective oracle: "asked" lists the distinct queries  *)
(* made so far, and the answer to a query is its position.  An input is a  *)
(* sequence of tokens (negative numbers), so that an empty input is <<>>.  *)
(* Blocks have two halves, the unit in which lengths are counted: a CTR    *)
(* key has two, three or four of them.                                     *)
(***************************************************************************)
EXTENDS Integers, Sequences, SequencesExt, FiniteSets

CONSTANTS
  Mechanisms,   \* a subset of {"hmac", "hash", "ctr"}
  KeyUnits,     \* halves of a block in a CTR key
  MaxUnits,     \* longest request, in halves
  MaxCalls      \* bound on the calls after instantiation

VARIABLES
  mech, df,  \* the mechanism; for CTR, whether it has its derivation function
  seeded,    \* is the instance instantiated?
  state,     \* its working state, with the queries asked of the primitive
  counter,   \* the reseed counter of the envelope
  nonce,     \* [on, key, v, generated]: the RFC 6979 generator beside HMAC_DRBG
  candidate, \* what its last fill produced
  output,    \* what the last call of the instance produced, in halves
  issued,    \* every half produced so far
  absorbed,  \* every input token given so far
  calls

vars == <<mech, df, seeded, state, counter, nonce, candidate, output, issued, absorbed, calls>>

Block == 2
Entropy(i) == -10 - i
Zero == -1
One == -2
Two == -3
Three == -4

\* The oracle: the table after a query, and the answer to it.
Ask(table, q) == IF Contains(table, q) THEN table ELSE Append(table, q)
Answer(table, q) == CHOOSE i \in DOMAIN table : table[i] = q

\* Halves of a list of blocks, cut to a length.
Halves(blocks) == [i \in 1..Block * Len(blocks) |-> [id |-> blocks[((i - 1) \div 2) + 1], half |-> ((i - 1) % 2) + 1]]
Cut(blocks, n) == SubSeq(Halves(blocks), 1, n)
BlocksFor(n) == (n + Block - 1) \div Block

(* ------------------------------- HMAC_DRBG ----------------------------- *)

\* hmac_parts: every part is read before the tag is written.
Hmac(s, parts) == [key |-> s.key, parts |-> parts]
SetKey(s, parts) ==
  LET q == Hmac(s, parts)
      t == Ask(s.asked, q)
  IN [s EXCEPT !.asked = t, !.key = Answer(t, q)]
SetV(s) ==
  LET q == Hmac(s, <<s.v>>)
      t == Ask(s.asked, q)
  IN [s EXCEPT !.asked = t, !.v = Answer(t, q)]

\* update: a second round only for provided data.
Round(s, separator, provided) == SetV(SetKey(s, <<s.v, separator>> \o provided))
HmacUpdate(s, provided) ==
  IF provided = <<>> THEN Round(s, Zero, <<>>) ELSE Round(Round(s, Zero, provided), One, provided)

\* tc_drbg_hmac_seed
HmacSeed(s, provided, reseed) ==
  HmacUpdate(IF reseed THEN s ELSE [s EXCEPT !.key = 0, !.v = 0], provided)

NextBlock(s, i) == LET t == SetV(s) IN [t EXCEPT !.out = Append(@, t.v)]

\* tc_drbg_hmac_generate
HmacGenerate(s, n, additional) ==
  LET before == IF additional = <<>> THEN s ELSE HmacUpdate(s, additional)
  IN HmacUpdate(FoldLeft(NextBlock, before, [i \in 1..BlocksFor(n) |-> i]), additional)

(* ------------------------------- RFC 6979 ------------------------------ *)

\* tc_rfc6979_reseed: the private key and the digest, or nothing on a retry.
NonceReseed(s, separator, secret) == SetV(SetKey(s, <<s.v, separator>> \o secret))

\* tc_rfc6979_init
NonceInit(s, secret) ==
  NonceReseed(NonceReseed([s EXCEPT !.key = 0, !.v = 0], Zero, secret), One, secret)

\* tc_rfc6979_fill: every candidate after the first updates the state before.
NonceFill(s, n, generated) ==
  FoldLeft(NextBlock, IF generated THEN NonceReseed(s, Zero, <<>>) ELSE s, [i \in 1..BlocksFor(n) |-> i])

(* ------------------------------- Hash_DRBG ----------------------------- *)

\* A value of seedlen bits is a sum: the answers added to it, and a number.
Sum(ids, n) == [adds |-> ids, n |-> n]
NoSum == Sum(<<>>, 0)
HashQuery(tag, v, data) == [tag |-> tag, v |-> v, data |-> data]

\* hash_df: one answer stands for the blocks numbered by the prefix.
DfTag == -5
HashDf(s, tag, v, data) ==
  LET q == HashQuery(<<DfTag>> \o tag, v, data)
      t == Ask(s.asked, q)
  IN [table |-> t, value |-> Sum(<<Answer(t, q)>>, 0)]

\* add_mod
AddMod(v, ids, n) == Sum(v.adds \o ids, v.n + n)

\* tc_drbg_hash_seed: V from the material, then C from V.
HashSeed(s, data, reseed) ==
  LET seed == IF reseed THEN HashDf(s, <<One>>, s.v, data) ELSE HashDf(s, <<>>, NoSum, data)
      c == HashDf([s EXCEPT !.asked = seed.table], <<Zero>>, seed.value, <<>>)
  IN [s EXCEPT !.asked = c.table, !.v = seed.value, !.c = c.value]

\* hash_parts over one tag, V and the data.
HashParts(s, tag, v, data) ==
  LET q == HashQuery(tag, v, data)
      t == Ask(s.asked, q)
  IN [table |-> t, id |-> Answer(t, q)]

HashBlock(s, i) ==
  LET h == HashParts(s, <<>>, AddMod(s.v, <<>>, i - 1), <<>>)
  IN [s EXCEPT !.asked = h.table, !.out = Append(@, h.id)]

\* Mutant: V only advances by the reseed counter.
HashGenerateCounted(s, n, additional, used) ==
  LET first == HashParts(s, <<Two>>, s.v, additional)
      folded == IF additional = <<>> THEN s
                ELSE [s EXCEPT !.asked = first.table, !.v = AddMod(s.v, <<first.id>>, 0)]
      made == FoldLeft(HashBlock, folded, [i \in 1..BlocksFor(n) |-> i])
  IN [made EXCEPT !.v = AddMod(made.v, <<>>, used)]

\* tc_drbg_hash_generate: Hashgen works on a copy of V; then V takes
\* Hash(3 || V), C and the reseed counter.
HashGenerate(s, n, additional, used) ==
  LET first == HashParts(s, <<Two>>, s.v, additional)
      folded == IF additional = <<>> THEN s
                ELSE [s EXCEPT !.asked = first.table, !.v = AddMod(s.v, <<first.id>>, 0)]
      made == FoldLeft(HashBlock, folded, [i \in 1..BlocksFor(n) |-> i])
      h == HashParts(made, <<Three>>, made.v, <<>>)
  IN [made EXCEPT !.asked = h.table, !.v = AddMod(made.v, <<h.id>> \o made.c.adds, made.c.n + used)]

(* ------------------------------- CTR_DRBG ------------------------------ *)

\* A half of a block is the set of the values that are XORed in it.
XorHalf(a, b) == (a \ b) \cup (b \ a)
XorUnits(s, t) == [i \in DOMAIN s |-> XorHalf(s[i], t[i])]
ZeroUnits(n) == [i \in 1..n |-> {}]
SeedUnits(k) == k + Block
Counter(base, n) == [base |-> base, n |-> n]
CtrQuery(key, v, data) == [key |-> key, v |-> v, data |-> data]

\* tc_internal_increment_be, then encrypt, on the V of the state; "made" are
\* the blocks so far.
CtrBlock(s, i) ==
  LET v == Counter(s.v.base, s.v.n + 1)
      q == CtrQuery(s.key, v, <<>>)
      t == Ask(s.asked, q)
  IN [s EXCEPT !.asked = t, !.v = v, !.out = Append(@, Answer(t, q)),
               !.spent = Append(@, Answer(t, q))]

UnitsOf(blocks, n) == [i \in 1..n |-> {<<blocks[((i - 1) \div Block) + 1], ((i - 1) % Block) + 1>>}]

\* update: enough blocks for a seed, XORed with the provided data, are the
\* next key and the next V.
CtrUpdate(s, provided) ==
  LET k == Len(s.key)
      made == FoldLeft(CtrBlock, [s EXCEPT !.out = <<>>], [i \in 1..BlocksFor(SeedUnits(k)) |-> i])
      temp == XorUnits(UnitsOf(made.out, SeedUnits(k)), provided)
  IN [made EXCEPT !.out = s.out, !.key = SubSeq(temp, 1, k), !.v = Counter(SubSeq(temp, k + 1, k + Block), 0)]

\* block_cipher_df: BCC blocks over the header, the parts and the padding give
\* a key and X; then X is encrypted over and over.
BlockCipherDf(s, data) ==
  LET k == Len(s.key)
      Bcc(r, i) == LET q == CtrQuery(<<>>, Counter(<<>>, i), data)
                       t == Ask(r.asked, q)
                   IN [r EXCEPT !.asked = t, !.out = Append(@, Answer(t, q))]
      macs == FoldLeft(Bcc, [s EXCEPT !.out = <<>>], [i \in 1..BlocksFor(SeedUnits(k)) |-> i - 1])
      temp == UnitsOf(macs.out, SeedUnits(k))
      Chain(r, i) == LET q == CtrQuery(SubSeq(temp, 1, k), Counter(r.x, 0), <<>>)
                        t == Ask(r.asked, q)
                    IN [asked |-> t, out |-> Append(r.out, Answer(t, q)),
                        x |-> UnitsOf(<<Answer(t, q)>>, Block)]
      derived == FoldLeft(Chain, [asked |-> macs.asked, out |-> <<>>, x |-> SubSeq(temp, k + 1, k + Block)],
                          [i \in 1..BlocksFor(SeedUnits(k)) |-> i])
  IN [asked |-> derived.asked, seed |-> UnitsOf(derived.out, SeedUnits(k))]

\* seed_material: the parts through the derivation function; without it the
\* entropy input, a full seed, XORed with the others, padded with zeros.
SeedMaterial(s, entropy, others) ==
  LET n == SeedUnits(Len(s.key))
      plain == [i \in 1..n |-> IF i \in DOMAIN others THEN {<<others[i], 1>>} ELSE {}]
      full == [i \in 1..n |-> {<<e, i>> : e \in ToSet(entropy)}]
  IN IF df THEN BlockCipherDf(s, entropy \o others)
     ELSE [asked |-> s.asked, seed |-> XorUnits(plain, full)]

\* tc_drbg_ctr_seed
CtrSeed(s, entropy, others, reseed) ==
  LET material == SeedMaterial(s, entropy, others)
      from == IF reseed THEN s
              ELSE [s EXCEPT !.key = ZeroUnits(Len(s.key)), !.v = Counter(ZeroUnits(Block), 0)]
  IN CtrUpdate([from EXCEPT !.asked = material.asked], material.seed)

\* tc_drbg_ctr_generate: the additional input is used before and behind the output.
CtrGenerate(s, n, additional) ==
  LET material == SeedMaterial(s, <<>>, additional)
      adjusted == IF additional = <<>> THEN ZeroUnits(SeedUnits(Len(s.key))) ELSE material.seed
      before == IF additional = <<>> THEN s ELSE CtrUpdate([s EXCEPT !.asked = material.asked], adjusted)
  IN CtrUpdate(FoldLeft(CtrBlock, before, [i \in 1..BlocksFor(n) |-> i]), adjusted)

(* ------------------------------ The instance --------------------------- *)

\* tc_drbg_ctr_parameters and its like: what a mechanism starts from.
Starts(m) ==
  CASE m = "hmac" -> {[key |-> 0, v |-> 0, asked |-> <<>>, out |-> <<>>]}
    [] m = "hash" -> {[v |-> NoSum, c |-> NoSum, asked |-> <<>>, out |-> <<>>]}
    [] m = "ctr"  -> {[key |-> ZeroUnits(k), v |-> Counter(ZeroUnits(Block), 0), asked |-> <<>>,
                       out |-> <<>>, spent |-> <<>>] : k \in KeyUnits}

\* The seed function of the mechanism, on the parts the envelope gives it.
Seed(s, entropy, others, reseed) ==
  CASE mech = "hmac" -> HmacSeed(s, entropy \o others, reseed)
    [] mech = "hash" -> HashSeed(s, entropy \o others, reseed)
    [] mech = "ctr"  -> CtrSeed(s, entropy, others, reseed)

\* The generate function of the mechanism.
Make(s, n, additional) ==
  CASE mech = "hmac" -> HmacGenerate([s EXCEPT !.out = <<>>], n, additional)
    [] mech = "hash" -> HashGenerate([s EXCEPT !.out = <<>>], n, additional, counter)
    [] mech = "ctr"  -> CtrGenerate([s EXCEPT !.out = <<>>], n, additional)

Init ==
  /\ mech \in Mechanisms
  /\ df \in (IF mech = "ctr" THEN BOOLEAN ELSE {FALSE})
  /\ state \in Starts(mech)
  /\ seeded = FALSE
  /\ counter = 0
  /\ nonce = [on |-> FALSE, key |-> 0, v |-> 0, generated |-> FALSE]
  /\ output = <<>>
  /\ candidate = <<>>
  /\ issued = <<>>
  /\ absorbed = {}
  /\ calls = 0

NonceOff == [nonce EXCEPT !.on = FALSE]
Nonce(s, generated) == [on |-> TRUE, key |-> s.key, v |-> s.v, generated |-> generated]
AtNonce(s) == [key |-> nonce.key, v |-> nonce.v, asked |-> s.asked, out |-> <<>>]

\* Entropy, the nonce where the mechanism uses one, and a personalization.
\* With HMAC and no personalization the RFC 6979 generator starts beside it,
\* from the private key and the digest in place of the entropy and the nonce.
Instantiate ==
  /\ ~seeded
  /\ \E personalization \in {<<>>, <<-50>>} :
       \E others \in {(IF mech = "ctr" /\ ~df THEN <<>> ELSE <<-40>>) \o personalization} :
       \E s \in {Seed(state, <<Entropy(0)>>, others, FALSE)} :
         /\ IF mech = "hmac" /\ personalization = <<>>
            THEN \E r \in {NonceInit(AtNonce(s), <<Entropy(0), -40>>)} :
                   state' = [s EXCEPT !.asked = r.asked] /\ nonce' = Nonce(r, FALSE)
            ELSE state' = s /\ UNCHANGED nonce
         /\ absorbed' = ToSet(others) \cup {Entropy(0)}
  /\ seeded' = TRUE
  /\ counter' = 1
  /\ UNCHANGED <<mech, df, candidate, output, issued, calls>>

\* A reseed with fresh entropy; an RFC 6979 generator has none.
Reseed ==
  /\ seeded /\ calls < MaxCalls
  /\ \E additional \in {<<>>, <<-60 - calls>>} :
       /\ state' = Seed(state, <<Entropy(calls + 1)>>, additional, TRUE)
       /\ absorbed' = absorbed \cup {Entropy(calls + 1)} \cup ToSet(additional)
  /\ counter' = 1
  /\ calls' = calls + 1
  /\ nonce' = NonceOff
  /\ candidate' = <<>>
  /\ output' = <<>>
  /\ UNCHANGED <<mech, df, seeded, issued>>

\* A request for n halves; the RFC 6979 generator fills as many.
Generate ==
  /\ seeded /\ calls < MaxCalls
  /\ \E n \in 1..MaxUnits, additional \in {<<>>, <<-60 - calls>>} :
       \E s \in {Make(state, n, additional)} :
         /\ output' = Cut(s.out, n)
         /\ issued' = issued \o output'
         /\ absorbed' = absorbed \cup ToSet(additional)
         /\ IF nonce.on /\ additional = <<>>
            THEN \E r \in {NonceFill(AtNonce(s), n, nonce.generated)} :
                   state' = [s EXCEPT !.asked = r.asked] /\ nonce' = Nonce(r, TRUE) /\ candidate' = Cut(r.out, n)
            ELSE state' = s /\ nonce' = NonceOff /\ candidate' = <<>>
  /\ counter' = counter + 1
  /\ calls' = calls + 1
  /\ UNCHANGED <<mech, df, seeded>>

Next == Instantiate \/ Reseed \/ Generate

Spec == Init /\ [][Next]_vars

(* ------------------------------ Properties ----------------------------- *)

IssuedIds == {h.id : h \in ToSet(issued)}

\* The answers the working state is made of.
StateIds ==
  CASE mech = "hmac" -> {state.key, state.v}
    [] mech = "hash" -> ToSet(state.v.adds) \cup ToSet(state.c.adds)
    [] mech = "ctr"  -> {a[1] : a \in UNION (ToSet(state.key) \cup ToSet(state.v.base))}

\* What a query reads: answers (positive) and input tokens (negative).
Reads(q) ==
  CASE mech = "hmac" -> {q.key} \cup ToSet(q.parts)
    [] mech = "hash" -> ToSet(q.v.adds) \cup ToSet(q.data)
    [] mech = "ctr"  -> {a[1] : a \in UNION (ToSet(q.key) \cup ToSet(q.v.base))} \cup ToSet(q.data)

\* Everything the live state was derived from: a query reads older answers
\* only, so that one pass from the youngest query down finds them all.
Sources ==
  LET down == [i \in DOMAIN state.asked |-> Len(state.asked) + 1 - i]
      Trace(found, i) == IF i \in found THEN found \cup Reads(state.asked[i]) ELSE found
  IN FoldLeft(Trace, StateIds, down)

\* No half of a block is given out twice in the life of an instance: not by
\* two calls, not across a reseed, whatever the lengths and the additional
\* inputs (the generate functions of the three mechanisms).
OutputsFresh == IsInjective(issued)

\* When a call returns, no answer that was given out is part of the working
\* state: it is updated behind the output (the closing update of each
\* mechanism).
StateHidden == IssuedIds \cap StateIds = {}

\* No counter is encrypted twice under one key, by outputs or by updates: an
\* output block is never key material too (V of drbg_ctr.c moves with every
\* encryption).
CounterOnce == mech = "ctr" => IsInjective(state.spent)

\* Every input of the instance's life is in what the live state was derived
\* from: entropy, nonce, personalization and additional input, also across a
\* later reseed (which reads the state it replaces).
InputsKept == seeded => absorbed \subseteq Sources

\* The RFC 6979 generator of ECDSA is HMAC_DRBG seeded with the private key
\* and the digest: its n-th candidate is the output of the n-th call, although
\* it updates before a retry and the DRBG behind an output.
NonceIsHmacDrbg == nonce.on => candidate = output
=============================================================================
