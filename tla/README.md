# Verification of tiny-crypto-c

tiny-crypto-c is a heap-free C library: ciphers, hashes and a DRBG at the
bottom, an ASN.1 and X.509 layer in the middle, and PIV and TWIC card access on
top. It has no threads of its own. What is hard about it is the order of calls,
transports and callbacks that fail between two steps, state that is stale when
it is used again, retries, and counters and budgets at their limits. The models
are about those. Ciphers and hash functions are ideal functions here; curve,
RSA and multi-precision code is modelled with its arithmetic on small moduli.

Paths below are relative to `src/src`, or begin with `examples/`. `PROJECT.json` maps each definition to
the lines it models, and lists components, runs, hazards and theorems.

## Parts of the system and how they interact

            TWIC reader program (examples/twic_authenticate.c)
            |                    |              |
    credential objects / card inventory, check  revocation: CRL, OCSP
            |            |                              |
            |       piv_link, piv_verify, ...     path search and validation
            |            |            \                 |
            |       piv_sm (session)   key_challenge    x509_store, twic_ccl
            |            |                 |            (snapshot slots)
            +------ apdu_channel        pki work budgets, source reader
                         |                 |
                  caller's transport    RSA, EC, DRBG, hashes, block modes

- A *channel* (`apdu_channel.c`) turns one logical command into transmits.
- A *link* (`piv_link.c` and the command files) keeps what is known about the
  card: application, PIN and VCI status, whether commands are protected.
- A *session* (`piv_sm*.c`) holds the secure messaging keys, a counter and two
  MAC chaining values. The link borrows it while it is bound.
- A *challenge* (`key_challenge.c`) proves possession of a card key. It draws
  from a random source, usually `drbg_random.c`, and charges a work budget.
- *Path search, validation and revocation* work on the same budgets and on
  snapshots published by a store.
- *Credential objects, the card inventory and the card check* combine what the
  layers below say.
- The *TWIC reader program* is the application that the library's documents
  show: it strings all of them together in one transaction with a card.

The full inventory, with what is left out and why, is `components` in
`PROJECT.json`.

## Modules

Card protocol and stores, each checked by a run of its own:

| Module | Models | State |
|---|---|---|
| `SecureMessaging` | `piv_sm.c`, `piv_sm_message.c`, `piv_sm_authenticate.c` | a `TC_PIV_SM`, the medium, the card |
| `ApduExchange` | what a transceive call promises its callers | budget, stopped flag, result |
| `ApduChannel` | `apdu_channel.c`, `apdu_encode.c`, `apdu_response.c` | a `TC_APDU_channel` and the locals of a call |
| `PivLink` | `piv_link.c`, `piv_select.c`, `piv_verify.c`, `piv_vci.c`, `piv_get_data.c`, `piv_discovery_get.c`, `piv_key_proof.c`, `piv_sm_apdu.c`, `piv_sm_key_request.c` | a `TC_PIV_link` with its session, the caller's Discovery Object, the card |
| `SnapshotVersions` | what a store promises its users | published list, leases |
| `SnapshotStore` | `snapshot.c`, `x509_store.c`, the store of `twic_ccl.c` | slots, revision, drafts, leases |
| `TwicAuthenticate` | `examples/twic_authenticate.c`, `credential_validate.c`, `credential_pcsc.c` | options, both times, work, spans kept, what is held |

Primitives, `MCPrimitives`: `Drbg` (`drbg.c`, `drbg_random.c`),
`DrbgMechanisms` (`drbg_hash.c`, `drbg_hmac.c`, `drbg_ctr.c`), `BlockModes`
(`block_modes.c`, `des_modes.c`), `AeadModes` (CCM, EAX, EAX prime, SIV),
`GcmStream` (`aes_gcm.c`), `HashStream` (`hash_core.c`, HMAC), `RsaPrivate`
(`rsa_private_internal.h`, `rsa_prime_internal.h`), `RsaSchemes`
(`rsa_public.c`, `rsa_private.c`, `rsa_oaep.c`), `RsaKeygen` (`rsa_keygen.c`),
`Ecdsa` (`ec.c`), `LimbArithmetic` (`mp_*.h`).

Certificate layer, `MCCertificates`: `TlvStream` (`tlv*.c`), `ExtensionReaders`
(`x509_ext.c`, and the matching of names of `x509_name_constraints.c`), `TrustAnchor`
(`x509_trust_anchor.c`, `x509_store_anchor.c`), `PathSearch` (`x509_search.c`),
`PathValidation` (`x509_path.c`), `PolicyGraph` (`x509_policy.c`), `KeyChallenge`
(`key_challenge.c`, the digest verification of `x509.c`, `pki_budget_internal.h`).

Revocation layer, `MCRevocation`: `CrlReader` (with the coverage and
choice of lists), `CrlPrepare`, `CrlScopes` (the `x509_crl*.c` files), `Revocation`
(`x509_revocation.c`), `Ocsp` (`x509_ocsp.c`).

Credential layer, `MCCredentials`: `CmsSignedData` (`cms.c`,
`cms_path.c`, `cms_collections.c`), `CredentialObjects` (`credential*.c`,
`piv_cms.c`, `piv_security.c`, `twic_chuid.c`, `lds.c`), `CardCheck`
(`piv_card_check*.c`), `CardInventory` (`piv_inventory.c`), `CancelList`
(`twic_ccl.c`, `examples/twic_ccl_import.c`, `examples/twic_ccl_storage.c`),
`StoragePlan` (`pki_storage.c` and its callers), `FeatureRules`
(`tiny_crypto/config.h`).

The parts of a layer work on the storage each caller gives them and share no
state. So an `MC` module holds its parts side by side: a behaviour runs the one
named by `part`, whose variables are the slots `s1`, `s2`, ... The values of
the constants are written in the instance, and a property of the layer is the
conjunction of what its parts promise under one heading. The `Spec` of `Drbg`
and `KeyChallenge` is one disjunct of the layer that extends it.

`ApduChannel` implements `ApduExchange`, through a refinement mapping in which a
call is one abstract step, taken when it returns. `PivLink` is built on the same
promise: its `ChannelTransceive` allows exactly the pairs of result and delivery
that `ApduExchange!Outcome` allows, so what `PivLink` assumes of the channel is
what `ApduChannel` is shown to provide. `SnapshotStore` implements
`SnapshotVersions`.

Operators marked `Mutant` are plausible mistakes in the definition that follows
them. No specification uses them. Each stands beside the definition it changes.

### SecureMessaging

One action for each function that changes a session: `Begin`, `Finish`,
`Authenticate`, `Protect`, `Unprotect`, `Release`. `Clear` is
`TC_PIV_SM_clear`, which every failure path runs. The card (`CardEstablish`,
`CardExecute`, `CardReset`) is external and behaves as the host code expects.
Messages stay on the medium for ever: they may be lost, repeated, delayed,
reordered, damaged (`intact`, `wellFormed`) or belong to another session.

A MAC is ideal, so a chaining value is the sequence of messages it covers.
A key is the pair of the host's scalar and the card's nonce. The counter is 128
bits wide in the code, of which the low 120 form the response vector:
`LowCounter` stands for 2^120 and 256 values of the high byte remain, so that
the stop in `TC_PIV_SM_protect` and the wrap are both in the model. Decryption
under a wrong vector yields `Garbled`.

### ApduChannel

A call runs from one transmit to the next in one step, since the transport runs
between them. `Call` is everything before the first transmit, `Transmit` one
transmit with what follows it, `StepFails` a step that is refused before the
transport is called, `Take` the return to the caller. The byte limits of
ISO/IEC 7816-4 are constants. The response buffer is kept byte by byte: a data
byte carries its position in the card's output, so that lost, doubled or
misplaced bytes show.

### PivLink

One action for each public call. A call that is refused before it sends changes
nothing and is no step. `TC_PIV_pin_verify` is two actions, `PinVerify` for the
query and `PinSubmit` for the submission, because the card acts in between.
`sid` numbers the keys of a session, on the link and on the card.

Abstractions: templates are readable or not (`read`); `link->status`, the
profile and the work counter are left out, since no guard that is modelled
depends on them. The card keeps a PIN status until another application is
selected, it is reset, or a wrong PIN is presented. A Discovery Object read in
the clear may say anything, because it is unsigned. A caller drops it together
with the link it came from. A card that is removed is noticed at the next
transmit.

### SnapshotStore

The application's lock makes every call one step. Between an update's `Begin`,
its prepare and its publish, other updaters and readers run. Payloads are the
sets of updates a list contains, so that a lost update shows.

### Drbg and KeyChallenge

A working state of a DRBG is the seed it descends from and the number of
requests answered since. It is torn once a primitive fails inside it.
`TC_DRBG_random` takes one step for each request it splits into.
`KeyChallenge` has the budget as an unsigned number that wraps at `Modulus`, and
a signature provider that may report any number as what it leaves of its loan.
What a provider does with the loan is its own affair, so `spent` counts only
what the library charges: `WorkBounded` says that the budget handed back is
within the grant less those charges.

### TwicAuthenticate

One behaviour is one run of the program. `pc` is where `main` stands; each
action is one stretch of it between two calls that can fail, with the whole
charge and the whole failure path of that stretch, and every failure leads to
`Cleanup`. `signed_objects_check` is called twice; `pass` tells the calls apart,
and `kept` is what the first leaves for the second. Whether a path, a list or an
object deserves its verdict is the time until which it is good (`inputs.until`),
so that a clock that moves between the passes matters. `commands` counts steps
that reached the card, `held` what has to be given back, `unreleased` what a
failing release lost.

### CardInventory and CancelList

`CardInventory` takes one step for each entry of the catalog: withheld without a
command, or sent, with any answer. An answer may leave card data anywhere in the
region offered to it (`dirty`), which is what the wipes have to cover.

`CancelList` has one step for each call and for each row, key or probe of the
loop inside it: a file cut into chunks at any byte, the checksum over what was
accepted, the staged keys with a source that fails, the search with its limit.
The current list comes from an earlier import. `SnapshotStore` has the
interleavings of several callers on the same store.

### The other parts

Every module starts with a comment on what it stands for. Common to them:

- A reader or algorithm that the code runs in one call without calling back is
  a function or a sequence of steps. Its result is compared with a reference
  definition written from the standard the code cites. Steps stop where a
  callback, a random source, a primitive or the storage can fail.
- Names, digests, keys and signatures are model values. A signature is the key
  and the digest it was made with. Verdicts of a lower part (a path, a
  signature, a parse) are inputs of the part above it, chosen freely.
- RSA and curve modules compute on ten-bit moduli and a curve of 23 points,
  with real Miller-Rabin, CRT, blinding and complete point formulas. Limb
  routines run on three limbs of two bits.
- Budgets, capacities and lengths are at, below and above the point where they
  bind.
- A part with several operations that share no state (`ExtensionReaders`,
  `CrlReader`, `CmsSignedData`) starts a behaviour in one of them; `kind`, `job`
  or `phase` says which.
- `AeadModes` keeps the cancellation in EAX prime: in a MAC of one block the
  constant it starts from is added to a subkey that may be the same, as C12.22
  defines it. So `RequestsDistinct` is stated of EAX prime only for a cleartext
  of more than one block; of the other modes it is stated without exception.
- `StoragePlan` has the writes and inputs of every operation as data and runs
  the one comparison of `pki_storage.c` over them. The work counter is one of
  the ranges except in two plans (`CounterUnchecked`), where the headers ask the
  application to keep it apart.

## Runs

| Run | Shows | Distinct states |
|---|---|---|
| `sm_session` | vectors are never reused, host and card agree on the exchange | 92,369 |
| `channel` | assembly, no unsafe repetition, termination, refinement | 325,963 |
| `piv_link` | flags agree with the card, no downgrade, secrets protected, no blocked PIN | 259,007 |
| `snapshot_store` | counts, refinement, dates, lookups, reclaimed slots | 93,494 |
| `primitives` | DRBG guarantees, exact outputs, nothing used twice, no unverified text, sound keys and signatures, exact verdicts | 564,808 |
| `certificates` | exact reading and matching, sound and complete paths, policies, one proof for a challenge within its budget | 3,251,830 |
| `revocation` | exact lists, authentic evidence, justified and complete verdicts | 2,530,862 |
| `credentials` | genuine signers, grounded objects and inventories, exact canceled card lists, prepared calls | 6,055,943 |
| `twic_reader` | success only when all that was asked for is good at the end; offline second pass; everything handed back | 372,874 |

Three more runs state what a comment of the code says and end in a violation:
`hash_parts` (`NothingPartial`), `either_source` (`EitherSource`) and
`path_counter` (`WorkIsChecked`). They use the modules of the layers, restricted to one part, and are explained below
under "Where documentation and code differ".

Each property is stated in words above its definition. Bounds, and why they are
enough to be interesting:

- `sm_session`: two establishments begun and two answered, so that answers and
  messages of a dead session exist. `LowCounter = 4` lets a session reach the
  counter stop after three commands. One plaintext and the empty one, which is
  not encrypted.
- `channel`: `ShortMaxNc = ShortMaxNe = 2`, so 4 data bytes are a chain of two
  fragments and 3 expected bytes need the extended form. Budgets 1 and 4 end in
  the middle of a chain and of a sequence of GET RESPONSE. The scratch, the card
  limits and the capacities each have one value that is too small somewhere.
- `piv_link`: two PIN references share the one PIN flag, two tries and floor 2
  make the first wrong PIN the critical one, two key requests allow a re-key.
  The references are symmetric: nothing tells them apart.
- `snapshot_store`: three slots for a current, a retired and a prepared list;
  two updaters race for a revision; `MaxReaders = 2` with three readers, and
  `MaxRevision = 2` with three updates, reach both limits.
- `primitives`: reseed intervals 1 and 2, three chunks and four seeds, so that a
  reseed falls inside a split request and a second one follows. Blocks of three
  bits with counters at the end of their space, AEAD texts that end inside, at
  and past a block, a GCM counter of five values, hash limits of 7 and 15 bytes.
  RSA keys fail one rule each; draws and faults cover every rejection.
- `certificates`: messages of up to six bytes in every cut, every short name
  against every short base, chains of up to four certificates, stores of three.
  The small grant of a challenge does not pay for every scheme, the large one
  pays for a challenge and its verification.
- `revocation`: two entries under two rewrites of the storage, up to three
  lists, three candidate signers, two members with a shared delegate.
- `credentials`: objects, signers and requests that differ from a good one in
  one respect each; every placement of two overlapping buffers; every build
  that differs in two switches from a profile; catalogs of two entries in pools
  that hold no answer, one or two; files of up to three rows with every
  kind of bad row in every cut, and staged keys in every order.
- `twic_reader`: command lines that ask for more and more, and one for each rule
  that refuses one; cards and lists with one thing that ends between the two
  readings of the clock, which may also go back or pass the limit; a budget that
  pays for everything and one that ends in the first pass.

Deadlock is checked in `channel`, `piv_link` and `twic_reader`. In the other runs the bounded
numbers of updates, sessions or seeds are used up, or a call returns and the
part has nothing more to do.

Fairness: `CallsReturn` (`channel`) assumes weak fairness of `StepFails` and
`Transmit`. The code between two transmits has no wait, and the transport
interface is synchronous: it returns an answer or an error. `RetiredReclaimed`
(`snapshot_store`) assumes that readers release what they acquired, which the
lease contract of the header asks of them.

## Proofs

The runs check small instances. The theorems hold for every value of the
constants that satisfies the assumptions named in the component's module. A
module's theorems are at its end, except for those of `SnapshotStore`
(`SnapshotStoreProofs`), of `KeyChallenge` (`CredentialProofs`) and of parts that
a layer only instantiates. The last are in `CredentialProofs` or at the end of
`SnapshotStoreProofs`, as theorems about an instance, and what they need of the
constants is a hypothesis that the layer's runs satisfy.

`SecureMessaging`, for every counter width above one, every set of
plaintexts with an empty one and any bounds on establishments (assumptions
`CounterAssumption`, `BoundAssumption`, `DataAssumption`): `TypeCorrect`,
`VectorsNeverRepeat` (`[]VectorsDistinct`) and `SessionsAgree` (`[]Agreement`).
The inductive invariant `IInv` adds to the type invariant:

- `SessionInv`: the counter is one more than the length of the command chain,
  and the response chain is as long, or one behind while PENDING. Without it
  the vector of the next command is unrelated to those used before.
- `CommandInv`, `ResponseInv`: what is on the medium under the current key is a
  prefix of the host's chain, or of the card's record.
- `LogInv`: the card executed a prefix of what the host sent under that key,
  and a scalar that is still establishing has no record yet.
- `VectorInv`: used vectors lie below the next one on each side, and the high
  byte keeps the sides apart. `VectorsDistinct` is a statement about a
  cardinality and is not inductive alone.

`SnapshotStoreProofs`, for any number of slots, readers, updaters, dates and
updates (`Constants`): `TypeCorrect`, `CountsExact` (`[]ReadersCounted`), the
action properties `PublicationOrder` (`DatesAscend`) and `LookupsCurrent`
(`AnswersCurrent`), and `Refinement` (`ImplementsVersions`). `IInv` says that
the state of a slot tells who has it (`Marked`), that a draft based on the
current revision is the published list and one update that is not in it
(`Drafted`, which is why a publication is an abstract step and no update is
lost), and that the published list only has begun updates (`Grown`).

`Drbg`, for any reseed intervals, request lengths and numbers of seeds:
`TypeCorrect`, `OutputsNeverRepeat` (`[]NeverRepeats`), `ResistanceReseeds`
(`[]ResistantIsFresh`), `RandomAllOrNothing` (`[]FilledOrNothing`). `IInv` adds
that the working state of a live instance is whole and ahead of every output of
its seed, that the reseed counter is one ahead of the outputs of the seed (so a
request that is tried again after a failed reseed cannot exceed the interval),
and what the buffer holds while a request is being filled.

`KeyChallenge` (in `CredentialProofs`), for every modulus, cost and set of grants: `TypeCorrect`,
`PossessionProvedOnce` (`[]ProvedOnce`), `BudgetBounded` (`[]WorkBounded`).
`IInv` adds that the challenge in the workspace is not one already proved.

`RsaPrivate`, for every key, CRT value,
random draw, cost, number of rounds and of attempts: `PreflightSufficient`
(`[](PreflightCovers /\ work \in Nat)`, a conjunct of `OperationsExact` for the
RSA private part) and `ReleaseChecked` (`[]ReleaseSound`, another conjunct). The
module is only instantiated, so its assumption `Charges` (costs are naturals, at
least one round) is a hypothesis of the theorems; `MCPrimitives` assumes it of
its instance and TLC evaluates it there. `IInv` adds `Funded`: in each phase the
work left pays for all rounds, requests and blinding attempts that may still
come, those of the second factor included. `PreflightCovers` looks one charge
ahead only and is not inductive.

`ApduChannel`, for every card limit, budget, scratch and buffer size and
every answer of the card (`LimitAssumption`, `InputAssumption`): `TypeCorrect`,
`AnswersAssembled` (`[]Assembled`), `OnlyCorrectionsRepeat` (`[]RepeatsSafe`)
and `Refinement` (`ImplementsExchange`). `IInv` adds, for a call between two
transmits:

- `BufferKept`: below `used` the buffer holds the card's bytes in order, above
  the high-water mark the caller's.
- `StepFits`, `InChain`, `InCollect`: which command comes next, that its format
  can carry it, and how it follows from the last answer. Without them nothing
  says that a repeated command is the one the card asked to be corrected.
- `ChainCovered`: what is left of a chain fits the budget, the scratch and the
  card. This is what `chain_check` checks in advance, and why a chain is never
  cut short by a limit of the host.
- `DeliveryCounted`: exchanges spent cover deliveries, which the refinement
  needs when the call returns.

For the refinement every step of a running call is shown to stutter until the
one that returns, which is one `Transceive` of `ApduExchange`.

`PivLink`, for any PIN references, retry counter, minimum of at least
two, suite and number of sessions (`Constants`): `TypeCorrect`,
`ProtectionNeverDropped` (`[]NoDowngrade`), `SecretsNeverClear`
(`[]SecretsProtected`), `PinsNeverBlocked` (`[]NeverBlocked`) and
`LinkTellsTheTruth` (`[]FlagsTrue`). `LinkOutcomes` first sums up what one
exchange can leave behind, in the clear and protected. `IInv` adds:

- `KeyState`: keys exist only while they are bound, and a session with keys has
  a number.
- `Agrees`: what the link believes of a card it can reach is so, the number of
  the session included, secured or not. `FlagsTrue` says that only once the
  VCI is set, which is too late to be inductive.
- `DemandKept`: a caller who asked for protection has it or has been told of
  its loss.
- `SubmissionSafe`: between query and submission of a PIN two tries are left,
  the PIN flag is off and what `verify_allowed` found still holds.
- `DiscoveryTrue`: a Discovery Object read under protection has the card's own
  policy.

`TwicAuthenticate`, for any command line, inputs, clock readings, duration
limit, budget and build (`ConstantTypes`): `SuccessIsGranted` (`[]Granted`),
`EndHandsBack` (`[]HandedBack`), `SecondPassOffline` (`DecidedOffline`) and
`ReaderTyped`. `Granted` relates the end of a run to its command line and to the
last time read, many steps earlier both. `Inv` adds:

- `OptionsRead`: the options are those of the arguments read so far with their
  values, and past `options_read` they are all of them, and coherent. This is
  why asking for an object means that its trust inputs were demanded too.
- `Flow`: which phases belong to which pass, and where `accepted` can be set.
- `Retained`: what the first pass has left behind when the second reaches a
  phase. `SecondPassOffline` is this: nothing is missing, so nothing is fetched.
- `Decided`: what has been established at the time of the second reading, phase
  by phase.
- `Holding`: a loss is only possible on the way out, and rules out a success.

`CardInventory` (in `CredentialProofs`), for any catalog, link, pool, cap, array
and budget (`InventoryTypes`): `InventorySafe`, the box of `TypeOK`,
`NothingLeft`, `EntriesExact` and `WorkExact`. `CardInv` adds that dirty bytes lie
below `touched`, which is why the wipe of an abort reaches all of them, and the
claims about entries and work for the part of the catalog read so far.

`PathSearch` (in `CredentialProofs`), for any store, number of records, capacity,
limits and budgets (`SearchTypes`): `ReportedPathIsChain`, the box of `StackSound`
and `FoundIsChain`. `SearchInv` adds that every frame of the depth-first stack
records the issuer that its certificate names and that no record is on the path
twice, through every retreat, failing source and exhausted limit.

`CancelList` (at the end of `SnapshotStoreProofs`), for any keys, files,
policies, limits and failures (`CallTypes`): `CancellationSound`, the box of
`ListsAscending`, `AnswersExact` and `LeaseReturned`. `CanceledInv` adds
`KeysChecked` (the keys read so far ascend, so that the pairwise comparison of
neighbours in `index_prepare` says that the whole list ascends), `Between` (every
key left of the range that a search still has is below the query, every key
right of it above) and `Scanning` (the scan of a buffer is no search).

Each action has a lemma that it preserves the invariant of its module, and a
last lemma combines them.

Model-checked only:

- `CallsReturn` and `RetiredReclaimed`: liveness under fairness is outside the
  prover.
- Of `CancelList`: `StreamExact` and `ListsImported`, which say what the rows of a
  whole file are however it is cut, by counting newlines: induction over the
  file. `LookupExact`, whose limit is a power of two.
- Of `PathSearch`: that a reported path fits the byte limit (a sum over the
  path), and that a search that ends without a path has tried every one
  (`ChainsFound`): induction over the tree of paths.
- The other properties of the certificate, revocation and credential layers, and
  of the primitives what is not listed above. They compare
  recursive readers and algorithms with a reference definition, which needs
  induction over data that the prover cannot do, or are statements about fixed
  tables of inputs.

## Where documentation and code differ

Met while modelling. The models follow the code.

- `docs/apdu.md:71` says that a card may return more than Ne bytes.
  `response_collect` rejects such an answer as INVALID.
- `tiny_crypto/apdu.h:156` says that every step stays within
  `max_response_bytes`. A step corrected after 6CXX carries the Le the card
  stated.
- `piv_select.c:342` says that a reselection keeps the state whatever the
  outcome. A transport failure ends a bound session and clears the flags, which
  `piv_sm_apdu.h` documents.
- `tiny_crypto/des.h:218` and `tiny_crypto/aes.h:164` say that calls fail after
  the counter wraps. Calls that the cached keystream covers still succeed.
- `tiny_crypto/x509.h:104` counts truncated DER as `TC_TLV_INVALID`.
  `read_bounded` passes on `TC_TLV_MORE` when the outer element is cut.
- `hash_core_internal.h:133` says that invalid spans leave a context unchanged.
  A later part that overlaps the context or passes the limit leaves the earlier
  ones absorbed (run `hash_parts`). The callers in the library clear the context
  when the call fails.
- `x509_revocation.c:519` says that a revocation from either source wins. When
  the certificate source fails with UNSUPPORTED or INVALID while the CRLs of a
  member with an accepted OCSP GOOD are consulted, the member stays GOOD (run
  `either_source`).
- `x509_revocation_internal.h:357` limits "uncovered" to members without an
  accepted OCSP response. `x509_path_certificate` also applies it when a CRL
  consulted after a GOOD response relied on an uncovered signer, an
  exception that `DeterminedIsReported` states. The report is the more cautious one.
- `tiny_crypto/rsa.h:397` says that LIMIT of `TC_RSA_decrypt_oaep` comes before
  any request or charge. It also results when every blinding factor is rejected.
- `x509_path.c:471` says that work is one of the checked writes of
  `path_storage`. It is not recorded there (run `path_counter`): that the counter
  lies apart from the ranges is left to the callers, and for OCSP to the
  application (`tiny_crypto/x509_ocsp.h:78`).

## Not modelled

Block ciphers, compression functions and GHASH are ideal; the repository's
vectors cover them. Inflate, the readers of single PIV, TWIC and travel document
objects, key wrap, KMAC and the key derivation functions are sequential readers
or functions of one input without state between calls, and are left to its
tests. The C++ headers wrap the same calls and own no protocol state.
`components` gives the reason for each.
