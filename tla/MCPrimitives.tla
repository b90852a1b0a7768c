---------------------------- MODULE MCPrimitives ----------------------------
(***************************************************************************)
(* The cryptographic primitives: the random bit generator (Drbg, extended) *)
(* and, as instances beside it, the block cipher modes, the AEAD modes,    *)
(* streaming GCM, the hashes with HMAC, the DRBG mechanisms, RSA private-  *)
(* key operations and validation, the RSA schemes, RSA key generation,     *)
(* elliptic curves and the multi-precision routines.  The library has no   *)
(* shared state between them: a behaviour runs the one that "part" names,  *)
(* whose variables are the slots s1, s2, ... in its own order.             *)
(***************************************************************************)
EXTENDS Drbg

VARIABLES part, s1, s2, s3, s4, s5, s6, s7, s8, s9, s10, s11, s12

Slots == <<s1, s2, s3, s4, s5, s6, s7, s8, s9, s10, s11, s12>>

(* --------------------------- block cipher modes -------------------------- *)

\* A permutation of the eight blocks of three bits, and counter blocks near
\* the end of their space, so that it runs out.
Perm(seq) == [forward |-> [v \in 0..7 |-> seq[v + 1]],
              inverse |-> [v \in 0..7 |-> (CHOOSE i \in 1..8 : seq[i] = v) - 1]]

Modes == INSTANCE BlockModes WITH
  W <- 3, S <- 2, Ciphers <- {Perm(<<3, 6, 0, 5, 7, 1, 4, 2>>)}, Ivs <- {6, 7}, MaxLength <- 7, MaxCall <- 4,
  cipher <- s1, ctx <- s2, message <- s3, sent <- s4, output <- s5, result <- s6

(* -------------------------------- AEAD ----------------------------------- *)

\* Blocks of four bytes: texts that end inside, at and past a block, with
\* bytes that look like padding, and packets altered in every part.
Texts == {<<>>, <<0>>, <<0, 2>>, <<0, 2, 0, 0>>, <<2, 0, 0, 0>>, <<1, 0, 2, 0, 0>>}
Long == [i \in 1..15 |-> 1]
Aads == {<<>>, <<0>>, <<0, 2>>, <<0, 2, 0, 0>>, <<0, 0, 0, 0, 2>>}

Request(mode, nonces, aads, lens, shorts, texts) ==
  [mode : {mode}, nonce : nonces, aad : aads, tag_len : lens, short : shorts, text : texts]

AeadRequests ==
  Request("ccm", {<<0>>, <<0, 0>>, <<0, 1>>}, Aads, {4}, {FALSE}, Texts \cup {Long})
  \cup Request("ccm", {<<1>>}, Aads, {2}, {TRUE}, Texts)
  \cup Request("eax", {<<>>, <<0>>, <<0, 2>>, <<0, 2, 0, 0>>}, Aads, {4}, {FALSE}, Texts)
  \cup Request("prime", {<<>>}, Aads \cup {<<2, 0, 0, 0>>, <<0, 2, 0, 0, 0>>, <<0, 2, 0, 0, 0, 2, 0, 0>>}, {4}, {FALSE}, Texts)
  \cup Request("siv", {<<>>}, {<<>>, <<<<0>>, <<2>>>>, <<<<2>>, <<0>>>>, <<<<>>, <<0>>>>} \cup {<<a>> : a \in Aads},
               {4}, {FALSE}, Texts)

Aead == INSTANCE AeadModes WITH
  W <- 4, Base <- 4, PadValue <- 2, MinTag <- 4, CcmFloor <- 2, ShortAad <- 2, MidAad <- 3, Requests <- AeadRequests,
  Malformed <- Request("ccm", {<<>>, <<0>>, <<0, 1, 2>>}, {<<>>}, 0..5, BOOLEAN, {<<>>, <<0, 2, 0, 0>>})
               \cup Request("eax", {<<>>}, {<<>>}, 0..5, BOOLEAN, {<<0>>}),
  call <- s1, todo <- s2, buf <- s3, tag <- s4, status <- s5

(* ------------------------- GCM, hashes, mechanisms ----------------------- *)

\* Blocks of two bytes, a counter of five values and one short tag length.
Gcm == INSTANCE GcmStream WITH
  W <- 2, Q <- 5, FastIv <- 2, MaxIv <- 3, MaxAad <- 3, ShortLimit <- [t \in {1} |-> 4],
  ctx <- s1, aad <- s2, text <- s3, tag <- s4, result <- s5

\* Bytes of two bits and a count of two bytes.  The descriptors have the
\* proportions of SHA-256, SHA-512 and MD5: the limit is the largest count
\* whose bits fit one word, any count, and any count with its bits cut.
Descriptors ==
  {[block |-> 5, length |-> 2, digest |-> 2, little |-> FALSE, max |-> 7],
   [block |-> 7, length |-> 4, digest |-> 2, little |-> FALSE, max |-> 15],
   [block |-> 5, length |-> 2, digest |-> 2, little |-> TRUE, max |-> 15]}

Hash == INSTANCE HashStream WITH
  Bits <- 2, Half <- 2, Infos <- Descriptors, MinTag <- 1, TagFloor <- 2,
  info <- s1, kind <- s2, ctx <- s3, given <- s4, out <- s5, status <- s6

\* Three mechanisms, the three AES key lengths, three calls.
Mechanism == INSTANCE DrbgMechanisms WITH
  Mechanisms <- {"hmac", "hash", "ctr"}, KeyUnits <- {2, 3, 4}, MaxUnits <- 3, MaxCalls <- 3,
  mech <- s1, df <- s2, seeded <- s3, state <- s4, counter <- s5, nonce <- s6, candidate <- s7, output <- s8,
  issued <- s9, absorbed <- s10, calls <- s11

(* ------------------------------ RSA private ------------------------------ *)

Key(p, q, e, d) == [n |-> p * q, e |-> e, d |-> d, p |-> p, q |-> q]

\* Ten-bit moduli.  The first three keys are sound; the others have, in
\* order, an e below the FIPS range, d + lambda, a composite factor with
\* strong liars, factors too close, a factor below sqrt(2) 2^4, a small d, an
\* even d, equal factors, a wrong d, a factor of six bits, another small d and
\* a wrong factor.
RsaKeys ==
  {Key(23, 29, 5, 185), Key(31, 23, 7, 283), Key(29, 23, 5, 185), Key(23, 29, 3, 103), Key(23, 29, 5, 493),
   Key(25, 29, 5, 101), Key(31, 29, 11, 191), Key(31, 19, 7, 13), Key(31, 27, 5, 32), Key(23, 29, 5, 186),
   Key(29, 29, 5, 17), Key(23, 29, 5, 187), Key(47, 13, 5, 221), Key(31, 23, 47, 323),
   [Key(23, 29, 5, 185) EXCEPT !.p = 31]}

RsaInputs(k) == {0, 1, 2, k.p, k.n - 1, k.n}
RsaDraws(k) == {0, 1, 2, 7, 3 * k.p, k.n, k.n - 2}

Private == INSTANCE RsaPrivate WITH
  HalfBits <- 5, Threshold <- 1, FipsExponent <- 4, Rounds <- 2, Keys <- RsaKeys, Inputs <- RsaInputs,
  Draws <- RsaDraws, Attempts <- {0, 1, 2, 3}, Budgets <- {-1, 0, 40},
  ComponentCost <- 5, SetupCost <- 4, RoundCost <- 3, FullCost <- 6, CrtCost <- 8, BlindCost <- 2,
  CrtCheckCost <- 3, CrtDeriveCost <- 4,
  call <- s1, run <- s2, work <- s3, requests <- s4, status <- s5, out <- s6

\* The theorems of RsaPrivate apply to this instance.
ASSUME RsaCharges == Private!Charges

(* ------------------------------ RSA schemes ------------------------------ *)

Elsewhere(option, m) ==
  [key |-> [id |-> "k1", check |-> "OK", crt |-> TRUE], option |-> option, message |-> m]

SchemeKeys ==
  {[id |-> "k1", check |-> "OK", crt |-> TRUE], [id |-> "k2", check |-> "OK", crt |-> FALSE],
   [id |-> "k3", check |-> "INVALID", crt |-> FALSE]}

Option(scheme, check, cost, salt) == [scheme |-> scheme, check |-> check, cost |-> cost, salt |-> salt]

Signing == INSTANCE RsaSchemes WITH
  Keys <- SchemeKeys,
  Options <- {Option("v15", "OK", 4, FALSE), Option("pss", "OK", 3, TRUE), Option("pss", "UNSUPPORTED", 3, FALSE),
              Option("oaep", "OK", 5, FALSE), Option("oaep", "OK", 6, FALSE)},
  Messages <- {"m1", "m2", "wrong"},
  Received <- {Elsewhere(Option("v15", "OK", 4, FALSE), "m1"), Elsewhere(Option("pss", "OK", 3, TRUE), "m2"),
               Elsewhere(Option("oaep", "OK", 5, FALSE), "m1")},
  Attempts <- {0, 2}, Slack <- {-1, 0}, MaxCalls <- 2, ModulusBytes <- 4,
  PublicCost <- 9, SetupCost <- 6, FullCost <- 7, CrtCost <- 8, BlindCost <- 2,
  call <- s1, pc <- s2, rep <- s3, left <- s4, work <- s5, requests <- s6, scratch <- s7, setup <- s8,
  status <- s9, result <- s10, sealed <- s11, calls <- s12

(* ---------------------- key generation, curves, limbs -------------------- *)

\* Seven-bit primes and E = 17.  The draws shape to 103 (one modulo E), 109,
\* 127 (d too small with 109), 113 (too close to 109), 121 = 11 * 11 (base 3
\* is a strong liar); bases 0 and 126 are out of range.
Keygen == INSTANCE RsaKeygen WITH
  PrimeBits <- 7, ExponentBits <- 4, SmallPrimes <- {3, 5}, Threshold <- 2, Rounds <- 2,
  Draws <- {7, 12, 31, 17, 24}, Bases <- {0, 2, 3, 126}, CandidateWork <- 1, SetupWork <- 3, RoundWork <- 2,
  Budgets <- {1, 3}, Limits <- {0, 3, 7},
  state <- s1, ws <- s2, output <- s3, call <- s4, result <- s5, tested <- s6

\* The curve y^2 = x^3 - 3x + 25 over the field of 31 elements, order 23; the
\* budgets are at and one below the costs of ECDH (11) and signing (37).
Curve == INSTANCE Ecdsa WITH
  P <- 31, B <- 25, N <- 23, Bits <- 5, Generator <- <<0, 5>>, Keys <- {0, 1, 22, 23}, Digests <- {0, 1, 31},
  Signatures <- (0..12) \X {0, 1, 5, 11, 22, 23, 31}, Budgets <- {0, 10, 36, 37, 74}, Attempts <- {0, 1, 2},
  op <- s1, key <- s2, peer <- s3, digest <- s4, sig <- s5, work <- s6, tries <- s7, status <- s8, out <- s9,
  faulty <- s10

\* Three limbs of two bits, operands at the boundaries of the limbs.
Limbs == INSTANCE LimbArithmetic WITH
  W <- 2, N <- 3, Operands <- (0..5) \union {15, 16, 17, 31, 32, 33, 47, 48, 49} \union (59..63),
  job <- s1, p <- s2, a <- s3, b <- s4, loop <- s5, left <- s6, done <- s7, out <- s8

(* -------------------------------- the suite ------------------------------ *)

Unused == "unused"
Free12 == s12 = Unused
Free11 == s11 = Unused /\ Free12
Free9 == s9 = Unused /\ s10 = Unused /\ Free11
Free7 == s7 = Unused /\ s8 = Unused /\ Free9
Free6 == s6 = Unused /\ Free7
Free1 == s1 = Unused /\ s2 = Unused /\ s3 = Unused /\ s4 = Unused /\ s5 = Unused /\ Free6
Kept12 == <<part, vars, s12>>
Kept11 == <<s11, Kept12>>
Kept9 == <<s9, s10, Kept11>>
Kept7 == <<s7, s8, Kept9>>
Kept6 == <<s6, Kept7>>

SuiteInit ==
  /\ Init
  /\ \/ part = "drbg" /\ Free1
     \/ part = "modes" /\ Modes!Init /\ Free7
     \/ part = "aead" /\ Aead!Init /\ Free6
     \/ part = "gcm" /\ Gcm!Init /\ Free6
     \/ part = "hash" /\ Hash!Init /\ Free7
     \/ part = "mechanism" /\ Mechanism!Init /\ Free12
     \/ part = "private" /\ Private!Init /\ Free7
     \/ part = "schemes" /\ Signing!Init
     \/ part = "keygen" /\ Keygen!Init /\ Free7
     \/ part = "curve" /\ Curve!Init /\ Free11
     \/ part = "limbs" /\ Limbs!Init /\ Free9

SuiteNext ==
  \/ part = "drbg" /\ Next /\ UNCHANGED <<part, Slots>>
  \/ part = "modes" /\ Modes!Next /\ UNCHANGED Kept7
  \/ part = "aead" /\ Aead!Next /\ UNCHANGED Kept6
  \/ part = "gcm" /\ Gcm!Next /\ UNCHANGED Kept6
  \/ part = "hash" /\ Hash!Next /\ UNCHANGED Kept7
  \/ part = "mechanism" /\ Mechanism!Next /\ UNCHANGED Kept12
  \/ part = "private" /\ Private!Next /\ UNCHANGED Kept7
  \/ part = "schemes" /\ Signing!Next /\ UNCHANGED <<part, vars>>
  \/ part = "keygen" /\ Keygen!Next /\ UNCHANGED Kept7
  \/ part = "curve" /\ Curve!Next /\ UNCHANGED Kept11
  \/ part = "limbs" /\ Limbs!Next /\ UNCHANGED Kept9

SuiteSpec == SuiteInit /\ [][SuiteNext]_<<part, vars, Slots>>

\* The hashes alone.
HashSpec == part = "hash" /\ SuiteSpec

(* ------------------------------ properties ------------------------------- *)

\* What a mode, an AEAD or a hash delivers is what its standard defines over
\* the whole message, however the caller cut it into calls, updates and parts,
\* in place or not, and whatever calls failed in between: a context stands for
\* exactly the bytes it absorbed, and length limits are met to the byte
\* (block_modes.c, aes_ccm.c, aes_eax.c, aes_siv.c, aes_gcm.c, hash_core.c).
\* A decryption gives plaintext to the caller only for the packet that was
\* sealed, and no text before the tag is verified where the mode allows it.
OutputsExact ==
  /\ part = "modes" => Modes!ModeExact
  /\ part = "aead" => Aead!SealExact /\ Aead!OpenExact /\ Aead!VerifiedBeforeWritten
  /\ part = "gcm" => Gcm!StreamExact /\ Gcm!LimitsExact /\ Gcm!ReleasedOnlyVerified
  /\ part = "hash" => Hash!DigestExact /\ Hash!TagExact /\ Hash!StandsForAbsorbed

\* Nothing is used twice: no keystream block across the wrap of a CTR counter,
\* for two CCM nonces or a tag mask, or within a GCM message; no counter value
\* of CTR_DRBG under one key; no two AEAD requests that differ anywhere
\* authenticate the same bytes; and the outputs of a mechanism depend on all
\* that was fed in, differ from each other and from the state left behind
\* (block_modes.c, aes_gcm.c, aes_ccm.c, drbg_hash.c, drbg_hmac.c, drbg_ctr.c).
NothingReused ==
  /\ part = "modes" => Modes!CounterExact
  /\ part = "aead" => Aead!CountersDistinct /\ Aead!RequestsDistinct
  /\ part = "gcm" => Gcm!KeystreamDistinct
  /\ part = "mechanism" => /\ Mechanism!CounterOnce /\ Mechanism!OutputsFresh /\ Mechanism!StateHidden
                           /\ Mechanism!InputsKept /\ Mechanism!NonceIsHmacDrbg

\* What a private-key operation publishes is right under the public key,
\* whatever CRT values, factors, blinding draws, faults and suspensions came
\* before: a released RSA value is the preimage of its input, a released
\* signature verifies, a curve key is the multiple of its scalar, a generated
\* key satisfies FIPS 186-5 A.1.1 on the very candidates that were tested.
\* However an operation ends otherwise, it has written no output and leaves
\* nothing of its secrets (rsa_private_internal.h, rsa_keygen.c, ec.c).
\*
\* And verdicts are exact: a key or CRT value is accepted when the standard's
\* conditions hold and only then, a signature verifies exactly when it was
\* made with that key over that digest and options, a decryption gives back
\* the message that was sealed (rsa_private.c, rsa_public.c, rsa_oaep.c, ec.c); and the limb
\* routines they rest on agree with integer arithmetic on every operand,
\* carries out of the top limb and even moduli included (mp_internal.h,
\* mp_inverse_internal.h, mp_prime_internal.h).  What a verdict costs is exact
\* too: the cost checked on entry covers every later charge, a successful call
\* is charged what the header's table says, and a suspended key generation that
\* is given a step's work completes at least one unit.
OperationsExact ==
  /\ part = "private" => /\ Private!ReleaseSound /\ Private!BlindingTransparent
                         /\ Private!ValidationExact /\ Private!CrtUnique /\ Private!PreflightCovers
  /\ part = "schemes" => /\ Signing!LeavesNothing
                         /\ Signing!VerifyExact /\ Signing!DecryptExact /\ Signing!WorkExact
  /\ part = "curve" => /\ Curve!SignatureSound /\ Curve!KeysExact /\ Curve!FailureWritesNothing
                       /\ Curve!VerifyExact
  /\ part = "limbs" => /\ Limbs!FieldExact /\ Limbs!DivideExact /\ Limbs!R2Exact /\ Limbs!PowerExact
                       /\ Limbs!InverseInvariant /\ Limbs!InverseExact /\ Limbs!GcdExact /\ Limbs!PrimeExact
  /\ part = "keygen" => /\ Keygen!KeySound /\ Keygen!ResumeConsistent /\ Keygen!FirstPrimeKept
                        /\ Keygen!NothingRetained /\ Keygen!StepWorkProgresses

\* A refused call leaves no part of its message in a live hash context:
\* hash_core_internal.h:133-134, of tc_hash_core_update_parts.
NothingPartial == part = "hash" => Hash!NothingPartial
=============================================================================
