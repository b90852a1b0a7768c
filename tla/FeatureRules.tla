---------------------------- MODULE FeatureRules ----------------------------
(***************************************************************************)
(* The build configuration: every feature switch has a default per         *)
(* resource profile, a build may override some of them, and the dependency *)
(* rules stop a build whose features do not fit together                   *)
(* (src/src/tiny_crypto/config.h, resource_profile.h).                     *)
(*                                                                         *)
(* A feature is a row: its name, its default under the original, micro,    *)
(* mini and desktop profile, and its clauses; while the feature is on, one *)
(* switch of every clause must be on.                                      *)
(***************************************************************************)
EXTENDS Integers, Sequences, FiniteSets, Functions

CONSTANTS
  MaxOverrides,   \* switches a build overrides
  Numbers         \* overrides tried for each numeric option

VARIABLES profile, over, number

vars == <<profile, over, number>>

\* TC_PROFILE_VALUE columns.
Desktop == <<0, 0, 0, 1>>
Always == <<1, 1, 1, 1>>
Never == <<0, 0, 0, 0>>
MicroOnly == <<0, 1, 0, 0>>

Rows(names, column, clauses) == {[name |-> n, column |-> column, clauses |-> clauses] : n \in names}

Sha == {"SHA1", "SHA224", "SHA256", "SHA384", "SHA512"}
Has(f) == {{f}}

HashFeatures ==
  Rows({"AES", "SHA256"}, Always, {})
  \cup Rows({"DES", "SHA1", "SHA224", "SHA384", "SHA512", "KMAC256"}, Desktop, {})
  \cup Rows({"HMAC"}, Desktop, {Sha})

EncodingFeatures ==
  Rows({"TLV", "GZIP", "MD5", "TWIC_CCL", "TWIC", "AAMVA", "FASCN"}, Desktop, {})
  \cup Rows({"DER", "BER", "STREAM", "TWIC_TPK", "CHUID"}, Desktop, Has("TLV"))
  \cup Rows({"EAC_CVC", "PIV_CVC", "X509"}, Desktop, Has("DER"))
  \cup Rows({"KEY_CHALLENGE"}, Desktop, Has("X509"))
  \cup Rows({"TWIC_UUID"}, Desktop, Has("FASCN"))

CommandFeatures ==
  Rows({"APDU"}, Desktop, {})
  \cup Rows({"PIV_COMMAND"}, Desktop, Has("APDU") \cup Has("TLV"))

TafChoices == {"TAF_CERTIFICATE", "TAF_TBS", "TAF_INFO"}

\* Mutant: the choices of the trust anchor format are off by default.
AnchorFeaturesOff ==
  Rows({"TAF"}, Desktop, Has("X509_PATH") \cup {TafChoices})
  \cup Rows(TafChoices, Never, Has("TAF"))

AnchorFeatures ==
  Rows({"TAF"}, Desktop, Has("X509_PATH") \cup {TafChoices})
  \cup Rows(TafChoices, Desktop, Has("TAF"))

CertificateFeatures ==
  Rows({"PIV_OIDS"}, Desktop, {})
  \cup Rows({"X509_PATH"}, Desktop, Has("X509"))
  \cup Rows({"REVOCATION"}, Desktop, Has("X509_PATH"))
  \cup Rows({"OCSP"}, Desktop, Has("X509_PATH") \cup Has("SHA1"))
  \cup Rows({"CMS"}, Desktop, Has("X509") \cup Has("BER") \cup Has("PIV_OIDS"))
  \cup Rows({"CMS_VALIDATION"}, Desktop, Has("CMS") \cup Has("REVOCATION"))
  \cup Rows({"PIV_OBJECTS"}, Desktop, Has("CMS") \cup Has("FASCN") \cup Has("PIV_OIDS"))
  \cup Rows({"CREDENTIAL"}, Desktop, Has("PIV_OBJECTS") \cup Has("CHUID") \cup Has("CMS_VALIDATION"))

RsaSizes == {"RSA_1024", "RSA_2048", "RSA_3072", "RSA_4096"}
Curves == {"P192", "P256", "P384"}

KeyFeatures ==
  Rows({"KDF"}, Desktop, {})
  \cup Rows({"HKDF"}, Desktop, Has("HMAC") \cup {Sha})
  \cup Rows({"RSA"}, Desktop, {RsaSizes})
  \cup Rows({"RSA_1024", "P192"}, Never, {})
  \cup Rows({"RSA_2048", "RSA_3072", "RSA_4096", "P256", "P384", "SIGN_VERIFY"}, Always, {})
  \cup Rows({"RSA_SMALL", "EC_SMALL"}, MicroOnly, {})
  \cup Rows({"EC"}, Desktop, {Curves})
  \cup Rows({"SSKDF"}, Desktop, {Sha})

Mechanisms == {"HASH_DRBG", "HMAC_DRBG", "CTR_DRBG"}
DrbgFeatures == Rows({"DRBG"}, Desktop, {Mechanisms}) \cup Rows(Mechanisms, Desktop, {})

AesFeatures ==
  Rows({"AES_DYNAMIC"}, Desktop, Has("AES"))
  \cup Rows({"AES_CBC", "AES_ECB", "AES_OFB", "GCM", "CCM", "EAX", "EAX_PRIME", "SIV", "AES_CMAC", "KW"},
            Desktop, {})
  \cup Rows({"AES_CTR"}, Always, {})
  \cup Rows({"AES_TINY"}, MicroOnly, {})
  \cup Rows({"AES_WIDE"}, <<0, 0, 1, 1>>, {})
  \cup Rows({"AES_CAVP"}, Never, {})

TwicCryptoFeatures == Rows({"TWIC_CRYPTO"}, Desktop, Has("AES") \cup Has("AES_ECB"))

DesModes == {"DES_ECB", "DES_CBC", "DES_CTR", "DES_OFB", "CFB1", "CFB8", "CFB64", "DES_CMAC", "ISO9797"}
DesFeatures ==
  Rows({"DES_CTR", "TDES"}, Always, {})
  \cup Rows({"ISO9797", "REJECT_WEAK"}, Never, {})
  \cup Rows(DesModes \ {"DES_CTR", "ISO9797"}, Desktop, {})

SuiteFeatures ==
  Rows({"PIV_SM"}, Desktop, Has("AES") \cup Has("AES_DYNAMIC") \cup Has("SHA256") \cup Has("SSKDF")
                              \cup Has("EC") \cup {{"CS2", "CS7"}})
  \cup Rows({"CS2", "CS7"}, Always, {})

CardFeatures ==
  Rows({"PIV_SM_APDU"}, Desktop, Has("PIV_COMMAND") \cup Has("PIV_SM") \cup Has("PIV_CVC"))
  \cup Rows({"VCI"}, Desktop, Has("PIV_SM_APDU") \cup Has("PIV_OBJECTS"))
  \cup Rows({"CATALOG"}, Desktop, Has("PIV_COMMAND"))
  \cup Rows({"KEY_PROOF"}, Desktop, Has("PIV_COMMAND") \cup Has("KEY_CHALLENGE") \cup Has("X509"))
  \cup Rows({"CARD_CHECK"}, Desktop, Has("CREDENTIAL") \cup Has("CATALOG") \cup Has("X509_PATH")
                                       \cup Has("REVOCATION") \cup Has("GZIP"))

\* TC_AVR_PROGMEM keeps the tables in flash under every profile.
StorageFeatures == Rows({"AVR_PROGMEM"}, Always, {})

\* The features whose rules are plain clauses.
Features ==
  HashFeatures \cup EncodingFeatures \cup CommandFeatures \cup AnchorFeatures \cup CertificateFeatures
  \cup KeyFeatures \cup DrbgFeatures \cup AesFeatures \cup TwicCryptoFeatures \cup DesFeatures
  \cup SuiteFeatures \cup CardFeatures \cup StorageFeatures

Names == {r.name : r \in Features}
Column == [n \in Names |-> (CHOOSE r \in Features : r.name = n).column]

\* The value of a switch: an override, or the profile's column; a choice of
\* the trust anchor format defaults to the format's own switch.
Value(n) ==
  IF n \in DOMAIN over THEN over[n]
  ELSE IF n \in TafChoices /\ "TAF" \in DOMAIN over THEN over["TAF"]
  ELSE Column[n][profile]

On(n) == Value(n) /= 0

(* --------------------------- the remaining rules ------------------------ *)

Digest == [n \in Sha |-> CASE n = "SHA1" -> 20 [] n = "SHA224" -> 28 [] n = "SHA256" -> 32
                           [] n = "SHA384" -> 48 [] n = "SHA512" -> 64]

\* The floors of the tag lengths, against what the enabled digests give.
TagRules ==
  /\ number["MIN_TAG_LEN"] \in 8..16
  /\ On("HMAC") => /\ number["HMAC_MIN_TAG_LEN"] >= 10
                   /\ \A s \in Sha : On(s) => number["HMAC_MIN_TAG_LEN"] <= Digest[s]

\* The S-boxes: constant time or direct lookup.
DesSbox == number["DES_SBOX_MODE"] \in {1, 2}

\* A DES-CMAC tag is one block, DES needs a mode, and KBKDF needs a PRF.
DesRules ==
  /\ DesSbox
  /\ On("DES") => \E m \in DesModes : On(m)
  /\ On("DES") /\ On("DES_CMAC") => number["MIN_TAG_LEN"] <= 8
  /\ On("KDF") => On("HMAC") \/ (On("AES") /\ On("AES_CMAC")) \/ (On("DES") /\ On("DES_CMAC"))

AesRules ==
  /\ number["AES_KEY_BITS"] \in {128, 192, 256}
  /\ number["GHASH_MODE"] \in 0..4
  /\ On("AES_TINY") => number["GHASH_MODE"] /= 3
  /\ number["AES_SBOX_MODE"] \in 1..3

SuiteRules ==
  On("PIV_SM") => /\ On("CS2") => On("P256")
                  /\ On("CS7") => On("P384") /\ On("SHA384")

DrbgRules ==
  On("DRBG") => /\ number["DRBG_MAX_ENTROPY_BYTES"] >= 48
                /\ On("HASH_DRBG") => \E s \in Sha : On(s)
                /\ On("HMAC_DRBG") => On("HMAC")
                /\ On("CTR_DRBG") => On("AES") /\ On("AES_DYNAMIC")

\* No #error is reached.
Accepted ==
  /\ \A n \in Names : Value(n) \in {0, 1}
  /\ \A r \in Features : On(r.name) => \A c \in r.clauses : \E n \in c : On(n)
  /\ On("TWIC") /\ On("PIV_OBJECTS") => On("TWIC_UUID")
  /\ On("TWIC_CRYPTO") => number["AES_KEY_BITS"] = 128
  /\ TagRules /\ DesRules /\ AesRules /\ SuiteRules /\ DrbgRules

(* ------------------------------ choosing a build ------------------------ *)

DefaultNumber(p) ==
  [AES_KEY_BITS |-> 128, MIN_TAG_LEN |-> 8, HMAC_MIN_TAG_LEN |-> 16, DRBG_MAX_ENTROPY_BYTES |-> 64,
   GHASH_MODE |-> <<0, 1, 0, 2>>[p], AES_SBOX_MODE |-> 1, DES_SBOX_MODE |-> 1]

Init == profile \in 1..4 /\ over = [n \in {} |-> 0] /\ number = DefaultNumber(profile)

Overrides == Cardinality(DOMAIN over) + (IF number = DefaultNumber(profile) THEN 0 ELSE 1)

Override(n) ==
  /\ Overrides < MaxOverrides /\ n \notin DOMAIN over
  /\ \E v \in 0..2 : v /= Value(n) /\ over' = [m \in DOMAIN over \cup {n} |-> IF m = n THEN v ELSE over[m]]
  /\ UNCHANGED <<profile, number>>

OverrideNumber(o) ==
  /\ Overrides < MaxOverrides /\ number = DefaultNumber(profile)
  /\ \E v \in Numbers[o] : v /= number[o] /\ number' = [number EXCEPT ![o] = v]
  /\ UNCHANGED <<profile, over>>

Next == (\E n \in Names : Override(n)) \/ (\E o \in DOMAIN Numbers : OverrideNumber(o))

Spec == Init /\ [][Next]_vars

(* ------------------------------ properties ------------------------------ *)

\* Every resource profile builds with its own defaults.
DefaultsBuild == DOMAIN over = {} /\ number = DefaultNumber(profile) => Accepted

\* What the code of a feature calls, through all layers below it, is built:
\* the card check and its credential, CMS, path and revocation layers down to
\* TLV, the virtual contact interface down to the cipher, the curve and the
\* digests of its suites, and a key derivation or HMAC DRBG down to a digest or
\* a cipher.
LayersComplete ==
  Accepted =>
    /\ On("CARD_CHECK") =>
         \A n \in {"CREDENTIAL", "CHUID", "PIV_OBJECTS", "CMS_VALIDATION", "CMS", "REVOCATION", "X509_PATH",
                   "X509", "DER", "BER", "TLV", "PIV_OIDS", "FASCN", "CATALOG", "PIV_COMMAND", "APDU", "GZIP"} : On(n)
    /\ On("CMS_VALIDATION") => On("CMS") /\ On("X509_PATH") /\ On("REVOCATION") /\ On("TLV")
    /\ On("VCI") =>
         /\ \A n \in {"PIV_SM", "PIV_CVC", "DER", "TLV", "APDU", "AES", "AES_DYNAMIC", "SHA256", "SSKDF"} : On(n)
         /\ On("EC") /\ (On("P256") \/ (On("P384") /\ On("SHA384")))
    /\ On("KDF") => On("AES") \/ On("DES") \/ \E s \in Sha : On(s)
    /\ On("DRBG") => (On("AES") /\ On("AES_DYNAMIC")) \/ \E s \in Sha : On(s)
=============================================================================
