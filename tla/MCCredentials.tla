---------------------------- MODULE MCCredentials ---------------------------
(***************************************************************************)
(* The credential layer: the structure of CMS messages and their signed    *)
(* attributes, the search for the signer, the objects of a card and their  *)
(* signers, the inventory and the check of a card, the list of canceled    *)
(* cards, the preflight of every operation and the rules of the feature    *)
(* switches.  Each works on the state its caller gives it: a behaviour     *)
(* runs the one that "part" names, whose variables are the slots s1, s2,   *)
(* ... in its order.                                                       *)
(***************************************************************************)
EXTENDS FeatureRules

VARIABLES part, s1, s2, s3, s4, s5, s6, s7, s8, s9

Slots == <<s1, s2, s3, s4, s5, s6, s7, s8, s9>>

None == "none"

(* ------------------------------ CMS messages ----------------------------- *)

Attr(t, r) == [type |-> t, rank |-> r, good |-> TRUE, values |-> 1, sorted |-> TRUE]
ContentType == Attr("contentType", 2)
MessageDigest == Attr("messageDigest", 3)

\* Every attribute type, and malformed, repeated and unordered variants.
SignerAttributes ==
  {ContentType, MessageDigest, Attr("signingTime", 1), Attr("entryUuid", 4), Attr("signerName", 4),
   Attr("pivFascn", 4), Attr("twicFascn", 5), Attr("protection", 5), Attr("signingCert", 1),
   Attr("private1", 1), Attr("private2", 6),
   [Attr("pivFascn", 5) EXCEPT !.good = FALSE], [Attr("capabilities", 4) EXCEPT !.values = 2],
   [Attr("private1", 4) EXCEPT !.values = 2, !.sorted = FALSE],
   [Attr("private2", 6) EXCEPT !.values = 0]}

\* Candidates that differ in one respect each from a genuine signer, and
\* messages that differ in one respect from a well-formed one.
Signer1 == [kind |-> "x509", reads |-> "OK", named |-> "yes", hash |-> "h1", genuine |-> TRUE,
         subject |-> "alice", path |-> "OK", status |-> "GOOD"]

SignerCandidates ==
  {Signer1, [Signer1 EXCEPT !.named = "no"], [Signer1 EXCEPT !.named = "UNSUPPORTED"], [Signer1 EXCEPT !.hash = "h2"],
   [Signer1 EXCEPT !.hash = "unknown"], [Signer1 EXCEPT !.genuine = FALSE],
   [Signer1 EXCEPT !.subject = "bob"], [Signer1 EXCEPT !.path = "INVALID"],
   [Signer1 EXCEPT !.path = "UNSUPPORTED"], [Signer1 EXCEPT !.path = "ERROR"],
   [Signer1 EXCEPT !.status = "REVOKED"], [Signer1 EXCEPT !.status = "UNDETERMINED"],
   [Signer1 EXCEPT !.status = "INVALID"], [Signer1 EXCEPT !.status = "UNSUPPORTED"],
   [Signer1 EXCEPT !.status = "IO"],
   [Signer1 EXCEPT !.kind = "attribute"], [Signer1 EXCEPT !.kind = "malformed"],
   [Signer1 EXCEPT !.reads = "INVALID"]}

Bound == [type |-> "token", expected |-> TRUE, attached |-> TRUE, attributes |-> "bound", name |-> None,
          content |-> "h1", hash |-> "h1"]

ChosenSigners == {[Signer1 EXCEPT !.subject = "bob"]}

SignedMessages ==
  {Bound, [Bound EXCEPT !.name = "alice"], [Bound EXCEPT !.hash = "h2"],
   [Bound EXCEPT !.attributes = "unbound"], [Bound EXCEPT !.attributes = "malformed"],
   [Bound EXCEPT !.attributes = None], [Bound EXCEPT !.attributes = None, !.type = "data"],
   [Bound EXCEPT !.attributes = None, !.type = "data", !.hash = "h2"],
   [Bound EXCEPT !.attached = FALSE], [Bound EXCEPT !.content = "absent"], [Bound EXCEPT !.expected = FALSE]}

Message == INSTANCE CmsSignedData WITH
  DataTags <- {"int", "set", "seq", "a0", "a1"},
  SignerTags <- {"int1", "int3", "seq", "a0", "a1", "octets"}, MaxFields <- 7,
  Certificates <- {"x509", "extended", "attributeV1", "attributeV2", "other", "bad"},
  Revocations <- {"crl", "other", "bad"}, MaxChoices <- 2, MaxSigners <- 2,
  Algorithms <- {[oid |-> "sha256", good |-> TRUE], [oid |-> "sha256", good |-> FALSE],
                 [oid |-> "sha1", good |-> TRUE]},
  Attributes <- SignerAttributes,
  Starts <- {<<ContentType>>, <<Attr("private1", 1), ContentType, MessageDigest>>,
             <<Attr("private1", 1), MessageDigest>>},
  MaxAttributes <- 4,
  Selections <- ChosenSigners, Candidates <- SignerCandidates, Messages <- SignedMessages,
  MaxEmbedded <- 2, MaxExternal <- 1, Limits <- {2, 3}, Capacity <- 2,
  phase <- s1, request <- s2, items <- s3, at <- s4, failure <- s5, cache <- s6, leaf <- s7,
  status <- s8, checked <- s9

(* ---------------------------- objects of a card -------------------------- *)

\* Every object and every certificate is the good one or differs from it in
\* one respect.
Key(type, first, second, parity) ==
  [type |-> type, first |-> first, second |-> second, parity |-> parity]
Good == [key |-> Key("RSA", "n1", "e", 0), usages |-> <<"OTHER", "PIV">>, policy |-> TRUE,
         until |-> 3, reads |-> TRUE, path |-> "VALID", evidence |-> "GOOD"]

CardCerts ==
  [good |-> Good,
   pss |-> [Good EXCEPT !.key = Key("PSS", "n1", "e", 0)],
   rsa2 |-> [Good EXCEPT !.key = Key("RSA", "n1", "f", 0)],
   even |-> [Good EXCEPT !.key = Key("EC", "p256", "x1", 0)],
   odd |-> [Good EXCEPT !.key = Key("EC", "p256", "x1", 1)],
   even2 |-> [Good EXCEPT !.key = Key("EC", "p256", "x1", 0)],
   other |-> [Good EXCEPT !.key = Key("OTHER", "a", "b", 0)],
   both |-> [Good EXCEPT !.usages = <<"TWIC", "PIV">>],
   twic |-> [Good EXCEPT !.usages = <<"TWIC">>, !.policy = FALSE],
   twicPolicy |-> [Good EXCEPT !.usages = <<"TWIC">>],
   purposeless |-> [Good EXCEPT !.usages = <<"OTHER">>],
   plain |-> [Good EXCEPT !.policy = FALSE],
   short |-> [Good EXCEPT !.until = 1],
   broken |-> [Good EXCEPT !.reads = FALSE],
   unchained |-> [Good EXCEPT !.path = "INVALID"],
   unsupported |-> [Good EXCEPT !.path = "UNSUPPORTED"],
   revoked |-> [Good EXCEPT !.evidence = "REVOKED"],
   uncovered |-> [Good EXCEPT !.evidence = "NONE"]]

ChuidContexts == {[at |-> 0, optional |-> o, purpose |-> p] :
                 <<o, p>> \in {<<FALSE, None>>, <<TRUE, None>>, <<FALSE, "PIV">>, <<FALSE, "TWIC">>}}
PlainContexts == [at : {0}, optional : {FALSE}, purpose : {None}]

Envelope == [version |-> 3, content |-> FALSE, crls |-> FALSE, more |-> FALSE, signers |-> <<1>>,
             name |-> TRUE, bound |-> TRUE]
Cms(type, fascn, uuid, cert, signer) ==
  [envelope |-> [Envelope EXCEPT !.content = type = "SECURITY"], type |-> type, oids |-> "PIV", fascn |-> fascn, uuid |-> uuid, cert |-> cert, signedBy |-> signer]

Chuid == [fascn |-> "f1", uuid |-> "u1", expires |-> 1, reads |-> {"PIV", "SP73_4", "TWIC_SIGNED"},
          bytes |-> "chuid", cms |-> Cms("CHUID", "f1", "u1", "good", "good")]
SignedBy(c) == [Chuid EXCEPT !.cms.cert = c, !.cms.signedBy = c]
Chuids ==
  {SignedBy(c) : c \in DOMAIN CardCerts \ {"pss", "rsa2", "even", "odd", "even2", "other"}} \cup
  {[Chuid EXCEPT !.fascn = "f2"], [Chuid EXCEPT !.uuid = "u2"], [Chuid EXCEPT !.expires = 0],
   [Chuid EXCEPT !.reads = {"SP73_4"}], [Chuid EXCEPT !.cms.type = "BIOMETRIC"],
   [Chuid EXCEPT !.cms.oids = "TWIC"], [Chuid EXCEPT !.cms.fascn = None],
   [Chuid EXCEPT !.cms.uuid = "u2"], [Chuid EXCEPT !.cms.cert = None],
   [Chuid EXCEPT !.cms.signedBy = "rsa2"],
   [Chuid EXCEPT !.cms.envelope.version = 1], [Chuid EXCEPT !.cms.envelope.content = TRUE],
   [Chuid EXCEPT !.cms.envelope.crls = TRUE], [Chuid EXCEPT !.cms.envelope.more = TRUE],
   [Chuid EXCEPT !.cms.envelope.signers = <<>>], [Chuid EXCEPT !.cms.envelope.signers = <<3>>],
   [Chuid EXCEPT !.cms.envelope.signers = <<1, 1>>], [Chuid EXCEPT !.cms.envelope.name = FALSE],
   [Chuid EXCEPT !.cms.envelope.bound = FALSE]}

Card == [fascn |-> "f1", uuid |-> "u1"]
ChuidCall(o, for, layout, reader, card, expires) ==
  [op |-> "chuid", object |-> o, profile |-> for, layout |-> layout, reader |-> reader,
   card |-> card, cardExpires |-> expires]

\* The identifiers of the card come from its certificate, where only the
\* reader rules of TWIC leave out the UUID.
ChuidCalls ==
  {ChuidCall(o, "PIV", "PIV", FALSE, Card, 2) : o \in Chuids} \cup
  {ChuidCall(o, "PIV", "SP73_4", TRUE, Card, 2) : o \in Chuids} \cup
  {ChuidCall(o, "TWIC", "TWIC_SIGNED", FALSE, [Card EXCEPT !.uuid = None], 2) : o \in Chuids} \cup
  {ChuidCall(Chuid, p, l, r, Card, 3) :
     <<p, l, r>> \in {"PIV", "TWIC", "UNKNOWN"} \X {"PIV", "SP73_4", "TWIC_SIGNED"} \X BOOLEAN}

SignerCalls ==
  {[op |-> "signer", signer |-> c, profile |-> p] : <<c, p>> \in (DOMAIN CardCerts) \X {"PIV", "TWIC"}}
  \cup {[op |-> "cvc", signer |-> c, profile |-> p, chain |-> s] :
          <<c, p, s>> \in {"good", "plain", "twic"} \X {"PIV", "TWIC", "UNKNOWN"} \X {"VALID", "INVALID"}}

ChuidRequests == ChuidCalls \cup SignerCalls

\* The CHUIDs that the other objects are bound to.
BaseCalls ==
  {ChuidCall(SignedBy(c), "PIV", "PIV", FALSE, Card, 2) : c \in {"good", "even", "other"}} \cup
  {ChuidCall(SignedBy(c), "TWIC", "TWIC_SIGNED", FALSE, Card, 2) : c \in {"good", "short"}} \cup
  {ChuidCall([Chuid EXCEPT !.expires = 0], "PIV", "PIV", FALSE, Card, 2)}

Face == [fascn |-> "f1", format |-> "FACE", from |-> 0, until |-> 1, reads |-> TRUE,
         cms |-> Cms("BIOMETRIC", "f1", "u1", None, "good")]
FaceBy(c) == [Face EXCEPT !.cms.cert = c, !.cms.signedBy = c]
Biometrics ==
  {Face, [Face EXCEPT !.cms.signedBy = "even"], [Face EXCEPT !.cms.signedBy = "other"]} \cup
  {FaceBy(c) : c \in {"good", "pss", "rsa2", "odd", "even2", "other", "broken", "short", "twic"}} \cup
  {[Face EXCEPT !.fascn = "f2"], [Face EXCEPT !.reads = FALSE], [Face EXCEPT !.cms.fascn = None],
   [Face EXCEPT !.cms.uuid = None], [Face EXCEPT !.cms.uuid = "u2"],
   [Face EXCEPT !.cms.oids = "TWIC"], [Face EXCEPT !.format = "FINGER"],
   [Face EXCEPT !.cms.envelope.content = TRUE], [Face EXCEPT !.cms.envelope.name = FALSE],
   [Face EXCEPT !.cms.envelope.signers = <<3>>]}

BiometricCall(o, for, format, current, early) ==
  [op |-> "biometric", object |-> o, profile |-> for, format |-> format, current |-> current,
   early |-> early, cardExpires |-> 2]
BiometricRequests ==
  BaseCalls \cup
  {BiometricCall(o, p, "FACE", FALSE, e) : <<o, p, e>> \in Biometrics \X {"PIV", "TWIC"} \X BOOLEAN}
  \cup {BiometricCall(Face, "PIV", f, TRUE, FALSE) : f \in {"FACE", "FINGER", "IRIS"}}

Unsigned == [fascn |-> "f1", uuid |-> "u1", expires |-> 0, reads |-> {"TWIC_UNSIGNED"}, bytes |-> "a"]
Unsigneds == {Unsigned, [Unsigned EXCEPT !.bytes = "b"], [Unsigned EXCEPT !.fascn = "f2"],
              [Unsigned EXCEPT !.reads = {}], [Unsigned EXCEPT !.expires = 1]}

Maps(g, c) == [group |-> g, container |-> c]
Hash(g, d) == [group |-> g, digest |-> d]
Item(c, d) == [container |-> c, content |-> d]
SecurityBy(c) == [mapping |-> <<Maps(1, "3002"), Maps(2, "face")>>,
                  lds |-> <<Hash(2, "b"), Hash(1, "a")>>, hash |-> "sha256", cms |-> Cms("SECURITY", None, None, None, c)]
Security == SecurityBy("good")
Securities ==
  {SecurityBy(c) : c \in {"good", "even", "short"}} \cup
  {[Security EXCEPT !.mapping[2].group = 1], [Security EXCEPT !.mapping[2].container = "3002"],
   [Security EXCEPT !.mapping[2].group = 3], [Security EXCEPT !.lds[1].group = 1],
   [Security EXCEPT !.mapping = <<Maps(1, "3002")>>, !.lds = <<Hash(1, "a")>>],
   [Security EXCEPT !.mapping = @ \o <<Maps(3, "finger")>>, !.lds = @ \o <<Hash(3, "b")>>],
   [Security EXCEPT !.cms.cert = "good"], [Security EXCEPT !.cms.oids = "TWIC"],
   [Security EXCEPT !.hash = "absent"], [Security EXCEPT !.cms.envelope.content = FALSE],
   [Security EXCEPT !.cms.envelope.signers = <<3>>], [Security EXCEPT !.cms.envelope.name = FALSE],
   [Security EXCEPT !.cms.envelope.bound = FALSE]}

Items == {Item("3002", "a"), Item("3002", "b"), Item("face", "b"), Item("face", "a"),
          Item("finger", "b"), Item("3002", None)}
HeldItems == {<<>>} \cup {<<i>> : i \in Items} \cup {<<i, j>> : <<i, j>> \in Items \X Items}
               \cup {<<Item("finger", "b"), Item("face", "b"), Item("3002", "a")>>,
                     <<Item("3002", "a"), Item("face", "b"), Item("3002", "a")>>,
                     <<Item("3002", "a"), Item("face", "b"), Item("finger", "b"), Item("other", "b")>>}

InventoryRequests ==
  {r \in BaseCalls : r.object.cms.cert /= "other"} \cup
  {[op |-> "authenticate", object |-> o, profile |-> p, cardExpires |-> 2] :
     <<o, p>> \in Securities \X {"PIV", "TWIC"}} \cup
  {[op |-> "security", object |-> o, profile |-> "TWIC", cardExpires |-> 2, items |-> v] :
     <<o, v>> \in {Security, SecurityBy("short"), [Security EXCEPT !.hash = "absent"],
                   [Security EXCEPT !.mapping = @ \o <<Maps(3, "finger")>>, !.lds = @ \o <<Hash(3, "b")>>]}
                  \X HeldItems} \cup
  {[op |-> "digest", item |-> i, profile |-> "PIV"] : i \in Items} \cup
  {[op |-> "unsigned", object |-> o, profile |-> p, layout |-> "TWIC_UNSIGNED", card |-> c] :
     <<o, p, c>> \in Unsigneds \X {"PIV", "TWIC"} \X {Card, [Card EXCEPT !.uuid = None]}}

Holder == INSTANCE CredentialObjects WITH
  Contexts <- ChuidContexts, Certs <- CardCerts, Requests <- ChuidRequests, MaxTime <- 2, DayLength <- 2,
  MaxGroups <- 3, UnsignedId <- "3002",
  context <- s1, chuid <- s2, held <- s3, request <- s4, rest <- s5, session <- s6, groups <- s7, status <- s8

Biometric == INSTANCE CredentialObjects WITH
  Contexts <- PlainContexts, Certs <- CardCerts, Requests <- BiometricRequests, MaxTime <- 3, DayLength <- 2,
  MaxGroups <- 3, UnsignedId <- "3002",
  context <- s1, chuid <- s2, held <- s3, request <- s4, rest <- s5, session <- s6, groups <- s7, status <- s8

Inventory == INSTANCE CredentialObjects WITH
  Contexts <- PlainContexts, Certs <- CardCerts, Requests <- InventoryRequests, MaxTime <- 3, DayLength <- 2,
  MaxGroups <- 3, UnsignedId <- "3002",
  context <- s1, chuid <- s2, held <- s3, request <- s4, rest <- s5, session <- s6, groups <- s7, status <- s8

(* ---------------------------- the check of a card ------------------------ *)

\* Inventories that exercise one chain of dependencies each.
States == {"PRESENT", "ABSENT", "DENIED", "RESTRICTED"}
Piv == {"9E", "CHUID", "9A", "9C", "SECURITY", "PRINTED", "FACE", "DISCOVERY", "BIT", "SMSIGNER"}
Twic == {"9E", "CHUID", "SECURITY", "PRINTED", "FACE"}
Required == {"9E", "CHUID"}

\* A snapshot of catalog C: f on its domain, PRESENT on P, not read elsewhere.
Snapshot(C, P, f) == [o \in C |-> IF o \in DOMAIN f THEN f[o] ELSE IF o \in P THEN "PRESENT" ELSE "SKIPPED"]

CardSnapshots ==
  {Snapshot(Piv, {}, f) : f \in [Required -> States]}
  \cup {Snapshot(Piv, Required \cup {"9C"}, f) : f \in [{"9A"} -> States]}
  \cup {Snapshot(Piv, Required \cup {"SECURITY", "FACE"}, f) : f \in [{"PRINTED"} -> States]}
  \cup {Snapshot(Piv, Required \cup {"SECURITY"}, f) : f \in [{"DISCOVERY", "BIT"} -> {"PRESENT", "ABSENT", "DENIED"}]}
  \cup {Snapshot(Piv, Required, f) : f \in [{"SMSIGNER", "SECURITY"} -> {"PRESENT", "ABSENT"}]}
  \cup {Snapshot(Twic, Twic, f) : f \in [{"SECURITY"} -> States]}

S(t, p, c, w, v, e) == [twic |-> t, twicPiv |-> p, contactless |-> c, whenAvailable |-> w, cvc |-> v, secured |-> e]

CardSettings == {S(FALSE, FALSE, FALSE, FALSE, TRUE, TRUE), S(FALSE, TRUE, TRUE, TRUE, TRUE, FALSE),
               S(TRUE, FALSE, FALSE, TRUE, FALSE, FALSE)}
MappedContainers == <<"PRINTED", "DISCOVERY", "BIT">>

CardRun == INSTANCE CardCheck WITH
  Inventories <- CardSnapshots, Settings <- CardSettings, Mapped <- MappedContainers,
  Mandatory <- {"9E", "CHUID"}, MaxChecks <- 26,
  inventory <- s1, setting <- s2, phase <- s3, run <- s4

(* ------------------------ preflights and build options ------------------- *)

Preflight == INSTANCE StoragePlan WITH
  Listed <- 1, SizeMax <- 100000,
  op <- s1, layout <- s2, work <- s3, before <- s4, plan <- s5, stage <- s6

\* Overrides of the numeric options on both sides of every limit.
BuildNumbers == [AES_KEY_BITS |-> {64, 192, 256}, MIN_TAG_LEN |-> {7, 9, 16, 17},
                 HMAC_MIN_TAG_LEN |-> {9, 10, 20, 21, 33, 65}, DRBG_MAX_ENTROPY_BYTES |-> {47, 48},
                 GHASH_MODE |-> {0, 3, 4, 5}, AES_SBOX_MODE |-> {0, 3, 4}, DES_SBOX_MODE |-> {0, 2, 3}]

(* ----------------------------- reading a card ---------------------------- *)

Listed(c, l, p, o) == [contact |-> c, contactless |-> l, pairing |-> p, optional |-> o]
Touching == [contact |-> TRUE, pin |-> TRUE, vci |-> FALSE, secured |-> FALSE, ready |-> TRUE]

\* Catalogs with every rule, links that meet some of them, pools with room for
\* no answer, for one, for two.
Reading == INSTANCE CardInventory WITH
  Catalogs <- {<<>>, <<Listed("ALWAYS", "VCI", FALSE, FALSE), Listed("PIN_OR_OCC", "VCI_PIN_OR_OCC", TRUE, TRUE)>>,
               <<Listed("PIN", "NEVER", FALSE, TRUE), Listed("ALWAYS", "ALWAYS", FALSE, FALSE)>>},
  Links <- {Touching, [Touching EXCEPT !.ready = FALSE], [Touching EXCEPT !.pin = FALSE],
            [contact |-> FALSE, pin |-> TRUE, vci |-> TRUE, secured |-> TRUE, ready |-> TRUE]},
  Pools <- {0, 3, 5}, Caps <- {0, 3}, Rooms <- {1, 2}, Largest <- [s \in BOOLEAN |-> IF s THEN 1 ELSE 2],
  Budgets <- {3, 8},
  call <- s1, phase <- s2, used <- s3, touched <- s4, work <- s5, dirty <- s6, objects <- s7, sent <- s8,
  inventory <- s9

(* ------------------------- the list of canceled cards --------------------- *)

Row(k) == <<k, 20, 10>>
TwoRows == Row(2) \o <<1, 20, 13, 10>>
OldList == [keys |-> <<1, 1, 3>>, published |-> 2, received |-> 3]
EmptyStore == [keys |-> <<>>, published |-> 0, received |-> 0]

\* Files that are well formed, empty, cut off, with a row too long or a bad
\* date, with a return too many, with equal keys.
Files == {<<>>, Row(1), TwoRows, Row(1) \o <<2, 20>>, Row(2) \o <<2, 20, 20, 20, 10>>, <<1, 21, 10>>,
          <<13, 10>>, <<1, 20, 13, 13, 10>>, Row(3) \o Row(3) \o Row(1)}

Job(mode, file) ==
  [mode |-> mode, text |-> file, expected |-> file, bytes |-> Len(file), records |-> 3,
   published |-> 3, received |-> 3, busy |-> FALSE, torn |-> FALSE, current |-> OldList]

ListJobs ==
  {Job(m, f) : <<m, f>> \in {"import", "csv"} \X Files} \cup
  {[Job("import", TwoRows) EXCEPT !.expected = Row(2)], [Job("import", TwoRows) EXCEPT !.bytes = 6],
   [Job("import", TwoRows) EXCEPT !.records = 1], [Job("csv", TwoRows) EXCEPT !.records = 1],
   [Job("import", Row(1)) EXCEPT !.busy = TRUE], [Job("import", Row(1)) EXCEPT !.published = 4],
   [Job("import", Row(1)) EXCEPT !.published = 1], [Job("image", <<>>) EXCEPT !.current = EmptyStore],
   [Job("image", <<>>) EXCEPT !.torn = TRUE], [Job("image", <<>>) EXCEPT !.records = 2]}

Canceled == INSTANCE CancelList WITH
  Keys <- 1 .. 3, DateChars <- {20}, Jobs <- ListJobs,
  Policies <- [now : 2 .. 6, minimum : {0, 3}, age : {2}, warn : {1}], ReadLimits <- 0 .. 2, MaxStaged <- 3,
  job <- s1, phase <- s2, reader <- s3, chunk <- s4, error <- s5, source <- s6, store <- s7, search <- s8,
  answer <- s9

(* ------------------------------- the layer ------------------------------- *)

Unused == "unused"
NoBuild == profile = 1 /\ over = [n \in {} |-> 0] /\ number = DefaultNumber(1)
Free9 == s9 = Unused /\ NoBuild
Free8 == s8 = Unused /\ Free9
Free5 == s5 = Unused /\ s6 = Unused /\ s7 = Unused /\ Free8
Kept9 == <<part, s9, vars>>
Kept8 == <<s8, Kept9>>
Kept5 == <<s5, s6, s7, Kept8>>

SuiteInit ==
  \/ part = "message" /\ Message!Init /\ NoBuild
  \/ part = "chuid" /\ Holder!Init /\ Free9
  \/ part = "biometric" /\ Biometric!Init /\ Free9
  \/ part = "inventory" /\ Inventory!Init /\ Free9
  \/ part = "card" /\ CardRun!Init /\ Free5
  \/ part = "reading" /\ Reading!Init /\ NoBuild
  \/ part = "canceled" /\ Canceled!Init /\ NoBuild
  \/ part = "preflight" /\ Preflight!Init /\ s7 = Unused /\ Free8
  \/ /\ part = "build" /\ Init
     /\ s1 = Unused /\ s2 = Unused /\ s3 = Unused /\ s4 = Unused
     /\ s5 = Unused /\ s6 = Unused /\ s7 = Unused /\ s8 = Unused /\ s9 = Unused

SuiteNext ==
  \/ part = "message" /\ Message!Next /\ UNCHANGED <<part, vars>>
  \/ part = "chuid" /\ Holder!Next /\ UNCHANGED Kept9
  \/ part = "biometric" /\ Biometric!Next /\ UNCHANGED Kept9
  \/ part = "inventory" /\ Inventory!Next /\ UNCHANGED Kept9
  \/ part = "card" /\ CardRun!Next /\ UNCHANGED Kept5
  \/ part = "reading" /\ Reading!Next /\ UNCHANGED <<part, vars>>
  \/ part = "canceled" /\ Canceled!Next /\ UNCHANGED <<part, vars>>
  \/ part = "preflight" /\ Preflight!Next /\ UNCHANGED <<s7, Kept8>>
  \/ part = "build" /\ Next /\ UNCHANGED <<part, Slots>>

SuiteSpec == SuiteInit /\ [][SuiteNext]_<<part, vars, Slots>>

\* The storage preflights alone.
PreflightSpec == (part = "preflight" /\ SuiteInit) /\ [][SuiteNext]_<<part, vars, Slots>>

(* ------------------------------ properties ------------------------------- *)

\* A CMS message is read exactly by RFC 5652's grammar: the fields in their
\* places, the version its contents ask for, the digest listed with valid
\* parameters, and signed attributes whose identifiers are all bound (cms.c).
\* The signer search of cms_path.c accepts only a candidate that signed this
\* content, is named, has a path and is not revoked; its digest cache never
\* mixes hashes; INVALID means that no candidate signs and none was undecided.
SignersGenuine ==
  /\ part = "message" => /\ Message!SignedDataExact /\ Message!SignerInfoExact /\ Message!VersionExact
                         /\ Message!DigestListedExact /\ Message!AttributesExact /\ Message!IdentifiersBound
                         /\ Message!ValidIsGenuine /\ Message!CacheSound
                         /\ Message!InvalidIsDefinitive /\ Message!UndecidedIsReported

\* A card object is accepted exactly when it is current, bound to the card and
\* signed by a content signer of the profile, on reports that would be given
\* again now (piv_chuid.c, credential.c); in the check of a card every entry
\* that passed rests on entries that passed (piv_card_check.c); the inventory
\* both start from is read within the access rules, and nothing else of the
\* card is left behind (piv_inventory.c).
ObjectsGrounded ==
  /\ part = "chuid" => Holder!ChuidExact /\ Holder!SignerExact
  /\ part = "biometric" => Biometric!BiometricExact /\ Biometric!ReliesOnCurrent
  /\ part = "inventory" => Inventory!InventoryExact /\ Inventory!UnsignedExact /\ Inventory!ReliesOnCurrent
  /\ part = "card" => /\ CardRun!PassedIsGrounded /\ CardRun!MandatoryJudged
                      /\ CardRun!AcceptedCard /\ CardRun!ReportBounded
  /\ part = "reading" => /\ Reading!InventoryTypes /\ Reading!TypeOK /\ Reading!NothingLeft
                         /\ Reading!EntriesExact /\ Reading!WorkExact

\* A list of canceled cards is published only whole, checked and in order,
\* however its download was cut into chunks and wherever its import failed, and
\* a check of a card answers from a fresh list what that list says
\* (twic_ccl.c, examples/twic_ccl_import.c, examples/twic_ccl_storage.c).
CancellationExact ==
  part = "canceled" =>
    /\ Canceled!CallTypes /\ Canceled!StreamExact /\ Canceled!ListsImported /\ Canceled!ListsAscending
    /\ Canceled!AnswersExact /\ Canceled!LookupExact /\ Canceled!LeaseReturned

\* Every operation's preflight accepts exactly the placements it can work with
\* and charges one unit per comparison (pki_storage.c), and every accepted
\* build has what its features call (tiny_crypto/config.h).
CallsPrepared ==
  /\ part = "preflight" => /\ Preflight!TypeOK /\ Preflight!AcceptsExactly /\ Preflight!LimitIsBudget
                           /\ Preflight!CounterExact /\ Preflight!CounterApart
  /\ part = "build" => DefaultsBuild /\ LayersComplete

\* Path validation accepts no placement in which the caller's counter lies
\* inside a range it reads or writes: x509_path.c:471-472 calls the counter
\* "one of the checked writes".
WorkIsChecked == part = "preflight" => Preflight!WorkIsChecked
=============================================================================
