---------------------------- MODULE CmsSignedData ---------------------------
(***************************************************************************)
(* CMS SignedData (src/src/cms.c, cms_path.c, cms_collections.c).          *)
(*                                                                         *)
(* Reading: the structure of SignedData and SignerInfo, the version rule,  *)
(* the selection of a signer, the digest list and the signed attributes.   *)
(* A constructed value is the sequence of the tags of its fields; what is  *)
(* inside an optional field is abstracted to whether it is empty or well   *)
(* formed.  Messages grow field by field.  The readers scan them with an   *)
(* index; the references below describe the accepted sequences as a whole. *)
(* The signed attributes are read in one pass under a policy: DER or BER   *)
(* order, which identifier set is interpreted, and what happens to other   *)
(* attributes.  An attribute is its type, the rank of its encoding in DER  *)
(* order, whether its value has the form its type asks for, the number of  *)
(* its values and whether they are in order.                               *)
(*                                                                         *)
(* Validation: the certificates of the message and of a store are indexed, *)
(* the index is searched for a signer whose signature and path verify, and *)
(* the path is checked for revocation.  A candidate is what the checks     *)
(* tell apart: its kind, whether it reads, what matching the signer        *)
(* identifier says, the hash its key resolves to, whether it holds the     *)
(* signing key, its subject, and the outcome of path building and of the   *)
(* revocation check.  A digest is the pair of what was hashed and the      *)
(* hash.  The work budget may run out at every charge.                     *)
(***************************************************************************)
EXTENDS Integers, Sequences, SequencesExt, FiniteSets, FiniteSetsExt

CONSTANTS
  DataTags, SignerTags,  \* the tags a sender may use
  MaxFields,             \* more than the reader's six slots
  Certificates, Revocations, MaxChoices, MaxSigners,
  Algorithms,            \* [oid, good] entries of digestAlgorithms
  Attributes,            \* the attributes a signer may include
  Starts,                \* the sequences of attributes a signer begins with
  MaxAttributes

CONSTANTS
  Selections,        \* the certificates a caller may select as the signer
  Candidates,        \* [kind, reads, named, hash, genuine, subject, path, status]
  Messages,          \* [type, expected, attached, attributes, name, content, hash]
  MaxEmbedded, MaxExternal,
  Limits,            \* the max_candidates a caller may set
  Capacity           \* entries of the caller's certificate index

None == "none"
NoCandidate == [kind |-> None]
NoCache == [valid |-> FALSE, hash |-> None, digest |-> <<None, None>>, name |-> None]

VARIABLES
  phase,     \* what is built and read, "data", "signer", "collections",
             \* "digests" or "attributes"; or, of a validation, "begin",
             \* "index", "search", "revocation" or "done"
  request,   \* of a validation: [message, embedded, external, selected, detached, optional, room, max];
             \* of collections: [type, version, certificates, revocations, signers, wanted];
             \* of attributes: [encoding, oids, other, twic], how they are read and
             \* whether the build has TC_ENABLE_TWIC
  items,     \* the tags, entries or attributes so far, or the X.509
             \* candidates found, in order
  at,        \* candidates taken from the current cursor
  failure,   \* the failure the search remembers
  cache,     \* the digest of the signed attributes, once bound
  leaf,      \* the candidate whose path was built
  status, checked

vars == <<phase, request, items, at, failure, cache, leaf, status, checked>>

UpTo(n, S) == UNION {[1..k -> S] : k \in 0..n}

(* ----------------------------- the readers ----------------------------- *)

\* cms_fields: the fields of one level, at most six of them.
Slots == 6
FieldsOf(s) == IF Len(s) > Slots THEN "INVALID" ELSE "OK"

\* The index after the optional certificates and revocation lists.
Optional(s) ==
  LET a == IF Len(s) >= 4 /\ s[4] = "a0" THEN 5 ELSE 4
  IN IF a <= Len(s) /\ s[a] = "a1" THEN a + 1 ELSE a

\* tc_cms_signed_data_read of the SignedData level.
SignedDataRead(s) ==
  /\ FieldsOf(s) = "OK"
  /\ Len(s) >= 4 /\ s[1] = "int" /\ s[2] = "set" /\ s[3] = "seq"
  /\ Optional(s) = Len(s) /\ s[Len(s)] = "set"

\* The reader of a SignerInfo takes the next field or fails.
Expect(acc, tags) ==
  IF acc.ok /\ acc.at <= Len(items) /\ items[acc.at] \in tags
  THEN [acc EXCEPT !.at = @ + 1] ELSE [acc EXCEPT !.ok = FALSE]

\* Version 3 goes with a key identifier, version 1 with issuer and serial.
Identifier == IF items = <<>> THEN {} ELSE
  IF items[1] = "int3" THEN {"a0"} ELSE IF items[1] = "int1" THEN {"seq"} ELSE {}

\* tc_cms_signer_info_read.
SignerInfoRead ==
  LET start == [ok |-> TRUE, at |-> 1]
      digest == Expect(Expect(Expect(start, {"int1", "int3"}), Identifier), {"seq"})
      attributes == IF digest.ok /\ digest.at <= Len(items) /\ items[digest.at] = "a0"
                    THEN [digest EXCEPT !.at = @ + 1] ELSE digest
      signature == Expect(Expect(attributes, {"seq"}), {"octets"})
      end == IF signature.ok /\ signature.at <= Len(items) THEN Expect(signature, {"a1"})
             ELSE signature
  IN end.ok /\ end.at = Len(items) + 1

\* tc_cms_classify_certificate and the version each kind asks for.
CertificateVersion(k) ==
  CASE k = "other" -> 5 [] k = "attributeV2" -> 4 [] k = "attributeV1" -> 3 [] OTHER -> 1

Raised(required, version) == IF version > required THEN version ELSE required

\* The version the contents ask for, or 0: the loops of
\* tc_cms_signed_data_check.
RequiredVersion(m) ==
  LET base == IF m.type = "data" THEN 1 ELSE 3
      certs == FoldLeft(LAMBDA r, k : Raised(r, CertificateVersion(k)), base, m.certificates)
      revs == FoldLeft(LAMBDA r, k : IF k = "other" THEN 5 ELSE r, certs, m.revocations)
      signers == FoldLeft(LAMBDA r, v : IF v = 3 /\ r < 3 THEN 3 ELSE r, revs, m.signers)
  IN IF "bad" \in ToSet(m.certificates) \cup ToSet(m.revocations) THEN 0 ELSE signers

\* The walk over the signers counts the wanted index down.
SelectStep(acc, i) ==
  IF acc.found /= 0 THEN acc
  ELSE IF acc.left > 0 THEN [acc EXCEPT !.left = @ - 1] ELSE [acc EXCEPT !.found = i]

Selected(m) == FoldLeft(SelectStep, [left |-> m.wanted, found |-> 0],
                        [i \in 1..Len(m.signers) |-> i]).found

\* tc_cms_signed_data_version_check, which TC_CMS_signed_data_read ends with:
\* no signer is selected.
VersionCheck(m) == RequiredVersion(m) /= 0 /\ m.version = RequiredVersion(m)

\* tc_cms_signed_data_check for the signer the caller wants.
Check(m) == VersionCheck(m) /\ Selected(m) /= 0

\* One entry of tc_cms_digest_algorithms: entries of other hashes are not
\* judged, every entry of the required one is.
DigestStep(acc, a) ==
  IF ~acc.ok \/ a.oid /= acc.required THEN acc
  ELSE IF a.good THEN [acc EXCEPT !.listed = TRUE] ELSE [acc EXCEPT !.ok = FALSE]

DigestAlgorithms(list, required) ==
  LET acc == FoldLeft(DigestStep, [ok |-> TRUE, listed |-> FALSE, required |-> required], list)
  IN acc.ok /\ acc.listed

(* ------------------------ the signed attributes ------------------------ *)

\* cms_attribute_classify.
Classify(type) ==
  CASE type \in {"pivFascn", "signerName"} -> IF request.oids = "CMS" THEN "OTHER" ELSE type
    [] type = "twicFascn" -> (CASE request.oids = "CMS" \/ ~request.twic -> "OTHER"
                                [] request.oids = "PIV" /\ request.twic -> "EXCLUDED"
                                [] request.oids = "PIV_TWIC" -> "pivFascn")
    [] type \in {"protection", "signingCert"} -> "LISTED"
    [] type \in {"private1", "private2"} -> "OTHER"
    [] OTHER -> type

\* Attributes the policy does not let the reader skip.
Refused(class) ==
  \/ class = "EXCLUDED"
  \/ class = "LISTED" /\ request.other = "REJECT"
  \/ class = "OTHER" /\ request.other /= "SKIP_ALL"

\* Mutant: repeated types are noticed only when adjacent.
RepeatedAdjacent(i) == i > 1 /\ items[i - 1].type = items[i].type

\* cms_attribute_repeated: an earlier attribute has this type.
Repeated(i) == \E j \in 1..(i - 1) : items[j].type = items[i].type

\* cms_attribute_values_order: DER orders the values of a SET OF.
ValuesOrdered(a) == request.encoding = "DER" => a.sorted

\* One attribute of the reading loop.
ReadStep(acc, i) ==
  LET a == items[i]
      class == Classify(a.type)
      fail(r) == [acc EXCEPT !.result = r]
  IN CASE acc.result /= "OK" -> acc
       [] acc.result = "OK" /\ (\/ request.encoding = "DER" /\ i > 1 /\ items[i - 1].rank > a.rank
                                \/ a.values = 0) -> fail("INVALID")
       [] OTHER ->
            IF Refused(class) THEN fail("UNSUPPORTED")
            ELSE IF class = "OTHER"
                 THEN IF ~ValuesOrdered(a) \/ Repeated(i) THEN fail("INVALID") ELSE acc
            ELSE IF a.values /= 1 \/ ~a.good THEN fail("INVALID")
            ELSE IF class = "LISTED" THEN IF Repeated(i) THEN fail("INVALID") ELSE acc
            ELSE IF class \in {f[1] : f \in acc.fields} THEN fail("INVALID")
            ELSE [acc EXCEPT !.fields = @ \cup {<<class, i>>}]

\* Both mandatory attributes must have been read.
Conclude(acc) ==
  IF acc.result = "OK" /\ ~({"contentType", "messageDigest"} \subseteq {f[1] : f \in acc.fields})
  THEN [acc EXCEPT !.result = "INVALID"] ELSE acc

ReadAttributes == Conclude(FoldLeft(ReadStep, [result |-> "OK", fields |-> {}],
                                    [i \in 1..Len(items) |-> i]))

(* ------------------------------- building ------------------------------ *)

NoMessage == [type |-> "data", version |-> 1, certificates |-> <<>>, revocations |-> <<>>,
              signers |-> <<1>>, wanted |-> 0]

\* PIV_TWIC is a valid policy only where the build has TWIC.
Policies == [encoding : {"DER", "BER"}, oids : {"CMS", "PIV", "PIV_TWIC"},
             other : {"SKIP_LISTED", "REJECT", "SKIP_ALL"}, twic : {TRUE}]
            \cup [encoding : {"DER"}, oids : {"PIV"}, other : {"SKIP_LISTED", "SKIP_ALL"}, twic : {FALSE}]

InitReading ==
  \/ phase = "attributes" /\ items \in Starts /\ request \in Policies
  \/ phase \in {"data", "signer", "digests"} /\ items = <<>> /\ request = NoMessage
  \/ /\ phase = "collections" /\ items = <<>>
     /\ request \in [type : {"data", "token"}, version : 1..5,
                     certificates : UpTo(MaxChoices, Certificates), revocations : {<<>>},
                     signers : UpTo(MaxSigners, {1, 3}), wanted : {0, 1}]

\* A sender adds a field to what it builds.
AddField(t) ==
  /\ Len(items) < MaxFields
  /\ items' = Append(items, t)
  /\ UNCHANGED <<phase, request, at, failure, cache, leaf, status, checked>>

AddRevocation(r) ==
  /\ phase = "collections" /\ Len(request.revocations) < MaxChoices
  /\ request' = [request EXCEPT !.revocations = Append(@, r)]
  /\ UNCHANGED <<phase, items, at, failure, cache, leaf, status, checked>>

\* A signer includes another attribute.
Include(a) ==
  /\ phase = "attributes" /\ Len(items) < MaxAttributes
  /\ items' = Append(items, a)
  /\ UNCHANGED <<phase, request, at, failure, cache, leaf, status, checked>>

(* ------------------------------ validation ----------------------------- *)

InitValidation ==
  /\ request \in [message : Messages, embedded : UpTo(MaxEmbedded, Candidates),
                  external : UpTo(MaxExternal, {c \in Candidates : c.kind = "x509"}),
                  selected : {NoCandidate} \cup Selections,
                  detached : BOOLEAN, optional : BOOLEAN, room : BOOLEAN, max : Limits]
  /\ (~request.room \/ request.detached = request.message.attached) =>
       request.embedded = <<>> /\ request.external = <<>>
  \* The flag and the limit are varied only where they matter.
  /\ request.optional =>
       \E c \in ToSet(request.embedded) \cup ToSet(request.external) : c.status \notin {"GOOD", "REVOKED"}
  /\ request.max < MaxEmbedded + MaxExternal =>
       Len(request.embedded) + Len(request.external) = MaxEmbedded + MaxExternal
  /\ phase = "begin" /\ items = <<>>

Init ==
  /\ InitReading \/ InitValidation
  /\ at = 0 /\ failure = "INVALID" /\ cache = NoCache
  /\ leaf = NoCandidate /\ status = None /\ checked = None

Finish(s) == phase' = "done" /\ status' = s

(* ---------------------------- the content ------------------------------ *)

\* tc_cms_hash_content, for a hash the build may lack.
HashContent == IF request.message.content = "absent" THEN "UNSUPPORTED" ELSE "OK"

\* cms_signed_data_path_build up to the signer search: attached content is
\* not replaced by the caller's, the content type is the expected one, and
\* the content is hashed once for all candidates.
ReadMessage ==
  CASE request.message.attached /\ request.detached -> "ERROR"
    [] ~request.message.expected -> "INVALID"
    [] OTHER -> HashContent

\* tc_cms_credential_validate_internal: the caller's workspace holds what
\* the revocation check will need before the path build starts.
Begin ==
  /\ phase = "begin"
  /\ \/ ~request.room /\ Finish("LIMIT")
     \/ request.room /\ ReadMessage /= "OK" /\ Finish(ReadMessage)
     \/ request.room /\ ReadMessage = "OK" /\ phase' = "items" /\ UNCHANGED status
  /\ UNCHANGED <<request, at, items, failure, cache, leaf, checked>>

(* ------------------------------ the index ------------------------------ *)

All == request.embedded \o request.external

\* tc_cms_candidates_next and the loop of tc_cms_path_source_init: embedded
\* choices first, then the store; every choice counts against the maximum.
IndexNext ==
  /\ phase = "items" /\ at < Len(All)
  /\ LET c == All[at + 1]
     IN \/ at >= request.max /\ Finish("LIMIT") /\ UNCHANGED <<at, items>>
        \/ /\ at < request.max
           /\ CASE c.kind = "malformed" ->
                     Finish("INVALID") /\ UNCHANGED <<at, items>>
                [] c.kind = "x509" /\ Len(items) = Capacity ->
                     Finish("LIMIT") /\ UNCHANGED <<at, items>>
                [] OTHER ->
                     /\ at' = at + 1
                     /\ items' = IF c.kind = "x509" THEN Append(items, c) ELSE items
                     /\ UNCHANGED <<phase, status>>
        \/ at >= Len(request.embedded) /\ Finish("ERROR") /\ UNCHANGED <<at, items>>
  /\ UNCHANGED <<request, failure, cache, leaf, checked>>

\* The index is complete; an explicit selection replaces it as the list of
\* signers only.
IndexEnd ==
  /\ phase = "items" /\ at = Len(All)
  /\ phase' = "search" /\ at' = 0
  /\ UNCHANGED <<request, items, failure, cache, leaf, status, checked>>

Signers == IF request.selected = NoCandidate THEN items ELSE <<request.selected>>

(* ---------------------------- one candidate ---------------------------- *)

Cached(c) == cache.valid /\ cache.hash = c.hash

\* cms_verify_digest: the attributes are read and bound to the content once
\* per hash, then the digest and the signer's name come from the cache.
Binding(c) ==
  LET m == request.message
  IN CASE m.attributes = None /\ m.type /= "data" -> [result |-> "INVALID", cache |-> cache]
       [] m.attributes = None ->
            [result |-> "OK", digest |-> <<"content", c.hash>>, name |-> None, cache |-> cache]
       [] Cached(c) -> [result |-> "OK", digest |-> cache.digest, name |-> cache.name, cache |-> cache]
       [] m.attributes \in {"malformed", "unbound"} -> [result |-> "INVALID", cache |-> cache]
       [] OTHER -> [result |-> "OK", digest |-> <<"attributes", c.hash>>, name |-> m.name,
                    cache |-> [valid |-> TRUE, hash |-> c.hash, digest |-> <<"attributes", c.hash>>,
                               name |-> m.name]]

\* tc_cms_signature_resolve_policy: the key's algorithm is known, and without
\* attributes there is only one digest, so only one hash.
Resolve(c) ==
  CASE c.hash = "unknown" -> "UNSUPPORTED"
    [] request.message.attributes = None /\ c.hash /= request.message.content -> "INVALID"
    [] OTHER -> "OK"

\* tc_cms_signer_verify: the algorithm resolves for the candidate's key, the
\* digest is bound, the provider verifies.  The message was signed over its
\* attributes where it has them, under the signer's hash.
Verify(c) ==
  IF Resolve(c) /= "OK" THEN [result |-> Resolve(c), cache |-> cache]
  ELSE IF Binding(c).result /= "OK" THEN [result |-> Binding(c).result, cache |-> Binding(c).cache]
  ELSE LET b == Binding(c)
           m == request.message
           signed == <<IF m.attributes = None THEN "content" ELSE "attributes", m.hash>>
       IN [result |-> IF c.genuine /\ b.digest = signed
                      THEN "OK" ELSE "INVALID",
           name |-> b.name, cache |-> b.cache]

\* Mutant: the signer's name is checked only when it was just read.
NameAllowedOnce(c, v) == cache.valid \/ v.name \in {None, c.subject}

NameAllowed(c, v) == v.name \in {None, c.subject}

\* cms_signer_attempt.
Attempt(c) ==
  LET v == Verify(c)
  IN [result |-> IF v.result /= "OK" THEN v.result
                 ELSE IF ~NameAllowed(c, v) THEN "INVALID" ELSE c.path,
      cache |-> v.cache]

\* tc_x509_path_remember.
Remember(s) == IF s = "LIMIT" \/ (s = "UNSUPPORTED" /\ failure /= "LIMIT") THEN s ELSE failure

(* ------------------------------ the search ----------------------------- *)

\* tc_cms_signer_matches, the filter: issuer and serial number or the subject
\* key identifier match or not, or the comparison fails.
Matches(c) == c.named

\* One candidate of tc_pki_certificate_search with cms_signer_candidate as
\* the filter and cms_signer_attempt as the attempt; a failure of either is
\* remembered and the search goes on, unless it is an error.
Search ==
  /\ phase = "search" /\ at < Len(Signers)
  /\ LET c == Signers[at + 1]
     IN IF c.reads /= "OK" THEN Finish(c.reads) /\ UNCHANGED <<at, failure, cache, leaf>>
        ELSE IF Matches(c) = "no"
        THEN at' = at + 1 /\ UNCHANGED <<phase, status, failure, cache, leaf>>
        ELSE \E a \in {IF Matches(c) = "yes" THEN Attempt(c)
                        ELSE [result |-> Matches(c), cache |-> cache]} :
               /\ cache' = a.cache
               /\ CASE a.result = "OK" ->
                         phase' = "revocation" /\ leaf' = c /\ UNCHANGED <<status, at, failure>>
                    [] a.result = "ERROR" -> Finish("ERROR") /\ UNCHANGED <<leaf, at, failure>>
                    [] OTHER -> at' = at + 1 /\ failure' = Remember(a.result)
                                  /\ UNCHANGED <<phase, status, leaf>>
  /\ UNCHANGED <<request, items, checked>>

SearchEnd ==
  /\ phase = "search" /\ at = Len(Signers)
  /\ Finish(failure)
  /\ UNCHANGED <<request, at, items, failure, cache, leaf, checked>>

(* ------------------------------ revocation ----------------------------- *)

AcceptCovered == request.optional

\* tc_credential_tlv_status of a failed revocation check.
CredentialError(result) == IF result \in {"ARGUMENT", "IO"} THEN "ERROR" ELSE result

\* The results of tc_x509_path_revocation_coverage that are no coverage; its
\* LIMIT is the exhausted budget's.
CheckFailures == {"INVALID", "UNSUPPORTED", "IO"}

\* Mutant: a check that fails counts as a member without coverage.
RevocationUnfailing ==
  /\ phase = "revocation"
  /\ CASE leaf.status = "REVOKED" -> Finish("REVOKED") /\ UNCHANGED checked
       [] leaf.status /= "GOOD" /\ ~AcceptCovered -> Finish("UNAVAILABLE") /\ UNCHANGED checked
       [] OTHER -> Finish("VALID") /\ checked' = (IF leaf.status = "GOOD" THEN "yes" ELSE "no")
  /\ UNCHANGED <<request, at, items, failure, cache, leaf>>

\* tc_cms_path_revocation_check.
Revocation ==
  /\ phase = "revocation"
  /\ CASE leaf.status \in CheckFailures -> Finish(CredentialError(leaf.status)) /\ UNCHANGED checked
       [] leaf.status = "REVOKED" -> Finish("REVOKED") /\ UNCHANGED checked
       [] leaf.status /= "GOOD" /\ ~AcceptCovered -> Finish("UNAVAILABLE") /\ UNCHANGED checked
       [] OTHER -> Finish("VALID") /\ checked' = (IF leaf.status = "GOOD" THEN "yes" ELSE "no")
  /\ UNCHANGED <<request, at, items, failure, cache, leaf>>

\* A charge that the budget cannot pay ends the validation in any phase.
OutOfWork ==
  /\ phase \in {"begin", "items", "search", "revocation"}
  /\ Finish("LIMIT")
  /\ UNCHANGED <<request, at, items, failure, cache, leaf, checked>>

Done == phase = "done" /\ UNCHANGED vars

Next == \/ phase = "data" /\ \E t \in DataTags : AddField(t)
        \/ phase = "signer" /\ \E t \in SignerTags : AddField(t)
        \/ phase = "digests" /\ \E t \in Algorithms : AddField(t)
        \/ \E r \in Revocations : AddRevocation(r)
        \/ \E a \in Attributes : Include(a)
        \/ Begin \/ IndexNext \/ IndexEnd \/ Search \/ SearchEnd \/ Revocation \/ OutOfWork \/ Done

Spec == Init /\ [][Next]_vars

(* ------------------------ properties of reading ------------------------ *)

Opt(t) == {<<>>, <<t>>}

\* SignedData is accepted exactly when it is version, digest algorithms and
\* content, then optionally certificates and revocation lists in this order,
\* then the signers, whatever else a sender repeats, leaves out or reorders.
SignedDataExact ==
  phase = "data" =>
    (SignedDataRead(items) <=>
       \E c \in Opt("a0"), r \in Opt("a1") : items = <<"int", "set", "seq">> \o c \o r \o <<"set">>)

\* SignerInfo is accepted exactly when its identifier goes with its version
\* and its optional attribute sets are in their places.
SignerInfoExact ==
  phase = "signer" =>
    (SignerInfoRead <=>
       \E h \in {<<"int1", "seq">>, <<"int3", "a0">>}, a \in Opt("a0"), u \in Opt("a1") :
         items = h \o <<"seq">> \o a \o <<"seq", "octets">> \o u)

\* The version of SignedData by its contents, RFC 5652 section 5.1: it does
\* not depend on the order of the certificates, lists or signers.
VersionOf(m) ==
  LET has(k, s) == k \in ToSet(s)
  IN IF has("other", m.certificates) \/ has("other", m.revocations) THEN 5
     ELSE IF has("attributeV2", m.certificates) THEN 4
     ELSE IF has("attributeV1", m.certificates) \/ has(3, m.signers) \/ m.type /= "data" THEN 3
     ELSE 1

VersionExact ==
  phase = "collections" =>
    /\ VersionCheck(request) <=>
         /\ "bad" \notin ToSet(request.certificates) \cup ToSet(request.revocations)
         /\ request.version = VersionOf(request)
    /\ Check(request) <=>
         /\ VersionCheck(request)
         /\ request.wanted < Len(request.signers) /\ Selected(request) = request.wanted + 1

\* A signer's digest counts as listed exactly when some entry names it and
\* every entry that names it has valid parameters.
DigestListedExact ==
  phase = "digests" =>
    \A h \in {a.oid : a \in Algorithms} :
      DigestAlgorithms(items, h) <=>
        LET named == {i \in 1..Len(items) : items[i].oid = h}
        IN named /= {} /\ \A i \in named : items[i].good

Interpreted(type) ==
  \/ type \in {"contentType", "messageDigest", "signingTime", "capabilities", "entryUuid"}
  \/ type \in {"pivFascn", "signerName"} /\ request.oids /= "CMS"
  \/ type = "twicFascn" /\ request.oids = "PIV_TWIC"
FieldOf(type) == IF type = "twicFascn" THEN "pivFascn" ELSE type
Skippable(type) ==
  /\ ~Interpreted(type)
  /\ ~(type = "twicFascn" /\ request.oids = "PIV" /\ request.twic)
  /\ request.other = "SKIP_ALL" \/
       (request.other = "SKIP_LISTED" /\ type \in {"protection", "signingCert"})

Positions == 1..Len(items)

\* What a signer must have sent for the attributes to be accepted: stated
\* over the whole set, without order of reading.
WellFormed ==
  /\ request.encoding = "DER" => \A i, j \in Positions : i < j => items[i].rank <= items[j].rank
  /\ \A i \in Positions :
       /\ Interpreted(items[i].type) \/ Skippable(items[i].type)
       /\ Interpreted(items[i].type) \/ items[i].type \in {"protection", "signingCert"}
            => items[i].values = 1 /\ items[i].good
       /\ items[i].values > 0
       /\ request.encoding = "DER" /\ ~Interpreted(items[i].type) /\ items[i].values > 1 => items[i].sorted
  /\ \A i, j \in Positions : i /= j =>
       IF Interpreted(items[i].type) /\ Interpreted(items[j].type)
       THEN FieldOf(items[i].type) /= FieldOf(items[j].type)
       ELSE items[i].type /= items[j].type
  /\ {"contentType", "messageDigest"} \subseteq {items[i].type : i \in Positions}

\* TC_CMS_signed_attributes_read accepts exactly the well-formed sets: one
\* instance of each attribute, both mandatory ones, in order under DER, and
\* nothing the policy does not know how to treat.
AttributesExact == phase = "attributes" => (ReadAttributes.result = "OK" <=> WellFormed)

\* Every identifier attribute the identifier set interprets is bound: no
\* FASC-N is skipped past the card binding while FASC-N is interpreted, under
\* either object identifier where the build knows both.
IdentifiersBound ==
  phase = "attributes" /\ request.oids /= "CMS" =>
    \E r \in {ReadAttributes} : r.result = "OK" =>
      \A i \in Positions : items[i].type = "pivFascn" \/ (items[i].type = "twicFascn" /\ request.twic)
                            => <<"pivFascn", i>> \in r.fields

(* ----------------------- properties of validation ---------------------- *)

\* What makes a candidate the signer of the message, stated at once.
IsSigner(c) ==
  LET m == request.message
  IN /\ c.kind = "x509" /\ c.named = "yes" /\ c.genuine /\ c.hash = m.hash
     /\ m.attributes \in {None, "bound"} /\ (m.attributes = None => m.type = "data" /\ m.hash = m.content)
     /\ m.expected /\ m.content /= "absent"
     /\ (m.attributes = "bound" /\ m.name /= None) => c.subject = m.name
     /\ c.path = "OK"

\* A credential is accepted only on the signature of a certificate that the
\* identifier and the signed name allow, that has a path and is not revoked;
\* with an explicit selection on no other certificate.  Optional evidence
\* waives missing coverage, never a revocation check that failed.
ValidIsGenuine ==
  status = "VALID" =>
    /\ IsSigner(leaf)
    /\ leaf = request.selected \/ (request.selected = NoCandidate /\ leaf \in ToSet(All))
    /\ leaf.status = "GOOD" \/ (request.optional /\ leaf.status = "UNDETERMINED")
    /\ (checked = "yes" <=> leaf.status = "GOOD")

\* The cached digest is the one of the bound attributes under its own hash,
\* however many keys and hashes the search has tried.
CacheSound ==
  cache.valid => /\ request.message.attributes = "bound"
                 /\ cache.digest = <<"attributes", cache.hash>> /\ cache.name = request.message.name

\* INVALID is a verdict (cms_validation.h: "a malformed message or failed
\* signature, path or CRL check"): with a signer found, its revocation check
\* failed as INVALID; with none found, no candidate the search may use signs
\* the message, unless a candidate on the way does not even read.
InvalidIsDefinitive ==
  status = "INVALID" =>
    LET usable == IF request.selected = NoCandidate THEN ToSet(All) ELSE {request.selected}
    IN \/ IsSigner(leaf) /\ leaf.status = "INVALID"
       \/ leaf = NoCandidate /\ \A c \in usable : ~(IsSigner(c) /\ c.reads = "OK")
       \/ leaf = NoCandidate /\ \E c \in usable \cup ToSet(All) : c.reads = "INVALID" \/ c.kind = "malformed"

\* An undecided candidate is not forgotten: a search that finds no signer
\* never reports INVALID when a candidate could not be evaluated.
UndecidedIsReported ==
  (status = "INVALID" /\ leaf = NoCandidate /\ \A c \in ToSet(All) \cup ToSet(Signers) : c.kind /= "malformed" /\ c.reads = "OK") =>
    \A i \in 1..Len(Signers) : Signers[i].named /= "no" =>
      /\ Signers[i].named = "yes" /\ Signers[i].hash /= "unknown"
      /\ IsSigner([Signers[i] EXCEPT !.path = "OK"]) => Signers[i].path = "INVALID"
=============================================================================
