-------------------------- MODULE CredentialObjects -------------------------
(***************************************************************************)
(* The PIV and TWIC credential validators: the signed CHUID, the objects   *)
(* that are bound to an accepted CHUID (biometrics and the Security Object *)
(* with its inventory), the unsigned TWIC CHUID bound to an accepted       *)
(* inventory, and the content signer of a CVC chain (src/src/credential.c, *)
(* credential_security.c, credential_signer.c, credential_session.c,       *)
(* credential_policy.c, twic_chuid.c, piv_cms.c, validation.c).            *)
(*                                                                         *)
(* The caller keeps the CHUID report and one report built on it, changes   *)
(* the evaluation time between calls, and may pass any report it holds to  *)
(* any later call.  A call is the sequence of its checks: the first check  *)
(* that fails is the answer, and every check that charges work may find    *)
(* the budget exhausted.  An object is what the checks tell apart: its     *)
(* identifiers, its dates, the certificate it carries and the certificate  *)
(* whose key signed it.  A digest stands for the content it is taken of.   *)
(***************************************************************************)
EXTENDS Integers, Sequences, SequencesExt, FiniteSets

CONSTANTS
  Contexts,      \* the contexts a caller may set up: [at, optional, purpose]
  Certs,         \* name -> [key, usages, policy, until, reads, path, evidence]
  Requests,      \* the calls a caller may make
  MaxTime,       \* the last evaluation time
  DayLength,     \* time units of a day; a CHUID expires with its day
  MaxGroups,     \* TC_LDS_MAX_GROUPS
  UnsignedId     \* TC_TWIC_UNSIGNED_CHUID_CONTAINER

None == "none"
NilUuid == "nil"
VARIABLES
  context,   \* [at, optional, purpose]: time, evidence rule, purpose of the options
  chuid,     \* the CHUID report the caller holds, or NoReport
  held,      \* the Security Object map or inventory report it holds, or NoReport
  request,   \* the call that runs or ran last
  rest,      \* the checks that remain
  session,   \* [purpose, policy, checked]: the policies of the running call
  groups,    \* the data groups the inventory loop has checked
  status

vars == <<context, chuid, held, request, rest, session, groups, status>>

NoReport == [op |-> None]
NoRequest == [op |-> None]
\* tc_credential_session_open starts from the options of the context.
NewSession == [purpose |-> context.purpose, policy |-> FALSE, checked |-> FALSE]

Init ==
  /\ context \in Contexts
  /\ chuid = NoReport /\ held = NoReport /\ request = NoRequest
  /\ rest = <<>> /\ session = NewSession /\ groups = {} /\ status = None

(* ------------------------- profile and policies ------------------------ *)

Piv == request.profile = "PIV"
\* TWIC readers accept either identifier of a pair of OIDs.
Compatible == ~Piv \/ (request.op = "chuid" /\ request.reader)
ContentSigning(compatible) == IF compatible THEN {"PIV", "TWIC"} ELSE {"PIV"}

\* tc_credential_profile: a known profile, and a purpose of the options, if
\* there is one, that is content signing for that profile.
Profile ==
  /\ request.profile \in {"PIV", "TWIC"}
  /\ context.purpose \in {None} \cup ContentSigning(~Piv)

Fail(ok, s) == IF ok THEN "VALID" ELSE s

\* The argument checks of the validators up to tc_credential_session_open.
Open ==
  Fail(/\ Profile
       /\ request.op = "chuid" =>
            /\ request.reader => Piv
            /\ request.layout \in {"SP73_4", IF Piv THEN "PIV" ELSE "TWIC_SIGNED"}, "ERROR")

\* tc_credential_result_current
Current(report) == report.profile = request.profile /\ report.at = context.at

\* tc_credential_chuid_bound
Bound == Fail(chuid /= NoReport /\ Current(chuid), "ERROR")

\* tc_piv_identifiers_match: an absent UUID reads as sixteen zeros.
IdentifiersMatch(object, optional) ==
  /\ request.card.fascn = object.fascn
  /\ \/ optional /\ request.card.uuid = None
     \/ (IF request.card.uuid = None THEN NilUuid ELSE request.card.uuid) = object.uuid

\* tc_credential_chuid_expiration_check: through the last unit of the day.
Unexpired(object) == context.at <= object.expires * DayLength + DayLength - 1

(* ------------------------------ the signer ----------------------------- *)

\* TC_PIV_CMS_read: the envelope (its version, content only where the kind
\* attaches it, no CRLs), the content type and its identifier set, at most one
\* certificate and exactly one signer, and the attributes: the signer's name,
\* the envelope's content type and the identifiers the kind requires.
CmsRead(cms, kind) ==
  LET e == cms.envelope
      security == kind = "SECURITY"
  IN Fail(/\ e.version = 3 /\ e.content = security /\ ~e.crls
          /\ cms.type = kind
          /\ cms.oids = "TWIC" => Compatible /\ ~security
          /\ kind = "CHUID" => cms.cert /= None
          /\ security => cms.cert = None
          /\ ~e.more
          /\ Len(e.signers) = 1 /\ (~security => e.signers[1] = 1)
          /\ (~security => e.name) /\ e.bound
          /\ kind = "BIOMETRIC" =>
               cms.fascn /= None /\ (request.early \/ cms.uuid /= None), "INVALID")

\* TC_PIV_CMS_identifiers_match: an attribute that is present must agree.
CmsIdentifiers(cms, object) ==
  Fail(cms.fascn \in {None, object.fascn} /\ cms.uuid \in {None, object.uuid}, "INVALID")

\* The content signer of the call.
SignerName ==
  CASE request.op = "chuid" -> request.object.cms.cert
    [] request.op = "biometric" ->
         IF request.object.cms.cert /= None THEN request.object.cms.cert ELSE chuid.signer
    [] request.op \in {"authenticate", "security"} -> chuid.signer
    [] OTHER -> request.signer
Signer == Certs[SignerName]

\* biometric_signer_distinct: PSS keys are RSA keys, and a point is known by
\* its curve, its x coordinate and the parity of y.
Family(key) == IF key.type = "PSS" THEN "RSA" ELSE key.type
\* The same family, parity and both parts make the same key.
Distinct(a, b) ==
  CASE a.type = "OTHER" \/ b.type = "OTHER" -> "UNSUPPORTED"
    [] Family(a) /= Family(b) -> "VALID"
    [] a.parity /= b.parity -> "VALID"
    [] a.first /= b.first \/ a.second /= b.second -> "VALID"
    [] OTHER -> "INVALID"

Embedded ==
  IF request.object.cms.cert = None THEN "VALID"
  ELSE IF ~Certs[request.object.cms.cert].reads THEN "INVALID"
       ELSE Distinct(Certs[request.object.cms.cert].key, Certs[chuid.signer].key)

\* TWIC signers may carry either content-signing OID.
FindPurpose == ~Piv \/ session.purpose = None

\* signer_extensions_scan: the content-signing usages of the signer, in order.
Purposes == SelectSeq(Signer.usages, LAMBDA u : u \in ContentSigning(Compatible))
\* Mutant: the signer may expire before the card.
PolicyAnyExpiry ==
  Fail((FindPurpose => Purposes /= <<>>) /\ (Piv => Signer.policy), "INVALID")

\* tc_credential_signer_policy: a PIV signer asserts the content-signing
\* policy and outlives the card; the purpose of the path comes from the
\* signer's own usage unless a PIV caller fixed it.
Policy ==
  Fail(/\ FindPurpose => Purposes /= <<>>
       /\ Piv => Signer.policy
       /\ (Piv /\ request.op \notin {"signer", "cvc"}) => Signer.until >= request.cardExpires,
       "INVALID")

\* tc_credential_session_verify and tc_x509_validate_evidence: the signature
\* by the signer's key, the path under the session's policies, then the
\* revocation evidence of the path under the rule of the context.
SignedBySigner ==
  request.op \in {"signer", "cvc"} \/ request.object.cms.signedBy = SignerName
Verify ==
  CASE ~SignedBySigner -> "INVALID"
    [] Signer.path /= "VALID" -> Signer.path
    [] Signer.until < context.at -> "INVALID"
    [] session.purpose /= None /\ ~Contains(Signer.usages, session.purpose) -> "INVALID"
    [] session.policy /\ ~Signer.policy -> "INVALID"
    [] Signer.evidence = "REVOKED" -> "REVOKED"
    [] Signer.evidence = "NONE" /\ ~context.optional -> "UNAVAILABLE"
    [] OTHER -> "VALID"

(* --------------------------- objects and maps -------------------------- *)

\* biometric_contents_check: the header names the format the caller expects,
\* the period is current if the caller asks for that, the record reads, and
\* the FASC-N is that of the accepted CHUID.
Contents ==
  LET b == request.object IN
  Fail(/\ b.reads /\ b.format = request.format
       /\ request.current => b.from <= context.at /\ context.at <= b.until
       /\ b.fascn = chuid.object.fascn, "INVALID")

Unique(seq, field(_)) == \A i, j \in DOMAIN seq : field(seq[i]) = field(seq[j]) => i = j
Group(r) == r.group
Container(r) == r.container

\* security_mapping: every group and every container at most once.
MappingRead(mapping) ==
  Fail(/\ mapping /= <<>> /\ Len(mapping) <= MaxGroups
       /\ Unique(mapping, Group) /\ Unique(mapping, Container), "INVALID")

\* TC_LDS_read_content and lds_hashes: two or more groups, each once.
LdsRead(lds) == Fail(Len(lds) \in 2..MaxGroups /\ Unique(lds, Group), "INVALID")

Groups(records) == {records[i].group : i \in DOMAIN records}

\* The container map and the signed LDS name the same data groups.
SameGroups == Fail(Groups(request.object.mapping) = Groups(request.object.lds), "INVALID")

\* TC_PIV_security_group_find and TC_LDS_hash_check
GroupsOf(object, container) ==
  {object.mapping[i].group : i \in {j \in DOMAIN object.mapping :
                                      object.mapping[j].container = container}}
Digest(object, group) ==
  LET i == CHOOSE j \in DOMAIN object.lds : object.lds[j].group = group
  IN object.lds[i].digest

\* security_digest: the answer for one object of the inventory.  The build
\* may lack the hash of the LDS.
SecurityDigest(object, item) ==
  LET found == GroupsOf(object, item.container) IN
  CASE found = {} -> "UNAVAILABLE"
    [] object.hash = "absent" -> "UNSUPPORTED"
    [] OTHER -> Fail(\A g \in found : Digest(object, g) = item.content, "INVALID")

\* TC_PIV_security_validate: fewer than two objects, an object without parts
\* and a repeated container are refused before any work.
InventoryCount ==
  CASE Len(request.items) > MaxGroups -> "LIMIT"
    [] request.items = <<>> -> "ERROR"
    [] OTHER -> "VALID"
InventoryUnique ==
  LET items == request.items
      Empty(i) == items[i].content = None
      Repeats(i) == \E j \in 1..i - 1 : items[j].container = items[i].container
      bad == {i \in DOMAIN items : Empty(i) \/ Repeats(i)}
  IN CASE Len(items) < 2 -> "INVALID"
       [] bad = {} -> "VALID"
       [] OTHER -> IF Empty(CHOOSE i \in bad : \A j \in bad : i <= j) THEN "ERROR" ELSE "INVALID"

\* Every signed group was supplied.
InventoryComplete == Fail(groups = Groups(request.object.lds), "INVALID")

\* TC_TWIC_unsigned_CHUID_validate: an inventory accepted now, that holds the
\* very bytes of this CHUID.
InventoryCurrent ==
  Fail(request.profile = "TWIC" /\ held.op = "security" /\ Current(held), "ERROR")
\* security_object_equals
InventoryEquals ==
  Fail(\E i \in DOMAIN held.items : /\ held.items[i].container = UnsignedId
                                    /\ held.items[i].content = request.object.bytes, "INVALID")

(* ------------------------------- the calls ----------------------------- *)

\* The checks of each validator, in order.
SignerSteps == <<"signer", "policy", "verify">>
ChuidSteps == <<"open", "bind", "read", "expiry", "match", "cms", "attributes">> \o SignerSteps
BiometricSteps == <<"open", "bound", "format", "bind", "contents", "cms", "attributes",
                    "chuid", "embedded", "policy", "verify">>
SecuritySteps == <<"bind", "mapping", "cms">> \o SignerSteps \o <<"lds", "groups">>
UnsignedSteps == <<"current", "bind", "equals", "read", "expiry", "match">>
Steps(op) ==
  CASE op = "chuid" -> ChuidSteps
    [] op = "biometric" -> BiometricSteps
    [] op = "authenticate" -> <<"open", "bound">> \o SecuritySteps
    [] op = "security" -> <<"count", "open", "bound", "unique">> \o SecuritySteps \o <<"inventory">>
    [] op = "digest" -> <<"map", "digest">>
    [] op = "unsigned" -> UnsignedSteps
    [] op = "signer" -> <<"open", "bind">> \o SignerSteps
    [] op = "cvc" -> <<"open", "bind">> \o SignerSteps \o <<"chain">>

\* The checks that charge the work counter, or meet a limit of the parser.
Charging == {"bind", "match", "cms", "attributes", "signer", "chuid", "embedded", "policy", "verify",
             "lds", "inventory", "digest", "equals", "chain"}

Reader == request.op = "unsigned" \/ ~Piv \/ request.reader
Kind == CASE request.op = "chuid" -> "CHUID"
          [] request.op = "biometric" -> "BIOMETRIC"
          [] OTHER -> "SECURITY"

Verdict(step) ==
  CASE step = "open" -> Open
    [] step = "bound" -> Bound
    [] step = "format" -> Fail(request.format /= "IRIS", "UNSUPPORTED")
    [] step = "read" -> Fail(request.layout \in request.object.reads, "INVALID")
    [] step = "expiry" -> Fail(Unexpired(request.object), "INVALID")
    [] step = "match" -> Fail(IdentifiersMatch(request.object, Reader), "INVALID")
    [] step = "cms" -> CmsRead(request.object.cms, Kind)
    [] step = "attributes" ->
         CmsIdentifiers(request.object.cms,
                        IF request.op = "chuid" THEN request.object ELSE chuid.object)
    [] step = "contents" -> Contents
    [] step = "signer" -> Fail(Signer.reads, "INVALID")
    [] step = "embedded" -> Embedded
    [] step = "policy" -> Policy
    [] step = "verify" -> Verify
    [] step = "mapping" -> MappingRead(request.object.mapping)
    [] step = "lds" -> LdsRead(request.object.lds)
    [] step = "groups" -> SameGroups
    [] step = "count" -> InventoryCount
    [] step = "unique" -> InventoryUnique
    [] step = "inventory" -> InventoryComplete
    [] step = "map" -> Fail(held.op = "authenticate" /\ request.item.content /= None, "ERROR")
    [] step = "digest" -> SecurityDigest(held.object, request.item)
    [] step = "current" -> InventoryCurrent
    [] step = "equals" -> InventoryEquals
    [] step = "chain" -> request.chain
    [] OTHER -> "VALID"

\* The report of an accepted call.  "for" is the call it answers.
Report ==
  [op |-> request.op, object |-> request.object, signer |-> SignerName, at |-> context.at,
   profile |-> request.profile, checked |-> session.checked, for |-> request,
   items |-> IF request.op = "security" THEN request.items ELSE <<>>]

\* The reports change only with VALID.
Write(s) ==
  /\ chuid' = IF s = "VALID" /\ request.op = "chuid" THEN Report ELSE chuid
  /\ held' = IF s = "VALID" /\ request.op \in {"authenticate", "security"} THEN Report ELSE held

Return(s) == rest' = <<>> /\ status' = s /\ Write(s) /\ UNCHANGED <<context, request, groups>>

Call ==
  /\ request = NoRequest
  /\ \E r \in Requests : request' = r /\ rest' = Append(Steps(r.op), "write")
  /\ session' = NewSession /\ groups' = {} /\ status' = None
  /\ UNCHANGED <<context, chuid, held>>

\* The effect of a check that passes: the policy scan fixes the purpose and
\* the explicit policy, the verification reports whether evidence was used.
Apply(step) ==
  CASE step = "policy" -> [session EXCEPT !.purpose = IF FindPurpose THEN Head(Purposes) ELSE @,
                                          !.policy = Piv]
    [] step = "verify" -> [session EXCEPT !.checked = Signer.evidence = "GOOD"]
    [] OTHER -> session

\* The objects of the inventory are checked one by one.
Loop == Head(rest) = "inventory" /\ Cardinality(groups) < Len(request.items)

Step ==
  /\ rest /= <<>> /\ ~Loop
  /\ LET step == Head(rest)
         verdict == Verdict(step)
     IN \/ /\ verdict = "VALID" /\ step /= "write"
           /\ session' = Apply(step) /\ rest' = Tail(rest)
           /\ UNCHANGED <<context, chuid, held, request, groups, status>>
        \/ (verdict /= "VALID" \/ step = "write") /\ Return(verdict) /\ UNCHANGED session

\* A container outside the map and a group met twice fail the inventory; any
\* other failure is returned as it is.
InventoryNext ==
  /\ rest /= <<>> /\ Loop
  /\ LET item == request.items[Cardinality(groups) + 1]
         found == GroupsOf(request.object, item.container)
         digest == SecurityDigest(request.object, item)
     IN \/ /\ digest = "VALID" /\ found \cap groups = {}
           /\ groups' = groups \cup found
           /\ UNCHANGED <<context, chuid, held, request, rest, session, status>>
        \/ /\ digest /= "VALID" \/ found \cap groups /= {}
           /\ Return(IF digest \in {"VALID", "UNAVAILABLE"} THEN "INVALID" ELSE digest)
           /\ UNCHANGED session

\* tc_pki_work_charge and the limits of the parser
Exhaust == rest /= <<>> /\ Head(rest) \in Charging /\ Return("LIMIT") /\ UNCHANGED session

\* The caller evaluates its next calls at a later time.
Advance ==
  /\ request = NoRequest /\ context.at < MaxTime
  /\ context' = [context EXCEPT !.at = @ + 1]
  /\ UNCHANGED <<chuid, held, request, rest, session, groups, status>>

\* The caller has seen the answer.
Take ==
  /\ request /= NoRequest /\ rest = <<>>
  /\ request' = NoRequest /\ session' = NewSession /\ groups' = {} /\ status' = None
  /\ UNCHANGED <<context, chuid, held, rest>>

Next == Call \/ Step \/ InventoryNext \/ Exhaust \/ Advance \/ Take
Spec == Init /\ [][Next]_vars

(* ------------------------------ properties ----------------------------- *)

\* A content signer for a profile, stated over the certificate alone.
GoodSigner(c, profile, compatible, expires) ==
  /\ c.reads /\ c.path = "VALID" /\ context.at <= c.until
  /\ c.evidence = "GOOD" \/ (c.evidence = "NONE" /\ context.optional)
  /\ LET accepted == IF profile = "PIV" /\ context.purpose /= None THEN {context.purpose}
                     ELSE IF compatible THEN {"PIV", "TWIC"} ELSE {"PIV"}
     IN ToSet(c.usages) \cap accepted /= {}
  /\ profile = "PIV" => c.policy /\ c.until >= expires

\* The only envelopes of a signed object: one signer and nothing unsigned
\* beside it.  A Security Object need not name its signer.
Envelopes(kind) ==
  IF kind = "SECURITY"
  THEN [version : {3}, content : {TRUE}, crls : {FALSE}, more : {FALSE}, signers : {<<1>>, <<3>>},
        name : BOOLEAN, bound : {TRUE}]
  ELSE {[version |-> 3, content |-> FALSE, crls |-> FALSE, more |-> FALSE, signers |-> <<1>>,
         name |-> TRUE, bound |-> TRUE]}

GoodContext(profile) ==
  profile \in {"PIV", "TWIC"} /\ (profile = "PIV" => context.purpose \in {None, "PIV"})

\* A CHUID a caller may rely on at the present time.
GoodChuid(r) ==
  LET o == r.object
      reader == r.profile = "TWIC" \/ r.reader
  IN /\ GoodContext(r.profile) /\ (r.reader => r.profile = "PIV")
     /\ r.layout = "SP73_4" \/ <<r.profile, r.layout>> \in {<<"PIV", "PIV">>, <<"TWIC", "TWIC_SIGNED">>}
     /\ r.layout \in o.reads /\ context.at \div DayLength <= o.expires
     /\ r.card.fascn = o.fascn /\ (r.card.uuid = o.uuid \/ (reader /\ r.card.uuid = None))
     /\ o.cms.type = "CHUID" /\ o.cms.envelope \in Envelopes("CHUID") /\ (o.cms.oids = "PIV" \/ reader)
     /\ o.cms.fascn \in {None, o.fascn} /\ o.cms.uuid \in {None, o.uuid}
     /\ o.cms.cert /= None /\ o.cms.signedBy = o.cms.cert
     /\ GoodSigner(Certs[o.cms.cert], r.profile, reader, r.cardExpires)

Done(op) == rest = <<>> /\ request.op = op /\ status \notin {None, "LIMIT"}

\* TC_PIV_CHUID_validate accepts exactly the current CHUIDs that are bound to
\* the card and signed by a content signer of the profile; its report says
\* that revocation was checked only if evidence covered that signer.
ChuidExact ==
  Done("chuid") =>
    /\ (status = "VALID") = GoodChuid(request)
    /\ status = "VALID" => chuid.for = request /\ chuid.at = context.at
    /\ chuid /= NoReport => chuid.checked = (Certs[chuid.signer].evidence = "GOOD")

\* Two certificates hold the same public key.
SameKey(a, b) ==
  /\ a.type = b.type \/ {a.type, b.type} = {"RSA", "PSS"}
  /\ <<a.first, a.second, a.parity>> = <<b.first, b.second, b.parity>>

\* TC_PIV_biometric_validate accepts exactly the biometrics of the CHUID's
\* cardholder, signed by the CHUID signer or by a signer with another key.
BiometricExact ==
  Done("biometric") =>
    LET o == request.object
        c == o.cms
        own == c.cert = None
        name == IF own THEN chuid.signer ELSE c.cert
    IN (status = "VALID") =
       /\ chuid /= NoReport /\ chuid.at = context.at /\ chuid.profile = request.profile
       /\ GoodContext(request.profile)
       /\ request.format = o.format /\ o.format /= "IRIS" /\ o.reads
       /\ request.current => context.at \in o.from..o.until
       /\ o.fascn = chuid.object.fascn /\ c.fascn = o.fascn
       /\ c.uuid = chuid.object.uuid \/ (request.early /\ c.uuid = None)
       /\ c.type = "BIOMETRIC" /\ c.envelope \in Envelopes("BIOMETRIC") /\ (c.oids = "PIV" \/ request.profile = "TWIC")
       /\ c.signedBy = name
       /\ own \/ /\ ~SameKey(Certs[name].key, Certs[chuid.signer].key)
                 /\ "OTHER" \notin {Certs[name].key.type, Certs[chuid.signer].key.type}
       /\ GoodSigner(Certs[name], request.profile, request.profile = "TWIC", request.cardExpires)

\* An object accepted on the strength of an earlier report rests on a report
\* that would be given again now: a result is never carried past the time at
\* which its CHUID, its signer or its inventory was still good.  A digest check
\* is not among them: it takes no context, and speaks of the map it is given.
ReliesOnCurrent ==
  (rest = <<>> /\ status = "VALID") =>
    /\ request.op \in {"biometric", "authenticate", "security"} => GoodChuid(chuid.for)
    /\ request.op = "unsigned" =>
         GoodSigner(Certs[held.signer], held.profile, held.profile = "TWIC", held.for.cardExpires)

\* What a Security Object signs: the digest of every mapped container.
Signs(o) == {<<o.mapping[i].container, o.lds[j].digest>> :
               <<i, j>> \in {p \in (DOMAIN o.mapping) \X (DOMAIN o.lds) :
                              o.mapping[p[1]].group = o.lds[p[2]].group}}

\* An accepted inventory holds every signed container once, with the signed
\* content, and nothing else; a digest check accepts exactly signed content,
\* and tells a container that is not signed, and a hash it cannot take, from
\* content that was changed; both were signed, in an envelope of their kind,
\* by the signer of the CHUID they were accepted with.
InventoryExact ==
  /\ held.op /= None =>
       /\ held.object.cms.signedBy = held.signer
       /\ held.object.cms.type = "SECURITY" /\ held.object.cms.envelope \in Envelopes("SECURITY")
       /\ Cardinality(Signs(held.object)) = Len(held.object.mapping)
       /\ Len(held.object.mapping) = Len(held.object.lds)
  /\ held.op = "security" =>
       /\ {<<held.items[i].container, held.items[i].content>> : i \in DOMAIN held.items}
            = Signs(held.object)
       /\ Len(held.items) = Cardinality(Signs(held.object)) /\ held.object.hash /= "absent"
  /\ (Done("digest") /\ held.op = "authenticate" /\ request.item.content /= None) =>
       LET signed == {s[2] : s \in {t \in Signs(held.object) : t[1] = request.item.container}} IN
       /\ (status = "VALID") = (held.object.hash /= "absent" /\ request.item.content \in signed)
       /\ status = "INVALID" => \E d \in signed : d /= request.item.content
       /\ status = "UNAVAILABLE" => signed = {}
  /\ (Done("digest") /\ held.op /= "authenticate") => status = "ERROR"
  /\ (Done("security") /\ request.object.hash = "absent") => status /= "VALID"

\* TC_TWIC_unsigned_CHUID_validate accepts only bytes that the accepted
\* inventory holds under their container, unexpired and of this card.
UnsignedExact ==
  Done("unsigned") =>
    (status = "VALID") =
       /\ request.profile = "TWIC" /\ held.op = "security"
       /\ held.profile = "TWIC" /\ held.at = context.at
       /\ <<UnsignedId, request.object.bytes>> \in Signs(held.object)
       /\ "TWIC_UNSIGNED" \in request.object.reads
       /\ context.at \div DayLength <= request.object.expires
       /\ request.card.fascn = request.object.fascn
       /\ request.card.uuid \in {None, request.object.uuid}

\* TC_PIV_content_signer_validate and TC_PIV_CVC_validate accept exactly a
\* content signer of the profile, and a chain that verifies under it.
SignerExact ==
  (Done("signer") \/ Done("cvc")) =>
    (status = "VALID") =
       /\ GoodContext(request.profile)
       /\ GoodSigner(Certs[request.signer], request.profile, request.profile = "TWIC", 0)
       /\ request.op = "cvc" => request.chain = "VALID"
=============================================================================
