------------------------------ MODULE CardCheck -----------------------------
(***************************************************************************)
(* The composed card check: phases append entries to a report and read     *)
(* entries of earlier phases for their prerequisites; key proofs are       *)
(* appended later; an application accepts the report against a list of     *)
(* requirements (src/src/piv_card_check*.c).                               *)
(*                                                                         *)
(* An object of the inventory is its read state.  What a validator says of *)
(* an object is chosen freely when the phase runs.                         *)
(***************************************************************************)
EXTENDS Integers, Sequences, SequencesExt, FiniteSets

CONSTANTS
  Inventories,     \* complete snapshots: functions from the containers of an
                   \* application's catalog to object states
  Mandatory,       \* the mandatory containers
  Mapped,          \* the containers the Security Object maps, in order
  MaxChecks,       \* entries of a report
  Settings         \* [twic, twicPiv, contactless, whenAvailable, cvc, secured]

VARIABLES inventory, setting, phase, run

vars == <<inventory, setting, phase, run>>

Phases == <<"mandatory", "card", "chuid", "9A", "9C", "security", "biometric", "printed",
            "discovery", "messaging", "copies", "proofs", "done">>

Fresh == [result |-> "OK", report |-> <<>>, card |-> FALSE, chuid |-> FALSE, security |-> FALSE,
          valid |-> {}]

\* profile_fits and inventory_complete: the snapshot is the catalog of the
\* selected application; the TWIC application has no 9A certificate.
Init ==
  /\ inventory \in Inventories /\ setting \in Settings
  /\ setting.twic <=> "9A" \notin DOMAIN inventory
  /\ phase = 1 /\ run = Fresh

(* ---------------------------- report entries --------------------------- *)

Make(kind, container, outcome) == [kind |-> kind, container |-> container, outcome |-> outcome]

\* tc_piv_check_add: a full report aborts the check.
Add(r, c) == IF r.result /= "OK" THEN r
             ELSE IF Len(r.report) = MaxChecks THEN [r EXCEPT !.result = "LIMIT"]
             ELSE [r EXCEPT !.report = Append(@, c)]

AddAll(r, cs) == FoldLeft(Add, r, cs)

\* tc_piv_check_status and tc_piv_check_tlv: the outcome of a status.
Outcome(status) == CASE status = "VALID" -> "PASSED"
                     [] status \in {"INVALID", "REVOKED"} -> "FAILED"
                     [] OTHER -> "NOT_CHECKABLE"

\* tc_piv_check_unread: an object that was not read in full.  A contactless
\* denial by the PIV application of a TWIC card proves nothing.
Unread(state, fails) ==
  IF fails /\ (state \in {"ABSENT", "EMPTY"}
               \/ (state = "DENIED" /\ ~(setting.twicPiv /\ setting.contactless)))
  THEN "FAILED" ELSE "NOT_CHECKABLE"

Has(o) == o \in DOMAIN inventory
Present(o) == Has(o) /\ inventory[o] = "PRESENT"

\* TC_PIV_card_report_find with tc_piv_check_passed: the first entry counts.
Passed(r, kind, container) ==
  \E i \in 1..Len(r.report) :
    /\ r.report[i].kind = kind /\ r.report[i].container = container
    /\ r.report[i].outcome = "PASSED"
    /\ \A j \in 1..(i - 1) : r.report[j].kind /= kind \/ r.report[j].container /= container

(* -------------------------------- phases ------------------------------- *)

\* mandatory_objects.
MandatoryObjects(r) ==
  LET wanted == SetToSeq({o \in Mandatory : Has(o)})
  IN AddAll(r, [i \in 1..Len(wanted) |->
       Make("MANDATORY", wanted[i],
            IF Present(wanted[i]) THEN "PASSED" ELSE Unread(inventory[wanted[i]], TRUE))])

\* The card context's evidence policy.
Usable(evidence) == evidence = "COVERED" \/ (evidence = "UNCOVERED" /\ setting.whenAvailable)

\* slot_check of one certificate slot: path, revocation and identifiers.
SlotCheck(r, key, evidence, identifiers) ==
  LET three(path, revocation, ids) ==
        <<Make("PATH", key, path), Make("REVOCATION", key, revocation)>>
          \o (IF key \in {"9E", "9A"} THEN <<Make("IDENTIFIERS", key, ids)>> ELSE <<>>)
      nc == "NOT_CHECKABLE"
      rev == CASE evidence = "COVERED" -> "PASSED" [] evidence = "REVOKED" -> "FAILED" [] OTHER -> nc
      ids == IF key = "9A" /\ ~r.chuid THEN nc ELSE Outcome(identifiers)
      used == [r EXCEPT !.valid = @ \cup {key},
                        !.card = @ \/ (key = "9E" /\ ids = "PASSED")]
  IN CASE ~Has(key) -> r
       [] ~Present(key) -> AddAll(r, three(Unread(inventory[key], FALSE), nc, nc))
       [] evidence = "ERROR" -> [r EXCEPT !.result = "ERROR"]
       [] evidence = "PATH_INVALID" -> AddAll(r, three("FAILED", nc, nc))
       [] evidence = "PATH_UNKNOWN" -> AddAll(r, three(nc, nc, nc))
       [] ~Usable(evidence) -> AddAll(r, three("PASSED", rev, nc))
       [] identifiers = "ERROR" /\ key \in {"9E", "9A"} /\ (key = "9E" \/ r.chuid) ->
            [r EXCEPT !.result = "ERROR"]
       [] OTHER -> AddAll(used, three("PASSED", rev, ids))

\* signer_result: the entry of a signed object and the revocation beside it.
SignerResult(r, kind, container, status, checked) ==
  AddAll(r, <<Make(kind, container, Outcome(status)),
              Make("REVOCATION", container,
                   CASE status = "VALID" -> (IF checked THEN "PASSED" ELSE "NOT_CHECKABLE")
                     [] status = "REVOKED" -> "FAILED" [] OTHER -> "NOT_CHECKABLE")>>)

Dependent(r, kind, container) ==
  AddAll(r, <<Make(kind, container, "NOT_CHECKABLE"), Make("REVOCATION", container, "NOT_CHECKABLE")>>)

\* The CHUID is read against the identifiers of the card certificate.
CardKnown(r) == r.card

\* tc_piv_check_chuid.
Chuid(r, status, checked) ==
  CASE ~Has("CHUID") -> r
    [] ~Present("CHUID") \/ ~CardKnown(r) -> Dependent(r, "CHUID", "CHUID")
    [] status = "ERROR" -> [r EXCEPT !.result = "ERROR"]
    [] OTHER -> [SignerResult(r, "CHUID", "CHUID", status, checked) EXCEPT !.chuid = (status = "VALID")]

\* digest_check of one mapped container; the signed map proves that the
\* object exists.  A digest that is an error ends the check.
Digest(r, container, statuses) ==
  LET entry(outcome) == Add(r, Make("DIGEST", container, outcome))
  IN CASE ~r.security \/ ~Has(container) \/ (container = "PRINTED" /\ setting.twic) -> entry("NOT_CHECKABLE")
       [] ~Present(container) -> entry(Unread(inventory[container], TRUE))
       [] r.result = "OK" /\ statuses[container] = "ERROR" -> [r EXCEPT !.result = "ERROR"]
       [] OTHER -> entry(Outcome(statuses[container]))

\* digest_checks: one entry per record of the map, or one without a container
\* when there is no map to read.
Digests(r, readable, statuses) ==
  IF ~r.security /\ ~(Present("SECURITY") /\ readable) THEN Add(r, Make("DIGEST", "none", "NOT_CHECKABLE"))
  ELSE FoldLeft(LAMBDA s, c : Digest(s, c, statuses), r, Mapped)

\* tc_piv_check_security.
Security(r, status, checked, readable, statuses) ==
  CASE ~Has("SECURITY") -> r
    [] ~Present("SECURITY") \/ ~r.chuid -> Digests(Dependent(r, "SECURITY", "SECURITY"), readable, statuses)
    [] status = "ERROR" -> [r EXCEPT !.result = "ERROR"]
    [] OTHER -> Digests([SignerResult(r, "SECURITY", "SECURITY", status, checked)
                           EXCEPT !.security = (status = "VALID")], readable, statuses)

\* biometric_check, tc_piv_check_printed and tc_piv_check_discovery: one entry
\* whose object and prerequisites must be there.
One(r, kind, container, ready, status) ==
  CASE ~Has(container) -> r
    [] ~Present(container) \/ ~ready -> Add(r, Make(kind, container, "NOT_CHECKABLE"))
    [] status = "ERROR" -> [r EXCEPT !.result = "ERROR"]
    [] OTHER -> Add(r, Make(kind, container, Outcome(status)))

\* Mutant: an authenticated Security Object is enough, the digest is not
\* looked at.
IntegrityProvenByMap(r, container) == r.security

\* integrity_proven.
IntegrityProven(r, container) == r.security /\ Passed(r, "DIGEST", container)

Discovery(r, status) ==
  IF ~Has("BIT") THEN r
  ELSE One(r, "DISCOVERY", "DISCOVERY",
           /\ inventory["BIT"] \in {"PRESENT", "ABSENT", "EMPTY"}
           /\ IntegrityProven(r, "DISCOVERY")
           /\ Present("BIT") => IntegrityProven(r, "BIT"),
           status)

\* card_cvc_check: the CVC of the session that protects the link now.  The
\* certificate is another one than the session's, the suite is none of the
\* known ones, or the chain has a status.
CardCvc(r, signer, session) ==
  CASE ~(setting.cvc /\ signer /\ r.chuid /\ setting.secured) -> "NOT_CHECKABLE"
    [] session = "OTHER_PEER" -> "FAILED"
    [] session = "OTHER_SUITE" -> "NOT_CHECKABLE"
    [] session = "ERROR" -> "ERROR"
    [] OTHER -> Outcome(session)

\* tc_piv_check_secure_messaging.
Messaging(r, status, checked, session) ==
  CASE ~Has("SMSIGNER") -> r
    [] ~Present("SMSIGNER") ->
         Add(Dependent(r, "SM_SIGNER", "SMSIGNER"), Make("SM_CVC", "SMSIGNER", CardCvc(r, FALSE, session)))
    [] status = "ERROR" \/ CardCvc(r, status = "VALID", session) = "ERROR" -> [r EXCEPT !.result = "ERROR"]
    [] OTHER -> Add(SignerResult(r, "SM_SIGNER", "SMSIGNER", status, checked),
                    Make("SM_CVC", "SMSIGNER", CardCvc(r, status = "VALID", session)))

\* copy_matches: plain copies of the CHUID, each unread, equal or different.
Copies(r, copies) ==
  AddAll(r, [i \in 1..Len(copies) |->
    Make("COPY", "CHUID", IF copies[i] = "UNREAD" \/ inventory["CHUID"] \notin {"PRESENT", "EMPTY"}
                          THEN "NOT_CHECKABLE" ELSE Outcome(copies[i]))])

\* TC_PIV_card_prove_keys: 9C first, then 9E (9A is like 9C).
Prove(r, key, status) ==
  CASE key \notin r.valid -> Add(r, Make("PROOF", key, "NOT_CHECKABLE"))
    [] status = "ERROR" -> [r EXCEPT !.result = "ERROR"]
    [] OTHER -> Add(r, Make("PROOF", key, Outcome(status)))

ProveKeys(r, keys, signature, card) ==
  LET first == IF "9C" \in keys THEN Prove(r, "9C", signature) ELSE r
  IN IF "9E" \in keys /\ first.result = "OK" THEN Prove(first, "9E", card) ELSE first

(* -------------------------------- actions ------------------------------ *)

\* The path is wrong or undecided, or it is valid and revocation is without
\* evidence, undecided, clear or positive.
Evidence == {"ERROR", "PATH_INVALID", "PATH_UNKNOWN", "UNCOVERED", "UNKNOWN", "COVERED", "REVOKED"}
Statuses == {"VALID", "INVALID", "REVOKED", "UNAVAILABLE", "ERROR"}
Results == {"VALID", "INVALID", "LIMIT", "ERROR"}
Sessions == {"VALID", "INVALID", "OTHER_PEER", "OTHER_SUITE", "ERROR"}
\* A digest matches or not; at most one of them cannot be taken.
DigestStatuses ==
  {f \in [ToSet(Mapped) -> {"VALID", "INVALID", "UNSUPPORTED", "ERROR"}] :
     Cardinality({c \in ToSet(Mapped) : f[c] \in {"UNSUPPORTED", "ERROR"}}) <= 1}

\* An aborted check leaves an empty report.
Commit(r) ==
  /\ run' = IF r.result = "OK" THEN r ELSE [Fresh EXCEPT !.result = r.result]
  /\ phase' = IF r.result = "OK" THEN phase + 1 ELSE Len(Phases)
  /\ UNCHANGED <<inventory, setting>>

At(p) == Phases[phase] = p

\* TC_PIV_card_check: the phases in report order.
Next ==
  \/ At("mandatory") /\ Commit(MandatoryObjects(run))
  \/ At("card") /\ \E e \in Evidence, i \in Results : Commit(SlotCheck(run, "9E", e, i))
  \/ At("chuid") /\ \E s \in Statuses, c \in BOOLEAN : Commit(Chuid(run, s, c))
  \/ \E k \in {"9A", "9C"} : At(k) /\ \E e \in Evidence, i \in Results : Commit(SlotCheck(run, k, e, i))
  \/ At("security") /\ \E s \in Statuses, c, readable \in BOOLEAN, m \in DigestStatuses :
       (s = "VALID" => readable) /\ Commit(Security(run, s, c, readable, m))
  \/ At("biometric") /\ \E s \in Results : Commit(One(run, "BIOMETRIC", "FACE", run.chuid /\ ~setting.twic, s))
  \/ At("printed") /\ \E s \in Results :
       Commit(One(run, "PRINTED", "PRINTED",
                  run.chuid /\ Passed(run, "DIGEST", "PRINTED") /\ ~setting.twic, s))
  \/ At("discovery") /\ \E s \in Results : Commit(Discovery(run, s))
  \/ At("messaging") /\ \E s \in Statuses, c \in BOOLEAN, v \in Sessions : Commit(Messaging(run, s, c, v))
  \/ At("copies") /\ \E cs \in {<<>>, <<"INVALID">>, <<"UNREAD", "VALID">>} : Commit(Copies(run, cs))
  \/ At("proofs") /\ \E a, b \in Results, ks \in SUBSET {"9C", "9E"} :
       /\ ks /= {} /\ (setting.twic => "9C" \notin ks)
       /\ Commit(ProveKeys(run, ks, a, b))
  \/ At("done") /\ UNCHANGED vars

Spec == Init /\ [][Next]_vars

(* ------------------------------ acceptance ----------------------------- *)

Unset == "any"
KeyOf(c) == IF c.container \in {"9E", "9A", "9C"} /\ c.kind /= "MANDATORY" THEN c.container ELSE "none"

\* requirement_matches: a key or a container that is not given matches all.
RequirementMatches(q, c) ==
  c.kind = q.kind /\ q.key \in {Unset, KeyOf(c)} /\ q.container \in {Unset, c.container}

\* Mutant: the first entry of a requirement decides, as in a lookup.
AcceptsFirst(r, required) ==
  /\ required /= {}
  /\ \A q \in required : \E i \in 1..Len(r.report) :
       /\ RequirementMatches(q, r.report[i]) /\ r.report[i].outcome = "PASSED"
       /\ \A j \in 1..i - 1 : ~RequirementMatches(q, r.report[j])

\* TC_PIV_card_report_accepts: every entry a requirement names has passed,
\* and there is one; without a requirement nothing is accepted.
Accepts(r, required) ==
  /\ required /= {}
  /\ \A q \in required : /\ \E c \in ToSet(r.report) : RequirementMatches(q, c)
                         /\ \A c \in ToSet(r.report) : RequirementMatches(q, c) => c.outcome = "PASSED"

(* ------------------------------ properties ----------------------------- *)

Out(kind, container) ==
  {run.report[i].outcome : i \in {j \in 1..Len(run.report) :
     run.report[j].kind = kind /\ run.report[j].container = container}}

Holds(kind, container) == Out(kind, container) = {"PASSED"}

NotRevoked(key) == Holds("REVOCATION", key) \/
                   (setting.whenAvailable /\ Out("REVOCATION", key) = {"NOT_CHECKABLE"})

\* Every entry that passed rests on entries that passed: the CHUID on the
\* card certificate, the Security Object on the CHUID, a digest on the
\* Security Object, the printed date and the discovery object on their
\* digests, the session's certificate on its signer, a key proof on the path
\* and the revocation status of its certificate.
PassedIsGrounded ==
  \A c \in ToSet(run.report) : c.outcome = "PASSED" =>
    CASE c.kind = "IDENTIFIERS" -> Holds("PATH", c.container) /\ NotRevoked(c.container)
                                     /\ (c.container = "9A" => Holds("CHUID", "CHUID"))
      [] c.kind = "CHUID" -> Holds("IDENTIFIERS", "9E")
      [] c.kind \in {"SECURITY", "BIOMETRIC"} -> Holds("CHUID", "CHUID")
      [] c.kind = "DIGEST" -> Holds("SECURITY", "SECURITY") /\ Present(c.container)
      [] c.kind = "PRINTED" -> Holds("DIGEST", "PRINTED") /\ Holds("CHUID", "CHUID")
      [] c.kind = "DISCOVERY" -> Holds("DIGEST", "DISCOVERY") /\ (Present("BIT") => Holds("DIGEST", "BIT"))
      [] c.kind = "SM_CVC" -> Holds("SM_SIGNER", "SMSIGNER") /\ Holds("CHUID", "CHUID") /\ setting.secured
      [] c.kind = "PROOF" -> Holds("PATH", c.container) /\ NotRevoked(c.container)
      [] OTHER -> TRUE

\* A mandatory object passes only when it was read.  One that is absent or
\* empty fails, and so does one the card denies, except that a contactless
\* denial by the PIV application of a TWIC card proves nothing; one that could
\* not be read for another reason is left undecided.
MandatoryJudged ==
  phase > 1 /\ run.result = "OK" =>
    \A o \in Mandatory \cap DOMAIN inventory :
      /\ Holds("MANDATORY", o) <=> inventory[o] = "PRESENT"
      /\ inventory[o] \in {"ABSENT", "EMPTY"} => Out("MANDATORY", o) = {"FAILED"}
      /\ inventory[o] = "DENIED" =>
           ("FAILED" \in Out("MANDATORY", o) <=> ~(setting.twicPiv /\ setting.contactless))
      /\ inventory[o] \in {"RESTRICTED", "SKIPPED"} => Out("MANDATORY", o) = {"NOT_CHECKABLE"}

Require(kind, key, container) == [kind |-> kind, key |-> key, container |-> container]

\* An application that requires the proof of the card key, the CHUID and its
\* mandatory object accepts only a card that has all of it; an aborted check
\* is never accepted.  A requirement that names no container holds of every
\* entry of its kind: one revoked, unread or differing object among several is
\* not hidden behind the others.
AcceptedCard ==
  /\ Accepts(run, {Require("PROOF", "9E", Unset), Require("CHUID", Unset, "CHUID"),
                   Require("MANDATORY", Unset, "CHUID")}) =>
       /\ run.result = "OK" /\ Present("9E") /\ Present("CHUID")
       /\ Holds("PATH", "9E") /\ Holds("IDENTIFIERS", "9E") /\ NotRevoked("9E")
       /\ "9E" \in run.valid /\ run.card /\ run.chuid /\ Out("PROOF", "9E") = {"PASSED"}
  /\ \A kind \in {"COPY", "REVOCATION", "DIGEST"} : Accepts(run, {Require(kind, Unset, Unset)}) =>
       \A c \in ToSet(run.report) : c.kind = kind => c.outcome = "PASSED" /\ (kind = "COPY" \/ Present(c.container))

\* The report never holds more entries than the caller's structure.
ReportBounded == Len(run.report) <= MaxChecks /\ (run.result /= "OK" => run.report = <<>>)
=============================================================================
