---------------------------- MODULE TrustAnchor ----------------------------
(***************************************************************************)
(* Trust anchor records (x509_trust_anchor.c, x509_store_anchor.c) and the *)
(* check the path validator makes of them (x509_path.c).  A list reader    *)
(* turns RFC 5914 choices into records; the application may change a       *)
(* record before it validates with it.  Values are abstracted to their     *)
(* origin: 1 a certificate's own control, 2 one of CertPathControls.       *)
(***************************************************************************)
EXTENDS Integers, Sequences, FiniteSets

CONSTANTS
  PathLengths,    \* pathLenConstraint values that occur
  None            \* an absent length; above every value of PathLengths

VARIABLES
  list, position,     \* the TrustAnchorList and its reader
  out, source,        \* the caller's record, and the choice it was read from
  edited,             \* the application changed the record
  reply, verdict

vars == <<list, position, out, source, edited, reply, verdict>>

Flags == {"EXPLICIT", "MAPPING", "ANY"}
Controls == {"POLICIES", "FLAGS", "NAMES", "LENGTH"}

(* What an anchor certificate and a TrustAnchorInfo can say.               *)
Plain == [policies |-> 0, flags |-> {}, names |-> 0, length |-> None, usage |-> "NONE",
          unknown |-> FALSE, ordered |-> TRUE]
Certificates ==
  {[Plain EXCEPT !.policies = p, !.flags = f, !.names = n, !.length = l] :
     p \in {0, 1}, f \in {{}, {"EXPLICIT"}, {"MAPPING", "ANY"}}, n \in {0, 1}, l \in PathLengths \cup {None}}
  \cup {[Plain EXCEPT !.usage = u] : u \in {"SIGN", "CRL", "OTHER", "VERSION1"}}
  \cup {[Plain EXCEPT !.unknown = TRUE], [Plain EXCEPT !.ordered = FALSE]}
NoControls == [present |-> FALSE]
PathControls ==
  {NoControls} \cup
  [present : {TRUE}, cert : BOOLEAN, matches : {TRUE}, policies : {0, 2},
   flags : {<<>>, <<{}>>, <<{"EXPLICIT"}>>}, names : {0, 2}, length : PathLengths \cup {None}]
  \cup {[present |-> TRUE, cert |-> TRUE, matches |-> FALSE, policies |-> 0, flags |-> <<>>,
         names |-> 0, length |-> None]}
Exts == {[length |-> l, names |-> n, unknown |-> u] :
           l \in PathLengths \cup {None}, n \in {0}, u \in {FALSE}}
          \cup {[length |-> None, names |-> 2, unknown |-> FALSE], [length |-> None, names |-> 0, unknown |-> TRUE]}
Choices ==
  [kind : {"CERT"}, cert : Certificates]
    \cup [kind : {"INFO"}, cert : {c \in Certificates : c.usage = "NONE"}, path : PathControls, exts : Exts]

(* TC_X509_store_anchor; the extension lists it keeps are the ones of      *)
(* source, certified says whether there is an anchor certificate.          *)
Empty == [policies |-> 0, flags |-> {}, names |-> 0, length |-> None, usage |-> {},
          replaced |-> {}, certified |-> FALSE, unusable |-> FALSE]

Ok(r) == [status |-> "OK", record |-> r]
Bad(s) == [status |-> s, record |-> Empty]

\* tc_x509_anchor_certificate with tc_x509_anchor_extensions.
FromCertificate(c) ==
  IF ~c.ordered \/ c.usage = "OTHER" THEN Bad("INVALID")
  ELSE Ok([Empty EXCEPT !.policies = c.policies, !.flags = c.flags, !.names = c.names,
             !.length = c.length, !.usage = IF c.usage \in {"CRL", "VERSION1"} THEN {"CRL"} ELSE {}, !.certified = TRUE])

\* Mutant: policyFlags add to the flags of the certificate.
PathFlagsAdded(p, r) ==
  IF p.flags = <<>> THEN Ok(r)
  ELSE IF r.policies = 0 /\ "EXPLICIT" \in p.flags[1] THEN Bad("INVALID")
  ELSE Ok([r EXCEPT !.flags = @ \cup p.flags[1], !.replaced = @ \cup {"FLAGS"}])

\* policyFlags [2], behind the certificate and policySet.
PathFlags(p, r) ==
  IF p.flags = <<>> THEN Ok(r)
  ELSE IF r.policies = 0 /\ "EXPLICIT" \in p.flags[1] THEN Bad("INVALID")
  ELSE Ok([r EXCEPT !.flags = p.flags[1], !.replaced = @ \cup {"FLAGS"}])

\* cert_path_controls: the fields in their DER order, each replacing what the
\* embedded certificate set before it.
CertPathControls(p, cert) ==
  LET embedded == IF p.cert THEN FromCertificate(cert) ELSE Ok(Empty)
      first == embedded.record
      second == IF p.policies = 0 THEN first
                ELSE [first EXCEPT !.policies = p.policies, !.replaced = @ \cup {"POLICIES"}]
      third == PathFlags(p, second)
      fourth == IF p.names = 0 THEN third.record
                ELSE [third.record EXCEPT !.names = p.names, !.replaced = @ \cup {"NAMES"}]
  IN  IF embedded.status # "OK" THEN embedded
      ELSE IF p.cert /\ ~p.matches THEN Bad("INVALID")
      ELSE IF third.status # "OK" THEN third
      ELSE Ok(IF p.length = None THEN fourth
              ELSE [fourth EXCEPT !.length = p.length, !.replaced = @ \cup {"LENGTH"}])

\* Mutant: the length of CertPathControls wins over a shorter one of exts.
WithExtsLosing(e, r) == IF r.length = None THEN [r EXCEPT !.length = e.length] ELSE r

\* exts [1]: the duplicates of the policy and name controls are passed over,
\* a path length can only lower the one there is.
WithExts(e, r) ==
  IF e.length # None /\ e.length < r.length THEN [r EXCEPT !.length = e.length] ELSE r

\* trust_anchor_info.
FromInfo(i) ==
  LET path == IF i.path.present THEN CertPathControls(i.path, i.cert)
              ELSE Ok([Empty EXCEPT !.unusable = TRUE])
  IN  IF path.status # "OK" THEN path ELSE Ok(WithExts(i.exts, path.record))

Read(choice) == IF choice.kind = "CERT" THEN FromCertificate(choice.cert) ELSE FromInfo(choice)

NoChoice == [kind |-> "NOTHING"]
Init ==
  /\ list \in {<<c>> : c \in Choices} \cup {<<[kind |-> "CERT", cert |-> Plain], [kind |-> "CERT", cert |-> [Plain EXCEPT !.usage = u]]>> : u \in {"CRL", "OTHER"}}
  /\ position = 1 /\ out = Empty /\ source = NoChoice
  /\ edited = FALSE /\ reply = "NONE" /\ verdict = "NONE"

\* Mutant: the reader passes over an anchor it refuses.
ListNextSkip ==
  /\ UNCHANGED list /\ verdict' = "NONE"
  /\ IF position > Len(list)
     THEN reply' = "END" /\ UNCHANGED <<position, out, source, edited>>
     ELSE LET r == Read(list[position]) IN
          /\ reply' = r.status /\ position' = position + 1
          /\ out' = r.record /\ source' = list[position] /\ edited' = FALSE

\* TC_X509_trust_anchor_next: the record and the reader move together, and
\* only for an anchor that was read completely.
ListNext ==
  /\ UNCHANGED list /\ verdict' = "NONE"
  /\ IF position > Len(list)
     THEN reply' = "END" /\ UNCHANGED <<position, out, source, edited>>
     ELSE LET r == Read(list[position]) IN
          /\ reply' = r.status
          /\ IF r.status = "OK"
             THEN position' = position + 1 /\ out' = r.record /\ source' = list[position] /\ edited' = FALSE
             ELSE UNCHANGED <<position, out, source, edited>>

\* TC_X509_store_anchor_from_certificate: a refused certificate leaves an
\* empty record.
BuildRecord ==
  /\ source = NoChoice /\ list[1].kind = "CERT"
  /\ LET r == FromCertificate(list[1].cert) IN
     /\ reply' = r.status /\ out' = r.record
     /\ source' = IF r.status = "OK" THEN list[1] ELSE NoChoice
  /\ edited' = FALSE /\ verdict' = "NONE" /\ UNCHANGED <<list, position>>

\* The application loses or relaxes one control of the record.
Edit ==
  /\ source # NoChoice /\ ~edited /\ edited' = TRUE
  /\ out' \in {[out EXCEPT !.policies = 0], [out EXCEPT !.flags = {}], [out EXCEPT !.names = 0],
               [out EXCEPT !.length = None]} \cup {[out EXCEPT !.length = l] : l \in PathLengths}
  /\ verdict' = "NONE" /\ UNCHANGED <<list, position, source, reply>>

HasCertificate(choice) == choice.kind = "CERT" \/ (choice.path.present /\ choice.path.cert)

\* anchor_control_applied over the certificate's extensions.
Applied(r, c) ==
  /\ "NAMES" \in r.replaced \/ c.names = 0 \/ r.names # 0
  /\ "POLICIES" \in r.replaced \/ c.policies = 0 \/ r.policies # 0
  /\ "FLAGS" \in r.replaced \/ c.flags \subseteq r.flags
  /\ "LENGTH" \in r.replaced \/ c.length = None \/ r.length # None

\* anchor_extensions_check over exts: only a path length is left to check.
ExtsApplied(r, e) == e.length = None \/ r.length <= e.length

\* anchor_extensions_check of both lists.
AnchorRefused ==
  \/ source.kind = "INFO" /\ (source.exts.unknown \/ ~ExtsApplied(out, source.exts))
  \/ HasCertificate(source) /\ (source.cert.unknown \/ ~Applied(out, source.cert))

\* path_anchor_check at the start of a validation.
Validate ==
  /\ source # NoChoice /\ verdict = "NONE"
  /\ verdict' = IF out.unusable THEN "INVALID" ELSE IF AnchorRefused THEN "UNSUPPORTED" ELSE "VALID"
  /\ UNCHANGED <<list, position, out, source, edited, reply>>

Next == ListNext \/ BuildRecord \/ Edit \/ Validate

Spec == Init /\ [][Next]_vars

\* The record is one that a complete anchor of the list produced, up to the
\* application's change, and a refused anchor blocks the reader.
TypeOK ==
  /\ position \in 1 .. Len(list) + 1
  /\ out.replaced \subseteq Controls /\ out.flags \subseteq Flags
  /\ reply \in {"NONE", "OK", "INVALID", "END"}
  /\ position > 1 => source # NoChoice /\ Read(list[position - 1]).status = "OK"

(* Reference (RFC 5914 section 2.5, RFC 5937): CertPathControls wins over  *)
(* the certificate, exts can only shorten paths.                           *)
Wins(choice, field, absent) ==
  IF choice.kind = "INFO" /\ choice.path.present /\ choice.path[field] # absent THEN choice.path[field]
  ELSE IF HasCertificate(choice) THEN choice.cert[field] ELSE absent
Least(S) == CHOOSE x \in S : \A y \in S : x <= y
RefFlags(choice) ==
  IF choice.kind = "INFO" /\ choice.path.present /\ choice.path.flags # <<>> THEN choice.path.flags[1]
  ELSE IF HasCertificate(choice) THEN choice.cert.flags ELSE {}
RefLength(choice) ==
  Least({Wins(choice, "length", None)} \cup (IF choice.kind = "INFO" THEN {choice.exts.length} ELSE {}))

\* A record nobody changed holds exactly the controls RFC 5914 gives the
\* anchor it was read from.
RecordExact ==
  (source # NoChoice /\ ~edited) =>
    /\ out.policies = Wins(source, "policies", 0) /\ out.names = Wins(source, "names", 0)
    /\ out.flags = RefFlags(source) /\ out.length = RefLength(source)
    /\ out.usage = {"CRL"} <=> HasCertificate(source) /\ source.cert.usage \in {"CRL", "VERSION1"}

\* The validator turns down a record the reader made only for an extension
\* it does not know.
ReaderRecordsAccepted ==
  (verdict = "UNSUPPORTED" /\ ~edited) =>
    \/ source.kind = "INFO" /\ source.exts.unknown
    \/ HasCertificate(source) /\ source.cert.unknown

\* A control of the anchor certificate that nothing replaced is never lost:
\* validation does not start on a record that holds nothing for it.
NothingDropped ==
  verdict = "VALID" =>
    /\ HasCertificate(source) =>
         LET c == source.cert
             free(field, absent) == source.kind = "CERT" \/ source.path[field] = absent
         IN  /\ free("policies", 0) /\ c.policies # 0 => out.policies # 0
             /\ free("names", 0) /\ c.names # 0 => out.names # 0
             /\ free("flags", <<>>) => c.flags \subseteq out.flags
             /\ free("length", None) /\ c.length # None => out.length # None
    /\ source.kind = "INFO" => out.length <= source.exts.length

=============================================================================
