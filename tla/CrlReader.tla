------------------------------ MODULE CrlReader -----------------------------
(***************************************************************************)
(* The decoders of a CRL and of its extensions (src/src/x509_crl.c,        *)
(* x509_crl_extensions.c, pki_extensions_internal.h,                       *)
(* pki_distribution_internal.h): one element is read per step, and what is *)
(* accepted is compared with the encodings of RFC 5280 values.  An item is *)
(* an element: its tag or identifier, whether its contents decode, and the *)
(* critical flag of an extension.                                          *)
(*                                                                         *)
(* Whether a CRL covers a certificate, and for which reasons               *)
(* (x509_crl_extensions.c:52-304), and the index of CRLs and their content *)
(* comparison (x509_crl.c:15-144).  A directory name has a case ("A" and   *)
(* "a" compare equal but are encoded differently); a relative name is a    *)
(* suffix appended to an issuer.                                           *)
(*                                                                         *)
(* Choosing the effective CRL of one scope and reading its answer          *)
(* (x509_crl_delta.c, x509_crl_selected.c, x509_crl_evidence.c).  An index *)
(* holds complete and delta CRLs in any order.  Under one signer the code  *)
(* pairs every usable complete CRL with its newest delta, ranks the pairs  *)
(* by number or by date, and applies the newest; records that tie must     *)
(* agree.  The code scans the index with cursors and early returns; the    *)
(* reference is stated over sets of records.  A record keeps its number,   *)
(* base number, date, freshness, the verdict on its signature and its      *)
(* entry for the certificate asked about.  Equal contents are equal        *)
(* records.  The lookup of the entry (x509_crl_entries) and the bytes      *)
(* behind names and numbers are abstracted.                                *)
(***************************************************************************)
EXTENDS Integers, Sequences, FiniteSets, SequencesExt, FiniteSetsExt

CONSTANTS
  Capacity,          \* extension_capacity of the workspace
  Records,           \* capacity of the index
  Complete, Deltas,  \* the records a selection may find in the index
  MaxRecords,
  Reasons            \* the revocation reasons; all of them make GOOD

VARIABLES
  job,           \* what is read, compared, indexed or selected
  pos, right,    \* the element read next; the second cursor of a comparison
  acc,           \* what was read so far; of a selection, the records indexed
  status, out

vars == <<job, pos, right, acc, status, out>>

Tags(items) == [i \in 1..Len(items) |-> items[i].tag]

(* -------------------------------- layout -------------------------------- *)

TagAt(items, i) == IF i <= Len(items) THEN items[i].tag ELSE "end"

\* Mutant: extensions are accepted in a version 1 CRL.
LayoutV1(items) ==
  LET version == IF TagAt(items, 1) = "int" THEN 1 ELSE 0
      next == IF TagAt(items, version + 4) = "time" THEN 1 ELSE 0
      revoked == IF TagAt(items, version + 4 + next) = "seq" THEN 1 ELSE 0
      rest == version + 4 + next + revoked
  IN /\ TagAt(items, version + 1) = "seq" /\ TagAt(items, version + 2) = "seq" /\ TagAt(items, version + 3) = "time"
     /\ rest <= Len(items) => rest = Len(items) /\ items[rest].tag = "a0"

\* tc_x509_crl_source_layout on the fields of a TBSCertList.
Layout(items) ==
  LET version == IF TagAt(items, 1) = "int" THEN 1 ELSE 0
      next == IF TagAt(items, version + 4) = "time" THEN 1 ELSE 0
      revoked == IF TagAt(items, version + 4 + next) = "seq" THEN 1 ELSE 0
      rest == version + 4 + next + revoked
  IN /\ TagAt(items, version + 1) = "seq" /\ TagAt(items, version + 2) = "seq" /\ TagAt(items, version + 3) = "time"
     /\ rest <= Len(items) => rest = Len(items) /\ items[rest].tag = "a0" /\ version = 1

\* tc_x509_crl_metadata_read: the contents of every located field decode (a
\* version is 1, the algorithms agree, the issuer is not empty).
Metadata(items) == \A i \in 1..Len(items) : items[i].good

(* ------------------------------- extensions ----------------------------- *)

CrlFlags == {"number", "delta", "authority", "idp", "freshest", "issuer_alt"}
EntryFlags == {"reason", "invalidity", "issuer"}
MustBeCritical == {"delta", "idp"}
MustBeNoncritical == {"number", "freshest"}

Empty == [present |-> {}, critical |-> {}, unknown |-> "none", fields |-> {}, previous |-> 0]

\* crl_extension_note: flags of the scope, or the first unknown critical OID.
Note(a, x, flags) ==
  IF x.tag \notin flags
  THEN IF x.critical /\ a.unknown = "none" THEN [a EXCEPT !.unknown = x.tag] ELSE a
  ELSE [a EXCEPT !.present = @ \union {x.tag}, !.critical = IF x.critical THEN @ \union {x.tag} ELSE @]

\* tc_x509_crl_extension_policy
ExtensionPolicy(a) ==
  IF a.unknown /= "none" THEN "UNSUPPORTED"
  ELSE IF \/ a.critical \intersect MustBeNoncritical /= {}
          \/ a.present \intersect MustBeCritical /= a.critical \intersect MustBeCritical
          \/ {"delta", "freshest"} \subseteq a.present THEN "INVALID"
  ELSE "OK"

\* tc_x509_crl_entry_policy; context holds what the CRL's extensions say.
EntryPolicy(context, a) ==
  IF a.unknown /= "none" THEN "UNSUPPORTED"
  ELSE IF a.critical \intersect {"reason", "invalidity"} /= {} THEN "INVALID"
  ELSE IF "issuer" \in a.present /\ ("issuer" \notin a.critical \/ "indirect" \notin context) THEN "INVALID"
  ELSE IF "remove" \in a.fields /\ "delta" \notin context THEN "INVALID"
  ELSE "OK"

(* --------------------------- distribution points ------------------------ *)

\* Context tags in their order; any other tag shares number 2 here.
IdpField(tag) ==
  CASE tag = "name" -> 1 [] tag = "user" -> 2 [] tag = "ca" -> 3 [] tag = "reasons" -> 4
    [] tag = "indirect" -> 5 [] tag = "attribute" -> 6 [] OTHER -> 2

PointField(tag) == CASE tag = "name" -> 1 [] tag = "reasons" -> 2 [] tag = "issuer" -> 3 [] OTHER -> 2

IdpTags == {"name", "user", "ca", "reasons", "indirect", "attribute"}
Only == {"user", "ca", "attribute"}
PointTags == {"name", "reasons", "issuer"}

(* -------------------------------- coverage ------------------------------ *)

NoName == [kind |-> "none", names |-> <<>>, suffix |-> "none"]
Full(names) == [kind |-> "full", names |-> names, suffix |-> "none"]
Relative(suffix) == [kind |-> "relative", names |-> <<>>, suffix |-> suffix]
Dir(dn) == [type |-> "dir", value |-> dn, suffix |-> "none"]
Uri(v) == [type |-> "uri", value |-> v, suffix |-> "none"]

(* The inputs.  A cRLIssuer that is not one directory name appears once: it *)
(* is refused before names are compared.                                    *)
Names == {NoName, Full(<<Dir("a")>>), Full(<<Uri("u"), Dir("B")>>), Full(<<Dir("A"), Uri("v")>>), Relative("r")}
NoIdp == [present |-> FALSE, name |-> NoName, only |-> "none", indirect |-> FALSE, reasons |-> {}]

Crls ==
  {[issuer |-> i, idp |-> NoIdp] : i \in {"A", "B"}}
    \union [issuer : {"A", "B"}, idp : [present : {TRUE}, name : Names, only : {"none", "user", "ca", "attribute"},
                                        indirect : BOOLEAN, reasons : {{}, {"r1", "r2"}}]]

Points ==
  [name : Names, issuer : {<<>>, <<Dir("A")>>, <<Dir("a")>>, <<Dir("B")>>}, reasons : {{}, {"r2"}}]
    \union {[name |-> NoName, issuer |-> <<Uri("u")>>, reasons |-> {}]}

Fresh == {"CURRENT", "STALE", "UNSUPPORTED"}
Issuers == {"A", "b"}
AllReasons == {"r1", "r2", "r3"}

Encoded == [content : {"x", "y"}, read : {"OK"}, policy : {"OK", "INVALID"}, hash : {"none", "h1", "h2", "disabled", "unknown"}]
Broken == [content : {"x"}, read : {"INVALID", "UNSUPPORTED"}, policy : {"OK"}, hash : {"none"}]
Lists == {<<>>} \union {<<a>> : a \in Encoded} \union {<<a, b>> : a \in Encoded, b \in Encoded \union Broken}
             \union {<<a, a, b>> : a \in Encoded, b \in Broken}

Fold(dn) == CASE dn = "a" -> "A" [] dn = "b" -> "B" [] OTHER -> dn

\* TC_X509_name_equal and tc_pki_name_appended_equal; other names compare by
\* their encoding.
SameName(x, y) ==
  x.type = y.type /\ (IF x.type = "dir" THEN Fold(x.value) = Fold(y.value) /\ x.suffix = y.suffix ELSE x.value = y.value)

\* tc_pki_distribution_issuer_name: exactly one directory name.
IssuerName(names) == IF Len(names) = 1 /\ names[1].type = "dir" THEN names[1].value ELSE "invalid"

Excluded(idp, ca) ==
  idp.present /\ (idp.only = "attribute" \/ (idp.only = "user" /\ ca) \/ (idp.only = "ca" /\ ~ca))

\* tc_x509_crl_issuer_matches
IssuerMatches(crl, point, issuer) ==
  IF point.issuer = <<>> THEN [status |-> "OK", matched |-> Fold(issuer) = Fold(crl.issuer)]
  ELSE IF IssuerName(point.issuer) = "invalid" THEN [status |-> "INVALID", matched |-> FALSE]
  ELSE [status |-> "OK",
        matched |-> crl.idp.present /\ crl.idp.indirect /\ IssuerName(point.issuer) = crl.issuer]

\* distribution_cursor_init and _next as the list of identities they produce.
Identities(name, base) ==
  IF name.kind = "relative" THEN <<[type |-> "dir", value |-> base, suffix |-> name.suffix]>> ELSE name.names

\* The right-hand list of tc_x509_crl_name_matches.
PointIdentities(point, issuer) ==
  IF point.name.kind = "none" /\ point.issuer = <<>> THEN <<Dir(issuer)>>
  ELSE IF point.name.kind = "none" THEN point.issuer
  ELSE Identities(point.name, IF point.name.kind = "relative" /\ point.issuer /= <<>> THEN IssuerName(point.issuer) ELSE issuer)

\* tc_x509_crl_content_equal; hash is "none" for a CRL that is not prepared.
\* A prepared CRL keeps the digest of its content under one hash.
ContentEqual(x, y) ==
  LET p == IF x.hash = "none" THEN y ELSE x
      q == IF x.hash = "none" THEN x ELSE y
  IN IF p.hash = "none" THEN [status |-> "OK", equal |-> x.content = y.content]
     ELSE IF p.hash = "unknown" \/ (q.hash /= "none" /\ q.hash /= p.hash) \/ (q.hash = "none" /\ p.hash = "disabled")
       THEN [status |-> "UNSUPPORTED", equal |-> FALSE]
     ELSE [status |-> "OK", equal |-> p.content = q.content]

(* ---------------------------------- jobs -------------------------------- *)

(* The inputs: every sequence of tags of up to six fields, with at most one *)
(* item of an encoding spoiled; every list of at most three extensions.     *)
Optional(t) == {<<>>, <<t>>}

\* TBSCertList of RFC 5280 section 5.1 with its version rule for extensions.
TbsGrammar ==
  {v \o <<"seq", "seq", "time">> \o n \o r : v \in Optional("int"), n \in Optional("time"), r \in Optional("seq")}
    \union {<<"int", "seq", "seq", "time">> \o n \o r \o <<"a0">> : n \in Optional("time"), r \in Optional("seq")}

\* DER of every IssuingDistributionPoint value with at most one scope
\* restriction, and of every DistributionPoint.
IdpEncodings ==
  {n \o u \o r \o i : n \in Optional("name"), u \in {<<>>, <<"user">>, <<"ca">>}, r \in Optional("reasons"), i \in Optional("indirect")}
    \union {n \o r \o i \o <<"attribute">> : n \in Optional("name"), r \in Optional("reasons"), i \in Optional("indirect")}

Seqs(tags, n) == UNION {[1..k -> tags] : k \in 0..n}
Good(s) == [i \in 1..Len(s) |-> [tag |-> s[i], good |-> TRUE, critical |-> FALSE]]
Spoiled(s) == {Good(s)} \union {[Good(s) EXCEPT ![i].good = FALSE] : i \in 1..Len(s)}

Job(kind, items) == [kind |-> kind, items |-> items, version |-> 2, context |-> {}]

ItemLists(tags, n) == Seqs([tag : tags, good : {TRUE}, critical : BOOLEAN], n)

Jobs ==
  {Job("layout", Good(s)) : s \in Seqs({"int", "seq", "time", "a0"}, 6)}
    \union UNION {{Job("layout", x) : x \in Spoiled(s)} : s \in TbsGrammar}
    \union UNION {{Job("idp", x) : x \in Spoiled(s)} : s \in Seqs(IdpTags \union {"other"}, 3) \union IdpEncodings}
    \union UNION {{Job(k, x) : x \in Spoiled(s), k \in {"point", "freshest"}} : s \in Seqs(PointTags \union {"other"}, 4)}
    \union {Job("crl_extensions", x) : x \in ItemLists(CrlFlags \union {"u1"}, 3)}
    \union {[Job("entry_extensions", x) EXCEPT !.context = c] :
              x \in ItemLists({"reason", "remove", "invalidity", "issuer", "u1"}, 3), c \in SUBSET {"delta", "indirect"}}
    \union {Job("crl_extensions", x) : x \in Spoiled(<<"number", "u1">>) \union {Good(<<"number", "u1", "idp", "delta">>)}}
    \union UNION {{[Job("entries", x) EXCEPT !.version = v] : x \in Spoiled(s), v \in {1, 2}} : s \in Seqs({"bare", "extended"}, 3)}

(* ------------------------------- selection ------------------------------ *)

None == 0

\* A selection: the indexed records in source order, COMPLETE_ONLY,
\* DELTA_IF_AVAILABLE or DELTA_REQUIRED, ORDER_NUMBER or ORDER_THIS_UPDATE, the
\* reasons this scope covers for the query and those that earlier scopes have
\* settled, and what tc_x509_crl_scope_evaluate returns.
index == acc
policy == job.policy
ordering == job.ordering
covered == job.covered
prior == job.prior
outcome == out

Selections ==
  {s \in [kind : {"select"}, policy : {"COMPLETE_ONLY", "DELTA_IF_AVAILABLE", "DELTA_REQUIRED"},
          ordering : {"ORDER_NUMBER", "ORDER_THIS_UPDATE"},
          covered : {{Min(Reasons)}, Reasons}, prior : {{}, {Min(Reasons)}}] :
     s.covered = Reasons \/ s.prior /= {}}

Pending == [result |-> "PENDING", reasons |-> {}, entry |-> "none"]
Returned(result) == [Pending EXCEPT !.result = result]

\* tc_x509_crl_delta_compatible: same scope and authority, and a base number
\* in the range the delta applies to.
Compatible(b, d) ==
  /\ b.number /= None /\ d.number /= None
  /\ b.kin = d.kin
  /\ b.number >= d.baseNumber
  /\ b.number < d.number

\* One candidate of tc_x509_crl_delta_select: stale and badly signed deltas
\* are passed over, a higher number supersedes, an equal number with other
\* contents is a conflict that a still higher number lifts.
DeltaStep(best, j, b) ==
  LET d == index[j] IN
  IF best.result /= "OK" \/ ~d.delta \/ ~Compatible(b, d) \/ d.fresh /= "CURRENT"
     \/ d.signature = "bad"
  THEN best
  ELSE IF d.signature = "unsupported" THEN [best EXCEPT !.result = "UNSUPPORTED"]
  ELSE IF best.delta = None \/ d.number > index[best.delta].number
       THEN [best EXCEPT !.delta = j, !.conflict = FALSE]
  ELSE IF d.number < index[best.delta].number \/ d = index[best.delta] THEN best
  ELSE [best EXCEPT !.conflict = TRUE,
                   !.delta = IF d.update > index[@].update THEN j ELSE @]

DeltaSelect(b) ==
  FoldLeft(LAMBDA best, j : DeltaStep(best, j, index[b]),
           [result |-> "OK", delta |-> None, conflict |-> FALSE],
           [j \in 1..Len(index) |-> j])

Pair(result, b, d, conflict) == [result |-> result, base |-> b, delta |-> d, conflict |-> conflict]

Skipped == Pair("END", None, None, FALSE)

\* A complete CRL without a usable delta counts only while it is current and
\* the caller does not insist on deltas.
WithoutDelta(b) ==
  IF policy = "DELTA_REQUIRED" \/ index[b].fresh /= "CURRENT" THEN Skipped
  ELSE Pair("OK", b, None, FALSE)

\* Mutant: the signature of a complete CRL is taken for granted.
EffectiveUnsigned(i) ==
  LET b == index[i] IN
  IF b.delta \/ b.kin /= "same" \/ b.fresh /= "CURRENT" THEN Skipped ELSE Pair("OK", i, None, FALSE)

\* tc_x509_crl_effective_next for record i: the pair it gives, or END.
Effective(i) ==
  LET b == index[i] IN
  IF b.delta \/ b.kin /= "same" \/ b.fresh = "FUTURE"
     \/ (policy = "COMPLETE_ONLY" /\ b.fresh /= "CURRENT") \/ b.signature = "bad"
  THEN Skipped
  ELSE IF b.signature = "unsupported" THEN Pair("UNSUPPORTED", i, None, FALSE)
  ELSE IF policy = "COMPLETE_ONLY" THEN Pair("OK", i, None, FALSE)
  ELSE LET d == DeltaSelect(i) IN
       CASE d.result /= "OK" -> Pair(d.result, i, None, FALSE)
         [] d.result = "OK" /\ d.delta = None -> WithoutDelta(i)
         [] OTHER -> Pair("OK", i, d.delta, d.conflict)

Current(p) == index[IF p.delta = None THEN p.base ELSE p.delta]

\* x509_crl_order: what a pair is ranked by; None cannot be ranked.
Rank(p) == IF ordering = "ORDER_NUMBER" THEN Current(p).number ELSE Current(p).update

\* Mutant: a record that cannot be verified is passed over.
LatestStepSkips(best, p) ==
  CASE p.result /= "OK" -> best
    [] p.result = "OK" /\ Rank(p) = None -> best
    [] OTHER -> IF best.result = "END" \/ Rank(p) > Rank(best) THEN p ELSE best

\* tc_x509_crl_latest: the first pair of the highest rank; conflicts of tied
\* pairs are kept, those of lower ones are dropped.
LatestStep(best, p) ==
  CASE best.result \notin {"OK", "END"} -> best
    [] best.result \in {"OK", "END"} /\ p.result = "END" -> best
    [] best.result \in {"OK", "END"} /\ p.result \notin {"OK", "END"} -> p
    [] best.result \in {"OK", "END"} /\ p.result = "OK" ->
         IF Rank(p) = None THEN Pair("UNSUPPORTED", None, None, FALSE)
         ELSE IF best.result = "END" \/ Rank(p) > Rank(best) THEN p
         ELSE IF Rank(p) = Rank(best) THEN [best EXCEPT !.conflict = @ \/ p.conflict]
         ELSE best

\* tc_x509_crl_combine of the two lookups: the delta's entry wins, and
\* removeFromCRL clears the base's.
Combine(b, d) ==
  LET e == IF d /= None /\ index[d].entry /= "none" THEN index[d].entry ELSE index[b].entry
  IN IF e = "remove" THEN "none" ELSE e

Evidence(p) == [entry |-> Combine(p.base, p.delta), update |-> Current(p).update]

\* Tied pairs must agree on date and answer.
Agree(tied) == \A p, q \in tied : Evidence(p) = Evidence(q)

\* Only reasons that are not settled yet contribute.
Contributes == covered \ prior /= {}

\* tc_x509_crl_scope_evaluate.
ScopeEvaluate ==
  LET pairs == [i \in 1..Len(index) |-> Effective(i)]
      latest == FoldLeft(LatestStep, Skipped, pairs)
      tied == {p \in {pairs[i] : i \in 1..Len(index)} : p.result = "OK" /\ Rank(p) = Rank(latest)}
  IN CASE latest.result /= "OK" -> Returned(latest.result)
       [] latest.result = "OK" /\ latest.conflict -> Returned("INVALID")
       [] latest.result = "OK" /\ ~latest.conflict /\ covered = {} -> Returned("END")
       [] OTHER ->
            IF ~Agree(tied) THEN Returned("INVALID")
            ELSE IF ~Contributes THEN Returned("END")
            ELSE [result |-> "OK", reasons |-> prior \cup covered,
                  entry |-> Combine(latest.base, latest.delta)]

(* --------------------------------- steps -------------------------------- *)

Init ==
  /\ \/ job \in Jobs /\ pos = 1 /\ acc = Empty
     \/ /\ pos = 0 /\ acc = <<>>
        /\ \/ job \in [kind : {"coverage"}, crl : Crls, point : Points, issuer : Issuers, ca : BOOLEAN, fresh : Fresh]
           \/ job \in [kind : {"index"}, list : Lists]
           \/ job \in Selections
  /\ right = 0 /\ status = "running"
  /\ out = IF job.kind = "select" THEN Pending ELSE <<>>

Listed == job.kind \notin {"layout", "coverage", "index", "select"}

More == status = "running" /\ pos <= Len(job.items)
Item == job.items[pos]

Return(s, value) == status' = s /\ out' = value /\ UNCHANGED <<job, pos, right, acc>>

Fail(s) == Return(s, out)

Publish(value) == Return("OK", <<value>>)

Take(a) == acc' = a /\ pos' = pos + 1 /\ UNCHANGED <<job, right, status, out>>

ReadLayout ==
  /\ job.kind = "layout" /\ status = "running"
  /\ IF Layout(job.items) /\ Metadata(job.items) THEN Publish(Empty) ELSE Fail("INVALID")

\* One revoked entry: a serial, a time, and extensions in version 2 only.
ReadEntry ==
  /\ job.kind = "entries" /\ More
  /\ IF Item.good /\ (Item.tag = "bare" \/ (Item.tag = "extended" /\ job.version = 2))
     THEN Take(acc) ELSE Fail("INVALID")

\* crl_extension_visit and crl_entry_extension_visit under
\* tc_pki_extensions_visit: contents of an unrecognized extension are framed
\* only.
VisitExtension ==
  /\ job.kind \in {"crl_extensions", "entry_extensions"} /\ More
  /\ LET flags == IF job.kind = "crl_extensions" THEN CrlFlags ELSE EntryFlags
         tagged == IF Item.tag = "remove" THEN [Item EXCEPT !.tag = "reason"] ELSE Item
         noted == Note(acc, tagged, flags)
     IN IF pos - 1 = Capacity THEN Fail("LIMIT")
        ELSE IF tagged.tag \in flags /\ ~Item.good THEN Fail("INVALID")
        ELSE Take([noted EXCEPT !.fields = @ \union {Item.tag}])

\* One field of tc_x509_crl_distribution_read.
DistributionField ==
  /\ job.kind = "idp" /\ More
  /\ IF Item.tag \notin IdpTags \/ ~Item.good \/ IdpField(Item.tag) <= acc.previous THEN Fail("INVALID")
     ELSE Take([acc EXCEPT !.previous = IdpField(Item.tag), !.fields = @ \union {Item.tag}])

\* One field of tc_pki_distribution_point_next; crl_freshest_check allows a
\* name only.
PointFieldRead ==
  /\ job.kind \in {"point", "freshest"} /\ More
  /\ IF Item.tag \notin PointTags \/ ~Item.good \/ PointField(Item.tag) <= acc.previous THEN Fail("INVALID")
     ELSE Take([acc EXCEPT !.previous = PointField(Item.tag), !.fields = @ \union {Item.tag}])

\* The checks after the last element: no empty SEQUENCE, unique OIDs, one
\* scope restriction at most, and a point that names something.
Finish ==
  /\ Listed /\ status = "running" /\ pos > Len(job.items)
  /\ LET f == acc.fields
         oids == [i \in 1..Len(job.items) |-> IF job.items[i].tag = "remove" THEN "reason" ELSE job.items[i].tag] IN
     CASE job.kind \in {"entries", "crl_extensions", "entry_extensions"} /\ job.items = <<>> -> Fail("INVALID")
       [] job.kind \in {"crl_extensions", "entry_extensions"} /\ ~IsInjective(oids) -> Fail("INVALID")
       [] job.kind = "idp" /\ (f = {} \/ Cardinality(f \intersect Only) > 1) -> Fail("INVALID")
       [] job.kind = "point" /\ f \intersect {"name", "issuer"} = {} -> Fail("INVALID")
       [] job.kind = "freshest" /\ f /= {"name"} -> Fail("INVALID")
       [] OTHER -> Publish(acc)

Idp == job.crl.idp

Limited(reasons) ==
  {r \in reasons : (Idp.present /\ Idp.reasons /= {} => r \in Idp.reasons) /\ (job.point.reasons /= {} => r \in job.point.reasons)}

\* tc_x509_crl_coverage_at and tc_x509_crl_scope_reasons up to the name loop.
Scope ==
  /\ job.kind = "coverage" /\ status = "running" /\ pos = 0
  /\ LET issued == IssuerMatches(job.crl, job.point, job.issuer) IN
     IF job.fresh \in {"INVALID", "UNSUPPORTED"} THEN Return(job.fresh, <<>>)
     ELSE IF job.fresh /= "CURRENT" \/ Excluded(Idp, job.ca) THEN Return("OK", <<{}>>)
     ELSE IF issued.status /= "OK" THEN Return(issued.status, <<>>)
     ELSE IF ~issued.matched THEN Return("OK", <<{}>>)
     ELSE IF ~Idp.present \/ Idp.name.kind = "none" THEN Return("OK", <<Limited(AllReasons)>>)
     ELSE pos' = 1 /\ right' = 1 /\ UNCHANGED <<job, acc, status, out>>

\* Mutant: the right-hand list is not rewound for the next pos-hand name.
CompareOnce ==
  /\ job.kind = "coverage" /\ status = "running" /\ pos > 0
  /\ LET ls == Identities(Idp.name, job.crl.issuer)
         rs == PointIdentities(job.point, job.issuer) IN
     IF pos > Len(ls) THEN Return("OK", <<{}>>)
     ELSE IF right > Len(rs) THEN pos' = pos + 1 /\ UNCHANGED <<job, right, acc, status, out>>
     ELSE IF SameName(ls[pos], rs[right]) THEN Return("OK", <<Limited(AllReasons)>>)
     ELSE right' = right + 1 /\ UNCHANGED <<job, pos, acc, status, out>>

\* One comparison of the nested loops of tc_x509_crl_name_matches.
Compare ==
  /\ job.kind = "coverage" /\ status = "running" /\ pos > 0
  /\ LET ls == Identities(Idp.name, job.crl.issuer)
         rs == PointIdentities(job.point, job.issuer) IN
     IF pos > Len(ls) THEN Return("OK", <<{}>>)
     ELSE IF right > Len(rs) THEN pos' = pos + 1 /\ right' = 1 /\ UNCHANGED <<job, acc, status, out>>
     ELSE IF SameName(ls[pos], rs[right]) THEN Return("OK", <<Limited(AllReasons)>>)
     ELSE right' = right + 1 /\ UNCHANGED <<job, pos, acc, status, out>>

\* One tc_x509_crl_record_read of TC_X509_crl_index_init; the policy is kept.
RecordRead ==
  /\ job.kind = "index" /\ status = "running" /\ Len(job.list) <= Records /\ pos < Len(job.list)
  /\ LET e == job.list[pos + 1] IN
     IF e.read /= "OK" THEN Return(e.read, <<>>)
     ELSE Take(Append(acc, e))

IndexEnd ==
  /\ job.kind = "index" /\ status = "running"
  /\ \/ Len(job.list) > Records /\ Return("LIMIT", <<>>)
     \/ pos = Len(job.list) /\ Len(job.list) <= Records /\ Return("OK", acc)

\* Any read or comparison may find the work budget or the frames exhausted.
\* The index grows by one record before the scope is evaluated.
AddRecord(r) ==
  /\ job.kind = "select" /\ status = "running" /\ Len(index) < MaxRecords
  /\ acc' = Append(index, r)
  /\ UNCHANGED <<job, pos, right, status, out>>

Evaluate ==
  /\ job.kind = "select" /\ status = "running" /\ Len(index) > 0
  /\ \E answer \in {IF prior = Reasons THEN Returned("END") ELSE ScopeEvaluate} :
       Return(answer.result, answer)

OutOfWork == status = "running" /\ Fail("LIMIT")

Next ==
  \/ ReadLayout \/ ReadEntry \/ VisitExtension \/ DistributionField \/ PointFieldRead \/ Finish
  \/ Scope \/ Compare \/ RecordRead \/ IndexEnd
  \/ (\E r \in Complete \cup Deltas : AddRecord(r)) \/ Evaluate \/ OutOfWork

Spec == Init /\ [][Next]_vars

(* ------------------------------ properties ------------------------------ *)

Decided == status \in {"OK", "INVALID"}
AllGood == \A i \in 1..Len(job.items) : job.items[i].good

\* A TBSCertList is taken exactly when it is one of the grammar.
LayoutExact ==
  job.kind = "layout" /\ Decided => (status = "OK" <=> Tags(job.items) \in TbsGrammar /\ AllGood)

PointEncodings ==
  {n \o r \o i : n \in Optional("name"), r \in Optional("reasons"), i \in Optional("issuer")} \ {<<>>, <<"reasons">>}

\* The distribution point decoders accept exactly those encodings, and the
\* freshest CRL pointer only a name.
DistributionExact ==
  Decided /\ job.kind \in {"idp", "point", "freshest"} =>
    (status = "OK" <=>
       /\ AllGood
       /\ CASE job.kind = "idp" -> Tags(job.items) \in IdpEncodings \ {<<>>}
            [] job.kind = "point" -> Tags(job.items) \in PointEncodings
            [] job.kind = "freshest" -> Tags(job.items) = <<"name">>)

\* An accepted extension list names each extension once, its masks say what
\* is present and critical, and an unknown critical one is never lost.
ExtensionsExact ==
  status = "OK" /\ job.kind \in {"crl_extensions", "entry_extensions"} =>
    LET flags == IF job.kind = "crl_extensions" THEN CrlFlags ELSE EntryFlags \union {"remove"}
        id(x) == IF x.tag = "remove" THEN "reason" ELSE x.tag
        list == ToSet(job.items)
    IN /\ \A i, j \in 1..Len(job.items) : i < j => id(job.items[i]) /= id(job.items[j])
       /\ out[1].present = {id(x) : x \in {y \in list : y.tag \in flags}}
       /\ out[1].critical = {id(x) : x \in {y \in list : y.tag \in flags /\ y.critical}}
       /\ out[1].unknown = "none" <=> \A x \in list : x.critical => x.tag \in flags

\* A list whose policy is OK obeys every rule of RFC 5280 sections 5.2 and
\* 5.3 on criticality, delta CRLs and indirect CRLs, and the other way round.
PolicyExact ==
  /\ status = "OK" /\ job.kind = "crl_extensions" =>
       (ExtensionPolicy(out[1]) = "OK" <=>
          /\ \A x \in ToSet(job.items) :
               /\ x.critical => x.tag \in {"delta", "idp", "authority", "issuer_alt"}
               /\ x.tag \in {"delta", "idp"} => x.critical
          /\ ~({"delta", "freshest"} \subseteq ToSet(Tags(job.items))))
  /\ status = "OK" /\ job.kind = "entry_extensions" =>
       (EntryPolicy(job.context, out[1]) = "OK" <=>
          \A x \in ToSet(job.items) :
            /\ x.critical <=> x.tag = "issuer"
            /\ x.tag = "issuer" => "indirect" \in job.context
            /\ x.tag = "remove" => "delta" \in job.context)

\* Entries of a version 1 CRL carry no extensions, and none is skipped.
EntriesExact ==
  job.kind = "entries" /\ status = "OK" =>
    job.items /= <<>> /\ \A i \in 1..Len(job.items) : job.items[i].good /\ (job.items[i].tag = "extended" => job.version = 2)

\* The names a distribution point resolves to, as sets.
Resolved(name, base) ==
  CASE name.kind = "none" -> {} [] name.kind = "full" -> {<<n.type, IF n.type = "dir" THEN Fold(n.value) ELSE n.value, "none">> : n \in {name.names[i] : i \in 1..Len(name.names)}}
    [] name.kind = "relative" -> {<<"dir", Fold(base), name.suffix>>}

\* RFC 5280 section 6.3.3 (b), (d) and (e): the CRL's issuer, the issuing
\* distribution point and the reasons, stated over sets of names.
CoverageExact ==
  job.kind = "coverage" /\ status = "OK" =>
    LET p == job.point  c == job.crl
        issuer == IF p.issuer = <<>> THEN job.issuer ELSE p.issuer[1].value
        fromIssuer == IF p.issuer = <<>> THEN Fold(c.issuer) = Fold(job.issuer)
                      ELSE c.issuer = p.issuer[1].value /\ Idp.present /\ Idp.indirect
        wanted == IF p.name.kind = "none" THEN {<<"dir", Fold(issuer), "none">>} ELSE Resolved(p.name, issuer)
        named == Idp.present /\ Idp.name.kind /= "none" => Resolved(Idp.name, c.issuer) \intersect wanted /= {}
        forKind == Idp.present => CASE Idp.only = "user" -> ~job.ca [] Idp.only = "ca" -> job.ca [] Idp.only = "attribute" -> FALSE [] OTHER -> TRUE
        limit(s) == IF s = {} THEN AllReasons ELSE s
    IN out[1] = IF job.fresh = "CURRENT" /\ fromIssuer /\ named /\ forKind
                THEN limit(p.reasons) \intersect (IF Idp.present THEN limit(Idp.reasons) ELSE AllReasons) ELSE {}

\* An index is published only when every CRL was read, in order, and keeps
\* the CRLs whose policy failed ("indexed with that policy", x509_crl.h:122).
IndexComplete ==
  job.kind = "index" =>
    /\ status = "OK" => out = job.list
    /\ status \in {"INVALID", "UNSUPPORTED"} => \E i \in 1..Len(job.list) : job.list[i].read = status
    /\ status /= "OK" => out = <<>>

\* Comparing two CRLs does not depend on their order, and never says equal
\* for different contents.
ContentSymmetric ==
  job.kind = "index" /\ Len(job.list) = 2 =>
    LET x == job.list[1]  y == job.list[2] IN
    /\ ContentEqual(x, y) = ContentEqual(y, x)
    /\ ContentEqual(x, y).status = "OK" => (ContentEqual(x, y).equal <=> x.content = y.content)

\* The complete CRLs of this scope that may be used, and the deltas usable
\* with one of them.
Usable == {i \in 1..Len(index) :
             /\ ~index[i].delta /\ index[i].kin = "same" /\ index[i].fresh /= "FUTURE"
             /\ policy = "COMPLETE_ONLY" => index[i].fresh = "CURRENT"}

UsableDeltas(i) ==
  {j \in 1..Len(index) : /\ policy /= "COMPLETE_ONLY" /\ index[j].delta
                         /\ index[j].fresh = "CURRENT" /\ index[j].kin = index[i].kin
                         /\ 0 < index[j].baseNumber /\ index[j].baseNumber <= index[i].number
                         /\ index[i].number < index[j].number}

Signed(S) == {i \in S : index[i].signature = "ok"}

Newest(S) == {j \in S : \A k \in S : index[k].number <= index[j].number}

\* Every pair the records allow: a current complete CRL alone where it may
\* stand alone, or a complete CRL with a newest delta.
AllowedPairs ==
  {<<i, j>> \in Signed(Usable) \X (0..Len(index)) :
     LET D == Signed(UsableDeltas(i))
     IN IF j = None THEN /\ D = {} /\ policy /= "DELTA_REQUIRED"
                         /\ index[i].fresh = "CURRENT"
        ELSE j \in Newest(D)}

Newer(p) == index[IF p[2] = None THEN p[1] ELSE p[2]]
Height(p) == IF ordering = "ORDER_NUMBER" THEN Newer(p).number ELSE Newer(p).update

\* A tie between deltas of one number goes to the later one before pairs are
\* ranked by date.
Contenders ==
  {p \in AllowedPairs : \A q \in AllowedPairs : p[1] = q[1] => Newer(q).update <= Newer(p).update}

Highest == {p \in Contenders : \A q \in Contenders : Height(q) <= Height(p)}

Says(p) == LET e == IF p[2] /= None /\ index[p[2]].entry /= "none" THEN index[p[2]].entry
                    ELSE index[p[1]].entry
           IN IF e = "remove" THEN "none" ELSE e

\* Two authentic deltas share the highest number of a chosen pair but differ.
Disputed == \E p \in Highest : \E j, k \in Newest(Signed(UsableDeltas(p[1]))) : index[j] /= index[k]

Unverifiable ==
  \/ \E i \in Usable : index[i].signature = "unsupported"
  \/ \E i \in Signed(Usable) : \E j \in UsableDeltas(i) : index[j].signature = "unsupported"
  \/ ordering = "ORDER_NUMBER" /\ \E p \in AllowedPairs : Newer(p).number = None

\* An answer is accepted exactly when the newest records of the scope are
\* authentic, current, undisputed and agree, and it is the answer they give:
\* a superseded CRL never answers, in whatever order records are indexed.
AnswerExact ==
  job.kind = "select" =>
    (outcome.result = "OK" <=>
       /\ outcome /= Pending /\ ~Unverifiable /\ Highest /= {} /\ ~Disputed
       /\ covered \ prior /= {}
       /\ \A p, q \in Highest : Says(p) = Says(q) /\ Newer(p).update = Newer(q).update
       /\ outcome = [result |-> "OK", reasons |-> prior \cup covered,
                     entry |-> Says(CHOOSE p \in Highest : TRUE)])

\* The scope is passed over (END) only when no pair may be used or nothing
\* new is covered: a dispute about a scope is never mistaken for its absence.
AbsenceExact ==
  job.kind = "select" /\ outcome.result = "END" =>
    \/ prior = Reasons
    \/ ~Unverifiable /\ (Highest = {} \/ (~Disputed /\ covered \ prior = {}))

\* Evidence without every reason is never complete, and an accepted entry
\* comes from an authentic record.
EntryAuthentic ==
  job.kind = "select" =>
    /\ outcome.reasons \subseteq Reasons
    /\ outcome.entry \in {"none", "revoked", "hold"}
    /\ outcome.entry /= "none" =>
         \E i \in 1..Len(index) : index[i].entry = outcome.entry /\ index[i].signature = "ok"
=============================================================================
