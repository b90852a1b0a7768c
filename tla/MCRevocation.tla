---------------------------- MODULE MCRevocation ----------------------------
(***************************************************************************)
(* The revocation layer: the CRL decoders, the preparation of a stored CRL,*)
(* the coverage of distribution points, the choice of a CRL and delta, the *)
(* scopes and their signers, the revocation of a path, and OCSP.  Each     *)
(* works on the state its caller gives it: a behaviour runs the one that   *)
(* "part" names, whose variables are the slots s1, s2, ... in its order.   *)
(***************************************************************************)
EXTENDS Integers, Sequences

VARIABLES part, s1, s2, s3, s4, s5, s6, s7, s8, s9, s10, s11, s12, s13, s14

Slots == <<s1, s2, s3, s4, s5, s6, s7, s8, s9, s10, s11, s12, s13, s14>>

(* ----------------------------- a stored CRL ------------------------------ *)

\* Two entries, a window of three cells, and storage that is rewritten twice
\* while it is read.
Prepare == INSTANCE CrlPrepare WITH
  Entries <- 2, Window <- 3, ReadBudgets <- {4, 8}, MaxReadCells <- 20, MaxEntries <- 2, MaxRewrites <- 2,
  signed <- s1, disk <- s2, rewrites <- s3, reader <- s4, job <- s5, copies <- s6, hashed <- s7, scan <- s8,
  match <- s9, call <- s10, record <- s11

(* ------------------- CRLs as read, complete and delta -------------------- *)

Base(n, u, f, s, e) == [delta |-> FALSE, kin |-> "same", number |-> n, baseNumber |-> 0,
                        update |-> u, fresh |-> f, signature |-> s, entry |-> e]
Delta(n, b, u, f, s, e) == [delta |-> TRUE, kin |-> "same", number |-> n, baseNumber |-> b,
                            update |-> u, fresh |-> f, signature |-> s, entry |-> e]

\* Complete CRLs and deltas that differ in one or two fields at a time.
CompleteCrls ==
  {Base(n, u, "CURRENT", "ok", "revoked") : n \in {1, 2}, u \in {1, 2}}
    \cup {Base(2, 2, "CURRENT", "ok", "none")}
    \cup {Base(1, 1, f, "ok", "revoked") : f \in {"STALE", "FUTURE"}}
    \cup {Base(2, 2, "CURRENT", s, "revoked") : s \in {"bad", "unsupported"}}
    \cup {Base(0, 1, "CURRENT", "ok", "none"),
          [Base(2, 2, "CURRENT", "ok", "none") EXCEPT !.kin = "other"]}

DeltaCrls ==
  {Delta(3, 1, u, "CURRENT", "ok", e) : u \in {2, 3}, e \in {"none", "remove"}}
    \cup {Delta(2, 2, 2, "CURRENT", "ok", "hold"), Delta(2, 1, 3, "CURRENT", "ok", "none"),
          Delta(4, 2, 2, "CURRENT", "ok", "hold"),
          Delta(4, 1, 4, "STALE", "ok", "remove"), Delta(4, 1, 4, "CURRENT", "bad", "remove"),
          Delta(3, 1, 3, "CURRENT", "unsupported", "none"),
          [Delta(3, 1, 3, "CURRENT", "ok", "none") EXCEPT !.kin = "other"]}

Reader == INSTANCE CrlReader WITH
  Capacity <- 3, Records <- 2,
  Complete <- CompleteCrls, Deltas <- DeltaCrls, MaxRecords <- 3, Reasons <- {1, 2},
  job <- s1, pos <- s2, right <- s3, acc <- s4, status <- s5, out <- s6

(* ---------------------------- scopes and signers ------------------------- *)

Rec(s, n, r, k) == [policy |-> "OK", scope |-> s, number |-> n, revoked |-> r, key |-> k, fresh |-> TRUE,
                    update |-> n]

\* Records of two scopes under two signing keys, two or three candidate
\* signers, and one or two points.
ScopeRecords ==
  {Rec(1, 1, FALSE, 1), Rec(1, 1, FALSE, 2), Rec(1, 2, TRUE, 1), [Rec(1, 2, TRUE, 2) EXCEPT !.update = 3],
   Rec(1, 2, FALSE, 1), Rec(4, 1, FALSE, 1), Rec(4, 1, TRUE, 2),
   [Rec(1, 3, TRUE, 1) EXCEPT !.fresh = FALSE],
   [Rec(1, 1, FALSE, 1) EXCEPT !.policy = "UNSUPPORTED"]}

Signer(k, p, c) == [key |-> k, path |-> p, check |-> c]

Signers ==
  {<<Signer(1, "OK", "OK"), Signer(2, "OK", "OK")>>,
   <<Signer(2, "OK", "UNSUPPORTED"), Signer(1, "OK", "OK")>>,
   <<Signer(1, "OK", "UNSUPPORTED"), Signer(1, "OK", "OK"), Signer(2, "UNSUPPORTED", "OK")>>,
   <<Signer(1, "INVALID", "OK"), Signer(2, "OK", "OK"), Signer(1, "OK", "INVALID")>>}

Cov(a, b) == [s \in {1, 4} |-> IF s = 1 THEN a ELSE b]
Covers == {<<Cov({1, 2}, {1, 2})>>, <<Cov({1}, {2})>>, <<Cov({}, {1}), Cov({1, 2}, {1})>>}

Scopes == INSTANCE CrlScopes WITH
  Reasons <- {1, 2},
  Worlds <- [index : UNION {[1..n -> ScopeRecords] : n \in 1..3}, signers : Signers, covers : Covers, all : {TRUE},
             reference : {1}]
            \cup {w \in [index : UNION {[1..n -> ScopeRecords] : n \in 1..2}, signers : Signers, covers : Covers,
                        all : {FALSE}, reference : {1, 2}] : w.reference <= Len(w.index)},
  world <- s1, pc <- s2, scan <- s3, group <- s4, search <- s5, cache <- s6, result <- s7, evidence <- s8

(* ---------------------------------- paths -------------------------------- *)

Says(what, paths) == {[says |-> what, path |-> p] : p \in paths}
Response(what, by) == [says |-> what, delegate |-> by]

\* Two members (1 and 2), a CRL signer (3) and an OCSP delegate that also
\* signs CRLs (4), three of them in one hash bucket or two.
Path == INSTANCE Revocation WITH
  Members <- <<1, 2>>, Certificates <- 1..4, Bucket <- <<0, 1, 4, 1>>, Capacities <- {3, 4},
  Crls <- <<Says("nothing", {<<>>}) \cup Says("bad", {<<>>}) \cup Says("GOOD", {<<>>, <<3, 4>>})
              \cup Says("REVOKED", {<<3>>}),
            Says("nothing", {<<>>}) \cup Says("GOOD", {<<4>>, <<1>>}) \cup Says("REVOKED", {<<4, 3>>})
              \cup Says("partial", {<<3>>}),
            Says("nothing", {<<>>}) \cup Says("GOOD", {<<>>, <<4>>, <<2>>}) \cup Says("REVOKED", {<<4>>}),
            Says("nothing", {<<>>}) \cup Says("GOOD", {<<>>, <<3>>}) \cup Says("REVOKED", {<<>>})>>,
  Responses <- <<{Response("nothing", 0), Response("bad", 0), Response("GOOD", 4), Response("REVOKED", 4),
                  Response("REVOKED", 0)},
                 {Response("nothing", 0), Response("GOOD", 0), Response("GOOD", 4)},
                 {Response("nothing", 0)}, {Response("nothing", 0)}>>,
  crl <- s1, ocsp <- s2, reports <- s3, capacity <- s4, table <- s5, held <- s6, pc <- s7, member <- s8,
  purpose <- s9, fromOcsp <- s10, loop <- s11, flag <- s12, uncovered <- s13, out <- s14

(* ---------------------------------- OCSP --------------------------------- *)

Cert(n, k, p, c) == [name |-> n, key |-> k, path |-> p, nocheck |-> c, readable |-> TRUE]
GoodDelegate == Cert("ocsp", "kgood", "OK", "yes")
BadDelegate == Cert("ocsp", "kbad", "INVALID", "no")
OddDelegate == Cert("ca", "kodd", "OK", "bad")

\* One issuer, a valid delegate, one without a valid path, one of another
\* name, and answers about other certificates.
Responder == INSTANCE Ocsp WITH
  Certificates <- {GoodDelegate, BadDelegate, OddDelegate}, Issuer <- [name |-> "ca", key |-> "kca"],
  Store <- <<BadDelegate, Cert("responder", "kstore", "OK", "no")>>,
  Singles <- [id : {"other", "match", "unsupported"}, status : {"GOOD"}, extra : {"none"}]
             \cup {[id |-> "other", status |-> "REMOVE", extra |-> "none"]},
  Faulty <- {[responder |-> "ocsp", byKey |-> FALSE, signer |-> "kbad", certs |-> <<BadDelegate>>],
             [responder |-> "ca", byKey |-> FALSE, signer |-> "kodd", certs |-> <<OddDelegate>>],
             [responder |-> "ca", byKey |-> FALSE, signer |-> "odd", certs |-> <<>>],
             [responder |-> "kgood", byKey |-> TRUE, signer |-> "kbad", certs |-> <<GoodDelegate>>]},
  MaxTime <- 5, Skew <- 1, MaxAge <- 1, Window <- 2, MaxResponses <- 2, MaxCertificates <- 2, MaxNet <- 1,
  now <- s1, revokedAt <- s2, asked <- s3, net <- s4, honest <- s5, verdict <- s6

(* -------------------------------- the suite ------------------------------ *)

Unused == "unused"
Free12 == s12 = Unused /\ s13 = Unused /\ s14 = Unused
Free9 == s9 = Unused /\ s10 = Unused /\ s11 = Unused /\ Free12
Free7 == s7 = Unused /\ s8 = Unused /\ Free9
Kept12 == <<part, s12, s13, s14>>
Kept9 == <<s9, s10, s11, Kept12>>
Kept7 == <<s7, s8, Kept9>>

SuiteInit ==
  \/ part = "reader" /\ Reader!Init /\ Free7
  \/ part = "prepare" /\ Prepare!Init /\ Free12
  \/ part = "scopes" /\ Scopes!Init /\ Free9
  \/ part = "path" /\ Path!Init
  \/ part = "ocsp" /\ Responder!Init /\ Free7

SuiteNext ==
  \/ part = "reader" /\ Reader!Next /\ UNCHANGED Kept7
  \/ part = "prepare" /\ Prepare!Next /\ UNCHANGED Kept12
  \/ part = "scopes" /\ Scopes!Next /\ UNCHANGED Kept9
  \/ part = "path" /\ Path!Next /\ UNCHANGED part
  \/ part = "ocsp" /\ Responder!Next /\ UNCHANGED Kept7

SuiteSpec == SuiteInit /\ [][SuiteNext]_<<part, Slots>>

\* The paths alone.
PathSpec == (part = "path" /\ SuiteInit) /\ [][SuiteNext]_<<part, Slots>>

(* ------------------------------ properties ------------------------------- *)

\* A CRL, its extensions and its distribution points are accepted exactly by
\* RFC 5280's grammar and rules, an index has every CRL in order, and a CRL
\* covers for a certificate the reasons section 6.3.3 gives it (x509_crl.c,
\* x509_crl_extensions.c).
ListsReadExact ==
  /\ part = "reader" => /\ Reader!LayoutExact /\ Reader!DistributionExact /\ Reader!ExtensionsExact
                        /\ Reader!PolicyExact /\ Reader!EntriesExact
                        /\ Reader!CoverageExact /\ Reader!IndexComplete /\ Reader!ContentSymmetric

\* GOOD and REVOKED are said only on newest, confirmed, undisputed evidence
\* that rests on the anchor: no superseded CRL answers, no reason is missing,
\* no two CRLs vouch for each other's signers (x509_crl_evidence.c,
\* x509_crl_scope.c, x509_revocation.c).  And evidence that settles a question
\* is not lost: a scope is passed over only when it says nothing, a determined
\* path is reported, the fixpoint ends, and a timely honest OCSP answer is
\* accepted.  Everything that is believed was signed: what a prepared record
\* says was read from the very bytes its digest covers, whatever happened to
\* the storage; a cached signature verdict belongs to the signer it is saved
\* with; an OCSP answer was given by an entitled responder, after the request
\* when a nonce was asked for (x509_crl_prepare.c, x509_ocsp.c).
VerdictsJustified ==
  /\ part = "prepare" => Prepare!TypeOK /\ Prepare!RecordAuthentic /\ Prepare!DigestWhole
  /\ part = "reader" => Reader!EntryAuthentic /\ Reader!AnswerExact /\ Reader!AbsenceExact
  /\ part = "scopes" => /\ Scopes!TypeOK /\ Scopes!CacheTruthful /\ Scopes!GoodIsCovered
                        /\ Scopes!RevokedIsJustified /\ Scopes!OneScopeAnswers /\ Scopes!NothingLost
  /\ part = "path" => /\ Path!TypeOK /\ Path!NodesGrounded /\ Path!NodesDistinct
                      /\ Path!GoodPathIsGood /\ Path!RevokedIsRevoked
                      /\ Path!DeterminedIsReported /\ Path!RoundsBounded
  /\ part = "ocsp" => /\ Responder!TypeOK /\ Responder!AcceptedIsHonest /\ Responder!NoncePreventsReplay
                      /\ Responder!HonestIsAccepted /\ Responder!RequestFits

\* A revocation from either source wins: with a member that a CRL shows
\* revoked the path is never GOOD (the comment at x509_revocation.c:519).
EitherSource == part = "path" => Path!EitherSourceWins

\* What a step may never do: revive a failed preparation, or turn the verdict
\* to GOOD with an answer older than the caller allows.
StepsSafe ==
  [][/\ part = "prepare" => Prepare!FailureKept
     /\ part = "ocsp" => Responder!GoodIsRecent]_<<part, Slots>>
=============================================================================
