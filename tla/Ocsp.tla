-------------------------------- MODULE Ocsp --------------------------------
(***************************************************************************)
(* OCSP requests and responses (src/src/x509_ocsp.c, x509_time.c).         *)
(*                                                                         *)
(* A client asks about one certificate, with or without a nonce.  The      *)
(* network keeps every response ever made and may deliver any of them, in  *)
(* any order and more than once, while time passes and the certificate may *)
(* be revoked.  Responders entitled to answer are the issuer and delegates *)
(* with a valid path; the others may claim anything.  Verify is the        *)
(* library's TC_X509_ocsp_response_verify, field by field.                 *)
(*                                                                         *)
(* A signature is the key that made it, or "odd" for an algorithm the       *)
(* provider does not support; a digest in a CertID or a                    *)
(* ResponderID is what it was computed over.  The work budget is left out  *)
(* except for the bounds on responses and candidates.                      *)
(***************************************************************************)
EXTENDS Integers, Sequences, SequencesExt, FiniteSets, FiniteSetsExt

CONSTANTS
  Certificates,     \* candidate delegates: [name, key, path, nocheck, readable]
  Issuer,           \* the issuer's name and key: [name, key]
  Store,            \* the sequence of delegates the caller's store supplies
  Singles,          \* the SingleResponses a responder may add: [id, status, extra]
  Faulty,           \* who answers without being entitled: responder fields
  MaxTime, Skew, MaxAge, Window, MaxResponses, MaxCertificates, MaxNet

VARIABLES
  now, revokedAt,   \* the time, and when the certificate was revoked (or 0)
  asked,            \* [nonce, at] of the outstanding request
  net,              \* responses made so far
  honest,           \* those of entitled responders
  verdict           \* of the last verification

vars == <<now, revokedAt, asked, net, honest, verdict>>

None == 0
NoVerdict == [result |-> "NONE", status |-> "NONE", response |-> None, issuer |-> None]
Result(r) == [NoVerdict EXCEPT !.result = r]

(* ------------------------------- parsing ------------------------------- *)

\* cert_id_matches: [result, matched] of one CertID.
CertId(s) ==
  CASE s.id = "unsupported" -> "UNSUPPORTED"
    [] s.id = "malformed" -> "INVALID"
    [] OTHER -> "OK"

\* ocsp_extension, extensions: a nonce belongs to the response only, and an
\* unknown critical extension is not supported.
Extension(extra, allowNonce) ==
  CASE extra = "critical" -> "UNSUPPORTED"
    [] extra = "nonce" /\ ~allowNonce -> "INVALID"
    [] OTHER -> "OK"

\* revoked_info: removeFromCRL is no revocation of a response.
RevokedInfo(s) == IF s.status = "REMOVE" THEN "INVALID" ELSE "OK"

\* single_response within the loop of response_data: every answer is checked
\* and only one may be about the certificate.
SingleStep(acc, s) ==
  IF acc.result /= "OK" THEN acc
  ELSE LET r == SelectSeq(<<CertId(s), RevokedInfo(s), Extension(s.extra, FALSE)>>,
                          LAMBDA x : x /= "OK")
       IN IF acc.count + 1 > MaxResponses THEN [acc EXCEPT !.result = "LIMIT"]
          ELSE IF r /= <<>> THEN [acc EXCEPT !.result = Head(r)]
          ELSE IF s.id = "match" /\ acc.single /= <<>> THEN [acc EXCEPT !.result = "INVALID"]
          ELSE [acc EXCEPT !.count = @ + 1,
                           !.single = IF s.id = "match" THEN <<s>> ELSE @]

\* response_data, basic_response: [result, single].
ResponseData(r) ==
  LET a == FoldLeft(SingleStep, [result |-> "OK", count |-> 0, single |-> <<>>], r.singles)
  IN CASE a.result /= "OK" -> a
       [] a.result = "OK" /\ a.single = <<>> -> [a EXCEPT !.result = "INVALID"]
       [] OTHER -> [a EXCEPT !.result = Extension(r.extra, TRUE)]

\* parse_response: error responses are unsigned and decide nothing.
ParseResponse(r) ==
  CASE r.outer = "error" -> [result |-> "UNSUPPORTED", single |-> <<>>]
    [] r.outer = "malformed" -> [result |-> "INVALID", single |-> <<>>]
    [] OTHER -> ResponseData(r)

(* --------------------------- time and authority ------------------------ *)

\* Mutant: the age of a response is not bounded.
FreshnessAny(this, next) ==
  CASE this > now + Skew -> "FUTURE"
    [] this <= now + Skew /\ next = None -> "NO_NEXT_UPDATE"
    [] OTHER -> IF next > now - Skew THEN "CURRENT" ELSE "STALE"

\* tc_x509_freshness_at.
Freshness(this, next) ==
  CASE this > now + Skew -> "FUTURE"
    [] this <= now + Skew /\ MaxAge > 0 /\ (now - Skew) - this > MaxAge -> "STALE"
    [] OTHER -> IF next = None THEN "NO_NEXT_UPDATE"
                ELSE IF next > now - Skew THEN "CURRENT" ELSE "STALE"

\* time_check.
TimeCheck(r) ==
  /\ r.produced <= now + Skew
  /\ r.next /= None => r.next >= r.this
  /\ \/ Freshness(r.this, r.next) = "CURRENT"
     \/ Freshness(r.this, r.next) = "NO_NEXT_UPDATE" /\ MaxAge > 0

\* responder_matches: by subject name or by the digest of the key.
ResponderMatches(r, name, key) == IF r.byKey THEN r.responder = key ELSE r.responder = name

\* verify_signature.
VerifySignature(r, key) ==
  CASE r.signer = "odd" -> "UNSUPPORTED"
    [] r.signer = key -> "OK"
    [] OTHER -> "INVALID"

\* try_candidate with delegate_path, delegate_nocheck and verify_signature:
\* whether the candidate is authorized and signed the response.
TryCandidate(c, r) ==
  /\ c.readable
  /\ ResponderMatches(r, c.name, c.key)
  /\ c.path = "OK"
  /\ c.nocheck /= "bad"
  /\ VerifySignature(r, c.key) = "OK"

\* Mutant: the bound counts one candidate too many.
AuthorizeShort(r) ==
  LET candidates == r.certs \o Store
      signers == {i \in 1..Len(candidates) : TryCandidate(candidates[i], r)}
      examined == IF signers = {} THEN Len(candidates) ELSE Min(signers)
  IN IF ResponderMatches(r, Issuer.name, Issuer.key) /\ r.signer = Issuer.key THEN "OK"
     ELSE IF examined >= MaxCertificates THEN "LIMIT"
     ELSE IF signers = {} THEN "INVALID" ELSE "OK"

\* authorize_response: the issuer itself, unless its key did not sign, then
\* the delegates in the response, then those of the store, MaxCertificates
\* in all.
Authorize(r) ==
  LET candidates == r.certs \o Store
      signers == {i \in 1..Len(candidates) : TryCandidate(candidates[i], r)}
      examined == IF signers = {} THEN Len(candidates) ELSE Min(signers)
      direct == VerifySignature(r, Issuer.key)
  IN IF ResponderMatches(r, Issuer.name, Issuer.key) /\ direct /= "INVALID" THEN direct
     ELSE IF examined > MaxCertificates THEN "LIMIT"
     ELSE IF signers = {} THEN "INVALID" ELSE "OK"

\* An expected nonce must be present and equal.
NonceMatches(r) == asked.nonce /= None => r.nonce = asked.nonce

\* Mutant: an authenticated unknown status is reported as an answer.
VerifyUnknown(r, name) ==
  LET parsed == ParseResponse(r)
  IN IF parsed.result /= "OK" THEN Result(parsed.result)
     ELSE IF ~NonceMatches(r) \/ ~TimeCheck(r) \/ Authorize(r) /= "OK" THEN Result("INVALID")
     ELSE [result |-> "OK", status |-> parsed.single[1].status, response |-> r, issuer |-> name]

\* verify_response for a certificate whose issuer field is name.
Verify(r, name) ==
  LET parsed == ParseResponse(r)
      authority == Authorize(r)
  IN CASE name /= Issuer.name -> Result("INVALID")
       [] name = Issuer.name /\ parsed.result /= "OK" -> Result(parsed.result)
       [] name = Issuer.name /\ parsed.result = "OK" /\ (~NonceMatches(r) \/ ~TimeCheck(r)) -> Result("INVALID")
       [] OTHER -> IF authority /= "OK" THEN Result(authority)
                   ELSE IF parsed.single[1].status = "UNKNOWN" THEN Result("UNSUPPORTED")
                   ELSE [result |-> "OK", status |-> parsed.single[1].status, response |-> r,
                         issuer |-> name]

(* ---------------------------- request layout --------------------------- *)

\* tc_tlv_header_size for a one-byte tag, and der_size.
HeaderSize(n) == CASE n < 128 -> 2 [] n >= 128 /\ n < 256 -> 3 [] n >= 256 /\ n < 65536 -> 4
                   [] OTHER -> 5
DerSize(n) == HeaderSize(n) + n

OidLength(digest) == IF digest = 20 THEN 5 ELSE 9
NonceOid == 9

\* request_sizes: the total size computed before anything is written.
RequestSizes(digest, serial, nonce) ==
  LET algorithm == DerSize(OidLength(digest)) + 2
      certId == DerSize(DerSize(algorithm) + 2 * DerSize(digest) + DerSize(serial))
      extension == DerSize(DerSize(NonceOid) + DerSize(DerSize(nonce)))
      wrapper == IF nonce = 0 THEN 0 ELSE DerSize(DerSize(extension))
  IN DerSize(DerSize(DerSize(DerSize(certId)) + wrapper))

(* ------------------------------ behaviour ------------------------------ *)

Init ==
  /\ now = 1 /\ revokedAt = None
  /\ asked = [nonce |-> None, at |-> 1]
  /\ net = {} /\ honest = {} /\ verdict = NoVerdict

Tick == now < MaxTime /\ now' = now + 1 /\ UNCHANGED <<revokedAt, asked, net, honest, verdict>>

Revoke == revokedAt = None /\ revokedAt' = now /\ UNCHANGED <<now, asked, net, honest, verdict>>

\* TC_X509_ocsp_request_encode: a request with a nonce never used before, or
\* without one.
Ask(nonce) ==
  /\ nonce \in {None, now}
  /\ asked' = [nonce |-> nonce, at |-> now]
  /\ verdict' = NoVerdict
  /\ UNCHANGED <<now, revokedAt, net, honest>>

Truth == [id |-> "match", status |-> IF revokedAt = None THEN "GOOD" ELSE "REVOKED",
          extra |-> "none"]

Unknown == [Truth EXCEPT !.status = "UNKNOWN"]

Response(who, singles, next, nonce, extra) ==
  [outer |-> "successful", produced |-> now, this |-> now, next |-> next, nonce |-> nonce,
   extra |-> extra, singles |-> singles, responder |-> who.responder, byKey |-> who.byKey,
   signer |-> who.signer, certs |-> who.certs]

Entitled ==
  {[responder |-> Issuer.name, byKey |-> FALSE, signer |-> Issuer.key, certs |-> <<>>]}
    \cup {[responder |-> c.key, byKey |-> TRUE, signer |-> c.key, certs |-> <<c>>] :
            c \in {x \in Certificates : x.path = "OK" /\ x.readable /\ x.nocheck /= "bad"}}
    \cup {[responder |-> Store[i].name, byKey |-> FALSE, signer |-> Store[i].key, certs |-> <<>>] :
            i \in {x \in 1..Len(Store) : Store[x].path = "OK"}}

\* A responder entitled to answer tells the truth, alone or next to other
\* answers, with or without nextUpdate and the nonce.
Answer(who, more, next, echo) ==
  /\ Cardinality(net) < MaxNet
  /\ LET r == Response(who, <<Truth>> \o more, next, IF echo THEN asked.nonce ELSE None, "none")
     IN net' = net \cup {r} /\ honest' = honest \cup {r}
  /\ UNCHANGED <<now, revokedAt, asked, verdict>>

\* Somebody else, or a broken responder, sends anything.
Stray(who, single, outer, extra) ==
  /\ Cardinality(net) < MaxNet
  /\ net' = net \cup {[Response(who, single, now + Window, asked.nonce, extra) EXCEPT !.outer = outer]}
  /\ UNCHANGED <<now, revokedAt, asked, honest, verdict>>

\* The network delivers any response ever made; the caller verifies it for a
\* certificate of this issuer, or by mistake for one of another.
Deliver(r, name) ==
  /\ verdict' = Verify(r, name)
  /\ UNCHANGED <<now, revokedAt, asked, net, honest>>

Next ==
  \/ Tick
  \/ Revoke
  \/ \E n \in {None, now} : Ask(n)
  \/ \E who \in Entitled, s \in Singles, next \in {None, now + Window}, echo \in BOOLEAN :
       Answer(who, <<s>>, next, echo)
  \/ \E who \in Entitled, next \in {None, now + Window}, echo \in BOOLEAN :
       Answer(who, <<>>, next, echo)
  \/ \E who \in Faulty, extra \in {"none", "critical"} : Stray(who, <<Truth>>, "successful", extra)
  \/ \E who \in Entitled : Stray(who, <<Unknown>>, "successful", "none")
  \/ \E who \in Entitled, outer \in {"error", "malformed"} : Stray(who, <<>>, outer, "none")
  \/ \E r \in net, name \in {Issuer.name, "another"} : Deliver(r, name)

Spec == Init /\ [][Next]_vars

(* ------------------------------ properties ----------------------------- *)

TypeOK ==
  /\ now \in 1..MaxTime /\ revokedAt \in 0..MaxTime
  /\ honest \subseteq net
  /\ verdict.result \in {"NONE", "OK", "INVALID", "UNSUPPORTED", "LIMIT"}
  /\ verdict.status \in {"NONE", "GOOD", "REVOKED"}
  /\ verdict.result = "OK" <=> verdict.status /= "NONE"

\* Only what an entitled responder said is believed, whoever else answers and
\* whatever is delivered, and it is believed as it was said of this
\* certificate, which the issuer named in the request has issued.
AcceptedIsHonest ==
  verdict.result = "OK" =>
    /\ verdict.response \in honest /\ verdict.issuer = Issuer.name
    /\ \A i, j \in 1..Len(verdict.response.singles) :
         verdict.response.singles[i].id = "match" /\ verdict.response.singles[j].id = "match" => i = j
    /\ \E i \in 1..Len(verdict.response.singles) :
         verdict.response.singles[i].id = "match" /\ verdict.response.singles[i].status = verdict.status

\* At the time of delivery a GOOD answer is at most as old as the caller
\* allows: a revocation is noticed no later, whatever responses are replayed.
GoodIsRecent ==
  verdict'.status = "GOOD" /\ verdict' /= verdict =>
    revokedAt = None \/ revokedAt >= now - Skew - (IF MaxAge > 0 THEN MaxAge ELSE Window)

\* With a nonce, no response made before the request is accepted: one seen
\* in an earlier exchange is refused even while it is current.
NoncePreventsReplay ==
  verdict.result = "OK" /\ asked.nonce /= None => verdict.response.produced >= asked.at

\* A truthful response of an entitled responder that is new, carries the
\* expected nonce and is the only answer about the certificate is accepted,
\* unless the search for its delegate is cut off by the caller's bound.
HonestIsAccepted ==
  \A r \in honest :
    LET sound == /\ \A i \in 1..Len(r.singles) : r.singles[i].extra = "none"
                      /\ r.singles[i].id \in {"match", "other"} /\ r.singles[i].status /= "REMOVE"
                 /\ Cardinality({i \in 1..Len(r.singles) : r.singles[i].id = "match"}) = 1
                 /\ Len(r.singles) <= MaxResponses
        timely == /\ now - r.this <= Skew + MaxAge /\ (MaxAge > 0 \/ r.next /= None)
                  /\ r.next = None \/ r.next > now - Skew
        bounded == r.signer = Issuer.key \/ Len(r.certs) + Len(Store) <= MaxCertificates
    IN sound /\ timely /\ bounded /\ r.nonce = asked.nonce => Verify(r, Issuer.name).result = "OK"

\* The bytes written in the order of TC_X509_ocsp_request_encode.
Written(digest, serial, nonce) ==
  LET algorithm == HeaderSize(OidLength(digest)) + OidLength(digest) + 2
      certIdFields == HeaderSize(algorithm) + algorithm + 2 * (HeaderSize(digest) + digest)
                        + HeaderSize(serial) + serial
      certId == HeaderSize(certIdFields) + certIdFields
      request == HeaderSize(certId) + certId
      list == HeaderSize(request) + request
      value == HeaderSize(nonce) + nonce
      fields == 2 + NonceOid + HeaderSize(value) + value
      extension == HeaderSize(fields) + fields
      extensions == HeaderSize(extension) + extension
      tbs == list + IF nonce = 0 THEN 0 ELSE HeaderSize(extensions) + extensions
      outer == HeaderSize(tbs) + tbs
  IN HeaderSize(outer) + outer

\* The size announced, and allocated by the caller, is exactly what the
\* encoder writes, for every serial length and nonce around the length steps.
RequestFits ==
  now = 1 /\ net = {} => \A digest \in {20, 32}, serial \in (1..24) \cup (40..60) \cup (100..140),
                nonce \in {0, 32, 33, 64, 100, 120} \cup (124..128) :
               RequestSizes(digest, serial, nonce) = Written(digest, serial, nonce)
=============================================================================
