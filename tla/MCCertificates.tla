--------------------------- MODULE MCCertificates ---------------------------
(***************************************************************************)
(* The certificate layer: the TLV decoder (one instance for headers, one   *)
(* for whole messages), the extension readers, name matching, trust        *)
(* anchors, path discovery, path validation, the policy graph, and the     *)
(* challenge that proves possession of a certificate's key (KeyChallenge,  *)
(* extended).  Each keeps its state in its caller's storage and none       *)
(* shares it: a behaviour runs the one that "part" names, whose variables  *)
(* are the slots s1, s2, ... in its own order.                             *)
(***************************************************************************)
EXTENDS KeyChallenge

VARIABLES part, s1, s2, s3, s4, s5, s6, s7, s8, s9

Slots == <<s1, s2, s3, s4, s5, s6, s7, s8, s9>>

(* -------------------------------- readers -------------------------------- *)

\* Headers, byte by byte: tags of up to four octets, tag numbers of 16 bits,
\* lengths of two octets.
Headers == INSTANCE TlvStream WITH
  TagBytes <- 4, MaxNumber <- 65535, SizeOctets <- 2, WriteOctets <- 3, Bytes <- {0, 1, 31, 63, 127, 129, 130, 255},
  Profiles <- {"DER", "BER", "ISO7816"}, MaxChunk <- 1, MaxFed <- 5,
  Limits <- {[input |-> 9, value |-> 65535, elements |-> 1, depth |-> 1, capacity |-> 1]},
  stream <- s1, fed <- s2, result <- s3

\* Messages of up to six bytes, in chunks of one or two, under limits that
\* bind: the length of a value and the frames, or the elements.
Messages == INSTANCE TlvStream WITH
  TagBytes <- 4, MaxNumber <- 65535, SizeOctets <- 2, WriteOctets <- 3, Bytes <- {0, 2, 3, 48, 128},
  Profiles <- {"BER", "PAD_ZERO"}, MaxChunk <- 2, MaxFed <- 6,
  Limits <- {[input |-> 5, value |-> 2, elements |-> 3, depth |-> 2, capacity |-> 1],
             [input |-> 6, value |-> 4, elements |-> 2, depth |-> 2, capacity |-> 3]},
  stream <- s1, fed <- s2, result <- s3

Extensions == INSTANCE ExtensionReaders WITH
  MaxElements <- 13, MaxDepth <- 2, Capacities <- {0, 1, 2, 3},
  MaxName <- 7, MaxLabel <- 5, MaxLocal <- 3, AddressParts <- 2, AddressOctets <- 2, OctetBits <- 2,
  kind <- s1, value <- s2, base <- s3, limits <- s4, capacity <- s5, reader <- s6, seen <- s7, got <- s8, result <- s9

(* --------------------------------- paths --------------------------------- *)

Anchors == INSTANCE TrustAnchor WITH
  PathLengths <- {0, 1, 3}, None <- 99,
  list <- s1, position <- s2, out <- s3, source <- s4, edited <- s5, reply <- s6, verdict <- s7

Search == INSTANCE PathSearch WITH
  Capacities <- {0, 2, 4}, MaxCertificates <- 5, MaxInput <- 4, Budgets <- {12, 200}, StoreSize <- 3,
  capacity <- s1, store <- s2, anchors <- s3, target <- s4, frames <- s5, path <- s6, work <- s7, failure <- s8,
  outcome <- s9

Validation == INSTANCE PathValidation WITH
  MaxCertificates <- 4, CacheCapacity <- 4,
  chain <- s1, anchor <- s2, usage <- s3, summaries <- s4, phase <- s5, index <- s6, remaining <- s7, status <- s8,
  report <- s9

Policies == INSTANCE PolicyGraph WITH
  PathLength <- 3, NodeCapacity <- 8, EdgeCapacity <- 9, ExpectedCapacity <- 3,
  graph <- s1, counters <- s2, todo <- s3, answer <- s4, tree <- s5, means <- s6, counted <- s7

(* -------------------------------- the suite ------------------------------ *)

Unused == "unused"
Free9 == s9 = Unused
Free8 == s8 = Unused /\ Free9
Free5 == s5 = Unused /\ s6 = Unused /\ s7 = Unused /\ Free8
Free4 == s4 = Unused /\ Free5
Free1 == s1 = Unused /\ s2 = Unused /\ s3 = Unused /\ Free4
Kept == <<part, vars>>
Kept8 == <<s8, s9, Kept>>
Kept4 == <<s4, s5, s6, s7, Kept8>>

SuiteInit ==
  /\ Init
  /\ \/ part = "challenge" /\ Free1
     \/ part = "headers" /\ Headers!Init /\ Free4
     \/ part = "messages" /\ Messages!Init /\ Free4
     \/ part = "extensions" /\ Extensions!Init
     \/ part = "anchors" /\ Anchors!Init /\ Free8
     \/ part = "search" /\ Search!Init
     \/ part = "validation" /\ Validation!Init
     \/ part = "policies" /\ Policies!Init /\ Free8

SuiteNext ==
  \/ part = "challenge" /\ Next /\ UNCHANGED <<part, Slots>>
  \/ part = "headers" /\ Headers!Next /\ UNCHANGED Kept4
  \/ part = "messages" /\ Messages!Next /\ UNCHANGED Kept4
  \/ part = "extensions" /\ Extensions!Next /\ UNCHANGED Kept
  \/ part = "anchors" /\ Anchors!Next /\ UNCHANGED Kept8
  \/ part = "search" /\ Search!Next /\ UNCHANGED Kept
  \/ part = "validation" /\ Validation!Next /\ UNCHANGED Kept
  \/ part = "policies" /\ Policies!Next /\ UNCHANGED Kept8

SuiteSpec == SuiteInit /\ [][SuiteNext]_<<part, vars, Slots>>

(* ------------------------------ properties ------------------------------- *)

\* The readers accept the encodings of their grammar within the caller's
\* limits and nothing else, and deliver the same objects in order, however the
\* input is cut into chunks and by whichever interface it is read; a header
\* that is written is the one header that reads as it (tlv.c, tlv_walk.c,
\* tlv_write.c, x509_ext.c).  Host names, mailboxes, URIs and addresses are
\* accepted by their grammar, and match a base in whole labels or a prefix of
\* bits (x509_name_constraints.c).
ReadingExact ==
  /\ part = "headers" => Headers!ChunksInvisible /\ Headers!VerdictStands /\ Headers!WriterInverse /\ Headers!TagsUnique
  /\ part = "messages" => /\ Messages!ChunksInvisible /\ Messages!AcceptsExactly /\ Messages!Contained
                          /\ Messages!InvalidStands /\ Messages!TreeReadsOne /\ Messages!ReadersAgree
  /\ part = "extensions" => /\ Extensions!IteratorExact /\ Extensions!BudgetExact /\ Extensions!ReadingExact
                            /\ Extensions!DomainExact /\ Extensions!MailExact /\ Extensions!UriExact
                            /\ Extensions!IpExact

\* A path that is reported found or valid is a chain of distinct sound
\* certificates from a trust anchor to the target, within its constraints, and
\* INVALID is final (x509_search.c, x509_path.c).  The policies it reports are
\* those of the RFC 5280 tree that the caller and the anchor allow, and the
\* anchor's record holds the controls RFC 5914 gives it, none dropped on the
\* way (x509_policy.c, x509_trust_anchor.c).
ChainsSound ==
  /\ part = "search" => /\ Search!TypeOK /\ Search!StackSound /\ Search!FoundIsChain
                        /\ Search!FoundFits /\ Search!InvalidIsDefinitive
  /\ part = "validation" => Validation!TypeOK /\ Validation!ValidIsGood
  /\ part = "anchors" => Anchors!TypeOK /\ Anchors!NothingDropped /\ Anchors!RecordExact
  /\ part = "policies" => /\ Policies!TypeOK /\ Policies!GraphIsTree /\ Policies!ReportedPoliciesExact
                          /\ Policies!CountersExact

\* A chain that fits the limits is found, one that is good is turned down only
\* for its policies, and what the anchor reader wrote the validator takes.
ChainsFound ==
  /\ part = "search" => Search!FindsWhatFits
  /\ part = "validation" => Validation!GoodIsValid /\ Validation!RemainingExact
  /\ part = "anchors" => Anchors!ReaderRecordsAccepted
=============================================================================
