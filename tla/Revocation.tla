----------------------------- MODULE Revocation -----------------------------
(***************************************************************************)
(* Revocation of a held certificate path (src/src/x509_revocation.c).      *)
(*                                                                         *)
(* Every member of the path is resolved against the indexed CRLs and, when *)
(* one is supplied, its OCSP response.  A CRL counts only when the path of *)
(* its signer is itself unrevoked, so certificates become nodes of a table *)
(* the caller owns, found by a hash index kept in the same array, and a    *)
(* fixpoint re-evaluates the undecided nodes until nothing changes.  Nodes *)
(* are kept from one member to the next.                                   *)
(*                                                                         *)
(* What a CRL says is abstracted to one answer per certificate (CrlScope   *)
(* models how it is selected); the sequence of certificates on its         *)
(* signer's path is kept, the empty path standing for the selected anchor. *)
(* The search of a path and every signature are verdicts.  The certificate *)
(* source may fail during any evaluation: LIMIT and ARGUMENT end the       *)
(* operation, while UNSUPPORTED or an unreadable record (INVALID) only     *)
(* leave the target without an answer from the CRLs.                       *)
(***************************************************************************)
EXTENDS Integers, Sequences, SequencesExt

CONSTANTS
  Members,      \* the held path, a sequence of certificates
  Certificates, \* the members, the CRL signers and the OCSP delegates
  Bucket,       \* Certificates -> Nat, the hash of a certificate
  Crls,         \* Certificates -> the CRL answers that certificate may have
  Responses,    \* Certificates -> the OCSP responses a member may have
  Capacities    \* the node capacities a caller may provide

VARIABLES
  crl,          \* Certificates -> what the indexed CRLs say of it
  ocsp,         \* Certificates -> the member's OCSP response
  reports,      \* the caller asked for uncovered members to be reported
  capacity,     \* nodes in the caller's table
  table,        \* the node array, its hash heads and the count in use
  held,         \* path->dependency_count
  pc, member,   \* control, and the member being resolved
  purpose,      \* "member" or "delegate": what the target is resolved for
  fromOcsp,     \* what OCSP established for this member
  loop,         \* the fixpoint: root, scan position, progress, rounds run,
                \* and the members for which the source has failed
  flag,         \* *uncovered_used
  uncovered,    \* the first member without evidence
  out           \* result and report

vars == <<crl, ocsp, reports, capacity, table, held, pc, member, purpose,
          fromOcsp, loop, flag, uncovered, out>>

world == <<crl, ocsp, reports, capacity>>

None == 0   \* SIZE_MAX in the index fields and in the report

NoReport == [result |-> "PENDING", status |-> "NONE", index |-> None]

EmptyNode == [certificate |-> None, status |-> "GOOD", next |-> None]

(* ---------------------------- the node table --------------------------- *)

\* tc_x509_crl_bytes_hash and the reduction to a bucket of this table.
BucketOf(t, c) == (Bucket[c] % Len(t.nodes)) + 1

\* The hash chain is walked from its head; a link past the count is an
\* ARGUMENT error, and None says the certificate is not in the table.
RECURSIVE Walk(_, _, _)
Walk(t, cursor, c) ==
  IF cursor = None THEN [result |-> "OK", index |-> None]
  ELSE IF cursor > t.count THEN [result |-> "ARGUMENT", index |-> None]
  ELSE IF t.nodes[cursor].certificate = c THEN [result |-> "OK", index |-> cursor]
  ELSE Walk(t, t.nodes[cursor].next, c)

\* The first lookup of a table resets the heads, which share the node array.
Reset(t) == IF t.count = 0 THEN [t EXCEPT !.head = [b \in DOMAIN @ |-> None]] ELSE t

Appended(t, c) ==
  LET b == BucketOf(t, c)
      n == t.count + 1
  IN [t EXCEPT !.count = n, !.head[b] = n,
               !.nodes[n] = [certificate |-> c, status |-> "UNDETERMINED",
                             next |-> t.head[b]]]

\* An expression bound to its value, so that it is evaluated once.
Value(S) == CHOOSE x \in S : TRUE

Found(t, w, c) ==
  CASE w.result /= "OK" -> [result |-> w.result, index |-> None, table |-> t]
    [] w.result = "OK" /\ w.index /= None -> [result |-> "OK", index |-> w.index, table |-> t]
    [] w.result = "OK" /\ w.index = None /\ t.count = Len(t.nodes) ->
         [result |-> "LIMIT", index |-> None, table |-> t]
    [] OTHER -> [result |-> "OK", index |-> t.count + 1, table |-> Appended(t, c)]

\* Look a certificate up, adding an undetermined node for a new one.
Find(table0, c) ==
  Value({Found(t, Walk(t, t.head[BucketOf(t, c)], c), c) : t \in {Reset(table0)}})

(* ------------------------- one node, evaluated ------------------------- *)

Checked(t) == [result |-> "VALID", table |-> t, unresolved |-> FALSE, flag |-> flag]

\* One certificate of the signer's path: a revoked one refuses the CRL at
\* once, an uncovered one is accepted only if the caller reports them.
Noted(acc, f) ==
  LET s == f.table.nodes[f.index].status
      found == [acc EXCEPT !.table = f.table]
  IN CASE f.result /= "OK" -> [found EXCEPT !.result = f.result]
       [] f.result = "OK" /\ s = "REVOKED" -> [found EXCEPT !.result = "INVALID"]
       [] f.result = "OK" /\ s = "UNCOVERED" /\ reports -> [found EXCEPT !.flag = TRUE]
       [] f.result = "OK" /\ ((s = "UNCOVERED" /\ ~reports) \/ s = "UNDETERMINED") ->
            [found EXCEPT !.unresolved = TRUE]
       [] OTHER -> found

Dependency(acc, c) ==
  IF acc.result /= "VALID" THEN acc ELSE Value({Noted(acc, f) : f \in {Find(acc.table, c)}})

\* The verdict on the signer's path and, under it, the answer of the CRL.
Verdict(says, d) ==
  [result |-> CASE d.result /= "VALID" -> d.result
                [] d.result = "VALID" /\ d.unresolved -> "UNSUPPORTED"
                [] OTHER -> "OK",
   status |-> IF says = "partial" THEN "UNDETERMINED" ELSE says,
   table |-> d.table, flag |-> d.flag]

\* What tc_x509_crl_scope_run makes of the certificate of node i: END without
\* an applicable CRL, INVALID for one that does not verify.
Evaluate(i) ==
  LET c == table.nodes[i].certificate
      none == [result |-> "END", status |-> "UNDETERMINED", table |-> table, flag |-> flag]
  IN CASE crl[c].says = "nothing" -> none
       [] crl[c].says = "bad" -> [none EXCEPT !.result = "INVALID"]
       [] OTHER -> Value({Verdict(crl[c].says, d) :
                            d \in {FoldLeft(Dependency, Checked(table), crl[c].path)}})

(* ---------------------------- the operation ---------------------------- *)

Init ==
  /\ crl \in {f \in [Certificates -> UNION {Crls[c] : c \in Certificates}] :
                \A c \in Certificates : f[c] \in Crls[c]}
  /\ ocsp \in {f \in [Certificates -> UNION {Responses[c] : c \in Certificates}] :
                 \A c \in Certificates : f[c] \in Responses[c]}
  /\ reports \in BOOLEAN
  /\ capacity \in Capacities
  /\ table = [nodes |-> [n \in 1..capacity |-> EmptyNode],
              head |-> [n \in 1..capacity |-> None], count |-> 0]
  /\ held = 0
  /\ pc = "member" /\ member = 1
  /\ purpose = "member" /\ fromOcsp = "NONE"
  /\ loop = [root |-> None, at |-> None, resolved |-> FALSE, previous |-> 0,
             rootResult |-> "UNSUPPORTED", round |-> 0, failed |-> {}]
  /\ flag = FALSE /\ uncovered = None
  /\ out = NoReport

Fail(result) == pc' = "done" /\ out' = [NoReport EXCEPT !.result = result]

\* The end of tc_x509_crl_path_resolve: a revoked member outranks an
\* uncovered one.
Report(status, index) ==
  /\ pc' = "done"
  /\ out' = [result |-> "OK", status |-> status, index |-> index]

\* One member is settled.
Conclude(status) ==
  LET missing == status = "UNDETERMINED"
      first == IF missing /\ uncovered = None THEN member ELSE uncovered
      last == member = Len(Members)
  IN /\ uncovered' = first
     /\ \/ missing /\ ~reports /\ Fail("UNSUPPORTED")
        \/ status = "REVOKED" /\ Report("REVOKED", member)
        \/ /\ status = "GOOD" \/ (missing /\ reports)
           /\ last
           /\ IF first = None THEN Report("GOOD", None) ELSE Report("UNDETERMINED", first)
        \/ /\ status = "GOOD" \/ (missing /\ reports)
           /\ ~last
           /\ pc' = "member" /\ out' = out
     /\ member' = IF pc' = "member" THEN member + 1 ELSE member

\* x509_crl_path_certificate: evidence that relied on an uncovered signer
\* counts only when it shows the member revoked.
Settle(status, f) ==
  Conclude(IF f /\ status /= "REVOKED" THEN "UNDETERMINED" ELSE status)

Stop(result) == Fail(result) /\ UNCHANGED <<member, uncovered>>

\* An unavailable delegate check may not authorise GOOD, but it does not
\* discard an authenticated REVOKED answer; a revoked delegate does.
DelegateAccepts(result, status) ==
  /\ ~(result = "OK" /\ status = "REVOKED")
  /\ ocsp[Members[member]].says = "REVOKED" \/ (result = "OK" /\ status = "GOOD")

\* A revocation from either source wins.
Combine(result, status) == IF result = "OK" /\ status = "REVOKED" THEN "REVOKED" ELSE "GOOD"

\* The answer for the target: for the member's delegate it decides whether
\* the OCSP status may be used, for the member it is combined with OCSP.
Answer(result, status, f) ==
  \/ /\ result \in {"LIMIT", "ARGUMENT"}
     /\ Stop(result) /\ UNCHANGED <<purpose, fromOcsp>>
  \/ /\ result \notin {"LIMIT", "ARGUMENT"}
     /\ purpose = "delegate"
     /\ LET accepted == DelegateAccepts(result, status)
            says == ocsp[Members[member]].says
        IN IF accepted /\ says = "REVOKED"
           THEN Settle("REVOKED", f) /\ UNCHANGED <<purpose, fromOcsp>>
           ELSE /\ pc' = "target" /\ purpose' = "member"
                /\ fromOcsp' = IF accepted THEN "GOOD" ELSE "NONE"
                /\ UNCHANGED <<out, member, uncovered>>
  \/ /\ result \notin {"LIMIT", "ARGUMENT"}
     /\ purpose = "member"
     /\ UNCHANGED <<purpose, fromOcsp>>
     /\ CASE fromOcsp = "GOOD" -> Settle(Combine(result, status), f)
          [] fromOcsp = "NONE" /\ result = "OK" -> Settle(status, f)
          [] fromOcsp = "NONE" /\ result = "END" -> Conclude("UNDETERMINED")
          [] OTHER -> Stop(result)

\* x509_member_evidence: the response, if the member has one, comes first.
Member ==
  /\ pc = "member"
  /\ flag' = FALSE
  /\ LET r == ocsp[Members[member]]
     IN \/ /\ r.says \in {"nothing", "bad"}
           /\ pc' = "target" /\ purpose' = "member" /\ fromOcsp' = "NONE"
           /\ UNCHANGED <<out, member, uncovered>>
        \/ /\ r.says \in {"GOOD", "REVOKED"} /\ r.delegate /= None
           /\ pc' = "target" /\ purpose' = "delegate" /\ fromOcsp' = "NONE"
           /\ UNCHANGED <<out, member, uncovered>>
        \/ /\ r.says = "GOOD" /\ r.delegate = None
           /\ pc' = "target" /\ purpose' = "member" /\ fromOcsp' = "GOOD"
           /\ UNCHANGED <<out, member, uncovered>>
        \/ /\ r.says = "REVOKED" /\ r.delegate = None
           /\ Settle("REVOKED", FALSE) /\ UNCHANGED <<purpose, fromOcsp>>
  /\ UNCHANGED <<table, held, loop>> /\ UNCHANGED world

Target == IF purpose = "member" THEN Members[member] ELSE ocsp[Members[member]].delegate

\* tc_x509_crl_resolve_dependencies up to the fixpoint: a node that is
\* already proven, or known to be uncovered, answers at once.
Resolve ==
  /\ pc = "target"
  /\ \E f \in {Find([table EXCEPT !.count = held], Target)} :
     LET s == f.table.nodes[f.index].status
     IN /\ table' = f.table
        /\ \/ f.result /= "OK" /\ Answer(f.result, "NONE", flag) /\ loop' = loop
           \/ f.result = "OK" /\ s = "GOOD" /\ Answer("OK", "GOOD", flag) /\ loop' = loop
           \/ f.result = "OK" /\ s = "UNCOVERED" /\ Answer("END", "NONE", flag) /\ loop' = loop
           \/ /\ f.result = "OK" /\ s \in {"UNDETERMINED", "REVOKED"}
              /\ pc' = "scan"
              /\ loop' = [loop EXCEPT !.root = f.index, !.at = 1, !.resolved = FALSE,
                                      !.previous = f.table.count,
                                      !.rootResult = "UNSUPPORTED", !.round = 1]
              /\ UNCHANGED <<purpose, fromOcsp, member, uncovered, out>>
  /\ UNCHANGED <<held, flag>> /\ UNCHANGED world

\* A settled node is skipped, except the root, whose evidence is needed.
Settled(i) == i /= loop.root /\ table.nodes[i].status /= "UNDETERMINED"

Skip ==
  /\ pc = "scan" /\ loop.at <= table.count /\ Settled(loop.at)
  /\ loop' = [loop EXCEPT !.at = @ + 1]
  /\ UNCHANGED <<table, held, pc, member, purpose, fromOcsp, flag, uncovered, out>>
  /\ UNCHANGED world

\* Mutant: only a resolved target leaves its nodes to the next one.
KeepNodesResolved(result, t) == IF result = "OK" THEN t.count ELSE held

\* LIMIT and ARGUMENT end the operation, every other result keeps the nodes.
KeepNodes(result, t) == IF result \in {"LIMIT", "ARGUMENT"} THEN held ELSE t.count

\* Leave the fixpoint with an answer for the target.
Leave(result, status, t, f) ==
  /\ held' = KeepNodes(result, t)
  /\ Answer(result, status, f)

\* One turn of the inner loop of tc_x509_crl_nodes_resolve.
EvaluateNode ==
  /\ pc = "scan" /\ loop.at <= table.count /\ ~Settled(loop.at)
  /\ \E e \in {Evaluate(loop.at)} :
     LET i == loop.at
         isRoot == i = loop.root
         next == [loop EXCEPT !.at = i + 1,
                              !.rootResult = IF isRoot THEN e.result ELSE @]
         settled(s) == [e.table EXCEPT !.nodes[i].status = s]
         Continue == UNCHANGED <<held, pc, member, purpose, fromOcsp, uncovered, out>>
     IN /\ flag' = e.flag
        /\ \/ /\ e.result \in {"LIMIT", "ARGUMENT"}
              /\ table' = e.table /\ loop' = loop /\ Leave(e.result, "NONE", e.table, e.flag)
           \/ /\ e.result = "END" /\ table' = settled("UNCOVERED")
              /\ IF isRoot THEN loop' = loop /\ Leave("END", "NONE", e.table, e.flag)
                 ELSE loop' = [loop EXCEPT !.at = i + 1, !.resolved = TRUE] /\ Continue
           \/ /\ \/ e.result \in {"INVALID", "UNSUPPORTED"}
                 \/ e.result = "OK" /\ e.status = "UNDETERMINED"
              /\ table' = e.table /\ loop' = next /\ Continue
           \/ /\ e.result = "OK" /\ e.status /= "UNDETERMINED"
              /\ table' = settled(e.status)
              /\ IF isRoot THEN loop' = loop /\ Leave("OK", e.status, e.table, e.flag)
                 ELSE loop' = [next EXCEPT !.resolved = TRUE] /\ Continue
  /\ UNCHANGED world

\* Work runs out, or the certificate source fails, during an evaluation,
\* before or after it has entered the nodes of a signer's path.
Interrupted ==
  /\ pc = "scan" /\ loop.at <= table.count /\ ~Settled(loop.at)
  /\ \E e \in {Checked(table), Evaluate(loop.at)} :
     \E r \in {"LIMIT", "ARGUMENT", "UNSUPPORTED", "INVALID"} :
       /\ table' = e.table /\ flag' = e.flag
       /\ loop' = [loop EXCEPT !.failed = @ \cup {member}]
       /\ Leave(r, "NONE", e.table, e.flag)
  /\ UNCHANGED world

\* A round that neither settled nor added a node ends the fixpoint.
EndRound ==
  /\ pc = "scan" /\ loop.at > table.count
  /\ IF ~loop.resolved /\ table.count = loop.previous
     THEN /\ loop' = loop
          /\ Leave(IF loop.rootResult = "INVALID" THEN "INVALID" ELSE "UNSUPPORTED",
                   "NONE", table, flag)
     ELSE /\ loop' = [loop EXCEPT !.at = 1, !.resolved = FALSE, !.previous = table.count,
                                !.round = @ + 1]
          /\ UNCHANGED <<held, pc, member, purpose, fromOcsp, uncovered, out>>
  /\ UNCHANGED <<table, flag>> /\ UNCHANGED world

\* The call has returned.
Done == pc = "done" /\ UNCHANGED vars

Next == Member \/ Resolve \/ Skip \/ EvaluateNode \/ Interrupted \/ EndRound \/ Done

Spec == Init /\ [][Next]_vars

(* ------------------------------ properties ----------------------------- *)

\* The reference: the least set of certificates whose CRL shows them good
\* under a signer path of certificates of the set.  With lenient, a
\* certificate no CRL applies to may stand on a signer path as well.
RECURSIVE Grounded(_, _)
Grounded(known, lenient) ==
  LET ok(c) == \A i \in 1..Len(crl[c].path) :
                  crl[c].path[i] \in known \/ (lenient /\ crl[crl[c].path[i]].says = "nothing")
      more == {c \in Certificates : crl[c].says = "GOOD" /\ ok(c)}
  IN IF more = known THEN known ELSE Grounded(more, lenient)

CrlGood(lenient) == Grounded({}, lenient)

CrlRevoked(lenient) ==
  {c \in Certificates : crl[c].says = "REVOKED" /\
     \A i \in 1..Len(crl[c].path) : crl[c].path[i] \in CrlGood(lenient) \/
                                    (lenient /\ crl[crl[c].path[i]].says = "nothing")}

OcspGood == {c \in Certificates : ocsp[c].says = "GOOD" /\
               (ocsp[c].delegate = None \/ ocsp[c].delegate \in CrlGood(FALSE))}

OcspRevoked(lenient) ==
  {c \in Certificates : ocsp[c].says = "REVOKED" /\
     (ocsp[c].delegate = None \/ ocsp[c].delegate \notin CrlRevoked(lenient))}

TypeOK ==
  /\ table.count \in held..capacity
  /\ \A i \in 1..table.count : /\ table.nodes[i].certificate \in Certificates
                               /\ table.nodes[i].next < i
  /\ pc = "scan" => loop.root \in 1..table.count
  /\ out.result \in {"PENDING", "OK", "INVALID", "UNSUPPORTED", "LIMIT", "ARGUMENT"}

\* A node is GOOD or REVOKED only on evidence that rests, through signer
\* paths of GOOD nodes, on the anchor: two CRLs never vouch for each other's
\* signers, in whatever order members and nodes were evaluated.
NodesGrounded ==
  \A i \in 1..table.count :
    /\ table.nodes[i].status = "GOOD" => table.nodes[i].certificate \in CrlGood(reports)
    /\ table.nodes[i].status = "REVOKED" => table.nodes[i].certificate \in CrlRevoked(reports)

\* No certificate has two nodes, which could disagree: the hash chains left
\* by earlier targets of the path still lead to every node.
NodesDistinct ==
  \A i, j \in 1..table.count :
    table.nodes[i].certificate = table.nodes[j].certificate => i = j

\* A path reported GOOD has every member shown good without any uncovered
\* signer.  No member is shown revoked by its OCSP response, nor by a CRL
\* unless the certificate source failed while that member was resolved: the
\* code then keeps an OCSP GOOD (x509_revocation.c:536).
GoodPathIsGood ==
  out.status = "GOOD" =>
    \A i \in 1..Len(Members) :
      /\ Members[i] \in CrlGood(FALSE) \cup OcspGood
      /\ Members[i] \notin OcspRevoked(FALSE)
      /\ Members[i] \notin CrlRevoked(FALSE) \/ i \in loop.failed

\* A revocation from either source wins (x509_revocation.c:519-520): a path
\* with a member that a CRL shows revoked is never reported GOOD.  The code
\* does not do so when the certificate source fails with UNSUPPORTED or
\* INVALID while the CRLs of a member with an OCSP GOOD are consulted.
EitherSourceWins ==
  out.status = "GOOD" => \A i \in 1..Len(Members) : Members[i] \notin CrlRevoked(FALSE)

\* OCSP answers of a delegate that the CRLs show revoked.
OcspDisowned == {c \in Certificates : ocsp[c].says = "REVOKED" /\ ocsp[c].delegate \in CrlRevoked(reports)}

\* A member reported REVOKED is revoked by acceptable evidence, and it is
\* the first such member.  Only a source that failed meanwhile can hide the
\* revocation of a delegate or of an earlier member.
RevokedIsRevoked ==
  out.status = "REVOKED" =>
    /\ \/ Members[out.index] \in CrlRevoked(reports) \cup OcspRevoked(reports)
       \/ out.index \in loop.failed /\ Members[out.index] \in OcspDisowned
    /\ \A i \in 1..out.index - 1 :
         Members[i] \notin CrlRevoked(FALSE) \cup OcspRevoked(FALSE) \/ i \in loop.failed

\* The certificates that may be consulted up to member n: the members, their
\* delegates, and those on the signer paths of the CRLs about them.
RECURSIVE Reached(_)
Reached(S) ==
  LET more == S \cup UNION {ToSet(crl[c].path) : c \in S}
  IN IF more = S THEN S ELSE Reached(more)

Consulted(n) ==
  Reached({Members[i] : i \in 1..n} \cup ({ocsp[Members[i]].delegate : i \in 1..n} \ {None}))

Shown(i, S) == Members[i] \in S

\* When every member has a status of its own that rests on no uncovered
\* signer, and nothing ran out or failed, the operation finds the answer:
\* REVOKED if a member is revoked, otherwise GOOD.  A caller that asked for
\* uncovered members may hear UNDETERMINED instead of GOOD, or REVOKED on
\* the word of an uncovered signer, but only where a certificate without any
\* CRL was consulted.  Neither the order of the nodes nor what earlier
\* targets left behind changes this.
DeterminedIsReported ==
  LET members == 1..Len(Members)
      revoked == CrlRevoked(FALSE) \cup (OcspRevoked(FALSE) \cap OcspRevoked(reports))
  IN pc = "done" /\ out.result \notin {"LIMIT", "ARGUMENT"} /\ loop.failed = {} /\
     (\A i \in members : Shown(i, CrlGood(FALSE) \cup OcspGood \cup revoked))
       => /\ out.result = "OK"
          /\ LET answer == IF \E i \in members : Shown(i, revoked) THEN "REVOKED" ELSE "GOOD"
             IN \/ out.status = answer
                \/ /\ answer = "GOOD" /\ reports
                   /\ \E c \in Consulted(out.index) : crl[c].says = "nothing"

\* The fixpoint ends, whatever nodes are added while it runs: every round
\* but the last settles or adds a node, and a table has only so many.
RoundsBounded == loop.round <= 2 * capacity
=============================================================================
