------------------------------ MODULE CrlScopes -----------------------------
(***************************************************************************)
(* Consulting the CRL scopes of one certificate (src/src/x509_crl_scope.c, *)
(* pki_candidate_internal.h).                                              *)
(*                                                                         *)
(* For each distribution point, then for the fallback names, the code      *)
(* visits every scope once, through the first record that has it.  For     *)
(* each record of the scope it searches a signer; a signer's verdicts on   *)
(* signatures are kept in one table that the next attempt of the same      *)
(* signer reuses.  Proposals of several signers are merged by rank.        *)
(*                                                                         *)
(* A world fixes the indexed records, the candidate signers in the order   *)
(* the source gives them, and the reasons each scope covers for each       *)
(* point.  The choice among the records of one signer is abstracted to the *)
(* highest number (CrlReader has the details).  A check is the verdict     *)
(* on the revocation of the signers that the chosen record depends on      *)
(* (tc_x509_crl_dependencies_check).  Without all_scopes only the record   *)
(* "reference" is consulted.                                               *)
(***************************************************************************)
EXTENDS Integers, Sequences, SequencesExt, FiniteSets, FiniteSetsExt

CONSTANTS Worlds, Reasons

VARIABLES
  world,    \* [index, signers, covers, all, reference]
  pc,       \* "scan", "group", "search" or "done"
  scan,     \* [q, i, pending, failure, contributed] of tc_x509_crl_scopes
  group,    \* [g, chosen, failure, unranked] of tc_x509_crl_group
  search,   \* [k, failure, unresolved] of tc_pki_certificate_search
  cache,    \* [signer, states]: the saved signer and the signature table
  result,   \* what the call returns
  evidence  \* the caller's evidence

vars == <<world, pc, scan, group, search, cache, result, evidence>>

None == 0
Empty == [reasons |-> {}, revoked |-> FALSE]
NoProposal == [base |-> None, result |-> "END", evidence |-> Empty, pendingOnly |-> FALSE]

Records == 1..Len(world.index)
Record(i) == world.index[i]

\* tc_x509_crl_evidence_status.
Status(e) == CASE e.revoked -> "REVOKED"
               [] ~e.revoked /\ e.reasons = Reasons -> "GOOD"
               [] OTHER -> "UNDETERMINED"

(* ---------------------------- scopes indexed --------------------------- *)

NoSlots == [head |-> [b \in Records |-> None], next |-> [i \in Records |-> None],
            rep |-> [i \in Records |-> None]]

\* The chain of representatives of a bucket, newest first.
Chain(slots, bucket) ==
  FoldLeft(LAMBDA c, n : IF c = <<>> \/ slots.next[c[Len(c)]] = None THEN c
                         ELSE Append(c, slots.next[c[Len(c)]]),
           IF slots.head[bucket] = None THEN <<>> ELSE <<slots.head[bucket]>>,
           [n \in Records |-> n])

\* Mutant: a representative replaces the chain of its bucket.
EnterHead(slots, i) ==
  LET bucket == (Record(i).scope % Len(world.index)) + 1
      same == {c \in ToSet(Chain(slots, bucket)) : Record(c).scope = Record(i).scope}
  IN IF Record(i).policy /= "OK" THEN slots
     ELSE IF same /= {} THEN [slots EXCEPT !.rep[i] = Max(same)]
     ELSE [slots EXCEPT !.rep[i] = i, !.head[bucket] = i]

\* One record of tc_x509_crl_scopes_index: it joins the representative its
\* bucket's chain holds for the scope, or becomes one at the head.
Enter(slots, i) ==
  LET bucket == (Record(i).scope % Len(world.index)) + 1
      same == {c \in ToSet(Chain(slots, bucket)) : Record(c).scope = Record(i).scope}
  IN IF Record(i).policy /= "OK" THEN slots
     ELSE IF same /= {} THEN [slots EXCEPT !.rep[i] = Max(same)]
     ELSE [slots EXCEPT !.rep[i] = i, !.next[i] = slots.head[bucket], !.head[bucket] = i]

Representative == FoldLeft(Enter, NoSlots, [i \in Records |-> i]).rep

(* ----------------------------- one attempt ----------------------------- *)

Signs(k, j) == Record(j).key = world.signers[k].key

Fresh == [i \in Records |-> "UNCHECKED"]

\* tc_x509_crl_signature_cached: a verdict in the table is not checked again.
Verdict(states, k, j) ==
  IF states[j] /= "UNCHECKED" THEN states[j] ELSE IF Signs(k, j) THEN "VALID" ELSE "INVALID"

\* The first half of tc_x509_crl_scope_attempt: reuse the saved signer, or
\* forget it, clear the table and validate this one.
SignerOf(k, g) ==
  IF cache.signer = k
  THEN [result |-> IF Verdict(cache.states, k, g) = "VALID" THEN "OK" ELSE "INVALID",
        signer |-> k, states |-> [cache.states EXCEPT ![g] = Verdict(cache.states, k, g)]]
  ELSE IF ~Signs(k, g) THEN [result |-> "INVALID", signer |-> None, states |-> Fresh]
  ELSE IF world.signers[k].path /= "OK"
       THEN [result |-> world.signers[k].path, signer |-> None, states |-> Fresh]
  ELSE [result |-> "OK", signer |-> k, states |-> [Fresh EXCEPT ![g] = "VALID"]]

SameScope(g) == {j \in Records : Record(j).policy = "OK" /\ Record(j).scope = Record(g).scope
                                   /\ Record(j).fresh}

\* The answer of one signer's records of the scope, and the record chosen.
Evaluate(k, g, states, prior, covers) ==
  LET valid == {j \in SameScope(g) : Verdict(states, k, j) = "VALID"}
      top == {j \in valid : \A m \in valid : Record(m).number <= Record(j).number}
  IN IF top = {} THEN NoProposal
     ELSE [base |-> Min(top), pendingOnly |-> FALSE,
           result |-> IF Cardinality({<<Record(j).revoked, Record(j).update>> : j \in top}) = 1
                      THEN "OK" ELSE "INVALID",
           evidence |-> [reasons |-> prior.reasons \cup covers, revoked |-> Record(Min(top)).revoked]]

Checked(k, g, states) ==
  [j \in Records |-> IF j \in SameScope(g) THEN Verdict(states, k, j) ELSE states[j]]

\* tc_x509_crl_dependencies_check: without a selected record there is no
\* signer to establish.
DependenciesCheck(k, p) == IF p.base = None THEN "OK" ELSE world.signers[k].check

\* Mutant: of two records of one rank the first is kept, whatever their dates.
MergeUndated(chosen, p) ==
  IF chosen.base = None \/ Record(p.base).number > Record(chosen.base).number THEN p
  ELSE IF p.result /= "OK" \/ chosen.result /= "OK" \/ p.evidence /= chosen.evidence
       THEN [chosen EXCEPT !.result = "INVALID"]
  ELSE chosen

\* tc_x509_crl_proposal_merge: the higher rank wins, a confirmation replaces
\* a proposal that only waits for it, and equal ranks must agree on the date
\* and the answer.
Merge(chosen, p) ==
  IF chosen.base = None \/ Record(p.base).number > Record(chosen.base).number THEN p
  ELSE IF Record(p.base).number < Record(chosen.base).number THEN chosen
  ELSE IF p.base = chosen.base /\ p.result = "OK" /\ chosen.pendingOnly THEN p
  ELSE IF p.base = chosen.base /\ chosen.result = "OK" /\ p.pendingOnly THEN chosen
  ELSE IF p.result /= "OK" \/ chosen.result /= "OK"
       THEN [chosen EXCEPT !.pendingOnly = @ /\ p.pendingOnly /\ p.base = chosen.base,
                           !.result = IF "UNSUPPORTED" \in {p.result, chosen.result}
                                      THEN "UNSUPPORTED" ELSE "INVALID"]
  ELSE IF p.evidence /= chosen.evidence \/ Record(p.base).update /= Record(chosen.base).update
       THEN [chosen EXCEPT !.result = "INVALID"]
  ELSE chosen

(* ------------------------------ behaviour ------------------------------ *)

Init ==
  /\ world \in Worlds
  /\ pc = "scan"
  /\ scan = [q |-> 1, i |-> world.reference, pending |-> Empty, failure |-> "END", contributed |-> FALSE]
  /\ group = [g |-> 1, chosen |-> NoProposal, failure |-> "END", unranked |-> FALSE]
  /\ search = [k |-> 1, failure |-> "INVALID", unresolved |-> NoProposal]
  /\ cache = [signer |-> None, states |-> Fresh]
  /\ result = "NONE" /\ evidence = Empty

\* The last record consulted.
LastRecord == IF world.all THEN Len(world.index) ELSE world.reference

Covers == world.covers[scan.q][Record(scan.i).scope]
NewSearch == [k |-> 1, failure |-> "INVALID", unresolved |-> NoProposal]

Return(r) == pc' = "done" /\ result' = r /\ UNCHANGED <<group, search, cache>>

\* How the loop over the records goes on after record i gave r.
Settle(r, pending) ==
  IF r = "OK"
  THEN scan' = [scan EXCEPT !.pending = pending, !.contributed = TRUE, !.i =
                  IF Status(pending) = "UNDETERMINED" THEN @ + 1 ELSE LastRecord + 1]
  ELSE scan' = [scan EXCEPT !.i = @ + 1,
                  !.failure = IF r = "UNSUPPORTED" \/ (r /= "END" /\ @ = "END") THEN r ELSE @]

\* Mutant: a record is passed over once one of its reasons is settled.
PassedOverPartly ==
  /\ Record(scan.i).policy = "OK"
  /\ \/ Covers = {} \/ Covers \cap scan.pending.reasons /= {}
     \/ world.all /\ Representative[scan.i] /= scan.i

\* Records that add nothing: their reasons are settled or another record
\* represents their scope.
PassedOver ==
  /\ Record(scan.i).policy = "OK"
  /\ \/ Covers \subseteq scan.pending.reasons
     \/ world.all /\ Representative[scan.i] /= scan.i

Skip ==
  /\ pc = "scan" /\ scan.i <= LastRecord
  /\ PassedOver \/ Record(scan.i).policy /= "OK"
  /\ LET r == IF PassedOver THEN "END" ELSE Record(scan.i).policy
     IN IF world.all THEN Settle(r, scan.pending) /\ UNCHANGED <<pc, result, group, search, cache>>
        ELSE Return(r) /\ UNCHANGED scan
  /\ UNCHANGED <<world, evidence>>

Consult ==
  /\ pc = "scan" /\ scan.i <= LastRecord
  /\ Record(scan.i).policy = "OK" /\ ~PassedOver
  /\ IF world.all
     THEN /\ pc' = "group" /\ UNCHANGED search
          /\ group' = [g |-> 1, chosen |-> NoProposal, failure |-> "END", unranked |-> FALSE]
     ELSE /\ pc' = "search" /\ search' = NewSearch
          /\ group' = [group EXCEPT !.g = scan.i]
  /\ UNCHANGED <<world, scan, cache, result, evidence>>

\* The loops end: the next point, the fallback names, or the verdict.
EndOfRecords ==
  /\ pc = "scan" /\ scan.i > LastRecord
  /\ IF Status(scan.pending) = "UNDETERMINED" /\ scan.q < Len(world.covers)
     THEN /\ scan' = [scan EXCEPT !.q = @ + 1, !.i = world.reference]
          /\ UNCHANGED <<pc, group, search, cache, result, evidence>>
     ELSE /\ Return(IF Status(scan.pending) = "UNDETERMINED" /\ scan.failure /= "END"
                    THEN scan.failure ELSE IF scan.contributed THEN "OK" ELSE "END")
          /\ evidence' = IF result' = "OK" THEN scan.pending ELSE evidence
          /\ UNCHANGED scan
  /\ UNCHANGED world

\* tc_x509_crl_group takes the next record of the scope.
GroupRecord ==
  /\ pc = "group" /\ group.g <= Len(world.index)
  /\ IF Record(group.g).policy = "OK" /\ Representative[group.g] = scan.i
     THEN pc' = "search" /\ search' = NewSearch /\ UNCHANGED group
     ELSE group' = [group EXCEPT !.g = @ + 1] /\ UNCHANGED <<pc, search>>
  /\ UNCHANGED <<world, scan, cache, result, evidence>>

\* The end of the group: an unranked signer leaves the scope undecided.
GroupResult ==
  IF group.unranked THEN "UNSUPPORTED"
  ELSE IF group.chosen.base = None THEN group.failure ELSE group.chosen.result

GroupEnd ==
  /\ pc = "group" /\ group.g > Len(world.index)
  /\ pc' = "scan"
  /\ Settle(GroupResult, [reasons |-> scan.pending.reasons \cup group.chosen.evidence.reasons,
                          revoked |-> group.chosen.evidence.revoked])
  /\ UNCHANGED <<world, group, search, cache, result, evidence>>

\* What the search of one record reports to its caller: r, with the proposal
\* p of the attempt that succeeded.
Report(r, p, unresolved) ==
  IF world.all
  THEN LET waiting == unresolved.base /= None
           settled == IF waiting THEN Merge(p, unresolved) ELSE p
           chosen == IF r = "OK" THEN Merge(group.chosen, settled)
                     ELSE IF waiting THEN Merge(group.chosen, unresolved) ELSE group.chosen
       IN /\ group' = [g |-> group.g + 1, chosen |-> chosen,
                       failure |-> IF r \notin {"OK", "END"} /\ group.failure = "END"
                                   THEN r ELSE group.failure,
                       unranked |-> group.unranked \/ (r = "UNSUPPORTED" /\ ~waiting)]
          /\ pc' = "group" /\ UNCHANGED <<scan, result>>
  ELSE /\ UNCHANGED group
       /\ IF r = "OK" THEN pc' = "scan" /\ Settle("OK", p.evidence) /\ UNCHANGED result
          ELSE pc' = "done" /\ result' = r /\ UNCHANGED scan

Remember(r) == IF r = "UNSUPPORTED" THEN r ELSE search.failure

\* One attempt with signer k, to the end of tc_x509_crl_scope_attempt.
Attempt ==
  /\ pc = "search" /\ search.k <= Len(world.signers)
  /\ \E s \in {SignerOf(search.k, group.g)} :
     \E p \in {Evaluate(search.k, group.g, s.states,
                        IF world.all THEN Empty ELSE scan.pending, Covers)} :
       LET k == search.k
           check == DependenciesCheck(k, p)
           pending == [p EXCEPT !.pendingOnly = p.result = "OK", !.result = "UNSUPPORTED"]
           unresolved == IF s.result = "OK" /\ check = "UNSUPPORTED" /\ world.all /\ p.base /= None
                         THEN Merge(search.unresolved, pending) ELSE search.unresolved
           r == CASE s.result /= "OK" -> s.result
                  [] s.result = "OK" /\ check /= "OK" -> check
                  [] s.result = "OK" /\ check = "OK" /\ p.base = None -> "END"
                  [] OTHER -> IF world.all THEN "OK" ELSE p.result
       IN /\ cache' = [signer |-> s.signer,
                       states |-> IF s.result = "OK" THEN Checked(k, group.g, s.states) ELSE s.states]
          /\ IF r \in {"OK", "END"}
             THEN Report(r, p, unresolved) /\ UNCHANGED search
             ELSE /\ search' = [k |-> k + 1, failure |-> Remember(r), unresolved |-> unresolved]
                  /\ UNCHANGED <<pc, scan, group, result>>
  /\ UNCHANGED <<world, evidence>>

SearchEnd ==
  /\ pc = "search" /\ search.k > Len(world.signers)
  /\ Report(search.failure, NoProposal, search.unresolved)
  /\ UNCHANGED <<world, search, cache, evidence>>

\* Mutant: an interrupted call hands out what it has gathered.
StoppedCommits ==
  /\ pc \in {"scan", "group", "search"}
  /\ Return("LIMIT") /\ evidence' = scan.pending /\ UNCHANGED <<world, scan>>

\* Work limits and failing sources end the call at any step.
Stopped ==
  /\ pc \in {"scan", "group", "search"}
  /\ Return("LIMIT") /\ UNCHANGED <<world, scan, evidence>>

Done == pc = "done" /\ UNCHANGED vars

Next == Skip \/ Consult \/ EndOfRecords \/ GroupRecord \/ GroupEnd \/ Attempt \/ SearchEnd
          \/ Stopped \/ Done

Spec == Init /\ [][Next]_vars

(* ------------------------------ properties ----------------------------- *)

TypeOK ==
  /\ pc \in {"scan", "group", "search", "done"}
  /\ scan.i \in 1..(Len(world.index) + 1) /\ scan.q \in 1..Len(world.covers)
  /\ cache.signer \in 0..Len(world.signers)
  /\ evidence.reasons \subseteq Reasons
  /\ pc = "done" <=> result /= "NONE"
  /\ result /= "OK" => evidence = Empty

\* The table of verdicts belongs to the signer it is saved with: what it
\* holds is what that signer's key says, and that signer has a valid path.
CacheTruthful ==
  cache.signer /= None =>
    /\ world.signers[cache.signer].path = "OK"
    /\ \A j \in Records : cache.states[j] /= "UNCHECKED" =>
         (cache.states[j] = "VALID" <=> Record(j).key = world.signers[cache.signer].key)

\* The records of a scope, and those a signer with a valid path stands for:
\* confirmed when its own revocation check succeeds.
OfScope(s) == {j \in Records : Record(j).policy = "OK" /\ Record(j).scope = s /\ Record(j).fresh}
Signed(j, checks) == \E k \in 1..Len(world.signers) :
  Record(j).key = world.signers[k].key /\ world.signers[k].path = "OK" /\ world.signers[k].check \in checks

Best(s) ==
  LET authentic == {j \in OfScope(s) : Signed(j, {"OK", "UNSUPPORTED"})}
  IN {j \in authentic : \A m \in authentic : Record(m).number <= Record(j).number}

\* The answer a scope gives beyond doubt: its highest records are confirmed
\* and agree on their date and on the answer.
Answers(s, revoked) ==
  /\ Best(s) /= {}
  /\ \A j \in Best(s) : Signed(j, {"OK"}) /\ Record(j).revoked = revoked
  /\ \A j, m \in Best(s) : Record(j).update = Record(m).update

ScopesOf(w) == {w.index[i].scope : i \in 1..Len(w.index)}

CoveredBy(S) == UNION {world.covers[q][s] : q \in 1..Len(world.covers), s \in S}

\* A certificate is GOOD only when scopes whose highest records are confirmed
\* and say it is not revoked cover every reason: a superseded, disputed or
\* unconfirmed record never completes the evidence.
GoodIsCovered ==
  world.all /\ Status(evidence) = "GOOD" =>
    CoveredBy({s \in ScopesOf(world) : Answers(s, FALSE)}) = Reasons

\* Reported as revoked: the highest confirmed records of some scope say so.
RevokedIsJustified ==
  world.all /\ Status(evidence) = "REVOKED" =>
    \E s \in ScopesOf(world) : Answers(s, TRUE) /\ CoveredBy({s}) /= {}

\* Without all_scopes the evidence is that of the reference record's scope
\* alone: one confirmed signer's highest records of it give the answer, and
\* its reasons are all that is settled.
OneScopeAnswers ==
  ~world.all /\ result = "OK" =>
    LET ref == Record(world.reference) IN
    /\ evidence.reasons \subseteq CoveredBy({ref.scope})
    /\ \E k \in 1..Len(world.signers) :
         LET mine == {j \in OfScope(ref.scope) : Record(j).key = world.signers[k].key}
             top == {j \in mine : \A m \in mine : Record(m).number <= Record(j).number}
         IN /\ world.signers[k].path = "OK" /\ world.signers[k].check = "OK"
            /\ ref.key = world.signers[k].key /\ top /= {}
            /\ \A j \in top : Record(j).revoked = evidence.revoked

\* When every signer is in order and every scope gives an answer, no reason
\* is lost: the evidence has all the reasons the scopes cover, or it is final.
NothingLost ==
  LET clean == /\ \A i \in Records : Record(i).policy = "OK" /\ Record(i).fresh /\ Signed(i, {"OK"})
               /\ \A k \in 1..Len(world.signers) :
                    world.signers[k].path = "OK" /\ world.signers[k].check = "OK"
               /\ \A s \in ScopesOf(world) : Answers(s, TRUE) \/ Answers(s, FALSE)
  IN world.all /\ pc = "done" /\ result /= "LIMIT" /\ clean =>
       /\ Status(evidence) = "UNDETERMINED" => evidence.reasons = CoveredBy(ScopesOf(world))
       /\ result = "OK" <=> CoveredBy(ScopesOf(world)) /= {}
       /\ Status(evidence) = "GOOD" \/
            \A s \in ScopesOf(world) : Answers(s, TRUE) /\ CoveredBy({s}) /= {} =>
              Status(evidence) = "REVOKED"
=============================================================================
