----------------------------- MODULE PathSearch -----------------------------
(***************************************************************************)
(* Discovery of a certification path (x509_search.c): a depth-first walk   *)
(* from the target certificate towards a trust anchor, over a source of    *)
(* candidates and anchors that the caller supplies (x509_store.c,          *)
(* pki_source_internal.h).  The walk keeps its stack in caller storage,    *)
(* pays for every step out of a work budget, and must tell "there is no    *)
(* path" from "some branch was not looked at".  Validation of a found      *)
(* chain is one step here, with the verdicts the certificates carry.       *)
(***************************************************************************)
EXTENDS Integers, Sequences, FiniteSets, Functions

CONSTANTS
  Capacities,        \* search->capacity a caller may give
  MaxCertificates,   \* options->max_certificates
  MaxInput,          \* options->max_input, in units of certificate length
  Budgets,           \* work a caller may give
  StoreSize          \* number of candidate records

VARIABLES
  capacity,
  store,     \* the candidate records
  anchors,   \* the anchor records
  target,
  frames,    \* the search stack: next anchor, next candidate, bytes, issuer
  path,      \* the certificates on the stack, the target last
  work,
  failure,   \* what the search answers when it runs out of branches
  outcome    \* the status returned, and the path reported with it

vars == <<capacity, store, anchors, target, frames, path, work, failure, outcome>>

(* Names. *)
Inner == 1
Outer == 2
Root == 3
NoName == 0

Certificate(subject, issuer) ==
  [subject |-> subject, issuer |-> issuer, length |-> 1,
   framed |-> TRUE, parse |-> "OK", verdict |-> "VALID"]

\* Cross-certified authorities, and certificates that are too long, malformed
\* (with a readable prefix or without), badly signed, or not supported.
CandidateRecords ==
  {Certificate(s, i) : s \in {Inner, Outer}, i \in {Inner, Outer, Root}}
    \cup {[Certificate(Inner, Root) EXCEPT !.length = 2],
          [Certificate(Inner, Root) EXCEPT !.parse = "INVALID"],
          [Certificate(Inner, Root) EXCEPT !.framed = FALSE, !.parse = "UNSUPPORTED"],
          [Certificate(Inner, Root) EXCEPT !.verdict = "INVALID"],
          [Certificate(Outer, Root) EXCEPT !.verdict = "UNSUPPORTED"]}
Targets == {Certificate(NoName, Inner), [Certificate(NoName, Inner) EXCEPT !.length = 2],
            [Certificate(NoName, Root) EXCEPT !.parse = "INVALID"]}

\* The name of an anchor, NoName for one that is x509_unusable.
AnchorRecords == {<<Root>>, <<NoName, Root>>, <<Outer, Root>>, <<>>}

Pending == [status |-> "NONE", path |-> <<>>, anchor |-> 0]
Depth == Len(frames)
Limit == IF capacity < MaxCertificates THEN capacity ELSE MaxCertificates
Top == frames[Depth]
Searching == outcome.status = "NONE" /\ Depth > 0

Return(status) ==
  /\ outcome' = [Pending EXCEPT !.status = status]
  /\ UNCHANGED <<capacity, store, anchors, target, frames, path, failure>>

\* tc_x509_path_remember: an unevaluated branch forbids a definitive answer.
Remember(status) ==
  IF status = "LIMIT" \/ (status = "UNSUPPORTED" /\ failure # "LIMIT") THEN status ELSE failure

\* What a source callback may do: answer, fail, or add to the work it may spend.
SourceAnswers == {"OK", "LIMIT", "UNSUPPORTED", "ERROR", "GREW"}

\* source_status: a failing source ends the search, it says nothing about
\* certificates; one that added work forfeits all of it.
SourceFailed(answer) ==
  /\ work' = IF answer = "GREW" THEN 0 ELSE work - 1
  /\ Return(IF answer = "GREW" THEN "ERROR" ELSE answer)

\* Cost of comparing a candidate with the certificates on the path.
CompareCost(c) ==
  LET same == {i \in 1 .. Len(path) : path[i].length = c.length}
  IN  Len(path) + Cardinality(same) * c.length

\* A frame that has everything still to try.
Frame(c, bytes) == [anchor |-> 1, candidate |-> 1, bytes |-> bytes, issuer |-> c.issuer]

Init ==
  /\ store \in [1 .. StoreSize -> CandidateRecords]
  /\ capacity \in Capacities /\ anchors \in AnchorRecords /\ target \in Targets /\ work \in Budgets
  /\ frames = <<>> /\ path = <<>> /\ failure = "INVALID" /\ outcome = Pending

\* tc_x509_path_build_work up to the loop: limits first, then the target.
Begin ==
  /\ outcome.status = "NONE" /\ frames = <<>> /\ path = <<>>
  /\ IF Limit = 0 THEN Return("LIMIT") /\ UNCHANGED work
     ELSE IF anchors = <<>> THEN Return("INVALID") /\ UNCHANGED work
     ELSE IF target.length > MaxInput THEN Return("LIMIT") /\ UNCHANGED work
     ELSE IF target.length > work THEN Return("LIMIT") /\ work' = 0
     ELSE /\ work' = work - target.length
          /\ IF target.parse # "OK" THEN Return(target.parse)
             ELSE /\ path' = <<target>> /\ frames' = <<Frame(target, target.length)>>
                  /\ UNCHANGED <<capacity, store, anchors, target, failure, outcome>>

\* tc_x509_path_validate_anchor, by what the certificates deserve.
Validated ==
  LET verdicts == {p.verdict : p \in Range(path)}
  IN  IF "INVALID" \in verdicts THEN "INVALID"
      ELSE IF "UNSUPPORTED" \in verdicts THEN "UNSUPPORTED" ELSE "VALID"

\* One anchor of the top frame: read it, compare names, validate the chain.
TryAnchor ==
  /\ Searching /\ work > 1 /\ Top.anchor <= Len(anchors)
  /\ \E answer \in SourceAnswers :
       IF answer # "OK" THEN SourceFailed(answer)
       ELSE LET name == anchors[Top.anchor]
                next == [frames EXCEPT ![Depth].anchor = @ + 1]
                cost == IF name = NoName THEN 2 ELSE IF name # Top.issuer THEN 3 ELSE 3 + Depth
            IN  /\ work' = IF cost > work THEN 0 ELSE work - cost
                /\ frames' = next
                /\ IF cost > work
                   THEN failure' = Remember("LIMIT") /\ UNCHANGED <<path, outcome>>
                   ELSE IF name # Top.issuer
                   THEN UNCHANGED <<path, failure, outcome>>
                   ELSE /\ failure' = Remember(Validated)
                        /\ outcome' = IF Validated = "VALID"
                                      THEN [status |-> "VALID", path |-> path, anchor |-> Top.anchor]
                                      ELSE outcome
                        /\ UNCHANGED path
                /\ UNCHANGED <<capacity, store, anchors, target>>

\* Whether the walk descends to a candidate: it is not on the path already
\* (by its bytes), it is named as the issuer, and it parses.

\* Mutant: only the certificate below is compared, not the whole path.
OnPathBelow(c) == c = Head(path)

OnPath(c) == c \in Range(path)

Named(c) == c.subject = Top.issuer

\* Mutant: the last place of the caller's storage is not used.
FitsShort(c) == Depth + 1 < Limit /\ c.length <= MaxInput - Top.bytes

Fits(c) == Depth < Limit /\ c.length <= MaxInput - Top.bytes

\* A candidate that is named but does not fit leaves its branch unexplored.
Unexplored(c) == IF Fits(c) THEN failure ELSE "LIMIT"

\* One candidate of the top frame.
TryCandidate ==
  /\ Searching /\ work > 1 /\ Top.anchor > Len(anchors) /\ Top.candidate <= Len(store)
  /\ \E answer \in SourceAnswers :
       IF answer # "OK" THEN SourceFailed(answer)
       ELSE LET c == store[Top.candidate]
                next == [frames EXCEPT ![Depth].candidate = @ + 1]
                cost == 2 + CompareCost(c) + IF OnPath(c) THEN 0
                           ELSE (IF c.framed THEN 1 ELSE c.length)
                                  + (IF Named(c) /\ c.framed THEN c.length ELSE 0)
            IN  IF cost > work THEN Return("LIMIT") /\ work' = 0
                ELSE /\ work' = work - cost
                     /\ UNCHANGED <<capacity, store, anchors, target, outcome>>
                     /\ IF OnPath(c) \/ (c.framed /\ ~Named(c))
                        THEN frames' = next /\ UNCHANGED <<path, failure>>
                        ELSE IF c.parse # "OK"
                        THEN frames' = next /\ failure' = Remember(c.parse) /\ UNCHANGED path
                        ELSE /\ failure' = Unexplored(c)
                             /\ path' = IF Fits(c) THEN <<c>> \o path ELSE path
                             /\ frames' = IF Fits(c)
                                          THEN Append(next, Frame(c, Top.bytes + c.length))
                                          ELSE next

\* Nothing is left to try at the top: return to the certificate below.
Backtrack ==
  /\ Searching /\ work > 0 /\ Top.anchor > Len(anchors) /\ Top.candidate > Len(store)
  /\ work' = work - 1
  /\ frames' = SubSeq(frames, 1, Depth - 1) /\ path' = Tail(path)
  /\ outcome' = IF Depth = 1 THEN [Pending EXCEPT !.status = failure] ELSE outcome
  /\ UNCHANGED <<capacity, store, anchors, target, failure>>

\* The loop, or the source, cannot charge its unit.
OutOfWork ==
  /\ Searching
  /\ work = 0 \/ (work = 1 /\ (Top.anchor <= Len(anchors) \/ Top.candidate <= Len(store)))
  /\ work' = 0 /\ Return("LIMIT")

Done == outcome.status # "NONE" /\ UNCHANGED vars

Next == Begin \/ TryAnchor \/ TryCandidate \/ Backtrack \/ OutOfWork \/ Done

Spec == Init /\ [][Next]_vars

Statuses == {"NONE", "VALID", "INVALID", "UNSUPPORTED", "LIMIT", "ERROR"}

\* The stack and the path grow together within the caller's storage, no
\* certificate is on the path twice, under whatever index the source handed it
\* out, and no step spends work that the budget did not hold.
StackSound ==
  /\ work \in Nat
  /\ Len(path) = Depth /\ Depth <= Limit
  /\ IsInjective(path)

\* The bytes of a path.
Bytes(p) == FoldFunction(LAMBDA c, sum : c.length + sum, 0, p)

\* The bytes in a frame are those of its path.
TypeOK ==
  /\ failure \in {"INVALID", "UNSUPPORTED", "LIMIT"}
  /\ outcome.status \in Statuses
  /\ \A i \in 1 .. Depth : frames[i].bytes = Bytes(SubSeq(path, Depth - i + 1, Depth))

(* Reference: chains of distinct certificates that lead from an anchor to  *)
(* the target.                                                             *)
Chain(p, a) ==
  /\ anchors[a] # NoName /\ Head(p).issuer = anchors[a]
  /\ \A i \in 1 .. Len(p) - 1 : p[i + 1].issuer = p[i].subject
  /\ \A i \in 1 .. Len(p) : p[i].parse = "OK" /\ p[i].verdict = "VALID"
Above == UNION {[1 .. n -> Range(store)] : n \in 0 .. StoreSize}
Chains ==
  {p \in {Append(q, target) : q \in Above} :
     IsInjective(p) /\ \E a \in 1 .. Len(anchors) : Chain(p, a)}

\* A reported path is a chain from the reported anchor to the target, of
\* distinct certificates, within the caller's storage.
FoundIsChain ==
  outcome.status = "VALID" =>
    /\ Chain(outcome.path, outcome.anchor) /\ outcome.path[Len(outcome.path)] = target
    /\ outcome.path \in Chains
    /\ Len(outcome.path) <= Limit

\* A reported path is within max_input.
FoundFits == outcome.status = "VALID" => Bytes(outcome.path) <= MaxInput

\* INVALID is a definitive answer: no chain exists, not even one beyond the
\* limits of this search.
InvalidIsDefinitive == outcome.status = "INVALID" => Chains = {}

\* A search that has tried every branch has found a chain when one fits its
\* limits.
FindsWhatFits ==
  (outcome.status \notin {"NONE", "VALID"} /\ path = <<>> /\ work > 0) =>
    \A p \in Chains : Len(p) > Limit \/ Bytes(p) > MaxInput

=============================================================================
