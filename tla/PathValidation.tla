--------------------------- MODULE PathValidation ---------------------------
(***************************************************************************)
(* Validation of an ordered chain (x509_path.c, x509_path_extensions.c):   *)
(* the phases run in a fixed order over caller storage, share one cache of *)
(* extension summaries, and the first status other than VALID ends the     *)
(* call.  The cache may hold what an earlier validation left there.        *)
(* Policies are the subject of PolicyGraph and a verdict here; any charge  *)
(* to the work budget may find it exhausted.                               *)
(***************************************************************************)
EXTENDS Integers, Sequences, FiniteSets

CONSTANTS
  MaxCertificates,     \* options->max_certificates
  CacheCapacity        \* workspace->certificate_capacity, summary_capacity

VARIABLES
  chain,       \* from the certificate the anchor issued to the target
  anchor,      \* its path length limit and name constraints, and the caller's
  usage,       \* purpose and flags of the caller
  summaries,   \* the caller's summary cache
  phase, index,
  remaining,   \* intermediates still allowed: by the path, by the anchor
  status, report

vars == <<chain, anchor, usage, summaries, phase, index, remaining, status, report>>

None == 99
Far == 98        \* name constraints that state a distance
NotReady == [ready |-> FALSE]

(* Certificates: what the passes look at.  names is the tree the subject   *)
(* lies in, permitted the one its constraints allow below it.  cert_sign   *)
(* is ABSENT without a keyUsage; wanted says whether the usages the caller *)
(* may ask for are in it.  flaw is a malformed alternative name or an      *)
(* unknown critical extension.                                             *)
Authority ==
  [parse |-> "OK", in_time |-> TRUE, signature |-> "VALID", ca |-> TRUE, cert_sign |-> "SET",
   path_length |-> None, self_issued |-> FALSE, names |-> 1, permitted |-> None,
   flaw |-> "NONE", wanted |-> FALSE, eku |-> "ABSENT", copy |-> 0]
EndEntity == [Authority EXCEPT !.ca = FALSE, !.cert_sign = "ABSENT"]

Lengths == {[Authority EXCEPT !.path_length = n, !.self_issued = s] :
              n \in {None, 0, 1}, s \in BOOLEAN}
Named == {[Authority EXCEPT !.names = n, !.permitted = p, !.self_issued = s] :
            n \in {1, 2}, p \in {None, 1}, s \in BOOLEAN}
Usages == {[Authority EXCEPT !.eku = e] : e \in {"WANTED", "OTHER", "ANY"}}
Flawed == {[Authority EXCEPT !.in_time = FALSE], [Authority EXCEPT !.signature = "INVALID"],
           [Authority EXCEPT !.signature = "UNSUPPORTED"], [Authority EXCEPT !.cert_sign = "CLEAR"],
           [Authority EXCEPT !.cert_sign = "ABSENT"], [Authority EXCEPT !.flaw = "CRITICAL"],
           [Authority EXCEPT !.flaw = "NAMES"], [Authority EXCEPT !.permitted = Far],
           [Authority EXCEPT !.parse = "INVALID"], EndEntity}
Intermediates == Lengths \cup Named \cup Usages \cup Flawed
Targets == {[EndEntity EXCEPT !.names = n, !.eku = e] :
              n \in {1, 2}, e \in {"ABSENT", "WANTED", "OTHER", "ANY"}}
             \cup {[EndEntity EXCEPT !.self_issued = TRUE, !.names = 2]}
OtherTargets ==
  {[EndEntity EXCEPT !.signature = "INVALID"], [EndEntity EXCEPT !.in_time = FALSE],
   [EndEntity EXCEPT !.flaw = "CRITICAL"], [EndEntity EXCEPT !.permitted = 1],
   [EndEntity EXCEPT !.permitted = Far], [Authority EXCEPT !.permitted = Far],
   [EndEntity EXCEPT !.cert_sign = "CLEAR"], [EndEntity EXCEPT !.cert_sign = "CLEAR", !.wanted = TRUE],
   [EndEntity EXCEPT !.cert_sign = "SET"], [Authority EXCEPT !.path_length = 0]}

\* Certificates of one kind at two places of the chain are two certificates;
\* copy tells them apart.
Numbered(s) == [i \in DOMAIN s |-> [s[i] EXCEPT !.copy = i]]
Pairs == ((Lengths \cup Named) \X (Lengths \cup Named))
           \cup (Intermediates \X {Authority}) \cup ({Authority} \X Intermediates)
Chains ==
  {Numbered(<<pair[1], pair[2], t>>) : pair \in Pairs, t \in Targets}
    \cup {Numbered(<<a, Authority, t>>) : a \in Lengths \cup Named, t \in OtherTargets}
    \cup {Numbered(<<a, b, c, EndEntity>>) : a \in Lengths, b \in Lengths, c \in Lengths}
    \cup {<<>>, <<Authority, Authority, EndEntity>>,
           Numbered(<<Authority, Authority, Authority, Authority, EndEntity>>)}

Free == [path_len |-> None, caller |-> None, permitted |-> None]
Anchors == [path_len : {None, 0, 1}, caller : {None}, permitted : {None, 1}]
             \cup [path_len : {None}, caller : {1, Far}, permitted : {None, Far}]
AnyUsage == [key_usage |-> FALSE, require_ku |-> FALSE, purpose |-> FALSE, require_eku |-> FALSE, inhibit_any |-> FALSE, target_only |-> FALSE]
CallerUsages ==
  {AnyUsage, [AnyUsage EXCEPT !.key_usage = TRUE], [AnyUsage EXCEPT !.require_ku = TRUE],
   [AnyUsage EXCEPT !.purpose = TRUE],
   [AnyUsage EXCEPT !.purpose = TRUE, !.target_only = TRUE],
   [AnyUsage EXCEPT !.purpose = TRUE, !.inhibit_any = TRUE, !.require_eku = TRUE, !.key_usage = TRUE,
                    !.require_ku = TRUE]}

Count == Len(chain)
IsTarget(i) == i = Count

\* What an earlier validation of another chain may have left in the cache.
Summary(c) == [ready |-> TRUE, ca |-> c.ca, cert_sign |-> c.cert_sign, path_length |-> c.path_length,
               self_issued |-> c.self_issued, permitted |-> c.permitted,
               flaw |-> c.flaw, wanted |-> c.wanted, eku |-> c.eku]
Stale == {NotReady, Summary(Authority)}

In(p, i) == status = "NONE" /\ phase = p /\ index = i
Return(s) ==
  /\ status' = s
  /\ UNCHANGED <<chain, anchor, usage, phase, index, remaining, report>>
GoTo(p, i) ==
  /\ phase' = p /\ index' = i /\ UNCHANGED <<chain, anchor, usage, status, report>>

\* The summary of entry i, filled on first use.
Summarized(i) ==
  IF summaries[i].ready THEN summaries[i]
  ELSE [Summary(chain[i]) EXCEPT !.self_issued = @ /\ ~IsTarget(i)]
Fill(i) == summaries' = [summaries EXCEPT ![i] = Summarized(i)]

Init ==
  /\ chain \in Chains /\ anchor \in Anchors /\ usage \in CallerUsages
  /\ (usage # AnyUsage) => anchor = Free
  /\ \E s \in Stale : summaries = [i \in 1 .. CacheCapacity |-> s]
  /\ phase = "START" /\ index = 1 /\ remaining = <<0, 0>> /\ status = "NONE" /\ report = <<>>

\* Mutant: the cache is taken over as it is.
StartStale ==
  /\ In("START", 1)
  /\ IF Count = 0 THEN Return("INVALID") /\ UNCHANGED summaries
     ELSE IF Count > MaxCertificates \/ Count > CacheCapacity
     THEN Return("LIMIT") /\ UNCHANGED summaries
     ELSE /\ GoTo("BASIC", 1) /\ remaining' = <<Count - 1, anchor.path_len>>
          /\ UNCHANGED summaries

\* Arguments, storage, the byte budget, and the views: the cache is cleared.
Start ==
  /\ In("START", 1)
  /\ IF Count = 0 THEN Return("INVALID") /\ UNCHANGED summaries
     ELSE IF Count > MaxCertificates \/ Count > CacheCapacity
     THEN Return("LIMIT") /\ UNCHANGED summaries
     ELSE /\ GoTo("BASIC", 1) /\ remaining' = <<Count - 1, anchor.path_len>>
          /\ summaries' = [i \in DOMAIN summaries |-> IF i <= Count THEN NotReady ELSE summaries[i]]

\* Mutant: the limit of a certificate is charged for that certificate too.
LowerEarly(i) ==
  LET s == Summarized(i)
      own == IF s.path_length # None /\ s.path_length < remaining[1] THEN s.path_length ELSE remaining[1]
  IN  IF s.self_issued THEN <<own, remaining[2]>>
      ELSE <<own - 1, IF anchor.path_len = None THEN None ELSE remaining[2] - 1>>

\* The limits behind entry i: it uses one place unless it is self-issued,
\* then its own limit applies to what follows.
Lower(i) ==
  LET s == Summarized(i)
      used == IF s.self_issued THEN remaining
              ELSE <<remaining[1] - 1, IF anchor.path_len = None THEN None ELSE remaining[2] - 1>>
  IN  IF s.path_length # None /\ s.path_length < used[1] THEN <<s.path_length, used[2]>> ELSE used

Exceeded(limits) == limits[1] < 0 \/ limits[2] < 0

\* tc_x509_path_basic on entry i; before the first one the chain is searched
\* for a certificate that occurs twice.
Basic(i) ==
  LET c == chain[i]
      s == Summarized(i)
      repeated == i = 1 /\ \E j, k \in 1 .. Count : j # k /\ chain[j] = chain[k]
  IN  /\ In("BASIC", i)
      /\ IF repeated THEN Return("INVALID") /\ UNCHANGED summaries
         ELSE IF c.parse # "OK" THEN Return(c.parse) /\ UNCHANGED summaries
         ELSE IF ~c.in_time THEN Return("INVALID") /\ UNCHANGED summaries
         ELSE IF c.signature # "VALID" THEN Return(c.signature) /\ UNCHANGED summaries
         ELSE IF IsTarget(i) THEN GoTo("NAMES", 1) /\ UNCHANGED <<summaries, remaining>>
         ELSE /\ Fill(i)
              /\ IF ~s.ca \/ s.cert_sign = "CLEAR" \/ Exceeded(Lower(i)) THEN Return("INVALID")
                 ELSE GoTo("BASIC", i + 1) /\ remaining' = Lower(i)

\* A self-issued intermediate may carry an old name.
Exempt(j) == ~IsTarget(j) /\ Summarized(j).self_issued

Outside(permitted, j) == permitted # None /\ ~Exempt(j) /\ chain[j].names # permitted

\* One set of constraints on the entries S; tc_x509_path_constraint_distances
\* comes first.
Judged(permitted, S) ==
  IF permitted = Far THEN "UNSUPPORTED"
  ELSE IF \E j \in S : Outside(permitted, j) THEN "INVALID" ELSE "VALID"

\* path_names_phase: tc_x509_path_names with the constraints of each issuer on
\* what follows it, then path_initial_subtrees with the caller's and the
\* anchor's on every entry.
Names(i) ==
  LET every == 1 .. Count
      caller == Judged(anchor.caller, every)
      verdict == IF ~IsTarget(i) THEN Judged(Summarized(i).permitted, i + 1 .. Count)
                 ELSE IF caller # "VALID" THEN caller ELSE Judged(anchor.permitted, every)
  IN  /\ In("NAMES", i) /\ UNCHANGED remaining
      /\ IF IsTarget(i) THEN UNCHANGED summaries ELSE Fill(i)
      /\ IF verdict # "VALID" THEN Return(verdict)
         ELSE IF IsTarget(i) THEN GoTo("POLICY", 1) ELSE GoTo("NAMES", i + 1)

\* tc_x509_path_policies by its verdict.
PolicyPhase ==
  /\ In("POLICY", 1) /\ UNCHANGED <<summaries, remaining>>
  /\ \E verdict \in {"VALID", "INVALID", "UNSUPPORTED"} :
       IF verdict = "VALID" THEN GoTo("USAGE", 1) ELSE Return(verdict)

\* extended_key_usage_permits.
Permits(eku) == ~usage.purpose \/ eku = "WANTED" \/ (eku = "ANY" /\ ~usage.inhibit_any)

\* Mutant: a usage is only asked of a certificate that must have one.
MissingOptional(s) ==
  \/ usage.require_ku /\ (s.cert_sign = "ABSENT" \/ (usage.key_usage /\ ~s.wanted))
  \/ usage.require_eku /\ s.eku = "ABSENT"

\* What the caller asks of the target's usages.
Missing(s) ==
  \/ usage.require_ku /\ s.cert_sign = "ABSENT"
  \/ usage.require_eku /\ s.eku = "ABSENT"
  \/ usage.key_usage /\ s.cert_sign # "ABSENT" /\ ~s.wanted

\* tc_x509_path_extensions on entry i.
Usage(i) ==
  LET s == Summarized(i)
      refused == s.eku # "ABSENT" /\ ~Permits(s.eku) /\ (~usage.target_only \/ IsTarget(i))
      misplaced == ~s.ca /\ (s.permitted # None \/ s.cert_sign = "SET")
  IN  /\ In("USAGE", i) /\ Fill(i) /\ UNCHANGED remaining
      /\ IF s.flaw # "NONE" THEN Return(IF s.flaw = "NAMES" THEN "INVALID" ELSE "UNSUPPORTED")
         ELSE IF refused THEN Return("INVALID")
         ELSE IF IsTarget(i) /\ s.permitted = Far THEN Return("UNSUPPORTED")
         ELSE IF misplaced \/ (IsTarget(i) /\ Missing(s)) THEN Return("INVALID")
         ELSE IF IsTarget(i) THEN GoTo("WRITE", 1) ELSE GoTo("USAGE", i + 1)

\* path_result_write: the one write to the caller's report.
Write ==
  /\ In("WRITE", 1) /\ status' = "VALID" /\ report' = <<chain[Count]>>
  /\ UNCHANGED <<chain, anchor, usage, summaries, phase, index, remaining>>

Exhausted ==
  /\ status = "NONE" /\ phase # "WRITE" /\ Return("LIMIT") /\ UNCHANGED summaries

Next ==
  \/ Start \/ PolicyPhase \/ Write \/ Exhausted
  \/ \E i \in 1 .. Count : Basic(i) \/ Names(i) \/ Usage(i)
  \/ status # "NONE" /\ UNCHANGED vars

Spec == Init /\ [][Next]_vars

\* The passes stay inside the cache, and a summary that is ready while they
\* run is the one of the certificate in its place.
TypeOK ==
  /\ phase \in {"START", "BASIC", "NAMES", "POLICY", "USAGE", "WRITE"}
  /\ status \in {"NONE", "VALID", "INVALID", "UNSUPPORTED", "LIMIT"}
  /\ phase # "START" =>
       /\ Count \in 1 .. CacheCapacity /\ index \in 1 .. Count
       /\ \A i \in 1 .. Count :
            summaries[i].ready => summaries[i].path_length = chain[i].path_length
                                    /\ summaries[i].permitted = chain[i].permitted
                                    /\ summaries[i].eku = chain[i].eku

(* Reference: what a valid chain is, without the order of the passes.      *)
Counted(i) == ~IsTarget(i) /\ ~chain[i].self_issued
CountedIn(S) == Cardinality({i \in S : Counted(i)})
Constrained(i) == IsTarget(i) \/ ~chain[i].self_issued
LengthsKept ==
  /\ anchor.path_len # None => CountedIn(1 .. Count) <= anchor.path_len
  /\ \A i \in 1 .. Count - 1 :
       chain[i].path_length # None => CountedIn(i + 1 .. Count) <= chain[i].path_length
NamesKept ==
  \A j \in 1 .. Count : Constrained(j) =>
    /\ {anchor.caller, anchor.permitted} \subseteq {None, chain[j].names}
    /\ \A i \in 1 .. j - 1 : chain[i].permitted \in {None, chain[j].names}
UsageKept ==
  /\ usage.require_eku => chain[Count].eku # "ABSENT"
  /\ usage.require_ku => chain[Count].cert_sign # "ABSENT"
  /\ usage.key_usage => chain[Count].wanted \/ chain[Count].cert_sign = "ABSENT"
  /\ usage.purpose =>
       \A i \in 1 .. Count :
         (IsTarget(i) \/ ~usage.target_only) =>
           chain[i].eku \in {"ABSENT", "WANTED"} \cup (IF usage.inhibit_any THEN {} ELSE {"ANY"})
Sound(i) ==
  /\ chain[i].parse = "OK" /\ chain[i].in_time /\ chain[i].signature = "VALID"
  /\ chain[i].flaw = "NONE" /\ chain[i].permitted # Far
  /\ IF IsTarget(i) THEN chain[i].ca \/ (chain[i].cert_sign # "SET" /\ chain[i].permitted = None)
     ELSE chain[i].ca /\ chain[i].cert_sign # "CLEAR"
Good ==
  /\ Count > 0 /\ \A i, j \in 1 .. Count : i # j => chain[i] # chain[j]
  /\ \A i \in 1 .. Count : Sound(i)
  /\ LengthsKept /\ NamesKept /\ UsageKept

\* Only good chains are valid, whatever the cache held before.
ValidIsGood == status = "VALID" => Good

\* A good chain is turned down by no pass but the policies.
GoodIsValid ==
  (Good /\ status \in {"INVALID", "UNSUPPORTED"}) => phase = "POLICY"

\* The places left are what the anchor's limit leaves, and the least of what
\* the length of the chain and the limits declared so far leave: none is
\* forgotten, and none is charged for what precedes it.
RemainingExact ==
  LET declared == {i \in 1 .. index - 1 : chain[i].path_length # None}
      places == {Count - 1 - CountedIn(1 .. index - 1)}
                  \cup {chain[i].path_length - CountedIn(i + 1 .. index - 1) : i \in declared}
  IN  phase = "BASIC" =>
        /\ remaining[2] = IF anchor.path_len = None THEN None
                          ELSE anchor.path_len - CountedIn(1 .. index - 1)
        /\ remaining[1] \in places /\ \A n \in places : remaining[1] <= n

=============================================================================
