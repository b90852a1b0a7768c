----------------------------- MODULE StoragePlan -----------------------------
(***************************************************************************)
(* The storage preflight of every operation that writes caller-owned       *)
(* buffers (pki_storage.c, pki_storage_internal.h): the operation records  *)
(* the ranges it may modify in a fixed array of slots, seals the record,   *)
(* checks every borrowed input against the slots and only then starts.     *)
(* The plans of the callers are data: the size of their slot array, the    *)
(* ranges they record in order, the inputs they check, and what they do    *)
(* with the budget.  A layout is how the caller placed the ranges: at most *)
(* one pair overlaps and at most one range is malformed.                   *)
(***************************************************************************)
EXTENDS Integers, Sequences, FiniteSets, FiniteSetsExt, SequencesExt

CONSTANTS Listed,      \* length of a caller's list of spans
          SizeMax      \* SIZE_MAX: more than any plan costs

VARIABLES op,          \* the plan of the operation whose preflight runs
          layout,      \* [overlap, bad, shared, longer]
          work,        \* the caller's counter
          before,      \* its value when the operation was called
          plan,        \* tc_pki_storage_plan
          stage

vars == <<op, layout, work, before, plan, stage>>

-----------------------------------------------------------------------------
(* The plans.  budget: "caller" copies *work, "own" is SIZE_MAX.  commit:  *)
(* "success" hands *work to finish, "always" stores the rest whatever the  *)
(* outcome, "used" charges what was used after acceptance, "none" leaves   *)
(* the charging to the operation.  A list of spans stands for Listed, and  *)
(* a slot recorded for storage the call does not have stays empty.         *)

Unused == "unused"

Plan(capacity, writes, reads, budget, commit) ==
    [capacity |-> capacity, writes |-> writes, reads |-> reads,
     budget |-> budget, commit |-> commit]

PathStorage == <<"frames", "oids", "left", "right", "matched", "nodes", "edges",
                 "expected", "mappings", "policies", "certificates", "summaries">>

PolicyInputs == << <<"initial policies", 1>>, <<"purpose and names", 3>>,
                   <<"initial policy", Listed>> >>

IndexInputs == << <<"crl spans", 8 * Listed>>, <<"prepared", 4 + 2 * Listed>>,
                  <<"extension spans", 11 * Listed>> >>

PathValidate ==
    Plan(Len(PathStorage) + 1, PathStorage \o <<"out">>,
         << <<"chain array", 1>>, <<"anchor", 1>>, <<"options", 1>>, <<"workspace", 1>>,
            <<"anchor fields", 13>>, <<"chain", Listed>> >> \o PolicyInputs,
         "caller", "always")

PathSearch ==
    Plan(Len(PathStorage) + 4, PathStorage \o <<"path", "search frames", "out", "work">>,
         << <<"source", 1>>, <<"options", 1>>, <<"validation", 1>>, <<"search", 1>>,
            <<"target", 1>> >> \o PolicyInputs,
         "caller", "success")

CmsPathWorkspace == PathStorage \o <<"path", "search frames", "cms certificates",
                                     "signature", "signed digest">>

CmsCredentialWorkspace == CmsPathWorkspace \o <<"held path", "crl states", "revocation nodes",
                                                "scopes", "signer path", "signer policies">>

CmsPathInputs(signer) ==
    << <<"request", 1>> >> \o (IF signer THEN << <<"signer", 1>> >> ELSE <<>>)
    \o << <<"source", 1>>, <<"options", 1>>, <<"workspace", 1>>, <<"parts array", 1>> >>
    \o (IF signer THEN << <<"signer fields", 11>> >> ELSE <<>>)
    \o << <<"spans", 3>>, <<"parts", Listed>> >> \o PolicyInputs

CmsPath(signer) ==
    Plan(Len(CmsPathWorkspace) + 2, CmsPathWorkspace \o <<"out", "work">>,
         CmsPathInputs(signer), "caller", "success")

CmsCredential ==
    Plan(Len(CmsCredentialWorkspace) + 3, CmsCredentialWorkspace \o <<"out", "work", "checked">>,
         CmsPathInputs(FALSE)
         \o << <<"credential workspace", 1>>, <<"revocation", 1>>, <<"index", 1>>,
               <<"records", 1>>, <<"signer policy", 1>>, <<"prepared data", 3>> >>
         \o PolicyInputs \o << <<"metadata", Listed>> >> \o IndexInputs,
         "caller", "success")

CmsSignature ==
    Plan(3, <<"frames", "signature", "work">>,
         << <<"request", 1>>, <<"signer", 1>>, <<"key", 1>>, <<"provider", 1>>, <<"limits", 1>>,
            <<"workspace", 1>>, <<"signer fields", 11>>, <<"fields", 8>> >>,
         "own", "used")

CmsContentDigest ==
    Plan(2, <<"work", "matched">>, << <<"attributes", 1>>, <<"fields", 4>> >>, "own", "used")

CmsDigestAlgorithms ==
    Plan(3, <<"frames", "work", "out">>,
         << <<"signed data", 1>>, <<"algorithm", 1>>, <<"limits", 1>>, <<"fields", 3>> >>,
         "own", "used")

ValidationWrites == CmsCredentialWorkspace \o <<"work", "out">>

ValidationInputs ==
    << <<"context", 1>>, <<"options", 1>>, <<"certificates", 1>>, <<"crls", 1>>,
       <<"workspace", 1>>, <<"path workspace", 1>>, <<"input array", 1>> >>
    \o PolicyInputs \o PolicyInputs \o << <<"inputs", Listed>> >> \o IndexInputs

Validation ==
    Plan(Len(CmsCredentialWorkspace) + 2, ValidationWrites, ValidationInputs,
         "caller", "success")

CredentialSession(scratch) ==
    Plan(Len(CmsCredentialWorkspace) + 3,
         ValidationWrites \o (IF scratch THEN <<"scratch">> ELSE <<>>),
         ValidationInputs \o << <<"objects", 1>>, <<"object parts", Listed>> >>,
         "caller", "success")

(* tc_x509_crl_scope_prepare.  given: what the caller supplied of the      *)
(* points, the path check, the storage kept between scopes and the OCSP    *)
(* responses.  outputs: the last three slots.                              *)

If(condition, groups) == IF condition THEN groups ELSE <<>>

CrlScopeWrites(given) ==
    PathStorage \o <<"path", "search frames", "tree", "states", "evidence", "out", "work">>
    \o (IF "kept" \in given THEN <<"scopes", "signer cache", "signer path", "signer policies">>
        ELSE <<Unused, Unused, Unused, Unused>>)

CrlScopeInputs(given) ==
    << <<"index", 1>>, <<"records", 1>>, <<"query", 1>>, <<"certificate", 1>>, <<"point", 1>> >>
    \o If("check" \in given, << <<"check", 1>> >>)
    \o << <<"trust", 6>>, <<"fields", 7>> >> \o PolicyInputs \o IndexInputs

CrlExtraInputs(dependencies) ==
    << <<"resolution and workspace", 2>> >> \o If(dependencies, << <<"node certificates", Listed>> >>)

CrlHeldPathInputs(given) ==
    << <<"chain array", 1>>, <<"metadata", 2>>, <<"chain", Listed>> >>
    \o If("ocsp" \in given, << <<"ocsp array", 1>>, <<"ocsp", Listed>> >>)

CrlScopePlan(given, outputs, operation) ==
    Plan(Len(PathStorage) + 14, CrlScopeWrites(given) \o outputs,
         If("points" \in given, << <<"points", 2>> >>) \o << <<"candidates", Listed>> >>
         \o operation \o CrlScopeInputs(given),
         "caller", "success")

(* tc_x509_crl_scope_execute: one scope operation.                         *)
CrlScope(given) == CrlScopePlan(given, <<Unused, Unused, Unused>>, <<>>)

(* x509_crl_prepare for one target, and for the members of a held path.    *)
CrlResolve(given) ==
    CrlScopePlan(given, <<"nodes storage", "evidence output", Unused>>, CrlExtraInputs(FALSE))

CrlPath(given) ==
    CrlScopePlan(given, <<"nodes storage", Unused, "path output">>,
                 CrlExtraInputs("dependencies" \in given) \o CrlHeldPathInputs(given))

OcspPreflight ==
    Plan(Len(PathStorage), PathStorage,
         << <<"options", 1>>, <<"responses array", 1>>, <<"chain array", 1>>,
            <<"responses", Listed>>, <<"chain", Listed>> >>,
         "caller", "success")

OcspRequest ==
    Plan(3, <<"encoded", "length", "work">>,
         << <<"request", 1>>, <<"issuer", 1>>, <<"inputs", 4>> >>, "own", "none")

CrlIndex ==
    Plan(5, <<"frames", "extension oids", "work", "records", "out">>,
         << <<"encoded array", 1>>, <<"limits", 1>>, <<"workspace", 1>>, <<"encoded", Listed>> >>,
         "caller", "success")

CrlJobStorage == <<"state", "window", "metadata", "entry", "issuer", "frames", "extension oids",
                   "left", "right", "matched", "matches">>

CrlJobInit ==
    Plan(13, CrlJobStorage \o <<"work", "out">>,
         << <<"source", 1>>, <<"options", 1>>, <<"workspace", 1>>, <<"targets", 1>>,
            <<"target spans", 2 * Listed>> >>,
         "caller", "success")

CrlJobInputs == << <<"job storage", Len(CrlJobStorage)>>, <<"targets", 1>>,
                   <<"target spans", 2 * Listed>> >>

CrlJobStep == Plan(2, <<"work", "complete">>, CrlJobInputs, "caller", "success")

(* The job itself is compared with out ahead of the plan.                  *)
CrlJobFinish == Plan(1, <<"out">>, << <<"job", 1>> >> \o CrlJobInputs, "own", "none")

Reader == Plan(5, <<"encoded", "metadata", "frames", "work", "out">>, <<>>, "own", "used")

ReaderWorkspace(counted) ==
    Plan(7, <<"encoded", "limits", "workspace", "frames", "extension oids">>
            \o (IF counted THEN <<"work">> ELSE <<>>) \o <<"out">>,
         <<>>, "own", IF counted THEN "used" ELSE "none")

AnchorFromCertificate ==
    Plan(3, <<"frames", "extension oids", "out">>,
         << <<"certificate", 1>>, <<"workspace", 1>>, <<"inputs", 5>> >>, "own", "none")

AnchorListInit ==
    Plan(3, <<"reader", "frames", "extension oids">>, << <<"encoded", 1>>, <<"workspace", 1>> >>,
         "own", "none")

AnchorListNext ==
    Plan(4, <<"reader", "frames", "extension oids", "out">>,
         << <<"input", 1>>, <<"workspace", 1>> >>, "own", "none")

LdsContent ==
    Plan(4, <<"frames", "work", "out", "buffer">>, << <<"limits", 1>>, <<"octets", 1>> >>,
         "own", "used")

LdsHash ==
    Plan(3, <<"frames", "work", "matched">>,
         << <<"object", 1>>, <<"limits", 1>>, <<"parts array", 1>>, <<"encoded", 1>>,
            <<"hashes", 1>>, <<"parts", Listed>> >>,
         "caller", "success")

SecurityDigest ==
    Plan(1, <<"work">>,
         << <<"map", 1>>, <<"object", 1>>, <<"parts array", 1>>, <<"mapping", 1>>,
            <<"lds", 1>>, <<"parts", Listed>> >>,
         "caller", "success")

PivIdentifiers ==
    Plan(2, <<"work", "matched">>, << <<"identifiers", 1>>, <<"fields", 6>> >>, "own", "none")

PivCmsIdentifiers ==
    Plan(3, <<"frames", "work", "matched">>,
         << <<"object", 1>>, <<"limits", 1>>, <<"fields", 5>> >>, "own", "none")

PivCvc == Plan(3, <<"points", "work", "out">>, << <<"reads", 15>> >>, "own", "none")

TwicChuid ==
    Plan(1, <<"work">>,
         << <<"request", 1>>, <<"card", 1>>, <<"security", 1>>, <<"context", 1>>,
            <<"options", 1>>, <<"fields", 5>>, <<"objects", 1>>, <<"parts", 2 * Listed>> >>,
         "caller", "success")

SignaturePrepare ==
    Plan(1, <<"work">>,
         << <<"objects", Listed>>, <<"data array", 1>>, <<"data", Listed>>,
            <<"charged", Listed>>, <<"key parts", 3>> >>,
         "own", "none")

NativeVerify ==
    Plan(3, <<"ec", "rsa words", "work">>,
         << <<"message array", 1>>, <<"workspace", 1>>, <<"rsa", 1>>, <<"algorithm", 1>>,
            <<"key", 1>>, <<"fields", 7>>, <<"algorithm fields", Listed>>,
            <<"message", Listed>> >>,
         "caller", "success")

(* The RSA wrappers: five slots, the workspace's limbs first, and the      *)
(* workspace object checked as an input at the seal.                       *)
RsaPlan(workspace, writes, reads) ==
    Plan(5, (IF workspace THEN <<"words">> ELSE <<>>) \o writes,
         (IF workspace THEN << <<"workspace", 1>> >> ELSE <<>>) \o reads, "own", "none")

RsaPublicKey == << <<"public key", 1>>, <<"modulus and exponent", 2>> >>

RsaPrivateKey == << <<"private key", 1>>, <<"key spans", 5>> >>

RsaCrt == << <<"crt", 1>>, <<"crt values", 3>> >>

RsaRawPublic == RsaPlan(TRUE, <<"output", "work">>, RsaPublicKey \o << <<"input", 1>> >>)

RsaPrepare ==
    RsaPlan(TRUE, <<"cache words", "setup", "work">>, << <<"cache", 1>> >> \o RsaPublicKey)

RsaVerify(prepared) ==
    RsaPlan(TRUE, <<"work">> \o (IF prepared THEN <<"setup", "r2">> ELSE <<>>),
            << <<"options", 1>> >>
            \o (IF prepared THEN << <<"modulus and exponent", 2>> >> ELSE RsaPublicKey)
            \o << <<"digest", 1>>, <<"signature", 1>> >>)

RsaEncodeV15 == RsaPlan(FALSE, <<"encoded", "work">>, << <<"options", 1>>, <<"digest", 1>> >>)

RsaEncodePss ==
    RsaPlan(FALSE, <<"encoded", "work">>, << <<"options", 1>>, <<"digest", 1>>, <<"salt", 1>> >>)

RsaRawPrivate ==
    RsaPlan(TRUE, <<"output", "execution">>,
            RsaPublicKey \o << <<"exponent", 1>>, <<"input", 1>> >>)

RsaValidateCrt == RsaPlan(TRUE, <<"work">>, RsaPrivateKey \o RsaCrt)

RsaDeriveCrt ==
    RsaPlan(TRUE, <<"dp", "dq", "q inverse", "work">>, << <<"output", 1>> >> \o RsaPrivateKey)

RsaValidatePrivate == RsaPlan(TRUE, <<"execution">>, RsaPrivateKey)

RsaSign ==
    RsaPlan(TRUE, <<"signature", "execution">>,
            << <<"options", 1>> >> \o RsaPrivateKey \o RsaCrt \o << <<"digest", 1>> >>)

RsaEncryptOaep ==
    RsaPlan(TRUE, <<"ciphertext", "execution">>,
            << <<"options", 1>>, <<"label", 1>> >> \o RsaPublicKey \o << <<"plaintext", 1>> >>)

RsaDecryptOaep ==
    RsaPlan(TRUE, <<"plaintext", "length", "execution">>,
            << <<"options", 1>>, <<"label", 1>> >> \o RsaPrivateKey \o RsaCrt
            \o << <<"ciphertext", 1>> >>)

Plans ==
    { PathValidate, PathSearch, CmsPath(TRUE), CmsPath(FALSE), CmsCredential, CmsSignature,
      CmsContentDigest, CmsDigestAlgorithms, Validation, CredentialSession(TRUE),
      CredentialSession(FALSE), CrlResolve({}), CrlPath({"kept", "ocsp"}),
      CrlPath({"dependencies"}), OcspPreflight, OcspRequest,
      CrlIndex, CrlJobInit, CrlJobStep, CrlJobFinish, Reader, ReaderWorkspace(TRUE),
      ReaderWorkspace(FALSE), AnchorFromCertificate, AnchorListInit, AnchorListNext,
      LdsContent, LdsHash, SecurityDigest, PivIdentifiers, PivCmsIdentifiers, PivCvc,
      TwicChuid, SignaturePrepare, NativeVerify, RsaRawPublic, RsaPrepare, RsaVerify(TRUE),
      RsaVerify(FALSE), RsaEncodeV15, RsaEncodePss, RsaRawPrivate, RsaValidateCrt,
      RsaDeriveCrt, RsaValidatePrivate, RsaSign, RsaEncryptOaep, RsaDecryptOaep }
    \cup { CrlScope(given) : given \in {{}, {"points"}, {"check"}, {"points", "check", "kept"}} }

-----------------------------------------------------------------------------
(* Ranges are numbered: the recorded writes, the inputs, and the caller's  *)
(* counter when the plan does not record it.                               *)

Slot(p, name) == CHOOSE i \in 1..Len(p.writes) : p.writes[i] = name

Records(p, name) == \E i \in 1..Len(p.writes) : p.writes[i] = name

ReadCount(p) == FoldLeft(LAMBDA n, group : n + group[2], 0, p.reads)

Writes(p) == { i \in 1..Len(p.writes) : p.writes[i] /= Unused }

Reads(p) == Len(p.writes) + 1 .. Len(p.writes) + ReadCount(p)

Counter(p) == IF Records(p, "work") THEN Slot(p, "work") ELSE Len(p.writes) + ReadCount(p) + 1

Ranges(p) == Writes(p) \cup Reads(p) \cup (IF p.commit = "none" THEN {} ELSE {Counter(p)})

(* Comparisons the preflight of a plan makes.                              *)
Cost(p) == (Len(p.writes) * (Len(p.writes) - 1)) \div 2 + Len(p.writes) * ReadCount(p)

(* Two ranges overlap when the layout says so; an emptied slot overlaps    *)
(* nothing.                                                                *)
Disjoint(a, b) == {a, b} /= layout.overlap

Valid(range) == range = 0 \/ range /= layout.bad

-----------------------------------------------------------------------------
(* pki_storage.c.                                                          *)

Begin(p, budget) ==
    [slots |-> <<>>, capacity |-> p.capacity, budget |-> budget, initial |-> budget,
     sealed |-> FALSE, status |-> "OK"]

Write(q, range) ==
    CASE q.status /= "OK" -> q
      [] q.status = "OK" /\ (q.sealed \/ Len(q.slots) = q.capacity) ->
             [q EXCEPT !.status = "ARGUMENT"]
      [] OTHER -> IF Valid(range) THEN [q EXCEPT !.slots = Append(@, range)]
                                  ELSE [q EXCEPT !.status = "ARGUMENT"]

\* Mutant: the budget is not looked at.
CompareUnlimited(q, count, range) ==
    [q EXCEPT !.budget = @ - count,
              !.status = IF Valid(range) /\ \A i \in 1..count : Disjoint(q.slots[i], range)
                         THEN "OK" ELSE "ARGUMENT"]

(* tc_pki_storage_input against the first count slots: one unit for each,  *)
(* up to the first that overlaps.  0 is an emptied slot.                   *)
Compare(q, count, range) ==
    LET hits == IF range \notin layout.overlap THEN {}
                ELSE { i \in 1..count : ~Disjoint(q.slots[i], range) }
        made == IF hits = {} THEN count ELSE Min(hits)
    IN  CASE ~Valid(range) -> [q EXCEPT !.status = "ARGUMENT"]
          [] Valid(range) /\ q.budget < made -> [q EXCEPT !.budget = 0, !.status = "LIMIT"]
          [] OTHER -> [q EXCEPT !.budget = @ - made,
                                !.status = IF hits = {} THEN "OK" ELSE "ARGUMENT"]

Seal(q) ==
    IF q.status /= "OK" THEN q
    ELSE LET after[i \in 0..Len(q.slots)] ==
               IF i = 0 THEN q
               ELSE LET r == after[i - 1]
                    IN  IF r.status = "OK" THEN Compare(r, i - 1, r.slots[i]) ELSE r
         IN  [after[Len(q.slots)] EXCEPT !.sealed = TRUE]

Input(q, range) ==
    CASE q.status /= "OK" -> q
      [] q.status = "OK" /\ ~q.sealed -> [q EXCEPT !.status = "ARGUMENT"]
      [] OTHER -> Compare(q, Len(q.slots), range)

(* tc_x509_crl_scope_plan_writes: the tree may use the validation frames;  *)
(* the longer range then stands for both.                                  *)
ShareTree(p, q) ==
    IF q.status = "OK" /\ layout.shared
    THEN [q EXCEPT !.slots[Slot(p, "frames")] = layout.longer, !.slots[Slot(p, "tree")] = 0]
    ELSE q

(* What the operation stores in the caller's counter.                      *)
Finish(p, q) ==
    CASE p.commit = "always" \/ (p.commit = "success" /\ q.status = "OK") -> q.budget
      [] p.commit = "used" /\ q.status = "OK" /\ work >= q.initial - q.budget ->
             work - (q.initial - q.budget)
      [] OTHER -> work

-----------------------------------------------------------------------------
(* The placements considered: a write may overlap any other range, an      *)
(* input its neighbour or the counter, every range may be malformed, and   *)
(* the tree and the validation may share their frames, in which case the   *)
(* shorter range lies inside the longer, the one another may overlap.      *)

Layouts(p) ==
    LET pairs == { pair \in { {a, b} : a \in Writes(p), b \in Ranges(p) }
                            \cup { {a, a + 1} : a \in Reads(p) }
                            \cup { {a, Counter(p)} : a \in Reads(p) } :
                       pair \subseteq Ranges(p) /\ Cardinality(pair) = 2 }
        apart == [overlap : pairs \cup {{}}, bad : {0}, shared : {FALSE}, longer : {0}]
        broken == [overlap : {{}}, bad : Writes(p) \cup Reads(p), shared : {FALSE}, longer : {0}]
        tree == IF Records(p, "tree") THEN {Slot(p, "frames"), Slot(p, "tree")} ELSE {}
    IN  apart \cup broken
        \cup { l \in [overlap : pairs \cup {{}}, bad : {0}, shared : {TRUE}, longer : tree] :
                   l.overlap \cap tree = (IF l.overlap = {} THEN {} ELSE {l.longer}) }

Init == /\ op \in Plans
        /\ layout \in Layouts(op)
        /\ work \in (IF layout.overlap = {} /\ layout.bad = 0
                    THEN {0, Cost(op) \div 2, Cost(op) - 1, Cost(op) + 1} ELSE {})
                   \cup {Cost(op)}
        /\ before = work
        /\ plan = Begin(op, IF op.budget = "caller" THEN work ELSE SizeMax)
        /\ stage = "writes"

Record == /\ stage = "writes"
          /\ plan' = Seal(ShareTree(op, FoldLeft(Write, plan,
                                              [i \in 1..Len(op.writes) |->
                                                  IF i \in Writes(op) THEN i ELSE 0])))
          /\ stage' = "reads"
          /\ UNCHANGED <<op, layout, work, before>>

(* The inputs in order, then the counter.                                  *)
Check == /\ stage = "reads"
         /\ LET after[i \in 0..ReadCount(op)] ==
                   IF i = 0 THEN plan ELSE Input(after[i - 1], Len(op.writes) + i)
            IN  plan' = after[ReadCount(op)]
         /\ work' = Finish(op, plan')
         /\ stage' = "done"
         /\ UNCHANGED <<op, layout, before>>

Done == stage = "done" /\ UNCHANGED vars

Next == Record \/ Check \/ Done

Spec == Init /\ [][Next]_vars

-----------------------------------------------------------------------------
TypeOK == /\ stage \in {"writes", "reads", "done"}
          /\ plan.status \in {"OK", "ARGUMENT", "LIMIT"}
          /\ plan.budget \in 0..SizeMax /\ work \in 0..SizeMax
          /\ Len(plan.slots) <= plan.capacity

Aliased(p) == \E pair \in {layout.overlap} : pair /= {} /\ pair \subseteq Writes(p) \cup Reads(p)
                                              /\ pair \cap Writes(p) /= {}

(* The preflight of every operation accepts exactly the placements in      *)
(* which no recorded write overlaps another recorded range, every range is *)
(* well formed, and a budget taken from the caller pays for every          *)
(* comparison.  In particular no caller records more ranges than its slot  *)
(* array holds, or an input before the seal.                               *)
AcceptsExactly ==
    stage = "done" =>
       (plan.status = "OK" <=> /\ ~Aliased(op)
                               /\ layout.bad = 0
                               /\ op.budget = "caller" => before >= Cost(op))

(* An exhausted budget is never reported as a bad argument and a bad       *)
(* argument is reported as a limit only when the budget ended first.       *)
LimitIsBudget ==
    stage = "done" /\ plan.status = "LIMIT" => op.budget = "caller" /\ before < Cost(op)

(* The caller's counter pays one unit per comparison of an accepted plan,  *)
(* and a refused plan takes nothing from it (tc_pki_storage_plan_finish);  *)
(* only path validation keeps the rest of a refused plan as its own work.  *)
CounterExact ==
    stage = "done" =>
       before - work = CASE plan.status = "OK" /\ op.commit \in {"success", "always"} -> Cost(op)
                         [] plan.status = "OK" /\ op.commit = "used" /\ before >= Cost(op) ->
                                Cost(op)
                         [] plan.status /= "OK" /\ op.commit = "always" ->
                                plan.initial - plan.budget
                         [] OTHER -> 0

(* The plans that do not compare the counter they store into.  The entries *)
(* above them pass the application's own counter on, which x509_ocsp.h:78  *)
(* and x509_revocation.h:135 ask the application to keep apart.            *)
CounterUnchecked == {PathValidate, OcspPreflight}

CounterOutside == stage = "done" /\ plan.status = "OK" => Counter(op) \notin layout.overlap

(* No operation but those two updates its caller's counter while the       *)
(* counter lies inside a range the operation reads or writes.              *)
CounterApart == op.commit /= "none" /\ op \notin CounterUnchecked => CounterOutside

(* What x509_path.c:471-472 says of path validation: "work is one of the   *)
(* checked writes".                                                        *)
WorkIsChecked == op = PathValidate => CounterOutside
=============================================================================
