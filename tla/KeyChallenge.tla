---------------------------- MODULE KeyChallenge ----------------------------
(***************************************************************************)
(* A proof of possession with a caller-owned workspace and a caller-funded *)
(* work budget (key_challenge.c), down to the charges of the digest        *)
(* verification and the settling of a lent budget.  Costs are small        *)
(* numbers; the budget is an unsigned integer that wraps at Modulus.       *)
(***************************************************************************)
EXTENDS Integers, Sequences

CONSTANTS
  Modulus,          \* 2^32 in the code
  DigestCost, SaltCost, EncodeCost, PreflightCost,
  Grants,           \* budgets a caller provides
  MaxDraws          \* bound on the digests drawn in one behaviour

ASSUME Constants ==
  /\ Modulus \in Nat \ {0} /\ Grants \subseteq 0 .. Modulus - 1
  /\ {DigestCost, SaltCost, EncodeCost, PreflightCost} \subseteq 0 .. Modulus - 1
  /\ MaxDraws \in Nat

VARIABLES
  workspace,    \* TC_key_challenge_workspace
  work,         \* work->remaining
  granted,      \* what the caller put into the budget
  spent,        \* the work the library itself did against it
  draws,        \* digests drawn from the random source
  signed,       \* digests the card has signed
  proofs        \* digests whose proof was accepted, in order

vars == <<workspace, work, granted, spent, draws, signed, proofs>>

Schemes == {"ECDSA", "RSA_V15", "RSA_PSS"}
Wiped == [state |-> "IDLE", digest |-> 0]
Less(remaining, amount) == (remaining - amount) % Modulus

\* challenge_parameters: the salt and the encoding that a scheme pays for.
SaltWork(scheme) == IF scheme = "RSA_PSS" THEN SaltCost ELSE 0
EncodingWork(scheme) == IF scheme = "ECDSA" THEN 0 ELSE EncodeCost

Affordable(scheme) == work >= DigestCost + SaltWork(scheme) + EncodingWork(scheme)

Charge(amount) ==
  work' = Less(work, amount) /\ spent' = spent + amount

\* The caller fills the budget anew.
Fund(amount) ==
  /\ work' = amount /\ granted' = amount /\ spent' = 0
  /\ UNCHANGED <<workspace, draws, signed, proofs>>

\* TC_key_challenge_prepare.  LIMIT changes nothing.  Behind the preflight the
\* workspace is wiped first, and again when a random request or the encoding
\* fails, with the work done until then charged.
Prepare(scheme) ==
  /\ Affordable(scheme) /\ draws < MaxDraws
  /\ draws' = draws + 1
  /\ \/ Charge(DigestCost) /\ workspace' = Wiped
     \/ /\ scheme = "RSA_PSS"
        /\ Charge(DigestCost + SaltWork(scheme)) /\ workspace' = Wiped
     \/ /\ scheme # "ECDSA"
        /\ Charge(DigestCost + SaltWork(scheme) + EncodingWork(scheme)) /\ workspace' = Wiped
     \/ /\ Charge(DigestCost + SaltWork(scheme) + EncodingWork(scheme))
        /\ workspace' = [state |-> "ACTIVE", digest |-> draws + 1]
  /\ UNCHANGED <<granted, signed, proofs>>

\* The card signs the challenge it is given (external).
CardSigns ==
  /\ workspace.state = "ACTIVE"
  /\ signed' = signed \cup {workspace.digest}
  /\ UNCHANGED <<workspace, work, granted, spent, draws, proofs>>

\* Mutant: the provider is believed.
CallbackTrusted(result, available, left) == [verdict |-> result, left |-> left]

\* signature_callback_result: more left than lent counts as nothing left and an
\* error, whatever the verdict; any amount up to the loan is accepted.
CallbackResult(result, available, left) ==
  IF left > available THEN [verdict |-> "ERROR", left |-> 0] ELSE [verdict |-> result, left |-> left]

\* TC_X509_signature_verify_digest on a lent budget: the preflight charge, then
\* the provider (external), which reports any verdict it can reach and any
\* number as what it leaves.
VerifyDigest(lent, digest, signature) ==
  LET available == lent - PreflightCost
      verdicts == {"INVALID", "UNSUPPORTED", "LIMIT", "ERROR"} \cup
                  (IF signature = digest THEN {"VALID"} ELSE {})
      answer(v, left) == CallbackResult(v, available, left)
  IN  IF available < 0 THEN {[verdict |-> "LIMIT", done |-> 0, left |-> 0]}
      ELSE {[verdict |-> answer(v, left).verdict, done |-> PreflightCost, left |-> answer(v, left).left] :
              v \in verdicts, left \in 0 .. Modulus - 1}

\* Mutant: only a failed proof ends the challenge.
FinishedOnFailure(w, verdict) == IF verdict = "VALID" THEN w ELSE Wiped

\* The workspace is wiped whatever the verdict.
Finished(w, verdict) == Wiped

\* TC_key_challenge_verify with any signature seen so far, or another one.
\* With arguments it rejects it wipes the workspace and charges nothing.
Verify(signature) ==
  /\ workspace.state = "ACTIVE"
  /\ \/ \E checked \in VerifyDigest(work, workspace.digest, signature) :
          /\ work' = Less(work, work - checked.left)
          /\ spent' = spent + checked.done
          /\ proofs' = IF checked.verdict = "VALID" THEN Append(proofs, workspace.digest)
                       ELSE proofs
          /\ workspace' = Finished(workspace, checked.verdict)
     \/ workspace' = Wiped /\ UNCHANGED <<work, spent, proofs>>
  /\ UNCHANGED <<granted, draws, signed>>

Clear ==
  /\ workspace' = Wiped
  /\ UNCHANGED <<work, granted, spent, draws, signed, proofs>>

Init ==
  /\ workspace = Wiped /\ work = 0 /\ granted = 0 /\ spent = 0
  /\ draws = 0 /\ signed = {} /\ proofs = <<>>

Next ==
  \/ \E amount \in Grants : Fund(amount)
  \/ \E scheme \in Schemes : Prepare(scheme)
  \/ CardSigns
  \/ \E signature \in signed \cup {0} : Verify(signature)
  \/ Clear

Spec == Init /\ [][Next]_vars

(******************************* Properties *******************************)

\* Every variable keeps its shape, and a workspace without an active challenge
\* holds nothing of an earlier one.
TypeOK ==
  /\ workspace = Wiped \/ workspace \in [state : {"ACTIVE"}, digest : 1 .. draws]
  /\ work \in 0 .. Modulus - 1 /\ draws \in 0 .. MaxDraws /\ signed \subseteq 1 .. draws

\* Each challenge proves possession at most once, and only by a signature the
\* card made over that very challenge, whatever is presented again later.
ProvedOnce ==
  /\ \A i, j \in DOMAIN proofs : i # j => proofs[i] # proofs[j]
  /\ \A i \in DOMAIN proofs : proofs[i] \in signed

\* The budget never wraps and never grows by itself: there is never more left
\* than the caller granted less what the library charged for its own work,
\* whatever the provider reports of its loan, in range or not.
WorkBounded == work + spent <= granted
=============================================================================
