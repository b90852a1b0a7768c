----------------------------- MODULE RsaSchemes -----------------------------
(***************************************************************************)
(* The public RSA calls over a caller's workspace, budget and random       *)
(* source: sign, verify (one-shot and prepared), encrypt, decrypt and the  *)
(* raw operations (src/src/rsa_private.c, rsa_public.c, rsa_oaep.c).       *)
(* Numbers are symbolic: a sealed value names the key and what it seals.   *)
(* RsaPrivate models the private operation; an encoding is a record.       *)
(***************************************************************************)
EXTENDS Integers, Sequences, FiniteSets

CONSTANTS
  Keys,             \* records id, check (of tc_rsa_public_key_check), crt
  Options,          \* records scheme, check, cost, salt
  Messages,         \* digests and plaintexts; "wrong" has another length
  Received,         \* what others sealed: records key, option, message
  Attempts, Slack,  \* random_attempts; budget relative to the documented work
  MaxCalls,
  ModulusBytes, PublicCost, SetupCost, FullCost, CrtCost, BlindCost

VARIABLES
  call,      \* the call and its arguments, or none
  pc,        \* its remaining steps
  rep,       \* the representative between two steps
  left,      \* blinding attempts left
  work,      \* execution.work.remaining
  requests,  \* random requests of the call
  scratch,   \* what the workspace holds of the call
  setup,     \* a prepared public key: the marker and the key, or empty
  status, result,
  sealed,    \* signatures and ciphertexts received or produced so far
  calls

vars == <<call, pc, rep, left, work, requests, scratch, setup, status, result, sealed, calls>>

None == [kind |-> "none"]
NoSetup == [marker |-> FALSE, key |-> None]
NoCall == [op |-> "none", key |-> None, option |-> None, message |-> "none", value |-> None, attempts |-> 0, budget |-> 0]
Junk == [kind |-> "junk"]
Seal(key, inner) == [kind |-> "sealed", key |-> key.id, inner |-> inner]
Encoded(option, message) == [kind |-> "encoded", option |-> option, message |-> message]

\* A value at or above the modulus, and one of another length.
Values == sealed \union {Junk, [kind |-> "large"], [kind |-> "short"]}

Private == {"sign", "decrypt", "raw_private"}

\* The raw operation takes a public key and an exponent, never CRT values.
PowerCost(op, key) == IF key.crt /\ op # "raw_private" THEN CrtCost ELSE FullCost
PrivateCost(op, key, attempts) == PowerCost(op, key) + (attempts * BlindCost)

\* The work table of tiny_crypto/rsa.h.
DocumentedWork(op, key, option, attempts) ==
  CASE op = "raw_public" -> PublicCost
    [] op = "verify" -> PublicCost + option.cost
    [] op = "verify_prepared" -> PublicCost - SetupCost + option.cost
    [] op = "encrypt" -> 1 + option.cost + PublicCost
    [] op = "raw_private" -> PrivateCost(op, key, attempts)
    [] op = "sign" -> PrivateCost(op, key, attempts) + option.cost + (IF option.salt THEN 1 ELSE 0)
    [] op = "decrypt" -> PrivateCost(op, key, attempts) + option.cost
    [] op = "prepare" -> SetupCost + 1

Scheme(op) == IF op \in {"encrypt", "decrypt"} THEN {"oaep"} ELSE {"v15", "pss"}
WithOption == {"sign", "verify", "verify_prepared", "encrypt", "decrypt"}

\* The checks before any state changes, in the order of the entries: the
\* digest length, the key, the scheme parameters, the value's length, then
\* every limit.
Refusal(op, key, option, message, value, attempts, budget) ==
  IF op \in {"sign", "verify", "verify_prepared"} /\ message = "wrong" /\ option.check /= "UNSUPPORTED" THEN "ARGUMENT"
  ELSE IF key.check /= "OK" THEN key.check
  ELSE IF op \in WithOption /\ option.check /= "OK" THEN option.check
  ELSE IF op = "encrypt" /\ message = "wrong" THEN "INVALID"
  ELSE IF value.kind = "short" THEN "INVALID"
  ELSE IF op \in Private /\ attempts = 0 THEN "LIMIT"
  ELSE IF op = "raw_public" /\ value.kind = "large" THEN "INVALID"
  ELSE IF budget < DocumentedWork(op, key, option, attempts) THEN "LIMIT"
  ELSE "running"

Steps(op, option) ==
  CASE op = "raw_public" -> <<"public">>
    [] op \in {"verify", "verify_prepared"} -> <<"public", "check">>
    [] op = "encrypt" -> <<"request", "encode", "public">>
    [] op = "raw_private" -> <<"private", "blind">>
    [] op = "sign" -> (IF option.salt THEN <<"request">> ELSE <<>>) \o <<"encode", "private", "blind">>
    [] op = "decrypt" -> <<"private", "blind", "decode">>
    [] op = "prepare" -> <<"setup">>

Start(op, key, option, message, value, attempts, slack) ==
  LET full == DocumentedWork(op, key, option, attempts)
      budget == IF full + slack < 0 THEN 0 ELSE full + slack
      refusal == Refusal(op, key, option, message, value, attempts, budget)
      entry == IF op \in {"verify", "verify_prepared"} /\ option.scheme = "v15" THEN ModulusBytes ELSE 0
  IN /\ call' = [op |-> op, key |-> key, option |-> option, message |-> message, value |-> value, attempts |-> attempts, budget |-> budget]
     /\ status' = refusal
     /\ pc' = IF refusal = "running" THEN Steps(op, option) ELSE <<>>
     /\ work' = IF refusal = "running" THEN budget - entry ELSE budget
     /\ left' = attempts /\ requests' = 0 /\ rep' = value /\ result' = None /\ scratch' = {}
     /\ calls' = calls + 1 /\ UNCHANGED <<setup, sealed>>

Idle == pc = <<>> /\ calls < MaxCalls

Sign(key, option, digest, attempts, slack) ==
  Idle /\ option.scheme \in Scheme("sign") /\ Start("sign", key, option, digest, None, attempts, slack)

Verify(key, option, digest, value, slack) ==
  Idle /\ option.scheme \in Scheme("verify") /\ Start("verify", key, option, digest, value, 0, slack)

\* tc_rsa_prepared_ready refuses an empty setup as ARGUMENT.
VerifyPrepared(option, digest, value, slack) ==
  /\ Idle /\ option.scheme \in Scheme("verify")
  /\ IF setup.marker THEN Start("verify_prepared", setup.key, option, digest, value, 0, slack)
     ELSE status' = "ARGUMENT" /\ call' = NoCall /\ result' = None /\ calls' = calls + 1 /\ requests' = 0
          /\ UNCHANGED <<pc, rep, left, work, scratch, setup, sealed>>

Encrypt(key, option, plaintext, slack) ==
  Idle /\ option.scheme = "oaep" /\ Start("encrypt", key, option, plaintext, None, 0, slack)

Decrypt(key, option, value, attempts, slack) ==
  Idle /\ option.scheme = "oaep" /\ Start("decrypt", key, option, "none", value, attempts, slack)

RawPublic(key, value, slack) == Idle /\ Start("raw_public", key, None, "none", value, 0, slack)

RawPrivate(key, value, attempts, slack) ==
  Idle /\ Start("raw_private", key, None, "none", value, attempts, slack)

Prepare(key, slack) == Idle /\ Start("prepare", key, None, "none", None, 0, slack)

Clear ==
  /\ Idle /\ setup' = NoSetup /\ status' = "none" /\ call' = NoCall /\ result' = None /\ calls' = calls + 1
  /\ requests' = 0
  /\ UNCHANGED <<pc, rep, left, work, scratch, sealed>>

(* -------------------------------- steps --------------------------------- *)

Step(s) == pc /= <<>> /\ Head(pc) = s

Advance == pc' = Tail(pc) /\ UNCHANGED <<call, setup, status, result, sealed, calls>>

\* Mutant: a failing call keeps its workspace.
FinishKeeps(s, value) ==
  /\ status' = s /\ result' = value /\ pc' = <<>> /\ scratch' = IF s = "OK" THEN {} ELSE scratch
  /\ sealed' = IF s = "OK" /\ value.kind = "sealed" THEN sealed \union {value} ELSE sealed
  /\ UNCHANGED <<call, setup, calls>>

\* Every return after the limits wipes the workspace.
Finish(s, value) ==
  /\ status' = s /\ result' = value /\ pc' = <<>> /\ scratch' = {}
  /\ sealed' = IF s = "OK" /\ value.kind = "sealed" THEN sealed \union {value} ELSE sealed
  /\ UNCHANGED <<call, setup, calls>>

\* A salt or a seed.
Request(ok) ==
  /\ Step("request") /\ work' = work - 1 /\ requests' = requests + 1 /\ UNCHANGED <<rep, left>>
  /\ IF ok THEN scratch' = scratch \union {"random"} /\ Advance ELSE Finish("ERROR", None)

Encode ==
  /\ Step("encode")
  /\ work' = work - call.option.cost /\ rep' = Encoded(call.option, call.message)
  /\ scratch' = scratch \union {"encoded"} /\ Advance /\ UNCHANGED <<left, requests>>

\* A hash fails in PSS or OAEP encoding, checking or decoding, somewhere in
\* the work charged for it.
HashFails ==
  /\ pc /= <<>> /\ Head(pc) \in {"encode", "check", "decode"} /\ call.option.scheme /= "v15"
  /\ \E spent \in 1..call.option.cost : work' = work - spent
  /\ Finish("ERROR", None) /\ UNCHANGED <<rep, left, requests>>

\* The two powers are inverse permutations of the key.
PublicPower(key, value) ==
  IF value.kind = "sealed" /\ value.key = key.id THEN value.inner
  ELSE IF value.kind = "junk" THEN Junk ELSE Seal(key, value)

\* tc_rsa_public_operation; an encoded message is below the modulus.
Public ==
  /\ Step("public") /\ UNCHANGED <<left, requests>>
  /\ LET power == PublicPower(call.key, rep)
         cost == IF call.op = "verify_prepared" THEN PublicCost - SetupCost ELSE PublicCost
     IN IF rep.kind = "large" THEN Finish("INVALID", None) /\ UNCHANGED <<rep, work>>
        ELSE /\ work' = work - cost
             /\ IF Tail(pc) = <<>> THEN Finish("OK", power) /\ UNCHANGED rep
                ELSE rep' = power /\ scratch' = scratch \union {"encoded"} /\ Advance

\* Mutant: any well-formed encoding of the digest passes.
MatchesLoose(option, message) == rep.kind = "encoded" /\ rep.message = message

Matches(option, message) == rep = Encoded(option, message)

\* Mutant: both checks are paid here.
CheckPaid ==
  /\ Step("check") /\ UNCHANGED <<rep, left, requests>>
  /\ work' = work - call.option.cost
  /\ Finish(IF Matches(call.option, call.message) THEN "OK" ELSE "INVALID", None)

\* tc_rsa_v15_check was paid on entry, tc_rsa_pss_check is paid here.
Check ==
  /\ Step("check") /\ UNCHANGED <<rep, left, requests>>
  /\ work' = IF call.option.scheme = "v15" THEN work ELSE work - call.option.cost
  /\ Finish(IF Matches(call.option, call.message) THEN "OK" ELSE "INVALID", None)

PrivateStart ==
  /\ Step("private") /\ work' = work - PowerCost(call.op, call.key) /\ UNCHANGED <<rep, left, requests>>
  /\ IF rep.kind = "large" THEN Finish("INVALID", None)
     ELSE scratch' = scratch \union {"secret"} /\ Advance

PrivatePower(key, value) ==
  IF value.kind = "sealed" /\ value.key = key.id THEN value.inner ELSE Seal(key, value)

Attempt == left > 0 /\ left' = left - 1 /\ work' = work - BlindCost /\ requests' = requests + 1

Rejected == Step("blind") /\ Attempt /\ UNCHANGED <<call, pc, rep, scratch, setup, status, result, sealed, calls>>

\* A usable factor: the power passes the release check or is withheld.  The
\* power of an arbitrary value is arbitrary.
Blinded(released) ==
  /\ Step("blind") /\ Attempt
  /\ LET power == IF rep.kind = "junk" THEN Junk ELSE PrivatePower(call.key, rep) IN
     IF ~released THEN Finish("ERROR", None) /\ UNCHANGED rep
     ELSE IF Tail(pc) = <<>> THEN Finish("OK", power) /\ UNCHANGED rep
     ELSE rep' = power /\ scratch' = scratch \union {"encoded"} /\ Advance

SourceFails == Step("blind") /\ Attempt /\ Finish("ERROR", None) /\ UNCHANGED rep

AllRejected ==
  Step("blind") /\ left = 0 /\ Finish("LIMIT", None) /\ UNCHANGED <<rep, left, work, requests>>

Decode ==
  /\ Step("decode") /\ work' = work - call.option.cost /\ UNCHANGED <<rep, left, requests>>
  /\ IF rep.kind = "encoded" /\ rep.option = call.option
     THEN Finish("OK", [kind |-> "plaintext", message |-> rep.message])
     ELSE Finish("INVALID", None)

SetUp ==
  /\ Step("setup") /\ work' = work - (SetupCost + 1)
  /\ setup' = [marker |-> TRUE, key |-> call.key]
  /\ status' = "OK" /\ result' = None /\ pc' = <<>> /\ scratch' = {}
  /\ UNCHANGED <<call, rep, left, requests, sealed, calls>>

Init ==
  /\ call = NoCall /\ pc = <<>> /\ rep = None /\ left = 0 /\ work = 0 /\ requests = 0 /\ scratch = {}
  /\ setup = NoSetup /\ status = "none" /\ result = None /\ calls = 0
  /\ sealed = {Seal(r.key, Encoded(r.option, r.message)) : r \in Received}

Calls ==
  \E key \in Keys, slack \in Slack :
    \/ \E option \in Options, m \in Messages :
         \/ \E a \in Attempts : Sign(key, option, m, a, slack)
         \/ Encrypt(key, option, m, slack)
         \/ \E v \in Values : Verify(key, option, m, v, slack) \/ VerifyPrepared(option, m, v, slack)
    \/ \E v \in Values, a \in Attempts :
         RawPrivate(key, v, a, slack) \/ \E option \in Options : Decrypt(key, option, v, a, slack)
    \/ \E v \in Values : RawPublic(key, v, slack)
    \/ Prepare(key, slack)

StepNext ==
  \/ \E ok \in BOOLEAN : Request(ok) \/ Blinded(ok)
  \/ Encode \/ HashFails \/ Public \/ Check \/ PrivateStart \/ Rejected \/ SourceFails \/ AllRejected \/ Decode \/ SetUp

Next == Calls \/ Clear \/ StepNext

\* A call is a C function: once entered it keeps executing.
Spec == Init /\ [][Next]_vars /\ WF_vars(StepNext)

(* ------------------------------ properties ------------------------------ *)

Returned == pc = <<>> /\ call /= NoCall

\* A signature verifies exactly when it was made with the private key of the
\* verifying key, over that digest, with those parameters; the prepared entry
\* agrees with the one-shot entry for the key of the last prepare.
VerifyExact ==
  Returned /\ call.op \in {"verify", "verify_prepared"} /\ status \in {"OK", "INVALID"} /\ call.key.check = "OK" /\ call.option.check = "OK" =>
    (status = "OK" <=> /\ call.value.kind = "sealed" /\ call.value.key = call.key.id
                       /\ call.value.inner = Encoded(call.option, call.message))

\* A decryption that returns OK gives the message of the encoding under the
\* same options that the ciphertext seals for this key.
DecryptExact ==
  Returned /\ call.op = "decrypt" /\ status = "OK" =>
    call.value = Seal(call.key, Encoded(call.option, result.message))

\* A successful call is charged what the header's work table says for the
\* blinding attempts it used, and no call overdraws its budget.
WorkExact ==
  Returned => /\ work >= 0
              /\ status = "OK" => call.budget - work = DocumentedWork(call.op, call.key, call.option, call.attempts - left)

\* Whatever the outcome, a returned call leaves nothing of its secrets in the
\* caller's workspace and publishes a result only with OK.
LeavesNothing == Returned => scratch = {} /\ (result /= None => status = "OK")

=============================================================================
