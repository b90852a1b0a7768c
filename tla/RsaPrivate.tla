----------------------------- MODULE RsaPrivate -----------------------------
(***************************************************************************)
(* RSA private keys: validation, CRT values and the blinded private        *)
(* operation with its release check (src/src/rsa_private_internal.h,       *)
(* rsa_private.c, rsa_workspace.c).  Numbers are integers; LimbArithmetic  *)
(* checks the limb routines.  A modulus has 2 HalfBits bits.               *)
(***************************************************************************)
EXTENDS Integers, FiniteSets, TLAPS

CONSTANTS
  HalfBits,             \* bits of a factor
  Threshold,            \* the factors differ by more than 2^Threshold
  FipsExponent,         \* 2^16 of the exponent range
  Rounds,               \* TC_RSA_VALIDATION_ROUNDS
  Keys,                 \* records n, e, d, p, q
  Inputs(_), Draws(_),  \* representatives and random draws for a key
  Attempts,             \* execution.random_attempts
  Budgets,              \* work of a call, relative to its full cost
  ComponentCost, SetupCost, RoundCost, FullCost, CrtCost, BlindCost, CrtCheckCost, CrtDeriveCost

VARIABLES
  call,     \* operation and its arguments
  run,      \* phase of the running operation (or "source", the source failed),
            \* attempts made, rounds passed
  work,     \* budget left
  requests, \* random requests made
  status, out

vars == <<call, run, work, requests, status, out>>

NoKey == [n |-> 0, e |-> 0, d |-> 0, p |-> 0, q |-> 0]
NoCrt == [present |-> FALSE, dp |-> 0, dq |-> 0, qinv |-> 0]
Idle == [phase |-> "idle", attempts |-> 0, rounds |-> 0, factor |-> 0]

PowerMod(b, e, m) ==
  LET power[k \in Nat] == IF k = 0 THEN 1 % m
                          ELSE LET half == power[k \div 2]
                               IN (half * half * (IF k % 2 = 1 THEN b ELSE 1)) % m
  IN power[e]

GcdOf(a, b) == LET gcd[x, y \in Nat] == IF y = 0 THEN x ELSE gcd[y, x % y] IN gcd[a, b]

Lcm(a, b) == (a * b) \div GcdOf(a, b)

\* tc_mp_inverse: 0 when there is none.
InverseMod(a, m) ==
  IF \E x \in 1..(m - 1) : (a * x) % m = 1 THEN CHOOSE x \in 1..(m - 1) : (a * x) % m = 1 ELSE 0

\* tc_rsa_public_key_check and tc_rsa_public_shape_valid, on a supported size.
PublicKeyCheck(k) ==
  /\ k.n >= 2^((2 * HalfBits) - 1) /\ k.n < 2^(2 * HalfBits)
  /\ k.n % 2 = 1 /\ k.e % 2 = 1 /\ k.e >= 3 /\ k.e < k.n

HalfWidth(v) == v < 2^HalfBits

\* tc_rsa_private_view_init
ViewInit(k, crt) ==
  /\ PublicKeyCheck(k) /\ k.d < 2^(2 * HalfBits)
  /\ HalfWidth(k.p) /\ HalfWidth(k.q)
  /\ crt.present => HalfWidth(crt.dp) /\ HalfWidth(crt.dq) /\ HalfWidth(crt.qinv)

PrivateExponentCheck(k) == k.d /= 0 /\ k.d % 2 = 1 /\ k.d < k.n

FarApart(p, q) == (IF p > q THEN p - q ELSE q - p) > 2^Threshold

HasHalfBits(f) == f >= 2^(HalfBits - 1)

\* tc_rsa_exponent_fips; the upper bound of 256 bits is not reached here.
ExponentFips(e) == e % 2 = 1 /\ e > FipsExponent

\* Mutant: d is compared with the modulus only.
MagnitudesConsistentLoose(k, fips) ==
  LET lambda == Lcm(k.p - 1, k.q - 1) IN
  /\ fips => ExponentFips(k.e)
  /\ HasHalfBits(k.p) /\ HasHalfBits(k.q) /\ PrivateExponentCheck(k)
  /\ k.p % 2 = 1 /\ k.q % 2 = 1 /\ k.p > 1 /\ k.q > 1 /\ k.p /= k.q
  /\ k.p * k.q = k.n
  /\ k.p * k.p >= 2^((2 * HalfBits) - 1) /\ k.q * k.q >= 2^((2 * HalfBits) - 1)
  /\ FarApart(k.p, k.q)
  /\ k.d > 2^HalfBits
  /\ (k.e * k.d) % lambda = 1

\* tc_rsa_private_magnitudes_consistent, in the order of the code.
MagnitudesConsistent(k, fips) ==
  LET lambda == Lcm(k.p - 1, k.q - 1) IN
  /\ fips => ExponentFips(k.e)
  /\ HasHalfBits(k.p) /\ HasHalfBits(k.q) /\ PrivateExponentCheck(k)
  /\ k.p % 2 = 1 /\ k.q % 2 = 1 /\ k.p > 1 /\ k.q > 1 /\ k.p /= k.q
  /\ k.p * k.q = k.n
  /\ k.p * k.p >= 2^((2 * HalfBits) - 1) /\ k.q * k.q >= 2^((2 * HalfBits) - 1)
  /\ FarApart(k.p, k.q)
  /\ k.d > 2^HalfBits /\ k.d < lambda
  /\ (k.e * k.d) % lambda = 1

\* Mutant: the requests of one factor only.
ValidationCostOnce(attempts) == ComponentCost + (2 * (SetupCost + (Rounds * RoundCost))) + attempts

\* tc_rsa_validation_cost: every round and every allowed request.
ValidationCost(attempts) == ComponentCost + (2 * (SetupCost + (Rounds * RoundCost) + attempts))

\* TC_RSA_private_work
PrivateWork(crt, attempts) ==
  IF attempts = 0 THEN 0 ELSE (IF crt.present THEN CrtCost ELSE FullCost) + (attempts * BlindCost)

CrtOf(k) ==
  [present |-> TRUE, dp |-> k.d % (k.p - 1), dq |-> k.d % (k.q - 1), qinv |-> InverseMod(k.q % k.p, k.p)]

\* CRT values a caller may hold: the right ones, and each of them wrong.
Crts(k) ==
  LET good == CrtOf(k) IN
  IF k.p % 2 = 1 /\ k.q % 2 = 1 /\ k.p > 1 /\ k.q > 1
  THEN {good, [good EXCEPT !.dp = @ + 2], [good EXCEPT !.dq = (@ + 1) % (k.q - 1)],
        [good EXCEPT !.qinv = @ + k.p], [good EXCEPT !.qinv = (@ + 1) % k.p]} ELSE {}

\* tc_rsa_crt_consistent
CrtConsistent(k, crt) ==
  crt.dp = k.d % (k.p - 1) /\ crt.dq = k.d % (k.q - 1) /\ crt.qinv < k.p /\ (k.q * crt.qinv) % k.p = 1

RoundPasses(c, base) ==
  LET twos == CHOOSE i \in 1..HalfBits : (c - 1) % 2^i = 0 /\ (c - 1) % 2^(i + 1) /= 0
      d == (c - 1) \div 2^twos
  IN PowerMod(base, d, c) = 1 \/ \E i \in 0..(twos - 1) : PowerMod(base, d * 2^i, c) = c - 1

\* tc_rsa_private_operation_magnitude on a blinded representative.
FullPower(k, v) == PowerMod(v, k.d, k.n)

\* tc_rsa_crt_private_operation: two powers and Garner's recombination.
CrtPower(k, crt, v) ==
  LET m1 == PowerMod(v % k.p, crt.dp, k.p)
      m2 == PowerMod(v % k.q, crt.dq, k.q)
      delta == (((m1 + k.p - (m2 % k.p)) % k.p) * crt.qinv) % k.p
  IN m2 + (k.q * delta)

Init ==
  /\ call = [op |-> "none", key |-> NoKey, crt |-> NoCrt, input |-> 0, fips |-> FALSE, attempts |-> 0, budget |-> 0]
  /\ run = Idle /\ work = 0 /\ requests = 0 /\ status = "none" /\ out = <<>>

Cost(op, crt, attempts) ==
  CASE op = "validate" -> ValidationCost(attempts)
    [] op = "apply" -> PrivateWork(crt, attempts)
    [] op = "validate_crt" -> CrtCheckCost
    [] op = "derive_crt" -> CrtDeriveCost

\* The entry checks of every operation; on success the first charge.
Entry(op, k, crt, fips, input, attempts, budget) ==
  LET cost == Cost(op, crt, attempts)
      given == IF cost + budget < 0 THEN 0 ELSE cost + budget
      tooFew == (op = "validate" /\ attempts < Rounds) \/ (op = "apply" /\ attempts = 0)
      refusal == IF ~ViewInit(k, crt) THEN "INVALID"
                 ELSE IF tooFew \/ given < cost THEN "LIMIT" ELSE "running"
  IN /\ call' = [op |-> op, key |-> k, crt |-> crt, input |-> input, fips |-> fips, attempts |-> attempts, budget |-> given]
     /\ status' = refusal /\ requests' = 0 /\ out' = <<>>
     /\ run' = IF refusal = "running" THEN [Idle EXCEPT !.phase = op] ELSE Idle
     /\ work' = given

Enter ==
  /\ status = "none"
  /\ \E k \in Keys, attempts \in Attempts, budget \in Budgets :
       \/ \E fips \in BOOLEAN : Entry("validate", k, NoCrt, fips, 0, attempts, budget)
       \/ \E crt \in Crts(k) \union {NoCrt}, input \in Inputs(k) : Entry("apply", k, crt, FALSE, input, attempts, budget)
       \/ \E crt \in Crts(k) : Entry("validate_crt", k, crt, FALSE, 0, attempts, budget)
       \/ Entry("derive_crt", k, NoCrt, FALSE, 0, attempts, budget)

Return(s, value) == status' = s /\ out' = value /\ run' = Idle /\ UNCHANGED call

(* ----------------------------- validation ------------------------------- *)

Factor == IF run.factor = 1 THEN call.key.p ELSE call.key.q

\* The components, then the setup of the first factor.
Components ==
  /\ run.phase = "validate" /\ UNCHANGED requests
  /\ work' = IF call.fips /\ ~ExponentFips(call.key.e) THEN work ELSE work - ComponentCost
  /\ IF MagnitudesConsistent(call.key, call.fips)
     THEN run' = [run EXCEPT !.phase = "setup", !.factor = 1] /\ UNCHANGED <<call, status, out>>
     ELSE Return("INVALID", <<>>)

\* tc_rsa_probable_prime_magnitude up to its loop: three is prime without a
\* test, and a factor is odd here.
Setup ==
  /\ run.phase = "setup" /\ UNCHANGED requests
  /\ IF work < SetupCost + RoundCost + 1 THEN Return("LIMIT", <<>>) /\ UNCHANGED work
     ELSE /\ work' = work - SetupCost
          /\ run' = [run EXCEPT !.phase = "rounds", !.attempts = 0, !.rounds = 0]
          /\ UNCHANGED <<call, status, out>>

\* One attempt of the loop: a base out of range costs its request only.
Attempt(octets) ==
  /\ run.phase = "rounds" /\ run.attempts < call.attempts /\ work >= RoundCost + 1
  /\ requests' = requests + 1
  /\ LET draw == octets % 2^HalfBits
         usable == 1 < draw /\ draw < Factor - 1
         complete == run.rounds + 1 = Rounds IN
     IF ~usable
     THEN work' = work - 1 /\ run' = [run EXCEPT !.attempts = @ + 1] /\ UNCHANGED <<call, status, out>>
     ELSE /\ work' = work - 1 - RoundCost
          /\ IF ~RoundPasses(Factor, draw) THEN Return("INVALID", <<>>)
             ELSE IF complete /\ run.factor = 2 THEN Return("OK", <<>>)
             ELSE /\ run' = IF complete THEN [run EXCEPT !.phase = "setup", !.factor = 2]
                            ELSE [run EXCEPT !.attempts = @ + 1, !.rounds = @ + 1]
                  /\ UNCHANGED <<call, status, out>>

Exhausted ==
  /\ run.phase = "rounds" /\ ~(run.attempts < call.attempts /\ work >= RoundCost + 1)
  /\ Return("LIMIT", <<>>) /\ UNCHANGED <<work, requests>>

(* ------------------------- private operation ---------------------------- *)

\* The base charge and the checks before the first request.
Prepare ==
  /\ run.phase = "apply" /\ UNCHANGED requests
  /\ work' = work - (IF call.crt.present THEN CrtCost ELSE FullCost)
  /\ IF call.input >= call.key.n \/ (~call.crt.present /\ ~PrivateExponentCheck(call.key))
     THEN Return("INVALID", <<>>)
     ELSE run' = [run EXCEPT !.phase = "blind"] /\ UNCHANGED <<call, status, out>>

\* Mutant: the power is not checked before its release.
ReleaseUnchecked(value) == Return("OK", <<value>>)

\* tc_rsa_unblind_verify
Release(value) ==
  IF PowerMod(value, call.key.e, call.key.n) = call.input THEN Return("OK", <<value>>) ELSE Return("ERROR", <<>>)

Usable(blind, n) == 1 < blind /\ blind < n /\ InverseMod(blind, n) /= 0

\* One attempt of tc_rsa_sample_blinding; a usable factor completes the
\* operation.
Blind(blind) ==
  /\ run.phase = "blind" /\ run.attempts < call.attempts /\ work >= BlindCost
  /\ requests' = requests + 1 /\ work' = work - BlindCost
  /\ IF Usable(blind, call.key.n)
     THEN LET k == call.key
              blinded == (call.input * PowerMod(blind, k.e, k.n)) % k.n
              power == IF call.crt.present THEN CrtPower(k, call.crt, blinded) ELSE FullPower(k, blinded)
          IN Release((power * InverseMod(blind, k.n)) % k.n)
     ELSE run' = [run EXCEPT !.attempts = @ + 1] /\ UNCHANGED <<call, status, out>>

BlindingExhausted ==
  /\ run.phase = "blind" /\ ~(run.attempts < call.attempts /\ work >= BlindCost)
  /\ Return("LIMIT", <<>>) /\ UNCHANGED <<work, requests>>

\* A failing request, in either loop.
SourceFails ==
  /\ \/ run.phase = "rounds" /\ run.attempts < call.attempts /\ work >= RoundCost + 1 /\ work' = work - 1
     \/ run.phase = "blind" /\ run.attempts < call.attempts /\ work >= BlindCost /\ work' = work - BlindCost
  /\ requests' = requests + 1
  /\ status' = "ERROR" /\ out' = <<>> /\ run' = [Idle EXCEPT !.phase = "source"] /\ UNCHANGED call

(* ------------------------------ CRT values ------------------------------ *)

ValidateCrt ==
  /\ run.phase = "validate_crt" /\ work' = work - CrtCheckCost /\ UNCHANGED requests
  /\ Return(IF CrtConsistent(call.key, call.crt) THEN "OK" ELSE "INVALID", <<>>)

\* tc_rsa_crt_derive and the publication of all three values.
DeriveCrt ==
  /\ run.phase = "derive_crt" /\ work' = work - CrtDeriveCost /\ UNCHANGED requests
  /\ LET k == call.key IN
     IF k.p % 2 = 1 /\ k.q % 2 = 1 /\ InverseMod(k.q % k.p, k.p) /= 0
     THEN Return("OK", <<CrtOf(k)>>) ELSE Return("INVALID", <<>>)

Done == status \notin {"none", "running"} /\ UNCHANGED vars

Next ==
  \/ Enter \/ Components \/ Setup \/ Exhausted \/ Prepare \/ BlindingExhausted \/ SourceFails
  \/ \E draw \in Draws(call.key) : Attempt(draw) \/ Blind(draw)
  \/ ValidateCrt \/ DeriveCrt \/ Done

Spec == Init /\ [][Next]_vars

(* ------------------------------ properties ------------------------------ *)

\* What a reader of FIPS 186-5 A.1.1 would call a key: the definition does not
\* follow the order or the arithmetic of the code.
FipsKey(k) ==
  /\ k.n = k.p * k.q /\ k.p /= k.q /\ FarApart(k.p, k.q)
  /\ \A f \in {k.p, k.q} : f < 2^HalfBits /\ 2 * f * f >= 2^(2 * HalfBits) /\ f % 2 = 1
  /\ k.d \in (2^HalfBits + 1)..(Lcm(k.p - 1, k.q - 1) - 1)
  /\ \A f \in {k.p, k.q} : (k.e * k.d) % (f - 1) = 1
  /\ k.e % 2 = 1 /\ k.e >= 3

Prime(f) == f > 1 /\ \A i \in 2..(f - 1) : f % i /= 0

\* TC_RSA_validate_private_key accepts only keys of that form, never refuses
\* one with prime factors as INVALID, and an accepted key inverts encryption
\* when its factors are prime.
ValidationExact ==
  call.op = "validate" =>
    LET k == call.key
        good == FipsKey(k) /\ (call.fips => k.e > FipsExponent)
    IN /\ status = "OK" => good
       /\ status = "INVALID" /\ ViewInit(k, NoCrt) => ~good \/ ~Prime(k.p) \/ ~Prime(k.q)
       /\ status = "OK" /\ Prime(k.p) /\ Prime(k.q) =>
            \A m \in Inputs(k) \intersect 0..(k.n - 1) : PowerMod(PowerMod(m, k.e, k.n), k.d, k.n) = m

\* A released value is the preimage of the input under the public key,
\* whatever CRT values or factors the caller's key holds.
ReleaseSound ==
  call.op = "apply" /\ out /= <<>> => status = "OK" /\ PowerMod(out[1], call.key.e, call.key.n) = call.input

\* With a valid key and consistent CRT values every usable blinding factor
\* gives the same value, and only the random source can fail.
BlindingTransparent ==
  LET k == call.key IN
  call.op = "apply" /\ FipsKey(k) /\ Prime(k.p) /\ Prime(k.q) /\ (call.crt.present => call.crt = CrtOf(k)) =>
    /\ status = "OK" => out = <<PowerMod(call.input, k.d, k.n)>>
    /\ status = "INVALID" => call.input >= k.n
    /\ status = "ERROR" => run.phase = "source"

\* The full cost checked on entry covers every later charge, so a budget is
\* never found short in the middle of an operation, and a refused call has
\* spent nothing ("a short budget returns LIMIT with work, scratch and the RNG
\* unchanged", rsa_private_internal.h:261).
PreflightCovers ==
  /\ run.phase = "setup" => work >= SetupCost + RoundCost + 1
  /\ run.phase = "rounds" /\ run.attempts < call.attempts => work >= RoundCost + 1
  /\ run.phase = "blind" /\ run.attempts < call.attempts => work >= BlindCost
  /\ status = "LIMIT" => work = call.budget \/ requests >= call.attempts

\* Derived CRT values pass the validation, and are the only ones that do.
CrtUnique ==
  LET k == call.key IN
  /\ call.op = "derive_crt" /\ status = "OK" => CrtConsistent(k, out[1]) /\ out[1].qinv < k.p
  /\ call.op = "validate_crt" /\ status = "OK" /\ Prime(k.p) => call.crt = CrtOf(k)

(* -------------------------------- proofs -------------------------------- *)

\* Costs, rounds and attempts as the headers define them.
Charges ==
  /\ \A c \in {ComponentCost, SetupCost, RoundCost, FullCost, CrtCost, BlindCost, CrtCheckCost,
               CrtDeriveCost} : c \in Nat
  /\ Rounds \in Nat \ {0} /\ Attempts \subseteq Nat /\ Budgets \subseteq Int

\* What the test of one factor may cost.
Share == SetupCost + (Rounds * RoundCost) + call.attempts

RunPhases == {"idle", "source", "validate", "setup", "rounds", "apply", "blind", "validate_crt", "derive_crt"}

Shapes ==
  /\ run \in [phase : RunPhases, attempts : Nat, rounds : Nat, factor : Nat]
  /\ work \in Nat /\ requests \in Nat /\ call.attempts \in Nat

\* Only a running call is in a phase of its own, and it has released nothing.
RunningOnly ==
  /\ status # "running" => run.phase \in {"idle", "source"}
  /\ status = "running" => out = <<>>
  /\ run.phase \in {"apply", "blind"} => call.op = "apply"
  /\ run.phase = "derive_crt" => call.op = "derive_crt"

\* What is left of the budget pays for all that may still be charged.
Funded ==
  /\ run.phase \in {"validate", "setup", "rounds"} => call.attempts >= Rounds
  /\ run.phase = "validate" => work >= ComponentCost + Share + Share
  /\ run.phase = "setup" => \/ run.factor = 1 /\ work >= Share + Share
                            \/ run.factor = 2 /\ work >= Share
  /\ run.phase = "rounds" =>
       /\ run.attempts <= call.attempts /\ run.rounds < Rounds /\ requests >= run.attempts
       /\ LET rest == ((Rounds - run.rounds) * RoundCost) + (call.attempts - run.attempts)
          IN  \/ run.factor = 1 /\ work >= Share + rest
              \/ run.factor = 2 /\ work >= rest
  /\ run.phase = "apply" =>
       /\ run.attempts = 0
       /\ work >= (IF call.crt.present THEN CrtCost ELSE FullCost) + (call.attempts * BlindCost)
  /\ run.phase = "blind" =>
       /\ run.attempts <= call.attempts /\ requests >= run.attempts
       /\ work >= (call.attempts - run.attempts) * BlindCost
  /\ run.phase = "validate_crt" => work >= CrtCheckCost
  /\ run.phase = "derive_crt" => work >= CrtDeriveCost

\* A call that ends with LIMIT has spent nothing or made all its requests.
LimitJustified == status = "LIMIT" => work = call.budget \/ requests >= call.attempts

IInv == Shapes /\ RunningOnly /\ Funded /\ LimitJustified /\ ReleaseSound

\* One more unit of a cost.
LEMMA OneMore ==
  ASSUME NEW n \in Nat, NEW c \in Nat, n >= 1
  PROVE  n * c \in Nat /\ (n - 1) * c \in Nat /\ n * c = ((n - 1) * c) + c
PROOF
  OBVIOUS

\* The charges by name.
LEMMA ChargesNat ==
  ASSUME Charges
  PROVE  /\ ComponentCost \in Nat /\ SetupCost \in Nat /\ RoundCost \in Nat /\ FullCost \in Nat
         /\ CrtCost \in Nat /\ BlindCost \in Nat /\ CrtCheckCost \in Nat /\ CrtDeriveCost \in Nat
         /\ Rounds \in Nat /\ Rounds >= 1 /\ Rounds * RoundCost \in Nat
         /\ Rounds * RoundCost >= RoundCost
PROOF
  <1>1. /\ ComponentCost \in Nat /\ SetupCost \in Nat /\ RoundCost \in Nat /\ FullCost \in Nat
        /\ CrtCost \in Nat /\ BlindCost \in Nat /\ CrtCheckCost \in Nat /\ CrtDeriveCost \in Nat
        /\ Rounds \in Nat /\ Rounds >= 1
    BY DEF Charges
  <1>2. /\ Rounds * RoundCost \in Nat /\ (Rounds - 1) * RoundCost \in Nat
        /\ Rounds * RoundCost = ((Rounds - 1) * RoundCost) + RoundCost
    BY <1>1, OneMore
  <1>3. QED
    BY <1>1, <1>2

\* The invariant covers every charge before it is made.
LEMMA IInvCovers ==
  ASSUME Charges, IInv
  PROVE  PreflightCovers
PROOF
  <1>1. /\ RoundCost \in Nat /\ SetupCost \in Nat /\ BlindCost \in Nat /\ Rounds \in Nat
        /\ Rounds >= 1 /\ Rounds * RoundCost \in Nat /\ Rounds * RoundCost >= RoundCost
    BY ChargesNat
  <1>2. work \in Nat /\ call.attempts \in Nat /\ run.attempts \in Nat /\ run.rounds \in Nat
    BY DEF IInv, Shapes
  <1>3. Funded /\ LimitJustified
    BY DEF IInv
  <1>4. run.phase = "setup" => work >= SetupCost + RoundCost + 1
    <2>1. Share \in Nat /\ (call.attempts >= Rounds => Share >= SetupCost + RoundCost + 1)
      BY <1>1, <1>2 DEF Share
    <2>2. QED
      BY <1>1, <1>2, <1>3, <2>1 DEF Funded
  <1>5. run.phase = "rounds" /\ run.attempts < call.attempts => work >= RoundCost + 1
    <2> SUFFICES ASSUME run.phase = "rounds", run.attempts < call.attempts
                 PROVE  work >= RoundCost + 1
      OBVIOUS
    <2> DEFINE left == Rounds - run.rounds
    <2>1. left \in Nat /\ left >= 1
      BY <1>1, <1>2, <1>3 DEF Funded
    <2> HIDE DEF left
    <2>2. left * RoundCost \in Nat /\ (left - 1) * RoundCost \in Nat
          /\ left * RoundCost = ((left - 1) * RoundCost) + RoundCost
      BY <1>1, <2>1, OneMore
    <2>3. Share \in Nat
      BY <1>1, <1>2 DEF Share
    <2>4. work >= (left * RoundCost) + (call.attempts - run.attempts)
      <3> DEFINE rest == (left * RoundCost) + (call.attempts - run.attempts)
      <3>1. work >= Share + rest \/ work >= rest
        BY <1>3 DEF Funded, left
      <3>2. rest \in Int
        BY <1>2, <2>2
      <3> HIDE DEF rest
      <3>3. work >= rest
        BY <1>2, <2>3, <3>1, <3>2
      <3>4. QED
        BY <3>3 DEF rest
    <2>5. QED
      BY <1>1, <1>2, <2>2, <2>4
  <1>6. run.phase = "blind" /\ run.attempts < call.attempts => work >= BlindCost
    <2> SUFFICES ASSUME run.phase = "blind", run.attempts < call.attempts
                 PROVE  work >= BlindCost
      OBVIOUS
    <2> DEFINE left == call.attempts - run.attempts
    <2>1. left \in Nat /\ left >= 1
      BY <1>2
    <2>2. work >= left * BlindCost
      BY <1>3 DEF Funded
    <2> HIDE DEF left
    <2>3. (left - 1) * BlindCost \in Nat /\ left * BlindCost = ((left - 1) * BlindCost) + BlindCost
      BY <1>1, <2>1, OneMore
    <2>4. QED
      BY <1>1, <1>2, <2>2, <2>3
  <1>7. QED
    BY <1>3, <1>4, <1>5, <1>6 DEF PreflightCovers, LimitJustified

\* A call that ends without a value keeps the invariant, if a LIMIT is
\* justified.
LEMMA ReturnKeeps ==
  ASSUME IInv, NEW s, s # "running", Return(s, <<>>), work' \in Nat, requests' \in Nat,
         s = "LIMIT" => requests' >= call.attempts
  PROVE  IInv'
PROOF
  <1>1. run' = Idle /\ status' = s /\ out' = <<>> /\ call' = call
    BY DEF Return
  <1>2. Shapes'
    BY <1>1 DEF IInv, Shapes, Idle, RunPhases
  <1>3. run'.phase = "idle"
    BY <1>1 DEF Idle
  <1>4. RunningOnly' /\ Funded'
    BY <1>1, <1>3 DEF RunningOnly, Funded
  <1>5. LimitJustified' /\ ReleaseSound'
    BY <1>1 DEF LimitJustified, ReleaseSound
  <1>6. QED
    BY <1>2, <1>4, <1>5 DEF IInv

\* A step that only moves the run on.
LEMMA MoveKeeps ==
  ASSUME IInv, UNCHANGED <<call, status, out>>, run.phase \notin {"idle", "source"},
         Shapes', Funded',
         run'.phase \in {"apply", "blind"} => run.phase \in {"apply", "blind"},
         run'.phase # "derive_crt"
  PROVE  IInv'
PROOF
  <1>1. status = "running"
    BY DEF IInv, RunningOnly
  <1>2. RunningOnly'
    BY <1>1 DEF IInv, RunningOnly
  <1>3. LimitJustified' /\ ReleaseSound'
    BY <1>1 DEF IInv, RunningOnly, LimitJustified, ReleaseSound
  <1>4. QED
    BY <1>2, <1>3 DEF IInv

\* What a call of each operation is given covers its cost.
LEMMA EntryIInv ==
  ASSUME Charges, NEW op \in {"validate", "apply", "validate_crt", "derive_crt"}, NEW k, NEW crt,
         NEW fips, NEW input, NEW attempts \in Attempts, NEW budget \in Budgets,
         Entry(op, k, crt, fips, input, attempts, budget)
  PROVE  IInv'
PROOF
  <1> DEFINE cost == Cost(op, crt, attempts)
             given == IF cost + budget < 0 THEN 0 ELSE cost + budget
             tooFew == (op = "validate" /\ attempts < Rounds) \/ (op = "apply" /\ attempts = 0)
             refusal == IF ~ViewInit(k, crt) THEN "INVALID"
                        ELSE IF tooFew \/ given < cost THEN "LIMIT" ELSE "running"
  <1>1. /\ call' = [op |-> op, key |-> k, crt |-> crt, input |-> input, fips |-> fips,
                    attempts |-> attempts, budget |-> given]
        /\ status' = refusal /\ requests' = 0 /\ out' = <<>>
        /\ run' = IF refusal = "running" THEN [Idle EXCEPT !.phase = op] ELSE Idle
        /\ work' = given
    BY DEF Entry
  <1>2. /\ call'.attempts = attempts /\ call'.budget = given /\ call'.op = op /\ call'.crt = crt
    BY <1>1
  <1>3. attempts \in Nat /\ budget \in Int
    BY DEF Charges
  <1>4. /\ ComponentCost \in Nat /\ SetupCost \in Nat /\ RoundCost \in Nat /\ FullCost \in Nat
        /\ CrtCost \in Nat /\ BlindCost \in Nat /\ CrtCheckCost \in Nat /\ CrtDeriveCost \in Nat
        /\ Rounds \in Nat /\ Rounds * RoundCost \in Nat
    BY ChargesNat
  <1>5. attempts * BlindCost \in Nat
    BY <1>3, <1>4
  <1>6. /\ op = "validate" => cost = ValidationCost(attempts)
        /\ op = "apply" => cost = PrivateWork(crt, attempts)
        /\ op = "validate_crt" => cost = CrtCheckCost
        /\ op = "derive_crt" => cost = CrtDeriveCost
    BY DEF Cost
  <1>7. cost \in Nat
    <2>1. CASE op = "validate"
      BY <1>3, <1>4, <1>6, <2>1 DEF ValidationCost
    <2>2. CASE op = "apply"
      BY <1>3, <1>4, <1>5, <1>6, <2>2 DEF PrivateWork
    <2>3. QED
      BY <1>4, <1>6, <2>1, <2>2
  <1> HIDE DEF cost
  <1>8. given \in Nat
    BY <1>3, <1>7
  <1> HIDE DEF given
  <1>9. \/ refusal = "running" /\ given >= cost /\ ~tooFew
        \/ refusal \in {"INVALID", "LIMIT"}
    BY <1>7, <1>8
  <1> HIDE DEF refusal
  <1>10. CASE refusal = "running" /\ given >= cost /\ ~tooFew
    <2>1. run' = [phase |-> op, attempts |-> 0, rounds |-> 0, factor |-> 0]
      BY <1>1, <1>10 DEF Idle
    <2>2. run'.phase = op /\ run'.attempts = 0
      BY <2>1
    <2>3. Shapes'
      BY <1>1, <1>2, <1>3, <1>8, <2>1 DEF Shapes, RunPhases
    <2>4. RunningOnly' /\ LimitJustified' /\ ReleaseSound'
      BY <1>1, <1>2, <1>10, <2>2 DEF RunningOnly, LimitJustified, ReleaseSound
    <2>5. Funded'
      <3>1. CASE op = "validate"
        <4>1. Share' = SetupCost + (Rounds * RoundCost) + attempts
          BY <1>2 DEF Share
        <4>2. cost = ComponentCost + Share' + Share'
          BY <1>3, <1>4, <1>6, <3>1, <4>1 DEF ValidationCost
        <4>3. QED
          BY <1>1, <1>2, <1>3, <1>4, <1>10, <2>2, <3>1, <4>2 DEF Funded
      <3>2. CASE op = "apply"
        <4>1. cost = (IF crt.present THEN CrtCost ELSE FullCost) + (attempts * BlindCost)
          BY <1>3, <1>6, <1>10, <3>2 DEF PrivateWork
        <4>2. QED
          BY <1>1, <1>2, <1>10, <2>2, <3>2, <4>1 DEF Funded
      <3>3. QED
        BY <1>1, <1>6, <1>10, <2>2, <3>1, <3>2 DEF Funded
    <2>6. QED
      BY <2>3, <2>4, <2>5 DEF IInv
  <1>11. CASE refusal \in {"INVALID", "LIMIT"}
    <2>1. run' = Idle
      BY <1>1, <1>11
    <2>2. run'.phase = "idle"
      BY <2>1 DEF Idle
    <2>3. Shapes'
      BY <1>1, <1>2, <1>3, <1>8, <2>1 DEF Shapes, RunPhases, Idle
    <2>4. RunningOnly' /\ LimitJustified' /\ ReleaseSound' /\ Funded'
      BY <1>1, <1>2, <1>11, <2>2 DEF RunningOnly, LimitJustified, ReleaseSound, Funded
    <2>5. QED
      BY <2>3, <2>4 DEF IInv
  <1>12. QED
    BY <1>9, <1>10, <1>11

\* The components and the setup of a factor are paid for.
LEMMA ComponentsIInv ==
  ASSUME Charges, IInv, Components
  PROVE  IInv'
PROOF
  <1>1. /\ ComponentCost \in Nat /\ SetupCost \in Nat /\ RoundCost \in Nat /\ Rounds \in Nat
        /\ Rounds * RoundCost \in Nat
    BY ChargesNat
  <1>2. /\ run \in [phase : RunPhases, attempts : Nat, rounds : Nat, factor : Nat]
        /\ work \in Nat /\ requests \in Nat /\ call.attempts \in Nat
    BY DEF IInv, Shapes
  <1>3. Share \in Nat
    BY <1>1, <1>2 DEF Share
  <1>4. run.phase = "validate" /\ work >= ComponentCost + Share + Share /\ call.attempts >= Rounds
    BY DEF IInv, Funded, Components
  <1>5. requests' = requests /\ work' \in Nat /\ work' >= Share + Share
    <2>1. requests' = requests /\ (work' = work \/ work' = work - ComponentCost)
      BY DEF Components
    <2>2. QED
      BY <1>1, <1>2, <1>3, <1>4, <2>1
  <1>6. CASE MagnitudesConsistent(call.key, call.fips)
    <2>1. run' = [run EXCEPT !.phase = "setup", !.factor = 1] /\ UNCHANGED <<call, status, out>>
      BY <1>6 DEF Components
    <2>2. run'.phase = "setup" /\ run'.factor = 1
      BY <1>2, <2>1
    <2>3. Shapes'
      BY <1>2, <1>5, <2>1 DEF Shapes, RunPhases
    <2>4. Share' = Share
      BY <2>1 DEF Share
    <2>5. Funded'
      BY <1>4, <1>5, <2>1, <2>2, <2>4 DEF Funded
    <2>6. QED
      BY <1>4, <2>1, <2>2, <2>3, <2>5, MoveKeeps
  <1>7. CASE ~MagnitudesConsistent(call.key, call.fips)
    <2>1. Return("INVALID", <<>>)
      BY <1>7 DEF Components
    <2>2. QED
      BY <1>2, <1>5, <2>1, ReturnKeeps
  <1>8. QED
    BY <1>6, <1>7

LEMMA SetupIInv ==
  ASSUME Charges, IInv, Setup
  PROVE  IInv'
PROOF
  <1>1. SetupCost \in Nat /\ RoundCost \in Nat /\ Rounds \in Nat /\ Rounds * RoundCost \in Nat /\ Rounds >= 1
    BY ChargesNat
  <1>2. /\ run \in [phase : RunPhases, attempts : Nat, rounds : Nat, factor : Nat]
        /\ work \in Nat /\ requests \in Nat /\ call.attempts \in Nat
    BY DEF IInv, Shapes
  <1>3. run.phase = "setup" /\ requests' = requests
    BY DEF Setup
  <1>4. call.attempts >= Rounds /\ ((run.factor = 1 /\ work >= Share + Share) \/ (run.factor = 2 /\ work >= Share))
    BY <1>3 DEF IInv, Funded
  <1>5. work >= SetupCost + RoundCost + 1
    BY <1>3, IInvCovers DEF PreflightCovers
  <1>6. /\ work' = work - SetupCost
        /\ run' = [run EXCEPT !.phase = "rounds", !.attempts = 0, !.rounds = 0]
        /\ UNCHANGED <<call, status, out>>
    BY <1>1, <1>2, <1>5 DEF Setup
  <1>7. /\ run'.phase = "rounds" /\ run'.attempts = 0 /\ run'.rounds = 0 /\ run'.factor = run.factor
    BY <1>2, <1>6
  <1>8. Shapes'
    <2>1. work' \in Nat
      BY <1>1, <1>2, <1>5, <1>6
    <2>2. run' \in [phase : RunPhases, attempts : Nat, rounds : Nat, factor : Nat]
      BY <1>2, <1>6 DEF RunPhases
    <2>3. QED
      BY <1>2, <1>3, <1>6, <2>1, <2>2 DEF Shapes
  <1>9. Share' = Share /\ Share \in Nat /\ Share = SetupCost + (Rounds * RoundCost) + call.attempts
    BY <1>1, <1>2, <1>6 DEF Share
  <1>10. Funded'
    <2> DEFINE rest == ((Rounds - run.rounds) * RoundCost) + (call.attempts - run.attempts)
    <2>1. rest' = (Rounds * RoundCost) + call.attempts
      BY <1>1, <1>2, <1>6, <1>7
    <2>2. \/ run'.factor = 1 /\ work' >= Share' + rest'
          \/ run'.factor = 2 /\ work' >= rest'
      BY <1>1, <1>2, <1>4, <1>6, <1>7, <1>9, <2>1
    <2>3. run'.attempts <= call'.attempts /\ run'.rounds < Rounds /\ requests' >= run'.attempts
      BY <1>1, <1>2, <1>3, <1>6, <1>7
    <2>4. QED
      BY <1>4, <1>6, <1>7, <2>2, <2>3 DEF Funded
  <1>11. QED
    BY <1>3, <1>6, <1>7, <1>8, <1>10, MoveKeeps

\* An attempt of the loop and the end of its attempts.
LEMMA AttemptIInv ==
  ASSUME Charges, IInv, NEW octets, Attempt(octets)
  PROVE  IInv'
PROOF
  <1>1. SetupCost \in Nat /\ RoundCost \in Nat /\ Rounds \in Nat /\ Rounds * RoundCost \in Nat
    BY ChargesNat
  <1>2. /\ run \in [phase : RunPhases, attempts : Nat, rounds : Nat, factor : Nat]
        /\ work \in Nat /\ requests \in Nat /\ call.attempts \in Nat
    BY DEF IInv, Shapes
  <1>3. /\ run.phase = "rounds" /\ run.attempts < call.attempts /\ work >= RoundCost + 1
        /\ requests' = requests + 1
    BY DEF Attempt
  <1> DEFINE left == Rounds - run.rounds
             rest == (left * RoundCost) + (call.attempts - run.attempts)
             draw == octets % 2^HalfBits
             usable == 1 < draw /\ draw < Factor - 1
             complete == run.rounds + 1 = Rounds
  <1>4. /\ call.attempts >= Rounds
        /\ run.attempts <= call.attempts /\ run.rounds < Rounds /\ requests >= run.attempts
        /\ (run.factor = 1 /\ work >= Share + rest) \/ (run.factor = 2 /\ work >= rest)
    BY <1>3 DEF IInv, Funded
  <1>5. Share \in Nat
    BY <1>1, <1>2 DEF Share
  <1>6. left \in Nat /\ left >= 1
    BY <1>1, <1>2, <1>4
  <1>7. left * RoundCost \in Nat /\ (left - 1) * RoundCost \in Nat
        /\ left * RoundCost = ((left - 1) * RoundCost) + RoundCost
    BY <1>1, <1>6, OneMore
  <1>8. run.attempts \in Nat /\ run.rounds \in Nat
    BY <1>2
  <1>9. CASE ~usable
    <2>1. work' = work - 1 /\ run' = [run EXCEPT !.attempts = @ + 1] /\ UNCHANGED <<call, status, out>>
      BY <1>9 DEF Attempt
    <2>2. /\ run'.phase = "rounds" /\ run'.attempts = run.attempts + 1 /\ run'.rounds = run.rounds
          /\ run'.factor = run.factor
      BY <1>2, <1>3, <2>1
    <2>3. Shapes'
      <3>1. work' \in Nat /\ requests' \in Nat
        BY <1>1, <1>2, <1>3, <2>1
      <3>2. run' \in [phase : RunPhases, attempts : Nat, rounds : Nat, factor : Nat]
        BY <1>2, <2>1
      <3>3. QED
        BY <1>2, <2>1, <3>1, <3>2 DEF Shapes
    <2>4. Share' = Share
      BY <2>1 DEF Share
    <2>5. rest' = rest - 1 /\ rest \in Int
      <3>1. rest' = (left * RoundCost) + (call.attempts - (run.attempts + 1))
        BY <2>1, <2>2
      <3>2. QED
        BY <1>2, <1>7, <1>8, <3>1
    <2> HIDE DEF rest
    <2>6. \/ run'.factor = 1 /\ work' >= Share' + rest'
          \/ run'.factor = 2 /\ work' >= rest'
      BY <1>2, <1>4, <1>5, <2>1, <2>2, <2>4, <2>5
    <2>7. run'.attempts <= call'.attempts /\ run'.rounds < Rounds /\ requests' >= run'.attempts
      BY <1>2, <1>3, <1>4, <1>8, <2>1, <2>2
    <2>8. Funded'
      BY <1>4, <2>1, <2>2, <2>6, <2>7 DEF Funded, rest
    <2>9. QED
      BY <1>3, <2>1, <2>2, <2>3, <2>8, MoveKeeps
  <1>10. CASE usable /\ (~RoundPasses(Factor, draw) \/ (complete /\ run.factor = 2))
    <2>1. work' = work - 1 - RoundCost /\ (Return("INVALID", <<>>) \/ Return("OK", <<>>))
      BY <1>10 DEF Attempt
    <2>2. work' \in Nat /\ requests' \in Nat
      BY <1>1, <1>2, <1>3, <2>1
    <2>3. QED
      BY <2>1, <2>2, ReturnKeeps
  <1>11. CASE usable /\ RoundPasses(Factor, draw) /\ complete /\ run.factor # 2
    <2>1. /\ work' = work - 1 - RoundCost /\ run' = [run EXCEPT !.phase = "setup", !.factor = 2]
          /\ UNCHANGED <<call, status, out>>
      BY <1>11 DEF Attempt
    <2>2. run'.phase = "setup" /\ run'.factor = 2
      BY <1>2, <2>1
    <2>3. Shapes'
      <3>1. work' \in Nat /\ requests' \in Nat
        BY <1>1, <1>2, <1>3, <2>1
      <3>2. run' \in [phase : RunPhases, attempts : Nat, rounds : Nat, factor : Nat]
        BY <1>2, <2>1 DEF RunPhases
      <3>3. QED
        BY <1>2, <2>1, <3>1, <3>2 DEF Shapes
    <2>4. Share' = Share
      BY <2>1 DEF Share
    <2>5. work' >= Share'
      <3>1. rest >= RoundCost + 1 /\ rest \in Int
        BY <1>1, <1>2, <1>3, <1>7, <1>8
      <3> HIDE DEF rest
      <3>2. QED
        BY <1>1, <1>2, <1>4, <1>5, <1>11, <2>1, <2>4, <3>1
    <2>6. Funded'
      BY <1>4, <2>1, <2>2, <2>5 DEF Funded
    <2>7. QED
      BY <1>3, <2>1, <2>2, <2>3, <2>6, MoveKeeps
  <1>12. CASE usable /\ RoundPasses(Factor, draw) /\ ~complete
    <2>1. /\ work' = work - 1 - RoundCost
          /\ run' = [run EXCEPT !.attempts = @ + 1, !.rounds = @ + 1]
          /\ UNCHANGED <<call, status, out>>
      BY <1>12 DEF Attempt
    <2>2. /\ run'.phase = "rounds" /\ run'.attempts = run.attempts + 1
          /\ run'.rounds = run.rounds + 1 /\ run'.factor = run.factor
      BY <1>2, <1>3, <2>1
    <2>3. Shapes'
      <3>1. work' \in Nat /\ requests' \in Nat
        BY <1>1, <1>2, <1>3, <2>1
      <3>2. run' \in [phase : RunPhases, attempts : Nat, rounds : Nat, factor : Nat]
        <4>1. run.attempts + 1 \in Nat /\ run.rounds + 1 \in Nat
          BY <1>8
        <4>2. run' = [run EXCEPT !.attempts = run.attempts + 1, !.rounds = run.rounds + 1]
          BY <2>1
        <4>3. QED
          BY <1>2, <4>1, <4>2
      <3>3. QED
        BY <1>2, <2>1, <3>1, <3>2 DEF Shapes
    <2>4. Share' = Share
      BY <2>1 DEF Share
    <2>5. rest' = rest - RoundCost - 1 /\ rest \in Int
      <3>1. left' = left - 1
        BY <1>1, <1>8, <2>2
      <3>2. rest' = ((left - 1) * RoundCost) + (call.attempts - (run.attempts + 1))
        BY <2>1, <2>2, <3>1
      <3> HIDE DEF left
      <3>3. QED
        BY <1>1, <1>2, <1>7, <1>8, <3>2
    <2> HIDE DEF rest
    <2>6. \/ run'.factor = 1 /\ work' >= Share' + rest'
          \/ run'.factor = 2 /\ work' >= rest'
      BY <1>1, <1>2, <1>4, <1>5, <2>1, <2>2, <2>4, <2>5
    <2>7. run'.attempts <= call'.attempts /\ run'.rounds < Rounds /\ requests' >= run'.attempts
      <3>1. run.rounds + 1 < Rounds
        BY <1>1, <1>4, <1>8, <1>12
      <3>2. QED
        BY <1>2, <1>3, <1>4, <1>8, <2>1, <2>2, <3>1
    <2>8. Funded'
      BY <1>4, <2>1, <2>2, <2>6, <2>7 DEF Funded, rest
    <2>9. QED
      BY <1>3, <2>1, <2>2, <2>3, <2>8, MoveKeeps
  <1>13. QED
    BY <1>9, <1>10, <1>11, <1>12

LEMMA ExhaustedIInv ==
  ASSUME Charges, IInv, Exhausted \/ BlindingExhausted
  PROVE  IInv'
PROOF
  <1>1. work \in Nat /\ requests \in Nat /\ call.attempts \in Nat /\ run.attempts \in Nat
    BY DEF IInv, Shapes
  <1>2. Return("LIMIT", <<>>) /\ work' = work /\ requests' = requests
    BY DEF Exhausted, BlindingExhausted
  <1>3. run.attempts <= call.attempts /\ requests >= run.attempts
    BY DEF Exhausted, BlindingExhausted, IInv, Funded
  <1>4. ~(run.attempts < call.attempts)
    BY IInvCovers DEF PreflightCovers, Exhausted, BlindingExhausted
  <1>5. requests' >= call.attempts
    BY <1>1, <1>2, <1>3, <1>4
  <1>6. QED
    BY <1>1, <1>2, <1>5, ReturnKeeps

\* The base charge and the blinding attempts.
LEMMA PrepareIInv ==
  ASSUME Charges, IInv, Prepare
  PROVE  IInv'
PROOF
  <1> DEFINE base == IF call.crt.present THEN CrtCost ELSE FullCost
             tail == call.attempts * BlindCost
  <1>1. base \in Nat /\ BlindCost \in Nat
    BY ChargesNat
  <1>2. /\ run \in [phase : RunPhases, attempts : Nat, rounds : Nat, factor : Nat]
        /\ work \in Nat /\ requests \in Nat /\ call.attempts \in Nat
    BY DEF IInv, Shapes
  <1>3. run.phase = "apply" /\ requests' = requests /\ work' = work - base
    BY DEF Prepare
  <1>4. run.attempts = 0 /\ work >= base + tail
    BY <1>3 DEF IInv, Funded
  <1>5. tail \in Nat
    BY <1>1, <1>2
  <1> HIDE DEF base, tail
  <1>6. work' \in Nat /\ work' >= tail
    BY <1>1, <1>2, <1>3, <1>4, <1>5
  <1>7. CASE Return("INVALID", <<>>)
    BY <1>2, <1>3, <1>6, <1>7, ReturnKeeps
  <1>8. CASE run' = [run EXCEPT !.phase = "blind"] /\ UNCHANGED <<call, status, out>>
    <2>1. run'.phase = "blind" /\ run'.attempts = 0
      BY <1>2, <1>4, <1>8
    <2>2. run' \in [phase : RunPhases, attempts : Nat, rounds : Nat, factor : Nat]
      BY <1>2, <1>8 DEF RunPhases
    <2>3. Shapes'
      BY <1>2, <1>3, <1>6, <1>8, <2>2 DEF Shapes
    <2>4. (call'.attempts - run'.attempts) * BlindCost = tail
      BY <1>1, <1>2, <1>8, <2>1 DEF tail
    <2>5. run'.attempts <= call'.attempts /\ requests' >= run'.attempts
      BY <1>2, <1>3, <1>8, <2>1
    <2>6. Funded'
      BY <1>6, <2>1, <2>4, <2>5 DEF Funded
    <2>7. QED
      BY <1>3, <1>8, <2>1, <2>3, <2>6, MoveKeeps
  <1>9. QED
    BY <1>7, <1>8 DEF Prepare

\* A value that the check lets through is the preimage of the input.
LEMMA ReleaseIInv ==
  ASSUME IInv, NEW value, Release(value), work' \in Nat, requests' \in Nat
  PROVE  IInv'
PROOF
  <1> DEFINE sound == PowerMod(value, call.key.e, call.key.n) = call.input
  <1>1. CASE ~sound
    <2>1. Return("ERROR", <<>>)
      BY <1>1 DEF Release
    <2>2. QED
      BY <2>1, ReturnKeeps
  <1>2. CASE sound
    <2>1. run' = Idle /\ status' = "OK" /\ out' = <<value>> /\ call' = call
      BY <1>2 DEF Release, Return
    <2>2. Shapes'
      BY <2>1 DEF IInv, Shapes, Idle, RunPhases
    <2>3. run'.phase = "idle"
      BY <2>1 DEF Idle
    <2>4. RunningOnly' /\ Funded' /\ LimitJustified'
      BY <2>1, <2>3 DEF RunningOnly, Funded, LimitJustified
    <2>5. PowerMod(out'[1], call'.key.e, call'.key.n) = call'.input
      <3>1. out'[1] = value
        BY <2>1
      <3>2. QED
        BY <1>2, <2>1, <3>1
    <2>6. ReleaseSound'
      BY <2>1, <2>5 DEF ReleaseSound
    <2>7. QED
      BY <2>2, <2>4, <2>6 DEF IInv
  <1>3. QED
    BY <1>1, <1>2

LEMMA BlindIInv ==
  ASSUME Charges, IInv, NEW blind, Blind(blind)
  PROVE  IInv'
PROOF
  <1>1. BlindCost \in Nat
    BY ChargesNat
  <1>2. /\ run \in [phase : RunPhases, attempts : Nat, rounds : Nat, factor : Nat]
        /\ work \in Nat /\ requests \in Nat /\ call.attempts \in Nat /\ run.attempts \in Nat
    BY DEF IInv, Shapes
  <1>3. /\ run.phase = "blind" /\ run.attempts < call.attempts /\ work >= BlindCost
        /\ requests' = requests + 1 /\ work' = work - BlindCost
    BY DEF Blind
  <1>4. work' \in Nat /\ requests' \in Nat
    BY <1>1, <1>2, <1>3
  <1>5. CASE Usable(blind, call.key.n)
    <2>1. \E value : Release(value)
      BY <1>5 DEF Blind
    <2>2. QED
      BY <1>4, <2>1, ReleaseIInv
  <1>6. CASE ~Usable(blind, call.key.n)
    <2> DEFINE left == call.attempts - run.attempts
    <2>1. run' = [run EXCEPT !.attempts = @ + 1] /\ UNCHANGED <<call, status, out>>
      BY <1>6 DEF Blind
    <2>2. run'.phase = "blind" /\ run'.attempts = run.attempts + 1
      BY <1>2, <1>3, <2>1
    <2>3. run' \in [phase : RunPhases, attempts : Nat, rounds : Nat, factor : Nat]
      BY <1>2, <2>1
    <2>4. Shapes'
      BY <1>2, <1>4, <2>1, <2>3 DEF Shapes
    <2>5. requests >= run.attempts /\ work >= left * BlindCost
      BY <1>3 DEF IInv, Funded
    <2>6. left \in Nat /\ left >= 1 /\ call'.attempts - run'.attempts = left - 1
      BY <1>2, <1>3, <2>1, <2>2
    <2> HIDE DEF left
    <2>7. /\ left * BlindCost \in Nat /\ (left - 1) * BlindCost \in Nat
          /\ left * BlindCost = ((left - 1) * BlindCost) + BlindCost
      BY <1>1, <2>6, OneMore
    <2>8. work' >= (left - 1) * BlindCost
      BY <1>1, <1>2, <1>3, <2>5, <2>7
    <2>9. work' >= (call'.attempts - run'.attempts) * BlindCost
      BY <2>6, <2>8
    <2>10. run'.attempts <= call'.attempts /\ requests' >= run'.attempts
      BY <1>2, <1>3, <2>1, <2>2, <2>5
    <2>11. Funded'
      BY <2>2, <2>9, <2>10 DEF Funded
    <2>12. QED
      BY <1>3, <2>1, <2>2, <2>4, <2>11, MoveKeeps
  <1>7. QED
    BY <1>5, <1>6

\* A failing source ends the call and publishes nothing.
LEMMA SourceFailsIInv ==
  ASSUME Charges, IInv, SourceFails
  PROVE  IInv'
PROOF
  <1>1. BlindCost \in Nat /\ RoundCost \in Nat
    BY ChargesNat
  <1>2. work \in Nat /\ requests \in Nat /\ call.attempts \in Nat
    BY DEF IInv, Shapes
  <1>3. /\ (work >= RoundCost + 1 /\ work' = work - 1) \/ (work >= BlindCost /\ work' = work - BlindCost)
        /\ requests' = requests + 1 /\ status' = "ERROR" /\ out' = <<>> /\ call' = call
        /\ run' = [phase |-> "source", attempts |-> 0, rounds |-> 0, factor |-> 0]
    BY DEF SourceFails, Idle
  <1>4. work' \in Nat /\ requests' \in Nat
    BY <1>1, <1>2, <1>3
  <1>5. run'.phase = "source"
    BY <1>3
  <1>6. Shapes'
    BY <1>2, <1>3, <1>4 DEF Shapes, RunPhases
  <1>7. RunningOnly' /\ Funded' /\ LimitJustified' /\ ReleaseSound'
    BY <1>3, <1>5 DEF RunningOnly, Funded, LimitJustified, ReleaseSound
  <1>8. QED
    BY <1>6, <1>7 DEF IInv

\* The two operations on CRT values are one step after their entry.
LEMMA CrtIInv ==
  ASSUME Charges, IInv, ValidateCrt \/ DeriveCrt
  PROVE  IInv'
PROOF
  <1>1. CrtCheckCost \in Nat /\ CrtDeriveCost \in Nat
    BY ChargesNat
  <1>2. work \in Nat /\ requests \in Nat /\ call.attempts \in Nat
    BY DEF IInv, Shapes
  <1>3. \/ work >= CrtCheckCost /\ work' = work - CrtCheckCost
        \/ work >= CrtDeriveCost /\ work' = work - CrtDeriveCost
    BY DEF ValidateCrt, DeriveCrt, IInv, Funded
  <1>4. requests' = requests
    BY DEF ValidateCrt, DeriveCrt
  <1>5. work' \in Nat /\ requests' \in Nat
    BY <1>1, <1>2, <1>3, <1>4
  <1>6. CASE Return("OK", <<>>) \/ Return("INVALID", <<>>)
    BY <1>5, <1>6, ReturnKeeps
  <1>7. CASE DeriveCrt /\ \E value : Return("OK", value)
    <2>1. run' = Idle /\ status' = "OK" /\ call' = call /\ call.op = "derive_crt"
      BY <1>7 DEF Return, DeriveCrt, IInv, RunningOnly
    <2>2. Shapes'
      BY <1>2, <1>5, <2>1 DEF Shapes, Idle, RunPhases
    <2>3. run'.phase = "idle"
      BY <2>1 DEF Idle
    <2>4. RunningOnly' /\ Funded' /\ LimitJustified' /\ ReleaseSound'
      BY <2>1, <2>3 DEF RunningOnly, Funded, LimitJustified, ReleaseSound
    <2>5. QED
      BY <2>2, <2>4 DEF IInv
  <1>8. QED
    <2>1. ValidateCrt => Return("OK", <<>>) \/ Return("INVALID", <<>>)
      BY DEF ValidateCrt
    <2>2. DeriveCrt => (\E value : Return("OK", value)) \/ Return("INVALID", <<>>)
      BY DEF DeriveCrt
    <2>3. QED
      BY <1>6, <1>7, <2>1, <2>2

LEMMA StutterIInv ==
  ASSUME IInv, UNCHANGED vars
  PROVE  IInv'
PROOF
  <1>1. call' = call /\ run' = run /\ work' = work /\ requests' = requests /\ status' = status /\ out' = out
    BY DEF vars
  <1>2. Shapes' /\ RunningOnly'
    BY <1>1 DEF IInv, Shapes, RunningOnly
  <1>3. Share' = Share
    BY <1>1 DEF Share
  <1>4. Funded'
    BY <1>1, <1>3 DEF IInv, Funded
  <1>5. LimitJustified' /\ ReleaseSound'
    BY <1>1 DEF IInv, LimitJustified, ReleaseSound
  <1>6. QED
    BY <1>2, <1>4, <1>5 DEF IInv

LEMMA InitIInv ==
  ASSUME Init
  PROVE  IInv
PROOF
  <1>1. /\ run = [phase |-> "idle", attempts |-> 0, rounds |-> 0, factor |-> 0]
        /\ work = 0 /\ requests = 0 /\ status = "none" /\ out = <<>> /\ call.attempts = 0
    BY DEF Init, Idle
  <1>2. run.phase = "idle"
    BY <1>1
  <1>3. Shapes
    BY <1>1 DEF Shapes, RunPhases
  <1>4. RunningOnly /\ Funded /\ LimitJustified /\ ReleaseSound
    BY <1>1, <1>2 DEF RunningOnly, Funded, LimitJustified, ReleaseSound
  <1>5. QED
    BY <1>3, <1>4 DEF IInv

LEMMA NextIInv ==
  ASSUME Charges, IInv, [Next]_vars
  PROVE  IInv'
PROOF
  <1>1. CASE Enter
    <2>1. PICK k \in Keys, attempts \in Attempts, budget \in Budgets :
            \/ \E fips \in BOOLEAN : Entry("validate", k, NoCrt, fips, 0, attempts, budget)
            \/ \E crt \in Crts(k) \union {NoCrt}, input \in Inputs(k) :
                 Entry("apply", k, crt, FALSE, input, attempts, budget)
            \/ \E crt \in Crts(k) : Entry("validate_crt", k, crt, FALSE, 0, attempts, budget)
            \/ Entry("derive_crt", k, NoCrt, FALSE, 0, attempts, budget)
      BY <1>1 DEF Enter
    <2>2. \E op \in {"validate", "apply", "validate_crt", "derive_crt"} : \E crt, fips, input :
            Entry(op, k, crt, fips, input, attempts, budget)
      BY <2>1
    <2>3. QED
      BY <2>2, EntryIInv
  <1>2. CASE Components
    BY <1>2, ComponentsIInv
  <1>3. CASE Setup
    BY <1>3, SetupIInv
  <1>4. CASE Exhausted \/ BlindingExhausted
    BY <1>4, ExhaustedIInv
  <1>5. CASE Prepare
    BY <1>5, PrepareIInv
  <1>6. CASE SourceFails
    BY <1>6, SourceFailsIInv
  <1>7. CASE \E draw \in Draws(call.key) : Attempt(draw) \/ Blind(draw)
    BY <1>7, AttemptIInv, BlindIInv
  <1>8. CASE ValidateCrt \/ DeriveCrt
    BY <1>8, CrtIInv
  <1>9. CASE Done \/ UNCHANGED vars
    BY <1>9, StutterIInv DEF Done
  <1>10. QED
    BY <1>1, <1>2, <1>3, <1>4, <1>5, <1>6, <1>7, <1>8, <1>9 DEF Next

\* Whatever the costs, the rounds and the attempts, the work checked on entry
\* covers every later charge of tc_rsa_probable_prime_magnitude and
\* tc_rsa_sample_blinding: no call runs short in the middle, LIMIT means that
\* nothing was spent or every request was made, and the counter of work never
\* passes below zero.
THEOREM PreflightSufficient ==
  ASSUME Charges
  PROVE  Spec => [](PreflightCovers /\ work \in Nat)
PROOF
  <1>1. Init => IInv
    BY InitIInv
  <1>2. IInv /\ [Next]_vars => IInv'
    BY NextIInv
  <1>3. IInv => PreflightCovers /\ work \in Nat
    BY IInvCovers DEF IInv, Shapes
  <1>4. QED
    BY <1>1, <1>2, <1>3, PTL DEF Spec

\* Whatever key, CRT values and blinding factors a call is made with, a value
\* released by tc_rsa_private_apply is the preimage of its input
\* (tc_rsa_unblind_verify before the only copy into the output).
THEOREM ReleaseChecked ==
  ASSUME Charges
  PROVE  Spec => []ReleaseSound
PROOF
  <1>1. Init => IInv
    BY InitIInv
  <1>2. IInv /\ [Next]_vars => IInv'
    BY NextIInv
  <1>3. IInv => ReleaseSound
    BY DEF IInv
  <1>4. QED
    BY <1>1, <1>2, <1>3, PTL DEF Spec
=============================================================================
