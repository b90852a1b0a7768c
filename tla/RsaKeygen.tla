----------------------------- MODULE RsaKeygen ------------------------------
(***************************************************************************)
(* Resumable RSA key generation (src/src/rsa_keygen.c): the loop of        *)
(* TC_RSA_keygen_step phase by phase, with a work budget per call, a       *)
(* cancellation test at the top of every iteration, a random source that   *)
(* may fail and limits that hold across calls.                             *)
(*                                                                         *)
(* Key sizes are toys: primes of PrimeBits bits and the Fermat exponent    *)
(* 2^ExponentBits + 1, for which the code's inversion chain has the same   *)
(* shape as for 65537.  A Miller-Rabin round is its definition over the    *)
(* integers; LimbArithmetic checks the limb code against that definition.  *)
(***************************************************************************)
EXTENDS Integers, FiniteSets, SequencesExt

CONSTANTS
  PrimeBits,       \* bits of a prime
  ExponentBits,    \* E is 2^ExponentBits + 1
  SmallPrimes,     \* the divisors of the candidate filter
  Threshold,       \* the primes differ by more than 2^Threshold
  Rounds,          \* TC_RSA_VALIDATION_ROUNDS
  Draws, Bases,    \* what the source may deliver for a candidate and a base
  CandidateWork, SetupWork, RoundWork,
  Budgets,         \* work of one call
  Limits           \* candidate_attempts and random_requests of init

E == 2^ExponentBits + 1

\* TC_RSA_KEYGEN_STEP_WORK
StepWork == SetupWork

VARIABLES
  state,    \* TC_RSA_keygen_state; active stands for the marker
  ws,       \* retained candidates p, q and the candidate scratch is set up for
  output,   \* the caller's buffers: <<>> until published
  call,     \* the step in progress: open, budget given, work left, at the loop top
  result,   \* what the last call returned
  tested    \* history: rounds the present p and q have passed

vars == <<state, ws, output, call, result, tested>>

Empty == [active |-> FALSE, phase |-> "EMPTY", candidates |-> 0, requests |-> 0, rounds |-> 0,
          candidate_limit |-> 0, random_limit |-> 0]
Wiped == [p |-> 0, q |-> 0, scratch |-> 0]
NoCall == [open |-> FALSE, budget |-> 0, work |-> 0, top |-> FALSE, units |-> 0]

PowerMod(b, e, m) ==
  LET power[k \in Nat] == IF k = 0 THEN 1 % m
                          ELSE LET half == power[k \div 2]
                               IN (half * half * (IF k % 2 = 1 THEN b ELSE 1)) % m
  IN power[e]

Gcd(a, b) == CHOOSE d \in 1..a : /\ a % d = 0 /\ b % d = 0
                                 /\ \A c \in (d + 1)..a : a % c /= 0 \/ b % c /= 0

\* The code sets the two top bits and the lowest bit of a draw.
Shaped(draw) ==
  LET low == draw % 2^(PrimeBits - 2) IN (3 * 2^(PrimeBits - 2)) + low + (1 - (low % 2))

\* tc_rsa_keygen_candidate_filter
CandidateFilter(c) == (\A s \in SmallPrimes : c % s /= 0) /\ c % E /= 1

FarApart(p, q) == (IF p > q THEN p - q ELSE q - p) > 2^Threshold

\* tc_rsa_witness_sample, with the mask to the candidate's width.
WitnessSample(c, draw) ==
  LET base == draw % 2^PrimeBits IN [base |-> base, accepted |-> 1 < base /\ base < c - 1]

RoundPasses(c, base) ==
  LET twos == CHOOSE k \in 1..PrimeBits : (c - 1) % 2^k = 0 /\ (c - 1) % 2^(k + 1) /= 0
      d == (c - 1) \div 2^twos
  IN PowerMod(base, d, c) = 1 \/ \E k \in 0..(twos - 1) : PowerMod(base, d * 2^k, c) = c - 1

\* tc_rsa_keygen_inverse_65537: one square and one product per exponent bit.
InverseE(value) ==
  FoldLeft(LAMBDA r, i : (((r * r) % E) * value) % E, 1, [i \in 1..ExponentBits |-> i])

\* Mutant: the inverse of the residue itself is taken as the multiplier.
DeriveSign(p, q) ==
  LET lambda == ((p - 1) * (q - 1)) \div Gcd(p - 1, q - 1)
      d == ((lambda * InverseE(lambda % E)) + 1) \div E
  IN [n |-> p * q, d |-> d, large |-> d > 2^PrimeBits]

\* tc_rsa_keygen_derive: d = (lambda k + 1) / E for the k that makes it exact.
Derive(p, q) ==
  LET lambda == ((p - 1) * (q - 1)) \div Gcd(p - 1, q - 1)
      multiplier == E - InverseE(lambda % E)
      d == ((lambda * multiplier) + 1) \div E
  IN [n |-> p * q, d |-> d, large |-> d > 2^PrimeBits]

Init ==
  /\ state = Empty /\ ws = Wiped /\ output = <<>> /\ call = NoCall /\ result = "none"
  /\ tested = [p |-> 0, q |-> 0]

\* TC_RSA_keygen_init; short stands for a buffer below its required size.
KeygenInit(candidates, requests, short) ==
  /\ ~call.open
  /\ result' = IF state.active THEN "ARGUMENT" ELSE IF candidates = 0 \/ requests = 0 \/ short THEN "LIMIT" ELSE "OK"
  /\ IF result' = "OK"
     THEN /\ state' = [Empty EXCEPT !.active = TRUE, !.phase = "P_NEW", !.candidate_limit = candidates,
                                    !.random_limit = requests]
          /\ ws' = Wiped /\ tested' = [p |-> 0, q |-> 0]
     ELSE UNCHANGED <<state, ws, tested>>
  /\ UNCHANGED <<call, output>>

\* TC_RSA_keygen_clear, by a caller that abandons the generation.
Clear ==
  /\ ~call.open /\ state' = Empty
  /\ ws' = IF state.active THEN Wiped ELSE ws
  /\ UNCHANGED <<output, call, result, tested>>

\* The start of TC_RSA_keygen_step.
Enter(budget) ==
  /\ ~call.open
  /\ IF state.active
     THEN call' = [open |-> TRUE, budget |-> budget, work |-> budget, top |-> TRUE, units |-> 0] /\ UNCHANGED result
     ELSE result' = "ARGUMENT" /\ UNCHANGED call
  /\ UNCHANGED <<state, ws, output, tested>>

\* tc_rsa_keygen_stop: wipe everything and return.
Stop(status) ==
  state' = Empty /\ ws' = Wiped /\ result' = status /\ call' = NoCall /\ UNCHANGED <<output, tested>>

\* Mutant: a budget equal to the unit does not suffice.
PauseEqual(unit) ==
  /\ call.work <= unit
  /\ result' = "IN_PROGRESS" /\ call' = [call EXCEPT !.open = FALSE, !.top = FALSE]
  /\ UNCHANGED <<state, ws, output, tested>>

\* The budget does not cover the pending unit: everything is retained.
Pause(unit) ==
  /\ call.work < unit
  /\ result' = "IN_PROGRESS" /\ call' = [call EXCEPT !.open = FALSE, !.top = FALSE]
  /\ UNCHANGED <<state, ws, output, tested>>

\* Charge a unit; the next phase runs in the same iteration unless the code
\* continues at the top.
Charge(unit, continue) ==
  call.work >= unit /\ call' = [call EXCEPT !.work = @ - unit, !.units = @ + 1, !.top = continue]

Cancel == call.open /\ call.top /\ Stop("CANCELLED")

Which(phase) == IF phase \in {"P_NEW", "P_PREPARE", "P_ROUND"} THEN "p" ELSE "q"

\* A draw for the phase's candidate; the bytes of the workspace are
\* overwritten before they are filtered.
Drawn(draw) ==
  LET c == Shaped(draw)
      far == state.phase = "Q_NEW" => FarApart(ws.p, c)
      kept == CandidateFilter(c) /\ far
  IN /\ Charge(CandidateWork, ~kept)
     /\ state' = [state EXCEPT !.candidates = @ + 1, !.requests = @ + 1,
                     !.phase = IF ~kept THEN @ ELSE IF @ = "P_NEW" THEN "P_PREPARE" ELSE "Q_PREPARE"]
     /\ ws' = [ws EXCEPT ![Which(state.phase)] = c, !.scratch = IF state.phase = "Q_NEW" /\ CandidateFilter(c) THEN 0 ELSE @]
     /\ tested' = [tested EXCEPT ![Which(state.phase)] = 0]
     /\ UNCHANGED <<output, result>>

\* tc_rsa_keygen_random: the request limit, then the source.
Requestable == state.requests < state.random_limit

Candidate ==
  /\ call.open /\ state.phase \in {"P_NEW", "Q_NEW"}
  /\ IF state.candidates = state.candidate_limit THEN Stop("LIMIT")
     ELSE \/ Pause(CandidateWork)
          \/ call.work >= CandidateWork /\ ~Requestable /\ Stop("LIMIT")
          \/ call.work >= CandidateWork /\ Requestable /\ Stop("ERROR")
          \/ Requestable /\ \E draw \in Draws : Drawn(draw)

Prepare ==
  /\ call.open /\ state.phase \in {"P_PREPARE", "Q_PREPARE"}
  /\ \/ Pause(SetupWork)
     \/ /\ Charge(SetupWork, FALSE)
        /\ ws' = [ws EXCEPT !.scratch = ws[Which(state.phase)]]
        /\ state' = [state EXCEPT !.rounds = 0, !.phase = IF @ = "P_PREPARE" THEN "P_ROUND" ELSE "Q_ROUND"]
        /\ UNCHANGED <<output, result, tested>>

\* Where a round leads: the same phase, a new candidate, or the next part.
RoundNext(phase, accepted, passed, complete) ==
  CASE ~accepted \/ (passed /\ ~complete) -> phase
    [] accepted /\ ~passed -> IF phase = "P_ROUND" THEN "P_NEW" ELSE "Q_NEW"
    [] complete -> IF phase = "P_ROUND" THEN "Q_NEW" ELSE "DERIVE"

\* One Miller-Rabin round: an unusable base costs the round and its request.
Rounded(draw) ==
  LET w == WitnessSample(ws[Which(state.phase)], draw)
      passed == w.accepted /\ RoundPasses(ws.scratch, w.base)
      next == RoundNext(state.phase, w.accepted, passed, passed /\ state.rounds + 1 = Rounds)
      leaves == next \in {"P_NEW", "Q_NEW"}
  IN /\ Charge(RoundWork, next /= "DERIVE")
     /\ state' = [state EXCEPT !.requests = @ + 1, !.phase = next,
                               !.rounds = IF leaves THEN 0 ELSE IF passed THEN @ + 1 ELSE @]
     /\ ws' = [ws EXCEPT !.scratch = IF leaves THEN 0 ELSE @]
     /\ tested' = [tested EXCEPT ![Which(state.phase)] = IF passed THEN @ + 1 ELSE @]
     /\ UNCHANGED <<output, result>>

Round ==
  /\ call.open /\ state.phase \in {"P_ROUND", "Q_ROUND"}
  /\ \/ Pause(RoundWork)
     \/ call.work >= RoundWork /\ ~Requestable /\ Stop("LIMIT")
     \/ call.work >= RoundWork /\ Requestable /\ Stop("ERROR")
     \/ Requestable /\ \E draw \in Bases : Rounded(draw)

\* Publication writes every output, then clears the state.
Publish(key) ==
  /\ output' = [n |-> key.n, d |-> key.d, p |-> ws.p, q |-> ws.q, tested |-> tested]
  /\ state' = Empty /\ ws' = Wiped /\ result' = "OK"
  /\ call' = NoCall /\ UNCHANGED tested

\* Deriving n and d costs one setup; a small d starts over.
DeriveKey ==
  /\ call.open /\ state.phase = "DERIVE"
  /\ \/ Pause(SetupWork)
     \/ /\ call.work >= SetupWork
        /\ LET key == Derive(ws.p, ws.q)
           IN IF key.large THEN Publish(key)
              ELSE /\ Charge(SetupWork, TRUE)
                   /\ state' = [state EXCEPT !.phase = "P_NEW", !.rounds = 0]
                   /\ ws' = [ws EXCEPT !.scratch = 0]
                   /\ UNCHANGED <<output, result, tested>>

Next ==
  \/ \E c, r \in Limits, short \in BOOLEAN : KeygenInit(c, r, short)
  \/ Clear
  \/ \E budget \in Budgets : Enter(budget)
  \/ Cancel \/ Candidate \/ Prepare \/ Round \/ DeriveKey

Spec == Init /\ [][Next]_vars

(* ------------------------------ properties ------------------------------ *)

TypeOK ==
  /\ state.phase \in {"EMPTY", "P_NEW", "P_PREPARE", "P_ROUND", "Q_NEW", "Q_PREPARE", "Q_ROUND", "DERIVE"}
  /\ state.active = (state.phase /= "EMPTY")
  /\ state.candidates \in 0..state.candidate_limit /\ state.requests \in 0..state.random_limit
  /\ call.work \in 0..call.budget

\* A published key (rsa_keygen.c:342) satisfies FIPS 186-5 A.1.1: distant
\* half-width primes that each passed every round on the very bytes that are
\* published, p - 1 and q - 1 coprime to E, and d the large inverse of E
\* modulo lcm(p - 1, q - 1).
KeySound ==
  output /= <<>> =>
    LET k == output
        lcm == ((k.p - 1) * (k.q - 1)) \div Gcd(k.p - 1, k.q - 1) IN
    /\ k.n = k.p * k.q /\ k.n >= 2^((2 * PrimeBits) - 1)
    /\ k.tested.p = Rounds /\ k.tested.q = Rounds
    /\ FarApart(k.p, k.q)
    /\ Gcd(k.p - 1, E) = 1 /\ Gcd(k.q - 1, E) = 1
    /\ (k.d * E) % lcm = 1 /\ k.d < lcm /\ k.d > 2^PrimeBits

\* However often a generation is suspended, a round runs on the setup of the
\* present candidate, and the rounds counted are rounds of that candidate.
ResumeConsistent ==
  state.phase \in {"P_ROUND", "Q_ROUND"} =>
    ws.scratch = ws[Which(state.phase)] /\ state.rounds = tested[Which(state.phase)] /\ state.rounds < Rounds

\* From the second prime on, the first has passed all its rounds and is not
\* touched again.
FirstPrimeKept ==
  state.phase \in {"Q_NEW", "Q_PREPARE", "Q_ROUND", "DERIVE"} => tested.p = Rounds /\ ws.p /= 0

\* When no generation is active, every retained candidate has been wiped,
\* whichever way it ended.
NothingRetained == ~state.active => ws = Wiped

\* A call that is given StepWork completes at least one unit before it asks
\* to be called again (tiny_crypto/rsa.h: "lets every pending unit make
\* progress").
StepWorkProgresses == result = "IN_PROGRESS" /\ ~call.open /\ call.budget >= StepWork => call.units > 0

=============================================================================
