------------------------------- MODULE Ecdsa --------------------------------
(***************************************************************************)
(* The elliptic curve code (src/src/ec.c): the point arithmetic, and the   *)
(* operations on keys: public key, key pair generation, ECDH, point        *)
(* validation, ECDSA signing with retries and a self-check, verification,  *)
(* against a work budget and a random source that may fail or draw out of  *)
(* range.  Field elements are residues (their limbs are the subject of     *)
(* LimbArithmetic).  A point is a Jacobian triple, infinity is Z = 0.      *)
(***************************************************************************)
EXTENDS Integers, Sequences, SequencesExt

CONSTANTS
  P, B, N,     \* prime, coefficient and order of y^2 = x^3 - 3x + B
  Bits,        \* coordinate width; P and N fill it
  Generator,   \* the base point
  Keys,        \* private scalars the caller may pass
  Digests,     \* leading Bits bits of the digests
  Signatures,  \* signature pairs the caller may ask to verify
  Budgets,     \* work budgets
  Attempts     \* attempt limits

(* --------------------------- point arithmetic ---------------------------- *)

Add(a, b) == (a + b) % P
Sub(a, b) == (a - b + P) % P
Mul(a, b) == (a * b) % P

Points == (0..(P - 1)) \X (0..(P - 1)) \X (0..(P - 1))

\* point_double, with the slope 3(X - Z^2)(X + Z^2) that a = -3 allows.
PointDouble[q \in Points] ==
  LET x == q[1] y == q[2] z == q[3]
      yy == Mul(y, y)
      y4 == Mul(yy, yy)
      s == Mul(2, Sub(Sub(Mul(Add(x, yy), Add(x, yy)), Mul(x, x)), y4))
      zz == Mul(z, z)
      m == Mul(3, Mul(Sub(x, zz), Add(x, zz)))
      x3 == Sub(Sub(Mul(m, m), s), s)
  IN <<x3, Sub(Mul(m, Sub(s, x3)), Mul(8, y4)), Mul(2, Mul(y, z))>>

\* point_add: the general formula, then the selections for equal points and
\* for infinity, in the order of the code.
PointAdd(q, r, double) ==
  LET zz1 == Mul(q[3], q[3]) zz2 == Mul(r[3], r[3])
      u1 == Mul(q[1], zz2) s1 == Mul(q[2], Mul(zz2, r[3]))
      h == Sub(Mul(r[1], zz1), u1)
      w == Sub(Mul(r[2], Mul(zz1, q[3])), s1)
      hh == Mul(h, h) hhh == Mul(hh, h) v == Mul(u1, hh)
      x3 == Sub(Sub(Mul(w, w), hhh), Mul(2, v))
      sum == <<x3, Sub(Mul(w, Sub(v, x3)), Mul(s1, hhh)), Mul(Mul(q[3], r[3]), h)>>
  IN IF r[3] = 0 THEN q
     ELSE IF q[3] = 0 THEN r
     ELSE IF h = 0 /\ w = 0 THEN double ELSE sum

Bit(k, i) == (k \div 2^i) % 2

\* One step of multiply_point: swap, double, add, swap back.
LadderStep(r, bit) ==
  LET a == IF bit = 1 THEN r[2] ELSE r[1]
      b == IF bit = 1 THEN r[1] ELSE r[2]
      d == PointDouble[a]
      s == PointAdd(a, b, d)
  IN IF bit = 1 THEN <<s, d>> ELSE <<d, s>>

\* One step of multiply_point_public, which skips the addition of a zero bit.
PublicStep(acc, q, bit) ==
  LET d == PointDouble[acc] IN IF bit = 1 THEN PointAdd(d, q, PointDouble[d]) ELSE d

BitsOf(k) == [j \in 1..Bits |-> Bit(k, Bits - j)]

MultiplyPoint(k, q) == FoldLeft(LAMBDA r, bit : LadderStep(r, bit), <<<<0, 0, 0>>, q>>, BitsOf(k))[1]

MultiplyPublic(k, q) == FoldLeft(LAMBDA acc, bit : PublicStep(acc, q, bit), <<0, 0, 0>>, BitsOf(k))

\* invert_prime: Fermat's exponent prime - 2, most significant bit first.
InvertPrime(base, prime) ==
  FoldLeft(LAMBDA out, bit : LET square == (out * out) % prime
                             IN IF bit = 1 THEN (square * base) % prime ELSE square,
           1, BitsOf(prime - 2))

PointToAffine(q) ==
  LET zi == InvertPrime(q[3], P) zz == Mul(zi, zi) IN <<Mul(q[1], zz), Mul(q[2], Mul(zz, zi))>>

\* validate_point: coordinates below the prime that satisfy the equation.
ValidatePoint(x, y) ==
  x < P /\ y < P /\ Mul(y, y) = Add(Sub(Mul(Mul(x, x), x), Mul(3, x)), B)

Jacobian(a) == <<a[1], a[2], 1>>

(* ------------------------------ reference ------------------------------- *)

\* The group law on affine points; <<>> is infinity.
Inverse1(a) == CHOOSE i \in 1..(P - 1) : (a * i) % P = 1

Plus(a, b) ==
  IF a = <<>> THEN b ELSE IF b = <<>> THEN a
  ELSE IF a[1] = b[1] /\ (a[2] + b[2]) % P = 0 THEN <<>>
  ELSE LET slope == IF a = b THEN ((3 * a[1] * a[1] - 3 + P) * Inverse1((2 * a[2]) % P)) % P
                    ELSE ((b[2] - a[2] + P) * Inverse1((b[1] - a[1] + P) % P)) % P
           x == (slope * slope - a[1] - b[1] + 2 * P) % P
       IN <<x, (slope * (a[1] - x + P) - a[2] + P) % P>>

CurvePoints == {a \in (0..(P - 1)) \X (0..(P - 1)) :
                  (a[2] * a[2]) % P = (a[1] * a[1] * a[1] + 3 * (P - a[1]) + B) % P}

\* The multiples 0a, 1a, ... of every point: the first 2^j, and with the next
\* one added the 2^j after them.
Multiples == [a \in CurvePoints |->
                FoldLeft(LAMBDA seq, j : seq \o [i \in DOMAIN seq |-> Plus(seq[i], Plus(seq[Len(seq)], a))],
                         <<<<>>>>, [j \in 1..Bits |-> j])]

Times(k, a) == IF a = <<>> THEN <<>> ELSE Multiples[a][k + 1]

(* ------------------------------ operations ------------------------------- *)

VARIABLES op, key, peer, digest, sig, work, tries, status, out, faulty

vars == <<op, key, peer, digest, sig, work, tries, status, out, faulty>>

Width == 0..(2^Bits - 1)

\* TC_EC_operation_work.
Cost(o) == CASE o = "public" -> 2 * Bits
             [] o = "validate" -> 1
             [] o \in {"ecdh", "generate"} -> (2 * Bits) + 1
             [] o = "verify" -> (4 * Bits) + 1
             [] o = "sign" -> (3 * Bits) + 1 + (4 * Bits) + 1

\* An input byte string of the coordinate width, and its range check.
ScalarValid(k) == k /= 0 /\ k < N

Reduce(k) == IF k >= N THEN k - N ELSE k

\* key_operation: a multiple of the generator or of a validated peer point.
KeyOperation(k, point, own) ==
  IF ~ScalarValid(k) \/ (~own /\ ~ValidatePoint(point[1], point[2])) THEN <<>>
  ELSE LET r == MultiplyPoint(k, Jacobian(point)) IN IF r[3] = 0 THEN <<>> ELSE PointToAffine(r)

\* Mutant: the coordinate is not reduced modulo the order.
VerifiesUnreduced(point, e, s) ==
  /\ ScalarValid(s[1]) /\ ScalarValid(s[2])
  /\ LET w == InvertPrime(s[2], N)
         a == MultiplyPublic((Reduce(e) * w) % N, Jacobian(Generator))
         b == MultiplyPublic((s[1] * w) % N, Jacobian(point))
         sum == PointAdd(a, b, PointDouble[a])
     IN sum[3] /= 0 /\ PointToAffine(sum)[1] = s[1]

\* verification_scalars and verify: both scalars in range, then the sum of
\* two public multiples, whose coordinate is reduced modulo the order.
Verifies(point, e, s) ==
  /\ ScalarValid(s[1]) /\ ScalarValid(s[2])
  /\ ValidatePoint(point[1], point[2])
  /\ LET w == InvertPrime(s[2], N)
         u1 == (Reduce(e) * w) % N
         u2 == (s[1] * w) % N
         a == MultiplyPublic(u1, Jacobian(Generator))
         b == MultiplyPublic(u2, Jacobian(point))
         sum == PointAdd(a, b, PointDouble[a])
     IN sum[3] /= 0 /\ Reduce(PointToAffine(sum)[1]) = s[1]

\* The signature of one attempt, <<>> when the nonce is discarded.
Sign(k, e, nonce) ==
  LET q == KeyOperation(nonce, Generator, TRUE)
      r == Reduce(q[1])
      s == (((r * k) + Reduce(e)) * InvertPrime(nonce, N)) % N
  IN IF q = <<>> THEN <<>> ELSE IF r = 0 \/ s = 0 THEN <<>> ELSE <<r, s>>

(* ------------------------------ operations ------------------------------ *)

Init ==
  /\ op = "idle" /\ key = 0 /\ peer = <<0, 0>> /\ digest = 0 /\ sig = <<0, 0>> /\ work = 0 /\ tries = 0
  /\ status = "none" /\ out = <<>> /\ faulty = FALSE

Idle == op = "idle" /\ status = "none"

Answer(o, st, value) ==
  /\ op' = o /\ status' = st
  /\ out' = IF st = "OK" THEN value ELSE out

\* charge: work is taken before the operation runs.
Charged(o) == work >= Cost(o) /\ work' = work - Cost(o)

\* The charge, then the multiple; nothing is computed on a short budget.
Derived(o, w, q, value) ==
  IF w < Cost(o) THEN work' = w /\ Answer(o, "LIMIT", <<>>)
  ELSE /\ work' = w - Cost(o)
       /\ IF q = <<>> THEN Answer(o, "INVALID", <<>>) ELSE Answer(o, "OK", value)

PublicKey ==
  /\ Idle
  /\ \E k \in Keys, w \in Budgets :
       \E q \in {KeyOperation(k, Generator, TRUE)} :
         key' = k /\ peer' = Generator /\ Derived("public", w, q, q)
  /\ UNCHANGED <<digest, sig, tries, faulty>>

\* TC_ECDH: the shared secret is the first coordinate.
Ecdh ==
  /\ Idle
  /\ \E k \in Keys, w \in Budgets, point \in Width \X Width :
       \E q \in {KeyOperation(k, point, FALSE)} :
         key' = k /\ peer' = point /\ Derived("ecdh", w, q, <<q[1]>>)
  /\ UNCHANGED <<digest, sig, tries, faulty>>

\* TC_EC_validate_public_key.
Validate ==
  /\ Idle
  /\ \E w \in {0, 1}, point \in Width \X Width :
       /\ peer' = point /\ work' = IF w < Cost("validate") THEN w ELSE w - 1
       /\ Answer("validate", IF w < 1 THEN "LIMIT"
                             ELSE IF ValidatePoint(point[1], point[2]) THEN "OK" ELSE "INVALID", <<>>)
  /\ UNCHANGED <<key, digest, sig, tries, faulty>>

\* TC_ECDSA_verify_digest.
Verify ==
  /\ Idle
  /\ \E k \in Keys \cap 1..(N - 1), e \in Digests, s \in Signatures, w \in {Cost("verify") - 1, Cost("verify")} :
       /\ peer' = Times(k, Generator) /\ digest' = e /\ sig' = s /\ key' = k
       /\ Derived("verify", w, IF Verifies(peer', e, s) THEN peer' ELSE <<>>, <<>>)
  /\ UNCHANGED <<tries, faulty>>

\* The entry checks of key generation and signing.
Begin ==
  /\ Idle
  /\ \E o \in {"generate", "sign"}, k \in Keys, p \in Keys \cap 1..(N - 1), e \in Digests, w \in Budgets,
        t \in Attempts :
       /\ o = "generate" => k = 0 /\ e = 0 /\ p = 1
       /\ key' = k /\ peer' = Times(p, Generator) /\ digest' = e /\ work' = w /\ tries' = t
       /\ IF o = "sign" /\ (t = 0 \/ w < Cost("sign")) THEN Answer(o, "LIMIT", <<>>)
          ELSE IF o = "sign" /\ ~ScalarValid(k) THEN Answer(o, "INVALID", <<>>)
          ELSE op' = o /\ UNCHANGED <<status, out>>
  /\ UNCHANGED <<sig, faulty>>

Running(o) == op = o /\ o \in {"generate", "sign"} /\ status = "none"

\* The attempts or the budget are used up.
GiveUp ==
  /\ Running(op) /\ (tries = 0 \/ work < Cost(op))
  /\ Answer(op, "LIMIT", <<>>)
  /\ UNCHANGED <<key, peer, digest, sig, work, tries, faulty>>

\* The random source fails after the charge.
SourceFails ==
  /\ Running(op) /\ tries > 0
  /\ Charged(op) /\ Answer(op, "ERROR", <<>>) /\ faulty' = TRUE
  /\ UNCHANGED <<key, peer, digest, sig, tries>>

\* One attempt of TC_EC_generate_key_pair.
GenerateAttempt ==
  /\ Running("generate") /\ tries > 0
  /\ Charged("generate") /\ tries' = tries - 1
  /\ \E k \in Width :
       LET q == KeyOperation(k, Generator, TRUE)
       IN IF q = <<>> THEN UNCHANGED <<op, status, out, key>>
          ELSE Answer("generate", "OK", q) /\ key' = k
  /\ UNCHANGED <<peer, digest, sig, faulty>>

\* Mutant: the signature is released without checking it.
ReleaseUnchecked(candidate) == Answer("sign", "OK", candidate)

\* Release only a signature that verifies under the caller's public key.
Release(candidate) ==
  IF Verifies(peer, digest, candidate) THEN Answer("sign", "OK", candidate) ELSE Answer("sign", "ERROR", <<>>)

\* One attempt of TC_ECDSA_sign_digest_external_random; a fault may disturb
\* the candidate before it is checked.
SignAttempt ==
  /\ Running("sign") /\ tries > 0
  /\ Charged("sign") /\ tries' = tries - 1
  /\ \E nonce \in Width, fault \in BOOLEAN :
       \E made \in {Sign(key, digest, nonce)} :
         IF made = <<>> THEN UNCHANGED <<op, status, out, faulty>>
         ELSE /\ faulty' = fault
              /\ Release(IF fault THEN <<made[1], (made[2] % (N - 1)) + 1>> ELSE made)
  /\ UNCHANGED <<key, peer, digest, sig>>

Done == status /= "none" /\ UNCHANGED vars

Next == PublicKey \/ Ecdh \/ Validate \/ Verify \/ Begin \/ GiveUp \/ SourceFails \/ GenerateAttempt \/ SignAttempt \/ Done

Spec == Init /\ [][Next]_vars

(* ------------------------------ properties ------------------------------ *)

\* The textbook condition on a signature, over the affine group law.
GoodSignature(q, e, s) ==
  /\ s[1] \in 1..(N - 1) /\ s[2] \in 1..(N - 1)
  /\ \E w \in 1..(N - 1) :
       /\ (s[2] * w) % N = 1
       /\ LET sum == Plus(Times((e * w) % N, Generator), Times((s[1] * w) % N, q))
          IN sum /= <<>> /\ sum[1] % N = s[1]

\* A released signature is valid under the caller's public key, whatever
\* happened between signing and release; with a matching public key and no
\* fault signing does not fail the self-check.
SignatureSound ==
  /\ op = "sign" /\ status = "OK" => GoodSignature(peer, digest, out)
  /\ op = "sign" /\ status = "ERROR" /\ ~faulty => Times(key, Generator) /= peer

\* Verification accepts exactly the valid signatures, when it is paid for; a
\* short budget is left as it is and gives no verdict.
VerifyExact ==
  op = "verify" => /\ status = "LIMIT" <=> work > 0
                   /\ status /= "LIMIT" => (status = "OK" <=> GoodSignature(peer, digest, sig))

\* Public keys, key pairs and shared secrets are the multiples they should be,
\* and only for scalars in range and points of the curve.
KeysExact ==
  /\ op = "public" /\ status = "OK" => out = Times(key, Generator) /\ key \in 1..(N - 1)
  /\ op = "generate" /\ status = "OK" => out = Times(key, Generator) /\ key \in 1..(N - 1)
  /\ op = "ecdh" /\ status = "OK" => peer \in CurvePoints /\ out = <<Times(key, peer)[1]>>
  /\ op = "ecdh" /\ status = "INVALID" => key \notin 1..(N - 1) \/ peer \notin CurvePoints
  /\ op = "validate" /\ status = "OK" => peer \in CurvePoints

\* A failed operation writes nothing to its output, and the budget never
\* goes below zero.
FailureWritesNothing == (status /= "OK" => out = <<>>) /\ work >= 0
=============================================================================
