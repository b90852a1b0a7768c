--------------------------- MODULE LimbArithmetic ---------------------------
(***************************************************************************)
(* Fixed-width multi-precision arithmetic: limb loops with carries,        *)
(* Montgomery multiplication, restoring division, the binary inverse and   *)
(* gcd, exponentiation and the Miller-Rabin round                          *)
(* (src/src/mp_internal.h, mp_inverse_internal.h, mp_prime_internal.h).    *)
(*                                                                         *)
(* A number is a tuple of limbs of W bits, least significant first.  Byte  *)
(* order conversion is the pair Limbs and Value.  Masked selection is IF:  *)
(* constant time is no property of this model.  Every routine runs on      *)
(* small operands and is compared with integer arithmetic.                 *)
(***************************************************************************)
EXTENDS Integers, Sequences, SequencesExt, FiniteSets

CONSTANTS
  W,          \* bits of a limb
  N,          \* limbs of an operand
  Operands    \* integer values of the operands and moduli

Radix == 2^W

Upto(n) == [i \in 1..n |-> i]
Downto(n) == [i \in 1..n |-> n + 1 - i]

\* tc_mp_to_be and tc_mp_from_be_padded, as conversions from and to integers.
Value(a) == FoldLeft(LAMBDA v, i : (v * Radix) + a[i], 0, Downto(Len(a)))
Limbs(v, n) == [i \in 1..n |-> (v \div Radix^(i - 1)) % Radix]

Zero(n) == [i \in 1..n |-> 0]
One(n) == [i \in 1..n |-> IF i = 1 THEN 1 ELSE 0]

\* The loop all limb operations share: <<limbs, carry out>>; a borrow is a
\* negative carry.
CarryLoop(n, column(_, _)) ==
  FoldLeft(LAMBDA acc, i : LET v == column(i, acc[2]) IN <<Append(acc[1], v % Radix), v \div Radix>>,
           <<<<>>, 0>>, Upto(n))

Subtract(a, b) ==
  LET s == CarryLoop(Len(a), LAMBDA i, c : a[i] - b[i] + c) IN [out |-> s[1], borrow |-> -s[2]]

ShiftRight(a, high) ==
  LET next == Tail(a) \o <<high>>
  IN FoldLeft(LAMBDA s, i : Append(s, (a[i] \div 2) + ((next[i] % 2) * 2^(W - 1))), <<>>, Upto(Len(a)))

\* Mutant: the carry out of the top limb is ignored.
ReduceLow(low, high, p) ==
  LET s == Subtract(low, p) IN IF s.borrow = 0 THEN s.out ELSE low

\* tc_mp_reduce: one conditional subtraction of a value below 2p.
Reduce(low, high, p) ==
  LET s == Subtract(low, p) IN IF high /= 0 \/ s.borrow = 0 THEN s.out ELSE low

AddMod(a, b, p) == LET s == CarryLoop(Len(a), LAMBDA i, c : a[i] + b[i] + c) IN Reduce(s[1], s[2], p)

SubMod(a, b, p) ==
  LET s == Subtract(a, b)
  IN IF s.borrow = 0 THEN s.out ELSE CarryLoop(Len(a), LAMBDA i, c : s.out[i] + p[i] + c)[1]

HalfMod(a, p) ==
  LET s == IF a[1] % 2 = 1 THEN CarryLoop(Len(a), LAMBDA i, c : a[i] + p[i] + c) ELSE <<a, 0>>
  IN ShiftRight(s[1], s[2])

\* Newton's iteration for -low^-1 modulo the radix; each round doubles the
\* correct bits.
MontgomeryFactor(low) ==
  LET rounds == CHOOSE k \in 0..W : 2^k >= W /\ \A j \in 0..(k - 1) : 2^j < W
      inverse == FoldLeft(LAMBDA v, i : (v * ((2 - (low * v)) % Radix)) % Radix, 1, Upto(rounds))
  IN (Radix - inverse) % Radix

\* Row i of a schoolbook product, added into out at limb i.
AddRow(out, i, factor, b) ==
  LET n == Len(b)
      row == CarryLoop(n, LAMBDA j, c : (factor * b[j]) + out[i + j - 1] + c)
  IN [out |-> SubSeq(out, 1, i - 1) \o row[1] \o SubSeq(out, i + n, Len(out)), carry |-> row[2]]

Multiply(a, b) ==
  FoldLeft(LAMBDA out, i : LET r == AddRow(out, i, a[i], b) IN [r.out EXCEPT ![i + Len(b)] = r.carry],
           Zero(2 * Len(a)), Upto(Len(a)))

\* One limb of the Montgomery reduction: add the multiple of p that clears
\* limb i, and carry to the end of the product.
ReduceLimb(t, i, p, n0) ==
  LET n == Len(p)
      r == AddRow(t, i, (t[i] * n0) % Radix, p)
      tail == FoldLeft(LAMBDA acc, k : LET v == acc[1][k] + acc[2]
                                       IN <<[acc[1] EXCEPT ![k] = v % Radix], v \div Radix>>,
                       <<r.out, r.carry>>, [k \in 1..(n + 2 - i) |-> i + n + k - 1])
  IN tail[1]

\* tc_mp_montgomery: a b / R modulo p.
Montgomery(a, b, p) ==
  LET n == Len(p)
      t == FoldLeft(LAMBDA s, i : ReduceLimb(s, i, p, MontgomeryFactor(p[1])), Multiply(a, b) \o <<0, 0>>, Upto(n))
  IN Reduce(SubSeq(t, n + 1, 2 * n), t[(2 * n) + 1], p)

\* One restoring step of tc_mp_divide_words: <<remainder, quotient bit>>.
DivideBit(remainder, bit, p) ==
  LET s == CarryLoop(Len(p), LAMBDA i, c : (2 * remainder[i]) + (IF i = 1 THEN bit ELSE c))
      d == Subtract(s[1], p)
      take == s[2] /= 0 \/ d.borrow = 0
  IN <<IF take THEN d.out ELSE s[1], IF take THEN 1 ELSE 0>>

BitAt(a, k) == (a[((k - 1) \div W) + 1] \div 2^((k - 1) % W)) % 2

\* One step of tc_mp_mod_u32_step for a one-word divisor.
DivideWordBit(remainder, bit, divisor) ==
  LET shifted == (2 * remainder) + bit
      take == IF shifted >= divisor THEN 1 ELSE 0
  IN <<shifted - (take * divisor), take>>

\* One bit of tc_mp_power_padded: the square and the product are both made,
\* then one is selected.
PowerBit(bit, square, product) == IF bit = 1 THEN product ELSE square

\* One bit of tc_mp_power_public: starts at the first set bit and skips the
\* multiplication of a zero bit.
PowerPublicBit(x, base, bit, p) ==
  LET square == IF x.started THEN Montgomery(x.out, x.out, p) ELSE x.out
  IN IF bit = 0 THEN [x EXCEPT !.out = square]
     ELSE [started |-> TRUE, out |-> IF x.started THEN Montgomery(square, base, p) ELSE base]

InverseInit(a, p) == [u |-> a, v |-> p, r |-> One(Len(p)), s |-> Zero(Len(p))]

\* One iteration of tc_mp_inverse on operands u, v and coefficients r, s: an
\* even operand first, of two odd ones the larger.
InverseStep(x, p) ==
  LET swap == x.u[1] % 2 = 1 /\ (x.v[1] % 2 = 0 \/ Subtract(x.u, x.v).borrow = 1)
      y == IF swap THEN [u |-> x.v, v |-> x.u, r |-> x.s, s |-> x.r] ELSE x
      odd == y.u[1] % 2 = 1
  IN [y EXCEPT !.u = ShiftRight(IF odd THEN Subtract(y.u, y.v).out ELSE y.u, 0),
               !.r = HalfMod(IF odd THEN SubMod(y.r, y.s, p) ELSE y.r, p)]

\* The end of tc_mp_inverse: <<>> when neither operand has reached one.
InverseResult(x) ==
  IF x.u = One(Len(x.u)) THEN x.r ELSE IF x.v = One(Len(x.v)) THEN x.s ELSE <<>>

\* The three loops of tc_mp_gcd: remove a common factor two; halve y after
\* subtracting the odd x when y is odd; put the factors back.
GcdCommon(g) ==
  IF (g.x[1] % 2) + (g.y[1] % 2) = 0
  THEN [x |-> ShiftRight(g.x, 0), y |-> ShiftRight(g.y, 0), shift |-> g.shift + 1] ELSE g

GcdKeepOdd(g) == IF g.x[1] % 2 = 0 THEN [g EXCEPT !.x = g.y, !.y = g.x] ELSE g

GcdMain(g) ==
  LET odd == g.y[1] % 2 = 1
      h == IF odd /\ Subtract(g.y, g.x).borrow = 1 THEN [g EXCEPT !.x = g.y, !.y = g.x] ELSE g
  IN [h EXCEPT !.y = ShiftRight(IF odd THEN Subtract(h.y, h.x).out ELSE h.y, 0)]

GcdRestore(g, i) ==
  IF i < g.shift THEN [g EXCEPT !.x = CarryLoop(Len(g.x), LAMBDA j, c : (2 * g.x[j]) + c)[1]] ELSE g

\* tc_mp_miller_rabin_prepare: the power of two in p - 1 and its odd part.
Twos(p) ==
  LET even == [p EXCEPT ![1] = @ - 1]
  IN CHOOSE k \in 1..(W * Len(p)) : BitAt(even, k + 1) = 1 /\ \A j \in 1..k : BitAt(even, j) = 0

OddPart(p) == Limbs((Value(p) - 1) \div 2^Twos(p), Len(p))

\* A square v of tc_mp_miller_rabin_round: only the first twos - 1 count.
SquareCounts(m, v, step, p, minus) ==
  [m EXCEPT !.value = v, !.passed = @ \/ (step < Twos(p) /\ v = minus)]

(* ------------------------------- their loops ----------------------------- *)

VARIABLES job, p, a, b, loop, left, done, out

vars == <<job, p, a, b, loop, left, done, out>>

Bits == N * W

LP == Limbs(p, N)
LA == Limbs(a, N)
LB == Limbs(b, N)

\* One and a value in Montgomery form; the factor R^2 is what the job "r2"
\* computes.
R2 == Limbs((Radix^N * Radix^N) % p, N)
MontOne == Montgomery(One(N), R2, LP)
MontA == Montgomery(LA, R2, LP)

\* The callers' preconditions: odd moduli for Montgomery arithmetic, residues
\* below the modulus, any divisor above one, nonzero gcd operands.
Fits == CASE job \in {"field", "power"} -> p % 2 = 1 /\ a < p /\ b < p
          [] job = "r2" -> a = 0 /\ b = 0
          [] job = "divide" -> TRUE
          [] job = "inverse" -> p % 2 = 1 /\ a < p /\ b = 0
          [] job = "gcd" -> p = 2 /\ a > 0 /\ b > 0
          [] job = "prime" -> p % 2 = 1 /\ p > 3 /\ a > 1 /\ a < p - 1 /\ b = 0

Start == CASE job = "field" -> <<>>
           [] job = "r2" -> One(N)
           [] job = "divide" -> [r |-> Zero(N), q |-> 0, wr |-> 0, wq |-> 0]
           [] job = "power" -> [padded |-> MontOne, public |-> [started |-> FALSE, out |-> MontOne], base |-> MontA]
           [] job = "inverse" -> InverseInit(LA, LP)
           [] job = "gcd" -> [x |-> LA, y |-> LB, shift |-> 0]
           [] job = "prime" -> [value |-> MontOne, passed |-> FALSE, base |-> MontA, one |-> MontOne]

Passes == CASE job = "field" -> 0
            [] job = "power" -> Bits
            [] job \in {"r2", "divide", "inverse"} -> 2 * Bits
            [] job = "gcd" -> 4 * Bits
            [] job = "prime" -> (2 * Bits) - 1

Init ==
  /\ job \in {"field", "r2", "divide", "power", "inverse", "gcd", "prime"}
  /\ p \in Operands /\ a \in Operands /\ b \in Operands /\ p > 1 /\ Fits
  /\ loop = Start /\ left = Passes /\ done = FALSE /\ out = <<>>

Step(j, next) ==
  job = j /\ left > 0 /\ loop' = next /\ left' = left - 1 /\ UNCHANGED <<job, p, a, b, done, out>>

Finish(j, value) ==
  job = j /\ left = 0 /\ ~done /\ done' = TRUE /\ out' = value /\ UNCHANGED <<job, p, a, b, loop, left>>

Field ==
  Finish("field", [add |-> Value(AddMod(LA, LB, LP)), sub |-> Value(SubMod(LA, LB, LP)),
                   half |-> Value(HalfMod(LA, LP)), mont |-> Value(Montgomery(LA, LB, LP)),
                   wide |-> Value(Multiply(LA, LB))])

\* tc_mp_montgomery_r2: one is doubled 2 n W times.
Double == Step("r2", AddMod(loop, loop, LP)) \/ Finish("r2", Value(loop))

\* tc_mp_divide_words on a dividend of 2 N limbs, beside tc_mp_divide_u32.
Divide ==
  \/ job = "divide" /\ left > 0 /\
     \E d \in {DivideBit(loop.r, BitAt(LA \o LB, left), LP)},
        e \in {DivideWordBit(loop.wr, BitAt(LA \o LB, left), p)} :
       Step("divide", [r |-> d[1], q |-> (2 * loop.q) + d[2], wr |-> e[1], wq |-> (2 * loop.wq) + e[2]])
  \/ Finish("divide", [loop EXCEPT !.r = Value(@)])

\* The powers of MontA, by both routines.
Power ==
  \/ job = "power" /\ left > 0 /\
     \E square \in {Montgomery(loop.padded, loop.padded, LP)} :
       \E product \in {Montgomery(square, loop.base, LP)} :
         Step("power", [loop EXCEPT !.padded = PowerBit(BitAt(LB, left), square, product),
                                    !.public = PowerPublicBit(@, loop.base, BitAt(LB, left), LP)])
  \/ Finish("power", [padded |-> Value(Montgomery(loop.padded, One(N), LP)),
                      public |-> Value(Montgomery(loop.public.out, One(N), LP))])

Invert == Step("inverse", InverseStep(loop, LP)) \/ Finish("inverse", InverseResult(loop))

GreatestDivisor ==
  \/ Step("gcd", CASE left > (3 * Bits) + 1 -> GcdCommon(loop)
                    [] left = (3 * Bits) + 1 -> GcdKeepOdd(GcdCommon(loop))
                    [] left \in (Bits + 1)..(3 * Bits) -> GcdMain(loop)
                    [] left <= Bits -> GcdRestore(loop, Bits - left))
  \/ Finish("gcd", Value(loop.x))

\* tc_mp_miller_rabin_round: the power, the comparison, then the squares.
Round ==
  \/ job = "prime" /\ left > 0 /\
     \E minus \in {Subtract(LP, loop.one).out}, square \in {Montgomery(loop.value, loop.value, LP)} :
       \E product \in {Montgomery(square, loop.base, LP)} :
         LET value == PowerBit(BitAt(OddPart(LP), left - Bits + 1), square, product)
         IN Step("prime", IF left < Bits THEN SquareCounts(loop, square, Bits - left, LP, minus)
                          ELSE [loop EXCEPT !.value = value,
                                            !.passed = left = Bits /\ value \in {loop.one, minus}])
  \/ Finish("prime", loop.passed)

Done == done /\ UNCHANGED vars

Next == Field \/ Double \/ Divide \/ Power \/ Invert \/ GreatestDivisor \/ Round \/ Done

Spec == Init /\ [][Next]_vars

(* ------------------------------ properties ------------------------------ *)

Divides(d, v) == v % d = 0
GcdOf(u, v) == CHOOSE d \in 1..(Radix^N) : /\ Divides(d, u) /\ Divides(d, v)
                                           /\ \A e \in 1..(Radix^N) : Divides(e, u) /\ Divides(e, v) => e <= d
PowerOf(base, e, m) ==
  LET power[k \in Nat] == IF k = 0 THEN 1 % m
                          ELSE LET half == power[k \div 2]
                               IN (half * half * (IF k % 2 = 1 THEN base ELSE 1)) % m
  IN power[e]

\* tc_mp_add_mod, tc_mp_sub_mod, tc_mp_half_mod, tc_mp_montgomery: sums, differences, halves and Montgomery products of residues are residues
\* with the value they should have, with every carry out of the top limb.
FieldExact ==
  job = "field" /\ done =>
    /\ out.add = (a + b) % p /\ out.sub = (a - b + p) % p
    /\ out.half < p /\ (2 * out.half) % p = a
    /\ out.mont < p /\ (out.mont * Radix^N) % p = (a * b) % p
    /\ out.wide = a * b

\* tc_mp_divide_words and tc_mp_divide_u32 are exact for every divisor, even ones included.
DivideExact ==
  job = "divide" /\ done =>
    LET dividend == a + (b * Radix^N) IN
    out.r = dividend % p /\ out.q = dividend \div p /\ out.wr = out.r /\ out.wq = out.q

\* tc_mp_montgomery_r2: doubling gives the factor of the Montgomery form, modulo even numbers too.
R2Exact == job = "r2" /\ done => out = (Radix^N * Radix^N) % p

\* tc_mp_power and tc_mp_power_public compute the power, with a zero exponent and leading
\* zero bits.
PowerExact ==
  job = "power" /\ done => out.padded = PowerOf(a, b, p) /\ out.public = PowerOf(a, b, p)

\* In every iteration of tc_mp_inverse the coefficients represent the operands modulo p, one
\* operand stays odd, and the common divisor of the operands is that of the
\* inputs; the combined length of the operands shrinks, so the loop ends.
InverseInvariant ==
  job = "inverse" =>
    LET u == Value(loop.u)  v == Value(loop.v) IN
    /\ (Value(loop.r) * a) % p = u % p /\ (Value(loop.s) * a) % p = v % p
    /\ u % 2 = 1 \/ v % 2 = 1
    /\ GcdOf(u, v) = GcdOf(a, p)
    /\ u * v < 2^left

\* The result of tc_mp_inverse is the inverse, and absent exactly when there is none.
InverseExact ==
  job = "inverse" /\ done =>
    IF GcdOf(a, p) = 1 THEN out /= <<>> /\ Value(out) < p /\ (Value(out) * a) % p = 1 ELSE out = <<>>

\* The fixed number of passes of tc_mp_gcd is enough for every pair of operands.
GcdExact == job = "gcd" /\ done => out = GcdOf(a, b)

\* A Miller-Rabin round passes exactly for strong probable primes, so never fails a prime.
PrimeExact ==
  job = "prime" /\ done =>
    LET twos == CHOOSE k \in 1..(W * N) : Divides(2^k, p - 1) /\ ~Divides(2^(k + 1), p - 1)
        d == (p - 1) \div 2^twos
        strong == \/ PowerOf(a, d, p) = 1
                  \/ \E k \in 0..(twos - 1) : PowerOf(a, d * 2^k, p) = p - 1
    IN out = strong /\ ((\A e \in 2..(p - 1) : ~Divides(e, p)) => out)
=============================================================================
