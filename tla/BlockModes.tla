----------------------------- MODULE BlockModes -----------------------------
(***************************************************************************)
(* The confidentiality modes of SP 800-38A over one context: the shared    *)
(* cores of src/src/block_modes.c, the AES and DES entries (aes_modes.c,   *)
(* des_modes.c) and the counter space check of internal.h.  A message is   *)
(* sent in calls of any length.  A byte is a bit here, a block W of them,  *)
(* and the cipher any permutation of the blocks; size_t holds S bytes.     *)
(***************************************************************************)
EXTENDS Integers, Sequences, SequencesExt

CONSTANTS
  W,          \* bytes of a block
  S,          \* bytes of size_t, less than W
  Ciphers,    \* permutations of 0..2^W - 1
  Ivs,        \* initial counter blocks, as numbers
  MaxLength,  \* bound on the bytes of a message
  MaxCall     \* bound on the bytes of a call

Modes == {"cbc", "ctr", "ofb", "cfb64", "cfb8"}
Space == 2 ^ W
Bits == {0, 1}
Calls == UNION {[1..n -> Bits] : n \in 0..MaxCall}

Value(block) == FoldLeft(LAMBDA v, b : 2 * v + b, 0, block)
Block(v) == [i \in 1..W |-> (v \div 2 ^ (W - i)) % 2]
Xor(a, b) == [i \in 1..Len(a) |-> (a[i] + b[i]) % 2]
Least(a, b) == IF a < b THEN a ELSE b

VARIABLES
  cipher,     \* the key schedule: forward and inverse permutation
  ctx,        \* TC_AES_ctx and TC_DES_ctx
  message,    \* mode, direction and first IV of the message
  sent,       \* input of the calls that succeeded
  output,     \* what they wrote
  result      \* of the last call: status and length asked for

vars == <<cipher, ctx, message, sent, output, result>>

Cleared ==
  [active |-> FALSE, loaded |-> FALSE, iv |-> Block(0), stream |-> Block(0), ctr_pos |-> 0,
   exhausted |-> FALSE, ofb_pos |-> 0, finished |-> FALSE]

Encrypt(block) == Block(cipher.forward[Value(block)])
Decrypt(block) == Block(cipher.inverse[Value(block)])

(* ---------------------------- counter space ----------------------------- *)

BlocksNeeded(length, position) ==
  LET available == IF position < W THEN W - position ELSE 0
      uncached == IF length > available THEN length - available ELSE 0
  IN (uncached \div W) + (IF uncached % W # 0 THEN 1 ELSE 0)

\* Mutant: the zero counter a wrap leaves counts as the full space.
CounterHasBlocksWrapped(counter, needed, exhausted) ==
  LET left == (Space - Value(counter)) % Space IN left = 0 \/ left >= needed

\* tc_internal_counter_has_blocks: the two's complement of the counter, byte
\* by byte, and the part of it that fits size_t.
CounterHasBlocks(counter, needed, exhausted) ==
  LET remaining == Block((Space - Value(counter)) % Space)
      high == 1..(W - S)
  IN IF exhausted THEN needed = 0
     ELSE IF Value(counter) = 0 THEN W >= S \/ needed <= Space
     ELSE \/ \E i \in high : remaining[i] # 0
          \/ Value(remaining) >= needed

(* ------------------------------- the cores ------------------------------ *)

State(c) == [c |-> c, out |-> <<>>]

CbcEncryptStep(s, block) ==
  LET e == Encrypt(Xor(block, s.c.iv)) IN [c |-> [s.c EXCEPT !.iv = e], out |-> s.out \o e]

CbcDecryptStep(s, block) ==
  [c |-> [s.c EXCEPT !.iv = block], out |-> s.out \o Xor(Decrypt(block), s.c.iv)]

\* One byte of tc_block_ctr_crypt; the counter moves on with each block.
CtrStep(s, byte) ==
  LET c == IF s.c.ctr_pos = W
           THEN [s.c EXCEPT !.stream = Encrypt(s.c.iv), !.iv = Block((Value(@) + 1) % Space),
                            !.exhausted = @ \/ Value(s.c.iv) = Space - 1, !.ctr_pos = 0]
           ELSE s.c
  IN [c |-> [c EXCEPT !.ctr_pos = @ + 1], out |-> Append(s.out, (byte + c.stream[c.ctr_pos + 1]) % 2)]

\* Mutant: the keystream left by the previous call is thrown away.
CtrCryptFresh(c, data) == FoldLeft(CtrStep, State([c EXCEPT !.ctr_pos = W]), data)

CtrCrypt(c, data) == FoldLeft(CtrStep, State(c), data)

\* One byte of tc_block_ofb_crypt; the feedback is encrypted in place.
OfbStep(s, byte) ==
  LET c == IF s.c.ofb_pos = W THEN [s.c EXCEPT !.iv = Encrypt(@), !.ofb_pos = 0] ELSE s.c
  IN [c |-> [c EXCEPT !.ofb_pos = @ + 1], out |-> Append(s.out, (byte + c.iv[c.ofb_pos + 1]) % 2)]

\* One segment of tc_des_mode_cfb64, cfb8 or cfb1: the ciphertext of the
\* segment shifts into the feedback register.
CfbSegment(s, segment, decrypt) ==
  LET e == Xor(segment, SubSeq(Encrypt(s.c.iv), 1, Len(segment)))
      ct == IF decrypt THEN segment ELSE e
  IN [c |-> [s.c EXCEPT !.iv = SubSeq(@, Len(segment) + 1, W) \o ct], out |-> s.out \o e]

Segments(data, n) ==
  [i \in 1..((Len(data) + n - 1) \div n) |-> SubSeq(data, n * (i - 1) + 1, Least(n * i, Len(data)))]

Cfb(c, data, n, decrypt) == FoldLeft(LAMBDA s, seg : CfbSegment(s, seg, decrypt), State(c), Segments(data, n))

Cfb64(c, data, decrypt) ==
  LET s == Cfb(c, data, W, decrypt) IN [s EXCEPT !.c.finished = Len(data) % W # 0]

Core(mode, decrypt, c, data) ==
  CASE mode = "cbc" -> IF decrypt THEN FoldLeft(CbcDecryptStep, State(c), Segments(data, W))
                       ELSE FoldLeft(CbcEncryptStep, State(c), Segments(data, W))
    [] mode = "ctr" -> CtrCrypt(c, data)
    [] mode = "ofb" -> FoldLeft(OfbStep, State(c), data)
    [] mode = "cfb64" -> Cfb64(c, data, decrypt)
    [] mode = "cfb8" -> Cfb(c, data, 1, decrypt)

(* -------------------------------- entries ------------------------------- *)

Init ==
  /\ cipher \in Ciphers /\ ctx = Cleared /\ sent = <<>> /\ output = <<>>
  /\ message = [mode |-> "cbc", decrypt |-> FALSE, iv |-> Block(0)]
  /\ result = [status |-> "none", asked |-> 0]

\* TC_AES_init, TC_DES_init: a key and no IV.
KeyInit ==
  /\ ~ctx.active
  /\ ctx' = [Cleared EXCEPT !.active = TRUE]
  /\ sent' = <<>> /\ output' = <<>> /\ result' = [status |-> "OK", asked |-> 0]
  /\ UNCHANGED <<cipher, message>>

\* TC_AES_set_iv, TC_DES_set_iv: a new message resets every stream position.
SetIv ==
  /\ ctx.active
  /\ \E mode \in Modes, decrypt \in BOOLEAN, iv \in Ivs :
       /\ message' = [mode |-> mode, decrypt |-> decrypt, iv |-> Block(iv)]
       /\ ctx' = [ctx EXCEPT !.iv = Block(iv), !.loaded = TRUE, !.ctr_pos = W, !.exhausted = FALSE,
                             !.ofb_pos = W, !.finished = FALSE]
  /\ sent' = <<>> /\ output' = <<>> /\ result' = [status |-> "OK", asked |-> 0]
  /\ UNCHANGED cipher

Refuse(n) == result' = [status |-> "ERROR", asked |-> n] /\ UNCHANGED <<cipher, ctx, message, sent, output>>

\* What a mode entry checks before it touches the buffer.
Accepts(n) ==
  /\ ctx.active /\ ctx.loaded
  /\ message.mode = "cbc" => n % W = 0
  /\ message.mode = "ctr" => n = 0 \/ CounterHasBlocks(ctx.iv, BlocksNeeded(n, ctx.ctr_pos), ctx.exhausted)
  /\ message.mode = "cfb64" => ~ctx.finished

Crypt ==
  \E data \in Calls :
    /\ Len(sent) + Len(data) <= MaxLength
    /\ IF ~Accepts(Len(data)) THEN Refuse(Len(data))
       ELSE LET s == Core(message.mode, message.decrypt, ctx, data) IN
         /\ ctx' = s.c /\ sent' = sent \o data /\ output' = output \o s.out
         /\ result' = [status |-> "OK", asked |-> Len(data)]
         /\ UNCHANGED <<cipher, message>>

\* The AES cipher fails part way: the buffer is wiped and the context cleared.
CipherFails ==
  /\ message.mode \in {"cbc", "ctr", "ofb"}
  /\ \E n \in 1..MaxCall :
       /\ Len(sent) + n <= MaxLength /\ Accepts(n)
       /\ message.mode = "ctr" => BlocksNeeded(n, ctx.ctr_pos) > 0
       /\ message.mode = "ofb" => BlocksNeeded(n, ctx.ofb_pos) > 0
  /\ ctx' = Cleared /\ sent' = <<>> /\ output' = <<>>
  /\ result' = [status |-> "FAILED", asked |-> 0] /\ UNCHANGED <<cipher, message>>

Next == KeyInit \/ SetIv \/ Crypt \/ CipherFails

Spec == Init /\ [][Next]_vars

(* ------------------------------ properties ------------------------------ *)

Nth(seq, j) == SubSeq(seq, W * (j - 1) + 1, Least(W * j, Len(seq)))
Prior(ct, j) == IF j = 1 THEN message.iv ELSE Nth(ct, j - 1)
Stretch(f(_), seq) == Xor(seq, [i \in 1..Len(seq) |-> f(1 + ((i - 1) \div W))[1 + ((i - 1) % W)]])

\* The equations of SP 800-38A section 6, over the whole message: pt and ct
\* are related by the mode however the message was split into calls, and a
\* cleared or unkeyed context wrote nothing.
ModeExact ==
  LET pt == IF message.decrypt THEN output ELSE sent
      ct == IF message.decrypt THEN sent ELSE output
      blocks == (Len(ct) + W - 1) \div W
      e(v) == Block(cipher.forward[v])
      O[j \in 0..MaxLength] == IF j = 0 THEN message.iv ELSE e(Value(O[j - 1]))
      before(i) == SubSeq(message.iv \o SubSeq(ct, 1, i - 1), i, i + W - 1)
  IN /\ Len(pt) = Len(ct) /\ (~ctx.loaded => ct = <<>>)
     /\ CASE message.mode = "cbc" -> \A j \in 1..blocks : Nth(ct, j) = e(Value(Xor(Nth(pt, j), Prior(ct, j))))
          [] message.mode = "ctr" -> ct = Stretch(LAMBDA j : e((Value(message.iv) + j - 1) % Space), pt)
          [] message.mode = "ofb" -> ct = Stretch(LAMBDA j : O[j], pt)
          [] message.mode = "cfb64" -> ct = Stretch(LAMBDA j : e(Value(Prior(ct, j))), pt)
          [] message.mode = "cfb8" -> \A i \in 1..Len(ct) : ct[i] = (pt[i] + e(Value(before(i)))[1]) % 2

\* A CTR call is refused exactly when its message would need a counter block
\* beyond the last, so that no counter block encrypts twice under one IV.
CounterExact ==
  message.mode = "ctr" /\ ctx.loaded /\ result.status # "none" =>
    LET needed(n) == Value(message.iv) + ((n + W - 1) \div W) IN
    /\ needed(Len(sent)) <= Space
    /\ result.status = "ERROR" => needed(Len(sent) + result.asked) > Space

=============================================================================
