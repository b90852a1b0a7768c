----------------------------- MODULE GcmStream ------------------------------
(***************************************************************************)
(* AES-GCM over one context, streamed and one-shot (src/src/aes_gcm.c).    *)
(* A byte is a record of where it comes from; the hash is the sequence of  *)
(* blocks absorbed into it; only the low part of the counter block, of Q   *)
(* values, is kept.                                                        *)
(***************************************************************************)
EXTENDS Integers, Sequences

CONSTANTS
  W,            \* bytes of a block
  Q,            \* values of the wrapping part of the counter, 2^32
  FastIv,       \* the IV length used as it is, 12
  MaxIv, MaxAad,
  ShortLimit    \* packet limit of the short tags: function of the tag length

MaxText == (Q - 2) * W           \* TC_AES_GCM_MAX_PLAINTEXT_BYTES
FullTag == W
ShortTags == DOMAIN ShortLimit

VARIABLES ctx, aad, text, tag, result

vars == <<ctx, aad, text, tag, result>>

Byte(kind, i, counter, at) == [kind |-> kind, i |-> i, counter |-> counter, at |-> at]
ZeroByte == Byte("zero", 0, 0, 0)
Plain(kind, from, n) == [i \in 1..n |-> Byte(kind, from + i, 0, 0)]
Lengths(a, t) == [i \in 1..W |-> Byte("lengths", a, t, 0)]

NoHash == [s |-> <<>>, block |-> <<>>]
Cleared ==
  [phase |-> "uninit", hash |-> NoHash, j0 |-> [s |-> <<>>, low |-> 0], counter |-> 0, stream_pos |-> 0,
   aad_len |-> 0, text_len |-> 0, tag_len |-> 0]
Invalid == [Cleared EXCEPT !.phase = "final"]

(* ------------------------------ GHASH input ----------------------------- *)

\* tc_aes_gcm_pad_ghash
PadHash(h) ==
  IF h.block = <<>> THEN h ELSE [s |-> Append(h.s, h.block \o [i \in 1..(W - Len(h.block)) |-> ZeroByte]), block |-> <<>>]

RECURSIVE Absorb(_, _)

\* tc_aes_gcm_absorb
Absorb(h, data) ==
  IF data = <<>> THEN h
  ELSE LET room == W - Len(h.block)
           n == IF Len(data) < room THEN Len(data) ELSE room
           block == h.block \o SubSeq(data, 1, n)
       IN Absorb(IF Len(block) = W THEN [s |-> Append(h.s, block), block |-> <<>>] ELSE [h EXCEPT !.block = block],
                 SubSeq(data, n + 1, Len(data)))

\* tc_aes_gcm_make_j0: low is the last counter byte of a 96-bit IV, or what
\* the hash happens to give.
MakeJ0(iv_len, low) ==
  IF iv_len = FastIv THEN [s |-> <<Plain("iv", 0, iv_len)>>, low |-> 1]
  ELSE [s |-> Append(PadHash(Absorb(NoHash, Plain("iv", 0, iv_len))).s, Lengths(0, iv_len)), low |-> low]

(* -------------------------------- limits -------------------------------- *)

LengthIsValid(current, additional, limit) == additional <= limit - current

\* tc_aes_gcm_packet_lengths_ok
PacketLengthsOk(tag_len, aad_len, text_len, extra) ==
  tag_len \in ShortTags =>
    /\ aad_len <= ShortLimit[tag_len] /\ text_len <= ShortLimit[tag_len] - aad_len
    /\ extra <= ShortLimit[tag_len] - aad_len - text_len

TagLengthAllowed(tag_len, short) == IF short THEN tag_len \in ShortTags ELSE tag_len = FullTag

(* -------------------------------- GCTR ---------------------------------- *)

\* XOR with a keystream byte undoes itself.
XorStream(b, counter, at) ==
  IF b = Byte("cipher", b.i, counter, at) THEN Byte("text", b.i, 0, 0) ELSE Byte("cipher", b.i, counter, at)

RECURSIVE Gctr(_, _, _)

\* tc_aes_gcm_gctr over the bytes data; a partial keystream block is used up
\* first, and inc32 wraps.
Gctr(c, data, out) ==
  IF data = <<>> THEN [c |-> c, out |-> out]
  ELSE LET d == IF c.stream_pos = W THEN [c EXCEPT !.counter = (@ + 1) % Q, !.stream_pos = 0] ELSE c
           room == W - d.stream_pos
           n == IF Len(data) < room THEN Len(data) ELSE room
       IN Gctr([d EXCEPT !.stream_pos = @ + n], SubSeq(data, n + 1, Len(data)),
               out \o [i \in 1..n |-> XorStream(data[i], d.counter, d.stream_pos + i)])

StartText(c) == IF c.phase = "aad" THEN [c EXCEPT !.hash = PadHash(@), !.phase = "text"] ELSE c

\* tc_aes_gcm_finish_ghash and tc_aes_gcm_make_tag
MakeTag(c) == [s |-> Append(PadHash(c.hash).s, Lengths(c.aad_len, c.text_len)), mask |-> c.j0, length |-> c.tag_len]

(* ------------------------------- streaming ------------------------------ *)

NoTag == [s |-> <<>>, mask |-> [s |-> <<>>, low |-> 0], length |-> 0]
Called(op, n, s) == [op |-> op, asked |-> n, status |-> s]

Init == ctx = Cleared /\ aad = 0 /\ text = <<>> /\ tag = NoTag /\ result = Called("none", 0, "OK")

InitOf(iv_len, low, tag_len) ==
  LET j0 == MakeJ0(iv_len, low) IN
  [Cleared EXCEPT !.phase = "aad", !.j0 = j0, !.counter = j0.low, !.stream_pos = W, !.tag_len = tag_len]

\* TC_AES_GCM_init and TC_AES_GCM_init_short_tag
InitGcm ==
  \E iv_len \in 1..MaxIv, low \in 0..(Q - 1), tag_len \in 0..(W + 1), short \in BOOLEAN :
    /\ (iv_len = FastIv => low = 0)
    /\ aad' = 0 /\ text' = <<>> /\ tag' = NoTag
    /\ IF TagLengthAllowed(tag_len, short)
       THEN ctx' = InitOf(iv_len, low, tag_len) /\ result' = Called("init", 0, "OK")
       ELSE ctx' = Cleared /\ result' = Called("init", 0, "ERROR")

Refuse(op, n) == result' = Called(op, n, "ERROR") /\ UNCHANGED <<ctx, aad, text, tag>>

AadAccepts(c, n) ==
  c.phase = "aad" /\ LengthIsValid(c.aad_len, n, MaxAad) /\ PacketLengthsOk(c.tag_len, c.aad_len, c.text_len, n)

AadOf(c, n) == [c EXCEPT !.hash = Absorb(@, Plain("aad", c.aad_len, n)), !.aad_len = @ + n]

AadUpdate ==
  \E n \in 0..(MaxAad + 1) :
    IF ~AadAccepts(ctx, n) THEN Refuse("aad", n)
    ELSE ctx' = AadOf(ctx, n) /\ aad' = aad + n /\ result' = Called("aad", n, "OK") /\ UNCHANGED <<text, tag>>

\* Mutant: the plaintext limit is the range of the counter.
TextAcceptsWide(c, n) ==
  /\ c.phase \in {"aad", "text"} /\ LengthIsValid(c.text_len, n, Q * W)
  /\ PacketLengthsOk(c.tag_len, c.aad_len, c.text_len, n)

TextAccepts(c, n) ==
  /\ c.phase \in {"aad", "text"} /\ LengthIsValid(c.text_len, n, MaxText)
  /\ PacketLengthsOk(c.tag_len, c.aad_len, c.text_len, n)

\* Mutant: text is hashed onto the partial block of the additional data.
TextOfJoined(c, n) ==
  LET g == Gctr([c EXCEPT !.phase = "text"], Plain("text", c.text_len, n), <<>>)
  IN [c |-> [g.c EXCEPT !.hash = Absorb(@, g.out), !.text_len = @ + n], out |-> g.out]

TextOf(c, n) ==
  LET g == Gctr(StartText(c), Plain("text", c.text_len, n), <<>>)
  IN [c |-> [g.c EXCEPT !.hash = Absorb(@, g.out), !.text_len = @ + n], out |-> g.out]

EncryptUpdate ==
  \E n \in 0..(MaxText + 1) :
    IF ~TextAccepts(ctx, n) THEN Refuse("text", n)
    ELSE \E s \in {TextOf(ctx, n)} :
           ctx' = s.c /\ text' = text \o s.out /\ result' = Called("text", n, "OK") /\ UNCHANGED <<aad, tag>>

\* Finish consumes the context on success and on failure.
EncryptFinish ==
  IF ctx.phase \notin {"aad", "text"} \/ ~PacketLengthsOk(ctx.tag_len, ctx.aad_len, ctx.text_len, 0) THEN Refuse("finish", 0)
  ELSE tag' = MakeTag(StartText(ctx)) /\ ctx' = Invalid /\ result' = Called("finish", 0, "OK") /\ UNCHANGED <<aad, text>>

\* The cipher fails in init, in an update (the buffer is wiped) or in a finish.
CipherFails ==
  /\ ctx' = Invalid /\ result' = Called("failed", 0, "ERROR") /\ UNCHANGED <<aad, text, tag>>

(* ------------------------------- one shot ------------------------------- *)

OneShotArgsOk(aad_len, length, tag_len, short) ==
  /\ TagLengthAllowed(tag_len, short) /\ aad_len <= MaxAad /\ length <= MaxText
  /\ PacketLengthsOk(tag_len, aad_len, length, 0)

\* Mutant: a wrong tag is noticed after the text was written.
DecryptOfEager(iv_len, low, aad_len, input, tag_len, given) ==
  LET a == StartText(AadOf(InitOf(iv_len, low, tag_len), aad_len))
      h == [a EXCEPT !.hash = Absorb(@, input), !.text_len = Len(input)]
  IN [status |-> IF MakeTag(h) = given THEN "OK" ELSE "MISMATCH", out |-> Gctr(h, input, <<>>).out]

\* tc_aes_gcm_decrypt_impl: the tag is compared before GCTR writes plaintext.
DecryptOf(iv_len, low, aad_len, input, tag_len, given) ==
  LET a == StartText(AadOf(InitOf(iv_len, low, tag_len), aad_len))
      h == [a EXCEPT !.hash = Absorb(@, input), !.text_len = Len(input)]
  IN IF MakeTag(h) # given THEN [status |-> "MISMATCH", out |-> <<>>]
     ELSE [status |-> "OK", out |-> Gctr(h, input, <<>>).out]

\* tc_aes_gcm_encrypt_impl, then decryption of the result, possibly altered,
\* possibly with the cipher failing; the text output of a failure is wiped.
OneShot ==
  \E iv_len \in {1, FastIv}, low \in {0, Q - 1}, aad_len \in 0..(MaxAad + 1), n \in 0..(MaxText + 1),
     tag_len \in 0..(W + 1), short \in BOOLEAN :
    /\ ctx = Cleared /\ result.op = "none" /\ (iv_len = FastIv => low = 0) /\ UNCHANGED <<ctx, aad>>
    /\ IF ~OneShotArgsOk(aad_len, n, tag_len, short)
       THEN result' = Called("decrypt", n, "ERROR") /\ UNCHANGED <<text, tag>>
       ELSE \E change \in {"none", "cipher"} \cup (IF aad_len > 0 THEN {"aad"} ELSE {}) \cup (IF n > 0 THEN {"text"} ELSE {}) \cup {"tag"} :
         LET sealed == TextOf(AadOf(InitOf(iv_len, low, tag_len), aad_len), n)
             good == MakeTag(sealed.c)
             input == IF change = "text" THEN [sealed.out EXCEPT ![n].kind = "altered"] ELSE sealed.out
             given == IF change = "tag" THEN [good EXCEPT !.s = Tail(@)] ELSE good
             opened == DecryptOf(iv_len, low, IF change = "aad" THEN aad_len - 1 ELSE aad_len, input, tag_len, given)
         IN /\ tag' = good
            /\ IF change = "cipher" THEN text' = <<>> /\ result' = Called("failed", n, "ERROR")
               ELSE text' = opened.out /\ result' = Called(IF change = "none" THEN "decrypt" ELSE "altered", n, opened.status)

Next == InitGcm \/ AadUpdate \/ EncryptUpdate \/ EncryptFinish \/ CipherFails \/ OneShot

Spec == Init /\ [][Next]_vars

(* ------------------------------ properties ------------------------------ *)

TypeOK ==
  /\ ctx.phase \in {"uninit", "aad", "text", "final"} /\ ctx.counter \in 0..(Q - 1) /\ ctx.stream_pos \in 0..W
  /\ Len(ctx.hash.block) < W /\ aad \in 0..MaxAad /\ Len(text) <= MaxText

Blocks(s) ==
  [b \in 1..((Len(s) + W - 1) \div W) |->
    [i \in 1..W |-> IF (b - 1) * W + i <= Len(s) THEN s[(b - 1) * W + i] ELSE ZeroByte]]

\* However the additional data and the plaintext are cut into calls, the text
\* is XORed with the keystream of consecutive counters after J0, one byte of it
\* each, and the tag covers the padded additional data, the padded ciphertext
\* and both lengths.
StreamExact ==
  /\ result.op = "text" /\ result.status = "OK" =>
       text = [i \in 1..Len(text) |-> Byte("cipher", i, (ctx.j0.low + 1 + ((i - 1) \div W)) % Q, ((i - 1) % W) + 1)]
  /\ result.op = "finish" /\ result.status = "OK" =>
       tag.s = Blocks(Plain("aad", 0, aad)) \o Blocks(text) \o <<Lengths(aad, Len(text))>>

\* No two blocks of a message meet the same keystream block, and none meets
\* the one that masks the tag, although the 32-bit counter starts anywhere and
\* wraps: the plaintext limit is two blocks short of the counter's range.
KeystreamDistinct ==
  ctx.phase = "text" =>
    \A i, j \in 1..Len(text) :
      /\ text[i].counter # ctx.j0.low
      /\ text[i].counter = text[j].counter => (i - 1) \div W = (j - 1) \div W

\* The limits hold of the accumulated lengths, for the additional data, the
\* text and the whole packet of a short tag, and a call is refused in its phase
\* only when it would cross one of them, leaving the context as it was.
LimitsExact ==
  /\ ctx.phase \in {"aad", "text"} =>
       /\ ctx.aad_len = aad /\ ctx.text_len = Len(text) /\ aad <= MaxAad /\ Len(text) <= MaxText
       /\ ctx.tag_len \in ShortTags => aad + Len(text) <= ShortLimit[ctx.tag_len]
  /\ result.status = "ERROR" /\ ((result.op = "aad" /\ ctx.phase = "aad") \/ (result.op = "text" /\ ctx.phase \in {"aad", "text"})) =>
       \/ result.op = "aad" /\ aad + result.asked > MaxAad
       \/ result.op = "text" /\ Len(text) + result.asked > MaxText
       \/ ctx.tag_len \in ShortTags /\ aad + Len(text) + result.asked > ShortLimit[ctx.tag_len]

\* One-shot decryption writes plaintext only for the packet that was sealed: an
\* altered packet or a wrong tag leaves the text output wiped.
ReleasedOnlyVerified ==
  /\ result.op = "decrypt" /\ result.status # "ERROR" => result.status = "OK" /\ text = Plain("text", 0, result.asked)
  /\ result.op = "altered" => result.status = "MISMATCH" /\ text = <<>>
=============================================================================
