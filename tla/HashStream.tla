----------------------------- MODULE HashStream -----------------------------
(***************************************************************************)
(* The shared hash and HMAC core of src/src/hash_core.c over the block     *)
(* buffering and padding of hash_stream_internal.h.  A chaining value is   *)
(* the sequence of blocks compressed into it, and byte i of the digest of  *)
(* a chain is that chain and i, so two digests are equal exactly when the  *)
(* blocks compressed are.  Integers are scaled: a byte holds Bits bits and *)
(* the 64-bit count of the code holds Half bytes.                          *)
(***************************************************************************)
EXTENDS Integers, Sequences, FiniteSets

CONSTANTS
  Bits,     \* bits of a byte
  Half,     \* bytes of the 64-bit count
  Infos,    \* the algorithm descriptors
  MinTag,   \* TC_HASH_MAC_MIN_TAG_LEN
  TagFloor  \* TC_HMAC_MIN_TAG_LEN_FLOOR_

Byte == 2 ^ Bits
Word == Byte ^ Half

VARIABLES info, kind, ctx, given, out, status

vars == <<info, kind, ctx, given, out, status>>

\* A literal byte, the padding marker, and byte i of a digest.
Lit(n) == [of |-> <<>>, at |-> n, xor |-> {}]
Marker == [of |-> <<>>, at |-> -1, xor |-> {}]
DigestOut(chain) == [i \in 1..info.digest |-> [of |-> chain, at |-> i, xor |-> {}]]

Zeros(n) == [i \in 1..n |-> Lit(0)]
\* Message and key bytes are numbered apart from the lengths and zeros.
Message(from, n) == [i \in 1..n |-> Lit(100 + from + i)]
Key(n) == [i \in 1..n |-> Lit(200 + i)]

XorPad(block, pads) == [i \in DOMAIN block |-> [block[i] EXCEPT !.xor = (@ \ pads) \cup (pads \ @)]]

\* buffer with data written from offset used on.
Copy(buffer, used, data) ==
  [i \in DOMAIN buffer |-> IF i > used /\ i <= used + Len(data) THEN data[i - used] ELSE buffer[i]]

\* compress of the algorithm: the block joins the chain.
Compress(view, block) == [view EXCEPT !.state = Append(@, block)]

Wiped == [active |-> FALSE, count |-> 0, used |-> 0, state |-> <<>>, buffer |-> Zeros(info.block), outer |-> <<>>]

\* view_start wipes the hash context and makes it live; the outer state of an
\* HMAC context lies outside it.
Start(view) == [Wiped EXCEPT !.active = TRUE, !.outer = view.outer]

Live(view) == view.active /\ view.used < info.block

\* A partial block takes what it lacks first.
TopUp(view, data) ==
  LET n == IF Len(data) < info.block - view.used THEN Len(data) ELSE info.block - view.used
      v == [view EXCEPT !.buffer = Copy(@, view.used, SubSeq(data, 1, n)), !.used = @ + n]
  IN IF view.used = 0 \/ data = <<>> THEN [view |-> view, rest |-> data]
     ELSE [view |-> IF v.used = info.block THEN [Compress(v, v.buffer) EXCEPT !.used = 0] ELSE v,
           rest |-> SubSeq(data, n + 1, Len(data))]

\* tc_hash_stream_absorb: then whole blocks straight from the data, and the
\* tail into the buffer, over what is left there of an earlier block.
StreamAbsorb(view, data) ==
  LET top == TopUp(view, data)
      whole == Len(top.rest) \div info.block
      tail == SubSeq(top.rest, whole * info.block + 1, Len(top.rest))
      v == [top.view EXCEPT !.state = @ \o [b \in 1..whole |-> SubSeq(top.rest, (b - 1) * info.block + 1, b * info.block)]]
  IN IF tail = <<>> THEN v ELSE [v EXCEPT !.buffer = Copy(@, 0, tail), !.used = Len(tail)]

\* count * 8 in the padded length field, of one word or two.
LengthField(count) ==
  LET low == (count * Bits) % Word
      high == (count * Bits) \div Word
      octet(i) == Lit(IF i < Half THEN (low \div Byte ^ i) % Byte ELSE (high \div Byte ^ (i - Half)) % Byte)
  IN [p \in 1..info.length |-> octet(IF info.little THEN p - 1 ELSE info.length - p)]

\* Mutant: a marker that ends where the length field starts opens a block.
StreamFinishEarly(view, count) ==
  LET offset == info.block - info.length
      marked == [view EXCEPT !.buffer = Copy(@, view.used, <<Marker>>), !.used = @ + 1]
      spill == IF marked.used >= offset
               THEN [Compress(marked, Copy(marked.buffer, marked.used, Zeros(info.block - marked.used))) EXCEPT !.used = 0]
               ELSE marked
  IN Compress(spill, Copy(Copy(spill.buffer, spill.used, Zeros(offset - spill.used)), offset, LengthField(count)))

\* tc_hash_stream_finish: the marker, zeros to the length field of this block
\* or of one more, the length, the last compression.
StreamFinish(view, count) ==
  LET offset == info.block - info.length
      marked == [view EXCEPT !.buffer = Copy(@, view.used, <<Marker>>), !.used = @ + 1]
      spill == IF marked.used > offset
               THEN [Compress(marked, Copy(marked.buffer, marked.used, Zeros(info.block - marked.used))) EXCEPT !.used = 0]
               ELSE marked
  IN Compress(spill, Copy(Copy(spill.buffer, spill.used, Zeros(offset - spill.used)), offset, LengthField(count)))

\* view_absorb counts a message only up to the limit of the algorithm.
TooLong(view, n) == n > 0 /\ (view.count > info.max \/ n > info.max - view.count)

Absorb(view, data) ==
  IF data = <<>> THEN view ELSE StreamAbsorb([view EXCEPT !.count = (@ + Len(data)) % Word], data)

\* view_finish
Finish(view) == DigestOut(StreamFinish(view, view.count).state)

(* ------------------------------- actions -------------------------------- *)

NoOut == [kind |-> "none", key |-> 0, of |-> 0, value |-> <<>>, verdict |-> "none"]
\* given is what a context was given: its key, the bytes it has absorbed, and
\* how many of those belong to calls that were refused.
Nothing == [key |-> 0, fed |-> 0, refused |-> 0]
Result(what, key, of, value) == [kind |-> what, key |-> key, of |-> of, value |-> value, verdict |-> "none"]

\* The lengths tried reach one past the limit of the algorithm.
Chunks(view) == 0..info.max - view.count + 1
KeyLengths == 0..info.max + 1

Init ==
  /\ info \in Infos /\ kind \in {"hash", "hmac"}
  /\ ctx = Wiped /\ given = Nothing /\ out = NoOut /\ status = "OK"

\* The one-shot calls use contexts of their own, so trying them once is enough.
Idle == ctx = Wiped /\ out = NoOut /\ status = "OK"

Fails == out' = NoOut /\ status' = "ERROR" /\ UNCHANGED <<info, kind, ctx, given>>

\* tc_hash_core_init restarts a live context too.
HashInit ==
  /\ kind = "hash"
  /\ ctx' = Start(ctx) /\ given' = Nothing /\ out' = NoOut /\ status' = "OK" /\ UNCHANGED <<info, kind>>

\* tc_hash_core_update, tc_hmac_core_update.  args says whether the pointers
\* pass their checks.
Update ==
  \E n \in Chunks(ctx), args \in BOOLEAN :
    IF ~args \/ ~Live(ctx) \/ TooLong(ctx, n) THEN Fails
    ELSE /\ ctx' = Absorb(ctx, Message(given.fed, n)) /\ given' = [given EXCEPT !.fed = @ + n]
         /\ out' = NoOut /\ status' = "OK" /\ UNCHANGED <<info, kind>>

\* tc_hash_core_update_parts: the spans of all parts are checked first, their
\* overlap with the context and the limit only when each part is absorbed.  A
\* refused part leaves those before it in the context, which stays live.
UpdateParts ==
  /\ kind = "hash"
  /\ \E m, n \in Chunks(ctx), spans, over \in BOOLEAN :
       IF ~spans \/ ~Live(ctx) \/ TooLong(ctx, m) THEN Fails
       ELSE \E one \in {Absorb(ctx, Message(given.fed, m))} :
         /\ out' = NoOut /\ UNCHANGED <<info, kind>>
         /\ IF over \/ TooLong(one, n)
            THEN /\ ctx' = one /\ given' = [given EXCEPT !.fed = @ + m, !.refused = @ + m] /\ status' = "ERROR"
            ELSE /\ ctx' = Absorb(one, Message(given.fed + m, n)) /\ given' = [given EXCEPT !.fed = @ + m + n]
                 /\ status' = "OK"

\* tc_hash_core_final consumes the context.
HashFinal ==
  /\ kind = "hash"
  /\ \E args \in BOOLEAN :
       IF ~args \/ ~Live(ctx) THEN Fails
       ELSE /\ out' = Result("hash", 0, given.fed, Finish(ctx))
            /\ ctx' = Wiped /\ given' = Nothing /\ status' = "OK" /\ UNCHANGED <<info, kind>>

\* tc_hash_core_clear, tc_hmac_core_clear
Clear == ctx' = Wiped /\ given' = Nothing /\ out' = NoOut /\ status' = "OK" /\ UNCHANGED <<info, kind>>

\* tc_hash_core_digest, over a workspace of its own.
HashDigest ==
  /\ kind = "hash" /\ Idle
  /\ \E n \in 0..info.max + 1 :
       IF TooLong(Start(Wiped), n) THEN Fails
       ELSE /\ out' = Result("hash", 0, n, Finish(Absorb(Start(Wiped), Message(0, n))))
            /\ status' = "OK" /\ UNCHANGED <<info, kind, ctx, given>>

\* hmac_key_block: a key longer than a block is hashed in the inner context.
KeyBlock(n) ==
  IF n > info.block THEN Copy(Zeros(info.block), 0, Finish(Absorb(Start(Wiped), Key(n))))
  ELSE Copy(Zeros(info.block), 0, Key(n))

KeyTooLong(n) == n > info.block /\ TooLong(Start(Wiped), n)

\* tc_hmac_core_init: the inner state after K0 ^ ipad, the outer after
\* K0 ^ opad, from the one block.
Keyed(n) ==
  LET pad == XorPad(KeyBlock(n), {"ipad"})
  IN [Compress(Start(Wiped), pad) EXCEPT !.count = info.block, !.outer = <<XorPad(pad, {"ipad", "opad"})>>]

\* Every failure of tc_hmac_core_init leaves the context wiped.
RefusedKey == Wiped

HmacInit ==
  /\ kind = "hmac"
  /\ \E n \in KeyLengths, args \in BOOLEAN :
       /\ out' = NoOut /\ UNCHANGED <<info, kind>>
       /\ IF (~args /\ n > 0) \/ KeyTooLong(n)
          THEN ctx' = RefusedKey /\ given' = Nothing /\ status' = "ERROR"
          ELSE ctx' = Keyed(n) /\ given' = [Nothing EXCEPT !.key = n] /\ status' = "OK"

\* tc_hmac_core_final: the inner digest is the rest of the outer message.
HmacTag(view) ==
  DigestOut(StreamFinish([Wiped EXCEPT !.state = view.outer, !.used = info.digest,
                                       !.buffer = Copy(@, 0, Finish(view))], info.block + info.digest).state)

HmacFinal ==
  /\ kind = "hmac"
  /\ \E args \in BOOLEAN :
       IF ~args \/ ~Live(ctx) THEN Fails
       ELSE /\ out' = Result("hmac", given.key, given.fed, HmacTag(ctx))
            /\ ctx' = Wiped /\ given' = Nothing /\ status' = "OK" /\ UNCHANGED <<info, kind>>

\* The keyed context after a message in two parts, if the limit allows both.
PartsFit(view, m, n) == ~TooLong(view, m) /\ ~TooLong([view EXCEPT !.count = @ + m], n)
TwoParts(view, from, m, n) == Absorb(Absorb(view, Message(from, m)), Message(from + m, n))

\* tc_hmac_core_resume_parts works on a copy: the keyed context stays.
HmacResume ==
  /\ kind = "hmac"
  /\ \E m, n \in Chunks(ctx) :
       IF ~Live(ctx) \/ ~PartsFit(ctx, m, n) THEN Fails
       ELSE /\ out' = Result("hmac", given.key, given.fed + m + n, HmacTag(TwoParts(ctx, given.fed, m, n)))
            /\ status' = "OK" /\ UNCHANGED <<info, kind, ctx, given>>

\* tc_hmac_core_parts, over a scratch context.
HmacParts ==
  /\ kind = "hmac" /\ Idle
  /\ \E key \in KeyLengths, m, n \in Chunks(Keyed(0)) :
       IF KeyTooLong(key) \/ ~PartsFit(Keyed(key), m, n) THEN Fails
       ELSE /\ out' = Result("hmac", key, m + n, HmacTag(TwoParts(Keyed(key), 0, m, n)))
            /\ status' = "OK" /\ UNCHANGED <<info, kind, ctx, given>>

\* TC_HMAC_MIN_TAG_LEN_FOR: half the digest, or a floor above it.
MinTagFor == IF TagFloor > info.digest \div 2 THEN TagFloor ELSE info.digest \div 2

TagLengthOk(n, short) ==
  n <= info.digest /\ (IF short THEN n >= MinTag /\ n < MinTagFor ELSE n >= MinTagFor)

\* tc_hmac_core_digest, and tc_hmac_core_verify of a right or a wrong tag.
HmacDigest ==
  /\ kind = "hmac" /\ Idle
  /\ \E key \in KeyLengths, n \in Chunks(Keyed(0)), length \in 0..info.digest + 1, short \in BOOLEAN,
       verdict \in {"none", "right", "wrong"} :
       IF ~TagLengthOk(length, short) \/ KeyTooLong(key) \/ TooLong(Keyed(key), n) THEN Fails
       ELSE /\ out' = [Result("hmac", key, n, SubSeq(HmacTag(Absorb(Keyed(key), Message(0, n))), 1, length))
                         EXCEPT !.verdict = verdict]
            /\ status' = IF verdict = "wrong" THEN "MISMATCH" ELSE "OK"
            /\ UNCHANGED <<info, kind, ctx, given>>

Next ==
  \/ HashInit \/ Update \/ UpdateParts \/ HashFinal \/ Clear \/ HashDigest
  \/ HmacInit \/ HmacFinal \/ HmacResume \/ HmacParts \/ HmacDigest

Spec == Init /\ [][Next]_vars

(* ------------------------------ properties ------------------------------ *)

\* The blocks FIPS 180-4 and RFC 1321 compress for a message: the message,
\* the marker, the fewest zeros, and the bit length in the last bytes.
PaddedBlocks(message) ==
  LET n == Len(message)
      total == (n + 1 + info.length + info.block - 1) \div info.block
      field(j) == Lit(((n * Bits) \div Byte ^ (IF info.little THEN j - 1 ELSE info.length - j)) % Byte)
      at(k) == IF k <= n THEN message[k]
               ELSE IF k = n + 1 THEN Marker
               ELSE IF k <= total * info.block - info.length THEN Lit(0)
               ELSE field(k - (total * info.block - info.length))
  IN [b \in 1..total |-> [i \in 1..info.block |-> at((b - 1) * info.block + i)]]

HashOf(message) == DigestOut(PaddedBlocks(message))

\* K0 of FIPS 198-1.
KeyOf(n) ==
  LET key == IF n > info.block THEN HashOf(Key(n)) ELSE Key(n)
  IN key \o Zeros(info.block - Len(key))

HmacOf(n, message) ==
  HashOf(XorPad(KeyOf(n), {"opad"}) \o HashOf(XorPad(KeyOf(n), {"ipad"}) \o message))

\* A digest is the standard's hash of the whole message, however the message
\* was split into updates and parts, whatever calls failed in between, and
\* whichever entry computed it.
DigestExact == out.kind = "hash" => out.value = HashOf(Message(0, out.of))

\* An HMAC tag is a nonempty prefix of HMAC(key, message) of FIPS 198-1,
\* whether computed in one call, streamed, in parts, or from a copy of a
\* keyed context, and whether the key was used as it is or hashed first.
TagExact ==
  out.kind = "hmac" =>
    /\ Len(out.value) >= MinTag
    /\ out.value = SubSeq(HmacOf(out.key, Message(0, out.of)), 1, Len(out.value))

\* A context that is not live is all zero, and a live one stands for exactly
\* the bytes absorbed so far, in order: those of the calls that succeeded and
\* the leading parts of an update_parts that a later part made fail.  A refused
\* update or key leaves no trace, and the count never wraps.
StandsForAbsorbed ==
  IF ~ctx.active THEN ctx = Wiped
  ELSE LET prefix == IF kind = "hmac" THEN XorPad(KeyOf(given.key), {"ipad"}) ELSE <<>>
           bytes == prefix \o Message(0, given.fed)
           whole == Len(bytes) \div info.block
       IN /\ ctx.count = Len(bytes) /\ ctx.count <= info.max
          /\ ctx.used = Len(bytes) % info.block
          /\ \A b \in 1..whole : ctx.state[b] = SubSeq(bytes, (b - 1) * info.block + 1, b * info.block)
          /\ Len(ctx.state) = whole
          /\ SubSeq(ctx.buffer, 1, ctx.used) = SubSeq(bytes, whole * info.block + 1, Len(bytes))
          /\ kind = "hmac" => ctx.outer = <<XorPad(KeyOf(given.key), {"opad"})>> /\ given.refused = 0

\* A call that fails never leaves part of its message in a live context:
\* hash_core_internal.h:133-134 says so of tc_hash_core_update_parts, and the
\* code does not do it (hash_core.c:186-187).
NothingPartial == given.refused = 0

=============================================================================
