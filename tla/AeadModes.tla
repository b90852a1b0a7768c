----------------------------- MODULE AeadModes ------------------------------
(***************************************************************************)
(* One-shot CCM, EAX, EAX' and SIV (src/src/aes_ccm.c, aes_eax.c,          *)
(* aes_siv.c).  A byte is its value and the keystream bytes XORed into it; *)
(* a MAC (src/src/mac_core.c) is the chain of the blocks encrypted into    *)
(* it, each with the key's constants XORed into it: two are equal when     *)
(* their chains are, and equal terms of a sum cancel.  A call runs the     *)
(* steps of its mode, in the mode's order, over one text buffer.           *)
(***************************************************************************)
EXTENDS Integers, Sequences, FiniteSets

CONSTANTS
  W,            \* bytes of a block
  Base,         \* values of a byte in a length field
  PadValue,     \* the byte value 0x80
  MinTag,       \* TC_MIN_TAG_LEN
  CcmFloor,     \* the shortest CCM tag of SP 800-38C
  ShortAad, MidAad,   \* 0xff00 and 2^32 - 1: bounds of the AAD length encodings
  Requests,     \* requests to seal, to open altered, and to tell apart
  Malformed     \* further requests, with lengths the argument checks refuse

Byte(v) == [v |-> v, ks |-> {}, d |-> <<>>]
Bytes(s) == [i \in DOMAIN s |-> Byte(s[i])]

VARIABLES call, todo, buf, tag, status

vars == <<call, todo, buf, tag, status>>

(* ------------------------- CBC-MAC and CMAC ---------------------------- *)

\* XOR of two sets of terms: a term of both cancels.
Xor(a, b) == (a \ b) \cup (b \ a)

\* mac, block and used of the callers; add is what the next block is XORed
\* with beside the chain, the constants that mac starts from.
FreshChain(initial) == [chain |-> <<>>, add |-> initial, block |-> [i \in 1..W |-> Byte(0)], used |-> 0]

CbcBlock(c, block) == [c EXCEPT !.chain = Append(@, [block |-> block, add |-> c.add]), !.add = {}]

RECURSIVE CbcUpdate(_, _, _)

\* tc_mac_cbc_update: whole blocks are taken from the data, except the last
\* one when it must be kept; the rest goes through the partial block.
CbcUpdate(c, data, retain) ==
  LET d == IF c.used = W /\ (data # <<>> \/ ~retain) THEN [CbcBlock(c, c.block) EXCEPT !.used = 0] ELSE c
      n == IF W - d.used < Len(data) THEN W - d.used ELSE Len(data)
      fill == [i \in 1..W |-> IF i > d.used /\ i <= d.used + n THEN data[i - d.used] ELSE d.block[i]]
  IN IF data = <<>> THEN d
     ELSE IF d.used = 0 /\ (Len(data) > W \/ (Len(data) = W /\ ~retain))
       THEN CbcUpdate(CbcBlock(d, SubSeq(data, 1, W)), SubSeq(data, W + 1, Len(data)), retain)
     ELSE CbcUpdate([d EXCEPT !.block = fill, !.used = @ + n], SubSeq(data, n + 1, Len(data)), retain)

ZeroFrom(block, used) == [i \in 1..W |-> IF i > used THEN Byte(0) ELSE block[i]]

CbcPad(c) ==
  IF c.used = 0 THEN c ELSE [CbcBlock(c, ZeroFrom(c.block, c.used)) EXCEPT !.used = 0, !.block = [i \in 1..W |-> Byte(0)]]

\* tc_mac_cmac_final: the subkey of a complete (d) or a padded (q) message is
\* XORed into its last block, and cancels there against an equal constant.
CmacFinal(c) ==
  CbcBlock([c EXCEPT !.add = Xor(@, {IF c.used = W THEN "d" ELSE "q"})],
           IF c.used = W THEN c.block ELSE [ZeroFrom(c.block, c.used) EXCEPT ![c.used + 1] = Byte(PadValue)]).chain

RECURSIVE CbcParts(_, _)
CbcParts(c, parts) == IF parts = <<>> THEN c ELSE CbcParts(CbcUpdate(c, Head(parts), TRUE), Tail(parts))

\* tc_mac_cmac_parts
CmacParts(initial, parts) == CmacFinal(CbcParts(FreshChain(initial), parts))

(* ------------------------------ keystream ------------------------------- *)

\* tc_aes_mac_ctr_xor: XOR is its own inverse.
CtrXor(s, mac, start) ==
  [k \in DOMAIN s |->
    LET id == [mac |-> mac, block |-> start + ((k - 1) \div W), at |-> (k - 1) % W]
    IN [s[k] EXCEPT !.ks = Xor(@, {id})]]

(* --------------------------------- CCM ---------------------------------- *)

FieldSize(nonce) == W - 1 - Len(nonce)

PayloadLengthValid(nonce, n) == n <= Base^FieldSize(nonce) - 1

Field(value, q) == [k \in 1..q |-> (value \div Base^(q - k)) % Base]

RECURSIVE NumberOf(_)
NumberOf(s) == IF s = <<>> THEN 0 ELSE NumberOf(SubSeq(s, 1, Len(s) - 1)) * Base + s[Len(s)]

\* tc_aes_ccm_make_counter: the whole block is one big-endian number.
MakeCounter(nonce, value) ==
  NumberOf(<<FieldSize(nonce) - 1>> \o nonce \o Field(value, FieldSize(nonce)))

CcmFirst(req, n) ==
  Bytes(<<(IF req.aad # <<>> THEN 100 ELSE 0) + 10 * req.tag_len + FieldSize(req.nonce) - 1>>
        \o req.nonce \o Field(n, FieldSize(req.nonce)))

\* The length of the additional data, in one of three encodings.
AadHeader(n) ==
  Bytes(IF n < ShortAad THEN <<n>> ELSE IF n <= MidAad THEN <<ShortAad, n>> ELSE <<ShortAad + 1, n>>)

CcmMac(req, text) ==
  LET first == CbcBlock(FreshChain({}), CcmFirst(req, Len(text)))
      aad == IF req.aad = <<>> THEN first
             ELSE CbcPad(CbcUpdate(CbcUpdate(first, AadHeader(Len(req.aad)), FALSE), Bytes(req.aad), FALSE))
  IN {CbcPad(CbcUpdate(aad, text, FALSE)).chain}

(* ----------------------------- EAX and EAX' ----------------------------- *)

\* Mutant: every OMAC has the same prefix.
OmacPlain(domain, data) == CmacParts({}, <<[i \in 1..W |-> Byte(0)], data>>)

\* tc_aes_eax_cmac with a domain prefix
Omac(domain, data) == CmacParts({}, <<[i \in 1..W |-> Byte(IF i = W THEN domain ELSE 0)], data>>)

\* tc_aes_eax_cmac without a prefix: the chain starts from D or Q, which are
\* also the subkeys that end it.
OmacPrime(constant, data) == CmacParts({constant}, <<data>>)

\* The XOR of MACs: those that occur an odd number of times.
Sum(macs) ==
  {m \in {macs[i] : i \in DOMAIN macs} : Cardinality({i \in DOMAIN macs : macs[i] = m}) % 2 = 1}

EaxMac(req, text) == Sum(<<Omac(0, Bytes(req.nonce)), Omac(1, Bytes(req.aad)), Omac(2, text)>>)
EaxPrimeMac(req, text) == Sum(<<OmacPrime("d", Bytes(req.aad)), OmacPrime("q", text)>>)

(* --------------------------------- SIV ---------------------------------- *)

Doubled == <<[block |-> <<>>, add |-> {"double"}]>>

\* tc_aes_siv_s2v: the sum of the components is the sequence of their CMACs,
\* each doubled once for every component after it.
SivMac(req, text) ==
  LET d == <<CmacParts({}, <<[i \in 1..W |-> Byte(0)]>>)>> \o [i \in DOMAIN req.aad |-> CmacParts({}, <<Bytes(req.aad[i])>>)]
      n == Len(text)
      padded == [i \in 1..W |-> IF i <= n THEN text[i] ELSE IF i = n + 1 THEN Byte(PadValue) ELSE Byte(0)]
  IN {IF n >= W THEN CmacParts({}, <<SubSeq(text, 1, n - W), [i \in 1..W |-> [text[n - W + i] EXCEPT !.d = d]]>>)
      ELSE CmacParts({}, <<[i \in 1..W |-> [padded[i] EXCEPT !.d = Append(d, Doubled)]]>>)}

(* ------------------------------- the modes ------------------------------ *)

NoMac == <<>>

MacOf(req, text) ==
  CASE req.mode = "ccm" -> CcmMac(req, text) [] req.mode = "eax" -> EaxMac(req, text)
    [] req.mode = "prime" -> EaxPrimeMac(req, text) [] req.mode = "siv" -> SivMac(req, text)

TagOf(req, text) ==
  [macs |-> MacOf(req, text), mask |-> IF req.mode = "ccm" THEN MakeCounter(req.nonce, 0) ELSE 0, length |-> req.tag_len]

\* The text under the keystream of the mode: CCM starts at counter 1, EAX at
\* the nonce MAC, EAX' at the cleartext MAC, SIV at the tag.
TextXor(req, s, t) ==
  CASE req.mode = "ccm" -> CtrXor(s, NoMac, MakeCounter(req.nonce, 0) + 1)
    [] req.mode = "eax" -> CtrXor(s, Omac(0, Bytes(req.nonce)), 0)
    [] req.mode = "prime" -> CtrXor(s, OmacPrime("d", Bytes(req.aad)), 0)
    [] req.mode = "siv" -> CtrXor(s, CHOOSE m \in t.macs : TRUE, 0)

\* Mutant: EAX authenticates what it reads, also when it encrypts.
StepsReading(mode, decrypt) ==
  IF ~decrypt THEN <<"mac_in", "ctr">>
  ELSE CASE mode = "siv" -> <<"ctr", "mac_out", "verify">> [] mode = "ccm" -> <<"mac_private", "verify", "ctr">>
         [] OTHER -> <<"mac_in", "verify", "ctr">>

\* What each mode does, in order.
Steps(mode, decrypt) ==
  IF ~decrypt THEN IF mode \in {"eax", "prime"} THEN <<"ctr", "mac_out">> ELSE <<"mac_in", "ctr">>
  ELSE CASE mode = "siv" -> <<"ctr", "mac_out", "verify">> [] mode = "ccm" -> <<"mac_private", "verify", "ctr">>
         [] OTHER -> <<"mac_in", "verify", "ctr">>

(* -------------------------------- a call -------------------------------- *)

Unset == [macs |-> {}, mask |-> 0, length |-> 0]
Input == IF call.alias THEN buf ELSE call.input

TagLengthAllowed(req) ==
  /\ req.tag_len \in 1..W /\ (IF req.short THEN req.tag_len < MinTag ELSE req.tag_len >= MinTag)
  /\ req.mode = "ccm" => req.tag_len >= CcmFloor /\ req.tag_len % 2 = 0

\* tc_aes_text_ok: exact aliases or fully disjoint
TextOk(c) == c.overlap \in {"none", "exact"}

ArgsOk(c) ==
  /\ TextOk(c) /\ (c.req.mode \in {"ccm", "eax"} => TagLengthAllowed(c.req))
  /\ c.req.mode = "ccm" => FieldSize(c.req.nonce) \in 1..(W - 2) /\ PayloadLengthValid(c.req.nonce, Len(c.input))

Start ==
  /\ status = "start" /\ UNCHANGED <<call, buf, tag>>
  /\ IF ArgsOk(call) THEN status' = "running" /\ todo' = Steps(call.req.mode, call.decrypt)
     ELSE status' = "refused" /\ todo' = <<>>

Running(step) == status = "running" /\ todo # <<>> /\ Head(todo) = step /\ todo' = Tail(todo)

\* The MAC of the input, of what was written, or of a private plaintext.
Authenticate ==
  \/ Running("mac_in") /\ tag' = TagOf(call.req, Input) /\ UNCHANGED <<call, buf, status>>
  \/ Running("mac_out") /\ tag' = TagOf(call.req, buf) /\ UNCHANGED <<call, buf, status>>
  \/ Running("mac_private") /\ tag' = TagOf(call.req, TextXor(call.req, Input, call.given)) /\ UNCHANGED <<call, buf, status>>

\* Mutant: a mismatch leaves the buffer as it is.
VerifyKeeping ==
  /\ Running("verify") /\ UNCHANGED <<call, tag, buf>>
  /\ IF tag = call.given THEN UNCHANGED status ELSE status' = "mismatch"

Verify ==
  /\ Running("verify") /\ UNCHANGED <<call, tag>>
  /\ IF tag = call.given THEN UNCHANGED <<status, buf>>
     ELSE status' = "mismatch" /\ buf' = Bytes([i \in DOMAIN buf |-> 0])

Crypt ==
  /\ Running("ctr") /\ UNCHANGED <<call, tag, status>>
  /\ buf' = TextXor(call.req, Input, IF call.decrypt THEN call.given ELSE tag)

\* A key schedule or block operation fails: the text output is wiped.
CipherFails ==
  /\ status = "running" /\ todo # <<>>
  /\ status' = "error" /\ todo' = <<>> /\ buf' = Bytes([i \in DOMAIN buf |-> 0]) /\ tag' = Unset /\ UNCHANGED call

Finish == status = "running" /\ todo = <<>> /\ status' = "ok" /\ UNCHANGED <<call, todo, buf, tag>>

\* A packet and its tag as sealing gives them.
Seal(req) ==
  LET t == Bytes(req.text)
      plain == TextXor(req, t, TagOf(req, t))
  IN [text |-> plain, tag |-> TagOf(req, IF req.mode \in {"ccm", "siv"} THEN t ELSE plain)]

Call(decrypt, req, packet, overlap, altered) ==
  [kind |-> "call", decrypt |-> decrypt, req |-> req, input |-> packet.text, given |-> packet.tag,
   alias |-> overlap = "exact", overlap |-> overlap, altered |-> altered]

\* What may arrive for a sealed packet s: itself, or one part of it altered.
OtherNonce(r) == [r EXCEPT !.nonce = IF @ = <<>> THEN <<1>> ELSE [@ EXCEPT ![1] = 3]]
OtherAad(r) == [r EXCEPT !.aad = Append(@, IF r.mode = "siv" THEN <<3>> ELSE 3)]
Wrong == <<[block |-> <<>>, add |-> {"wrong"}]>>

Arrivals(r, s, o) ==
  {Call(TRUE, r, s, o, FALSE), Call(TRUE, OtherAad(r), s, o, TRUE), Call(TRUE, r, [s EXCEPT !.tag.macs = {Wrong}], o, TRUE)}
  \cup {Call(TRUE, r, [s EXCEPT !.text = t], o, TRUE) :
          t \in IF s.text = <<>> THEN {} ELSE {Tail(s.text), [s.text EXCEPT ![1].v = 3]}}
  \cup {Call(TRUE, OtherNonce(x), s, o, TRUE) : x \in {y \in {r} : y.mode \in {"ccm", "eax"}}}

Valid(r) == r.mode = "ccm" => PayloadLengthValid(r.nonce, Len(r.text))

Init ==
  /\ todo = <<>> /\ tag = Unset
  /\ \/ \E r \in Requests \cup Malformed, o \in {"none", "exact", "partial"} :
          call = Call(FALSE, r, [text |-> Bytes(r.text), tag |-> Unset], o, FALSE)
     \/ \E r \in {x \in Requests : Valid(x)}, o \in {"none", "exact"} : \E s \in {Seal(r)} : call \in Arrivals(r, s, o)
     \/ \E a, b \in {x \in Requests : Valid(x)} : a.mode = b.mode /\ call = [kind |-> "pair", a |-> a, b |-> b]
  /\ status = (IF call.kind = "call" THEN "start" ELSE "pair")
  /\ buf = IF call.kind = "call" THEN IF call.alias THEN call.input ELSE Bytes([i \in DOMAIN call.input |-> 9]) ELSE <<>>

Next == Start \/ Authenticate \/ Verify \/ Crypt \/ CipherFails \/ Finish

Spec == Init /\ [][Next]_vars

(* ------------------------------ properties ------------------------------ *)

\* In place or not, encryption gives the sealed text and tag of the mode: each
\* mode authenticates before or after it writes, whichever reads the right text.
\* A CCM tag has one of the even lengths of SP 800-38C, through either entry.
SealExact ==
  call.kind = "call" /\ status = "ok" =>
    /\ ~call.decrypt => buf = Seal(call.req).text /\ tag = Seal(call.req).tag
    /\ call.req.mode = "ccm" => call.req.tag_len \in {t \in CcmFloor..W : t % 2 = 0}

\* Decryption succeeds on exactly the packet that sealing gives, and then the
\* buffer holds its plaintext; otherwise a call that began leaves it wiped.
OpenExact ==
  call.kind = "call" /\ call.decrypt =>
    /\ status = "ok" => ~call.altered /\ buf = Bytes(call.req.text)
    /\ status = "mismatch" => call.altered
    /\ status \in {"mismatch", "error"} => buf = Bytes([i \in DOMAIN call.input |-> 0])

\* CCM, EAX and EAX' write no text before the tag has been verified; SIV, which
\* must decrypt to authenticate, is the exception.
VerifiedBeforeWritten ==
  call.kind = "call" /\ call.decrypt /\ call.req.mode # "siv" /\ status = "running" /\ "verify" \in {todo[i] : i \in DOMAIN todo} =>
    buf = IF call.alias THEN call.input ELSE Bytes([i \in DOMAIN call.input |-> 9])

\* Two requests that differ anywhere, in the split between nonce, additional
\* data and text, the tag length or the components, never authenticate the
\* same thing.  EAX' promises it only for a cleartext of more than one block:
\* in a MAC of one block the constant it starts from cancels against an equal
\* subkey (aes_eax.c:210-230), as C12.22 defines it.
RequestsDistinct ==
  status = "pair" /\ call.a # call.b /\ (call.a.mode = "prime" => Len(call.a.aad) > W) =>
    Seal(call.a).tag # Seal(call.b).tag

\* CCM increments the whole counter block, yet no keystream block of one nonce
\* is one of another nonce, or the one that masks a tag.
CountersDistinct ==
  status = "pair" /\ call.a.mode = "ccm" =>
    LET used(req) == {MakeCounter(req.nonce, 0) + i : i \in 0..((Len(req.text) + W - 1) \div W)} IN
    call.a.nonce # call.b.nonce => used(call.a) \cap used(call.b) = {}
=============================================================================
