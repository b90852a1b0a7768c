----------------------------- MODULE TlvStream ------------------------------
(***************************************************************************)
(* The incremental TLV decoder and what is built on it (tlv_walk.c): the   *)
(* stream is fed chunks of any length, keeps a header that is split and a  *)
(* frame for each open container, and calls the visitor; a walk is one     *)
(* feed and a finish; a tree read feeds itself what it can of one object.  *)
(* The sibling readers are in tlv.c.                                       *)
(***************************************************************************)
EXTENDS Integers, Sequences, SequencesExt

CONSTANTS
  TagBytes,       \* TC_TLV_TAG_BYTES
  MaxNumber,      \* UINT32_MAX
  SizeOctets,     \* sizeof(size_t)
  WriteOctets,    \* MAX_LENGTH_OCTETS of the writer
  Bytes, Profiles,
  Limits,         \* TC_TLV_limits, with the capacity of the frames
  MaxChunk,       \* longest chunk of one feed
  MaxFed          \* bound on the bytes fed in one behaviour

VARIABLES
  stream,         \* TC_TLV_stream, with the events the visitor got
  fed,            \* the bytes the stream was given
  result          \* what the last call returned

vars == <<stream, fed, result>>

(******************************* Headers **********************************)

Iso(profile) == profile \notin {"DER", "BER"}

\* tc_tlv_padding
Padding(profile, byte) ==
  \/ profile \in {"PAD_ZERO", "PAD_ZERO_FF"} /\ byte = 0
  \/ profile = "PAD_ZERO_FF" /\ byte = 255

Stop(verdict) == [result |-> verdict]

\* The long form holds no number that fits the first octet.
TagNumber(number, p) ==
  IF number < 31 THEN Stop("INVALID") ELSE [result |-> "OK", number |-> number, p |-> p]

\* The tag octets after the first, seven bits each, from offset p on.
RECURSIVE TagOctets(_, _, _, _)
TagOctets(data, profile, p, number) ==
  IF p = Len(data) THEN Stop("MORE")
  ELSE IF p = TagBytes \/ (Iso(profile) /\ p = 3) THEN Stop("LIMIT")
  ELSE LET bits == data[p + 1] % 128
       IN  IF p = 1 /\ bits = 0 THEN Stop("INVALID")
           ELSE IF number > (MaxNumber - bits) \div 128 THEN Stop("LIMIT")
           ELSE IF data[p + 1] >= 128 THEN TagOctets(data, profile, p + 1, number * 128 + bits)
           ELSE TagNumber(number * 128 + bits, p + 1)

\* The tag: its number and its length.
TagRead(data, profile) ==
  IF data[1] = 0 \/ (Iso(profile) /\ data[1] = 255) THEN Stop("INVALID")
  ELSE IF data[1] % 32 = 31 THEN TagOctets(data, profile, 1, 0)
  ELSE IF data[1] < 64 /\ data[1] % 32 = 0 THEN Stop("INVALID")
  ELSE [result |-> "OK", number |-> data[1] % 32, p |-> 1]

\* Mutant: a length in more octets than it needs is read under DER.
LengthAnyForm(data, profile, p, n) ==
  LET length == FoldLeft(LAMBDA sum, octet : sum * 256 + octet, 0, SubSeq(data, p + 1, p + n))
  IN  IF n > SizeOctets THEN Stop("LIMIT")
      ELSE IF n > Len(data) - p THEN Stop("MORE")
      ELSE [result |-> "OK", indefinite |-> FALSE, p |-> p + n, length |-> length]

\* n length octets behind offset p.  DER takes the shortest form only.
LengthOctets(data, profile, p, n) ==
  LET length == FoldLeft(LAMBDA sum, octet : sum * 256 + octet, 0, SubSeq(data, p + 1, p + n))
  IN  IF Iso(profile) /\ n > 4 THEN Stop("INVALID")
      ELSE IF n > SizeOctets THEN Stop("LIMIT")
      ELSE IF n > Len(data) - p THEN Stop("MORE")
      ELSE IF profile = "DER" /\ (data[p + 1] = 0 \/ length < 128) THEN Stop("INVALID")
      ELSE [result |-> "OK", indefinite |-> FALSE, p |-> p + n, length |-> length]

\* The length field at offset p.
LengthRead(data, profile, p, constructed) ==
  IF p = Len(data) THEN Stop("MORE")
  ELSE LET b == data[p + 1]
       IN  IF b = 255 THEN Stop("INVALID")
           ELSE IF b = 128
           THEN IF profile # "BER" \/ ~constructed THEN Stop("INVALID")
                ELSE [result |-> "OK", indefinite |-> TRUE, p |-> p + 1, length |-> 0]
           ELSE IF b > 128 THEN LengthOctets(data, profile, p + 1, b - 128)
           ELSE [result |-> "OK", indefinite |-> FALSE, p |-> p + 1, length |-> b]

\* tc_tlv_header_read: MORE while the bytes end inside the header.
HeaderRead(data, profile, maxValue) ==
  IF data = <<>> THEN Stop("MORE")
  ELSE LET constructed == (data[1] \div 32) % 2 = 1
           tag == TagRead(data, profile)
       IN  IF tag.result # "OK" THEN tag
           ELSE LET length == LengthRead(data, profile, tag.p, constructed)
                IN  IF length.result # "OK" THEN length
                    ELSE IF length.length > maxValue THEN Stop("LIMIT")
                    ELSE [result |-> "OK", tag |-> SubSeq(data, 1, tag.p), number |-> tag.number,
                          size |-> length.p, length |-> length.length,
                          constructed |-> constructed, indefinite |-> length.indefinite]

\* long_form_octets
LongFormOctets(length) == CHOOSE n \in 1 .. 4 : length < 256 ^ n /\ (n = 1 \/ length >= 256 ^ (n - 1))

\* tc_tlv_header_size: 0 when the writer cannot write it.
HeaderSize(tagLength, length) ==
  IF tagLength \notin 1 .. TagBytes THEN 0
  ELSE IF length <= 127 THEN tagLength + 1
  ELSE IF LongFormOctets(length) <= WriteOctets THEN tagLength + 1 + LongFormOctets(length) ELSE 0

\* tc_tlv_header_write
HeaderWrite(tag, length) ==
  IF length <= 127 THEN Append(tag, length)
  ELSE LET octets == LongFormOctets(length)
       IN  Append(tag, 128 + octets) \o
           [i \in 1 .. octets |-> (length \div 256 ^ (octets - i)) % 256]

(******************************* The stream *******************************)

Event(kind, offset, depth, bytes) == [kind |-> kind, offset |-> offset, depth |-> depth, bytes |-> bytes]

\* emit.  The visitor puts the pieces of one value together.
Emit(s, e) ==
  LET last == s.events[Len(s.events)]
  IN  IF e.kind = "VALUE" /\ last.kind = "VALUE"
      THEN [s EXCEPT !.events[Len(s.events)].bytes = @ \o e.bytes]
      ELSE [s EXCEPT !.events = Append(@, e)]

\* initialize
Started(profile, limits) ==
  [profile |-> profile, limits |-> limits, frames |-> <<>>, offset |-> 0, elements |-> 0,
   remaining |-> 0, error |-> "OK", header |-> <<>>, primitive |-> FALSE, finished |-> FALSE,
   events |-> <<>>]

Depth(s) == Len(s.frames)
Top(s) == s.frames[Depth(s)]

Bound(s) == IF s.frames = <<>> THEN s.limits.input ELSE Top(s).bound

\* boundary_error: a limit of the caller, or an object beyond its parent.
BoundaryError(s) == IF s.frames = <<>> \/ Top(s).resource THEN "LIMIT" ELSE "INVALID"

Fail(s, error) == [s EXCEPT !.error = error]

Popped(s, offset, bytes) ==
  Emit([s EXCEPT !.frames = Front(@)], Event("CLOSE", offset, Depth(s) - 1, bytes))

Ended(s) == s.frames # <<>> /\ ~Top(s).indefinite /\ s.offset = Top(s).end

\* close_definite: every container that ends here.
CloseDefinite(s) ==
  FoldLeft(LAMBDA t, frame : IF Ended(t) THEN Popped(t, t.offset, <<>>) ELSE t, s, s.frames)

\* header_bytes: borrowed from the chunk, or the accumulator when it was split.
HeaderBytes(s, data, p, used) == IF used <= p THEN SubSeq(data, p - used + 1, p) ELSE s.header

\* A piece of a primitive value.
ValueTaken(s, piece) == [s EXCEPT !.offset = @ + Len(piece), !.remaining = @ - Len(piece)]

Value(s, data, p) ==
  LET n == IF Len(data) - p > s.remaining THEN s.remaining ELSE Len(data) - p
      piece == SubSeq(data, p + 1, p + n)
      taken == ValueTaken(Emit(s, Event("VALUE", s.offset, Depth(s), piece)), piece)
  IN  IF n > Bound(s) - s.offset THEN Fail(s, BoundaryError(s))
      ELSE IF taken.remaining > 0 THEN taken
      ELSE CloseDefinite(Emit([taken EXCEPT !.primitive = FALSE],
                              Event("CLOSE", taken.offset, Depth(s), <<>>)))

\* End-of-contents is legal only at the top of an indefinite container.
Ends(s) == s.profile = "BER" /\ s.frames # <<>> /\ Top(s).indefinite

EndOfContents(s, data, p) ==
  IF ~Ends(s) THEN Fail(s, "INVALID")
  ELSE IF Len(s.header) = 1 THEN s
  ELSE IF s.header[2] # 0 THEN Fail(s, "INVALID")
  ELSE IF s.offset - 2 - Top(s).start > s.limits.value THEN Fail(s, "LIMIT")
  ELSE CloseDefinite([Popped(s, s.offset - 2, HeaderBytes(s, data, p, 2)) EXCEPT !.header = <<>>])

\* The frame of a container.  An indefinite one gets its parent's bound, or
\* the largest value and its end-of-contents when that is less.
FrameFor(s, h) ==
  IF ~h.indefinite
  THEN [start |-> s.offset, end |-> s.offset + h.length, bound |-> s.offset + h.length,
        indefinite |-> FALSE, resource |-> FALSE]
  ELSE LET available == Bound(s) - s.offset
           capped == available > 2 /\ s.limits.value < available - 2
       IN  [start |-> s.offset, end |-> 0, indefinite |-> TRUE,
            bound |-> IF capped THEN s.offset + s.limits.value + 2 ELSE Bound(s),
            resource |-> capped \/ BoundaryError(s) = "LIMIT"]

\* A whole header: its object begins.
Begin(s, h, data, p) ==
  LET used == Len(s.header)
      begun == [Emit(s, Event("BEGIN", s.offset - used, Depth(s), HeaderBytes(s, data, p, used)))
                  EXCEPT !.elements = @ + 1, !.header = <<>>]
  IN  IF s.elements >= s.limits.elements THEN Fail(s, "LIMIT")
      ELSE IF h.length > Bound(s) - s.offset THEN Fail(s, BoundaryError(s))
      ELSE IF h.constructed /\ (Depth(s) >= s.limits.depth \/ Depth(s) >= s.limits.capacity)
      THEN Fail(s, "LIMIT")
      ELSE IF h.constructed THEN CloseDefinite([begun EXCEPT !.frames = Append(@, FrameFor(s, h))])
      ELSE IF h.length > 0 THEN [begun EXCEPT !.remaining = h.length, !.primitive = TRUE]
      ELSE CloseDefinite(Emit(begun, Event("CLOSE", s.offset, Depth(s), <<>>)))

\* One more byte of a header, at chunk position p.
HeaderByte(s, data, p) ==
  LET more == [s EXCEPT !.header = Append(@, data[p + 1]), !.offset = @ + 1]
      h == HeaderRead(more.header, s.profile, s.limits.value)
  IN  IF Len(s.header) = TagBytes + 1 + SizeOctets THEN Fail(s, "LIMIT")
      ELSE IF more.header[1] = 0 THEN EndOfContents(more, data, p + 1)
      ELSE IF h.result = "MORE" THEN more
      ELSE IF h.result # "OK" THEN Fail(more, h.result)
      ELSE Begin(more, h, data, p + 1)

\* Padding is legal between root objects.
Padded(s, byte) == s.frames = <<>> /\ s.header = <<>> /\ Padding(s.profile, byte)

\* A turn of the loop of feed, at chunk position p.
FeedTurn(s, data, p) ==
  IF s.offset >= Bound(s) THEN Fail(s, BoundaryError(s))
  ELSE IF s.primitive THEN Value(s, data, p)
  ELSE IF Padded(s, data[p + 1]) THEN [s EXCEPT !.offset = @ + 1]
  ELSE HeaderByte(s, data, p)

\* The loop takes no more turns than there are bytes.
FeedLoop(s, data) ==
  FoldLeft(LAMBDA t, byte : IF t.error # "OK" \/ t.offset - s.offset = Len(data) THEN t
                            ELSE FeedTurn(t, data, t.offset - s.offset),
           s, data)

Unfinished(s) == s.header # <<>> \/ s.primitive \/ s.frames # <<>>

\* feed: a chunk beyond the largest input is refused as a whole.
Feed(s, data) ==
  IF Len(data) > s.limits.input - s.offset THEN Fail(s, "LIMIT") ELSE FeedLoop(s, data)

FeedResult(s) == IF s.error # "OK" THEN s.error ELSE IF Unfinished(s) THEN "MORE" ELSE "OK"

\* finish
Finish(s) ==
  IF s.error # "OK" THEN s
  ELSE IF Unfinished(s) THEN Fail(s, "INVALID") ELSE [s EXCEPT !.finished = TRUE]

\* What TC_TLV_read_tree may feed without reading beyond its object.
TreeChunk(s, length) ==
  IF s.primitive THEN s.remaining
  ELSE IF s.frames # <<>> /\ ~Top(s).indefinite THEN Top(s).end - s.offset ELSE 1

\* Where its loop comes to: the object ends, or the input, or a header reaches
\* the end of its definite parent.
RECURSIVE TreeLoop(_, _)
TreeLoop(s, input) ==
  LET left == Len(input) - s.offset
      chunk == TreeChunk(s, Len(input))
      n == IF chunk > left THEN left ELSE chunk
  IN  IF FeedResult(s) # "MORE" THEN {[result |-> FeedResult(s), size |-> s.offset]}
      ELSE IF chunk = 0 THEN {[result |-> "INVALID", size |-> 0]}
      ELSE IF left = 0 THEN {[result |-> "MORE", size |-> 0]}
      ELSE UNION {TreeLoop(t, input) : t \in {Feed(s, SubSeq(input, s.offset + 1, s.offset + n))}}

\* TC_TLV_read_tree: one object, its end-of-contents included.
ReadTree(input, profile, limits) ==
  LET h == HeaderRead(input, profile, limits.value)
  IN  IF Len(input) > limits.input THEN [result |-> "LIMIT", size |-> 0]
      ELSE IF h.result # "OK" THEN [result |-> h.result, size |-> 0]
      ELSE CHOOSE tree \in UNION {TreeLoop(s, input) : s \in {Feed(Started(profile, limits), SubSeq(input, 1, h.size))}} : TRUE

\* The next byte that is not root padding.
Skip(input, offset, root, profile) ==
  LET padded(n) == \A i \in offset + 1 .. n : root /\ Padding(profile, input[i])
  IN  CHOOSE n \in offset .. Len(input) : padded(n) /\ (n = Len(input) \/ ~padded(n + 1))

\* TC_TLV_read: the definite object behind offset p of its input.
ReadElement(input, p, profile, limits) ==
  LET h == HeaderRead(SubSeq(input, p + 1, Len(input)), profile, limits.value)
  IN  IF h.result # "OK" THEN h
      ELSE IF h.indefinite THEN Stop("UNSUPPORTED")
      ELSE IF h.length > Len(input) - p - h.size THEN Stop("MORE")
      ELSE [result |-> "OK", at |-> p, header |-> h,
            value |-> SubSeq(input, p + h.size + 1, p + h.size + h.length)]

\* TC_TLV_next for a reader at an offset of its input, after a number of
\* elements.  A child's input is complete.
NextSibling(input, offset, elements, root, profile, limits) ==
  LET p == Skip(input, offset, root, profile)
      e == ReadElement(input, p, profile, limits)
  IN  IF p = Len(input) THEN Stop("END")
      ELSE IF elements >= limits.elements THEN Stop("LIMIT")
      ELSE IF e.result = "MORE" /\ ~root THEN Stop("INVALID") ELSE e

Init ==
  /\ \E profile \in Profiles, limits \in Limits : stream = Started(profile, limits)
  /\ fed = <<>> /\ result = "OK"

\* TC_TLV_stream_feed.  Errors are sticky, and a finished stream takes no more.
FeedCall(chunk) ==
  /\ IF stream.error # "OK" THEN result' = stream.error /\ UNCHANGED <<stream, fed>>
     ELSE IF stream.finished THEN result' = "ARGUMENT" /\ UNCHANGED <<stream, fed>>
     ELSE /\ stream' = Feed(stream, chunk) /\ fed' = fed \o chunk /\ result' = FeedResult(stream')

\* TC_TLV_stream_finish
FinishCall ==
  /\ stream' = Finish(stream) /\ UNCHANGED fed
  /\ result' = stream'.error

Chunks == UNION {[1 .. n -> Bytes] : n \in 0 .. MaxChunk}

Next ==
  \/ \E chunk \in Chunks : Len(fed) + Len(chunk) <= MaxFed /\ FeedCall(chunk)
  \/ FinishCall

Spec == Init /\ [][Next]_vars

(******************************* Properties *******************************)

\* The reference: the ways to read the bytes between two offsets as objects, by
\* the grammar of the encodings.  kind says what surrounds them.
RECURSIVE Objects(_, _, _, _, _)

\* The contents of an object whose header h ends at body.
Contents(m, h, body, end, depth) ==
  LET stop == body + h.length
      value == IF h.length = 0 THEN <<>>
               ELSE <<Event("VALUE", body, depth, SubSeq(m.bytes, body + 1, stop))>>
  IN  IF h.indefinite
      THEN {c \in Objects(m, body, end, depth + 1, "indefinite") : c.next - 2 - body <= m.value}
      ELSE IF stop > end THEN {}
      ELSE IF h.constructed THEN Objects(m, body, stop, depth + 1, "definite")
      ELSE {[next |-> stop, levels |-> depth, events |-> value]}

\* An object with header h at an offset, its contents c, and those behind it.
ObjectThen(m, h, at, depth, c, rest) ==
  LET contents == IF h.indefinite THEN c.next - 2 ELSE c.next
  IN  [next |-> rest.next, levels |-> IF c.levels > rest.levels THEN c.levels ELSE rest.levels,
       events |-> <<Event("BEGIN", at, depth, SubSeq(m.bytes, at + 1, at + h.size))>> \o c.events
                  \o <<Event("CLOSE", contents, depth, SubSeq(m.bytes, contents + 1, c.next))>>
                  \o rest.events]

Objects(m, at, end, depth, kind) ==
  LET none(next) == {[next |-> next, levels |-> depth, events |-> <<>>]}
      headers == {h \in {HeaderRead(SubSeq(m.bytes, at + 1, end), m.profile, m.value)} : h.result = "OK"}
  IN  IF at = end THEN IF kind = "indefinite" THEN {} ELSE none(at)
      ELSE IF kind = "indefinite" /\ m.bytes[at + 1] = 0
      THEN IF at + 2 <= end /\ m.bytes[at + 2] = 0 THEN none(at + 2) ELSE {}
      ELSE IF kind = "root" /\ Padding(m.profile, m.bytes[at + 1]) THEN Objects(m, at + 1, end, depth, kind)
      ELSE UNION {UNION {{ObjectThen(m, h, at, depth, c, rest) : rest \in Objects(m, c.next, end, depth, kind)} :
                           c \in Contents(m, h, at + h.size, end, depth)} :
                    h \in headers}

\* The ways to read a message within the limits.
Readings(bytes) ==
  LET l == stream.limits
      m == [bytes |-> bytes, profile |-> stream.profile, value |-> l.value]
  IN  {r \in Objects(m, 0, Len(bytes), 0, "root") :
         /\ Len(bytes) <= l.input /\ r.levels <= l.depth /\ r.levels <= l.capacity
         /\ Len(SelectSeq(r.events, LAMBDA e : e.kind = "BEGIN")) <= l.elements}

\* However a message is cut into chunks, the stream ends in the state, and the
\* visitor has seen the bytes, that one chunk would give (feed).  Only what
\* exceeds the largest input is refused a chunk at a time.
ChunksInvisible ==
  Len(fed) <= stream.limits.input =>
    \E whole \in {Feed(Started(stream.profile, stream.limits), fed)} : stream \in {whole, Finish(whole)}

\* A message is accepted when it is a sequence of well-formed objects within
\* the limits, and then the events are those of its objects in order: nothing
\* else passes, and nothing that is well formed is refused (feed, finish).
AcceptsExactly ==
  LET readings == Readings(fed)
  IN  IF Finish(stream).error = "OK" THEN {r.events : r \in readings} = {stream.events} ELSE readings = {}

\* No object reaches beyond any container it is in, and the stream never
\* writes beyond its header or its frames (bound, feed).
Contained ==
  LET s == stream
  IN  /\ s.error = "OK" => s.offset + s.remaining <= Bound(s)
      /\ Depth(s) <= s.limits.depth /\ Depth(s) <= s.limits.capacity
      /\ Len(s.header) <= TagBytes + 1 + SizeOctets /\ s.elements <= s.limits.elements
      /\ \A i \in 1 .. Depth(s) :
           /\ s.frames[i].bound <= s.limits.input
           /\ \A j \in i .. Depth(s) : s.frames[j].bound <= s.frames[i].bound

Generous ==
  LET large == MaxFed + 256 ^ SizeOctets
  IN  [input |-> large, value |-> large, elements |-> large, depth |-> large, capacity |-> large]

\* Input that is called malformed before its end is malformed whatever the
\* caller's limits: only LIMIT depends on them (boundary_error, resource_bound).
InvalidStands ==
  Feed(Started(stream.profile, stream.limits), fed).error = "INVALID" =>
    Feed(Started(stream.profile, Generous), fed).error = "INVALID"

\* One object that ends with these bytes.
OneObject(bytes) ==
  \E r \in Readings(bytes) :
    LET last == r.events[Len(r.events)]
    IN  /\ r.events # <<>> /\ r.events[1].offset = 0 /\ last.offset + Len(last.bytes) = Len(bytes)
        /\ \A i \in 2 .. Len(r.events) - 1 : r.events[i].kind = "VALUE" \/ r.events[i].depth > 0

\* TC_TLV_read_tree reads the object at the start of its input to its last
\* byte and not a byte of the next, and reports MORE only for input that ends
\* inside the object.
TreeReadsOne ==
  Len(fed) <= stream.limits.input =>
    \E tree \in {ReadTree(fed, stream.profile, stream.limits)} :
      /\ \A n \in 1 .. Len(fed) :
           OneObject(SubSeq(fed, 1, n)) = (tree.result = "OK" /\ tree.size = n)
      /\ tree.result = "MORE" /\ fed # <<>> =>
           Unfinished(Feed(Started(stream.profile, stream.limits), fed))

\* What the sibling readers and their children find, as offset and depth, when
\* each comes to the end of its input.
RECURSIVE Descend(_, _, _, _, _, _)
Descend(input, base, offset, elements, root, depth) ==
  UNION {IF e.result # "OK" THEN IF e.result = "END" THEN {<<>>} ELSE {}
         ELSE LET body == e.at + e.header.size
                  children == IF e.header.constructed
                              THEN Descend(e.value, base + body, 0, 0, FALSE, depth + 1) ELSE {<<>>}
              IN  {<<<<base + e.at, depth>>>> \o child \o rest :
                     child \in children,
                     rest \in Descend(input, base, body + e.header.length, elements + 1, root, depth)} :
           e \in {NextSibling(input, offset, elements, root, stream.profile, stream.limits)}}

\* Reading siblings and their children finds what the walk finds, wherever no
\* length is indefinite (TC_TLV_next, TC_TLV_reader_child, TC_TLV_walk).
ReadersAgree ==
  LET begins == SelectSeq(stream.events, LAMBDA e : e.kind = "BEGIN")
      walked == [i \in DOMAIN begins |-> <<begins[i].offset, begins[i].depth>>]
  IN  Len(fed) <= stream.limits.input =>
        \E readings \in {Descend(fed, 0, 0, 0, TRUE, 0)} :
          /\ stream.error = "OK" => readings \subseteq {walked}
          /\ Finish(stream).error = "OK" /\ 128 \notin Range(fed) => readings = {walked}

\* What the parser says of a header does not change when more bytes follow it,
\* so that parsing again at each byte finds the end of the header and never
\* runs past it (tc_tlv_header_read, feed).
VerdictStands ==
  LET verdict(n) == HeaderRead(SubSeq(fed, 1, n), stream.profile, stream.limits.value)
  IN  \A n \in DOMAIN fed : verdict(n).result # "MORE" => verdict(n) = verdict(Len(fed))

\* A DER header is the one the writer makes for its tag and its length: no two
\* headers stand for the same, and what is written can be read again.
WriterInverse ==
  LET h == HeaderRead(fed, stream.profile, stream.limits.value)
      written == HeaderWrite(h.tag, h.length)
  IN  h.result = "OK" /\ ~h.indefinite =>
        /\ stream.profile = "DER" => written = SubSeq(fed, 1, h.size)
        /\ Len(written) = HeaderSize(Len(h.tag), h.length)
        /\ LET again == HeaderRead(written, stream.profile, stream.limits.value)
           IN  again.result = "OK" /\ again.tag = h.tag /\ again.length = h.length

\* The shortest octets for a tag with this class, form and number.
ShortestTag(lead, number) ==
  LET digits == CHOOSE n \in 1 .. TagBytes : number < 128 ^ n /\ (n = 1 \/ number >= 128 ^ (n - 1))
  IN  IF number < 31 THEN <<lead + number>>
      ELSE <<lead + 31>> \o
           [i \in 1 .. digits |-> ((number \div 128 ^ (digits - i)) % 128) + (IF i < digits THEN 128 ELSE 0)]

\* A tag that is read has the shortest octets for its class, form and number:
\* comparing the octets, as tc_tlv_tag_is does, compares tags.
TagsUnique ==
  LET h == HeaderRead(fed, stream.profile, stream.limits.value)
  IN  h.result = "OK" =>
        h.tag = ShortestTag(32 * (fed[1] \div 32), h.number) /\ h.number <= MaxNumber
=============================================================================
