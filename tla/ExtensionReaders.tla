-------------------------- MODULE ExtensionReaders --------------------------
(***************************************************************************)
(* The extension value readers of src/src/x509_ext.c over the bounded DER  *)
(* readers of pki_internal.h.  A value is a tree of nodes.  A leaf's form  *)
(* says what its contents decode to: "cut" runs past its parent, "bad" is  *)
(* empty or badly encoded, "big" is an integer above 32 bits.  Iterators   *)
(* (extensions, policies, mappings, qualifiers) keep a reader between      *)
(* calls; the other readers take their value in one call.                  *)
(*                                                                         *)
(* How a name is matched with the base of a name constraint                *)
(* (x509_name_constraints.c): DNS names, mailboxes, URIs and addresses are *)
(* scanned once from left to right.  A character is a symbol of a small    *)
(* alphabet that has a member of every class the scanners tell apart; an   *)
(* escape of a URI is one symbol.  Each scanner is checked against the     *)
(* grammar it implements, stated on the whole string.                      *)
(***************************************************************************)
EXTENDS Integers, Sequences, FiniteSets, FiniteSetsExt, SequencesExt

CONSTANTS
  MaxElements,   \* bound on the limit of elements
  MaxDepth,      \* bound on the limit of depth
  Capacities,    \* capacities of the caller's OID array
  MaxName, MaxLabel,          \* 253 and 63 characters
  MaxLocal,                   \* 64 bytes before the @ of a mailbox
  AddressParts,               \* 4 numbers of a dotted address
  AddressOctets, OctetBits    \* the longer address; the shorter has half of it

VARIABLES
  kind, value,         \* what is read: the value of an extension, or a name
  base,                \* the base a name is matched with
  limits, capacity, reader, seen,
  got,                 \* the entries given, or whether the name matches
  result

vars == <<kind, value, base, limits, capacity, reader, seen, got, result>>

Iterators == {"extensions", "policies", "mappings", "qualifiers"}
Readings == {"ski", "aki", "name_constraints", "policy_constraints", "basic_constraints", "key_usage", "eku"}

Leaf(tag, form) == [tag |-> tag, form |-> form, kids |-> <<>>]
Sequence(kids) == [tag |-> "seq", form |-> "ok", kids |-> kids]

IsOid(node) == node.tag = "oid" /\ node.form # "bad"
NamesPolicy(node) == IsOid(node) /\ node.form # "any"
AnyNode(node) == TRUE

(* ------------------------- readers and their budget ---------------------- *)

\* TC_TLV_next at the k-th node a reader has left.
At(r, k) ==
  IF k > Len(r.rest) THEN "END"
  ELSE IF r.elements + k - 1 >= r.max THEN "LIMIT"
  ELSE IF r.rest[k].form = "cut" THEN "INVALID" ELSE "OK"

\* required_field, and what its caller asks of the node.
Required(r, k, Good(_)) ==
  CASE At(r, k) = "END" -> "INVALID"
    [] At(r, k) = "OK" -> IF Good(r.rest[k]) THEN "OK" ELSE "INVALID"
    [] OTHER -> At(r, k)

\* The first step that is not OK decides the result of a reader.
FirstFailure(steps) ==
  LET bad == {k \in DOMAIN steps : steps[k] # "OK"}
  IN IF bad = {} THEN "OK" ELSE steps[Min(bad)]

\* tc_pki_child_open: the parent's count goes on, one level deeper.
Child(parent, node) == [parent EXCEPT !.rest = node.kids, !.depth = @ - 1]

Closed == [rest |-> <<>>, elements |-> 0, max |-> 0, depth |-> 0]

\* tc_pki_value_open: a complete constructed value, itself one element and
\* one level.
ValueOpen(v, allowEmpty) ==
  IF limits.elements = 0 THEN "LIMIT"
  ELSE IF v.node.tag # "seq" \/ v.node.form = "cut" \/ v.trailing \/ (~allowEmpty /\ v.node.kids = <<>>) THEN "INVALID"
  ELSE IF limits.depth = 0 THEN "LIMIT" ELSE "OK"

Contents == [rest |-> value.node.kids, elements |-> 1, max |-> limits.elements, depth |-> limits.depth - 1]

\* TC_X509_extensions_init takes an absent value as one without entries.
Absent == [rest |-> <<>>, elements |-> 0, max |-> limits.elements, depth |-> limits.depth]

(* ------------------------------- iterators ------------------------------- *)

\* The fields of one entry, by the iterator that reads it.
MappingFields(f) ==
  FirstFailure(<<Required(f, 1, NamesPolicy), Required(f, 2, NamesPolicy), IF Len(f.rest) = 2 THEN "OK" ELSE "INVALID">>)

ExtensionFields(f) ==
  LET flagged == Len(f.rest) > 1 /\ f.rest[2].tag = "bool"
      last == IF flagged THEN 3 ELSE 2
      true(node) == flagged => node.form = "true"
      octets(node) == node.tag = "octets"
  IN FirstFailure(<<Required(f, 1, IsOid), Required(f, 2, true), Required(f, last, octets),
                    IF Len(f.rest) = last THEN "OK" ELSE "INVALID">>)

QualifierFields(f) ==
  FirstFailure(<<Required(f, 1, IsOid), Required(f, 2, AnyNode), IF Len(f.rest) = 2 THEN "OK" ELSE "INVALID">>)

PolicyFields(f) ==
  LET nonempty(node) == node.tag = "seq" /\ node.kids # <<>>
      tail == IF At(f, 2) = "END" THEN "OK" ELSE Required(f, 2, nonempty)
  IN FirstFailure(<<Required(f, 1, IsOid), tail, IF Len(f.rest) <= 2 THEN "OK" ELSE "INVALID">>)

EntryFields(f) ==
  CASE kind = "extensions" -> ExtensionFields(f)
    [] kind = "policies" -> PolicyFields(f)
    [] kind = "mappings" -> MappingFields(f)
    [] kind = "qualifiers" -> QualifierFields(f)

\* next_sequence and the entry it opens.
EntryResult ==
  IF At(reader, 1) # "OK" THEN At(reader, 1)
  ELSE IF reader.rest[1].tag # "seq" THEN "INVALID"
  ELSE IF reader.depth = 0 THEN "LIMIT"
  ELSE EntryFields(Child([reader EXCEPT !.elements = @ + 1], reader.rest[1]))

\* tc_pki_child_close and the commit of the parent.
Advanced(r) == [r EXCEPT !.rest = Tail(@), !.elements = @ + 1 + Len(Head(r.rest).kids)]

\* Mutant: seen is compared with the entry before only.
RepeatedAdjacent(oid) == seen # <<>> /\ seen[Len(seen)] = oid

Repeated(oid) == \E i \in DOMAIN seen : seen[i] = oid

\* TC_X509_policy_next adds the capacity and the list of policies seen.
NextResult ==
  IF kind # "policies" THEN EntryResult
  ELSE IF reader.rest = <<>> THEN "END"
  ELSE IF Len(seen) >= capacity THEN "LIMIT"
  ELSE IF EntryResult = "OK" /\ Repeated(reader.rest[1].kids[1]) THEN "INVALID" ELSE EntryResult

(* --------------------------- single readings ----------------------------- *)

Place(allowed, tag) == IF \E i \in DOMAIN allowed : allowed[i] = tag THEN CHOOSE i \in DOMAIN allowed : allowed[i] = tag ELSE 0

\* tc_pki_context_order: each field at most once, in the listed order.
InOrder(r, k, allowed) ==
  Place(allowed, r.rest[k].tag) > (IF k = 1 THEN 0 ELSE Place(allowed, r.rest[k - 1].tag))

\* What the reader asks of a field's contents.
FieldValue(node) ==
  CASE node.form = "bad" /\ ~(kind = "aki" /\ node.tag = "80") -> "INVALID"
    [] node.form = "big" /\ kind = "policy_constraints" -> "LIMIT"
    [] OTHER -> "OK"

OptionalFields(r, allowed) ==
  FirstFailure([k \in 1..Len(r.rest) |->
    IF At(r, k) # "OK" THEN At(r, k) ELSE IF ~InOrder(r, k, allowed) THEN "INVALID" ELSE FieldValue(r.rest[k])])

Has(r, tag) == \E k \in DOMAIN r.rest : r.rest[k].tag = tag

AuthorityKeyIdentifier(r) ==
  FirstFailure(<<OptionalFields(r, <<"80", "a1", "82">>), IF Has(r, "a1") = Has(r, "82") THEN "OK" ELSE "INVALID">>)

\* TC_X509_basic_constraints_read: cA is written only when true, and a path
\* length follows it.
BasicConstraints(r) ==
  LET flagged == At(r, 1) = "OK" /\ r.rest[1].tag = "bool"
      next == IF flagged THEN 2 ELSE 1
      number(node) == IF node.tag # "int" \/ node.form = "bad" THEN "INVALID" ELSE IF node.form = "big" THEN "LIMIT" ELSE "OK"
      length == IF At(r, next) # "OK" THEN At(r, next) ELSE IF ~flagged THEN "INVALID" ELSE number(r.rest[next])
      ending == IF At(r, next + 1) = "OK" THEN "INVALID" ELSE At(r, next + 1)
      done == IF length = "OK" THEN ending ELSE length
  IN IF flagged /\ r.rest[1].form # "true" THEN "INVALID" ELSE IF done = "END" THEN "OK" ELSE done

\* TC_X509_extended_key_usage_read: the pass that counts, before the one
\* that writes.
ExtendedKeyUsage(r) ==
  FirstFailure([k \in 1..Len(r.rest) |->
    IF At(r, k) # "OK" THEN At(r, k) ELSE IF ~IsOid(r.rest[k]) THEN "INVALID" ELSE IF k > capacity THEN "LIMIT" ELSE "OK"])

\* TC_X509_subject_key_identifier_read, TC_X509_key_usage_read: one
\* primitive element.
PrimitiveRead(tag) ==
  IF value.node.form = "cut" THEN "INVALID"
  ELSE IF limits.elements = 0 THEN "LIMIT"
  ELSE IF value.node.tag = tag /\ ~value.trailing /\ (kind = "key_usage" => value.node.form # "bad") THEN "OK" ELSE "INVALID"

AllowsEmpty == {"aki", "basic_constraints"}

ReadContents(r) ==
  CASE kind = "aki" -> AuthorityKeyIdentifier(r)
    [] kind = "name_constraints" -> OptionalFields(r, <<"a0", "a1">>)
    [] kind = "policy_constraints" -> OptionalFields(r, <<"80", "81">>)
    [] kind = "basic_constraints" -> BasicConstraints(r)
    [] kind = "eku" -> ExtendedKeyUsage(r)

ReadResult ==
  CASE kind = "ski" -> PrimitiveRead("octets")
    [] kind = "key_usage" -> PrimitiveRead("bits")
    [] OTHER -> IF ValueOpen(value, kind \in AllowsEmpty) = "OK" THEN ReadContents(Contents) ELSE ValueOpen(value, kind \in AllowsEmpty)

(* -------------------------------- actions -------------------------------- *)

(* The inputs: well-formed values and values one edit away.                *)
Octets == Leaf("octets", "ok")
True == Leaf("bool", "true")
A == Leaf("oid", "a")
B == Leaf("oid", "b")
Number == Leaf("int", "ok")
Cut == Leaf("oid", "cut")

\* Sequences of fields with one field dropped, replaced or added.
Edits(fields, others) ==
  {fields} \cup {RemoveAt(fields, i) : i \in DOMAIN fields}
  \cup {ReplaceAt(fields, i, n) : i \in DOMAIN fields, n \in others}
  \cup {Append(fields, n) : n \in others}

Templates(k) ==
  CASE k = "extensions" -> {<<A, Octets>>, <<B, True, Octets>>}
    [] k = "policies" -> {<<A>>, <<B>>, <<Leaf("oid", "any"), Sequence(<<Number>>)>>}
    [] k = "mappings" -> {<<A, B>>}
    [] k = "qualifiers" -> {<<A, Number>>}

Strange == {Cut, Leaf("oid", "bad"), Leaf("bool", "false"), Sequence(<<>>), Leaf("oid", "any")}

Good(k) == {Sequence(t) : t \in Templates(k)}
Entries(k) == {Sequence(e) : e \in UNION {Edits(t, Strange) : t \in Templates(k)}} \cup {Cut, Octets}

IteratorContents(k) ==
  {<<>>} \cup {<<e>> : e \in Entries(k)} \cup {<<g, e>> : g \in Good(k), e \in Entries(k)}
  \cup {<<e, g>> : g \in Good(k), e \in Entries(k)} \cup {<<g, h, i>> : g, h, i \in Good(k)}

FieldTemplates(k) ==
  CASE k = "aki" -> {<<Leaf("80", "bad"), Leaf("a1", "ok"), Leaf("82", "big")>>, <<Leaf("80", "ok")>>}
    [] k = "name_constraints" -> {<<Leaf("a0", "ok"), Leaf("a1", "ok")>>, <<Leaf("a1", "ok")>>}
    [] k = "policy_constraints" -> {<<Leaf("80", "ok"), Leaf("81", "ok")>>, <<Leaf("81", "ok")>>}
    [] k = "basic_constraints" -> {<<True, Number>>, <<Leaf("bool", "false"), Number>>, <<>>}
    [] k = "eku" -> {<<A, B>>, <<A, A, Leaf("oid", "any")>>}

FieldNodes(k) ==
  {Cut} \cup
  (CASE k = "eku" -> Strange
    [] k = "basic_constraints" -> {True, Leaf("int", "big"), Leaf("int", "bad"), Number}
    [] OTHER -> {Leaf(t, f) : t \in {"80", "81", "82", "a0", "a1"}, f \in {"ok", "bad"}} \cup {Leaf(t, "big") : t \in {"80", "81", "82"}})

Whole(node) == [node |-> node, trailing |-> FALSE, absent |-> FALSE]

Values(k) ==
  IF k \in {"ski", "key_usage"}
    THEN {[node |-> Leaf(t, f), trailing |-> x, absent |-> FALSE] : t \in {"octets", "bits"}, f \in {"ok", "bad", "cut"}, x \in BOOLEAN}
    ELSE LET contents == IF k \in Iterators THEN IteratorContents(k)
                         ELSE UNION {Edits(t, FieldNodes(k)) : t \in FieldTemplates(k)}
             sample == CHOOSE t \in (IF k \in Iterators THEN {<<g>> : g \in Good(k)} ELSE FieldTemplates(k)) : TRUE
         IN {Whole(Sequence(c)) : c \in contents}
            \cup {[Whole(Sequence(sample)) EXCEPT !.trailing = TRUE],
                  Whole([Sequence(sample) EXCEPT !.form = "cut"]), Whole([Sequence(sample) EXCEPT !.tag = "set"])}
            \cup (IF k \in {"extensions", "qualifiers"} THEN {[node |-> Sequence(<<>>), trailing |-> FALSE, absent |-> TRUE]} ELSE {})

(* ------------------------------ name matching ---------------------------- *)

SeqsUpTo(S, n) == UNION {[1 .. k -> S] : k \in 0 .. n}
Invalid == [status |-> "INVALID", matched |-> FALSE]
Unsupported == [status |-> "UNSUPPORTED", matched |-> FALSE]
Answer(m) == [status |-> "OK", matched |-> m]

\* domain_next: the escapes of unreserved characters are taken back; case is
\* folded.
Decoded(c, escaped) ==
  IF escaped THEN CASE c = "%a" -> "a" [] c = "%." -> "." [] c = "%x" -> "BAD" [] c = "A" -> "a" [] OTHER -> c
  ELSE IF c = "A" THEN "a" ELSE c
DecodedAll(n, escaped) == [i \in DOMAIN n |-> Decoded(n[i], escaped)]

HostCharacters == {"a", "x", "n", "1", "-"}

\* Mutant: a label may end in a hyphen before a dot.
SyntaxStepHyphen(s, c) ==
  IF s.status # "OK" THEN s
  ELSE IF s.count = MaxName \/ c = "BAD" THEN [s EXCEPT !.status = "INVALID"]
  ELSE IF c = "*" THEN [s EXCEPT !.status = "UNSUPPORTED"]
  ELSE IF c = "." THEN IF s.label = 0 THEN [s EXCEPT !.status = "INVALID"]
                       ELSE [s EXCEPT !.label = 0, !.previous = c, !.count = @ + 1]
  ELSE IF c \notin HostCharacters \/ (s.label = 0 /\ c = "-") \/ s.label = MaxLabel
  THEN [s EXCEPT !.status = "INVALID"]
  ELSE [s EXCEPT !.label = @ + 1, !.previous = c, !.count = @ + 1]

\* One character of dns_syntax.
SyntaxStep(s, c) ==
  IF s.status # "OK" THEN s
  ELSE IF s.count = MaxName \/ c = "BAD" THEN [s EXCEPT !.status = "INVALID"]
  ELSE IF c = "*" THEN [s EXCEPT !.status = "UNSUPPORTED"]
  ELSE IF c = "." THEN IF s.label = 0 \/ s.previous = "-" THEN [s EXCEPT !.status = "INVALID"]
                       ELSE [s EXCEPT !.label = 0, !.previous = c, !.count = @ + 1]
  ELSE IF c \notin HostCharacters \/ (s.label = 0 /\ c = "-") \/ s.label = MaxLabel
  THEN [s EXCEPT !.status = "INVALID"]
  ELSE [s EXCEPT !.label = @ + 1, !.previous = c, !.count = @ + 1]

DnsSyntax(n, escaped) ==
  LET s == FoldLeft(SyntaxStep, [status |-> "OK", label |-> 0, previous |-> "", count |-> 0],
                    DecodedAll(n, escaped))
  IN  IF n = <<>> THEN "INVALID"
      ELSE IF s.status = "OK" /\ (s.label = 0 \/ s.previous = "-") THEN "INVALID" ELSE s.status

\* uri_ipv4 on symbols: a number is one digit.
AddressStep(s, c) ==
  IF ~s.ok THEN s
  ELSE IF c = "." THEN [s EXCEPT !.ok = s.digits > 0 /\ s.part + 1 < AddressParts, !.part = @ + 1, !.digits = 0]
  ELSE [s EXCEPT !.ok = c = "1" /\ s.digits < 3, !.digits = @ + 1]
UriIpv4(n) ==
  LET s == FoldLeft(AddressStep, [ok |-> TRUE, part |-> 0, digits |-> 0], DecodedAll(n, TRUE))
  IN  s.ok /\ s.part = AddressParts - 1 /\ s.digits > 0

\* domain_within: a leading dot asks for a proper descendant.
DomainWithin(n, b, descendants, escaped) ==
  LET strict == b # <<>> /\ b[1] = "."
      root == IF strict THEN Tail(b) ELSE b
      offset == Len(n) - Len(root)
      host == DecodedAll(n, escaped)
  IN  IF DnsSyntax(n, escaped) # "OK" THEN [Invalid EXCEPT !.status = DnsSyntax(n, escaped)]
      ELSE IF DnsSyntax(root, FALSE) # "OK" THEN [Invalid EXCEPT !.status = DnsSyntax(root, FALSE)]
      ELSE IF escaped /\ UriIpv4(n) THEN Invalid
      ELSE IF offset < 0 \/ (strict /\ offset = 0) \/ (~strict /\ ~descendants /\ offset # 0)
      THEN Answer(FALSE)
      ELSE IF offset > 0 /\ host[offset] # "." THEN Answer(FALSE)
      ELSE Answer(\A i \in 1 .. Len(root) : host[offset + i] = Decoded(root[i], FALSE))

\* The local part of mail_domain, quoted or a sequence of atoms; the state
\* stays in "DONE" from the first character behind it on.
MailAtoms == {"a", "A", "x", "n", "1", "-", "*"}
LocalStep(s, c, utf8) ==
  CASE s.in = "START" /\ c = "\"" -> [s EXCEPT !.in = "QUOTED", !.length = 1]
    [] s.in = "QUOTED" /\ c = "u" ->
         [s EXCEPT !.in = IF utf8 THEN @ ELSE "BAD", !.length = @ + 1, !.nonascii = TRUE]
    [] s.in = "QUOTED" /\ c = "\\" -> [s EXCEPT !.in = "PAIR", !.length = @ + 1]
    [] s.in = "QUOTED" /\ c = "\"" -> [s EXCEPT !.in = "DONE", !.length = @ + 1]
    [] s.in = "QUOTED" -> [s EXCEPT !.length = @ + 1]
    [] s.in = "PAIR" -> [s EXCEPT !.in = IF c = "u" THEN "BAD" ELSE "QUOTED", !.length = @ + 1]
    [] s.in \in {"START", "ATOM", "DOT"} ->
         CASE c = "@" -> [s EXCEPT !.in = IF @ = "ATOM" THEN "DONE" ELSE "BAD"]
           [] c = "." -> [s EXCEPT !.in = IF @ = "ATOM" THEN "DOT" ELSE "BAD", !.length = @ + 1]
           [] c = "u" -> [s EXCEPT !.in = IF utf8 THEN "ATOM" ELSE "BAD", !.length = @ + 1, !.nonascii = TRUE]
           [] c \in MailAtoms -> [s EXCEPT !.in = "ATOM", !.length = @ + 1]
           [] OTHER -> [s EXCEPT !.in = "BAD"]
    [] OTHER -> s

\* The checks of an internationalized mailbox on its domain.
Utf8Domain(d) ==
  /\ \A i \in DOMAIN d : d[i] # "A"
  /\ \A i \in DOMAIN d :
       (i >= 4 /\ d[i] = "-" /\ d[i - 1] = "-" /\ (i = 4 \/ d[i - 4] = ".")
          /\ \A j \in i - 3 .. i - 1 : d[j] # ".") => d[i - 3] = "x" /\ d[i - 2] = "n"

MailDomain(n, utf8) ==
  LET s == FoldLeft(LAMBDA a, c : LocalStep(a, c, utf8),
                    [in |-> "START", length |-> 0, nonascii |-> FALSE], n)
      domain == SubSeq(n, s.length + 2, Len(n))
      refused(status) == [status |-> status, domain |-> <<>>]
  IN  IF s.in # "DONE" \/ s.length > MaxLocal \/ s.length >= Len(n) THEN refused("INVALID")
      ELSE IF n[s.length + 1] # "@" \/ domain = <<>> THEN refused("INVALID")
      ELSE IF domain[1] = "[" THEN refused("UNSUPPORTED")
      ELSE IF utf8 /\ (~s.nonascii \/ ~Utf8Domain(domain)) THEN refused("INVALID")
      ELSE [status |-> "OK", domain |-> domain]

MailWithin(n, b, utf8) ==
  IF \E i \in DOMAIN b : b[i] = "@" THEN Unsupported
  ELSE LET m == MailDomain(n, utf8) IN
       IF m.status # "OK" THEN [Invalid EXCEPT !.status = m.status]
       ELSE DomainWithin(m.domain, b, FALSE, FALSE)

\* The first character of S from a position on, or the end.
FirstMark(n, from, S) ==
  IF \E i \in from .. Len(n) : n[i] \in S
  THEN CHOOSE i \in from .. Len(n) : n[i] \in S /\ \A j \in from .. i - 1 : n[j] \notin S
  ELSE Len(n) + 1

UriCharacters == {"a", "A", "1", "-", ".", "*"}
UriEscapes == {"%a", "%.", "%x"}

AuthorityEnd(n, start) == FirstMark(n, start, {"/", "?", "#"})

\* uri_domain: scheme, authority with user information and port, and the
\* rest, whose characters are checked too.  A % that begins no escape is the
\* symbol %.
UriDomain(n) ==
  LET colon == FirstMark(n, 2, {":"})
      start == colon + 3
      end == AuthorityEnd(n, start)
      ats == {i \in start .. end - 1 : n[i] = "@"}
      host == IF ats = {} THEN start ELSE (CHOOSE i \in ats : TRUE) + 1
      port == LET p == FirstMark(n, host, {":"}) IN IF p < end THEN p ELSE end
      query == FirstMark(n, end, {"?", "#"})
      fragment == FirstMark(n, end, {"#"})
      rest(i) == \/ n[i] \in UriCharacters \cup UriEscapes \cup {":", "@", "/"}
                 \/ n[i] = "?" /\ i >= query
                 \/ n[i] = "#" /\ i = fragment
      valid == /\ n # <<>> /\ n[1] \in {"a", "A"}
               /\ \A i \in 2 .. colon - 1 : n[i] \in {"a", "A", "1", "-", "."}
               /\ Len(n) >= colon + 2 /\ n[colon + 1] = "/" /\ n[colon + 2] = "/"
               /\ Cardinality(ats) <= 1
               /\ \A i \in start .. host - 2 : n[i] \in UriCharacters \cup UriEscapes \cup {":"}
               /\ host < end /\ n[host] # "["
               /\ \A i \in port + 1 .. end - 1 : n[i] = "1"
               /\ \A i \in end .. Len(n) : rest(i)
  IN  IF valid THEN [status |-> "OK", domain |-> SubSeq(n, host, port - 1)]
      ELSE [status |-> "INVALID", domain |-> <<>>]

UriWithin(n, b) ==
  LET u == UriDomain(n) IN
  IF u.status # "OK" THEN Invalid ELSE DomainWithin(u.domain, b, FALSE, TRUE)

\* One bit of the mask of ip_within: behind a zero there are only zeros.
MaskStep(zero, bit) ==
  IF bit = 1 THEN IF zero = "ONES" THEN "ONES" ELSE "BAD" ELSE IF zero = "BAD" THEN "BAD" ELSE "ZERO"

IpWithin(n, b) ==
  LET width == Len(b) \div 2
      mask == SubSeq(b, width + 1, Len(b))
      lengths == {AddressOctets * OctetBits, (AddressOctets \div 2) * OctetBits}
  IN  IF Len(n) \notin lengths \/ width \notin lengths THEN Invalid
      ELSE IF FoldLeft(MaskStep, "ONES", mask) = "BAD" THEN Invalid
      ELSE Answer(Len(n) = width /\ \A i \in 1 .. width : mask[i] = 1 => n[i] = b[i])

(* The inputs.                                                             *)
Bases == SeqsUpTo({"a", "-", "."}, 3) \cup {<<"A">>, <<"*">>, <<"a", "@">>}
Hosts == SeqsUpTo({"a", "-", ".", "1", "*"}, 4) \cup SeqsUpTo({"A", "a", "."}, 4)
           \cup SeqsUpTo({"a", "."}, MaxName + 1)
Escapes == SeqsUpTo({"a", ".", "%a", "%.", "%x", "1"}, 4)
Mailboxes == SeqsUpTo({"a", ".", "@", "\"", "\\", "u"}, 5)
               \cup {<<"u", "@">> \o d : d \in SeqsUpTo({"x", "n", "-"}, 5)
                       \cup {<<"a", ".">> \o t : t \in SeqsUpTo({"x", "n", "-"}, 5)}
                       \cup {<<"A">>, <<"[">>, <<"a", "A">>}}
               \cup {<<"a", " ", "@", "a">>, <<"\"", " ", "\"", "@", "a">>, <<"a", "@", "[">>}
Uris == {<<"a", ":", "/", "/">> \o r : r \in SeqsUpTo({"a", ":", "@", "/", "?", "#", "%a"}, 4) \cup SeqsUpTo({"a", "%", "%x", "1", ":", "["}, 3)}
          \cup SeqsUpTo({"a", ":", "/", "%"}, 4)
Bits(n) == [1 .. n -> {0, 1}]

(* --------------------------------- steps --------------------------------- *)

InitValue ==
  /\ kind \in Iterators \cup Readings
  /\ value \in Values(kind)
  /\ limits \in [elements : 0..MaxElements, depth : 0..MaxDepth]
  /\ capacity \in (IF kind \in {"policies", "eku"} THEN Capacities ELSE {0})
  /\ base = <<>> /\ got = <<>>

InitName ==
  /\ \/ kind = "DNS" /\ value \in Hosts /\ base \in Bases
     \/ kind = "HOST" /\ value \in Escapes /\ base \in {<<"a">>, <<".", "a">>, <<"a", ".", "a">>, <<"-">>}
     \/ kind \in {"MAIL", "UTF8"} /\ value \in Mailboxes /\ base \in {<<"a">>, <<".", "a">>, <<"a", "@">>}
     \/ kind = "URI" /\ value \in Uris /\ base \in {<<"a">>, <<".", "a">>}
     \/ /\ kind = "IP" /\ value \in Bits(OctetBits) \cup Bits(2 * OctetBits) \cup {<<>>}
        /\ base \in Bits(2 * OctetBits) \cup Bits(4 * OctetBits)
  /\ limits = [elements |-> 0, depth |-> 0] /\ capacity = 0 /\ got = FALSE

Init == (InitValue \/ InitName) /\ reader = Closed /\ seen = <<>> /\ result = "NEW"

\* TC_X509_extensions_init, _policies_init, _policy_mappings_init and
\* _policy_qualifiers_init.  The reader changes only on OK.
Open ==
  /\ result = "NEW" /\ kind \in Iterators
  /\ IF value.absent /\ kind \in {"extensions", "qualifiers"}
       THEN result' = "OK" /\ reader' = Absent
       ELSE /\ result' = ValueOpen(value, FALSE)
            /\ reader' = IF result' = "OK" THEN Contents ELSE reader
  /\ UNCHANGED <<kind, value, base, limits, capacity, seen, got>>

\* TC_X509_extension_next, _policy_next, _policy_mapping_next and
\* _policy_qualifier_next; a caller may call again after any result.
NextEntry ==
  /\ kind \in Iterators /\ reader # Closed
  /\ result' = NextResult
  /\ IF result' = "OK"
       THEN /\ reader' = Advanced(reader)
            /\ got' = Append(got, reader.rest[1])
            /\ seen' = IF kind = "policies" THEN Append(seen, reader.rest[1].kids[1]) ELSE seen
       ELSE UNCHANGED <<reader, got, seen>>
  /\ UNCHANGED <<kind, value, base, limits, capacity>>

\* The output is stored after the whole value was accepted.
Written(res) == IF res = "OK" THEN value.node.kids ELSE <<>>

\* The readers that take a whole value.
Read ==
  /\ result = "NEW" /\ kind \in Readings
  /\ result' = ReadResult
  /\ got' = Written(result')
  /\ UNCHANGED <<kind, value, base, limits, capacity, reader, seen>>

\* TC_X509_general_name_within on two names of one form.
Within ==
  CASE kind = "DNS" -> DomainWithin(value, base, TRUE, FALSE)
    [] kind = "HOST" -> DomainWithin(value, base, FALSE, TRUE)
    [] kind = "MAIL" -> MailWithin(value, base, FALSE)
    [] kind = "UTF8" -> MailWithin(value, base, TRUE)
    [] kind = "URI" -> UriWithin(value, base)
    [] kind = "IP" -> IpWithin(value, base)

Match ==
  /\ result = "NEW" /\ kind \notin Iterators \cup Readings
  /\ LET answer == Within IN result' = answer.status /\ got' = answer.matched
  /\ UNCHANGED <<kind, value, base, limits, capacity, reader, seen>>

Next == Open \/ NextEntry \/ Read \/ Match

Spec == Init /\ [][Next]_vars

(* ------------------------------- properties ------------------------------ *)

Oids == {Leaf("oid", f) : f \in {"a", "b", "any"}}
Policy == {Leaf("oid", f) : f \in {"a", "b"}}

\* The entries RFC 5280 gives the iterators, as sequences of fields.
EntryGrammar(fields) ==
  CASE kind = "extensions" -> \E o \in Oids : fields \in {<<o, Octets>>, <<o, True, Octets>>}
    [] kind = "mappings" -> \E o, p \in Policy : fields = <<o, p>>
    [] kind = "qualifiers" -> Len(fields) = 2 /\ fields[1] \in Oids /\ fields[2].form # "cut"
    [] kind = "policies" -> /\ Len(fields) \in 1..2 /\ fields[1] \in Oids
                            /\ Len(fields) = 2 => fields[2].tag = "seq" /\ fields[2].form # "cut" /\ fields[2].kids # <<>>

\* The elements a walk over the entries counts.
Walked(entries) == FoldLeft(LAMBDA n, e : n + 1 + Len(e.kids), 1, entries)

FirstOids(entries) == {e.kids[1] : e \in ToSet(entries)}

\* A value the iterator must read to its end within its limits.
Complete ==
  \/ value.absent /\ kind \in {"extensions", "qualifiers"}
  \/ LET entries == value.node.kids IN
       /\ ~value.absent /\ ~value.trailing /\ value.node.tag = "seq" /\ value.node.form # "cut" /\ entries # <<>>
       /\ \A k \in DOMAIN entries : entries[k].tag = "seq" /\ entries[k].form # "cut" /\ EntryGrammar(entries[k].kids)
       /\ Walked(entries) <= limits.elements /\ limits.depth >= 2
       /\ kind = "policies" => Len(entries) <= capacity /\ Cardinality(FirstOids(entries)) = Len(entries)

\* An iterator reaches its end on exactly the values of the grammar that fit
\* the limits and, for policies, name no policy twice; it then has given
\* every entry in order (x509_ext.c:146-337).
IteratorExact ==
  kind \in Iterators =>
    /\ result = "END" => Complete /\ (~value.absent => got = value.node.kids)
    /\ result \in {"INVALID", "LIMIT"} => ~Complete

\* The elements a reader has charged are those a walk of the accepted part
\* counts, and never exceed the limit (pki_internal.h:105-108).
BudgetExact ==
  kind \in Iterators /\ reader # Closed /\ ~value.absent =>
    reader.elements = Walked(got) /\ reader.elements <= limits.elements

\* The fields the other readers accept.
FieldGrammar(fields) ==
  LET count(tag) == {Leaf(tag, "ok")}
      form(tag, forms) == {Leaf(tag, f) : f \in forms}
      pairs(S, T) == {<<s, t>> : s \in S, t \in T}
      ones(S) == {<<s>> : s \in S}
  IN CASE kind = "aki" ->
            LET ids == form("80", {"ok", "bad", "big"})
                both == pairs(count("a1"), form("82", {"ok", "big"}))
            IN fields \in {<<>>} \cup ones(ids) \cup both \cup {<<i>> \o b : i \in ids, b \in both}
       [] kind = "name_constraints" -> fields \in ones(count("a0") \cup count("a1")) \cup pairs(count("a0"), count("a1"))
       [] kind = "policy_constraints" -> fields \in ones(count("80") \cup count("81")) \cup pairs(count("80"), count("81"))
       [] kind = "basic_constraints" -> fields \in {<<>>, <<True>>} \cup {<<True, Leaf("int", "ok")>>}
       [] kind = "eku" -> fields # <<>> /\ ToSet(fields) \subseteq Oids /\ Len(fields) <= capacity

Acceptable ==
  IF kind \in {"ski", "key_usage"}
    THEN /\ value.node \in (IF kind = "ski" THEN {Leaf("octets", f) : f \in {"ok", "bad"}} ELSE {Leaf("bits", "ok")})
         /\ ~value.trailing /\ limits.elements > 0
    ELSE /\ value.node.tag = "seq" /\ value.node.form # "cut" /\ ~value.trailing
         /\ FieldGrammar(value.node.kids)
         /\ 1 + Len(value.node.kids) <= limits.elements /\ limits.depth >= 1

\* A reader of a whole value accepts exactly the grammar within the limits,
\* and a refusal writes nothing (x509_ext.c:429).
ReadingExact ==
  kind \in Readings /\ result # "NEW" =>
    /\ (result = "OK") = Acceptable
    /\ got = IF Acceptable THEN value.node.kids ELSE <<>>

(* The grammars.                                                           *)
Folded(n) == [i \in DOMAIN n |-> IF n[i] \in {"A", "%a"} THEN "a" ELSE IF n[i] = "%." THEN "." ELSE n[i]]
Hostname(n) ==
  /\ n # <<>> /\ Len(n) <= MaxName
  /\ \A i \in DOMAIN n : n[i] \in HostCharacters \cup {"."}
  /\ \A i \in DOMAIN n : n[i] = "." => i > 1 /\ i < Len(n) /\ n[i - 1] # "."
  /\ \A i \in DOMAIN n : n[i] = "-" => i > 1 /\ i < Len(n) /\ n[i - 1] # "." /\ n[i + 1] # "."
  /\ \A i \in 1 .. Len(n) - MaxLabel : \E j \in i .. i + MaxLabel : n[j] = "."
Below(n, b) == \E k \in 0 .. Len(n) : SubSeq(n, k + 1, Len(n)) = <<".">> \o b
Root(b) == IF b # <<>> /\ b[1] = "." THEN Tail(b) ELSE b
Dotted(b) == b # <<>> /\ b[1] = "."
IsAddress(n) ==
  /\ \A i \in DOMAIN n : n[i] \in {"1", "."}
  /\ Cardinality({i \in DOMAIN n : n[i] = "."}) = AddressParts - 1
HostMatch(n, b) == IF Dotted(b) THEN Below(n, Root(b)) ELSE n = b

\* domain_within accepts exactly the host names, and a name matches the base
\* it equals or lies below, at a label boundary.
DomainExact ==
  (kind \in {"DNS", "HOST"} /\ result # "NEW") =>
    LET n == Folded(value)
        b == Folded(base)
        plain == kind = "DNS" => \A i \in DOMAIN value : value[i] \notin UriEscapes
    IN  /\ (result = "OK") <=> /\ plain /\ Hostname(n) /\ Hostname(Root(b))
                                       /\ ~(kind = "HOST" /\ IsAddress(n))
        /\ got => result = "OK"
        /\ result = "OK" =>
             (got <=> HostMatch(n, b) \/ (kind = "DNS" /\ ~Dotted(b) /\ Below(n, b)))

\* The @ a mailbox is divided at: no unquoted one comes before it, and a
\* quoted local part is closed by a quote that no backslash escapes.
Backslashes(n, i) == Cardinality({j \in 1 .. i - 1 : \A k \in j .. i - 1 : n[k] = "\\"})
Atoms(l, utf8) ==
  /\ l # <<>> /\ \A i \in DOMAIN l : l[i] \in MailAtoms \cup {"."} \cup (IF utf8 THEN {"u"} ELSE {})
  /\ \A i \in DOMAIN l : l[i] = "." => i > 1 /\ i < Len(l) /\ l[i - 1] # "."
Quoted(l, utf8) ==
  /\ Len(l) >= 2 /\ l[1] = "\"" /\ l[Len(l)] = "\"" /\ Backslashes(l, Len(l)) % 2 = 0
  /\ \A i \in 2 .. Len(l) - 1 : l[i] = "\"" => Backslashes(l, i) % 2 = 1
  /\ \A i \in 2 .. Len(l) - 1 : l[i] = "u" => utf8 /\ Backslashes(l, i) % 2 = 0
HostOf(n, utf8) ==
  {SubSeq(n, i + 1, Len(n)) : i \in {i \in DOMAIN n :
     LET l == SubSeq(n, 1, i - 1) IN
     n[i] = "@" /\ Len(l) <= MaxLocal /\ (Atoms(l, utf8) \/ Quoted(l, utf8))
       /\ (utf8 => \E j \in DOMAIN l : l[j] = "u")}}
Ascii(d) ==
  /\ \A i \in DOMAIN d : d[i] # "A"
  /\ \A i \in 0 .. Len(d) - 4 :
       ((i = 0 \/ d[i] = ".") /\ d[i + 3] = "-" /\ d[i + 4] = "-" /\ d[i + 1] # "." /\ d[i + 2] # ".")
         => d[i + 1] = "x" /\ d[i + 2] = "n"

\* A mailbox is accepted exactly when it has a local part and a host, and
\* only its host is compared with the base.
MailExact ==
  (kind \in {"MAIL", "UTF8"} /\ result # "NEW") =>
    LET utf8 == kind = "UTF8"
        good == {d \in HostOf(value, utf8) : Hostname(Folded(d)) /\ (utf8 => Ascii(d))}
        asked == \A i \in DOMAIN base : base[i] # "@"
    IN  /\ (result = "OK") <=> good # {} /\ asked
        /\ result = "OK" => (got <=> \E d \in good : HostMatch(Folded(d), base))

UriBody == UriCharacters \cup UriEscapes \cup {":", "@", "/"}
Over(n, S) == \A i \in DOMAIN n : n[i] \in S
Rest(n) ==
  \/ n = <<>>
  \/ /\ n[1] \in {"/", "?", "#"} /\ Over(n, UriBody \cup {"?", "#"})
     /\ Cardinality({i \in DOMAIN n : n[i] = "#"}) <= 1
\* The hosts of the ways to read a string as scheme://[user@]host[:port]rest.
UriHosts(n) ==
  {SubSeq(n, h[1], h[2]) : h \in {h \in (1 .. Len(n)) \X (1 .. Len(n)) : h[1] <= h[2] /\
     LET host == SubSeq(n, h[1], h[2])
         front == SubSeq(n, 1, h[1] - 1)
         back == SubSeq(n, h[2] + 1, Len(n))
     IN  /\ Over(host, UriCharacters \cup UriEscapes)
         /\ \E c \in 2 .. Len(front) : \E user \in {SubSeq(front, c + 3, Len(front))} :
              /\ front[1] = "a" /\ Over(SubSeq(front, 1, c - 1), {"a", "1", "-", "."})
              /\ Len(front) >= c + 2 /\ SubSeq(front, c, c + 2) = <<":", "/", "/">>
              /\ user = <<>> \/ (user[Len(user)] = "@"
                                   /\ Over(SubSeq(user, 1, Len(user) - 1), UriCharacters \cup UriEscapes \cup {":"}))
         /\ \E p \in 0 .. Len(back) :
              /\ p = 0 \/ (back[1] = ":" /\ Over(SubSeq(back, 2, p), {"1"}))
              /\ Rest(SubSeq(back, p + 1, Len(back)))}}

\* A URI is accepted exactly when it can be read as one with a DNS host, the
\* reading is unique, and the host is what is compared.
UriExact ==
  (kind = "URI" /\ result # "NEW") =>
    LET good == {h \in UriHosts(value) : Hostname(Folded(h)) /\ ~IsAddress(Folded(h))} IN
    /\ (result = "OK") <=> good # {}
    /\ Cardinality(good) <= 1
    /\ result = "OK" => (got <=> \E h \in good : HostMatch(Folded(h), base))

\* Addresses of one family match in the bits of a prefix.
IpExact ==
  (kind = "IP" /\ result # "NEW") =>
    LET w == Len(base) \div 2
        prefixes == {p \in 0 .. w : \A i \in 1 .. w : base[w + i] = IF i <= p THEN 1 ELSE 0}
    IN  /\ (result = "OK") <=> value # <<>> /\ prefixes # {}
        /\ result = "OK" =>
             (got <=> Len(value) = w /\ \E p \in prefixes : SubSeq(value, 1, p) = SubSeq(base, 1, p))
=============================================================================
