------------------------------ MODULE CancelList ------------------------------
(***************************************************************************)
(* The canceled card list (twic_ccl.c) as an application works with it     *)
(* (examples/twic_ccl_import.c and twic_ccl_storage.c): a download read in *)
(* chunks of any size, its checksum, the sorted keys staged from it, the   *)
(* index over those keys, and the bounded search that answers whether a    *)
(* card is canceled.  SnapshotStore models the slots that several callers  *)
(* share; here one caller imports a list and asks about a card.            *)
(*                                                                         *)
(* A character is a number.  A row is a key and a date, one character      *)
(* each, where the file has 50 digits, a comma and nine characters.        *)
(***************************************************************************)
EXTENDS Integers, Sequences, FiniteSets

CONSTANTS
  Keys,            \* the card identifiers, in their byte order
  DateChars,       \* what a row may end with
  Jobs,            \* what the caller asks for, and the list that is current
  Policies,        \* freshness policies with the caller's warning age
  ReadLimits,      \* max_reads of a search
  MaxStaged        \* bound on the number of keys staged

VARIABLES
  job,             \* the arguments of the caller
  phase,           \* between calls, or the loop of the call that runs
  reader,          \* TC_TWIC_CCL_stream, and the bytes that the checksum covers
  chunk,           \* what is left of the chunk of this call
  error,           \* the sticky error of the import
  source,          \* the keys given to index_prepare, and how many it has read
  store,           \* the slot of the import, the current list and its leases
  search,          \* the search that runs
  answer           \* what the last check wrote

vars == <<job, phase, reader, chunk, error, source, store, search, answer>>

Newline == 10
Return == 13

\* What a source answers when it fails, or with a key of another length.
Failing == -1
Malformed == -2
Entries == Keys \cup {Failing, Malformed}
Sources == UNION {[1 .. n -> Entries] : n \in 0 .. MaxStaged}

RecordBytes == 2
PendingBytes == RecordBytes + 1

Ascending(keys) == \A i, j \in 1 .. Len(keys) : i <= j => keys[i] <= keys[j]

Lists == [keys : Seq(Keys), published : Nat, received : Nat]

\* What callers pass; a list that is current already came from an earlier import.
CallTypes ==
  /\ Keys \subseteq Nat /\ DateChars \subseteq Nat
  /\ Newline \notin Keys \cup DateChars /\ Return \notin Keys \cup DateChars
  /\ \A j \in Jobs : /\ j.mode \in {"import", "csv", "image"}
                     /\ {j.bytes, j.records, j.published, j.received} \subseteq Nat
                     /\ j.current \in Lists /\ Ascending(j.current.keys)
  /\ Policies \subseteq [now : Nat, minimum : Nat, age : Nat, warn : Nat]
  /\ ReadLimits \subseteq Nat

NoList == [keys |-> <<>>, published |-> 0, received |-> 0]
NoSource == [keys |-> <<>>, at |-> 0]
NoSearch == [key |-> 0, begin |-> 0, end |-> 0, reads |-> 0, allowed |-> 0, keys |-> <<>>]
NoAnswer == [result |-> "NONE", key |-> 0, listed |-> FALSE, warning |-> FALSE, fresh |-> FALSE]

\* example_twic_ccl_import_init and TC_TWIC_CCL_stream_init.
Init ==
  /\ job \in Jobs /\ phase = "idle" /\ chunk = <<>> /\ error = "OK"
  /\ reader = [left |-> job.bytes, room |-> job.records, pending |-> <<>>, records |-> <<>>,
               taken |-> 0, digest |-> 0, finished |-> FALSE]
  /\ source = NoSource /\ search = NoSearch /\ answer = NoAnswer
  /\ store = [next |-> NoList, current |-> job.current, readers |-> 0]

\* fail: the error stays, and the checksum is cleared.
Fail(result) ==
  /\ error' = result /\ phase' = "idle" /\ chunk' = <<>> /\ source' = NoSource
  /\ reader' = [reader EXCEPT !.digest = 0]
  /\ UNCHANGED <<job, store, search, answer>>

(* ----------------------------- reading the file -------------------------- *)

\* TC_TWIC_CCL_read: the length, the digits and the date of a row.
Reads(line) == Len(line) = RecordBytes /\ line[1] \in Keys /\ line[2] \in DateChars

Trimmed(line) ==
  IF line # <<>> /\ line[Len(line)] = Return THEN SubSeq(line, 1, Len(line) - 1) ELSE line

\* The head of TC_TWIC_CCL_stream_update.  The lookup in a buffer gives it the
\* whole text, an import the bytes that came.
Update(n) ==
  /\ phase = "idle" /\ error = "OK" /\ job.mode \in {"import", "csv"}
  /\ n \in 0 .. Len(job.text) - reader.taken
  /\ job.mode = "csv" => n = Len(job.text) /\ ~reader.finished
  /\ \/ reader.finished /\ Fail("ARGUMENT")
     \/ ~reader.finished /\ n > reader.left /\ Fail("LIMIT")
     \/ /\ ~reader.finished /\ n <= reader.left
        /\ phase' = "rows" /\ chunk' = SubSeq(job.text, reader.taken + 1, reader.taken + n)
        /\ reader' = [reader EXCEPT !.left = @ - n, !.taken = @ + n]
        /\ UNCHANGED <<job, error, source, store, search, answer>>

Available == PendingBytes - Len(reader.pending)
Scan == IF Len(chunk) < Available + 1 THEN Len(chunk) ELSE Available + 1
Newlines == {i \in 1 .. Scan : chunk[i] = Newline}
Length == IF Newlines = {} THEN Scan ELSE (CHOOSE i \in Newlines : \A j \in Newlines : i <= j) - 1

\* Mutant: a row that came in two chunks is read from the second alone.
LineOfChunk == SubSeq(chunk, 1, Length)

\* The row: what an earlier chunk left of it, and its rest.
Line == reader.pending \o SubSeq(chunk, 1, Length)

TooLong == phase = "rows" /\ chunk # <<>> /\ Length > Available /\ Fail("INVALID")

KeepPartial ==
  /\ phase = "rows" /\ chunk # <<>> /\ Length <= Available /\ Newlines = {}
  /\ reader' = [reader EXCEPT !.pending = Line] /\ chunk' = <<>>
  /\ UNCHANGED <<job, phase, error, source, store, search, answer>>

\* Mutant: the pending bytes stay after their row.
EmitKeeping(line) ==
  /\ reader' = [reader EXCEPT !.room = @ - 1, !.records = Append(@, line[1])]
  /\ chunk' = SubSeq(chunk, Length + 2, Len(chunk))
  /\ UNCHANGED <<job, phase, error, source, store, search, answer>>

\* The record is visited, and the stream moves past its newline.
Emit(line) ==
  /\ reader' = [reader EXCEPT !.room = @ - 1, !.records = Append(@, line[1]), !.pending = <<>>]
  /\ chunk' = SubSeq(chunk, Length + 2, Len(chunk))
  /\ UNCHANGED <<job, phase, error, source, store, search, answer>>

\* emit_record; only the callback of an import can refuse a record.
EmitRecord(accepted) ==
  LET line == Trimmed(Line) IN
  /\ phase = "rows" /\ chunk # <<>> /\ Length <= Available /\ Newlines # {}
  /\ job.mode = "csv" => accepted
  /\ \/ reader.room = 0 /\ Fail("LIMIT")
     \/ reader.room > 0 /\ ~Reads(line) /\ Fail("INVALID")
     \/ reader.room > 0 /\ Reads(line) /\ ~accepted /\ Fail("SINK_ERROR")
     \/ reader.room > 0 /\ Reads(line) /\ accepted /\ Emit(line)

\* The checksum covers a chunk once every row in it was accepted.
EndUpdate ==
  /\ phase = "rows" /\ chunk = <<>>
  /\ phase' = IF job.mode = "csv" THEN "scanned" ELSE "idle"
  /\ reader' = [reader EXCEPT !.digest = IF job.mode = "csv" THEN 0 ELSE reader.taken]
  /\ UNCHANGED <<job, chunk, error, source, store, search, answer>>

\* Mutant: a file may end inside a row.
FinishesAnywhere == reader.records # <<>>

\* TC_TWIC_CCL_stream_finish: at least one record, and no partial one.
Finishes == reader.pending = <<>> /\ reader.records # <<>>

\* TC_TWIC_CCL_contains: lookup_record compares every record of the buffer.
Contains(key) ==
  /\ phase = "scanned"
  /\ \/ ~Finishes /\ Fail("INVALID")
     \/ /\ Finishes /\ reader' = [reader EXCEPT !.finished = TRUE]
        /\ answer' = [NoAnswer EXCEPT !.result = "OK", !.key = key,
                                      !.listed = \E i \in 1 .. Len(reader.records) : reader.records[i] = key]
        /\ phase' = "idle" /\ UNCHANGED <<job, chunk, error, source, store, search>>

(* ------------------------------- the index ------------------------------- *)

\* The head of TC_TWIC_CCL_index_prepare.
IndexPrepare(keys, most) ==
  \/ keys = <<>> /\ Fail("INVALID")
  \/ Len(keys) > most /\ Fail("LIMIT")
  \/ /\ keys # <<>> /\ Len(keys) <= most
     /\ source' = [keys |-> keys, at |-> 0] /\ phase' = "keys"
     /\ UNCHANGED <<job, reader, chunk, error, store, search, answer>>

\* Mutant: the keys are counted, not compared.
OutOfOrderNever(position) == FALSE

\* A key below the one before it; equal keys are accepted.
OutOfOrder(position) == position > 1 /\ source.keys[position - 1] > source.keys[position]

\* read_key and the comparison: one key of the loop of index_prepare.
PrepareKey ==
  LET position == source.at + 1 IN
  /\ phase = "keys" /\ source.at < Len(source.keys)
  /\ \/ source.keys[position] = Failing /\ Fail("SOURCE_ERROR")
     \/ source.keys[position] = Malformed /\ Fail("INVALID")
     \/ source.keys[position] \in Keys /\ OutOfOrder(position) /\ Fail("INVALID")
     \/ /\ source.keys[position] \in Keys /\ ~OutOfOrder(position)
        /\ source' = [source EXCEPT !.at = position]
        /\ UNCHANGED <<job, phase, reader, chunk, error, store, search, answer>>

Prepared == [keys |-> source.keys, published |-> job.published, received |-> job.received]

\* The index is written, and TC_TWIC_CCL_store_prepare puts it in the slot of
\* the caller: the dates in order, the slot free.
IndexReady ==
  /\ phase = "keys" /\ source.at = Len(source.keys)
  /\ \/ job.published > job.received /\ Fail("INVALID")
     \/ job.published <= job.received /\ job.busy /\ Fail("LIMIT")
     \/ /\ job.published <= job.received /\ ~job.busy
        /\ store' = [store EXCEPT !.next = Prepared] /\ phase' = "idle" /\ source' = NoSource
        /\ reader' = [reader EXCEPT !.finished = TRUE, !.digest = 0]
        /\ UNCHANGED <<job, chunk, error, search, answer>>

\* Mutant: the checksum is taken for granted.
ChecksumAssumed == TRUE

\* The digest of the bytes hashed is the one expected; digests of different
\* files differ.
Checksum == SubSeq(job.text, 1, reader.digest) = job.expected

\* example_twic_ccl_import_finish with the keys that the application staged.
Finish(staged) ==
  /\ phase = "idle" /\ error = "OK" /\ job.mode = "import"
  /\ \/ reader.finished /\ Fail("ARGUMENT")
     \/ ~reader.finished /\ ~Finishes /\ Fail("INVALID")
     \/ ~reader.finished /\ Finishes /\ ~Checksum /\ Fail("CHECKSUM_MISMATCH")
     \/ /\ ~reader.finished /\ Finishes /\ Checksum
        /\ Len(staged) # Len(reader.records) /\ Fail("INVALID")
     \/ /\ ~reader.finished /\ Finishes /\ Checksum
        /\ Len(staged) = Len(reader.records) /\ IndexPrepare(staged, Len(reader.records))

\* TC_TWIC_CCL_index_from_memory and example_twic_ccl_open: a stored image is
\* whole keys.
OpenImage(keys) ==
  /\ phase = "idle" /\ error = "OK" /\ job.mode = "image" /\ ~reader.finished
  /\ \/ job.torn /\ Fail("INVALID")
     \/ ~job.torn /\ IndexPrepare(keys, job.records)

\* The application publishes the slot, when its list is not older than the
\* current one.
Publish ==
  /\ phase = "idle" /\ store.next # NoList
  /\ store.current # NoList => store.next.published >= store.current.published
  /\ store' = [store EXCEPT !.current = store.next, !.next = NoList]
  /\ UNCHANGED <<job, phase, reader, chunk, error, source, search, answer>>

(* ------------------------------ the question ----------------------------- *)

\* Mutant: the age is counted from the download.
FreshnessOfDownload(list, policy) ==
  IF list.published > list.received \/ list.received > policy.now THEN "INVALID"
  ELSE IF list.published < policy.minimum \/ policy.now - list.received > policy.age THEN "STALE"
  ELSE "OK"

\* TC_TWIC_CCL_check_freshness.
CheckFreshness(list, policy) ==
  IF list.published > list.received \/ list.received > policy.now THEN "INVALID"
  ELSE IF list.published < policy.minimum \/ policy.now - list.published > policy.age THEN "STALE"
  ELSE "OK"

Refuse(result) ==
  /\ answer' = [NoAnswer EXCEPT !.result = result]
  /\ UNCHANGED <<job, phase, reader, chunk, error, source, store, search>>

\* example_check_twic_cancellation up to the search: the lease, the freshness
\* and the warning.  A list that is not fresh gives its lease back at once.
Check(key, policy, reads) ==
  LET list == store.current IN
  /\ phase = "idle" /\ answer = NoAnswer /\ job.mode # "csv"
  /\ \/ list = NoList /\ Refuse("UNAVAILABLE")
     \/ list # NoList /\ CheckFreshness(list, policy) # "OK" /\ Refuse(CheckFreshness(list, policy))
     \/ /\ list # NoList /\ CheckFreshness(list, policy) = "OK"
        /\ store' = [store EXCEPT !.readers = @ + 1] /\ phase' = "search"
        /\ search' = [key |-> key, begin |-> 0, end |-> Len(list.keys), reads |-> reads,
                      allowed |-> reads, keys |-> list.keys]
        /\ answer' = [NoAnswer EXCEPT !.key = key, !.warning = policy.now - list.published > policy.warn,
                                      !.fresh = /\ list.published >= policy.minimum
                                                /\ policy.now \in list.received .. list.published + policy.age]
        /\ UNCHANGED <<job, reader, chunk, error, source>>

\* The lease is released on every path; the answer is written on success.
Release(result, listed) ==
  /\ store' = [store EXCEPT !.readers = @ - 1] /\ phase' = "idle"
  /\ answer' = IF result = "OK" THEN [answer EXCEPT !.result = result, !.listed = listed]
               ELSE [NoAnswer EXCEPT !.result = result]
  /\ UNCHANGED <<job, reader, chunk, error, source, search>>

Middle == search.begin + (search.end - search.begin) \div 2

\* Mutant: the end of the range is taken to be inclusive.
NarrowedInclusive(key) ==
  IF search.key < key THEN [search EXCEPT !.end = Middle - 1, !.reads = @ - 1]
  ELSE [search EXCEPT !.begin = Middle + 1, !.reads = @ - 1]

\* The half of the range that the key read leaves.
Narrowed(key) ==
  IF search.key < key THEN [search EXCEPT !.end = Middle, !.reads = @ - 1]
  ELSE [search EXCEPT !.begin = Middle + 1, !.reads = @ - 1]

\* One read of TC_TWIC_CCL_index_contains.
Probe(fails) ==
  LET key == search.keys[Middle + 1] IN
  /\ phase = "search" /\ search.begin < search.end
  /\ \/ search.reads = 0 /\ Release("LIMIT", FALSE)
     \/ search.reads > 0 /\ fails /\ Release("SOURCE_ERROR", FALSE)
     \/ search.reads > 0 /\ ~fails /\ search.key = key /\ Release("OK", TRUE)
     \/ /\ search.reads > 0 /\ ~fails /\ search.key # key
        /\ search' = Narrowed(key)
        /\ UNCHANGED <<job, phase, reader, chunk, error, source, store, answer>>

NotListed == phase = "search" /\ search.begin >= search.end /\ Release("OK", FALSE)

\* example_twic_ccl_import_clear.
Clear ==
  /\ phase = "idle" /\ job.mode = "import" /\ error' = "ARGUMENT"
  /\ reader' = [left |-> 0, room |-> 0, pending |-> <<>>, records |-> <<>>, taken |-> reader.taken,
                digest |-> 0, finished |-> FALSE]
  /\ UNCHANGED <<job, phase, chunk, source, store, search, answer>>

Next ==
  \/ \E n \in 0 .. Len(job.text) : Update(n)
  \/ TooLong \/ KeepPartial \/ \E accepted \in BOOLEAN : EmitRecord(accepted)
  \/ EndUpdate \/ \E key \in Keys : Contains(key)
  \/ \E keys \in Sources : Finish(keys) \/ OpenImage(keys)
  \/ PrepareKey \/ IndexReady \/ Publish
  \/ \E key \in Keys, policy \in Policies, reads \in ReadLimits : Check(key, policy, reads)
  \/ \E fails \in BOOLEAN : Probe(fails)
  \/ NotListed \/ Clear

Spec == Init /\ [][Next]_vars

(******************************* Properties *******************************)

\* The file by its newlines: the row that each ends, and what follows the last.
Ends(text) == {i \in 1 .. Len(text) : text[i] = Newline}
Start(text, i) == LET before == {j \in Ends(text) : j < i} IN
                  IF before = {} THEN 0 ELSE CHOOSE j \in before : \A k \in before : k <= j
RowEnding(text, i) == Trimmed(SubSeq(text, Start(text, i) + 1, i - 1))
Rest(text) == SubSeq(text, Start(text, Len(text) + 1) + 1, Len(text))
WellFormed(text) == Ends(text) # {} /\ Rest(text) = <<>> /\ \A i \in Ends(text) : Reads(RowEnding(text, i))
Taken == SubSeq(job.text, 1, reader.taken)

\* However the file is cut into chunks, the stream that has not failed holds
\* the rows of what it was given, in their order, and the unfinished row
\* (stream_update); and a buffer is refused only for a bad row or for too many
\* (TC_TWIC_CCL_contains).
StreamExact ==
  /\ error = "OK" /\ phase \in {"idle", "scanned"} =>
       /\ reader.pending = Rest(Taken) /\ Len(reader.pending) <= PendingBytes
       /\ Len(reader.records) = Cardinality(Ends(Taken))
       /\ Len(reader.records) + reader.room = job.records /\ reader.left + reader.taken = job.bytes
       /\ \A i \in Ends(Taken) :
            /\ Reads(RowEnding(Taken, i))
            /\ reader.records[Cardinality({j \in Ends(Taken) : j <= i})] = RowEnding(Taken, i)[1]
  /\ job.mode = "csv" /\ error # "OK" =>
       ~WellFormed(job.text) \/ Cardinality(Ends(job.text)) > job.records

\* A list that an import put in its slot, and that may be published, is the
\* whole file of the expected checksum, well formed, with a key for every row;
\* every other list is the one that was current before
\* (example_twic_ccl_import_finish).
ListsImported ==
  \A list \in {store.next, store.current} \ {NoList, job.current} :
    job.mode = "import" => /\ Taken = job.expected /\ WellFormed(job.expected)
                           /\ Len(list.keys) = Cardinality(Ends(job.expected))

\* Every list in the store is one that a search can work on: its keys ascend
\* (index_prepare), and it was not received before it was published.
ListsAscending ==
  \A list \in {store.next, store.current} \ {NoList, job.current} :
    list \in Lists /\ Ascending(list.keys) /\ list.published <= list.received

\* An answer is right: a card is reported listed exactly when the leased list
\* has its key, and the list was fresh (index_contains, check_freshness).
AnswersExact ==
  answer.result = "OK" /\ job.mode # "csv" =>
    /\ answer.listed <=> \E i \in 1 .. Len(search.keys) : search.keys[i] = answer.key
    /\ answer.fresh

\* The lookup in a buffer finds the keys of its rows, and a search gives up
\* only on a limit below the logarithm of the list.
LookupExact ==
  /\ answer.result = "OK" /\ job.mode = "csv" =>
       (answer.listed <=> \E i \in Ends(job.text) : RowEnding(job.text, i)[1] = answer.key)
  /\ answer.result = "LIMIT" => 2 ^ search.allowed <= Len(search.keys)

\* The lease of a check ends with it, on every path.
LeaseReturned == store.readers = IF phase = "search" THEN 1 ELSE 0
=============================================================================
