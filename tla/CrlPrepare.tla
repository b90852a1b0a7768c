----------------------------- MODULE CrlPrepare -----------------------------
(***************************************************************************)
(* The resumable preparation of a certificate revocation list that is too  *)
(* large for memory (x509_crl_prepare.c, x509_crl_source.c) over the       *)
(* windowed reader of source.c.  The signed part of the list is a row of   *)
(* cells: its header, the issuer, the header of the entry list, two cells  *)
(* for each entry (serial, certificate issuer) and the extensions.  The    *)
(* storage may fail, and may be rewritten between any two reads.           *)
(***************************************************************************)
EXTENDS Integers, Sequences, Functions

CONSTANTS
  Entries,         \* number of revoked entries
  Window,          \* window.capacity, in cells
  ReadBudgets,     \* max_reads a caller may set
  MaxReadCells, MaxEntries,
  MaxRewrites      \* bound on how often the storage is rewritten

VARIABLES
  signed,     \* the cells the issuer signed
  disk,       \* the cells in storage
  rewrites,
  reader,     \* window contents, their offset, and the read budgets
  job,        \* phase, cells of the current phase done, result
  copies,     \* metadata fields copied by begin
  hashed,     \* the cells the digest covers so far
  scan,       \* scratch of the current entry, inherited issuer, entries left
  match,      \* the match of the one target: entry number, or 0
  call,       \* budgets left in the current step call
  record      \* what finish handed out

vars == <<signed, disk, rewrites, reader, job, copies, hashed, scan, match, call, record>>

(* Cells. *)
Header == 1
Issuer == 2
ListHeader == 3
FirstEntry == 4
Extensions == FirstEntry + 2 * Entries
Cells == 1 .. Extensions
EntryCells == FirstEntry .. Extensions - 1

\* The certificate looked for: its serial number and its issuer.
Target == [serial |-> 1, issuer |-> 1]
CellValues(c) ==
  IF c \in {Header, ListHeader} THEN {0, 1}       \* as in the list, or malformed
  ELSE IF c = Issuer THEN {1, 2}
  ELSE IF c = Extensions THEN {0, 1}              \* usable, or an unknown critical one
  ELSE IF (c - FirstEntry) % 2 = 0 THEN {1, 2} ELSE {0, 1, 2}

Idle == [bytes |-> 0, entries |-> 0, active |-> FALSE]
\* max_bytes and max_entries of a step call.
StepBudgets == {[bytes |-> 1, entries |-> 3], [bytes |-> 3, entries |-> 1]}
NoRecord == [issuer |-> 0, policy |-> 0, match |-> 0, digest |-> <<>>]

LayoutCells == <<Header, ListHeader>>
CopyCells == <<Issuer, Extensions>>

\* The cell that comes next in the current phase.
Wanted ==
  IF job.phase = "LAYOUT" THEN LayoutCells[job.done + 1]
  ELSE IF job.phase = "COPY" THEN CopyCells[job.done + 1]
  ELSE Len(hashed) + Len(scan.scratch) + 1

Reading ==
  \/ job.phase \in {"LAYOUT", "COPY"}
  \/ job.phase \in {"ACTIVE", "TRAILER"} /\ call.active

InWindow(c) == c \in reader.offset .. reader.offset + Len(reader.window) - 1
At(c) == reader.window[c - reader.offset + 1]
Smaller(a, b) == IF a < b THEN a ELSE b

\* A failed call ends the job, its hash state is wiped.
Abandon(result) ==
  /\ job' = [job EXCEPT !.phase = "FAILED", !.result = result]
  /\ call' = Idle /\ hashed' = <<>>
  /\ UNCHANGED <<signed, disk, rewrites, reader, copies, scan, match, record>>

\* A physical read fills the window, or fails and leaves it empty.
Refilled(window, offset) ==
  {[reader EXCEPT !.window = w, !.offset = offset, !.reads = @ - 1, !.left = @ - Len(window)] :
     w \in {window, <<>>}}

\* The part of tc_source_reader_view behind the cache.
Refill ==
  LET cells == Smaller(Smaller(Extensions - Wanted + 1, reader.left), Window)
  IN  /\ Reading /\ Wanted <= Extensions /\ ~InWindow(Wanted)
      /\ reader.reads > 0 /\ reader.left > 0
      /\ \E r \in Refilled(SubSeq(disk, Wanted, Wanted + cells - 1), Wanted) :
           /\ reader' = r
           /\ IF r.window = <<>>
              THEN /\ job' = [job EXCEPT !.phase = "FAILED", !.result = "IO"]
                   /\ call' = Idle /\ hashed' = <<>>
              ELSE UNCHANGED <<job, call, hashed>>
      /\ UNCHANGED <<signed, disk, rewrites, copies, scan, match, record>>

ReadLimit ==
  /\ Reading /\ Wanted <= Extensions /\ ~InWindow(Wanted)
  /\ reader.reads = 0 \/ reader.left = 0
  /\ Abandon("LIMIT")

\* TC_X509_crl_prepare_begin starts with the layout of the list.
Begin(max_reads) ==
  /\ job.phase = "EMPTY"
  /\ job' = [phase |-> "LAYOUT", done |-> 0, result |-> "OK"]
  /\ reader' = [window |-> <<>>, offset |-> 1, reads |-> max_reads, left |-> MaxReadCells]
  /\ copies' = [c \in Cells |-> 0] /\ hashed' = <<>> /\ match' = 0 /\ call' = Idle
  /\ scan' = [scratch |-> <<>>, issuer |-> 0, left |-> MaxEntries]
  /\ UNCHANGED <<signed, disk, rewrites, record>>

\* tc_x509_crl_source_layout: an encoding with another header is refused.
ReadLayout ==
  /\ job.phase = "LAYOUT" /\ InWindow(Wanted)
  /\ IF At(Wanted) # 0 THEN Abandon("INVALID")
     ELSE /\ job' = IF job.done + 1 = Len(LayoutCells)
                    THEN [job EXCEPT !.phase = "COPY", !.done = 0]
                    ELSE [job EXCEPT !.done = @ + 1]
          /\ UNCHANGED <<signed, disk, rewrites, reader, copies, hashed, scan, match, call, record>>

\* tc_x509_crl_source_metadata, and behind the last field the start of the scan.
CopyMetadata ==
  /\ job.phase = "COPY" /\ InWindow(Wanted)
  /\ copies' = [copies EXCEPT ![Wanted] = At(Wanted)]
  /\ IF job.done + 1 = Len(CopyCells)
     THEN /\ job' = [job EXCEPT !.phase = "ACTIVE", !.done = 0]
          /\ scan' = [scan EXCEPT !.issuer = copies[Issuer]]
     ELSE job' = [job EXCEPT !.done = @ + 1] /\ UNCHANGED scan
  /\ UNCHANGED <<signed, disk, rewrites, reader, hashed, match, call, record>>

\* The entries of a list whose extensions are unusable are hashed, not scanned.
Usable == copies[Extensions] = 0
Scanned == IF Usable THEN EntryCells ELSE {}

\* tc_x509_crl_tbs_hash_init: every cell outside the scan must read as the copy
\* or rebuilt header that the parser saw.
AsExpected(c, value) == c \in EntryCells \/ value = copies[c]

\* One call of TC_X509_crl_prepare_step.  When the work does not cover the
\* checks of the caller's storage the call answers LIMIT and the job stays as
\* it was, to be stepped again.
StepCall(bytes, entries) ==
  /\ job.phase \in {"ACTIVE", "TRAILER"} /\ ~call.active
  /\ \E covered \in BOOLEAN :
       call' = IF covered THEN [bytes |-> bytes, entries |-> entries, active |-> TRUE] ELSE Idle
  /\ UNCHANGED <<signed, disk, rewrites, reader, job, copies, hashed, scan, match, record>>

Pause ==
  /\ call' = Idle
  /\ UNCHANGED <<signed, disk, rewrites, reader, job, copies, hashed, scan, match, record>>

\* tbs_hash_segments: the cells around the entries, each read once.
HashSegment ==
  /\ call.active /\ Wanted <= Extensions /\ Wanted \notin Scanned
  /\ Wanted = Extensions => job.phase = "TRAILER"
  /\ IF call.bytes = 0 THEN Pause
     ELSE /\ InWindow(Wanted)
          /\ IF ~AsExpected(Wanted, At(Wanted)) THEN Abandon("INVALID")
             ELSE /\ hashed' = Append(hashed, At(Wanted))
                  /\ call' = [call EXCEPT !.bytes = @ - 1]
                  /\ UNCHANGED <<signed, disk, rewrites, reader, job, copies, scan, match, record>>

\* tc_x509_crl_entry_resolve: an entry names its certificate issuer or
\* inherits that of the entry before it.
EntryIssuer(entry) == IF entry[2] = 0 THEN scan.issuer ELSE entry[2]

Matches(entry) == entry[1] = Target.serial /\ EntryIssuer(entry) = Target.issuer

\* Mutant: the scratch is not emptied between entries.
ResolvedKept(entry) == [scan EXCEPT !.scratch = entry, !.left = @ - 1, !.issuer = EntryIssuer(entry)]

Resolved(entry) ==
  [scan EXCEPT !.scratch = <<>>, !.left = @ - 1, !.issuer = EntryIssuer(entry)]

\* The digest covers the very bytes that are parsed.
HashEntry(entry) == hashed \o entry

\* One entry of scan_entries, cell by cell; a second match is INVALID.
ScanEntry ==
  LET entry == Append(scan.scratch, At(Wanted))
      number == (Wanted - FirstEntry) \div 2 + 1
  IN  /\ call.active /\ job.phase = "ACTIVE" /\ Wanted \in Scanned
      /\ IF call.entries = 0 THEN Pause
         ELSE IF scan.left = 0 THEN Abandon("LIMIT")
         ELSE /\ InWindow(Wanted)
              /\ IF Len(entry) < 2
                 THEN /\ scan' = [scan EXCEPT !.scratch = entry]
                      /\ UNCHANGED <<signed, disk, rewrites, reader, job, copies, hashed, match,
                                     call, record>>
                 ELSE IF Matches(entry) /\ match # 0 THEN Abandon("INVALID")
                 ELSE /\ hashed' = HashEntry(entry) /\ scan' = Resolved(entry)
                      /\ match' = IF Matches(entry) THEN number ELSE match
                      /\ call' = [call EXCEPT !.entries = @ - 1]
                      /\ UNCHANGED <<signed, disk, rewrites, reader, job, copies, record>>

\* scan_advance behind the last entry: the end costs one more turn of the loop.
EntriesEnd ==
  /\ call.active /\ job.phase = "ACTIVE" /\ Wanted = Extensions
  /\ IF call.entries = 0 THEN Pause
     ELSE /\ job' = [job EXCEPT !.phase = "TRAILER"]
          /\ UNCHANGED <<signed, disk, rewrites, reader, copies, hashed, scan, match, call, record>>

\* The digest is final once the trailer is hashed.
Complete ==
  /\ call.active /\ job.phase = "TRAILER" /\ Wanted > Extensions
  /\ job' = [job EXCEPT !.phase = "COMPLETE"] /\ call' = Idle
  /\ UNCHANGED <<signed, disk, rewrites, reader, copies, hashed, scan, match, record>>

\* Behind those checks the work may run out at any charge, and the scratch may
\* be too small for an entry that the window does not hold.
WorkLimit == call.active /\ Abandon("LIMIT")

\* Mutant: a failed job still hands out its record.
FinishFailed ==
  /\ job.phase \in {"COMPLETE", "FAILED"} /\ record = NoRecord
  /\ record' = [issuer |-> copies[Issuer], policy |-> copies[Extensions], match |-> match,
                digest |-> hashed]
  /\ UNCHANGED <<signed, disk, rewrites, reader, job, copies, hashed, scan, match, call>>

Finish ==
  /\ job.phase = "COMPLETE" /\ record = NoRecord
  /\ record' = [issuer |-> copies[Issuer], policy |-> copies[Extensions], match |-> match,
                digest |-> hashed]
  /\ UNCHANGED <<signed, disk, rewrites, reader, job, copies, hashed, scan, match, call>>

\* Storage is rewritten, or put back, while the job is under way.
Rewrite ==
  /\ rewrites < MaxRewrites /\ job.phase \notin {"COMPLETE", "FAILED"}
  /\ rewrites' = rewrites + 1
  /\ \/ disk' = signed
     \/ disk = signed /\ \E c \in Cells : \E v \in CellValues(c) : disk' = [disk EXCEPT ![c] = v]
  /\ disk' # disk
  /\ UNCHANGED <<signed, reader, job, copies, hashed, scan, match, call, record>>

Init ==
  /\ signed \in {s \in [Cells -> 0 .. 2] : \A c \in Cells : s[c] \in CellValues(c)}
  /\ signed[Header] = 0 /\ signed[ListHeader] = 0
  /\ signed[Extensions] = 1 => \A c \in EntryCells : signed[c] = 1
  /\ disk = signed /\ rewrites = 0
  /\ reader = [window |-> <<>>, offset |-> 1, reads |-> 0, left |-> 0]
  /\ job = [phase |-> "EMPTY", done |-> 0, result |-> "OK"]
  /\ copies = [c \in Cells |-> 0] /\ hashed = <<>> /\ match = 0 /\ call = Idle
  /\ scan = [scratch |-> <<>>, issuer |-> 0, left |-> 0] /\ record = NoRecord

Job ==
  \/ \E max_reads \in ReadBudgets : Begin(max_reads)
  \/ Refill \/ ReadLimit \/ ReadLayout \/ CopyMetadata
  \/ HashSegment \/ ScanEntry \/ EntriesEnd \/ Complete \/ WorkLimit \/ Finish
  \/ \E b \in StepBudgets : StepCall(b.bytes, b.entries)

Next == Job \/ Rewrite

Spec == Init /\ [][Next]_vars

(******************************* Properties *******************************)

\* Every variable keeps its shape, and the digest never covers more than the list.
TypeOK ==
  /\ reader.reads >= 0 /\ reader.left \in 0 .. MaxReadCells
  /\ Len(hashed) <= Extensions /\ Len(scan.scratch) < 2 /\ match \in 0 .. Entries

\* The match of the target in the signed list, by its definition: the one entry
\* with its serial number whose issuer is the last one named up to it.
IssuerOf(list, k) ==
  LET named == {j \in 1 .. k : list[FirstEntry + 2 * j - 1] # 0}
  IN  IF named = {} THEN list[Issuer]
      ELSE list[FirstEntry + 2 * (CHOOSE j \in named : \A i \in named : i <= j) - 1]

Revoking(list) ==
  {k \in 1 .. Entries : /\ list[FirstEntry + 2 * k - 2] = Target.serial
                        /\ IssuerOf(list, k) = Target.issuer}

\* When the digest of a finished record is that of the signed list, everything
\* else in the record was read from the signed list too, whatever happened to the
\* storage between the reads: the signature vouches for what was parsed.
RecordAuthentic ==
  record # NoRecord /\ record.digest = signed =>
    /\ record.issuer = signed[Issuer] /\ record.policy = signed[Extensions]
    /\ record.policy = 0 => Revoking(signed) = IF record.match = 0 THEN {} ELSE {record.match}

\* A record always carries the digest of a whole list.
DigestWhole == record # NoRecord => Len(record.digest) = Extensions

\* Once failed a job stays failed: no later step or finish revives it.
FailureKept == job.phase = "FAILED" => job' = job /\ record' = record
=============================================================================
