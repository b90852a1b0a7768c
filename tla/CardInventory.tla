--------------------------- MODULE CardInventory ----------------------------
(***************************************************************************)
(* The inventory of a card (piv_inventory.c): one GET DATA for every entry *)
(* of the catalog (piv_catalog.c) whose access rule the link meets, each   *)
(* answer received at the next free byte of one pool.  An abort must leave *)
(* nothing of the card behind, and a success nothing after its objects.    *)
(* Pool bytes are numbered from 1.                                         *)
(***************************************************************************)
EXTENDS Integers, Sequences

CONSTANTS
  Catalogs,     \* catalogs: sequences of entries
  Links,        \* link states: interface, PIN verified, VCI, secure messaging
  Pools,        \* pool capacities
  Caps,         \* TC_PIV_RESPONSE_BYTES of a plan's cap; 0 for a plan without one
  Rooms,        \* capacities of the objects array
  Largest,      \* the largest single answer, by whether the link is secured
  Budgets

VARIABLES
  call,      \* arguments of the read
  phase,     \* "idle", "reading", or how the last read ended
  used,      \* bytes kept by objects
  touched,   \* end of the last region offered
  work,
  dirty,     \* pool bytes that may hold data of the card
  objects,   \* inventory->objects, as far as written
  sent,      \* entries a command has been sent for
  inventory  \* count and pool_used of the last read

vars == <<call, phase, used, touched, work, dirty, objects, sent, inventory>>

Rules == {"ALWAYS", "PIN", "PIN_OR_OCC", "VCI", "VCI_PIN", "VCI_PIN_OR_OCC", "NEVER"}

Entry == [contact : Rules, contactless : Rules, pairing : BOOLEAN, optional : BOOLEAN]
Link == [contact : BOOLEAN, pin : BOOLEAN, vci : BOOLEAN, secured : BOOLEAN, ready : BOOLEAN]

\* What the constants are.
InventoryTypes ==
  /\ Catalogs \subseteq Seq(Entry) /\ Links \subseteq Link /\ Rooms \subseteq Nat
  /\ Pools \subseteq Nat /\ Caps \subseteq Nat /\ Budgets \subseteq Nat /\ Largest \in [BOOLEAN -> Nat]

Empty == [count |-> 0, used |-> 0]

Calls == [catalog : Catalogs, link : Links, pool : Pools, cap : Caps, pairing : BOOLEAN,
          room : Rooms, budget : Budgets, sound : BOOLEAN]

Init ==
  /\ call \in Calls /\ phase = "idle" /\ used = 0 /\ touched = 0 /\ work = call.budget
  /\ dirty = {} /\ objects = <<>> /\ sent = {} /\ inventory = Empty

\* TC_PIV_inventory_read up to the loop.  Arguments that arguments_valid turns
\* down, a link without an application, an application without a catalog and
\* an array without room change nothing.
Begin ==
  /\ phase = "idle"
  /\ phase' = IF ~call.sound THEN "ARGUMENT" ELSE IF ~call.link.ready THEN "REFUSED"
              ELSE IF call.catalog = <<>> THEN "UNSUPPORTED" ELSE IF call.room < Len(call.catalog) THEN "NO_ROOM"
              ELSE "reading"
  /\ UNCHANGED <<call, used, touched, work, dirty, objects, sent, inventory>>

Position == Len(objects) + 1
Current == call.catalog[Position]
Reading == phase = "reading" /\ Position <= Len(call.catalog)

\* access_met: on-card comparison is never available.
AccessMet(rule) ==
  /\ rule # "NEVER"
  /\ rule \in {"PIN", "PIN_OR_OCC", "VCI_PIN", "VCI_PIN_OR_OCC"} => call.link.pin
  /\ rule \in {"VCI", "VCI_PIN", "VCI_PIN_OR_OCC"} => call.link.vci

Rule(entry) == IF call.link.contact THEN entry.contact ELSE entry.contactless

\* object_cap, and the region offered to the next answer.
Cap == IF call.cap = 0 \/ call.cap >= call.pool THEN call.pool ELSE call.cap
Region == IF call.pool - used < Cap THEN call.pool - used ELSE Cap

\* region_fits.
RegionFits == Region >= Largest[call.link.secured]

\* What object_read settles before it sends anything.
Withheld ==
  IF Current.pairing /\ ~call.pairing THEN "SKIPPED"
  ELSE IF ~AccessMet(Rule(Current)) THEN "RESTRICTED"
  ELSE IF ~RegionFits THEN "OVERSIZED" ELSE "no"

\* Mutant: only the bytes that objects keep are wiped.
AbortUsed(result, reached, offered) ==
  /\ phase' = result /\ dirty' = (dirty \cup reached) \ (1 .. used)
  /\ objects' = <<>> /\ inventory' = Empty /\ touched' = offered

\* inventory_abort, with the bytes touched so far.
Abort(result, reached, offered) ==
  /\ phase' = result /\ dirty' = (dirty \cup reached) \ (1 .. offered)
  /\ objects' = <<>> /\ inventory' = Empty /\ touched' = offered

\* The entry is written, and keeps the region bytes up to its end.
Store(state, kept) ==
  /\ objects' = Append(objects, [state |-> state, start |-> used, end |-> used + kept])
  /\ used' = used + kept

\* The unit of an entry cannot be charged.
OutOfWork ==
  /\ Reading /\ work = 0 /\ Abort("LIMIT", {}, touched)
  /\ UNCHANGED <<call, used, work, sent>>

\* An entry for which nothing is sent.
Withhold ==
  /\ Reading /\ work > 0 /\ Withheld # "no"
  /\ work' = work - 1 /\ Store(Withheld, 0)
  /\ UNCHANGED <<call, phase, touched, dirty, sent, inventory>>

\* A GET DATA that goes out.  Its answer may leave card data anywhere in the
\* region; touched takes in the whole of it.
Offered == IF used + Region > touched THEN used + Region ELSE touched
Send == Reading /\ work > 0 /\ Withheld = "no" /\ sent' = sent \cup {Position} /\ UNCHANGED call

\* TC_PIV_OK: an object that ends at "end" of the region, with a value or
\* empty; only an optional one may have no bytes at all.  The bytes kept are
\* charged.
Receive ==
  /\ Send
  /\ \E end \in 0 .. Region, reached \in SUBSET (used + 1 .. used + Region), state \in {"PRESENT", "EMPTY"} :
       /\ state = "PRESENT" => end > 0
       /\ IF end = 0 /\ ~Current.optional
          THEN Abort("INVALID", reached, Offered) /\ work' = work - 1 /\ UNCHANGED used
          ELSE IF end > work - 1
          THEN Abort("LIMIT", reached, Offered) /\ work' = 0 /\ UNCHANGED used
          ELSE /\ work' = work - 1 - end /\ Store(state, end)
               /\ dirty' = dirty \cup reached /\ touched' = Offered
               /\ UNCHANGED <<phase, inventory>>

\* CARD_STATUS that refusal_state knows, or a LIMIT on a link that stays
\* usable: the inventory goes on.
Refusal ==
  /\ Send /\ work' = work - 1
  /\ \E reached \in SUBSET (used + 1 .. used + Region), state \in {"ABSENT", "DENIED", "OVERSIZED"} :
       Store(state, 0) /\ dirty' = dirty \cup reached /\ touched' = Offered
  /\ UNCHANGED <<phase, inventory>>

\* Any other status or result, a lost session or a spent exchange budget.
Fail ==
  /\ Send /\ work' = work - 1
  /\ \E reached \in SUBSET (used + 1 .. used + Region), result \in {"CARD_STATUS", "LIMIT", "INVALID", "ERROR"} :
       Abort(result, reached, Offered)
  /\ UNCHANGED used

\* The end of the loop: what answers left after the last object is wiped.
Finish ==
  /\ phase = "reading" /\ Position > Len(call.catalog)
  /\ phase' = "OK" /\ dirty' = dirty \ (used + 1 .. touched)
  /\ inventory' = [count |-> Len(call.catalog), used |-> used]
  /\ UNCHANGED <<call, used, touched, work, objects, sent>>

\* TC_PIV_inventory_clear, after any outcome.
Clear ==
  /\ phase \notin {"idle", "reading", "CLEARED"}
  /\ phase' = "CLEARED" /\ dirty' = dirty \ (1 .. inventory.used)
  /\ objects' = <<>> /\ inventory' = Empty
  /\ UNCHANGED <<call, used, touched, work, sent>>

Next == Begin \/ OutOfWork \/ Withhold \/ Receive \/ Refusal \/ Fail \/ Finish \/ Clear

Spec == Init /\ [][Next]_vars

\* The regions stay inside the pool, and what objects keep inside what was
\* touched, so that neither offset nor length of a wipe can wrap.
TypeOK ==
  /\ call \in Calls /\ phase \in {"idle", "reading", "ARGUMENT", "REFUSED", "UNSUPPORTED", "NO_ROOM", "OK",
                                  "LIMIT", "INVALID", "CARD_STATUS", "ERROR", "CLEARED"}
  /\ used \in Nat /\ touched \in Nat /\ work \in Nat
  /\ used <= touched /\ touched <= call.pool
  /\ Len(objects) <= Len(call.catalog) /\ sent \subseteq 1 .. Len(call.catalog)

\* Nothing that came from the card outlives an abort or a clear; a success
\* keeps the bytes of its objects and no others.
NothingLeft ==
  /\ phase \notin {"idle", "reading", "OK"} => dirty = {} /\ objects = <<>> /\ inventory = Empty
  /\ phase = "OK" => dirty \subseteq 1 .. inventory.used

\* A finished inventory has one entry per catalog entry, in the order of the
\* catalog: what was withheld has not been asked for, what was asked for was
\* allowed by the rule for this interface, and the objects' spans follow one
\* another without overlap inside pool_used.
EntriesExact ==
  phase = "OK" =>
    /\ Len(objects) = Len(call.catalog) /\ inventory = [count |-> Len(objects), used |-> used]
    /\ \A i \in 1 .. Len(objects) :
         /\ objects[i].state \in {"SKIPPED", "RESTRICTED"} => i \notin sent /\ objects[i].start = objects[i].end
         /\ i \in sent => /\ AccessMet(Rule(call.catalog[i]))
                          /\ call.catalog[i].pairing => call.pairing
         /\ objects[i].start <= objects[i].end /\ objects[i].end <= used
         /\ i > 1 => objects[i].start = objects[i - 1].end

\* The work of a finished inventory is one unit per entry and one per byte kept.
WorkExact == phase = "OK" => work = call.budget - Len(objects) - used
=============================================================================
