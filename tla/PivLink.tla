------------------------------ MODULE PivLink -------------------------------
(***************************************************************************)
(* A card session over one APDU channel: SELECT, GET DATA, VERIFY, key     *)
(* establishment, secure messaging, the virtual contact interface (VCI)    *)
(* and key proofs, with the flags the link keeps about the card.  The      *)
(* channel under it is what ApduExchange promises.  A call that is         *)
(* rejected or refused before it sends changes nothing and is no step.     *)
(***************************************************************************)
EXTENDS Integers, FiniteSets, TLC, TLAPS

CONSTANTS
  PinReferences,     \* the PIV PIN and the Global PIN
  MaxTries,          \* the card's retry counter after a success
  MinimumRetries,    \* the values callers pass as minimum_retries
  CardSuite,         \* the suite the PIV application announces, or "none"
  MaxSessions        \* bound on key requests in one behaviour

Suites == {"CS2", "CS7"}

ASSUME Constants ==
  /\ MaxTries \in 1 .. 15 /\ "pairing" \notin PinReferences
  /\ MinimumRetries \subseteq 2 .. 15
  /\ CardSuite \in Suites \cup {"none"}
  /\ MaxSessions \in Nat

VARIABLES
  link,        \* TC_PIV_link and the TC_PIV_SM bound to it
  pending,     \* the PIN that TC_PIV_pin_verify goes on to submit
  discovery,   \* the caller's copy of the Discovery Object
  card,        \* the card, external
  sessions,    \* key requests so far
  wire,        \* the last command that reached the card
  demanded     \* the caller asked for protection and has not withdrawn it

vars == <<link, pending, discovery, card, sessions, wire, demanded>>

Channel == INSTANCE ApduExchange WITH
             Budgets <- {}, left <- 0, stopped <- link.stopped, reply <- 0

Applications == {"PIV", "TWIC"}
Interfaces == {"contact", "contactless"}
Policies == {"none", "pairing", "waived"}
Keys == {"9A", "9C", "9E"}
None == "none"

Sw(class, x) == [class |-> class, x |-> x]
Success == Sw("9000", 0)
NoSw == Sw("none", 0)

\* Members of a cleared link.  sid numbers the keys of the session.
NoLink ==
  [ready |-> FALSE, stopped |-> FALSE, interface |-> "contact", app |-> "NONE", suite |-> None,
   secured |-> FALSE, lost |-> FALSE, vci |-> FALSE, pin |-> FALSE,
   bound |-> FALSE, session |-> "IDLE", sid |-> 0]

NoDiscovery == [held |-> FALSE, secured |-> FALSE, profile |-> "PIV", policy |-> "none"]
NoPin == [reference |-> None, body |-> None]
Quiet == [ins |-> None, clear |-> FALSE, body |-> None, demanded |-> FALSE]

(***************************** The card (external) ************************)

\* The PIN, pairing and session status belong to the selected application.
CardSelect(c, application) ==
  IF application = c.app THEN c
  ELSE [c EXCEPT !.app = application, !.sid = 0, !.paired = FALSE, !.verified = {}]

\* VERIFY of a PIN reference, without data, with the PIN, or with another one.
CardVerifyPin(c, r, body) ==
  IF body = "query"
  THEN {[card |-> c, sw |-> IF r \in c.verified THEN Success
                            ELSE IF c.tries[r] = 0 THEN Sw("6983", 0) ELSE Sw("63CX", c.tries[r])],
        [card |-> c, sw |-> IF r \in c.verified THEN Success ELSE Sw("6300", 0)]}
  ELSE IF c.tries[r] = 0 THEN {[card |-> c, sw |-> Sw("6983", 0)]}
  ELSE IF body = "right"
  THEN {[card |-> [c EXCEPT !.verified = @ \cup {r}, !.tries[r] = MaxTries], sw |-> Success]}
  ELSE {[card |-> [c EXCEPT !.verified = @ \ {r}, !.tries[r] = @ - 1],
         sw |-> Sw("63CX", c.tries[r] - 1)]}

\* VERIFY of the pairing code, which has no retry counter.
CardVerifyPairing(c, body) ==
  LET paired == IF body = "query" THEN c.paired ELSE body = "right"
  IN  {[card |-> [c EXCEPT !.paired = paired], sw |-> IF paired THEN Success ELSE Sw("6300", 0)]}

\* What the card may do with a command: carry it out, or refuse it unchanged.
\* GET DATA and the use of a key leave the card as it is.
CardAnswers(c, m) ==
  {[card |-> c, sw |-> Sw("refused", 0)]} \cup
  IF m.ins = "SELECT" THEN {[card |-> CardSelect(c, m.arg), sw |-> Success]}
  ELSE IF m.ins = "VERIFY"
  THEN IF c.app # "PIV" THEN {}
       ELSE IF m.arg = "pairing" THEN CardVerifyPairing(c, m.body) ELSE CardVerifyPin(c, m.arg, m.body)
  ELSE IF m.arg = "establish"
  THEN {[card |-> [c EXCEPT !.sid = sessions + 1, !.paired = FALSE], sw |-> Success]}
  ELSE {[card |-> c, sw |-> Success]}

\* Under secure messaging the answer has an outer status of its own.  A card
\* without the session, or unhappy with the message, ends what session it has.
CardAnswersProtected(c, m, sid) ==
  {[card |-> [c EXCEPT !.sid = 0, !.paired = FALSE], outer |-> "6988", sw |-> NoSw]} \cup
  {[card |-> a.card, outer |-> "9000", sw |-> a.sw] :
     a \in IF c.sid = sid THEN CardAnswers(c, m) ELSE {}}

(******************************** The link ********************************)

\* tc_piv_link_unbind with the sm_unbind it calls: the session is cleared.
Unbind(l) ==
  IF l.bound
  THEN [l EXCEPT !.bound = FALSE, !.secured = FALSE, !.session = "IDLE", !.sid = 0]
  ELSE [l EXCEPT !.secured = FALSE]

\* Mutant: the loss is not remembered.
SessionLostQuietly(l) == [Unbind(l) EXCEPT !.vci = FALSE, !.pin = FALSE]

\* tc_piv_link_session_lost.
SessionLost(l) == [Unbind(l) EXCEPT !.lost = TRUE, !.vci = FALSE, !.pin = FALSE]

Message(ins, arg, body) == [ins |-> ins, arg |-> arg, body |-> body]

SmEligible(ins) == ins \in {"GET DATA", "VERIFY", "GENERAL AUTHENTICATE"}

\* VERIFY has no Le, and a protected command is not repeated either.  Only
\* GENERAL AUTHENTICATE can be long enough for a chain.
KindsOf(m, protect) ==
  {IF protect \/ m.ins = "VERIFY" THEN "once" ELSE "repeatable"} \cup
  IF m.ins = "GENERAL AUTHENTICATE" THEN {"chained"} ELSE {}

\* One TC_APDU_transceive: which answer of the card, if any, was provoked and
\* which result came back.  A card that is gone, or a stopped channel, is an
\* ERROR.  A refused chain is an answer although the command never arrived.
Exchanges(results, answers, sent) == [result : results, answer : answers, sent : {sent}]

Promised(x, m, protect) ==
  \E kind \in KindsOf(m, protect) : Channel!Outcome(kind, x.result, IF x.sent THEN 1 ELSE 0)

ChannelTransceive(l, m, protect, answers, untouched) ==
  LET results == {"OK", "LIMIT", "INVALID", "ERROR"}
  IN  IF l.stopped \/ ~card.present THEN Exchanges({"ERROR"}, {untouched}, FALSE)
      ELSE {x \in Exchanges(results, answers, TRUE) \cup Exchanges(results, {untouched}, FALSE) :
              Promised(x, m, protect)}

\* What a call leaves behind: its result, the status, the link, the card and
\* whether the card received the command, in the clear or protected.
Outcome(result, sw, l, c, sent, clear) ==
  [result |-> result, sw |-> sw, link |-> l, card |-> c, sent |-> sent, clear |-> clear]

Stopped(l, result) == IF result = "ERROR" THEN [l EXCEPT !.stopped = TRUE] ELSE l

\* sm_transceive: a command that does not fit keeps the session.  After that
\* everything but an authentic answer under an outer 9000 ends it.
SmTransceive(l, m) ==
  LET untouched == [card |-> card, outer |-> "6883", sw |-> NoSw]
  IN  {Outcome("LIMIT", NoSw, l, card, FALSE, FALSE),
       Outcome("ERROR", NoSw, SessionLost(l), card, FALSE, FALSE)} \cup
      UNION {LET next == Stopped(l, x.result)
                 after(result, sw, k) == Outcome(result, sw, k, x.answer.card, x.sent, FALSE)
             IN  IF x.result # "OK" THEN {after(x.result, NoSw, SessionLost(next))}
                 ELSE IF x.answer.outer # "9000"
                 THEN {after("CARD_STATUS", NoSw, SessionLost(next))}
                 ELSE {after("OK", x.answer.sw, next), after("INVALID", NoSw, SessionLost(next))} :
               x \in ChannelTransceive(l, m, TRUE, CardAnswersProtected(card, m, l.sid), untouched)}

\* The plain path of tc_piv_link_transceive.
PlainTransceive(l, m) ==
  LET untouched == [card |-> card, sw |-> Sw("refused", 0)]
  IN  {LET next == Stopped(l, x.result)
       IN  Outcome(x.result, IF x.result = "OK" THEN x.answer.sw ELSE NoSw,
                   IF x.result = "ERROR" /\ l.bound THEN SessionLost(next) ELSE next,
                   x.answer.card, x.sent, TRUE) :
         x \in ChannelTransceive(l, m, FALSE, CardAnswers(card, m), untouched)}

LinkTransceive(l, m) ==
  LET protect == SmEligible(m.ins) /\ (l.secured \/ l.lost)
  IN  IF protect /\ (~l.secured \/ ~l.bound)
      THEN {Outcome("REFUSED", NoSw, l, card, FALSE, FALSE)}
      ELSE IF protect THEN SmTransceive(l, m) ELSE PlainTransceive(l, m)

\* The card and the wire after an exchange.
Received(o, m) ==
  /\ card' = o.card
  /\ wire' = IF o.sent THEN [ins |-> m.ins, clear |-> o.clear, demanded |-> demanded,
                             body |-> IF m.ins = "GENERAL AUTHENTICATE" THEN m.arg ELSE m.body]
             ELSE wire

(******************************** The calls *******************************)

Idle == link.ready /\ pending = NoPin

LinkInit(interface) ==
  /\ ~link.ready
  /\ link' = [NoLink EXCEPT !.ready = TRUE, !.interface = interface]
  /\ card' = [card EXCEPT !.present = TRUE]
  /\ wire' = Quiet
  /\ UNCHANGED <<pending, discovery, sessions, demanded>>

LinkClear ==
  /\ Idle
  /\ link' = [NoLink EXCEPT !.session = Unbind(link).session, !.sid = Unbind(link).sid]
  /\ discovery' = NoDiscovery
  /\ demanded' = FALSE
  /\ UNCHANGED <<pending, card, sessions, wire>>

\* selection_reset: nothing known of the old application is kept.
SelectionReset(l) ==
  [Unbind(l) EXCEPT !.app = "NONE", !.suite = None, !.vci = FALSE, !.pin = FALSE]

SelectionApply(l, application) ==
  [l EXCEPT !.app = application, !.suite = IF application = "PIV" THEN CardSuite ELSE None]

\* The card has left the current application, or may have.
Moved(l, application, o) ==
  l.app # application /\ (o.result # "OK" \/ o.sw = Success)

\* TC_PIV_select.  read says whether the template could be read and applied.
Select(application) ==
  LET m == Message("SELECT", application, None)
  IN  /\ Idle
      /\ \E o \in LinkTransceive(link, m), read \in BOOLEAN :
           LET moved == Moved(link, application, o)
               l == IF moved THEN SelectionReset(o.link) ELSE o.link
           IN  /\ link' = IF o.result = "OK" /\ o.sw = Success /\ read
                          THEN SelectionApply(l, application) ELSE l
               /\ demanded' = (demanded /\ ~moved)
               /\ Received(o, m)
      /\ UNCHANGED <<pending, discovery, sessions>>

\* TC_PIV_SM_key_request.  It fails when the random source fails, when the
\* exchange does, and when the answer cannot be read.
KeyRequest(suite) ==
  LET m == Message("GENERAL AUTHENTICATE", "establish", None)
      l == [Unbind(link) EXCEPT !.vci = FALSE, !.pin = FALSE]
  IN  /\ Idle /\ link.suite \in {None, suite} /\ link.app = "PIV"
      /\ ~link.secured /\ ~link.lost
      /\ sessions < MaxSessions
      /\ \/ /\ link' = [l EXCEPT !.session = "IDLE", !.sid = 0]
            /\ UNCHANGED <<card, wire>>
         \/ \E o \in LinkTransceive(l, m), read \in BOOLEAN :
              /\ link' = IF o.result = "OK" /\ o.sw = Success /\ read
                         THEN [o.link EXCEPT !.bound = TRUE, !.session = "ESTABLISHING",
                                             !.sid = sessions + 1]
                         ELSE [o.link EXCEPT !.session = "IDLE", !.sid = 0]
              /\ Received(o, m)
      /\ sessions' = sessions + 1
      /\ UNCHANGED <<pending, discovery, demanded>>

\* TC_PIV_SM_authenticate_response by the caller: READY, or cleared.
Authenticate(valid) ==
  /\ Idle /\ link.session = "ESTABLISHING"
  /\ link' = IF valid THEN [link EXCEPT !.session = "READY"]
             ELSE [link EXCEPT !.session = "IDLE", !.sid = 0]
  /\ UNCHANGED <<pending, discovery, card, sessions, wire, demanded>>

\* The condition of TC_PIV_link_secure.
Securable(l) == l.bound /\ ~l.secured /\ l.session = "READY"

LinkSecure ==
  /\ Idle /\ Securable(link)
  /\ link' = [link EXCEPT !.secured = TRUE]
  /\ demanded' = TRUE
  /\ UNCHANGED <<pending, discovery, card, sessions, wire>>

LinkUnsecure ==
  /\ Idle
  /\ link' = [Unbind(link) EXCEPT !.lost = FALSE, !.vci = FALSE]
  /\ demanded' = FALSE
  /\ UNCHANGED <<pending, discovery, card, sessions, wire>>

GetData ==
  LET m == Message("GET DATA", "object", None)
  IN  /\ Idle /\ link.app # "NONE"
      /\ \E o \in LinkTransceive(link, m) : link' = o.link /\ Received(o, m)
      /\ UNCHANGED <<pending, discovery, sessions, demanded>>

\* TC_PIV_discovery_get.  The object has no signature: read in the clear it
\* may say anything.
DiscoveryGet(profile) ==
  LET m == Message("GET DATA", "discovery", None)
  IN  /\ Idle /\ link.app # "NONE"
      /\ \E o \in LinkTransceive(link, m), read \in BOOLEAN, policy \in Policies :
           /\ o.clear \/ policy = card.policy
           /\ link' = o.link
           /\ discovery' = IF o.result = "OK" /\ o.sw = Success /\ read
                           THEN [held |-> TRUE, secured |-> link.secured, profile |-> profile,
                                 policy |-> policy]
                           ELSE discovery
           /\ Received(o, m)
      /\ UNCHANGED <<pending, sessions, demanded>>

\* Mutant: the interface is not looked at.
VerifyAllowedAnywhere(l, reference) == l.app = "PIV"

\* verify_allowed: contactless needs protection, and the VCI for a PIN.
VerifyAllowed(l, reference) ==
  /\ l.app = "PIV"
  /\ l.interface = "contactless" => l.secured /\ (reference \in PinReferences => l.vci)

PinStatusRecord(l, reference, sw) ==
  IF reference \in PinReferences THEN [l EXCEPT !.pin = (sw = Success)] ELSE l

\* verify_send with outcome o, and what the caller records of the answer.  An
\* answer with data is INVALID and records nothing, like one that the channel
\* rejects.
VerifySend(o, m) ==
  /\ link' = IF o.result = "OK" THEN PinStatusRecord(o.link, m.arg, o.sw) ELSE o.link
  /\ Received(o, m)

VerifyStatus(reference) ==
  LET m == Message("VERIFY", reference, "query")
  IN  /\ Idle /\ VerifyAllowed(link, reference)
      /\ \E o \in LinkTransceive(link, m) : VerifySend(o, m)
      /\ UNCHANGED <<pending, discovery, sessions, demanded>>

\* Mutant: the floor is off by one.
FloorKeptBelow(sw, minimum) == sw.class = "63CX" /\ sw.x + 1 >= minimum

\* The query reported enough tries for one submission to leave the floor.
FloorKept(sw, minimum) == sw.class = "63CX" /\ sw.x >= minimum

\* TC_PIV_pin_verify: the query, and one submission when the floor allows it.
PinVerify(reference, body, minimum) ==
  LET m == Message("VERIFY", reference, "query")
  IN  /\ Idle /\ VerifyAllowed(link, reference)
      /\ \E o \in LinkTransceive(link, m) :
           /\ VerifySend(o, m)
           /\ pending' = IF o.result = "OK" /\ FloorKept(o.sw, minimum)
                         THEN [reference |-> reference, body |-> body] ELSE NoPin
      /\ UNCHANGED <<discovery, sessions, demanded>>

PinSubmit ==
  LET m == Message("VERIFY", pending.reference, pending.body)
  IN  /\ pending # NoPin
      /\ \E o \in LinkTransceive(link, m) : VerifySend(o, m)
      /\ pending' = NoPin
      /\ UNCHANGED <<discovery, sessions, demanded>>

\* Mutant: a Discovery Object read in the clear is believed.
VciAllowedUnread(l, d) ==
  l.app = "PIV" /\ d.held /\ d.profile = "PIV" /\ d.policy # "none" /\ l.secured

\* vci_allowed: the object was read under the protection that is still on.
VciAllowed(l, d) ==
  /\ l.app = "PIV" /\ d.held /\ d.profile = "PIV" /\ d.policy # "none"
  /\ l.secured /\ d.secured

\* TC_PIV_vci_establish.  The code is only sent where the policy asks for it.
VciWithoutPairing ==
  /\ Idle /\ VciAllowed(link, discovery) /\ discovery.policy # "pairing"
  /\ link' = [link EXCEPT !.vci = TRUE]
  /\ UNCHANGED <<pending, discovery, card, sessions, wire, demanded>>

VciPaired(body) ==
  LET m == Message("VERIFY", "pairing", body)
  IN  /\ Idle /\ VciAllowed(link, discovery) /\ discovery.policy = "pairing"
      /\ \E o \in LinkTransceive(link, m) :
           /\ link' = IF o.result = "OK" THEN [o.link EXCEPT !.vci = (o.sw = Success)] ELSE o.link
           /\ Received(o, m)
      /\ UNCHANGED <<pending, discovery, sessions, demanded>>

\* proof_allowed: on contactless every key but 9E needs the VCI.  The TWIC
\* application offers 9E only, on NEXGEN cards, and may not be one.
ProofAllowed(l, key) ==
  /\ l.app # "NONE" /\ ~l.lost
  /\ l.app = "TWIC" => key = "9E"
  /\ l.interface = "contactless" /\ key # "9E" => l.vci

\* TC_PIV_key_prove: what precedes and follows the one exchange, the
\* challenge and the check of the signature, leaves the link alone.
KeyProve(key) ==
  LET m == Message("GENERAL AUTHENTICATE", key, None)
  IN  /\ Idle /\ ProofAllowed(link, key)
      /\ \E o \in LinkTransceive(link, m) : link' = o.link /\ Received(o, m)
      /\ UNCHANGED <<pending, discovery, sessions, demanded>>

\* The card is removed or reset (external).  Its transport reports that with
\* the next transmit, and a new link has to be opened.
CardReset ==
  /\ card.present
  /\ card' = [CardSelect(card, "NONE") EXCEPT !.present = FALSE]
  /\ UNCHANGED <<link, pending, discovery, sessions, wire, demanded>>

Init ==
  /\ link = NoLink /\ pending = NoPin /\ discovery = NoDiscovery
  /\ card \in [app : {"NONE"}, sid : {0}, paired : {FALSE}, verified : {{}},
               tries : [PinReferences -> 1 .. MaxTries], policy : Policies, present : {TRUE}]
  /\ sessions = 0 /\ wire = Quiet /\ demanded = FALSE

Next ==
  \/ \E interface \in Interfaces : LinkInit(interface)
  \/ LinkClear
  \/ \E application \in Applications : Select(application)
  \/ \E suite \in Suites : KeyRequest(suite)
  \/ \E valid \in BOOLEAN : Authenticate(valid)
  \/ LinkSecure
  \/ LinkUnsecure
  \/ GetData
  \/ \E profile \in Applications : DiscoveryGet(profile)
  \/ \E reference \in PinReferences \cup {"pairing"} : VerifyStatus(reference)
  \/ \E reference \in PinReferences, body \in {"right", "wrong"}, minimum \in MinimumRetries :
       PinVerify(reference, body, minimum)
  \/ PinSubmit
  \/ VciWithoutPairing
  \/ \E body \in {"right", "wrong"} : VciPaired(body)
  \/ \E key \in Keys : KeyProve(key)
  \/ CardReset

Spec == Init /\ [][Next]_vars

\* The PIN references are handled alike.
References == Permutations(PinReferences)

(******************************* Properties *******************************)

Links ==
  [ready : BOOLEAN, stopped : BOOLEAN, interface : Interfaces,
   app : Applications \cup {"NONE"}, suite : {CardSuite, None},
   secured : BOOLEAN, lost : BOOLEAN, vci : BOOLEAN, pin : BOOLEAN, bound : BOOLEAN,
   session : {"IDLE", "ESTABLISHING", "READY"}, sid : 0 .. MaxSessions]
Cards ==
  [app : Applications \cup {"NONE"}, sid : 0 .. MaxSessions, paired : BOOLEAN,
   verified : SUBSET PinReferences, tries : [PinReferences -> 0 .. MaxTries],
   policy : Policies, present : BOOLEAN]
Wires ==
  [ins : {None, "SELECT", "GET DATA", "VERIFY", "GENERAL AUTHENTICATE"},
   clear : BOOLEAN, demanded : BOOLEAN,
   body : Keys \cup {None, "establish", "query", "right", "wrong"}]

\* Every variable keeps its shape; a link carries a session only in one of the
\* states of TC_PIV_SM, and flags only while it is open.
TypeOK ==
  /\ link \in Links /\ (~link.ready => link = NoLink)
  /\ pending \in {NoPin} \cup [reference : PinReferences, body : {"right", "wrong"}]
  /\ discovery \in [held : BOOLEAN, secured : BOOLEAN, profile : Applications, policy : Policies]
  /\ card \in Cards /\ sessions \in 0 .. MaxSessions
  /\ wire \in Wires /\ demanded \in BOOLEAN

\* The link can still reach the card it last heard from.
Live == link.ready /\ ~link.stopped /\ card.present

\* Once the caller has secured the link, GET DATA, VERIFY and GENERAL
\* AUTHENTICATE reach the card protected or not at all, through every failure
\* and loss of the session, until the caller gives protection up by unsecuring
\* or clearing the link or by leaving the application (tc_piv_link_transceive).
NoDowngrade ==
  SmEligible(wire.ins) /\ wire.clear => ~wire.demanded

\* Over the contactless interface no PIN, no pairing code and no use of the
\* keys 9A and 9C travels in the clear (verify_allowed, proof_allowed).
SecretsProtected ==
  link.interface = "contactless" /\ wire.body \in {"right", "wrong", "9A", "9C"} => ~wire.clear

\* No sequence of calls, with right or wrong PINs and whatever is lost on the
\* way, takes the last try from a retry counter (TC_PIV_pin_verify).
NeverBlocked ==
  \A r \in PinReferences : card.tries[r] >= 1

\* A link that reports pin_verified talks to a card on which one of the PIN
\* references is verified (pin_status_record, selection_reset).
PinFlagTrue ==
  Live /\ link.pin => card.verified # {}

\* A link that reports the VCI is secured, with the keys the card holds, and
\* the card agrees: its own policy has the VCI, and pairing is done or waived
\* (TC_PIV_vci_establish).
VciFlagTrue ==
  /\ link.vci => link.secured
  /\ Live /\ link.vci =>
       /\ card.sid = link.sid
       /\ card.policy = "waived" \/ (card.policy = "pairing" /\ card.paired)

\* The application a link reports is the one selected on the card
\* (TC_PIV_select).
ApplicationTrue ==
  Live /\ link.app # "NONE" => link.app = card.app

\* Key material exists only while it is bound to the link, a secured link has
\* traffic keys, and a lost session has left none behind (tc_piv_link_unbind).
KeysHeld ==
  /\ link.session # "IDLE" => link.bound
  /\ link.secured => link.bound /\ link.session = "READY"
  /\ link.lost => ~link.bound

\* What the link tells the application is so.
FlagsTrue == PinFlagTrue /\ VciFlagTrue /\ ApplicationTrue /\ KeysHeld

(* -------------------------------- proofs --------------------------------- *)
(* Proofs about PivLink, for any PIN references, retry counters, suite and *)
(* number of sessions.                                                     *)

-----------------------------------------------------------------------------
(* The inductive invariant. *)

\* Keys exist while they are bound, and a session that has keys has a number.
KeyState(l) ==
  /\ ~l.bound => l.session = "IDLE" /\ l.sid = 0
  /\ l.session # "IDLE" => l.sid # 0
  /\ l.secured => l.bound /\ l.session = "READY"
  /\ l.lost => ~l.bound
  /\ l.vci => l.secured

\* What a link believes of the card it can still reach is so.
Agrees(l, c) ==
  l.ready /\ ~l.stopped /\ c.present =>
    /\ l.pin => c.verified # {}
    /\ l.sid # 0 => c.sid = l.sid
    /\ l.vci => c.policy = "waived" \/ (c.policy = "pairing" /\ c.paired)
    /\ l.app # "NONE" => l.app = c.app

\* A caller that asked for protection has it or has been told of its loss.
DemandKept == demanded => link.secured \/ link.lost

\* Between the query and the submission of a PIN: the card reported enough
\* tries, and what verify_allowed found still holds.
SubmissionSafe ==
  pending # NoPin =>
    /\ link.ready /\ link.app = "PIV" /\ ~link.pin
    /\ link.interface = "contactless" => link.secured
    /\ card.tries[pending.reference] >= 2

\* A Discovery Object read under protection is the card's.
DiscoveryTrue ==
  discovery.held /\ discovery.secured => discovery.policy = card.policy

IInv ==
  /\ TypeOK /\ KeyState(link) /\ Agrees(link, card)
  /\ DemandKept /\ SubmissionSafe /\ DiscoveryTrue
  /\ NoDowngrade /\ SecretsProtected /\ NeverBlocked

-----------------------------------------------------------------------------
(* The outcomes of one exchange. *)

Stop(l) == [l EXCEPT !.stopped = TRUE]

\* The card that has ended its session.
Ended(c) == [c EXCEPT !.sid = 0, !.paired = FALSE]

\* An exchange in the clear leaves the link alone unless the transport fails.
PlainOutcome(l, m, o) ==
  /\ o.clear = TRUE /\ o.sent \in BOOLEAN
  /\ \E a \in CardAnswers(card, m) : o.card = a.card /\ (o.result = "OK" => o.sw = a.sw)
  /\ \/ o.result # "ERROR" /\ o.link = l
     \/ o.result = "ERROR" /\ o.link = Stop(l)
     \/ o.result = "ERROR" /\ l.bound /\ o.link = SessionLost(Stop(l))

\* A protected exchange succeeds, or never started, or has lost the session.
ProtectedOutcome(l, m, o) ==
  /\ o.clear = FALSE /\ o.sent \in BOOLEAN
  /\ \/ /\ o.result = "OK" /\ o.link = l
        /\ \E a \in CardAnswers(card, m) : o.card = a.card /\ o.sw = a.sw
     \/ o.result # "OK" /\ o.link = l /\ o.card = card
     \/ /\ o.result # "OK"
        /\ o.link \in {SessionLost(l), SessionLost(Stop(l))}
        /\ o.card \in {card, Ended(card)} \cup {a.card : a \in CardAnswers(card, m)}

\* What ChannelTransceive returns is one of the card's answers or none.
LEMMA ChannelAnswers ==
  ASSUME NEW l, NEW m, NEW protect, NEW answers, NEW untouched,
         NEW x \in ChannelTransceive(l, m, protect, answers, untouched)
  PROVE  x.answer \in answers \cup {untouched} /\ x.sent \in BOOLEAN
PROOF
  <1> DEFINE results == {"OK", "LIMIT", "INVALID", "ERROR"}
  <1>1. \/ x \in Exchanges({"ERROR"}, {untouched}, FALSE)
        \/ x \in Exchanges(results, answers, TRUE)
        \/ x \in Exchanges(results, {untouched}, FALSE)
    BY Zenon DEF ChannelTransceive
  <1>2. QED
    BY <1>1 DEF Exchanges

\* Refusing a command unchanged is always among the card's answers.
LEMMA RefusalIsAnAnswer ==
  ASSUME NEW m
  PROVE  [card |-> card, sw |-> Sw("refused", 0)] \in CardAnswers(card, m)
PROOF
  BY DEF CardAnswers

\* The plain path of tc_piv_link_transceive.
LEMMA PlainOutcomes ==
  ASSUME NEW l, NEW m, NEW o \in PlainTransceive(l, m)
  PROVE  PlainOutcome(l, m, o)
PROOF
  <1> DEFINE untouched == [card |-> card, sw |-> Sw("refused", 0)]
             X == ChannelTransceive(l, m, FALSE, CardAnswers(card, m), untouched)
             next(x) == Stopped(l, x.result)
  <1>1. PICK x \in X :
          o = Outcome(x.result, IF x.result = "OK" THEN x.answer.sw ELSE NoSw,
                      IF x.result = "ERROR" /\ l.bound THEN SessionLost(next(x)) ELSE next(x),
                      x.answer.card, x.sent, TRUE)
    BY Zenon DEF PlainTransceive
  <1>2. /\ x.answer \in CardAnswers(card, m) \cup {untouched}
        /\ x.sent \in BOOLEAN
    BY <1>1, ChannelAnswers
  <1>3. x.answer \in CardAnswers(card, m)
    BY <1>2, RefusalIsAnAnswer
  <1> HIDE DEF X, untouched
  <1>4. /\ o.clear = TRUE /\ o.sent = x.sent /\ o.card = x.answer.card /\ o.result = x.result
        /\ o.sw = IF x.result = "OK" THEN x.answer.sw ELSE NoSw
        /\ o.link = IF x.result = "ERROR" /\ l.bound THEN SessionLost(next(x)) ELSE next(x)
    BY <1>1 DEF Outcome
  <1>5. /\ x.result = "ERROR" => next(x) = Stop(l)
        /\ x.result # "ERROR" => next(x) = l
    BY DEF Stopped, Stop
  <1> HIDE DEF next
  <1>6. \/ o.result # "ERROR" /\ o.link = l
        \/ o.result = "ERROR" /\ o.link = Stop(l)
        \/ o.result = "ERROR" /\ l.bound /\ o.link = SessionLost(Stop(l))
    BY <1>4, <1>5, Zenon
  <1>7. QED
    BY <1>2, <1>3, <1>4, <1>6, Zenon DEF PlainOutcome

\* sm_transceive.
LEMMA ProtectedOutcomes ==
  ASSUME NEW l, NEW m, NEW o \in SmTransceive(l, m)
  PROVE  ProtectedOutcome(l, m, o)
PROOF
  <1> DEFINE untouched == [card |-> card, outer |-> "6883", sw |-> NoSw]
             X == ChannelTransceive(l, m, TRUE, CardAnswersProtected(card, m, l.sid), untouched)
             next(x) == Stopped(l, x.result)
             after(x, result, sw, k) == Outcome(result, sw, k, x.answer.card, x.sent, FALSE)
             Results(x) ==
               IF x.result # "OK" THEN {after(x, x.result, NoSw, SessionLost(next(x)))}
               ELSE IF x.answer.outer # "9000"
               THEN {after(x, "CARD_STATUS", NoSw, SessionLost(next(x)))}
               ELSE {after(x, "OK", x.answer.sw, next(x)),
                     after(x, "INVALID", NoSw, SessionLost(next(x)))}
  <1>1. \/ o = Outcome("LIMIT", NoSw, l, card, FALSE, FALSE)
        \/ o = Outcome("ERROR", NoSw, SessionLost(l), card, FALSE, FALSE)
        \/ \E x \in X : o \in Results(x)
    BY Zenon DEF SmTransceive
  <1>2. CASE o = Outcome("LIMIT", NoSw, l, card, FALSE, FALSE)
    BY <1>2 DEF ProtectedOutcome, Outcome
  <1>3. CASE o = Outcome("ERROR", NoSw, SessionLost(l), card, FALSE, FALSE)
    BY <1>3 DEF ProtectedOutcome, Outcome
  <1>4. CASE \E x \in X : o \in Results(x)
    <2>1. PICK x \in X : o \in Results(x)
      BY <1>4
    <2>2. /\ x.answer \in CardAnswersProtected(card, m, l.sid) \cup {untouched}
          /\ x.sent \in BOOLEAN
      BY <2>1, ChannelAnswers
    <2>3. \/ x.answer.card = Ended(card) /\ x.answer.outer = "6988"
          \/ \E a \in CardAnswers(card, m) :
               x.answer.card = a.card /\ x.answer.outer = "9000" /\ x.answer.sw = a.sw
          \/ x.answer.card = card /\ x.answer.outer = "6883"
      BY <2>2 DEF CardAnswersProtected, Ended
    <2> HIDE DEF X, untouched
    <2>4. next(x) \in {l, Stop(l)} /\ (x.result = "OK" => next(x) = l)
      BY DEF Stopped, Stop
    <2> HIDE DEF next
    <2>5. x.answer.card \in {card, Ended(card)} \cup {a.card : a \in CardAnswers(card, m)}
      BY <2>3
    <2>6. CASE x.result # "OK"
      <3>1. o = after(x, x.result, NoSw, SessionLost(next(x)))
        BY <2>1, <2>6
      <3>2. QED
        BY <2>2, <2>4, <2>5, <2>6, <3>1 DEF ProtectedOutcome, Outcome
    <2>7. CASE x.result = "OK" /\ x.answer.outer # "9000"
      <3>1. o = after(x, "CARD_STATUS", NoSw, SessionLost(next(x)))
        BY <2>1, <2>7
      <3>2. QED
        BY <2>2, <2>4, <2>5, <3>1 DEF ProtectedOutcome, Outcome
    <2>8. CASE x.result = "OK" /\ x.answer.outer = "9000"
      <3>1. \/ o = after(x, "OK", x.answer.sw, next(x))
            \/ o = after(x, "INVALID", NoSw, SessionLost(next(x)))
        BY <2>1, <2>8
      <3>2. \E a \in CardAnswers(card, m) : x.answer.card = a.card /\ x.answer.sw = a.sw
        BY <2>3, <2>8
      <3>3. CASE o = after(x, "OK", x.answer.sw, next(x))
        BY <2>2, <2>4, <2>8, <3>2, <3>3 DEF ProtectedOutcome, Outcome
      <3>4. CASE o = after(x, "INVALID", NoSw, SessionLost(next(x)))
        BY <2>2, <2>4, <2>5, <3>4 DEF ProtectedOutcome, Outcome
      <3>5. QED
        BY <3>1, <3>3, <3>4
    <2>9. QED
      BY <2>6, <2>7, <2>8
  <1>5. QED
    BY <1>1, <1>2, <1>3, <1>4

\* tc_piv_link_transceive: the plain path is taken only where the caller has
\* not asked for protection or the command is not eligible for it.
LEMMA LinkOutcomes ==
  ASSUME NEW l, NEW m, NEW o \in LinkTransceive(l, m)
  PROVE  \/ ~(SmEligible(m.ins) /\ (l.secured \/ l.lost)) /\ PlainOutcome(l, m, o)
         \/ SmEligible(m.ins) /\ (l.secured \/ l.lost) /\ ProtectedOutcome(l, m, o)
PROOF
  <1> DEFINE protect == SmEligible(m.ins) /\ (l.secured \/ l.lost)
  <1>1. CASE protect /\ (~l.secured \/ ~l.bound)
    <2>1. o = Outcome("REFUSED", NoSw, l, card, FALSE, FALSE)
      BY <1>1 DEF LinkTransceive
    <2>2. ProtectedOutcome(l, m, o)
      BY <2>1 DEF Outcome, ProtectedOutcome
    <2>3. QED
      BY <1>1, <2>2
  <1>2. CASE protect /\ ~(~l.secured \/ ~l.bound)
    <2>1. o \in SmTransceive(l, m)
      BY <1>2 DEF LinkTransceive
    <2>2. QED
      BY <1>2, <2>1, ProtectedOutcomes
  <1>3. CASE ~protect
    <2>1. o \in PlainTransceive(l, m)
      BY <1>3 DEF LinkTransceive
    <2>2. QED
      BY <1>3, <2>1, PlainOutcomes
  <1>4. QED
    BY <1>1, <1>2, <1>3

-----------------------------------------------------------------------------
(* What the operations on the link and on the card leave behind. *)

\* k is the link l without its session and without what depended on it.
SameLink(l, k) ==
  /\ k \in Links
  /\ k.ready = l.ready /\ k.interface = l.interface /\ k.app = l.app /\ k.suite = l.suite

WithoutSession(k) ==
  /\ k.bound = FALSE /\ k.secured = FALSE /\ k.session = "IDLE" /\ k.sid = 0

\* tc_piv_link_unbind clears the session of a link whose keys are bound.
LEMMA UnbindFields ==
  ASSUME NEW l \in Links, KeyState(l)
  PROVE  /\ SameLink(l, Unbind(l)) /\ WithoutSession(Unbind(l))
         /\ Unbind(l).stopped = l.stopped /\ Unbind(l).lost = l.lost
         /\ Unbind(l).vci = l.vci /\ Unbind(l).pin = l.pin
PROOF
  <1>1. 0 \in 0 .. MaxSessions
    BY Constants
  <1>2. CASE l.bound
    BY <1>1, <1>2 DEF Unbind, Links, SameLink, WithoutSession
  <1>3. CASE ~l.bound
    BY <1>3 DEF Unbind, Links, SameLink, WithoutSession, KeyState
  <1>4. QED
    BY <1>2, <1>3

\* tc_piv_link_session_lost.
LEMMA LostFields ==
  ASSUME NEW l \in Links, KeyState(l)
  PROVE  /\ SameLink(l, SessionLost(l)) /\ WithoutSession(SessionLost(l))
         /\ SessionLost(l).stopped = l.stopped /\ SessionLost(l).lost = TRUE
         /\ SessionLost(l).vci = FALSE /\ SessionLost(l).pin = FALSE
PROOF
  <1> DEFINE u == Unbind(l)
  <1>1. SameLink(l, u) /\ WithoutSession(u) /\ u.stopped = l.stopped
    BY UnbindFields
  <1> HIDE DEF u
  <1>2. SessionLost(l) = [u EXCEPT !.lost = TRUE, !.vci = FALSE, !.pin = FALSE]
    BY DEF SessionLost, u
  <1> DEFINE k == SessionLost(l)
  <1> HIDE DEF k
  <1>3. k = [u EXCEPT !.lost = TRUE, !.vci = FALSE, !.pin = FALSE] /\ u \in Links
    BY <1>1, <1>2 DEF SameLink, k
  <1>4. /\ k \in Links /\ k.lost = TRUE /\ k.vci = FALSE /\ k.pin = FALSE
        /\ k.ready = u.ready /\ k.interface = u.interface /\ k.app = u.app
        /\ k.suite = u.suite /\ k.stopped = u.stopped
        /\ k.bound = u.bound /\ k.secured = u.secured /\ k.session = u.session
        /\ k.sid = u.sid
    BY <1>3 DEF Links
  <1>5. QED
    BY <1>1, <1>4, Zenon DEF SameLink, WithoutSession, k

\* A transport failure.
LEMMA StopFields ==
  ASSUME NEW l \in Links, KeyState(l)
  PROVE  /\ SameLink(l, Stop(l)) /\ KeyState(Stop(l)) /\ Stop(l).stopped = TRUE
         /\ Stop(l).secured = l.secured /\ Stop(l).lost = l.lost /\ Stop(l).bound = l.bound
PROOF
  <1>1. /\ SameLink(l, Stop(l)) /\ Stop(l).stopped = TRUE
        /\ Stop(l).secured = l.secured /\ Stop(l).lost = l.lost /\ Stop(l).bound = l.bound
        /\ Stop(l).vci = l.vci /\ Stop(l).session = l.session /\ Stop(l).sid = l.sid
    BY DEF Stop, Links, SameLink
  <1>2. QED
    BY <1>1, Zenon DEF KeyState

\* A link without a session has keys in no state.
LEMMA NoSessionKeyState ==
  ASSUME NEW k, WithoutSession(k), k.vci = FALSE
  PROVE  KeyState(k)
PROOF
  BY DEF WithoutSession, KeyState

\* The link after an exchange that failed.
Fallen(l, k) ==
  /\ SameLink(l, k) /\ KeyState(k)
  /\ l.secured \/ l.lost => k.secured \/ k.lost

\* However an exchange fails, the link keeps its shape, and protection that was
\* asked for is kept or its loss is remembered.
LEMMA LostFallen ==
  ASSUME NEW l \in Links, KeyState(l)
  PROVE  /\ Fallen(l, l) /\ Fallen(l, Stop(l)) /\ Fallen(l, SessionLost(l))
         /\ Fallen(l, SessionLost(Stop(l))) /\ SessionLost(Stop(l)).stopped = TRUE
PROOF
  <1>1. Fallen(l, l)
    BY DEF Fallen, SameLink
  <1>2. Fallen(l, Stop(l)) /\ Stop(l) \in Links /\ KeyState(Stop(l)) /\ Stop(l).stopped = TRUE
    BY StopFields, Zenon DEF Fallen, SameLink
  <1>3. ASSUME NEW k \in Links, KeyState(k), SameLink(l, k)
        PROVE  Fallen(l, SessionLost(k)) /\ SessionLost(k).stopped = k.stopped
    <2> DEFINE s == SessionLost(k)
    <2>1. /\ SameLink(k, s) /\ WithoutSession(s) /\ s.stopped = k.stopped
          /\ s.lost = TRUE /\ s.vci = FALSE
      BY <1>3, LostFields
    <2> HIDE DEF s
    <2>2. KeyState(s)
      BY <2>1, NoSessionKeyState
    <2>3. SameLink(l, s)
      BY <1>3, <2>1, Zenon DEF SameLink
    <2>4. QED
      BY <2>1, <2>2, <2>3 DEF Fallen, s
  <1>4. SameLink(l, l) /\ SameLink(l, Stop(l))
    BY <1>1, <1>2, Zenon DEF Fallen
  <1>5. QED
    BY <1>1, <1>2, <1>3, <1>4

\* The link after any exchange.
LEMMA OutcomeLink ==
  ASSUME NEW l \in Links, KeyState(l), NEW m, NEW o \in LinkTransceive(l, m)
  PROVE  Fallen(l, o.link) /\ (o.result = "OK" => o.link = l)
PROOF
  <1>1. \/ PlainOutcome(l, m, o) \/ ProtectedOutcome(l, m, o)
    BY LinkOutcomes
  <1>2. /\ o.link \in {l, Stop(l), SessionLost(l), SessionLost(Stop(l))}
        /\ o.result = "OK" => o.link = l
    BY <1>1 DEF PlainOutcome, ProtectedOutcome
  <1>3. QED
    BY <1>2, LostFallen

\* The card after any exchange.
LEMMA OutcomeCard ==
  ASSUME NEW l, NEW m, NEW o \in LinkTransceive(l, m)
  PROVE  /\ \/ o.card \in {card, Ended(card)}
            \/ \E a \in CardAnswers(card, m) : o.card = a.card
         /\ o.result = "OK" =>
              \E a \in CardAnswers(card, m) : o.card = a.card /\ o.sw = a.sw
PROOF
  <1>1. \/ PlainOutcome(l, m, o) \/ ProtectedOutcome(l, m, o)
    BY LinkOutcomes
  <1>2. QED
    BY <1>1 DEF PlainOutcome, ProtectedOutcome

\* The end of a session leaves the application, the tries and the PIN status.
LEMMA EndedFields ==
  ASSUME NEW c \in Cards
  PROVE  /\ Ended(c) \in Cards
         /\ Ended(c).app = c.app /\ Ended(c).present = c.present /\ Ended(c).policy = c.policy
         /\ Ended(c).tries = c.tries /\ Ended(c).verified = c.verified
PROOF
  <1>1. 0 \in 0 .. MaxSessions
    BY Constants
  <1>2. QED
    BY <1>1 DEF Ended, Cards

\* A link that has lost its session believes nothing but the application.
LEMMA LostAgrees ==
  ASSUME NEW l \in Links, KeyState(l), NEW c, NEW d, Agrees(l, c),
         d.app = c.app, d.present = c.present
  PROVE  Agrees(SessionLost(l), d) /\ Agrees(SessionLost(Stop(l)), d) /\ Agrees(Stop(l), d)
PROOF
  <1> DEFINE k == SessionLost(l)
  <1>1. /\ SameLink(l, k) /\ WithoutSession(k) /\ k.stopped = l.stopped
        /\ k.vci = FALSE /\ k.pin = FALSE
    BY LostFields
  <1>2. SessionLost(Stop(l)).stopped = TRUE /\ Stop(l).stopped = TRUE
    BY LostFallen, StopFields
  <1> HIDE DEF k
  <1>3. Agrees(SessionLost(Stop(l)), d) /\ Agrees(Stop(l), d)
    BY <1>2, Zenon DEF Agrees
  <1>4. Agrees(k, d)
    BY <1>1, Zenon DEF Agrees, SameLink, WithoutSession
  <1>5. QED
    BY <1>3, <1>4 DEF k

\* An exchange that fails leaves a link that agrees with the card, if the card
\* keeps its application and, where the link is left alone, what it knows.
LEMMA FailedAgrees ==
  ASSUME NEW l \in Links, KeyState(l), Agrees(l, card), card \in Cards,
         NEW m, NEW o \in LinkTransceive(l, m), o.result # "OK",
         \A a \in CardAnswers(card, m) : a.card.app = card.app /\ a.card.present = card.present,
         o.clear = TRUE => \A a \in CardAnswers(card, m) : Agrees(l, a.card)
  PROVE  Agrees(o.link, o.card)
PROOF
  <1>1. o.card.app = card.app /\ o.card.present = card.present
    BY OutcomeCard, EndedFields
  <1>2. \/ PlainOutcome(l, m, o) \/ ProtectedOutcome(l, m, o)
    BY LinkOutcomes
  <1>3. \/ o.link = l /\ (o.card = card \/ o.clear = TRUE)
        \/ o.link \in {Stop(l), SessionLost(l), SessionLost(Stop(l))}
    BY <1>2 DEF PlainOutcome, ProtectedOutcome
  <1>4. CASE o.link \in {Stop(l), SessionLost(l), SessionLost(Stop(l))}
    BY <1>1, <1>4, LostAgrees
  <1>5. CASE o.link = l /\ o.card = card
    BY <1>5
  <1>6. CASE o.link = l /\ o.clear = TRUE
    <2>1. o.clear = TRUE /\ (PlainOutcome(l, m, o) \/ o.clear = FALSE)
      BY <1>2, <1>6 DEF ProtectedOutcome
    <2>2. \E a \in CardAnswers(card, m) : o.card = a.card
      BY <2>1 DEF PlainOutcome
    <2>3. QED
      BY <1>6, <2>2
  <1>7. QED
    BY <1>3, <1>4, <1>5, <1>6

\* An exchange that leaves the card as it is or ends its session.
HarmlessTo(m) == \A a \in CardAnswers(card, m) : a.card = card

CardKept(d) ==
  d \in Cards /\ d.tries = card.tries /\ d.policy = card.policy

\* After such an exchange the link still agrees with the card.
LEMMA HarmlessOutcome ==
  ASSUME link \in Links, KeyState(link), Agrees(link, card), card \in Cards,
         NEW m, NEW o \in LinkTransceive(link, m), HarmlessTo(m)
  PROVE  /\ CardKept(o.card) /\ Agrees(o.link, o.card)
         /\ o.result = "OK" => o.link = link /\ o.card = card
PROOF
  <1>1. o.card \in {card, Ended(card)} /\ (o.result = "OK" => o.card = card)
    BY OutcomeCard DEF HarmlessTo
  <1>2. CardKept(o.card)
    BY <1>1, EndedFields DEF CardKept
  <1>3. CASE o.result = "OK"
    <2>1. o.link = link
      BY <1>3, OutcomeLink
    <2>2. QED
      BY <1>1, <1>2, <1>3, <2>1
  <1>4. CASE o.result # "OK"
    <2>1. Agrees(o.link, o.card)
      BY <1>4, FailedAgrees DEF HarmlessTo
    <2>2. QED
      BY <1>2, <1>4, <2>1
  <1>5. QED
    BY <1>3, <1>4

\* GET DATA and the use of a key are such exchanges.
LEMMA QueriesHarmless ==
  ASSUME card \in Cards, NEW arg, NEW ins \in {"GET DATA", "GENERAL AUTHENTICATE"},
         arg # "establish"
  PROVE  HarmlessTo(Message(ins, arg, None))
PROOF
  <1> DEFINE m == Message(ins, arg, None)
  <1>1. m.ins # "SELECT" /\ m.ins # "VERIFY" /\ m.arg # "establish"
    BY DEF Message
  <1> HIDE DEF m
  <1>2. ASSUME NEW a \in CardAnswers(card, m)
        PROVE  a \in {[card |-> card, sw |-> Sw("refused", 0)], [card |-> card, sw |-> Success]}
    BY <1>1, <1>2, Zenon DEF CardAnswers
  <1>3. ASSUME NEW a \in CardAnswers(card, m)
        PROVE  a.card = card
    <2>1. a \in {[card |-> card, sw |-> Sw("refused", 0)], [card |-> card, sw |-> Success]}
      BY <1>2, <1>3
    <2>2. /\ [card |-> card, sw |-> Sw("refused", 0)].card = card
          /\ [card |-> card, sw |-> Success].card = card
      OBVIOUS
    <2>3. QED
      BY <2>1, <2>2
  <1>4. QED
    BY <1>3 DEF HarmlessTo, m

\* VERIFY without data asks for a status and changes nothing.
LEMMA VerifyQueryHarmless ==
  ASSUME card \in Cards, NEW r \in PinReferences \cup {"pairing"}
  PROVE  HarmlessTo(Message("VERIFY", r, "query"))
PROOF
  <1> DEFINE m == Message("VERIFY", r, "query")
  <1>1. m.ins = "VERIFY" /\ m.arg = r /\ m.body = "query"
    BY DEF Message
  <1> HIDE DEF m
  <1>2. ASSUME NEW a \in CardVerifyPairing(card, "query")
        PROVE  a.card = card
    <2>1. a.card = [card EXCEPT !.paired = card.paired]
      BY <1>2 DEF CardVerifyPairing
    <2>2. QED
      BY <2>1 DEF Cards
  <1>3. ASSUME NEW a \in CardVerifyPin(card, r, "query")
        PROVE  a.card = card
    BY <1>3 DEF CardVerifyPin
  <1>4. ASSUME NEW a \in CardAnswers(card, m)
        PROVE  \/ a = [card |-> card, sw |-> Sw("refused", 0)]
               \/ a \in CardVerifyPairing(card, "query")
               \/ a \in CardVerifyPin(card, r, "query")
    BY <1>1, <1>4, Zenon DEF CardAnswers
  <1>5. ASSUME NEW a \in CardAnswers(card, m)
        PROVE  a.card = card
    <2>1. [card |-> card, sw |-> Sw("refused", 0)].card = card
      OBVIOUS
    <2>2. QED
      BY <1>2, <1>3, <1>4, <1>5, <2>1
  <1>6. QED
    BY <1>5 DEF HarmlessTo, m

-----------------------------------------------------------------------------
(* The wire. *)

CarriedBody(m) == IF m.ins = "GENERAL AUTHENTICATE" THEN m.arg ELSE m.body

\* A message of one of the calls.
WellFormed(m) ==
  /\ m.ins \in {"SELECT", "GET DATA", "VERIFY", "GENERAL AUTHENTICATE"}
  /\ CarriedBody(m) \in Keys \cup {None, "establish", "query", "right", "wrong"}

Secret(m) == CarriedBody(m) \in {"right", "wrong", "9A", "9C"}

\* An exchange keeps what the wire shows if a secret over the contactless
\* interface goes the protected way.
LEMMA WireKept ==
  ASSUME wire \in Wires, demanded \in BOOLEAN, NoDowngrade, SecretsProtected,
         NEW l, NEW m, NEW o \in LinkTransceive(l, m), WellFormed(m), Received(o, m),
         demanded => l.secured \/ l.lost,
         link.interface = "contactless" /\ Secret(m) => SmEligible(m.ins) /\ (l.secured \/ l.lost),
         link'.interface = link.interface
  PROVE  wire' \in Wires /\ NoDowngrade' /\ SecretsProtected'
PROOF
  <1>1. \/ ~(SmEligible(m.ins) /\ (l.secured \/ l.lost)) /\ o.clear = TRUE
        \/ o.clear = FALSE
    BY LinkOutcomes, Zenon DEF PlainOutcome, ProtectedOutcome
  <1>2. CASE ~o.sent
    <2>1. wire' = wire
      BY <1>2, Zenon DEF Received
    <2>2. QED
      BY <2>1, Zenon DEF NoDowngrade, SecretsProtected
  <1>3. CASE o.sent
    <2>1. wire' = [ins |-> m.ins, clear |-> o.clear, demanded |-> demanded,
                   body |-> CarriedBody(m)]
      BY <1>3, Zenon DEF Received, CarriedBody
    <2>2. /\ wire'.ins = m.ins /\ wire'.clear = o.clear /\ wire'.demanded = demanded
          /\ wire'.body = CarriedBody(m)
      BY <2>1
    <2>3. wire' \in Wires
      BY <1>1, <2>1 DEF WellFormed, Wires
    <2>4. NoDowngrade'
      BY <1>1, <2>2, Zenon DEF NoDowngrade
    <2>5. SecretsProtected'
      BY <1>1, <2>2, Zenon DEF SecretsProtected, Secret
    <2>6. QED
      BY <2>3, <2>4, <2>5
  <1>4. QED
    BY <1>2, <1>3

-----------------------------------------------------------------------------
(* The invariant, action by action. *)

\* What the calls that only ask the card something share.
LEMMA AskingKeeps ==
  ASSUME IInv, Idle, NEW m, NEW o \in LinkTransceive(link, m), WellFormed(m), HarmlessTo(m),
         Received(o, m), UNCHANGED <<sessions, demanded>>,
         link.interface = "contactless" /\ Secret(m) =>
           SmEligible(m.ins) /\ (link.secured \/ link.lost),
         link' \in Links, link'.ready = TRUE, link'.interface = link.interface,
         KeyState(link'), Agrees(link', card'),
         link.secured \/ link.lost => link'.secured \/ link'.lost,
         pending' \in {NoPin} \cup [reference : PinReferences, body : {"right", "wrong"}],
         discovery' \in [held : BOOLEAN, secured : BOOLEAN, profile : Applications,
                         policy : Policies],
         SubmissionSafe', DiscoveryTrue'
  PROVE  IInv'
PROOF
  <1>1. CardKept(o.card)
    BY HarmlessOutcome DEF IInv, TypeOK
  <1>2. card' = o.card
    BY DEF Received
  <1>3. wire' \in Wires /\ NoDowngrade' /\ SecretsProtected'
    BY WireKept DEF IInv, TypeOK, DemandKept
  <1>4. NeverBlocked'
    BY <1>1, <1>2 DEF IInv, CardKept, NeverBlocked
  <1>5. TypeOK'
    BY <1>1, <1>2, <1>3 DEF IInv, TypeOK, CardKept
  <1>6. DemandKept'
    BY Zenon DEF IInv, DemandKept
  <1>7. KeyState(link)' /\ Agrees(link, card)'
    BY DEF KeyState, Agrees
  <1>8. QED
    BY <1>3, <1>4, <1>5, <1>6, <1>7 DEF IInv

\* The link that such a call leaves as the exchange left it.
LEMMA AskedLink ==
  ASSUME IInv, Idle, NEW m, NEW o \in LinkTransceive(link, m), HarmlessTo(m),
         Received(o, m), link' = o.link
  PROVE  /\ link' \in Links /\ link'.ready = TRUE /\ link'.interface = link.interface
         /\ KeyState(link') /\ Agrees(link', card')
         /\ link.secured \/ link.lost => link'.secured \/ link'.lost
PROOF
  <1>1. link \in Links /\ KeyState(link) /\ Agrees(link, card) /\ card \in Cards
    BY DEF IInv, TypeOK
  <1>2. Fallen(link, o.link) /\ Agrees(o.link, o.card)
    BY <1>1, OutcomeLink, HarmlessOutcome
  <1>3. card' = o.card /\ link.ready
    BY DEF Received, Idle
  <1>4. link.ready = TRUE
    BY <1>1, <1>3 DEF Links
  <1>5. QED
    BY <1>2, <1>3, <1>4, Zenon DEF Fallen, SameLink

\* TC_PIV_get_data.
LEMMA GetDataIInv ==
  ASSUME IInv, GetData
  PROVE  IInv'
PROOF
  <1> DEFINE m == Message("GET DATA", "object", None)
  <1>1. PICK o \in LinkTransceive(link, m) : link' = o.link /\ Received(o, m)
    BY DEF GetData
  <1>2. Idle /\ UNCHANGED <<pending, discovery, sessions, demanded>>
    BY DEF GetData
  <1>3. HarmlessTo(m)
    BY QueriesHarmless DEF IInv, TypeOK
  <1>4. WellFormed(m) /\ ~Secret(m)
    BY DEF WellFormed, CarriedBody, Message, Secret, None
  <1> HIDE DEF m
  <1>5. SubmissionSafe' /\ DiscoveryTrue'
    <2>1. CardKept(card')
      BY <1>1, <1>3, HarmlessOutcome DEF IInv, TypeOK, Received
    <2>2. pending' = NoPin
      BY <1>2 DEF Idle
    <2>3. QED
      BY <1>2, <2>1, <2>2 DEF SubmissionSafe, DiscoveryTrue, IInv, CardKept
  <1>6. /\ pending' \in {NoPin} \cup [reference : PinReferences, body : {"right", "wrong"}]
        /\ discovery' \in [held : BOOLEAN, secured : BOOLEAN, profile : Applications,
                           policy : Policies]
    BY <1>2 DEF IInv, TypeOK
  <1>7. QED
    BY <1>1, <1>2, <1>3, <1>4, <1>5, <1>6, AskedLink, AskingKeeps

\* TC_PIV_key_prove: proof_allowed asks for the VCI, and the VCI is secured.
LEMMA KeyProveIInv ==
  ASSUME IInv, NEW key \in Keys, KeyProve(key)
  PROVE  IInv'
PROOF
  <1> DEFINE m == Message("GENERAL AUTHENTICATE", key, None)
  <1>1. PICK o \in LinkTransceive(link, m) : link' = o.link /\ Received(o, m)
    BY DEF KeyProve
  <1>2. Idle /\ ProofAllowed(link, key) /\ UNCHANGED <<pending, discovery, sessions, demanded>>
    BY DEF KeyProve
  <1>3. HarmlessTo(m)
    BY QueriesHarmless DEF IInv, TypeOK, Keys
  <1>4. WellFormed(m) /\ SmEligible(m.ins) /\ (Secret(m) => key # "9E")
    BY DEF WellFormed, CarriedBody, Message, Secret, SmEligible, Keys
  <1> HIDE DEF m
  <1>5. link.interface = "contactless" /\ Secret(m) => SmEligible(m.ins) /\ link.secured
    BY <1>2, <1>4, Zenon DEF ProofAllowed, IInv, KeyState
  <1>6. SubmissionSafe' /\ DiscoveryTrue'
    <2>1. CardKept(card')
      BY <1>1, <1>3, HarmlessOutcome DEF IInv, TypeOK, Received
    <2>2. pending' = NoPin
      BY <1>2 DEF Idle
    <2>3. QED
      BY <1>2, <2>1, <2>2 DEF SubmissionSafe, DiscoveryTrue, IInv, CardKept
  <1>7. /\ pending' \in {NoPin} \cup [reference : PinReferences, body : {"right", "wrong"}]
        /\ discovery' \in [held : BOOLEAN, secured : BOOLEAN, profile : Applications,
                           policy : Policies]
    BY <1>2 DEF IInv, TypeOK
  <1>8. QED
    BY <1>1, <1>2, <1>3, <1>4, <1>5, <1>6, <1>7, AskedLink, AskingKeeps

\* TC_PIV_discovery_get: a protected exchange is not in the clear.
LEMMA DiscoveryGetIInv ==
  ASSUME IInv, NEW profile \in Applications, DiscoveryGet(profile)
  PROVE  IInv'
PROOF
  <1> DEFINE m == Message("GET DATA", "discovery", None)
  <1>1. PICK o \in LinkTransceive(link, m), read \in BOOLEAN, policy \in Policies :
          /\ o.clear \/ policy = card.policy
          /\ link' = o.link
          /\ discovery' = IF o.result = "OK" /\ o.sw = Success /\ read
                          THEN [held |-> TRUE, secured |-> link.secured, profile |-> profile,
                                policy |-> policy]
                          ELSE discovery
          /\ Received(o, m)
    BY Zenon DEF DiscoveryGet
  <1>2. Idle /\ UNCHANGED <<pending, sessions, demanded>>
    BY DEF DiscoveryGet
  <1>3. HarmlessTo(m)
    BY QueriesHarmless DEF IInv, TypeOK
  <1>4. WellFormed(m) /\ ~Secret(m) /\ SmEligible(m.ins)
    BY DEF WellFormed, CarriedBody, Message, Secret, None, SmEligible
  <1> HIDE DEF m
  <1>5. CardKept(card')
    BY <1>1, <1>3, HarmlessOutcome DEF IInv, TypeOK, Received
  <1>6. pending' = NoPin
    BY <1>2 DEF Idle
  <1>7. SubmissionSafe'
    BY <1>6 DEF SubmissionSafe
  <1>8. link.secured => policy = card.policy
    <2>1. link.secured => o.clear = FALSE
      BY <1>1, <1>4, LinkOutcomes, Zenon DEF ProtectedOutcome
    <2>2. QED
      BY <1>1, <2>1
  <1>9. link.secured \in BOOLEAN
    BY DEF IInv, TypeOK, Links
  <1>10. /\ discovery' \in [held : BOOLEAN, secured : BOOLEAN, profile : Applications,
                           policy : Policies]
         /\ DiscoveryTrue'
    <2>1. CASE discovery' = discovery
      BY <1>5, <2>1 DEF IInv, TypeOK, DiscoveryTrue, CardKept
    <2>2. CASE discovery' = [held |-> TRUE, secured |-> link.secured, profile |-> profile,
                             policy |-> policy]
      <3>1. /\ discovery'.secured = link.secured /\ discovery'.policy = policy
            /\ card'.policy = card.policy
        BY <1>5, <2>2 DEF CardKept
      <3>2. DiscoveryTrue'
        BY <1>8, <3>1, Zenon DEF DiscoveryTrue
      <3>3. QED
        BY <1>9, <2>2, <3>2
    <2>3. QED
      BY <1>1, <2>1, <2>2
  <1>11. pending' \in {NoPin} \cup [reference : PinReferences, body : {"right", "wrong"}]
    BY <1>6
  <1>12. QED
    BY <1>1, <1>2, <1>3, <1>4, <1>7, <1>10, <1>11, AskedLink, AskingKeeps

\* What VERIFY without data reports of a PIN reference.
LEMMA QueryAnswer ==
  ASSUME card \in Cards, NEW r \in PinReferences,
         NEW a \in CardAnswers(card, Message("VERIFY", r, "query"))
  PROVE  /\ a.sw = Success => card.verified # {}
         /\ a.sw.class = "63CX" => a.sw # Success /\ a.sw.x = card.tries[r]
PROOF
  <1> DEFINE m == Message("VERIFY", r, "query")
  <1>1. m.ins = "VERIFY" /\ m.arg = r /\ m.body = "query" /\ r # "pairing"
    BY Constants DEF Message
  <1> HIDE DEF m
  <1>2. \/ a = [card |-> card, sw |-> Sw("refused", 0)]
        \/ a \in CardVerifyPin(card, r, "query")
    <2>1. a \in CardAnswers(card, m)
      BY DEF m
    <2>2. QED
      BY <1>1, <2>1, Zenon DEF CardAnswers
  <1>3. CASE a = [card |-> card, sw |-> Sw("refused", 0)]
    BY <1>3 DEF Sw, Success
  <1>4. CASE a \in CardVerifyPin(card, r, "query")
    <2>1. \/ a.sw = Success /\ r \in card.verified
          \/ a.sw = Sw("6983", 0) \/ a.sw = Sw("6300", 0)
          \/ a.sw = Sw("63CX", card.tries[r])
      BY <1>4 DEF CardVerifyPin
    <2>2. QED
      BY <2>1 DEF Sw, Success
  <1>5. QED
    BY <1>2, <1>3, <1>4

\* verify_send of a query and the record of its answer.
LEMMA QueriedLink ==
  ASSUME IInv, Idle, NEW r \in PinReferences \cup {"pairing"}, NEW m,
         m = Message("VERIFY", r, "query"),
         NEW o \in LinkTransceive(link, m), VerifySend(o, m)
  PROVE  /\ link' \in Links /\ link'.ready = TRUE /\ link'.interface = link.interface
         /\ KeyState(link') /\ Agrees(link', card')
         /\ link.secured \/ link.lost => link'.secured \/ link'.lost
         /\ r \in PinReferences /\ o.result = "OK" /\ o.sw.class = "63CX" =>
              /\ link'.pin = FALSE /\ link'.secured = link.secured /\ link'.app = link.app
              /\ o.sw.x = card.tries[r]
PROOF
  <1>1. link \in Links /\ KeyState(link) /\ Agrees(link, card) /\ card \in Cards
    BY DEF IInv, TypeOK
  <1>2. HarmlessTo(m)
    BY <1>1, VerifyQueryHarmless
  <1>3. Received(o, m) /\ card' = o.card /\ m.arg = r
    BY DEF VerifySend, Received, Message
  <1>4. CASE o.result # "OK" \/ r \notin PinReferences
    <2>1. link' = o.link
      BY <1>3, <1>4, Zenon DEF VerifySend, PinStatusRecord
    <2>2. QED
      BY <1>2, <1>3, <1>4, <2>1, AskedLink
  <1>5. CASE o.result = "OK" /\ r \in PinReferences
    <2>1. o.link = link /\ o.card = card
      BY <1>1, <1>2, <1>5, HarmlessOutcome
    <2>2. link' = [link EXCEPT !.pin = (o.sw = Success)]
      BY <1>3, <1>5, <2>1, Zenon DEF VerifySend, PinStatusRecord
    <2>3. PICK a \in CardAnswers(card, m) : o.sw = a.sw
      BY <1>5, OutcomeCard
    <2>4. /\ o.sw = Success => card.verified # {}
          /\ o.sw.class = "63CX" => o.sw # Success /\ o.sw.x = card.tries[r]
      BY <1>1, <1>5, <2>3, QueryAnswer
    <2> DEFINE answered == (o.sw = Success)
    <2>5. answered \in BOOLEAN /\ link' = [link EXCEPT !.pin = answered]
      BY <2>2
    <2>6. answered => card.verified # {}
      BY <2>4
    <2>7. o.sw.class = "63CX" => answered = FALSE
      BY <2>4
    <2> HIDE DEF answered
    <2>8. /\ link' \in Links /\ link'.pin = answered
          /\ link'.ready = link.ready /\ link'.interface = link.interface
          /\ link'.app = link.app /\ link'.stopped = link.stopped
          /\ link'.secured = link.secured /\ link'.lost = link.lost /\ link'.vci = link.vci
          /\ link'.bound = link.bound /\ link'.session = link.session /\ link'.sid = link.sid
      BY <1>1, <2>5 DEF Links
    <2>9. KeyState(link')
      BY <1>1, <2>8, Zenon DEF KeyState
    <2>10. Agrees(link', card')
      BY <1>1, <1>3, <2>1, <2>6, <2>8, Zenon DEF Agrees
    <2>11. link'.ready = TRUE
      BY <1>1, <2>8 DEF Idle, Links
    <2>12. QED
      BY <2>4, <2>7, <2>8, <2>9, <2>10, <2>11, Zenon
  <1>6. QED
    BY <1>4, <1>5

\* A query carries no secret.
LEMMA QueryWellFormed ==
  ASSUME NEW r
  PROVE  WellFormed(Message("VERIFY", r, "query")) /\ ~Secret(Message("VERIFY", r, "query"))
PROOF
  BY DEF WellFormed, CarriedBody, Message, Secret

\* TC_PIV_verify_status.
LEMMA VerifyStatusIInv ==
  ASSUME IInv, NEW r \in PinReferences \cup {"pairing"}, VerifyStatus(r)
  PROVE  IInv'
PROOF
  <1> DEFINE m == Message("VERIFY", r, "query")
  <1>1. PICK o \in LinkTransceive(link, m) : VerifySend(o, m)
    BY DEF VerifyStatus
  <1>2. Idle /\ UNCHANGED <<pending, discovery, sessions, demanded>>
    BY DEF VerifyStatus
  <1>3. HarmlessTo(m) /\ Received(o, m)
    BY <1>1, VerifyQueryHarmless DEF IInv, TypeOK, VerifySend
  <1>4. WellFormed(m) /\ ~Secret(m)
    BY QueryWellFormed
  <1>5. /\ link' \in Links /\ link'.ready = TRUE /\ link'.interface = link.interface
        /\ KeyState(link') /\ Agrees(link', card')
        /\ link.secured \/ link.lost => link'.secured \/ link'.lost
    BY <1>1, <1>2, QueriedLink
  <1> HIDE DEF m
  <1>6. SubmissionSafe' /\ DiscoveryTrue'
    <2>1. CardKept(card')
      BY <1>1, <1>3, HarmlessOutcome DEF IInv, TypeOK, Received
    <2>2. pending' = NoPin
      BY <1>2 DEF Idle
    <2>3. QED
      BY <1>2, <2>1, <2>2 DEF SubmissionSafe, DiscoveryTrue, IInv, CardKept
  <1>7. /\ pending' \in {NoPin} \cup [reference : PinReferences, body : {"right", "wrong"}]
        /\ discovery' \in [held : BOOLEAN, secured : BOOLEAN, profile : Applications,
                           policy : Policies]
    BY <1>2 DEF IInv, TypeOK
  <1>8. QED
    BY <1>1, <1>2, <1>3, <1>4, <1>5, <1>6, <1>7, AskingKeeps

\* The query of TC_PIV_pin_verify: a submission follows only where two tries
\* are left, and finds the link as verify_allowed found it.
LEMMA PinVerifyIInv ==
  ASSUME IInv, NEW r \in PinReferences, NEW body \in {"right", "wrong"},
         NEW minimum \in MinimumRetries, PinVerify(r, body, minimum)
  PROVE  IInv'
PROOF
  <1> DEFINE m == Message("VERIFY", r, "query")
  <1>1. PICK o \in LinkTransceive(link, m) :
          /\ VerifySend(o, m)
          /\ pending' = IF o.result = "OK" /\ FloorKept(o.sw, minimum)
                        THEN [reference |-> r, body |-> body] ELSE NoPin
    BY Zenon DEF PinVerify
  <1>2. Idle /\ VerifyAllowed(link, r) /\ UNCHANGED <<discovery, sessions, demanded>>
    BY DEF PinVerify
  <1>3. HarmlessTo(m) /\ Received(o, m)
    BY <1>1, VerifyQueryHarmless DEF IInv, TypeOK, VerifySend
  <1>4. WellFormed(m) /\ ~Secret(m)
    BY QueryWellFormed
  <1>5. /\ link' \in Links /\ link'.ready = TRUE /\ link'.interface = link.interface
        /\ KeyState(link') /\ Agrees(link', card')
        /\ link.secured \/ link.lost => link'.secured \/ link'.lost
        /\ o.result = "OK" /\ o.sw.class = "63CX" =>
             /\ link'.pin = FALSE /\ link'.secured = link.secured /\ link'.app = link.app
             /\ o.sw.x = card.tries[r]
    BY <1>1, <1>2, QueriedLink
  <1> HIDE DEF m
  <1>6. CardKept(card')
    BY <1>1, <1>3, HarmlessOutcome DEF IInv, TypeOK, Received
  <1>7. DiscoveryTrue'
    BY <1>2, <1>6 DEF DiscoveryTrue, IInv, CardKept
  <1>8. pending' \in {NoPin} \cup [reference : PinReferences, body : {"right", "wrong"}]
    BY <1>1
  <1>9. SubmissionSafe'
    <2>1. CASE pending' = NoPin
      BY <2>1 DEF SubmissionSafe
    <2>2. CASE pending' # NoPin
      <3>1. /\ o.result = "OK" /\ FloorKept(o.sw, minimum)
            /\ pending' = [reference |-> r, body |-> body]
        BY <1>1, <2>2
      <3>2. o.sw.class = "63CX" /\ o.sw.x >= minimum
        BY <3>1 DEF FloorKept
      <3>3. minimum \in Int /\ minimum >= 2
        BY Constants
      <3>4. card.tries[r] \in Int
        BY DEF IInv, TypeOK, Cards
      <3>5. card.tries[r] >= 2
        BY <1>5, <3>1, <3>2, <3>3, <3>4
      <3>6. pending'.reference = r /\ card'.tries = card.tries
        BY <1>6, <3>1 DEF CardKept
      <3>7. card'.tries[pending'.reference] >= 2
        BY <3>5, <3>6
      <3>8. link'.pin = FALSE /\ link'.secured = link.secured /\ link'.app = link.app
        BY <1>5, <3>1, <3>2
      <3>9. link'.app = "PIV" /\ (link'.interface = "contactless" => link'.secured)
        BY <1>2, <1>5, <3>8, Zenon DEF VerifyAllowed
      <3>10. QED
        BY <1>5, <3>7, <3>8, <3>9, Zenon DEF SubmissionSafe
    <2>3. QED
      BY <2>1, <2>2
  <1>10. discovery' \in [held : BOOLEAN, secured : BOOLEAN, profile : Applications,
                         policy : Policies]
    BY <1>2 DEF IInv, TypeOK
  <1>11. QED
    BY <1>1, <1>2, <1>3, <1>4, <1>5, <1>7, <1>8, <1>9, <1>10, AskingKeeps

\* The card after one PIN was submitted with two tries left.
Tried(d) ==
  /\ d \in Cards /\ d.app = card.app /\ d.present = card.present /\ d.policy = card.policy
  /\ d.sid = card.sid /\ d.paired = card.paired
  /\ \A r \in PinReferences : d.tries[r] >= 1

\* One submission leaves a try, and success leaves a verified reference.
LEMMA SubmitAnswer ==
  ASSUME card \in Cards, NeverBlocked, NEW r \in PinReferences, card.tries[r] >= 2,
         NEW body \in {"right", "wrong"},
         NEW a \in CardAnswers(card, Message("VERIFY", r, body))
  PROVE  Tried(a.card) /\ (a.sw = Success => a.card.verified # {})
PROOF
  <1> DEFINE m == Message("VERIFY", r, body)
             accepted == [card EXCEPT !.verified = @ \cup {r}, !.tries[r] = MaxTries]
             rejected == [card EXCEPT !.verified = @ \ {r}, !.tries[r] = @ - 1]
  <1>1. m.ins = "VERIFY" /\ m.arg = r /\ m.body = body /\ r # "pairing"
    BY Constants DEF Message
  <1> HIDE DEF m
  <1>2. card.tries \in [PinReferences -> 0 .. MaxTries] /\ MaxTries \in 1 .. 15
    BY Constants DEF Cards
  <1>3. card.tries[r] # 0 /\ body # "query"
    BY <1>2
  <1>4. \/ a = [card |-> card, sw |-> Sw("refused", 0)]
        \/ a \in CardVerifyPin(card, r, body)
    <2>1. a \in CardAnswers(card, m)
      BY DEF m
    <2>2. QED
      BY <1>1, <2>1, Zenon DEF CardAnswers
  <1>5. CASE a = [card |-> card, sw |-> Sw("refused", 0)]
    BY <1>5 DEF Sw, Success, Tried, NeverBlocked
  <1>6. CASE a = [card |-> accepted, sw |-> Success]
    <2>1. /\ accepted \in Cards /\ accepted.app = card.app /\ accepted.present = card.present
          /\ accepted.policy = card.policy /\ accepted.sid = card.sid
          /\ accepted.paired = card.paired
          /\ accepted.verified = card.verified \cup {r}
          /\ accepted.tries = [card.tries EXCEPT ![r] = MaxTries]
      <3> DEFINE t == [card.tries EXCEPT ![r] = MaxTries]
                 v == card.verified \cup {r}
      <3>1. t \in [PinReferences -> 0 .. MaxTries] /\ v \in SUBSET PinReferences
        BY <1>2 DEF Cards
      <3>2. accepted = [card EXCEPT !.verified = v, !.tries = t]
        BY DEF Cards
      <3> HIDE DEF t, v, accepted
      <3>3. /\ accepted \in Cards /\ accepted.app = card.app /\ accepted.present = card.present
            /\ accepted.policy = card.policy /\ accepted.sid = card.sid
            /\ accepted.paired = card.paired /\ accepted.verified = v /\ accepted.tries = t
        BY <3>1, <3>2 DEF Cards
      <3>4. QED
        BY <3>3 DEF t, v
    <2>2. a.card = accepted
      BY <1>6
    <2> HIDE DEF accepted
    <2>3. \A q \in PinReferences : accepted.tries[q] >= 1
      BY <1>2, <2>1 DEF NeverBlocked
    <2>4. QED
      BY <2>1, <2>2, <2>3 DEF Tried
  <1>7. CASE a = [card |-> rejected, sw |-> Sw("63CX", card.tries[r] - 1)]
    <2>1. /\ rejected \in Cards /\ rejected.app = card.app /\ rejected.present = card.present
          /\ rejected.policy = card.policy /\ rejected.sid = card.sid
          /\ rejected.paired = card.paired
          /\ rejected.tries = [card.tries EXCEPT ![r] = card.tries[r] - 1]
      <3> DEFINE t == [card.tries EXCEPT ![r] = card.tries[r] - 1]
                 v == card.verified \ {r}
      <3>1. t \in [PinReferences -> 0 .. MaxTries] /\ v \in SUBSET PinReferences
        BY <1>2 DEF Cards
      <3>2. rejected = [card EXCEPT !.verified = v, !.tries = t]
        BY DEF Cards
      <3> HIDE DEF t, v, rejected
      <3>3. /\ rejected \in Cards /\ rejected.app = card.app /\ rejected.present = card.present
            /\ rejected.policy = card.policy /\ rejected.sid = card.sid
            /\ rejected.paired = card.paired /\ rejected.verified = v /\ rejected.tries = t
        BY <3>1, <3>2 DEF Cards
      <3>4. QED
        BY <3>3 DEF t, v
    <2>2. a.card = rejected /\ a.sw # Success
      BY <1>7 DEF Sw, Success
    <2> HIDE DEF rejected
    <2>3. \A q \in PinReferences : rejected.tries[q] >= 1
      BY <1>2, <2>1 DEF NeverBlocked
    <2>4. QED
      BY <2>1, <2>2, <2>3 DEF Tried
  <1>8. QED
    <2>1. a \in CardVerifyPin(card, r, body) =>
            \/ a = [card |-> accepted, sw |-> Success]
            \/ a = [card |-> rejected, sw |-> Sw("63CX", card.tries[r] - 1)]
      BY <1>3 DEF CardVerifyPin
    <2>2. QED
      BY <1>4, <1>5, <1>6, <1>7, <2>1

\* The submission of TC_PIV_pin_verify.
LEMMA PinSubmitIInv ==
  ASSUME IInv, PinSubmit
  PROVE  IInv'
PROOF
  <1> DEFINE r == pending.reference
             m == Message("VERIFY", r, pending.body)
  <1>1. PICK o \in LinkTransceive(link, m) : VerifySend(o, m)
    BY DEF PinSubmit
  <1>2. pending # NoPin /\ pending' = NoPin /\ UNCHANGED <<discovery, sessions, demanded>>
    BY DEF PinSubmit
  <1>3. r \in PinReferences /\ pending.body \in {"right", "wrong"}
    BY <1>2 DEF IInv, TypeOK
  <1>4. /\ link \in Links /\ KeyState(link) /\ Agrees(link, card) /\ card \in Cards
        /\ NeverBlocked
    BY DEF IInv, TypeOK
  <1>5. /\ link.ready /\ link.app = "PIV" /\ ~link.pin /\ card.tries[r] >= 2
        /\ link.interface = "contactless" => link.secured
    BY <1>2, Zenon DEF IInv, SubmissionSafe
  <1>6. \A a \in CardAnswers(card, m) :
          Tried(a.card) /\ (a.sw = Success => a.card.verified # {})
    BY <1>3, <1>4, <1>5, SubmitAnswer
  <1>7. WellFormed(m) /\ SmEligible(m.ins) /\ m.arg = r
    BY <1>3 DEF WellFormed, CarriedBody, Message, SmEligible
  <1> HIDE DEF m, r
  <1>8. card' = o.card /\ Received(o, m)
    BY <1>1 DEF VerifySend, Received
  <1>9. card' \in Cards /\ card'.policy = card.policy /\ NeverBlocked'
    <2>1. CASE o.card \in {card, Ended(card)}
      <3>1. card' \in Cards /\ card'.policy = card.policy /\ card'.tries = card.tries
        BY <1>4, <1>8, <2>1, EndedFields
      <3>2. QED
        BY <1>4, <3>1 DEF NeverBlocked
    <2>2. CASE \E a \in CardAnswers(card, m) : o.card = a.card
      BY <1>6, <1>8, <2>2 DEF Tried, NeverBlocked
    <2>3. QED
      BY <1>1, <2>1, <2>2, OutcomeCard
  <1>10. \A a \in CardAnswers(card, m) : Agrees(link, a.card)
    <2>1. ASSUME NEW a \in CardAnswers(card, m)
          PROVE  Agrees(link, a.card)
      BY <1>4, <1>5, <1>6, <2>1, Zenon DEF Tried, Agrees
    <2>2. QED
      BY <2>1
  <1>11. Fallen(link, o.link)
    BY <1>1, <1>4, OutcomeLink
  <1>12. /\ link' \in Links /\ link'.ready = link.ready /\ link'.interface = link.interface
         /\ KeyState(link') /\ Agrees(link', card')
         /\ link.secured \/ link.lost => link'.secured \/ link'.lost
    <2>1. CASE o.result # "OK"
      <3>1. link' = o.link
        BY <1>1, <2>1, Zenon DEF VerifySend
      <3>2. \A a \in CardAnswers(card, m) : a.card.app = card.app /\ a.card.present = card.present
        BY <1>6 DEF Tried
      <3>3. Agrees(o.link, o.card)
        BY <1>1, <1>4, <1>10, <2>1, <3>2, FailedAgrees
      <3>4. QED
        BY <1>8, <1>11, <3>1, <3>3, Zenon DEF Fallen, SameLink
    <2>2. CASE o.result = "OK"
      <3>1. o.link = link
        BY <1>1, <1>4, <2>2, OutcomeLink
      <3>2. PICK a \in CardAnswers(card, m) : o.card = a.card /\ o.sw = a.sw
        BY <1>1, <2>2, OutcomeCard
      <3> DEFINE answered == (o.sw = Success)
      <3>3. link' = [link EXCEPT !.pin = answered]
        BY <1>1, <1>3, <1>7, <2>2, <3>1, Zenon DEF VerifySend, PinStatusRecord, r
      <3>4. answered \in BOOLEAN /\ (answered => a.card.verified # {})
        BY <1>6, <3>2
      <3> HIDE DEF answered
      <3>5. /\ link' \in Links /\ link'.pin = answered
            /\ link'.ready = link.ready /\ link'.interface = link.interface
            /\ link'.app = link.app /\ link'.stopped = link.stopped
            /\ link'.secured = link.secured /\ link'.lost = link.lost /\ link'.vci = link.vci
            /\ link'.bound = link.bound /\ link'.session = link.session /\ link'.sid = link.sid
        BY <1>4, <3>3, <3>4 DEF Links
      <3>6. KeyState(link')
        BY <1>4, <3>5, Zenon DEF KeyState
      <3>7. Agrees(link, a.card)
        BY <1>10
      <3>8. Agrees(link', card')
        BY <1>8, <3>2, <3>4, <3>5, <3>7, Zenon DEF Agrees
      <3>9. QED
        BY <3>5, <3>6, <3>8, Zenon
    <2>3. QED
      BY <2>1, <2>2
  <1>13. wire' \in Wires /\ NoDowngrade' /\ SecretsProtected'
    <2>1. demanded => link.secured \/ link.lost
      BY DEF IInv, DemandKept
    <2>2. link.interface = "contactless" /\ Secret(m) =>
            SmEligible(m.ins) /\ (link.secured \/ link.lost)
      BY <1>5, <1>7, Zenon
    <2>3. wire \in Wires /\ demanded \in BOOLEAN /\ NoDowngrade /\ SecretsProtected
      BY DEF IInv, TypeOK
    <2>4. QED
      BY <1>1, <1>7, <1>8, <1>12, <2>1, <2>2, <2>3, WireKept
  <1>14. DemandKept' /\ SubmissionSafe'
    BY <1>2, <1>12, Zenon DEF IInv, DemandKept, SubmissionSafe
  <1>15. DiscoveryTrue'
    BY <1>2, <1>9, Zenon DEF IInv, DiscoveryTrue
  <1>16. link'.ready = TRUE
    BY <1>4, <1>5, <1>12 DEF Links
  <1>17. TypeOK'
    BY <1>2, <1>9, <1>12, <1>13, <1>16 DEF IInv, TypeOK
  <1>18. KeyState(link)' /\ Agrees(link, card)'
    BY <1>12 DEF KeyState, Agrees
  <1>19. QED
    BY <1>9, <1>13, <1>14, <1>15, <1>17, <1>18 DEF IInv

\* What the calls share that keep the tries, the policy and the caller's copy
\* of the Discovery Object and submit nothing.
LEMMA CallKeeps ==
  ASSUME IInv, link' \in Links, link'.ready = TRUE, KeyState(link'), Agrees(link', card'),
         CardKept(card'), sessions' \in 0 .. MaxSessions, demanded' \in BOOLEAN,
         wire' \in Wires, NoDowngrade', SecretsProtected', DemandKept',
         pending' = NoPin, discovery' = discovery
  PROVE  IInv'
PROOF
  <1>1. TypeOK'
    BY DEF IInv, TypeOK, CardKept
  <1>2. NeverBlocked' /\ DiscoveryTrue'
    BY DEF IInv, NeverBlocked, DiscoveryTrue, CardKept
  <1>3. SubmissionSafe'
    BY DEF SubmissionSafe
  <1>4. KeyState(link)' /\ Agrees(link, card)'
    BY DEF KeyState, Agrees
  <1>5. QED
    BY <1>1, <1>2, <1>3, <1>4 DEF IInv

\* The card and the pairing code.
LEMMA PairingAnswer ==
  ASSUME card \in Cards, NEW body \in {"right", "wrong"},
         NEW a \in CardAnswers(card, Message("VERIFY", "pairing", body))
  PROVE  /\ CardKept(a.card) /\ a.card.app = card.app /\ a.card.present = card.present
         /\ a.card.sid = card.sid /\ a.card.verified = card.verified
         /\ a.sw = Success => a.card.paired = TRUE
PROOF
  <1> DEFINE m == Message("VERIFY", "pairing", body)
             paired == (body = "right")
  <1>1. m.ins = "VERIFY" /\ m.arg = "pairing" /\ m.body = body
    BY DEF Message
  <1> HIDE DEF m
  <1>2. \/ a = [card |-> card, sw |-> Sw("refused", 0)]
        \/ a \in CardVerifyPairing(card, body)
    <2>1. a \in CardAnswers(card, m)
      BY DEF m
    <2>2. QED
      BY <1>1, <2>1, Zenon DEF CardAnswers
  <1>3. CASE a = [card |-> card, sw |-> Sw("refused", 0)]
    BY <1>3 DEF Sw, Success, CardKept
  <1>4. CASE a \in CardVerifyPairing(card, body)
    <2>1. /\ a.card = [card EXCEPT !.paired = paired]
          /\ a.sw = IF paired THEN Success ELSE Sw("6300", 0)
      BY <1>4 DEF CardVerifyPairing
    <2>2. paired \in BOOLEAN
      OBVIOUS
    <2> HIDE DEF paired
    <2>3. /\ CardKept(a.card) /\ a.card.app = card.app /\ a.card.present = card.present
          /\ a.card.sid = card.sid /\ a.card.verified = card.verified
          /\ a.card.paired = paired
      BY <2>1, <2>2 DEF Cards, CardKept
    <2>4. a.sw = Success => paired = TRUE
      BY <2>1, <2>2 DEF Sw, Success
    <2>5. QED
      BY <2>3, <2>4
  <1>5. QED
    BY <1>2, <1>3, <1>4

\* TC_PIV_vci_establish with a pairing code.
LEMMA VciPairedIInv ==
  ASSUME IInv, NEW body \in {"right", "wrong"}, VciPaired(body)
  PROVE  IInv'
PROOF
  <1> DEFINE m == Message("VERIFY", "pairing", body)
  <1>1. PICK o \in LinkTransceive(link, m) :
          /\ link' = IF o.result = "OK" THEN [o.link EXCEPT !.vci = (o.sw = Success)] ELSE o.link
          /\ Received(o, m)
    BY Zenon DEF VciPaired
  <1>2. /\ Idle /\ VciAllowed(link, discovery) /\ discovery.policy = "pairing"
        /\ UNCHANGED <<pending, discovery, sessions, demanded>>
    BY DEF VciPaired
  <1>3. link \in Links /\ KeyState(link) /\ Agrees(link, card) /\ card \in Cards
    BY DEF IInv, TypeOK
  <1>4. link.secured /\ card.policy = "pairing"
    BY <1>2, Zenon DEF VciAllowed, IInv, DiscoveryTrue
  <1>5. \A a \in CardAnswers(card, m) :
          /\ CardKept(a.card) /\ a.card.app = card.app /\ a.card.present = card.present
          /\ a.card.sid = card.sid /\ a.card.verified = card.verified
          /\ a.sw = Success => a.card.paired = TRUE
    BY <1>3, PairingAnswer
  <1>6. WellFormed(m) /\ SmEligible(m.ins)
    BY DEF WellFormed, CarriedBody, Message, SmEligible
  <1> HIDE DEF m
  <1>7. o.clear = FALSE
    BY <1>1, <1>4, <1>6, LinkOutcomes, Zenon DEF ProtectedOutcome
  <1>8. card' = o.card
    BY <1>1 DEF Received
  <1>9. CardKept(card')
    <2>1. CardKept(card) /\ CardKept(Ended(card))
      BY <1>3, EndedFields DEF CardKept
    <2>2. QED
      BY <1>1, <1>5, <1>8, <2>1, OutcomeCard
  <1>10. Fallen(link, o.link)
    BY <1>1, <1>3, OutcomeLink
  <1>11. /\ link' \in Links /\ link'.ready = link.ready /\ link'.interface = link.interface
         /\ KeyState(link') /\ Agrees(link', card')
         /\ link.secured \/ link.lost => link'.secured \/ link'.lost
    <2>1. CASE o.result # "OK"
      <3>1. link' = o.link
        BY <1>1, <2>1, Zenon
      <3>2. Agrees(o.link, o.card)
        BY <1>1, <1>3, <1>5, <1>7, <2>1, FailedAgrees
      <3>3. QED
        BY <1>8, <1>10, <3>1, <3>2, Zenon DEF Fallen, SameLink
    <2>2. CASE o.result = "OK"
      <3>1. o.link = link
        BY <1>1, <1>3, <2>2, OutcomeLink
      <3>2. PICK a \in CardAnswers(card, m) : o.card = a.card /\ o.sw = a.sw
        BY <1>1, <2>2, OutcomeCard
      <3> DEFINE answered == (o.sw = Success)
      <3>3. link' = [link EXCEPT !.vci = answered]
        BY <1>1, <2>2, <3>1, Zenon
      <3>4. answered \in BOOLEAN /\ (answered => card'.paired = TRUE)
        BY <1>5, <1>8, <3>2
      <3> HIDE DEF answered
      <3>5. /\ link' \in Links /\ link'.vci = answered
            /\ link'.ready = link.ready /\ link'.interface = link.interface
            /\ link'.app = link.app /\ link'.stopped = link.stopped
            /\ link'.secured = link.secured /\ link'.lost = link.lost /\ link'.pin = link.pin
            /\ link'.bound = link.bound /\ link'.session = link.session /\ link'.sid = link.sid
        BY <1>3, <3>3, <3>4 DEF Links
      <3>6. KeyState(link')
        BY <1>3, <1>4, <3>5, Zenon DEF KeyState
      <3>7. /\ card'.app = card.app /\ card'.present = card.present /\ card'.sid = card.sid
            /\ card'.verified = card.verified /\ card'.policy = "pairing"
        BY <1>4, <1>5, <1>8, <3>2 DEF CardKept
      <3>8. Agrees(link', card')
        BY <1>3, <3>4, <3>5, <3>7, Zenon DEF Agrees
      <3>9. QED
        BY <3>5, <3>6, <3>8, Zenon
    <2>3. QED
      BY <2>1, <2>2
  <1>12. wire' \in Wires /\ NoDowngrade' /\ SecretsProtected'
    <2>1. demanded => link.secured \/ link.lost
      BY DEF IInv, DemandKept
    <2>2. wire \in Wires /\ demanded \in BOOLEAN /\ NoDowngrade /\ SecretsProtected
      BY DEF IInv, TypeOK
    <2>3. QED
      BY <1>1, <1>4, <1>6, <1>11, <2>1, <2>2, WireKept
  <1>13. DemandKept'
    BY <1>2, <1>11, Zenon DEF IInv, DemandKept
  <1>14. link'.ready = TRUE /\ pending' = NoPin
    BY <1>2, <1>3, <1>11 DEF Links, Idle
  <1>15. sessions' \in 0 .. MaxSessions /\ demanded' \in BOOLEAN
    BY <1>2 DEF IInv, TypeOK
  <1>16. QED
    BY <1>2, <1>9, <1>11, <1>12, <1>13, <1>14, <1>15, CallKeeps

\* The card and SELECT.
LEMMA SelectAnswer ==
  ASSUME card \in Cards, NEW application \in Applications,
         NEW a \in CardAnswers(card, Message("SELECT", application, None))
  PROVE  /\ CardKept(a.card) /\ a.card.present = card.present
         /\ a.sw = Success => a.card.app = application
         /\ a.sw # Success \/ card.app = application => a.card = card
PROOF
  <1> DEFINE m == Message("SELECT", application, None)
             s == CardSelect(card, application)
  <1>1. m.ins = "SELECT" /\ m.arg = application
    BY DEF Message
  <1> HIDE DEF m
  <1>2. \/ a = [card |-> card, sw |-> Sw("refused", 0)]
        \/ a = [card |-> s, sw |-> Success]
    <2>1. a \in CardAnswers(card, m)
      BY DEF m
    <2>2. QED
      BY <1>1, <2>1, Zenon DEF CardAnswers
  <1>3. CASE a = [card |-> card, sw |-> Sw("refused", 0)]
    BY <1>3 DEF Sw, Success, CardKept
  <1>4. CASE a = [card |-> s, sw |-> Success]
    <2>1. 0 \in 0 .. MaxSessions
      BY Constants
    <2>2. CASE application = card.app
      <3>1. s = card
        BY <2>2 DEF CardSelect
      <3>2. QED
        BY <1>4, <2>2, <3>1 DEF CardKept
    <2>3. CASE application # card.app
      <3>1. s = [card EXCEPT !.app = application, !.sid = 0, !.paired = FALSE, !.verified = {}]
        BY <2>3 DEF CardSelect
      <3> HIDE DEF s
      <3>2. CardKept(s) /\ s.present = card.present /\ s.app = application
        BY <2>1, <3>1 DEF Cards, CardKept
      <3>3. QED
        BY <1>4, <2>3, <3>2
    <2>4. QED
      BY <2>2, <2>3
  <1>5. QED
    BY <1>2, <1>3, <1>4

\* selection_reset forgets the application and what depended on it.
LEMMA ResetFields ==
  ASSUME NEW l \in Links, KeyState(l)
  PROVE  /\ SelectionReset(l) \in Links /\ KeyState(SelectionReset(l))
         /\ SelectionReset(l).ready = l.ready /\ SelectionReset(l).interface = l.interface
         /\ \A c : Agrees(SelectionReset(l), c)
PROOF
  <1> DEFINE u == Unbind(l)
             k == SelectionReset(l)
  <1>1. SameLink(l, u) /\ WithoutSession(u)
    BY UnbindFields
  <1> HIDE DEF u
  <1>2. k = [u EXCEPT !.app = "NONE", !.suite = None, !.vci = FALSE, !.pin = FALSE]
    BY DEF SelectionReset, u
  <1> HIDE DEF k
  <1>3. /\ k \in Links /\ WithoutSession(k) /\ k.vci = FALSE /\ k.pin = FALSE
        /\ k.app = "NONE" /\ k.ready = l.ready /\ k.interface = l.interface
    BY <1>1, <1>2 DEF Links, SameLink, WithoutSession
  <1>4. KeyState(k)
    BY <1>3, NoSessionKeyState
  <1>5. \A c : Agrees(k, c)
    BY <1>3, Zenon DEF Agrees, WithoutSession
  <1>6. QED
    BY <1>3, <1>4, <1>5 DEF k

\* Applying the answer to SELECT records the application the card is in.
LEMMA ApplyFields ==
  ASSUME NEW l \in Links, KeyState(l), NEW c, Agrees(l, c),
         NEW application \in Applications, c.app = application
  PROVE  LET k == SelectionApply(l, application)
         IN  /\ k \in Links /\ KeyState(k) /\ Agrees(k, c)
             /\ k.ready = l.ready /\ k.interface = l.interface
             /\ k.secured = l.secured /\ k.lost = l.lost
PROOF
  <1> DEFINE k == SelectionApply(l, application)
             suite == IF application = "PIV" THEN CardSuite ELSE None
  <1>1. k = [l EXCEPT !.app = application, !.suite = suite] /\ suite \in {CardSuite, None}
    BY DEF SelectionApply
  <1> HIDE DEF k, suite
  <1>2. /\ k \in Links /\ k.app = application
        /\ k.ready = l.ready /\ k.interface = l.interface /\ k.stopped = l.stopped
        /\ k.secured = l.secured /\ k.lost = l.lost /\ k.vci = l.vci /\ k.pin = l.pin
        /\ k.bound = l.bound /\ k.session = l.session /\ k.sid = l.sid
    BY <1>1 DEF Links
  <1>3. KeyState(k)
    BY <1>2, Zenon DEF KeyState
  <1>4. Agrees(k, c)
    BY <1>2, Zenon DEF Agrees
  <1>5. QED
    BY <1>2, <1>3, <1>4 DEF k

\* TC_PIV_select.
LEMMA SelectIInv ==
  ASSUME IInv, NEW application \in Applications, Select(application)
  PROVE  IInv'
PROOF
  <1> DEFINE m == Message("SELECT", application, None)
  <1>1. PICK o \in LinkTransceive(link, m), read \in BOOLEAN :
          LET moved == Moved(link, application, o)
              l == IF moved THEN SelectionReset(o.link) ELSE o.link
          IN  /\ link' = IF o.result = "OK" /\ o.sw = Success /\ read
                         THEN SelectionApply(l, application) ELSE l
              /\ demanded' = (demanded /\ ~moved)
              /\ Received(o, m)
    BY Zenon DEF Select
  <1>2. Idle /\ UNCHANGED <<pending, discovery, sessions>>
    BY DEF Select
  <1>3. link \in Links /\ KeyState(link) /\ Agrees(link, card) /\ card \in Cards
    BY DEF IInv, TypeOK
  <1>4. \A a \in CardAnswers(card, m) :
          /\ CardKept(a.card) /\ a.card.present = card.present
          /\ a.sw = Success => a.card.app = application
          /\ a.sw # Success \/ card.app = application => a.card = card
    BY <1>3, SelectAnswer
  <1>5. WellFormed(m) /\ ~SmEligible(m.ins) /\ ~Secret(m)
    BY DEF WellFormed, CarriedBody, Message, SmEligible, Secret, None
  <1> HIDE DEF m
  <1>6. PlainOutcome(link, m, o)
    BY <1>5, LinkOutcomes
  <1>7. PICK a \in CardAnswers(card, m) : o.card = a.card /\ (o.result = "OK" => o.sw = a.sw)
    BY <1>6, Zenon DEF PlainOutcome
  <1>8. card' = o.card /\ CardKept(o.card)
    BY <1>1, <1>4, <1>7 DEF Received
  <1>9. Fallen(link, o.link) /\ (o.result = "OK" => o.link = link)
    BY <1>3, OutcomeLink
  <1> DEFINE moved == Moved(link, application, o)
             l == IF moved THEN SelectionReset(o.link) ELSE o.link
  <1>10. /\ link' = IF o.result = "OK" /\ o.sw = Success /\ read
                    THEN SelectionApply(l, application) ELSE l
         /\ demanded' = (demanded /\ ~moved)
    BY <1>1, Zenon
  <1>11. /\ l \in Links /\ KeyState(l) /\ Agrees(l, o.card)
         /\ l.ready = link.ready /\ l.interface = link.interface
         /\ ~moved => (link.secured \/ link.lost => l.secured \/ l.lost)
    <2>1. CASE moved
      <3>1. o.link \in Links /\ KeyState(o.link)
        BY <1>9, Zenon DEF Fallen, SameLink
      <3>2. o.link.ready = link.ready /\ o.link.interface = link.interface
        BY <1>9, Zenon DEF Fallen, SameLink
      <3>3. l = SelectionReset(o.link)
        BY <2>1
      <3> HIDE DEF l, moved
      <3>4. QED
        BY <2>1, <3>1, <3>2, <3>3, ResetFields
    <2>2. CASE ~moved
      <3>1. l = o.link
        BY <2>2
      <3>2. link.app = application \/ a.card = card
        BY <1>4, <1>7, <2>2, Zenon DEF Moved
      <3>3. Agrees(link, a.card)
        <4>1. CASE a.card = card
          BY <1>3, <4>1
        <4>2. CASE link.app = application /\ ~(link.ready /\ ~link.stopped /\ card.present)
          <5>1. a.card.present = card.present
            BY <1>4
          <5>2. QED
            BY <4>2, <5>1, Zenon DEF Agrees
        <4>3. CASE link.app = application /\ link.ready /\ ~link.stopped /\ card.present
          <5>1. link.app # "NONE"
            BY <4>3 DEF Applications
          <5>2. card.app = application
            BY <1>3, <4>3, <5>1, Zenon DEF Agrees
          <5>3. QED
            BY <1>3, <1>4, <5>2
        <4>4. QED
          BY <3>2, <4>1, <4>2, <4>3, Zenon
      <3>4. o.link = link \/ o.link.stopped = TRUE
        BY <1>3, <1>6, StopFields, LostFallen DEF PlainOutcome
      <3>5. Agrees(o.link, o.card)
        BY <1>7, <3>3, <3>4, Zenon DEF Agrees
      <3> HIDE DEF l, moved
      <3>6. QED
        BY <1>9, <2>2, <3>1, <3>5, Zenon DEF Fallen, SameLink
    <2>3. QED
      BY <2>1, <2>2
  <1>12. moved \in BOOLEAN
    BY DEF Moved
  <1> HIDE DEF l, moved
  <1>13. /\ link' \in Links /\ KeyState(link') /\ Agrees(link', o.card)
         /\ link'.ready = link.ready /\ link'.interface = link.interface
         /\ ~moved => (link.secured \/ link.lost => link'.secured \/ link'.lost)
    <2>1. CASE link' = l
      BY <1>11, <2>1, Zenon
    <2>2. CASE o.result = "OK" /\ o.sw = Success /\ link' = SelectionApply(l, application)
      <3>1. o.card.app = application
        BY <1>4, <1>7, <2>2
      <3>2. QED
        BY <1>11, <2>2, <3>1, ApplyFields, Zenon
    <2>3. QED
      BY <1>10, <2>1, <2>2, Zenon
  <1>14. wire' \in Wires /\ NoDowngrade' /\ SecretsProtected'
    <2>1. demanded => link.secured \/ link.lost
      BY DEF IInv, DemandKept
    <2>2. wire \in Wires /\ demanded \in BOOLEAN /\ NoDowngrade /\ SecretsProtected
      BY DEF IInv, TypeOK
    <2>3. Received(o, m)
      BY <1>1, Zenon
    <2>4. QED
      BY <1>5, <1>13, <2>1, <2>2, <2>3, WireKept
  <1>15. DemandKept' /\ demanded' \in BOOLEAN
    <2>1. demanded \in BOOLEAN /\ DemandKept
      BY DEF IInv, TypeOK
    <2>2. demanded' \in BOOLEAN
      BY <1>10, <2>1
    <2>3. DemandKept'
      BY <1>10, <1>13, <2>1, Zenon DEF DemandKept
    <2>4. QED
      BY <2>2, <2>3
  <1>16. link'.ready = TRUE /\ pending' = NoPin
    BY <1>2, <1>3, <1>13 DEF Links, Idle
  <1>17. sessions' \in 0 .. MaxSessions
    BY <1>2 DEF IInv, TypeOK
  <1>18. QED
    BY <1>2, <1>8, <1>13, <1>14, <1>15, <1>16, <1>17, CallKeeps

\* The number of the next session is within the bound.
LEMMA NextNumber ==
  ASSUME NEW n, NEW k \in Nat, n \in 0 .. k, n < k
  PROVE  n + 1 \in 0 .. k
PROOF
  OBVIOUS

\* The card and the key establishment.
LEMMA EstablishAnswer ==
  ASSUME card \in Cards, sessions \in 0 .. MaxSessions, sessions < MaxSessions,
         NEW a \in CardAnswers(card, Message("GENERAL AUTHENTICATE", "establish", None))
  PROVE  /\ CardKept(a.card) /\ a.card.present = card.present /\ a.card.app = card.app
         /\ a.sw = Success => a.card.sid = sessions + 1
PROOF
  <1> DEFINE m == Message("GENERAL AUTHENTICATE", "establish", None)
             s == [card EXCEPT !.sid = sessions + 1, !.paired = FALSE]
  <1>1. m.ins = "GENERAL AUTHENTICATE" /\ m.arg = "establish"
    BY DEF Message
  <1> HIDE DEF m
  <1>2. \/ a = [card |-> card, sw |-> Sw("refused", 0)]
        \/ a = [card |-> s, sw |-> Success]
    <2>1. a \in CardAnswers(card, m)
      BY DEF m
    <2>2. m.ins # "SELECT" /\ m.ins # "VERIFY"
      BY <1>1
    <2>3. QED
      BY <1>1, <2>1, <2>2, Zenon DEF CardAnswers
  <1>3. CASE a = [card |-> card, sw |-> Sw("refused", 0)]
    BY <1>3 DEF Sw, Success, CardKept
  <1>4. CASE a = [card |-> s, sw |-> Success]
    <2>1. sessions + 1 \in 0 .. MaxSessions
      <3>1. MaxSessions \in Nat
        BY Constants
      <3>2. QED
        BY <3>1, NextNumber
    <2>2. CardKept(s) /\ s.present = card.present /\ s.app = card.app /\ s.sid = sessions + 1
      BY <2>1 DEF Cards, CardKept
    <2> HIDE DEF s
    <2>3. QED
      BY <1>4, <2>2
  <1>5. QED
    BY <1>2, <1>3, <1>4

\* A link whose session object has been cleared.
Cleared(k) == [k EXCEPT !.session = "IDLE", !.sid = 0]

\* Clearing the session object of an unbound link keeps what the link knows.
LEMMA ClearedFields ==
  ASSUME NEW k \in Links, k.bound = FALSE, k.secured = FALSE, k.vci = FALSE, k.pin = FALSE,
         NEW c, Agrees(k, c)
  PROVE  /\ Cleared(k) \in Links /\ KeyState(Cleared(k)) /\ Agrees(Cleared(k), c)
         /\ Cleared(k).ready = k.ready /\ Cleared(k).interface = k.interface
PROOF
  <1> DEFINE j == Cleared(k)
  <1>1. 0 \in 0 .. MaxSessions
    BY Constants
  <1>2. /\ j \in Links /\ WithoutSession(j) /\ j.vci = FALSE /\ j.pin = FALSE
        /\ j.ready = k.ready /\ j.interface = k.interface /\ j.stopped = k.stopped
        /\ j.app = k.app
    BY <1>1 DEF Links, WithoutSession, Cleared
  <1> HIDE DEF j
  <1>3. KeyState(j)
    BY <1>2, NoSessionKeyState
  <1>4. Agrees(j, c)
    BY <1>2, Zenon DEF Agrees, WithoutSession
  <1>5. QED
    BY <1>2, <1>3, <1>4 DEF j

\* The link that TC_PIV_SM_key_request goes on with.
LEMMA RequestingLink ==
  ASSUME IInv, NEW l, l = [Unbind(link) EXCEPT !.vci = FALSE, !.pin = FALSE]
  PROVE  /\ SameLink(link, l) /\ WithoutSession(l) /\ KeyState(l)
         /\ l.stopped = link.stopped /\ l.lost = link.lost /\ l.vci = FALSE /\ l.pin = FALSE
         /\ \A c : c.app = card.app /\ c.present = card.present => Agrees(l, c)
PROOF
  <1> DEFINE u == Unbind(link)
  <1>1. link \in Links /\ KeyState(link) /\ Agrees(link, card)
    BY DEF IInv, TypeOK
  <1>2. SameLink(link, u) /\ WithoutSession(u) /\ u.stopped = link.stopped /\ u.lost = link.lost
    BY <1>1, UnbindFields
  <1> HIDE DEF u
  <1>3. l = [u EXCEPT !.vci = FALSE, !.pin = FALSE]
    BY DEF u
  <1>4. /\ SameLink(link, l) /\ WithoutSession(l)
        /\ l.stopped = link.stopped /\ l.lost = link.lost /\ l.vci = FALSE /\ l.pin = FALSE
    BY <1>2, <1>3 DEF SameLink, WithoutSession, Links
  <1>5. KeyState(l)
    BY <1>4, NoSessionKeyState
  <1>6. ASSUME NEW c, c.app = card.app, c.present = card.present
        PROVE  Agrees(l, c)
    BY <1>1, <1>4, <1>6, Zenon DEF Agrees, SameLink, WithoutSession
  <1>7. QED
    BY <1>4, <1>5, <1>6, Zenon

\* TC_PIV_SM_key_request.
LEMMA KeyRequestIInv ==
  ASSUME IInv, NEW suite \in Suites, KeyRequest(suite)
  PROVE  IInv'
PROOF
  <1> DEFINE m == Message("GENERAL AUTHENTICATE", "establish", None)
             l == [Unbind(link) EXCEPT !.vci = FALSE, !.pin = FALSE]
  <1>1. /\ Idle /\ ~link.secured /\ ~link.lost /\ sessions < MaxSessions
        /\ sessions' = sessions + 1
        /\ UNCHANGED <<pending, discovery, demanded>>
    BY DEF KeyRequest
  <1>2. \/ link' = Cleared(l) /\ UNCHANGED <<card, wire>>
        \/ \E o \in LinkTransceive(l, m), read \in BOOLEAN :
             /\ link' = IF o.result = "OK" /\ o.sw = Success /\ read
                        THEN [o.link EXCEPT !.bound = TRUE, !.session = "ESTABLISHING",
                                            !.sid = sessions + 1]
                        ELSE Cleared(o.link)
             /\ Received(o, m)
    BY Zenon DEF KeyRequest, Cleared
  <1>3. /\ SameLink(link, l) /\ WithoutSession(l) /\ KeyState(l)
        /\ l.stopped = link.stopped /\ l.lost = link.lost /\ l.vci = FALSE /\ l.pin = FALSE
        /\ \A c : c.app = card.app /\ c.present = card.present => Agrees(l, c)
    BY RequestingLink
  <1>4. WellFormed(m) /\ ~Secret(m)
    BY DEF WellFormed, CarriedBody, Message, Secret
  <1>5. /\ link \in Links /\ card \in Cards /\ sessions \in 0 .. MaxSessions
        /\ wire \in Wires /\ demanded \in BOOLEAN /\ NoDowngrade /\ SecretsProtected
    BY DEF IInv, TypeOK
  <1>6. \A a \in CardAnswers(card, m) :
          /\ CardKept(a.card) /\ a.card.present = card.present /\ a.card.app = card.app
          /\ a.sw = Success => a.card.sid = sessions + 1
    BY <1>1, <1>5, EstablishAnswer
  <1> HIDE DEF m, l
  <1>7. ~demanded /\ ~demanded'
    BY <1>1, Zenon DEF IInv, DemandKept
  <1>8. sessions' \in 0 .. MaxSessions /\ sessions + 1 # 0 /\ sessions + 1 \in 0 .. MaxSessions
    BY <1>1, <1>5, Constants
  <1>9. l \in Links /\ l.ready = link.ready /\ l.interface = link.interface
    BY <1>3, Zenon DEF SameLink
  <1>10. /\ link' \in Links /\ KeyState(link') /\ Agrees(link', card')
         /\ link'.ready = link.ready /\ link'.interface = link.interface
         /\ CardKept(card') /\ wire' \in Wires /\ NoDowngrade' /\ SecretsProtected'
    <2>1. CASE link' = Cleared(l) /\ UNCHANGED <<card, wire>>
      <3>1. l.bound = FALSE /\ l.secured = FALSE /\ Agrees(l, card)
        BY <1>3, Zenon DEF WithoutSession
      <3>2. /\ Cleared(l) \in Links /\ KeyState(Cleared(l)) /\ Agrees(Cleared(l), card)
            /\ Cleared(l).ready = l.ready /\ Cleared(l).interface = l.interface
        BY <1>3, <1>9, <3>1, ClearedFields
      <3>3. /\ link' \in Links /\ KeyState(link') /\ Agrees(link', card')
            /\ link'.ready = link.ready /\ link'.interface = link.interface
        BY <1>9, <2>1, <3>2
      <3>4. CardKept(card') /\ wire' \in Wires /\ NoDowngrade' /\ SecretsProtected'
        BY <1>5, <2>1, <3>3 DEF CardKept, NoDowngrade, SecretsProtected
      <3>5. QED
        BY <3>3, <3>4
    <2>2. CASE \E o \in LinkTransceive(l, m), read \in BOOLEAN :
                 /\ link' = IF o.result = "OK" /\ o.sw = Success /\ read
                            THEN [o.link EXCEPT !.bound = TRUE, !.session = "ESTABLISHING",
                                                !.sid = sessions + 1]
                            ELSE Cleared(o.link)
                 /\ Received(o, m)
      <3>1. PICK o \in LinkTransceive(l, m), read \in BOOLEAN :
              /\ link' = IF o.result = "OK" /\ o.sw = Success /\ read
                         THEN [o.link EXCEPT !.bound = TRUE, !.session = "ESTABLISHING",
                                             !.sid = sessions + 1]
                         ELSE Cleared(o.link)
              /\ Received(o, m)
        BY <2>2
      <3>2. l.bound = FALSE /\ l.secured = FALSE /\ ~l.lost
        BY <1>1, <1>3, Zenon DEF WithoutSession
      <3>3. PlainOutcome(l, m, o)
        BY <3>2, LinkOutcomes, Zenon
      <3>4. PICK a \in CardAnswers(card, m) :
              o.card = a.card /\ (o.result = "OK" => o.sw = a.sw)
        BY <3>3, Zenon DEF PlainOutcome
      <3>5. card' = o.card /\ CardKept(o.card) /\ Agrees(l, o.card)
        BY <1>3, <1>6, <3>1, <3>4 DEF Received
      <3>6. o.link = l \/ (o.link = Stop(l) /\ o.result # "OK")
        BY <3>2, <3>3, Zenon DEF PlainOutcome
      <3>7. /\ link' \in Links /\ KeyState(link') /\ Agrees(link', o.card)
            /\ link'.ready = l.ready /\ link'.interface = l.interface
        <4>1. CASE link' = Cleared(o.link)
          <5>1. /\ o.link \in Links /\ o.link.bound = FALSE /\ o.link.secured = FALSE
                /\ o.link.vci = FALSE /\ o.link.pin = FALSE /\ Agrees(o.link, o.card)
                /\ o.link.ready = l.ready /\ o.link.interface = l.interface
            <6>1. CASE o.link = l
              BY <1>3, <1>9, <3>2, <3>5, <6>1
            <6>2. CASE o.link = Stop(l)
              <7>1. /\ o.link \in Links /\ o.link.bound = l.bound /\ o.link.secured = l.secured
                    /\ o.link.vci = l.vci /\ o.link.pin = l.pin /\ o.link.stopped = TRUE
                    /\ o.link.ready = l.ready /\ o.link.interface = l.interface
                BY <1>9, <6>2 DEF Stop, Links
              <7>2. QED
                BY <1>3, <3>2, <7>1, Zenon DEF Agrees
            <6>3. QED
              BY <3>6, <6>1, <6>2
          <5>2. QED
            BY <4>1, <5>1, ClearedFields
        <4>2. CASE /\ o.result = "OK" /\ o.sw = Success
                   /\ link' = [o.link EXCEPT !.bound = TRUE, !.session = "ESTABLISHING",
                                             !.sid = sessions + 1]
          <5>1. o.link = l /\ o.card.sid = sessions + 1
            BY <1>6, <3>4, <3>6, <4>2
          <5>2. /\ link' \in Links /\ link'.bound = TRUE /\ link'.session = "ESTABLISHING"
                /\ link'.sid = sessions + 1 /\ link'.secured = FALSE /\ link'.lost = l.lost
                /\ link'.vci = FALSE /\ link'.pin = FALSE /\ link'.app = l.app
                /\ link'.stopped = l.stopped
                /\ link'.ready = l.ready /\ link'.interface = l.interface
            BY <1>3, <1>8, <1>9, <3>2, <4>2, <5>1 DEF Links
          <5>3. "ESTABLISHING" # "IDLE"
            OBVIOUS
          <5>4. KeyState(link')
            BY <1>8, <3>2, <5>2, <5>3, Zenon DEF KeyState
          <5>5. Agrees(link', o.card)
            BY <3>5, <5>1, <5>2, Zenon DEF Agrees
          <5>6. QED
            BY <5>2, <5>4, <5>5
        <4>3. QED
          BY <3>1, <4>1, <4>2, Zenon
      <3>8. link'.interface = link.interface /\ link'.ready = link.ready
        BY <1>9, <3>7
      <3>9. wire' \in Wires /\ NoDowngrade' /\ SecretsProtected'
        BY <1>4, <1>5, <1>7, <3>1, <3>8, WireKept
      <3>10. QED
        BY <3>5, <3>7, <3>8, <3>9
    <2>3. QED
      BY <1>2, <2>1, <2>2
  <1>11. DemandKept' /\ demanded' \in BOOLEAN
    BY <1>1, <1>5, <1>7, Zenon DEF DemandKept
  <1>12. link'.ready = TRUE /\ pending' = NoPin /\ discovery' = discovery
    BY <1>1, <1>5, <1>10 DEF Links, Idle
  <1>13. QED
    BY <1>8, <1>10, <1>11, <1>12, CallKeeps

\* TC_PIV_link_init: the transport reaches a card that is there.
LEMMA LinkInitIInv ==
  ASSUME IInv, NEW interface \in Interfaces, LinkInit(interface)
  PROVE  IInv'
PROOF
  <1>1. /\ ~link.ready /\ link' = [NoLink EXCEPT !.ready = TRUE, !.interface = interface]
        /\ card' = [card EXCEPT !.present = TRUE] /\ wire' = Quiet
        /\ UNCHANGED <<pending, discovery, sessions, demanded>>
    BY DEF LinkInit
  <1>2. /\ card \in Cards /\ demanded \in BOOLEAN /\ sessions \in 0 .. MaxSessions
        /\ link = NoLink
    BY <1>1 DEF IInv, TypeOK
  <1>3. /\ link' \in Links /\ link'.ready = TRUE /\ WithoutSession(link')
        /\ link'.vci = FALSE /\ link'.pin = FALSE /\ link'.app = "NONE"
    <2>1. 0 \in 0 .. MaxSessions
      BY Constants
    <2>2. QED
      BY <1>1, <2>1 DEF NoLink, Links, WithoutSession
  <1>4. KeyState(link')
    BY <1>3, NoSessionKeyState
  <1>5. Agrees(link', card')
    BY <1>3, Zenon DEF Agrees, WithoutSession
  <1>6. CardKept(card')
    BY <1>1, <1>2 DEF Cards, CardKept
  <1>7. wire' \in Wires /\ NoDowngrade' /\ SecretsProtected'
    BY <1>1 DEF Quiet, Wires, NoDowngrade, SecretsProtected, SmEligible, None
  <1>8. ~demanded
    BY <1>2 DEF IInv, DemandKept, NoLink
  <1>9. DemandKept'
    BY <1>1, <1>8 DEF DemandKept
  <1>10. pending' = NoPin
    BY <1>1 DEF IInv, SubmissionSafe
  <1>11. QED
    BY <1>1, <1>2, <1>3, <1>4, <1>5, <1>6, <1>7, <1>9, <1>10, CallKeeps

\* TC_PIV_link_clear leaves a link in the state it had before it was opened.
LEMMA LinkClearIInv ==
  ASSUME IInv, LinkClear
  PROVE  IInv'
PROOF
  <1>1. /\ link' = [NoLink EXCEPT !.session = Unbind(link).session, !.sid = Unbind(link).sid]
        /\ Idle /\ discovery' = NoDiscovery /\ demanded' = FALSE
        /\ UNCHANGED <<pending, card, sessions, wire>>
    BY DEF LinkClear
  <1>2. Unbind(link).session = "IDLE" /\ Unbind(link).sid = 0
    BY UnbindFields DEF IInv, TypeOK, WithoutSession
  <1>3. link' = NoLink
    BY <1>1, <1>2 DEF NoLink
  <1>4. /\ link' \in Links /\ link'.interface = "contact" /\ link'.ready = FALSE
        /\ WithoutSession(link') /\ link'.vci = FALSE
    <2>1. 0 \in 0 .. MaxSessions
      BY Constants
    <2>2. QED
      BY <1>3, <2>1 DEF NoLink, Links, WithoutSession, Interfaces
  <1>5. KeyState(link')
    BY <1>4, NoSessionKeyState
  <1>6. Agrees(link', card')
    BY <1>4, Zenon DEF Agrees
  <1>7. TypeOK'
    BY <1>1, <1>3, <1>4 DEF IInv, TypeOK, NoDiscovery, Applications, Policies
  <1>8. NoDowngrade' /\ NeverBlocked'
    BY <1>1 DEF IInv, NoDowngrade, NeverBlocked
  <1>9. SecretsProtected'
    BY <1>4 DEF SecretsProtected
  <1>10. DemandKept' /\ SubmissionSafe' /\ DiscoveryTrue'
    BY <1>1 DEF DemandKept, SubmissionSafe, DiscoveryTrue, NoDiscovery, Idle
  <1>11. KeyState(link)' /\ Agrees(link, card)'
    BY <1>5, <1>6 DEF KeyState, Agrees
  <1>12. QED
    BY <1>7, <1>8, <1>9, <1>10, <1>11 DEF IInv

\* The calls that change the link and exchange nothing.
LEMMA LocalKeeps ==
  ASSUME IInv, Idle, UNCHANGED <<pending, discovery, card, sessions, wire>>,
         link' \in Links, link'.ready = link.ready, link'.interface = link.interface,
         KeyState(link'), Agrees(link', card), demanded' \in BOOLEAN, DemandKept'
  PROVE  IInv'
PROOF
  <1>1. link'.ready = TRUE /\ pending' = NoPin
    BY DEF Idle, Links
  <1>2. CardKept(card')
    BY DEF IInv, TypeOK, CardKept
  <1>3. wire' \in Wires /\ NoDowngrade' /\ SecretsProtected'
    BY DEF IInv, TypeOK, NoDowngrade, SecretsProtected
  <1>4. sessions' \in 0 .. MaxSessions
    BY DEF IInv, TypeOK
  <1>5. Agrees(link', card')
    OBVIOUS
  <1>6. QED
    BY <1>1, <1>2, <1>3, <1>4, <1>5, CallKeeps

\* TC_PIV_SM_authenticate_response.
LEMMA AuthenticateIInv ==
  ASSUME IInv, NEW valid \in BOOLEAN, Authenticate(valid)
  PROVE  IInv'
PROOF
  <1>1. /\ Idle /\ link.session = "ESTABLISHING"
        /\ link' = IF valid THEN [link EXCEPT !.session = "READY"] ELSE Cleared(link)
        /\ UNCHANGED <<pending, discovery, card, sessions, wire, demanded>>
    BY DEF Authenticate, Cleared
  <1>2. link \in Links /\ KeyState(link) /\ Agrees(link, card) /\ demanded \in BOOLEAN
    BY DEF IInv, TypeOK
  <1>3. link.bound /\ ~link.secured /\ ~link.lost /\ ~link.vci /\ link.sid # 0
    BY <1>1, <1>2, Zenon DEF KeyState
  <1>4. /\ link' \in Links /\ link'.ready = link.ready /\ link'.interface = link.interface
        /\ link'.bound = link.bound /\ link'.secured = link.secured /\ link'.lost = link.lost
        /\ link'.vci = link.vci /\ link'.pin = link.pin /\ link'.app = link.app
        /\ link'.stopped = link.stopped
        /\ \/ link'.session = "READY" /\ link'.sid = link.sid
           \/ link'.session = "IDLE" /\ link'.sid = 0
    <2>1. 0 \in 0 .. MaxSessions
      BY Constants
    <2>2. CASE link' = [link EXCEPT !.session = "READY"]
      BY <1>2, <2>2 DEF Links
    <2>3. CASE link' = Cleared(link)
      BY <1>2, <2>1, <2>3 DEF Links, Cleared
    <2>4. QED
      BY <1>1, <2>2, <2>3
  <1>5. KeyState(link')
    BY <1>3, <1>4, Zenon DEF KeyState
  <1>6. Agrees(link', card)
    BY <1>2, <1>4, Zenon DEF Agrees
  <1>7. DemandKept'
    BY <1>1, <1>4, Zenon DEF DemandKept, IInv
  <1>8. QED
    BY <1>1, <1>2, <1>4, <1>5, <1>6, <1>7, LocalKeeps

\* TC_PIV_link_secure.
LEMMA LinkSecureIInv ==
  ASSUME IInv, LinkSecure
  PROVE  IInv'
PROOF
  <1>1. /\ Idle /\ Securable(link) /\ link' = [link EXCEPT !.secured = TRUE]
        /\ demanded' = TRUE /\ UNCHANGED <<pending, discovery, card, sessions, wire>>
    BY DEF LinkSecure
  <1>2. link \in Links /\ KeyState(link) /\ Agrees(link, card)
    BY DEF IInv, TypeOK
  <1>3. /\ link' \in Links /\ link'.ready = link.ready /\ link'.interface = link.interface
        /\ link'.bound = link.bound /\ link'.secured = TRUE /\ link'.lost = link.lost
        /\ link'.vci = link.vci /\ link'.pin = link.pin /\ link'.app = link.app
        /\ link'.stopped = link.stopped /\ link'.session = link.session /\ link'.sid = link.sid
    BY <1>1, <1>2 DEF Links
  <1>4. KeyState(link')
    BY <1>1, <1>2, <1>3, Zenon DEF KeyState, Securable
  <1>5. Agrees(link', card)
    BY <1>2, <1>3, Zenon DEF Agrees
  <1>6. DemandKept' /\ demanded' \in BOOLEAN
    BY <1>1, <1>3 DEF DemandKept
  <1>7. QED
    BY <1>1, <1>3, <1>4, <1>5, <1>6, LocalKeeps

\* TC_PIV_link_unsecure.
LEMMA LinkUnsecureIInv ==
  ASSUME IInv, LinkUnsecure
  PROVE  IInv'
PROOF
  <1> DEFINE u == Unbind(link)
  <1>1. /\ Idle /\ link' = [u EXCEPT !.lost = FALSE, !.vci = FALSE]
        /\ demanded' = FALSE /\ UNCHANGED <<pending, discovery, card, sessions, wire>>
    BY DEF LinkUnsecure
  <1>2. link \in Links /\ KeyState(link) /\ Agrees(link, card)
    BY DEF IInv, TypeOK
  <1>3. /\ SameLink(link, u) /\ WithoutSession(u)
        /\ u.stopped = link.stopped /\ u.pin = link.pin
    BY <1>2, UnbindFields
  <1> HIDE DEF u
  <1>4. /\ link' \in Links /\ link'.ready = link.ready /\ link'.interface = link.interface
        /\ WithoutSession(link') /\ link'.vci = FALSE /\ link'.pin = link.pin
        /\ link'.app = link.app /\ link'.stopped = link.stopped
    BY <1>1, <1>3 DEF Links, SameLink, WithoutSession
  <1>5. KeyState(link')
    BY <1>4, NoSessionKeyState
  <1>6. Agrees(link', card)
    BY <1>2, <1>4, Zenon DEF Agrees, WithoutSession
  <1>7. DemandKept' /\ demanded' \in BOOLEAN
    BY <1>1 DEF DemandKept
  <1>8. QED
    BY <1>1, <1>4, <1>5, <1>6, <1>7, LocalKeeps

\* TC_PIV_vci_establish where the card's own policy waives pairing.
LEMMA VciWithoutPairingIInv ==
  ASSUME IInv, VciWithoutPairing
  PROVE  IInv'
PROOF
  <1>1. /\ Idle /\ VciAllowed(link, discovery) /\ discovery.policy # "pairing"
        /\ link' = [link EXCEPT !.vci = TRUE]
        /\ UNCHANGED <<pending, discovery, card, sessions, wire, demanded>>
    BY DEF VciWithoutPairing
  <1>2. link \in Links /\ KeyState(link) /\ Agrees(link, card) /\ demanded \in BOOLEAN
    BY DEF IInv, TypeOK
  <1>3. /\ link' \in Links /\ link'.ready = link.ready /\ link'.interface = link.interface
        /\ link'.bound = link.bound /\ link'.secured = link.secured /\ link'.lost = link.lost
        /\ link'.vci = TRUE /\ link'.pin = link.pin /\ link'.app = link.app
        /\ link'.stopped = link.stopped /\ link'.session = link.session /\ link'.sid = link.sid
    BY <1>1, <1>2 DEF Links
  <1>4. link.secured /\ card.policy = discovery.policy /\ discovery.policy # "none"
    BY <1>1, Zenon DEF VciAllowed, IInv, DiscoveryTrue
  <1>5. card.policy = "waived"
    BY <1>1, <1>4 DEF IInv, TypeOK, Policies
  <1>6. KeyState(link')
    BY <1>2, <1>3, <1>4, Zenon DEF KeyState
  <1>7. Agrees(link', card)
    BY <1>2, <1>3, <1>5, Zenon DEF Agrees
  <1>8. DemandKept'
    BY <1>1, <1>3, Zenon DEF DemandKept, IInv
  <1>9. QED
    BY <1>1, <1>2, <1>3, <1>6, <1>7, <1>8, LocalKeeps

\* The card goes away; its tries and its policy stay.
LEMMA CardResetIInv ==
  ASSUME IInv, CardReset
  PROVE  IInv'
PROOF
  <1> DEFINE s == CardSelect(card, "NONE")
  <1>1. /\ card' = [s EXCEPT !.present = FALSE]
        /\ UNCHANGED <<link, pending, discovery, sessions, wire, demanded>>
    BY DEF CardReset
  <1>2. CardKept(s)
    <2>1. card \in Cards /\ 0 \in 0 .. MaxSessions
      BY Constants DEF IInv, TypeOK
    <2>2. s = card \/ s = [card EXCEPT !.app = "NONE", !.sid = 0, !.paired = FALSE,
                                       !.verified = {}]
      BY Zenon DEF CardSelect
    <2> HIDE DEF s
    <2>3. QED
      BY <2>1, <2>2 DEF CardKept, Cards
  <1> HIDE DEF s
  <1>3. CardKept(card') /\ card'.present = FALSE
    BY <1>1, <1>2 DEF CardKept, Cards
  <1>4. TypeOK'
    BY <1>1, <1>3 DEF IInv, TypeOK, CardKept
  <1>5. Agrees(link, card)'
    BY <1>3, Zenon DEF Agrees
  <1>6. KeyState(link)' /\ DemandKept' /\ NoDowngrade' /\ SecretsProtected'
    BY <1>1 DEF IInv, KeyState, DemandKept, NoDowngrade, SecretsProtected
  <1>7. SubmissionSafe' /\ DiscoveryTrue' /\ NeverBlocked'
    BY <1>1, <1>3 DEF IInv, SubmissionSafe, DiscoveryTrue, NeverBlocked, CardKept
  <1>8. QED
    BY <1>4, <1>5, <1>6, <1>7 DEF IInv

\* A card never used and no link to it.
LEMMA InitIInv ==
  ASSUME Init
  PROVE  IInv
PROOF
  <1>1. /\ link = NoLink /\ pending = NoPin /\ discovery = NoDiscovery
        /\ sessions = 0 /\ wire = Quiet /\ demanded = FALSE
        /\ card \in [app : {"NONE"}, sid : {0}, paired : {FALSE}, verified : {{}},
                     tries : [PinReferences -> 1 .. MaxTries], policy : Policies,
                     present : {TRUE}]
    BY DEF Init
  <1>2. 0 \in 0 .. MaxSessions /\ MaxTries \in Nat
    BY Constants
  <1>3. card.tries \in [PinReferences -> 1 .. MaxTries]
    BY <1>1
  <1>4. card.tries \in [PinReferences -> 0 .. MaxTries] /\ NeverBlocked
    BY <1>2, <1>3 DEF NeverBlocked
  <1>5. card \in Cards
    BY <1>1, <1>2, <1>4 DEF Cards
  <1>6. /\ link \in Links /\ WithoutSession(link) /\ link.ready = FALSE /\ link.vci = FALSE
        /\ link.interface = "contact"
    BY <1>1, <1>2 DEF NoLink, Links, WithoutSession, Interfaces
  <1>7. KeyState(link)
    BY <1>6, NoSessionKeyState
  <1>8. Agrees(link, card)
    BY <1>6, Zenon DEF Agrees
  <1>9. wire \in Wires /\ NoDowngrade /\ SecretsProtected
    BY <1>1, <1>6 DEF Quiet, Wires, NoDowngrade, SecretsProtected, None
  <1>10. TypeOK
    BY <1>1, <1>2, <1>5, <1>6, <1>9 DEF TypeOK, NoDiscovery, Applications, Policies
  <1>11. DemandKept /\ SubmissionSafe /\ DiscoveryTrue
    BY <1>1 DEF DemandKept, SubmissionSafe, DiscoveryTrue, NoDiscovery
  <1>12. QED
    BY <1>4, <1>7, <1>8, <1>9, <1>10, <1>11 DEF IInv

\* A step that changes nothing.
LEMMA StutterIInv ==
  ASSUME IInv, UNCHANGED vars
  PROVE  IInv'
PROOF
  <1>1. /\ link' = link /\ pending' = pending /\ discovery' = discovery /\ card' = card
        /\ sessions' = sessions /\ wire' = wire /\ demanded' = demanded
    BY DEF vars
  <1>2. TypeOK'
    BY <1>1 DEF IInv, TypeOK
  <1>3. KeyState(link)' /\ Agrees(link, card)'
    BY <1>1, Zenon DEF IInv, KeyState, Agrees
  <1>4. DemandKept' /\ SubmissionSafe' /\ DiscoveryTrue'
    BY <1>1, Zenon DEF IInv, DemandKept, SubmissionSafe, DiscoveryTrue
  <1>5. NoDowngrade' /\ SecretsProtected' /\ NeverBlocked'
    BY <1>1, Zenon DEF IInv, NoDowngrade, SecretsProtected, NeverBlocked
  <1>6. QED
    BY <1>2, <1>3, <1>4, <1>5 DEF IInv

\* Every step preserves the invariant.
LEMMA NextIInv ==
  ASSUME IInv, [Next]_vars
  PROVE  IInv'
PROOF
  <1>1. CASE \E interface \in Interfaces : LinkInit(interface)
    BY <1>1, LinkInitIInv
  <1>2. CASE LinkClear
    BY <1>2, LinkClearIInv
  <1>3. CASE \E application \in Applications : Select(application)
    BY <1>3, SelectIInv
  <1>4. CASE \E suite \in Suites : KeyRequest(suite)
    BY <1>4, KeyRequestIInv
  <1>5. CASE \E valid \in BOOLEAN : Authenticate(valid)
    BY <1>5, AuthenticateIInv
  <1>6. CASE LinkSecure
    BY <1>6, LinkSecureIInv
  <1>7. CASE LinkUnsecure
    BY <1>7, LinkUnsecureIInv
  <1>8. CASE GetData
    BY <1>8, GetDataIInv
  <1>9. CASE \E profile \in Applications : DiscoveryGet(profile)
    BY <1>9, DiscoveryGetIInv
  <1>10. CASE \E reference \in PinReferences \cup {"pairing"} : VerifyStatus(reference)
    BY <1>10, VerifyStatusIInv
  <1>11. CASE \E reference \in PinReferences, body \in {"right", "wrong"},
                 minimum \in MinimumRetries : PinVerify(reference, body, minimum)
    BY <1>11, PinVerifyIInv
  <1>12. CASE PinSubmit
    BY <1>12, PinSubmitIInv
  <1>13. CASE VciWithoutPairing
    BY <1>13, VciWithoutPairingIInv
  <1>14. CASE \E body \in {"right", "wrong"} : VciPaired(body)
    BY <1>14, VciPairedIInv
  <1>15. CASE \E key \in Keys : KeyProve(key)
    BY <1>15, KeyProveIInv
  <1>16. CASE CardReset
    BY <1>16, CardResetIInv
  <1>17. CASE UNCHANGED vars
    BY <1>17, StutterIInv
  <1>18. QED
    BY <1>1, <1>2, <1>3, <1>4, <1>5, <1>6, <1>7, <1>8, <1>9, <1>10, <1>11, <1>12, <1>13,
       <1>14, <1>15, <1>16, <1>17, Zenon DEF Next

\* The inductive invariant holds throughout.
THEOREM Invariant == Spec => []IInv
PROOF
  <1>1. Init => IInv
    BY InitIInv
  <1>2. IInv /\ [Next]_vars => IInv'
    BY NextIInv
  <1>3. QED
    BY <1>1, <1>2, PTL DEF Spec

-----------------------------------------------------------------------------
(* The theorems. *)

\* Every variable keeps its shape, for any constants.
THEOREM TypeCorrect == Spec => []TypeOK
PROOF
  <1>1. IInv => TypeOK
    BY DEF IInv
  <1>2. QED
    BY <1>1, Invariant, PTL

\* Once a caller has secured the link, no eligible command reaches the card in
\* the clear until the caller gives protection up (tc_piv_link_transceive).
THEOREM ProtectionNeverDropped == Spec => []NoDowngrade
PROOF
  <1>1. IInv => NoDowngrade
    BY DEF IInv
  <1>2. QED
    BY <1>1, Invariant, PTL

\* Over the contactless interface no PIN, no pairing code and no use of 9A or
\* 9C travels in the clear (verify_allowed, proof_allowed).
THEOREM SecretsNeverClear == Spec => []SecretsProtected
PROOF
  <1>1. IInv => SecretsProtected
    BY DEF IInv
  <1>2. QED
    BY <1>1, Invariant, PTL

\* Whatever PINs are tried and whatever is lost, TC_PIV_pin_verify never takes
\* the last try of a PIN reference, for any minimum of two or more.
THEOREM PinsNeverBlocked == Spec => []NeverBlocked
PROOF
  <1>1. IInv => NeverBlocked
    BY DEF IInv
  <1>2. QED
    BY <1>1, Invariant, PTL

\* The flags a link reports are true of the card it can still reach, and its
\* keys exist only while they are bound.
THEOREM LinkTellsTheTruth == Spec => []FlagsTrue
PROOF
  <1>1. IInv => FlagsTrue
    <2> SUFFICES ASSUME IInv PROVE FlagsTrue
      OBVIOUS
    <2>1. KeyState(link) /\ Agrees(link, card)
      BY DEF IInv
    <2>2. PinFlagTrue /\ ApplicationTrue
      BY <2>1, Zenon DEF PinFlagTrue, ApplicationTrue, Live, Agrees
    <2>3. KeysHeld
      BY <2>1, Zenon DEF KeysHeld, KeyState
    <2>4. "READY" # "IDLE"
      OBVIOUS
    <2>5. link.vci => link.secured /\ link.sid # 0
      BY <2>1, <2>4, Zenon DEF KeyState
    <2>6. VciFlagTrue
      BY <2>1, <2>5, Zenon DEF VciFlagTrue, Live, Agrees
    <2>7. QED
      BY <2>2, <2>3, <2>6 DEF FlagsTrue
  <1>2. QED
    BY <1>1, Invariant, PTL
=============================================================================
