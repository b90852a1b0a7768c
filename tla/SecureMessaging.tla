--------------------------- MODULE SecureMessaging ---------------------------
(***************************************************************************)
(* A PIV secure messaging session (piv_sm.c, piv_sm_message.c,             *)
(* piv_sm_authenticate.c) against the card that shares it, over a medium   *)
(* that may lose, repeat, delay, reorder and damage what it carries.       *)
(*                                                                         *)
(* A MAC is ideal: the MAC over a chaining value and a message stands for  *)
(* the sequence of all messages authenticated so far under that key, so    *)
(* command_mcv and response_mcv are sequences.  A key is the pair of the   *)
(* host's ephemeral scalar and the card's nonce.  An initialisation vector *)
(* is the pair of the counter's high byte and its low 120 bits.            *)
(***************************************************************************)
EXTENDS Integers, Sequences, FiniteSets, FiniteSetTheorems, TLAPS

CONSTANTS
  Data,         \* plaintexts of commands and responses
  Empty,        \* the zero-length plaintext, which is not encrypted
  Garbled,      \* what decryption under a wrong vector yields
  LowCounter,   \* number of values of the counter's low 15 bytes (2^120)
  MaxBegins,    \* bound on key establishments the host begins
  MaxAnswers    \* bound on key establishments the card answers

ASSUME CounterAssumption == LowCounter \in Nat /\ LowCounter > 1
ASSUME BoundAssumption == MaxBegins \in Nat /\ MaxAnswers \in Nat
ASSUME DataAssumption == Empty \in Data /\ Garbled \notin Data

VARIABLES
  state, scalar, key, counter, command_mcv, response_mcv,   \* TC_PIV_SM
  received,                                   \* plaintexts handed to the caller
  begins, requests, answers, commands, responses,           \* the medium
  nonces, cardKey, log,                                     \* the card
  used, encryptions                                         \* history

session == <<state, scalar, key, counter, command_mcv, response_mcv, received>>
medium  == <<begins, requests, answers, commands, responses>>
card    == <<nonces, cardKey, log>>
history == <<used, encryptions>>
vars    == <<session, medium, card, history>>

NoKey    == <<0, 0>>
Keys     == (1 .. MaxBegins) \X (1 .. MaxAnswers)
HighByte == 128                         \* the 0x80 that marks a response vector
Vectors  == [high : 0 .. 255, low : 0 .. LowCounter - 1]
Answers  == [scalar : 1 .. MaxBegins, nonce : 1 .. MaxAnswers]
Commands == [key : Keys, iv : Vectors, chain : Seq(Data)]
Responses == [key : Keys, iv : Vectors, chain : Seq(Data)]

Last(s) == s[Len(s)]

-----------------------------------------------------------------------------
(* The session. *)

\* TC_PIV_SM_clear zeroes the whole session.
Clear ==
  /\ state' = "IDLE" /\ scalar' = 0 /\ key' = NoKey /\ counter' = 0
  /\ command_mcv' = <<>> /\ response_mcv' = <<>> /\ received' = <<>>

Init ==
  /\ state = "IDLE" /\ scalar = 0 /\ key = NoKey /\ counter = 0
  /\ command_mcv = <<>> /\ response_mcv = <<>> /\ received = <<>>
  /\ begins = 0 /\ requests = {} /\ answers = {}
  /\ commands = {} /\ responses = {}
  /\ nonces = 0 /\ cardKey = NoKey /\ log = [k \in Keys |-> <<>>]
  /\ used = {} /\ encryptions = 0

\* prepare_cipher: a command is encrypted under the counter; a response under
\* the counter of the command before it, its high byte replaced.
VectorOf(count)  == [high |-> count \div LowCounter, low |-> count % LowCounter]
ResponseVector(count) == [high |-> HighByte, low |-> (count - 1) % LowCounter]

\* One CBC encryption of a nonempty plaintext under key k and vector iv.
Encrypt(k, iv, data) ==
  IF data = Empty
    THEN UNCHANGED history
    ELSE /\ used' = used \cup {[key |-> k, iv |-> iv]}
         /\ encryptions' = encryptions + 1

\* TC_PIV_SM_begin, accepted in every state: the random source may fail.
Begin(filled) ==
  /\ begins < MaxBegins
  /\ IF filled
       THEN /\ begins' = begins + 1
            /\ state' = "ESTABLISHING" /\ scalar' = begins + 1
            /\ key' = NoKey /\ counter' = 0
            /\ command_mcv' = <<>> /\ response_mcv' = <<>> /\ received' = <<>>
            /\ requests' = requests \cup {begins + 1}
       ELSE Clear /\ UNCHANGED <<begins, requests>>
  /\ UNCHANGED <<answers, commands, responses, card, history>>

\* finish_response: any malformed field, failed agreement or a cryptogram that
\* differs clears the session; otherwise the traffic keys and counter 1 start.
FinishResponse(a, wellFormed) ==
  IF wellFormed /\ a.scalar = scalar
    THEN /\ state' = "READY" /\ key' = <<scalar, a.nonce>> /\ counter' = 1
         /\ scalar' = 0
         /\ UNCHANGED <<command_mcv, response_mcv, received>>
    ELSE Clear

\* TC_PIV_SM_finish; a call in another state returns without a change.
Finish(a, wellFormed) ==
  /\ state = "ESTABLISHING"
  /\ FinishResponse(a, wellFormed)
  /\ UNCHANGED <<medium, card, history>>

\* TC_PIV_SM_authenticate_response: only a card certificate that verifies
\* under the content signer reaches TC_PIV_SM_finish.
Authenticate(a, wellFormed, chainValid) ==
  /\ state = "ESTABLISHING"
  /\ IF wellFormed /\ chainValid THEN FinishResponse(a, wellFormed) ELSE Clear
  /\ UNCHANGED <<medium, card, history>>

\* Mutant: the stop is left to the 128-bit wrap.
ExhaustedAtWrap(count) == count = 0

\* The stop of TC_PIV_SM_protect before the low 120 bits of the counter repeat.
Exhausted(count) == VectorOf(count).high # 0 \/ count = 0

\* TC_PIV_SM_protect.
Protect(data, cipherWorks) ==
  /\ state = "READY"
  /\ IF Exhausted(counter) \/ ~cipherWorks
       THEN Clear /\ UNCHANGED <<commands, history>>
       ELSE /\ command_mcv' = Append(command_mcv, data)
            /\ commands' = commands \cup {[key |-> key, iv |-> VectorOf(counter),
                                           chain |-> Append(command_mcv, data)]}
            /\ Encrypt(key, VectorOf(counter), data)
            /\ counter' = (counter + 1) % (256 * LowCounter)
            /\ state' = "PENDING"
            /\ UNCHANGED <<scalar, key, response_mcv, received>>
  /\ UNCHANGED <<begins, requests, answers, responses, card>>

\* Mutant: the response MAC leaves out the chaining value.
AuthenticUnchained(r) == r.key = key /\ r.chain # <<>>

\* The response MAC verifies under this session's key and chaining value.
Authentic(r) ==
  /\ r.key = key
  /\ r.chain # <<>>
  /\ r.chain = Append(response_mcv, Last(r.chain))

\* TC_PIV_SM_unprotect: an authentic answer that exceeds the caller's buffer
\* keeps the session PENDING, so the call can be repeated with a larger one.
Unprotect(r, intact, fits) ==
  /\ state = "PENDING"
  /\ IF ~intact \/ ~Authentic(r)
       THEN Clear
     ELSE IF Last(r.chain) # Empty /\ ~fits
       THEN UNCHANGED session
       ELSE /\ response_mcv' = r.chain
            /\ received' = Append(received,
                 IF Last(r.chain) = Empty \/ r.iv = ResponseVector(counter)
                   THEN Last(r.chain) ELSE Garbled)
            /\ state' = "READY"
            /\ UNCHANGED <<scalar, key, counter, command_mcv>>
  /\ UNCHANGED <<medium, card, history>>

\* TC_PIV_SM_clear called by the owner of the session.
Release ==
  /\ state # "IDLE"
  /\ Clear
  /\ UNCHANGED <<medium, card, history>>

-----------------------------------------------------------------------------
(* The card, as the host code expects it to behave (external). *)

\* Key establishment replaces whatever session the card had.
CardEstablish(e) ==
  /\ nonces < MaxAnswers
  /\ nonces' = nonces + 1
  /\ cardKey' = <<e, nonces + 1>>
  /\ answers' = answers \cup {[scalar |-> e, nonce |-> nonces + 1]}
  /\ UNCHANGED <<session, begins, requests, commands, responses, log, history>>

\* The card's counter and chaining values follow from what it has executed.
CardCount == Len(log[cardKey]) + 1
CardCommandMcv == [i \in 1 .. Len(log[cardKey]) |-> log[cardKey][i].command]
CardResponseMcv == [i \in 1 .. Len(log[cardKey]) |-> log[cardKey][i].response]
CardVector == [high |-> HighByte, low |-> CardCount % LowCounter]

CardAccepts(c) ==
  /\ c.key = cardKey
  /\ c.chain = Append(CardCommandMcv, Last(c.chain))

\* A command whose MAC does not continue the chain ends the card's session.
CardExecute(c, data) ==
  /\ cardKey # NoKey
  /\ IF CardAccepts(c)
       THEN /\ log' = [log EXCEPT ![cardKey] = Append(@,
                 [command |-> Last(c.chain), response |-> data,
                  plain |-> IF Last(c.chain) = Empty \/ c.iv = VectorOf(CardCount)
                              THEN Last(c.chain) ELSE Garbled])]
            /\ responses' = responses \cup
                 {[key |-> cardKey, iv |-> CardVector,
                   chain |-> Append(CardResponseMcv, data)]}
            /\ Encrypt(cardKey, CardVector, data)
            /\ UNCHANGED cardKey
       ELSE /\ cardKey' = NoKey
            /\ UNCHANGED <<log, responses, history>>
  /\ UNCHANGED <<session, begins, requests, answers, commands, nonces>>

CardReset ==
  /\ cardKey # NoKey
  /\ cardKey' = NoKey
  /\ UNCHANGED <<session, medium, nonces, log, history>>

-----------------------------------------------------------------------------
Next ==
  \/ \E filled \in BOOLEAN : Begin(filled)
  \/ \E a \in answers, wf \in BOOLEAN : Finish(a, wf)
  \/ \E a \in answers, wf, valid \in BOOLEAN : Authenticate(a, wf, valid)
  \/ \E d \in Data, works \in BOOLEAN : Protect(d, works)
  \/ \E r \in responses, intact, fits \in BOOLEAN : Unprotect(r, intact, fits)
  \/ Release
  \/ \E e \in requests : CardEstablish(e)
  \/ \E c \in commands, d \in Data : CardExecute(c, d)
  \/ CardReset

Spec == Init /\ [][Next]_vars

-----------------------------------------------------------------------------
(* Properties. *)

States == {"IDLE", "ESTABLISHING", "READY", "PENDING"}
Exchange == [command : Data, response : Data, plain : Data \cup {Garbled}]

\* Every variable keeps its type; in particular the counter, a 128-bit number
\* in the code, stays within the 120 bits a session may use, plus the value at
\* which TC_PIV_SM_protect stops.
TypeOK ==
  /\ state \in States
  /\ scalar \in 0 .. MaxBegins
  /\ key \in Keys \cup {NoKey}
  /\ counter \in 0 .. LowCounter
  /\ command_mcv \in Seq(Data) /\ response_mcv \in Seq(Data)
  /\ received \in Seq(Data \cup {Garbled})
  /\ begins \in 0 .. MaxBegins /\ requests \subseteq 1 .. MaxBegins
  /\ answers \subseteq Answers
  /\ commands \subseteq Commands /\ responses \subseteq Responses
  /\ nonces \in 0 .. MaxAnswers
  /\ cardKey \in Keys \cup {NoKey}
  /\ log \in [Keys -> Seq(Exchange)]
  /\ used \subseteq [key : Keys, iv : Vectors]
  /\ encryptions \in Nat

\* No initialisation vector encrypts twice under one key, commands and
\* responses together and up to the last counter value: there are as many
\* distinct pairs of key and vector as there were encryptions (prepare_cipher,
\* the counter stop of TC_PIV_SM_protect, the fresh scalar of TC_PIV_SM_begin).
VectorsDistinct == Cardinality(used) = encryptions

\* What a live session has accepted is the card's own record of the exchange:
\* the i-th accepted answer is the one the card gave to the i-th command, both
\* decrypted to what was sent, and the card has executed nothing more, except
\* the one command still PENDING.
Agreement ==
  state \in {"READY", "PENDING"} =>
    /\ \A i \in DOMAIN received :
         /\ i \in DOMAIN log[key] /\ i \in DOMAIN command_mcv
         /\ log[key][i].plain = command_mcv[i]
         /\ log[key][i].response = received[i]
    /\ Len(log[key]) - Len(received) \in (IF state = "READY" THEN {0} ELSE {0, 1})

(* -------------------------------- proofs --------------------------------- *)

(* Proofs about SecureMessaging, for every set of plaintexts, every        *)
(* counter width and any number of key establishments.                     *)

Live == state \in {"READY", "PENDING"}

\* The session's own fields.  The counter is one more than the number of
\* commands of the chain, and the caller received every chained answer.
SessionInv ==
  /\ Live <=> key # NoKey
  /\ Live => key[1] <= begins
  /\ state = "ESTABLISHING" => scalar \in 1 .. begins
  /\ Live => counter = Len(command_mcv) + 1
  /\ ~Live => command_mcv = <<>> /\ response_mcv = <<>>
  /\ state = "READY" => Len(response_mcv) = Len(command_mcv)
  /\ state = "PENDING" => Len(response_mcv) + 1 = Len(command_mcv)
  /\ received = response_mcv

\* Commands on the medium come from this host; those under the current key are
\* prefixes of its chain.
CommandInv ==
  \A c \in commands :
    /\ Len(c.chain) \in 1 .. LowCounter - 1
    /\ c.iv = [high |-> 0, low |-> Len(c.chain)]
    /\ c.key[1] <= begins
    /\ state = "ESTABLISHING" => c.key[1] < scalar
    /\ Live /\ c.key = key =>
         /\ Len(c.chain) <= Len(command_mcv)
         /\ \A i \in 1 .. Len(c.chain) : c.chain[i] = command_mcv[i]

\* The card executed what the host sent, in the host's order.
LogInv ==
  \A k \in Keys :
    /\ Len(log[k]) < LowCounter
    /\ \A i \in 1 .. Len(log[k]) : log[k][i].plain = log[k][i].command
    /\ log[k] # <<>> => k[1] <= begins
    /\ log[k] # <<>> /\ state = "ESTABLISHING" => k[1] < scalar
    /\ Live /\ k = key =>
         /\ Len(log[k]) <= Len(command_mcv)
         /\ Len(response_mcv) <= Len(log[k])
         /\ \A i \in 1 .. Len(log[k]) : log[k][i].command = command_mcv[i]
         /\ \A i \in 1 .. Len(response_mcv) : log[k][i].response = response_mcv[i]

\* Responses on the medium come from the card's record.
ResponseInv ==
  \A r \in responses :
    /\ Len(r.chain) \in 1 .. Len(log[r.key])
    /\ r.iv = [high |-> HighByte, low |-> Len(r.chain)]
    /\ \A i \in 1 .. Len(r.chain) : r.chain[i] = log[r.key][i].response

\* A vector that was used is below the one used next, on each side.
VectorInv ==
  /\ IsFiniteSet(used)
  /\ VectorsDistinct
  /\ \A u \in used :
       \/ /\ u.iv.high = 0
          /\ u.key[1] <= begins
          /\ state = "ESTABLISHING" => u.key[1] < scalar
          /\ Live /\ u.key = key => u.iv.low < counter
       \/ /\ u.iv.high = HighByte
          /\ u.iv.low <= Len(log[u.key])

IInv == TypeOK /\ SessionInv /\ CommandInv /\ LogInv /\ ResponseInv /\ VectorInv

-----------------------------------------------------------------------------
(* Arithmetic of the counter. *)

\* Below the stop, the vector of a command is its counter.
LEMMA VectorBelow ==
  \A n \in 0 .. LowCounter - 1 :
    /\ VectorOf(n) = [high |-> 0, low |-> n]
    /\ n % LowCounter = n
    /\ n + 1 \in 1 .. LowCounter
    /\ (n + 1) % (256 * LowCounter) = n + 1
  BY CounterAssumption DEF VectorOf

\* A counter that is not exhausted is a positive number below 2^120.
LEMMA NotExhausted ==
  \A n \in 0 .. LowCounter : ~Exhausted(n) => n \in 1 .. LowCounter - 1
  BY CounterAssumption DEF Exhausted, VectorOf

\* The empty chain is a chain.
LEMMA EmptyChain ==
  /\ <<>> \in Seq(Data) /\ <<>> \in Seq(Data \cup {Garbled}) /\ Len(<<>>) = 0
  OBVIOUS

\* A key names a scalar of the host and a nonce of the card.
LEMMA KeyParts ==
  \A k \in Keys : k[1] \in 1 .. MaxBegins /\ k[2] \in 1 .. MaxAnswers
  BY DEF Keys

\* What is on the medium, recorded or used belongs to a key.
LEMMA KeyOf ==
  ASSUME TypeOK
  PROVE  /\ \A c \in commands : c.key \in Keys
         /\ \A r \in responses : r.key \in Keys
         /\ \A u \in used : u.key \in Keys
  BY DEF TypeOK, Commands, Responses

-----------------------------------------------------------------------------
(* Steps. *)

\* A step that changes nothing keeps the invariant.
LEMMA StutterInv ==
  ASSUME IInv, UNCHANGED vars
  PROVE  IInv'
<1>0. UNCHANGED <<session, medium, card, history>>
  BY DEF vars
<1>1. TypeOK'
  BY <1>0 DEF IInv, TypeOK, session, medium, card, history
<1>2. SessionInv' /\ CommandInv'
  BY <1>0 DEF IInv, SessionInv, CommandInv, Live, session, medium
<1>3. LogInv' /\ ResponseInv'
  BY <1>0 DEF IInv, LogInv, ResponseInv, Live, session, medium, card
<1>4. VectorInv'
  BY <1>0 DEF IInv, VectorInv, VectorsDistinct, Live, session, medium, card, history
<1> QED
  BY <1>1, <1>2, <1>3, <1>4 DEF IInv

\* Clearing the session keeps the invariant (TC_PIV_SM_clear).
LEMMA ClearInv ==
  ASSUME IInv, Clear, UNCHANGED <<medium, card, history>>
  PROVE  IInv'
<1>1. TypeOK'
  BY CounterAssumption, BoundAssumption, EmptyChain
  DEF IInv, TypeOK, Clear, medium, card, history, States
<1>2. SessionInv'
  BY DEF IInv, TypeOK, SessionInv, Clear, medium, Live
<1>3. CommandInv'
  BY DEF IInv, CommandInv, Clear, medium, Live
<1>4. LogInv'
  BY DEF IInv, LogInv, Clear, medium, card, Live
<1>5. ResponseInv'
  BY DEF IInv, ResponseInv, medium, card
<1>6. VectorInv'
  BY DEF IInv, VectorInv, VectorsDistinct, Clear, medium, card, history, Live
<1> QED
  BY <1>1, <1>2, <1>3, <1>4, <1>5, <1>6 DEF IInv

\* A random source that delivers starts a session under a scalar that no
\* message on the medium knows (TC_PIV_SM_begin).
LEMMA BeginInv ==
  ASSUME IInv, NEW filled \in BOOLEAN, Begin(filled)
  PROVE  IInv'
<1>1. CASE ~filled
  BY <1>1, ClearInv DEF Begin, medium
<1>2. CASE filled
  <2> USE <1>2 DEF Begin, card, history
  <2>1. TypeOK'
    <3>1. begins \in 0 .. MaxBegins /\ begins < MaxBegins /\ begins' = begins + 1
      BY DEF IInv, TypeOK
    <3>2. begins + 1 \in 1 .. MaxBegins
      BY <3>1, BoundAssumption
    <3>3. requests' \subseteq 1 .. MaxBegins
      BY <3>2 DEF IInv, TypeOK
    <3>4. state' \in States /\ scalar' \in 0 .. MaxBegins /\ counter' \in 0 .. LowCounter
      BY <3>2, CounterAssumption DEF States
    <3> QED
      BY <3>1, <3>2, <3>3, <3>4, EmptyChain DEF IInv, TypeOK
  <2>2. SessionInv'
    BY DEF IInv, TypeOK, SessionInv, Live, NoKey
  <2>3. CommandInv'
    <3> SUFFICES ASSUME NEW c \in commands'
                 PROVE  CommandInv!(c)'
      BY DEF CommandInv
    <3> QED
      BY DEF IInv, TypeOK, CommandInv, Commands, Keys, Live
  <2>4. LogInv'
    BY DEF IInv, TypeOK, LogInv, Keys, Live
  <2>5. ResponseInv'
    BY DEF IInv, ResponseInv
  <2>6. VectorInv'
    BY DEF IInv, TypeOK, VectorInv, VectorsDistinct, Keys, Live
  <2> QED
    BY <2>1, <2>2, <2>3, <2>4, <2>5, <2>6 DEF IInv
<1> QED
  BY <1>1, <1>2

\* Key confirmation succeeds only for an answer to the session's own scalar,
\* whose key has neither commands nor records yet (finish_response).
LEMMA FinishInv ==
  ASSUME IInv, state = "ESTABLISHING",
         NEW a \in answers, NEW wf \in BOOLEAN, FinishResponse(a, wf),
         UNCHANGED <<medium, card, history>>
  PROVE  IInv'
<1>1. CASE ~(wf /\ a.scalar = scalar)
  BY <1>1, ClearInv DEF FinishResponse
<1>2. CASE wf /\ a.scalar = scalar
  <2> USE <1>2 DEF FinishResponse, medium, card, history
  <2>1. key' \in Keys /\ key'[1] = scalar
    BY DEF IInv, TypeOK, Answers, Keys
  <2>2. TypeOK'
    BY <2>1, CounterAssumption, BoundAssumption DEF IInv, TypeOK, States
  <2>3. SessionInv'
    BY <2>1 DEF IInv, TypeOK, SessionInv, Live, NoKey, Keys
  <2>4. CommandInv'
    <3> SUFFICES ASSUME NEW c \in commands
                 PROVE  CommandInv!(c)'
      BY DEF CommandInv
    <3>1. c.key[1] \in Nat /\ c.key[1] < scalar
      <4>1. c.key \in Keys
        BY KeyOf DEF IInv
      <4>2. c.key[1] < scalar
        BY DEF IInv, CommandInv
      <4> QED
        BY <4>1, <4>2, KeyParts
    <3>2. c.key # key'
      BY <3>1, <2>1 DEF IInv, TypeOK
    <3> QED
      BY <3>2 DEF IInv, CommandInv
  <2>5. LogInv'
    <3> SUFFICES ASSUME NEW j \in Keys
                 PROVE  LogInv!(j)'
      BY DEF LogInv
    <3>1. /\ Len(log[j]) < LowCounter
          /\ \A i \in 1 .. Len(log[j]) : log[j][i].plain = log[j][i].command
          /\ log[j] # <<>> => j[1] <= begins
          /\ log[j] # <<>> => j[1] < scalar
      BY Zenon DEF IInv, LogInv
    <3>2. command_mcv = <<>> /\ response_mcv = <<>> /\ UNCHANGED <<log, begins, command_mcv, response_mcv>>
      BY DEF IInv, SessionInv, Live
    <3>3. ASSUME j = key' PROVE log[j] = <<>>
      <4>1. ~(j[1] < scalar)
        BY <2>1, <3>3 DEF IInv, TypeOK
      <4> QED
        BY <3>1, <4>1, Zenon
    <3>4. state' # "ESTABLISHING"
      BY DEF IInv
    <3>5. ASSUME j = key' PROVE LogInv!(j)!5!2'
      <4>1. log'[j] = <<>> /\ command_mcv' = <<>> /\ response_mcv' = <<>>
        BY <3>2, <3>3, <3>5, Zenon
      <4> QED
        BY <4>1
    <3>6. /\ Len(log'[j]) < LowCounter
          /\ \A i \in 1 .. Len(log'[j]) : log'[j][i].plain = log'[j][i].command
          /\ log'[j] # <<>> => j[1] <= begins'
      BY <3>1, <3>2, Zenon
    <3> HIDE <1>2 DEF FinishResponse, medium, card, history
    <3> QED
      BY <3>4, <3>5, <3>6
  <2>6. ResponseInv'
    BY DEF IInv, ResponseInv
  <2>7. VectorInv'
    BY <2>1 DEF IInv, TypeOK, VectorInv, VectorsDistinct, Keys, Live
  <2> QED
    BY <2>2, <2>3, <2>4, <2>5, <2>6, <2>7 DEF IInv
<1> QED
  BY <1>1, <1>2

\* A protected command extends the chain, its vector is new and the counter
\* moves past it; an exhausted counter or a failed cipher clears the session
\* (TC_PIV_SM_protect).
LEMMA ProtectInv ==
  ASSUME IInv, NEW d \in Data, NEW works \in BOOLEAN, Protect(d, works)
  PROVE  IInv'
<1>1. CASE Exhausted(counter) \/ ~works
  BY <1>1, ClearInv DEF Protect, medium
<1>2. CASE ~(Exhausted(counter) \/ ~works)
  <2> DEFINE iv == [high |-> 0, low |-> counter]
             new == [key |-> key, iv |-> iv, chain |-> Append(command_mcv, d)]
  <2>1. counter \in 1 .. LowCounter - 1 /\ state = "READY" /\ Live
    BY <1>2, NotExhausted DEF IInv, TypeOK, Protect, Live
  <2>2. key \in Keys /\ key[1] \in Nat /\ counter = Len(command_mcv) + 1
    BY <2>1, KeyParts DEF IInv, TypeOK, SessionInv
  <2>3. VectorOf(counter) = iv /\ (counter + 1) % (256 * LowCounter) = counter + 1
    BY <2>1, VectorBelow
  <2>4. /\ command_mcv' = Append(command_mcv, d) /\ counter' = counter + 1
        /\ commands' = commands \cup {new} /\ Encrypt(key, iv, d)
        /\ state' = "PENDING"
    BY <1>2, <2>1, <2>3 DEF Protect
  <2>5. UNCHANGED <<scalar, key, response_mcv, received, begins, requests,
                    answers, responses, nonces, cardKey, log>>
    BY <1>2 DEF Protect, card
  <2>6. /\ command_mcv \in Seq(Data) /\ Append(command_mcv, d) \in Seq(Data)
        /\ Len(Append(command_mcv, d)) = counter
        /\ \A i \in 1 .. Len(command_mcv) : Append(command_mcv, d)[i] = command_mcv[i]
    BY <2>2 DEF IInv, TypeOK
  <2>7. iv \in Vectors /\ new \in Commands
    BY <2>1, <2>2, <2>6 DEF Vectors, Commands
  <2>8. [key |-> key, iv |-> iv] \notin used
    BY <2>1, <2>2 DEF IInv, VectorInv, HighByte
  <2>9. TypeOK'
    <3>1. used' \subseteq [key : Keys, iv : Vectors] /\ encryptions' \in Nat
      BY <2>2, <2>4, <2>7 DEF IInv, TypeOK, Encrypt, history
    <3>2. counter' \in 0 .. LowCounter
      BY <2>1, <2>4, CounterAssumption
    <3> QED
      BY <3>1, <3>2, <2>4, <2>5, <2>6, <2>7 DEF IInv, TypeOK, States
  <2>10. SessionInv'
    BY <2>1, <2>2, <2>4, <2>5, <2>6 DEF IInv, TypeOK, SessionInv, Live
  <2>11. CommandInv'
    <3> SUFFICES ASSUME NEW c \in commands'
                 PROVE  CommandInv!(c)'
      BY DEF CommandInv
    <3>1. CASE c \in commands
      <4>1. c.chain \in Seq(Data)
        BY <3>1 DEF IInv, TypeOK, Commands
      <4> QED
        BY <3>1, <4>1, <2>1, <2>2, <2>4, <2>5, <2>6 DEF IInv, TypeOK, CommandInv, Live
    <3>2. CASE c = new
      BY <3>2, <2>1, <2>2, <2>4, <2>5, <2>6 DEF IInv, SessionInv, Live
    <3> QED
      BY <3>1, <3>2, <2>4
  <2>12. LogInv'
    BY <2>1, <2>2, <2>4, <2>5, <2>6 DEF IInv, TypeOK, LogInv, Live
  <2>13. ResponseInv'
    BY <2>5 DEF IInv, ResponseInv
  <2>14. VectorInv'
    <3>1. CASE d = Empty
      BY <3>1, <2>1, <2>4, <2>5 DEF IInv, TypeOK, VectorInv, VectorsDistinct,
         Encrypt, history, Live, Vectors
    <3>2. CASE d # Empty
      <4>1. used' = used \cup {[key |-> key, iv |-> iv]} /\ encryptions' = encryptions + 1
        BY <3>2, <2>4 DEF Encrypt
      <4>2. IsFiniteSet(used') /\ VectorsDistinct'
        BY <4>1, <2>8, FS_AddElement DEF IInv, TypeOK, VectorInv, VectorsDistinct
      <4>3. \A u \in used' : VectorInv!3!(u)'
        BY <4>1, <2>1, <2>2, <2>4, <2>5 DEF IInv, TypeOK, SessionInv, VectorInv, Live, Vectors
      <4> QED
        BY <4>2, <4>3 DEF VectorInv
    <3> QED
      BY <3>1, <3>2
  <2> QED
    BY <2>9, <2>10, <2>11, <2>12, <2>13, <2>14 DEF IInv
<1> QED
  BY <1>1, <1>2

\* An authentic answer is the card's record of the pending command; it decrypts
\* under the vector the card used (TC_PIV_SM_unprotect).
LEMMA UnprotectInv ==
  ASSUME IInv, NEW r \in responses, NEW intact \in BOOLEAN, NEW fits \in BOOLEAN,
         Unprotect(r, intact, fits)
  PROVE  IInv'
<1> DEFINE refused == ~intact \/ ~Authentic(r)
           short == Last(r.chain) # Empty /\ ~fits
<1>0. UNCHANGED <<medium, card, history>>
  BY DEF Unprotect
<1>1. CASE refused
  BY <1>0, <1>1, ClearInv DEF Unprotect
<1>2. CASE ~refused /\ short
  <2>1. UNCHANGED <<session, medium, card, history>>
    BY <1>0, <1>2 DEF Unprotect
  <2> QED
    BY <2>1, StutterInv DEF vars
<1>3. CASE ~refused /\ ~short
  <2>1. /\ state = "PENDING" /\ state' = "READY" /\ Live
        /\ response_mcv' = r.chain
        /\ received' = Append(received,
             IF Last(r.chain) = Empty \/ r.iv = ResponseVector(counter)
               THEN Last(r.chain) ELSE Garbled)
        /\ UNCHANGED <<scalar, key, counter, command_mcv>>
    BY <1>3 DEF Unprotect, Live
  <2>2. r.key = key /\ key \in Keys /\ r.chain = Append(response_mcv, Last(r.chain))
    BY <1>3, KeyOf DEF IInv, Authentic
  <2>3. /\ r.chain \in Seq(Data) /\ response_mcv \in Seq(Data) /\ command_mcv \in Seq(Data)
        /\ log[key] \in Seq(Exchange)
    BY <2>2 DEF IInv, TypeOK, Responses
  <2>4. /\ Len(r.chain) \in 1 .. Len(log[key])
        /\ r.iv = [high |-> HighByte, low |-> Len(r.chain)]
        /\ \A i \in 1 .. Len(r.chain) : r.chain[i] = log[key][i].response
    BY <2>2 DEF IInv, ResponseInv
  <2>5. Len(r.chain) = Len(command_mcv) /\ Len(log[key]) = Len(command_mcv)
    <3>1. Len(r.chain) = Len(response_mcv) + 1
      BY <2>2, <2>3
    <3>2. Len(response_mcv) + 1 = Len(command_mcv)
      BY <2>1 DEF IInv, SessionInv
    <3>3. Len(log[key]) <= Len(command_mcv)
      BY <2>1, <2>2 DEF IInv, LogInv
    <3> QED
      BY <2>3, <2>4, <3>1, <3>2, <3>3
  <2>6. counter = Len(r.chain) + 1 /\ Len(r.chain) \in 0 .. LowCounter - 1
    BY <2>1, <2>3, <2>5, CounterAssumption DEF IInv, TypeOK, SessionInv
  <2>7. r.iv = ResponseVector(counter)
    <3>1. counter - 1 = Len(r.chain)
      BY <2>6
    <3>2. Len(r.chain) % LowCounter = Len(r.chain)
      BY <2>6, VectorBelow
    <3> QED
      BY <2>4, <3>1, <3>2 DEF ResponseVector
  <2>8. received' = r.chain
    BY <2>1, <2>2, <2>7 DEF IInv, SessionInv
  <2>9. TypeOK'
    <3>1. received' \in Seq(Data \cup {Garbled})
      BY <2>3, <2>8
    <3> QED
      BY <1>0, <2>1, <2>3, <3>1 DEF IInv, TypeOK, States, medium, card, history
  <2>10. SessionInv'
    BY <1>0, <2>1, <2>3, <2>5, <2>8 DEF IInv, TypeOK, SessionInv, Live, medium
  <2>11. CommandInv'
    BY <1>0, <2>1 DEF IInv, CommandInv, Live, medium
  <2>12. LogInv'
    <3> SUFFICES ASSUME NEW k \in Keys
                 PROVE  LogInv!(k)'
      BY DEF LogInv
    <3>1. CASE k = key
      BY <1>0, <2>1, <2>3, <2>4, <2>5, <3>1 DEF IInv, LogInv, Live, medium, card
    <3>2. CASE k # key
      BY <1>0, <2>1, <3>2 DEF IInv, LogInv, Live, medium, card
    <3> QED
      BY <3>1, <3>2
  <2>13. ResponseInv'
    BY <1>0 DEF IInv, ResponseInv, medium, card
  <2>14. VectorInv'
    BY <1>0, <2>1 DEF IInv, VectorInv, VectorsDistinct, Live, medium, card, history
  <2> QED
    BY <2>9, <2>10, <2>11, <2>12, <2>13, <2>14 DEF IInv
<1> QED
  BY <1>1, <1>2, <1>3

\* The card takes a key no earlier establishment had.
LEMMA CardEstablishInv ==
  ASSUME IInv, NEW e \in requests, CardEstablish(e)
  PROVE  IInv'
<1>1. /\ nonces \in 0 .. MaxAnswers /\ nonces < MaxAnswers /\ nonces' = nonces + 1
      /\ e \in 1 .. MaxBegins
  BY DEF IInv, TypeOK, CardEstablish
<1>2. nonces + 1 \in 1 .. MaxAnswers
  BY <1>1, BoundAssumption
<1>3. cardKey' \in Keys /\ answers' \subseteq Answers
  BY <1>1, <1>2 DEF IInv, TypeOK, CardEstablish, Keys, Answers
<1>4. UNCHANGED <<session, begins, requests, commands, responses, log, history>>
  BY DEF CardEstablish
<1>5. TypeOK'
  BY <1>1, <1>2, <1>3, <1>4 DEF IInv, TypeOK, session, history
<1>6. SessionInv' /\ CommandInv' /\ LogInv' /\ ResponseInv' /\ VectorInv'
  BY <1>4 DEF IInv, SessionInv, CommandInv, LogInv, ResponseInv, VectorInv,
     VectorsDistinct, Live, session, history
<1> QED
  BY <1>5, <1>6 DEF IInv

\* The card's chaining values are chains as long as its record.
LEMMA Projections ==
  ASSUME NEW s \in Seq(Exchange)
  PROVE  LET com == [i \in 1 .. Len(s) |-> s[i].command]
             res == [i \in 1 .. Len(s) |-> s[i].response]
         IN  /\ com \in Seq(Data) /\ Len(com) = Len(s)
             /\ res \in Seq(Data) /\ Len(res) = Len(s)
<1> DEFINE com == [i \in 1 .. Len(s) |-> s[i].command]
           res == [i \in 1 .. Len(s) |-> s[i].response]
<1>1. \A i \in 1 .. Len(s) : s[i].command \in Data /\ s[i].response \in Data
  <2>1. \A i \in 1 .. Len(s) : s[i] \in Exchange
    OBVIOUS
  <2> QED
    BY <2>1 DEF Exchange
<1>2. com \in [1 .. Len(s) -> Data] /\ res \in [1 .. Len(s) -> Data] /\ Len(s) \in Nat
  BY <1>1
<1> HIDE DEF com, res
<1>3. com \in Seq(Data) /\ Len(com) = Len(s) /\ res \in Seq(Data) /\ Len(res) = Len(s)
  BY <1>2
<1> QED
  BY <1>3 DEF com, res

\* The card executes a command only where the host's chain continues its own,
\* and its response vector is new.
LEMMA CardExecuteInv ==
  ASSUME IInv, NEW c \in commands, NEW d \in Data, CardExecute(c, d)
  PROVE  IInv'
<1>0. UNCHANGED <<session, begins, requests, answers, commands, nonces>>
  BY DEF CardExecute
<1>1. CASE ~CardAccepts(c)
  <2>1. cardKey' = NoKey /\ UNCHANGED <<log, responses, history>>
    BY <1>1 DEF CardExecute
  <2> QED
    BY <1>0, <2>1 DEF IInv, TypeOK, SessionInv, CommandInv, LogInv, ResponseInv,
       VectorInv, VectorsDistinct, Live, session, history
<1>2. CASE CardAccepts(c)
  <2> DEFINE k == cardKey
             n == Len(log[k])
             done == [command |-> Last(c.chain), response |-> d, plain |-> Last(c.chain)]
             iv == [high |-> HighByte, low |-> n + 1]
             answer == [key |-> k, iv |-> iv, chain |-> Append(CardResponseMcv, d)]
  <2>1. c.key = k /\ k \in Keys /\ c.chain = Append(CardCommandMcv, Last(c.chain))
    BY <1>2, KeyOf DEF IInv, CardAccepts
  <2>2. log[k] \in Seq(Exchange) /\ n \in Nat /\ c.chain \in Seq(Data)
    BY <2>1 DEF IInv, TypeOK, Commands
  <2>3. CardCommandMcv \in Seq(Data) /\ Len(CardCommandMcv) = n
    BY <2>2, Projections DEF CardCommandMcv
  <2>4. CardResponseMcv \in Seq(Data) /\ Len(CardResponseMcv) = n
    BY <2>2, Projections DEF CardResponseMcv
  <2>5. Len(c.chain) = n + 1 /\ n + 1 \in 1 .. LowCounter - 1
    <3>1. Len(c.chain) = n + 1
      BY <2>1, <2>3
    <3> QED
      BY <3>1, <2>2 DEF IInv, CommandInv
  <2>6. Last(c.chain) \in Data
    BY <2>2, <2>5 DEF Last
  <2>7. CardVector = iv /\ c.iv = VectorOf(CardCount)
    <3>1. CardCount = n + 1
      BY DEF CardCount
    <3>2. (n + 1) % LowCounter = n + 1 /\ VectorOf(n + 1) = [high |-> 0, low |-> n + 1]
      BY <2>5, VectorBelow
    <3> QED
      BY <2>5, <3>1, <3>2 DEF CardVector, IInv, CommandInv
  <2>8. /\ log' = [log EXCEPT ![k] = Append(@, done)]
        /\ responses' = responses \cup {answer}
        /\ Encrypt(k, iv, d) /\ cardKey' = cardKey
    BY <1>2, <2>7 DEF CardExecute
  <2>9. /\ log'[k] = Append(log[k], done) /\ Len(log'[k]) = n + 1
        /\ \A i \in 1 .. n : log'[k][i] = log[k][i]
        /\ log'[k][n + 1] = done
        /\ \A j \in Keys : j # k => log'[j] = log[j]
    <3>1. log \in [Keys -> Seq(Exchange)]
      BY DEF IInv, TypeOK
    <3> HIDE DEF k, done
    <3>2. log'[k] = Append(log[k], done) /\ \A j \in Keys : j # k => log'[j] = log[j]
      BY <2>1, <2>8, <3>1
    <3> QED
      BY <2>2, <3>2
  <2>10. done \in Exchange /\ iv \in Vectors /\ answer \in Responses
    <3>1. done \in Exchange
      BY <2>6 DEF Exchange
    <3>2. iv \in Vectors
      BY <2>5 DEF Vectors, HighByte
    <3>3. Append(CardResponseMcv, d) \in Seq(Data)
      BY <2>4
    <3> HIDE DEF iv, k
    <3> QED
      BY <2>1, <3>1, <3>2, <3>3 DEF Responses, k
  <2>11. [key |-> k, iv |-> iv] \notin used
    BY <2>2 DEF IInv, VectorInv, HighByte
  <2>12. TypeOK'
    <3>1. used' \subseteq [key : Keys, iv : Vectors] /\ encryptions' \in Nat
      <4> HIDE DEF k, iv
      <4>1. [key |-> k, iv |-> iv] \in [key : Keys, iv : Vectors]
        BY <2>1, <2>10
      <4>2. used \subseteq [key : Keys, iv : Vectors] /\ encryptions \in Nat
        BY DEF IInv, TypeOK
      <4>3. Encrypt(k, iv, d)
        BY <2>8
      <4>4. CASE d = Empty
        <5>1. used' = used /\ encryptions' = encryptions
          BY <4>3, <4>4 DEF Encrypt, history
        <5> QED
          BY <4>2, <5>1
      <4>5. CASE d # Empty
        <5>1. used' = used \cup {[key |-> k, iv |-> iv]} /\ encryptions' = encryptions + 1
          BY <4>3, <4>5 DEF Encrypt
        <5> QED
          BY <4>1, <4>2, <5>1
      <4> QED
        BY <4>4, <4>5
    <3>2. log' \in [Keys -> Seq(Exchange)]
      <4> HIDE DEF k, done
      <4>1. Append(log[k], done) \in Seq(Exchange)
        BY <2>2, <2>10
      <4> QED
        BY <2>1, <2>8, <4>1 DEF IInv, TypeOK
    <3> QED
      BY <1>0, <2>8, <2>10, <3>1, <3>2 DEF IInv, TypeOK, session
  <2>10a. done.command = Last(c.chain) /\ done.plain = Last(c.chain) /\ done.response = d
    OBVIOUS
  <2>13. SessionInv' /\ CommandInv'
    BY <1>0 DEF IInv, SessionInv, CommandInv, Live, session
  <2>14. LogInv'
    <3> SUFFICES ASSUME NEW j \in Keys
                 PROVE  LogInv!(j)'
      BY DEF LogInv
    <3>0. /\ UNCHANGED <<state, scalar, key, begins, command_mcv, response_mcv>>
          /\ Live' <=> Live
      BY <1>0 DEF session, Live
    <3>1. CASE j # k
      <4>1. log'[j] = log[j]
        BY <2>9, <3>1
      <4>2. LogInv!(j)
        BY DEF IInv, LogInv
      <4> QED
        BY <3>0, <4>1, <4>2
    <3>2. CASE j = k
      <4>1. Len(log'[k]) < LowCounter
        <5>1. Len(log'[k]) = n + 1
          BY <2>9, Zenon
        <5>2. n + 1 < LowCounter
          <6> HIDE DEF n
          <6> QED
            BY <2>2, <2>5, CounterAssumption
        <5> QED
          BY <5>1, <5>2, Zenon
      <4>2. \A i \in 1 .. Len(log'[k]) : log'[k][i].plain = log'[k][i].command
        <5>1. \A i \in 1 .. n : log[k][i].plain = log[k][i].command
          BY <2>1 DEF IInv, LogInv
        <5>2. log'[k][n + 1].plain = log'[k][n + 1].command
          BY <2>9, <2>10a
        <5>3. Len(log'[k]) = n + 1 /\ \A i \in 1 .. n : log'[k][i] = log[k][i]
          BY <2>9
        <5> HIDE DEF k, n, done, iv, answer
        <5>4. \A i \in 1 .. n + 1 : i \in 1 .. n \/ i = n + 1
          BY <2>2
        <5> QED
          BY <5>1, <5>2, <5>3, <5>4
      <4>3. k[1] <= begins /\ (state = "ESTABLISHING" => k[1] < scalar)
        BY <2>1 DEF IInv, CommandInv
      <4>4. ASSUME Live, k = key
            PROVE  /\ n + 1 <= Len(command_mcv)
                   /\ \A i \in 1 .. n + 1 : log'[k][i].command = command_mcv[i]
                   /\ Len(response_mcv) <= n
                   /\ \A i \in 1 .. Len(response_mcv) : log'[k][i].response = response_mcv[i]
        <5>1. /\ Len(c.chain) <= Len(command_mcv)
              /\ \A i \in 1 .. Len(c.chain) : c.chain[i] = command_mcv[i]
          BY <2>1, <4>4 DEF IInv, CommandInv
        <5>2. done.command = command_mcv[n + 1]
          BY <2>2, <2>5, <5>1 DEF Last
        <5>3. \A i \in 1 .. n : log[k][i].command = command_mcv[i]
          BY <2>1, <4>4 DEF IInv, LogInv
        <5>4. /\ Len(response_mcv) \in Nat /\ Len(response_mcv) <= n
              /\ \A i \in 1 .. Len(response_mcv) : log[k][i].response = response_mcv[i]
          <6>1. Len(response_mcv) \in Nat
            BY DEF IInv, TypeOK
          <6>2. /\ Len(response_mcv) <= n
                /\ \A i \in 1 .. Len(response_mcv) : log[k][i].response = response_mcv[i]
            BY <2>1, <4>4, Zenon DEF IInv, LogInv
          <6> QED
            BY <6>1, <6>2, Zenon
        <5>5. \A i \in 1 .. n : log'[k][i] = log[k][i]
          BY <2>9
        <5>6. log'[k][n + 1].command = command_mcv[n + 1]
          BY <2>9, <5>2
        <5>7. n \in Nat /\ n + 1 <= Len(command_mcv)
          BY <2>2, <2>5, <5>1
        <5> HIDE DEF k, n, done, iv, answer
        <5>8. /\ \A i \in 1 .. n + 1 : i \in 1 .. n \/ i = n + 1
              /\ 1 .. Len(response_mcv) \subseteq 1 .. n
          BY <5>4, <5>7
        <5> QED
          BY <5>3, <5>4, <5>5, <5>6, <5>7, <5>8, Zenon
      <4> QED
        <5>1. log'[j] = log'[k] /\ Len(log'[j]) = n + 1
          BY <2>9, <3>2
        <5> HIDE DEF k, n, done, iv, answer
        <5>2. Len(log[j])' < LowCounter /\ (\A i \in 1 .. Len(log[j]) : log[j][i].plain = log[j][i].command)'
          BY <4>1, <4>2, <5>1
        <5>3. j[1] <= begins' /\ (state' = "ESTABLISHING" => j[1] < scalar')
          BY <3>0, <3>2, <4>3
        <5>4. ASSUME Live', j = key'
              PROVE  LogInv!(j)!5!2'
          <6>1. Live /\ k = key
            BY <3>0, <3>2, <5>4
          <6>2. Len(response_mcv) \in Nat
            BY DEF IInv, TypeOK
          <6>3. /\ n + 1 <= Len(command_mcv)
                /\ \A i \in 1 .. n + 1 : log'[k][i].command = command_mcv[i]
                /\ Len(response_mcv) <= n
                /\ \A i \in 1 .. Len(response_mcv) : log'[k][i].response = response_mcv[i]
            BY <4>4, <6>1, Zenon
          <6>4. Len(response_mcv) <= n + 1
            BY <2>2, <6>2, <6>3
          <6>5. command_mcv' = command_mcv /\ response_mcv' = response_mcv
            BY <3>0, Zenon
          <6> QED
            BY <5>1, <6>3, <6>4, <6>5, Zenon
        <5> QED
          BY <5>2, <5>3, <5>4
    <3> QED
      BY <3>1, <3>2
  <2>15. ResponseInv'
    <3> SUFFICES ASSUME NEW r \in responses'
                 PROVE  ResponseInv!(r)'
      BY DEF ResponseInv
    <3>1. CASE r \in responses
      <4>1. r.key \in Keys
        BY <3>1, KeyOf DEF IInv
      <4> QED
        <5>1. /\ Len(r.chain) \in 1 .. Len(log[r.key])
              /\ r.iv = [high |-> HighByte, low |-> Len(r.chain)]
              /\ \A i \in 1 .. Len(r.chain) : r.chain[i] = log[r.key][i].response
          BY <3>1 DEF IInv, ResponseInv
        <5>2. CASE r.key = k
          <6>1. Len(r.chain) \in 1 .. n /\ \A i \in 1 .. Len(r.chain) : r.chain[i] = log[k][i].response
            BY <5>1, <5>2
          <6>2. log'[r.key] = log'[k]
            BY <5>2
          <6> HIDE DEF k, n, done, iv, answer
          <6>3. Len(r.chain) \in 1 .. n + 1
            BY <2>2, <6>1
          <6>4. \A i \in 1 .. Len(r.chain) : r.chain[i] = log'[k][i].response
            BY <2>2, <2>9, <6>1
          <6> QED
            BY <2>9, <5>1, <6>2, <6>3, <6>4
        <5>3. CASE r.key # k
          BY <2>9, <4>1, <5>1, <5>3
        <5> QED
          BY <5>2, <5>3
    <3>2. CASE r = answer
      <4>1. r.chain = Append(CardResponseMcv, d) /\ Len(r.chain) = n + 1
        BY <2>4, <3>2
      <4>2. \A i \in 1 .. n + 1 : r.chain[i] = log'[k][i].response
        <5>1. \A i \in 1 .. n : CardResponseMcv[i] = log[k][i].response
          BY DEF CardResponseMcv
        <5>2. r.chain[n + 1] = d /\ \A i \in 1 .. n : r.chain[i] = CardResponseMcv[i]
          BY <2>2, <2>4, <4>1
        <5>3. log'[k][n + 1].response = d
          BY <2>9, <2>10a
        <5>4. \A i \in 1 .. n : log'[k][i] = log[k][i]
          BY <2>9
        <5> HIDE DEF k, n, done, iv, answer
        <5>5. \A i \in 1 .. n + 1 : i \in 1 .. n \/ i = n + 1
          BY <2>2
        <5> QED
          BY <5>1, <5>2, <5>3, <5>4, <5>5
      <4>3. r.key = k /\ r.iv = [high |-> HighByte, low |-> n + 1]
        BY <3>2
      <4>4. Len(log'[k]) = n + 1
        BY <2>9
      <4> HIDE DEF k, n, done, iv, answer
      <4> QED
        BY <2>2, <4>1, <4>2, <4>3, <4>4
    <3> QED
      BY <2>8, <3>1, <3>2
  <2>16. VectorInv'
    <3>1. \A u \in used : VectorInv!3!(u)'
      <4> SUFFICES ASSUME NEW u \in used
                   PROVE  VectorInv!3!(u)'
        OBVIOUS
      <4>1. u.key \in Keys /\ u.iv.low \in Nat
        BY CounterAssumption DEF IInv, TypeOK, Vectors
      <4> QED
        <5>1. Len(log[u.key]) \in Nat /\ Len(log[u.key]) <= Len(log'[u.key])
          <6>0. log[u.key] \in Seq(Exchange)
            BY <4>1 DEF IInv, TypeOK
          <6> HIDE DEF k, done
          <6>1. CASE u.key = k
            <7>1. Len(log'[u.key]) = n + 1 /\ Len(log[u.key]) = n
              BY <2>9, <6>1, Zenon
            <7> HIDE DEF n
            <7> QED
              BY <2>2, <7>1
          <6>2. CASE u.key # k
            BY <2>9, <4>1, <6>0, <6>2
          <6> QED
            BY <6>1, <6>2
        <5>2. VectorInv!3!(u)
          BY DEF IInv, VectorInv
        <5> QED
          BY <1>0, <4>1, <5>1, <5>2 DEF Live, session
    <3>2. CASE d = Empty
      BY <2>8, <3>1, <3>2 DEF IInv, VectorInv, VectorsDistinct, Encrypt, history
    <3>3. CASE d # Empty
      <4>1. used' = used \cup {[key |-> k, iv |-> iv]} /\ encryptions' = encryptions + 1
        BY <2>8, <3>3 DEF Encrypt
      <4>2. IsFiniteSet(used') /\ VectorsDistinct'
        BY <4>1, <2>11, FS_AddElement DEF IInv, TypeOK, VectorInv, VectorsDistinct
      <4>3. \A u \in used' \ used : u.iv.high = HighByte /\ u.iv.low <= Len(log'[u.key])
        <5>1. \A u \in used' \ used : u.key = k /\ u.iv = iv
          BY <4>1
        <5>2. iv.high = HighByte /\ iv.low = n + 1
          OBVIOUS
        <5> HIDE DEF k, n, done, iv, answer
        <5> QED
          BY <2>2, <2>9, <5>1, <5>2
      <4> QED
        BY <3>1, <4>2, <4>3 DEF VectorInv, HighByte
    <3> QED
      BY <3>2, <3>3
  <2> QED
    BY <2>12, <2>13, <2>14, <2>15, <2>16 DEF IInv
<1> QED
  BY <1>1, <1>2

-----------------------------------------------------------------------------
(* The invariant, and what follows from it. *)

\* IInv is inductive.
LEMMA Inductive == Spec => []IInv
<1>1. Init => IInv
  <2> SUFFICES ASSUME Init PROVE IInv
    OBVIOUS
  <2>1. TypeOK
    BY CounterAssumption, BoundAssumption, EmptyChain DEF Init, TypeOK, States
  <2>2. SessionInv /\ CommandInv /\ ResponseInv
    BY DEF Init, SessionInv, CommandInv, ResponseInv, Live
  <2>3. LogInv
    BY CounterAssumption, EmptyChain DEF Init, LogInv, Live
  <2>4. VectorInv
    BY FS_EmptySet DEF Init, VectorInv, VectorsDistinct
  <2> QED
    BY <2>1, <2>2, <2>3, <2>4 DEF IInv
<1>2. IInv /\ [Next]_vars => IInv'
  <2> SUFFICES ASSUME IInv, [Next]_vars PROVE IInv'
    OBVIOUS
  <2>1. ASSUME NEW filled \in BOOLEAN, Begin(filled) PROVE IInv'
    BY <2>1, BeginInv
  <2>2. ASSUME NEW a \in answers, NEW wf \in BOOLEAN, Finish(a, wf) PROVE IInv'
    BY <2>2, FinishInv DEF Finish
  <2>3. ASSUME NEW a \in answers, NEW wf \in BOOLEAN, NEW valid \in BOOLEAN,
               Authenticate(a, wf, valid)
        PROVE  IInv'
    BY <2>3, FinishInv, ClearInv DEF Authenticate
  <2>4. ASSUME NEW d \in Data, NEW works \in BOOLEAN, Protect(d, works) PROVE IInv'
    BY <2>4, ProtectInv
  <2>5. ASSUME NEW r \in responses, NEW intact \in BOOLEAN, NEW fits \in BOOLEAN,
               Unprotect(r, intact, fits)
        PROVE  IInv'
    BY <2>5, UnprotectInv
  <2>6. CASE Release
    BY <2>6, ClearInv DEF Release
  <2>7. ASSUME NEW e \in requests, CardEstablish(e) PROVE IInv'
    BY <2>7, CardEstablishInv
  <2>8. ASSUME NEW c \in commands, NEW d \in Data, CardExecute(c, d) PROVE IInv'
    BY <2>8, CardExecuteInv
  <2>9. CASE CardReset
    BY <2>9 DEF CardReset, IInv, TypeOK, SessionInv, CommandInv, LogInv, ResponseInv,
       VectorInv, VectorsDistinct, Live, session, medium, history
  <2>10. CASE UNCHANGED vars
    BY <2>10, StutterInv
  <2> QED
    BY <2>1, <2>2, <2>3, <2>4, <2>5, <2>6, <2>7, <2>8, <2>9, <2>10 DEF Next
<1> QED
  BY <1>1, <1>2, PTL DEF Spec

\* The session keeps its types, the counter within 120 bits included, whatever
\* the medium delivers (piv_sm.c, piv_sm_message.c).
THEOREM TypeCorrect == Spec => []TypeOK
<1>1. IInv => TypeOK
  BY DEF IInv
<1> QED
  BY <1>1, Inductive, PTL

\* No initialisation vector is used twice under one key (prepare_cipher and the
\* counter stop of TC_PIV_SM_protect), for every counter width.
THEOREM VectorsNeverRepeat == Spec => []VectorsDistinct
<1>1. IInv => VectorsDistinct
  BY DEF IInv, VectorInv
<1> QED
  BY <1>1, Inductive, PTL

\* A live session and the card agree on every accepted exchange
\* (TC_PIV_SM_protect, TC_PIV_SM_unprotect), for any number of establishments.
THEOREM SessionsAgree == Spec => []Agreement
<1>1. IInv => Agreement
  <2> SUFFICES ASSUME IInv, Live PROVE Agreement
    BY DEF Agreement, Live
  <2>1. key \in Keys
    BY DEF IInv, TypeOK, SessionInv
  <2>2. /\ log[key] \in Seq(Exchange) /\ command_mcv \in Seq(Data)
        /\ response_mcv \in Seq(Data) /\ received = response_mcv
    BY <2>1 DEF IInv, TypeOK, SessionInv
  <2>3. /\ Len(log[key]) <= Len(command_mcv) /\ Len(response_mcv) <= Len(log[key])
        /\ \A i \in 1 .. Len(log[key]) : log[key][i].command = command_mcv[i]
        /\ \A i \in 1 .. Len(log[key]) : log[key][i].plain = log[key][i].command
        /\ \A i \in 1 .. Len(response_mcv) : log[key][i].response = response_mcv[i]
    BY <2>1 DEF IInv, LogInv
  <2>4. /\ state = "READY" => Len(response_mcv) = Len(command_mcv)
        /\ state = "PENDING" => Len(response_mcv) + 1 = Len(command_mcv)
    BY DEF IInv, SessionInv
  <2> QED
    BY <2>2, <2>3, <2>4 DEF Agreement, Live
<1> QED
  BY <1>1, Inductive, PTL

=============================================================================
