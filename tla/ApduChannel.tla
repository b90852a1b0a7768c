----------------------------- MODULE ApduChannel -----------------------------
(***************************************************************************)
(* The APDU channel (apdu_channel.c, apdu_encode.c, apdu_response.c): one  *)
(* logical command goes out as a chain of fragments, its answer comes back *)
(* through GET RESPONSE, and a wrong Le is corrected once, all within an   *)
(* exchange budget and over a transport that may fail at any transmit.     *)
(*                                                                         *)
(* Each transmit is one step, since the transport runs between the code    *)
(* before and after it.  Lengths are numbers; the byte limits of ISO/IEC   *)
(* 7816-4 are constants so that a small instance reaches all of them.      *)
(***************************************************************************)
EXTENDS Integers, Sequences, TLAPS

CONSTANTS
  ShortMaxNc, ShortMaxNe,     \* 255 and 256
  MaxNc, MaxNe,               \* 65535 and 65536
  Budgets, Scratches,         \* exchanges and scratch capacities of channel_init
  CommandLimits, ResponseLimits,  \* card limits given to init and restrict
  Capacities,                 \* response capacities of a call
  DataLengths, Expected       \* Nc and Ne of the commands of the callers

ASSUME LimitAssumption ==
  /\ ShortMaxNc \in Nat \ {0} /\ ShortMaxNe \in Nat \ {0}
  /\ MaxNc \in Nat /\ MaxNe \in Nat /\ ShortMaxNc <= MaxNc /\ ShortMaxNe <= MaxNe
ASSUME InputAssumption ==
  /\ Budgets \subseteq Nat /\ Scratches \subseteq Nat /\ Capacities \subseteq Nat
  /\ CommandLimits \subseteq Nat /\ ResponseLimits \subseteq Nat
  /\ DataLengths \subseteq Nat /\ Expected \subseteq Nat

VARIABLES
  channel,     \* TC_APDU_channel
  pc,          \* idle, before a transmit of chain_send (chain) or of
               \* response_collect (collect), or done: the call has returned
  call,        \* the command of the call and the locals that survive a transmit
  buffer,      \* the caller's response buffer
  reply,       \* what the call returns: its result, and sw and length of out
  sent,        \* history: response data bytes the card has sent in this call
  entry,       \* history: exchanges_left when the call began
  delivered,   \* history: how often the last or only fragment went out
  recent       \* history: the last three transmits of this call

vars == <<channel, pc, call, buffer, reply, sent, entry, delivered, recent>>

HeaderBytes == 4
StatusBytes == 2
Formats == {"SHORT", "EXTENDED"}

\* Bytes of the response buffer: data bytes are numbered as the card sent them.
Zero == 0
Status == -1
Caller == -2

-----------------------------------------------------------------------------
(* Encoding and reading. *)

\* tc_apdu_form_get: whether the format can carry the lengths, and the size.
ShortFits(nc, ne) == nc <= ShortMaxNc /\ ne <= ShortMaxNe
FormFits(nc, ne, format) ==
  nc <= MaxNc /\ ne <= MaxNe /\ (format = "EXTENDED" \/ ShortFits(nc, ne))
FormSize(nc, ne) ==
  LET lc == IF nc = 0 THEN 0 ELSE nc + (IF ShortFits(nc, ne) THEN 1 ELSE 3)
      le == IF ne = 0 THEN 0
            ELSE IF ShortFits(nc, ne) THEN 1 ELSE IF nc = 0 THEN 3 ELSE 2
  IN  HeaderBytes + lc + le

\* Status words, by what the channel tells apart: success, 61XX and 6CXX with
\* the length they state, warnings (62XX, 63XX), the other errors of 64 to 6F,
\* the other values of 9XXX, and the invalid ones.  An answer also carries n
\* data bytes, and TC_APDU_response_read rejects data with an error.
Classes == {"9000", "61", "6C", "warning", "error", "9XXX", "invalid"}
Statuses == [class : Classes, length : 1 .. ShortMaxNe]
Readable(a) == a.sw.class # "invalid" /\ (a.n > 0 => a.sw.class \notin {"6C", "error"})

\* The answers a transport that is offered so many bytes may return.  The
\* length counts for 61XX and 6CXX only.
Answers(offered) ==
  {a \in [n : 0 .. offered - StatusBytes, sw : Statuses] :
     a.sw.class \in {"61", "6C"} \/ a.sw.length = 1}

-----------------------------------------------------------------------------
(* The channel. *)

Closed == [open |-> FALSE, scratch |-> 0, exchanges_left |-> 0, max_command |-> 0,
           max_response |-> 0, plain |-> FALSE, format |-> "SHORT", stopped |-> FALSE]

\* limits_valid: a card limit is absent (0) or holds a header, or one byte.
LimitsValid(mc, mr) ==
  (mc = 0 \/ mc >= HeaderBytes) /\ (mr = 0 \/ mr >= StatusBytes + 1)

\* TC_APDU_channel_init.
ChannelInit(exchanges, scratch, mc, mr, plain, format) ==
  /\ pc = "idle"
  /\ exchanges > 0 /\ scratch >= HeaderBytes /\ LimitsValid(mc, mr)
  /\ channel' = [open |-> TRUE, scratch |-> scratch, exchanges_left |-> exchanges,
                 max_command |-> mc, max_response |-> mr, plain |-> plain,
                 format |-> format, stopped |-> FALSE]
  /\ UNCHANGED <<pc, call, buffer, reply, sent, entry, delivered, recent>>

Tighter(current, requested) ==
  IF requested # 0 /\ (current = 0 \/ requested < current) THEN requested ELSE current

\* TC_APDU_channel_restrict, refused on a cleared or stopped channel.
Restrict(mc, mr, plain) ==
  /\ pc = "idle" /\ channel.open /\ ~channel.stopped /\ LimitsValid(mc, mr)
  /\ channel' = [channel EXCEPT !.max_command = Tighter(@, mc),
                                !.max_response = Tighter(@, mr), !.plain = plain]
  /\ UNCHANGED <<pc, call, buffer, reply, sent, entry, delivered, recent>>

\* TC_APDU_channel_clear.
ChannelClear ==
  /\ pc = "idle" /\ channel.open
  /\ channel' = Closed
  /\ UNCHANGED <<pc, call, buffer, reply, sent, entry, delivered, recent>>

-----------------------------------------------------------------------------
(* One call: the checks before the first transmit. *)

NoSw == [class |-> "9000", length |-> 1]
NoStep == [ins |-> "none", nc |-> 0, ne |-> 0, sm |-> FALSE]
NoCall == [nc |-> 0, ne |-> 0, sm |-> FALSE, format |-> "SHORT", offset |-> 0,
           step |-> NoStep, correctable |-> FALSE, corrected |-> FALSE,
           card_stated |-> FALSE, used |-> 0, high_water |-> 0]

\* response_ne: lower Ne to the card's response buffer less SW1 SW2.
ResponseNe(ne) ==
  IF channel.max_response # 0 /\ ne > channel.max_response - StatusBytes
    THEN channel.max_response - StatusBytes ELSE ne

Chained(c) == c.format = "SHORT" /\ c.nc > ShortMaxNc

\* chain_check: every fragment fits the scratch and the card, and the budget
\* covers all of them.
ChainFits(nc, ne) ==
  LET fragments == nc \div ShortMaxNc + (IF nc % ShortMaxNc # 0 THEN 1 ELSE 0)
      last == nc - (fragments - 1) * ShortMaxNc
      middle == HeaderBytes + 1 + ShortMaxNc
      final == HeaderBytes + 1 + last + (IF ne # 0 THEN 1 ELSE 0)
      largest == IF final > middle THEN final ELSE middle
  IN  /\ largest <= channel.scratch
      /\ channel.max_command # 0 => largest <= channel.max_command
      /\ channel.exchanges_left >= fragments

\* Mutant: the last fragment of a chain may be corrected too.
CollectChainCorrectable(c) ==
  [c EXCEPT !.step = [ins |-> "command", nc |-> c.nc - c.offset,
                      ne |-> ResponseNe(c.ne), sm |-> c.sm],
            !.correctable = ~c.sm /\ ResponseNe(c.ne) # 0,
            !.corrected = FALSE, !.card_stated = FALSE]

\* transceive_run and the start of response_collect: the last or only command.
Collect(c) ==
  [c EXCEPT !.step = [ins |-> "command", nc |-> c.nc - c.offset,
                      ne |-> ResponseNe(c.ne), sm |-> c.sm],
            !.correctable = ~Chained(c) /\ ~c.sm /\ ResponseNe(c.ne) # 0,
            !.corrected = FALSE, !.card_stated = FALSE]

\* chain_send: the next fragment, without Le.
Fragment(c) ==
  [c EXCEPT !.step = [ins |-> "fragment", nc |-> ShortMaxNc, ne |-> 0, sm |-> c.sm]]

KindOf(c) == IF Chained(c) THEN "chained" ELSE IF c.sm \/ c.ne = 0 THEN "once" ELSE "repeatable"
Reply(c, result, sw, length, times) ==
  [kind |-> KindOf(c), result |-> result, sw |-> sw, length |-> length, delivered |-> times]

NoReply == [kind |-> "none", result |-> "none", sw |-> NoSw, length |-> 0, delivered |-> 0]

Checks == {"OK", "ARGUMENT", "UNSUPPORTED"}

\* Mutant: a stopped channel is used again.
RefusedUnlessOpen(c, capacity, checked) ==
  IF ~channel.open \/ capacity < StatusBytes
     \/ ~FormFits(IF Chained(c) /\ c.nc <= MaxNc THEN ShortMaxNc ELSE c.nc, c.ne, c.format)
    THEN "ARGUMENT" ELSE checked

\* transceive_check and the stop: checked is what the checks of the pointers,
\* of the class (UNSUPPORTED outside the first interindustry values) and of
\* the caller's memory give.  A SHORT command above the short Nc is a chain,
\* so only its Le is bound by the format.
Refused(c, capacity, checked) ==
  IF ~channel.open \/ capacity < StatusBytes
     \/ ~FormFits(IF Chained(c) /\ c.nc <= MaxNc THEN ShortMaxNc ELSE c.nc, c.ne, c.format)
    THEN "ARGUMENT"
  ELSE IF checked # "OK" THEN checked
  ELSE IF channel.stopped THEN "ERROR" ELSE "OK"

\* tc_apdu_transceive_format up to its first transmit.  The secure messaging
\* layer asks for SHORT on any channel; other callers use the channel's format.
Call(nc, ne, sm, format, capacity, checked) ==
  LET c == [NoCall EXCEPT !.nc = nc, !.ne = ne, !.sm = sm, !.format = format]
      refused == Refused(c, capacity, checked)
      limited == Chained(c) /\ ~ChainFits(nc, ne)
  IN  /\ pc = "idle"
      /\ format = channel.format \/ (sm /\ format = "SHORT")
      /\ sent' = 0 /\ entry' = channel.exchanges_left /\ delivered' = 0 /\ recent' = <<>>
      /\ IF refused # "OK" \/ limited
           THEN /\ reply' = Reply(c, IF refused # "OK" THEN refused ELSE "LIMIT", NoSw, 0, 0)
                /\ buffer' = [i \in 1 .. capacity |->
                                IF refused # "OK" THEN Caller ELSE Zero]
                /\ pc' = "done"
                /\ UNCHANGED call
           ELSE /\ pc' = IF Chained(c) THEN "chain" ELSE "collect"
                /\ call' = IF Chained(c) THEN Fragment(c) ELSE Collect(c)
                /\ buffer' = [i \in 1 .. capacity |-> Caller]
                /\ UNCHANGED reply
      /\ UNCHANGED channel

-----------------------------------------------------------------------------
(* One transmit, and the end of a call. *)

Capacity == Len(buffer)
Offered == Capacity - call.used

\* transmit_step before the transport is called.
StepResult ==
  LET s == call.step
      size == FormSize(s.nc, s.ne)
  IN  IF ~FormFits(s.nc, s.ne, call.format) THEN "ARGUMENT"
      ELSE IF \/ size > channel.scratch
              \/ channel.max_command # 0 /\ size > channel.max_command
              \/ Offered < StatusBytes \/ channel.exchanges_left = 0
        THEN "LIMIT" ELSE "OK"

\* The transport is handed the step: one exchange is spent on it.
Transmitted(sw) ==
  LET t == [ins |-> call.step.ins, offset |-> call.offset, ne |-> call.step.ne,
            room |-> channel.max_response, sw |-> sw]
  IN  /\ recent' = Append(IF Len(recent) = 3 THEN Tail(recent) ELSE recent, t)
      /\ delivered' = delivered + (IF t.ins = "command" THEN 1 ELSE 0)

\* The answer lands after the data kept so far.
Written(a) ==
  [i \in 1 .. Capacity |->
     CASE i \in call.used + 1 .. call.used + a.n -> sent + i - call.used
       [] i \in call.used + a.n + 1 .. call.used + a.n + StatusBytes -> Status
       [] OTHER -> buffer[i]]
HighWater(a) ==
  LET reached == call.used + a.n + StatusBytes
  IN  IF reached > call.high_water THEN reached ELSE call.high_water

\* A failed call wipes the whole buffer and leaves out alone.
Fail(result) ==
  /\ pc' = "done" /\ call' = NoCall
  /\ buffer' = [i \in 1 .. Capacity |-> Zero]
  /\ reply' = Reply(call, result, NoSw, 0, delivered')

\* Mutant: the status bytes after the data stay in the buffer.
CompletedUnwiped(sw, length, high, bytes) ==
  /\ pc' = "done" /\ call' = NoCall
  /\ buffer' = bytes
  /\ reply' = Reply(call, "OK", sw, length, delivered')

\* A completed call wipes what the transport wrote after the data.
Completed(sw, length, high, bytes) ==
  /\ pc' = "done" /\ call' = NoCall
  /\ buffer' = [i \in 1 .. Capacity |-> IF i \in length + 1 .. high THEN Zero ELSE bytes[i]]
  /\ reply' = Reply(call, "OK", sw, length, delivered')

\* The transport fails or breaks its length contract: the channel stops.
TransportFails ==
  /\ channel' = [channel EXCEPT !.exchanges_left = @ - 1, !.stopped = TRUE]
  /\ Transmitted([class |-> "invalid", length |-> 1])
  /\ Fail("ERROR")
  /\ UNCHANGED <<sent, entry>>

\* Mutant: only the command is charged to the budget, not its GET RESPONSE.
SpendOnCommand ==
  channel' = IF call.step.ins = "get" THEN channel
             ELSE [channel EXCEPT !.exchanges_left = @ - 1]

\* Each transmit consumes one exchange.
Spend == channel' = [channel EXCEPT !.exchanges_left = @ - 1]

\* chain_send with answer a to a fragment that is not the last.
ChainAnswer(a) ==
  /\ Spend
  /\ Transmitted(a.sw)
  /\ sent' = sent + a.n
  /\ IF ~Readable(a) \/ a.n > 0 \/ a.sw.class = "warning"
       THEN Fail("INVALID")
     ELSE IF a.sw.class # "9000"
       THEN Completed(a.sw, call.used, HighWater(a), Written(a))
       ELSE LET c == [call EXCEPT !.offset = @ + ShortMaxNc, !.high_water = HighWater(a)]
                more == c.nc - c.offset > ShortMaxNc
            IN  /\ pc' = IF more THEN "chain" ELSE "collect"
                /\ call' = IF more THEN Fragment(c) ELSE Collect(c)
                /\ buffer' = Written(a)
                /\ UNCHANGED reply
  /\ UNCHANGED entry

\* get_response: ask for what 61XX announced, in the command's class or plain.
GetResponse(length) ==
  [ins |-> "get", nc |-> 0, ne |-> ResponseNe(length),
   sm |-> call.sm /\ ~channel.plain]

\* The next chunk overwrites the status bytes of this one.
Kept(a) == call.used + a.n

\* 6CXX: the same step again, with the Le the card stated.
Correct(c, length) ==
  [c EXCEPT !.step.ne = length, !.corrected = TRUE, !.card_stated = TRUE]

\* Each GET RESPONSE may be corrected once, unless the command is protected.
MayCorrect(c) == ~c.sm

\* response_collect with answer a to the last or only fragment, or to a GET
\* RESPONSE: 6CXX repeats the step with the stated Le, 61XX asks for more.
CollectAnswer(a) ==
  /\ Spend
  /\ Transmitted(a.sw)
  /\ sent' = sent + a.n
  /\ LET c == [call EXCEPT !.high_water = HighWater(a)]
     IN  CASE ~Readable(a) \/ a.n > call.step.ne -> Fail("INVALID")
           [] Readable(a) /\ a.n <= call.step.ne /\ a.sw.class = "6C" ->
                IF ~call.correctable \/ call.corrected
                  THEN Completed(a.sw, call.used, HighWater(a), Written(a))
                  ELSE /\ call' = Correct(c, a.sw.length)
                       /\ buffer' = Written(a)
                       /\ UNCHANGED <<pc, reply>>
           [] OTHER ->
                IF a.sw.class # "61"
                  THEN Completed(a.sw, Kept(a), HighWater(a), Written(a))
                  ELSE LET g == [c EXCEPT !.step = GetResponse(a.sw.length), !.used = Kept(a)]
                       IN  /\ call' = [g EXCEPT !.correctable = MayCorrect(g),
                                                !.corrected = FALSE, !.card_stated = TRUE]
                           /\ buffer' = Written(a)
                           /\ UNCHANGED <<pc, reply>>
  /\ UNCHANGED entry

\* A step whose Le the card stated needs room for Le and SW1 SW2.
NoRoom == call.card_stated /\ Offered < call.step.ne + StatusBytes

\* A step that cannot be transmitted ends the call.
StepFails ==
  /\ pc \in {"chain", "collect"}
  /\ NoRoom \/ StepResult # "OK"
  /\ UNCHANGED <<channel, sent, entry, delivered, recent>>
  /\ Fail(IF NoRoom THEN "LIMIT" ELSE StepResult)

Transmit ==
  /\ pc \in {"chain", "collect"} /\ ~NoRoom /\ StepResult = "OK"
  /\ \/ TransportFails
     \/ pc = "chain" /\ \E a \in Answers(Offered) : ChainAnswer(a)
     \/ pc = "collect" /\ \E a \in Answers(Offered) : CollectAnswer(a)

-----------------------------------------------------------------------------
Init ==
  /\ channel = Closed /\ pc = "idle" /\ call = NoCall
  /\ buffer = <<>> /\ sent = 0 /\ entry = 0 /\ delivered = 0 /\ recent = <<>>
  /\ reply = NoReply

Setup ==
  \E mc \in CommandLimits, mr \in ResponseLimits, plain \in BOOLEAN :
    \/ \E exchanges \in Budgets, scratch \in Scratches, format \in Formats :
         ChannelInit(exchanges, scratch, mc, mr, plain, format)
    \/ Restrict(mc, mr, plain)

CallerCalls ==
  \E nc \in DataLengths, ne \in Expected, sm \in BOOLEAN, checked \in Checks,
     format \in Formats, capacity \in Capacities :
    Call(nc, ne, sm, format, capacity, checked)

\* The caller takes the result and disposes of its buffer.
Take ==
  /\ pc = "done"
  /\ pc' = "idle" /\ reply' = NoReply
  /\ buffer' = <<>> /\ sent' = 0 /\ entry' = 0 /\ delivered' = 0 /\ recent' = <<>>
  /\ UNCHANGED <<channel, call>>

Next == Setup \/ ChannelClear \/ CallerCalls \/ StepFails \/ Transmit \/ Take

\* The code runs to its next transmit and the transport is synchronous, so a
\* call that has begun goes on.
Fairness == WF_vars(StepFails) /\ WF_vars(Transmit)

Spec == Init /\ [][Next]_vars /\ Fairness

-----------------------------------------------------------------------------
(* Properties. *)

Steps == [ins : {"none", "fragment", "command", "get"}, nc : Nat, ne : Nat, sm : BOOLEAN]
Transmits == [ins : {"fragment", "command", "get"}, offset : Nat, ne : Nat,
              room : Nat, sw : Statuses]
Results == {"none", "OK", "ARGUMENT", "UNSUPPORTED", "LIMIT", "INVALID", "ERROR"}
Channels == [open : BOOLEAN, scratch : Nat, exchanges_left : Nat, max_command : Nat,
             max_response : Nat, plain : BOOLEAN, format : Formats, stopped : BOOLEAN]
Calls == [nc : Nat, ne : Nat, sm : BOOLEAN, format : Formats, offset : Nat,
          step : Steps, correctable : BOOLEAN, corrected : BOOLEAN,
          card_stated : BOOLEAN, used : Nat, high_water : Nat]
Replies == [kind : {"none", "chained", "once", "repeatable"}, result : Results,
            sw : Statuses, length : Nat, delivered : 0 .. 2]

\* Every variable keeps its type, and the data kept never exceeds the buffer
\* the caller gave (exchange_state, transmit_step).
TypeOK ==
  /\ channel \in Channels /\ pc \in {"idle", "chain", "collect", "done"}
  /\ call \in Calls /\ call.used <= Capacity /\ call.high_water <= Capacity
  /\ buffer \in Seq(Int) /\ reply \in Replies
  /\ sent \in Nat /\ entry \in Nat
  /\ delivered \in 0 .. 2 /\ recent \in Seq(Transmits)

\* A completed call returns exactly the data bytes of all its answers, in the
\* order the card sent them, and no byte of a status word or of a dropped
\* answer stays behind them.  A call that failed after it began returns none
\* of them (tc_apdu_transceive_format, response_collect).  A call that ran
\* into a limit has transmitted nothing or the whole command: the scratch, the
\* card's limit and the budget never cut a chain (chain_check).
Assembled ==
  pc = "done" =>
    /\ reply.result = "OK" =>
         /\ reply.length = sent
         /\ \A i \in DOMAIN buffer :
              IF i <= sent THEN buffer[i] = i ELSE buffer[i] \in {Caller, Zero}
    /\ reply.result # "OK" =>
         /\ \A i \in DOMAIN buffer : buffer[i] \in {Caller, Zero}
         /\ recent # <<>> => \A i \in DOMAIN buffer : buffer[i] = Zero
    /\ reply.result = "LIMIT" => recent = <<>> \/ reply.delivered > 0

\* Command data reaches the card in order and once.  Only a command that went
\* out whole, in the clear and with Le is sent again, directly after the 6CXX
\* that answered it; so a VERIFY with PIN digits is never repeated.
CommandOnce ==
  \A i \in 1 .. Len(recent) - 1 :
    LET before == recent[i]
        after == recent[i + 1]
    IN  after.ins # "get" =>
          \/ before.ins = "fragment" /\ before.offset < after.offset
          \/ /\ before.ins = "command" /\ after.ins = "command" /\ after.offset = 0
             /\ before.sw.class = "6C" /\ before.ne # 0

\* An exchange goes on after 6CXX only to correct the Le of that one step, with
\* the length the card stated, and never twice for a step (response_collect).
CorrectedOnce ==
  \A i \in 1 .. Len(recent) - 1 :
    recent[i].sw.class = "6C" =>
      /\ recent[i + 1].ins = recent[i].ins /\ recent[i + 1].ne = recent[i].sw.length
      /\ i > 1 => recent[i - 1].sw.class # "6C"

\* Under secure messaging no step is repeated at all, even where GET RESPONSE
\* goes out in the plain class (SP 800-73-5 Part 2 footnote 25).
ProtectedNeverRepeated ==
  call.sm => \A i \in DOMAIN recent : recent[i].sw.class # "6C"

\* What goes out twice is what the card asked to be corrected, and nothing else.
RepeatsSafe == CommandOnce /\ CorrectedOnce /\ ProtectedNeverRepeated

\* Every call returns: a card that answers 61XX or 6CXX without end runs out of
\* the exchange budget.
CallsReturn == pc \in {"chain", "collect"} ~> pc = "done"

\* A call is one step of the abstract exchange, taken when it returns.
Exchange == INSTANCE ApduExchange WITH
  left <- IF pc \in {"chain", "collect"} THEN entry ELSE channel.exchanges_left,
  stopped <- channel.stopped,
  reply <- [kind |-> reply.kind, result |-> reply.result, delivered |-> reply.delivered]

\* The channel implements what its callers rely on.
ImplementsExchange == Exchange!Spec

(* -------------------------------- proofs --------------------------------- *)
(* Proofs about ApduChannel, for every card limit, budget, scratch and     *)
(* buffer size and every behaviour of the card and the transport.          *)

-----------------------------------------------------------------------------
(* The inductive invariant. *)

Running == pc \in {"chain", "collect"}

\* The last transmit of the call.
Latest == recent[Len(recent)]

\* A card limit leaves room for a data byte, so that no Ne becomes negative.
LimitKept == channel.max_response = 0 \/ channel.max_response >= StatusBytes + 1

\* Between calls nothing of the last one is left, and a reply exists exactly
\* when a call has returned.
Rests ==
  /\ ~Running => call = NoCall
  /\ pc # "done" => reply = NoReply
  /\ pc = "done" => reply.kind # "none"

\* The buffer of a running call: the data kept, what answers have overwritten,
\* and the caller's bytes.  Only kept data counts as sent.
BufferKept ==
  Running =>
    /\ ~channel.stopped /\ Capacity >= StatusBytes /\ sent = call.used
    /\ \A i \in 1 .. Capacity :
         /\ i <= call.used => buffer[i] = i
         /\ i > call.used /\ i > call.high_water => buffer[i] = Caller

\* The step a running call is about to transmit is one that its format carries.
StepFits ==
  Running =>
    /\ FormFits(call.step.nc, call.step.ne, call.format)
    /\ call.nc <= MaxNc /\ call.offset <= call.nc
    /\ Chained(call) => call.ne <= ShortMaxNe
    /\ ~Chained(call) => call.offset = 0

\* What is spent covers what was delivered, and only a command in the clear,
\* unchained and with Le is delivered twice.
DeliveryCounted ==
  Running => /\ entry - channel.exchanges_left >= delivered
             /\ KindOf(call) # "repeatable" => delivered <= 1

\* chain_send is before a fragment that is not the last.
InChain ==
  pc = "chain" =>
    /\ Chained(call) /\ call.nc - call.offset > ShortMaxNc
    /\ call.step = [ins |-> "fragment", nc |-> ShortMaxNc, ne |-> 0, sm |-> call.sm]
    /\ call.used = 0 /\ ~call.card_stated /\ delivered = 0
    /\ recent # <<>> => /\ Latest.ins = "fragment" /\ Latest.offset < call.offset
                        /\ Latest.sw.class # "6C"

\* response_collect is before the command or a GET RESPONSE.
InCollect ==
  pc = "collect" =>
    /\ call.step.ins \in {"command", "get"}
    /\ call.correctable => ~call.sm
    /\ call.step.ins = "command" =>
         /\ call.step.nc = call.nc - call.offset
         /\ Chained(call) => call.step.nc \in 1 .. ShortMaxNc
         /\ call.correctable => KindOf(call) = "repeatable" /\ call.step.ne # 0
         /\ ~call.corrected => /\ delivered = 0 /\ ~call.card_stated /\ call.used = 0
                               /\ call.ne = 0 => call.step.ne = 0
         /\ call.corrected => call.correctable /\ delivered = 1
         /\ \/ recent = <<>> /\ ~call.corrected
            \/ /\ ~call.corrected /\ Chained(call) /\ recent # <<>>
               /\ Latest.ins = "fragment" /\ Latest.offset < call.offset /\ Latest.sw.class # "6C"
            \/ /\ call.corrected /\ recent # <<>>
               /\ Latest.ins = "command" /\ Latest.sw.class = "6C" /\ Latest.ne # 0
    /\ call.step.ins = "get" => delivered \in 1 .. 2 /\ recent # <<>>
    /\ recent # <<>> /\ Latest.sw.class = "6C" =>
         /\ call.corrected /\ Latest.ins = call.step.ins /\ Latest.sw.length = call.step.ne
         /\ Len(recent) > 1 => recent[Len(recent) - 1].sw.class # "6C"

\* What is left of a chain, k fragments, fits the budget, the scratch and the
\* card, the last one with its Le.
ChainRoom(c, ch, k) ==
  LET last == c.nc - c.offset - (k - 1) * ShortMaxNc
      final == HeaderBytes + 1 + last + (IF c.ne # 0 THEN 1 ELSE 0)
  IN  /\ last > 0 /\ last <= ShortMaxNc /\ k >= 1 /\ k <= ch.exchanges_left
      /\ HeaderBytes + 1 + ShortMaxNc <= ch.scratch /\ final <= ch.scratch
      /\ ch.max_command # 0 =>
           HeaderBytes + 1 + ShortMaxNc <= ch.max_command /\ final <= ch.max_command
ChainCovered ==
  Running /\ Chained(call) /\ delivered = 0 => \E k \in Nat : ChainRoom(call, channel, k)

IInv ==
  /\ TypeOK /\ Len(recent) <= 3
  /\ LimitKept /\ Rests /\ BufferKept /\ StepFits /\ DeliveryCounted
  /\ InChain /\ InCollect /\ ChainCovered
  /\ Assembled /\ RepeatsSafe

\* What the invariant says before a fragment goes out.
LEMMA ChainState ==
  ASSUME IInv, pc = "chain"
  PROVE  /\ Chained(call) /\ call.nc - call.offset > ShortMaxNc /\ call.used = 0 /\ ~call.card_stated
         /\ delivered = 0 /\ call.step.ins = "fragment" /\ call.step.nc = ShortMaxNc /\ call.step.ne = 0
<1>1. /\ Chained(call) /\ call.nc - call.offset > ShortMaxNc /\ call.used = 0 /\ ~call.card_stated
      /\ delivered = 0
      /\ call.step = [ins |-> "fragment", nc |-> ShortMaxNc, ne |-> 0, sm |-> call.sm]
  BY Zenon DEF IInv, InChain
<1>2. call.step.ins = "fragment" /\ call.step.nc = ShortMaxNc /\ call.step.ne = 0
  BY <1>1
<1>3. QED
  BY <1>1, <1>2, Zenon

-----------------------------------------------------------------------------
(* Sequences and arithmetic. *)

\* A buffer given byte by byte is a sequence.
LEMMA ByteSequence ==
  ASSUME NEW n \in Nat, NEW f \in [1 .. n -> Int]
  PROVE  f \in Seq(Int) /\ Len(f) = n /\ DOMAIN f = 1 .. n
  OBVIOUS

\* Dropping the oldest of three entries.
LEMMA TailFacts ==
  ASSUME NEW T, NEW s \in Seq(T), Len(s) = 3
  PROVE  /\ Tail(s) \in Seq(T) /\ Len(Tail(s)) = 2
         /\ \A i \in 1 .. 2 : Tail(s)[i] = s[i + 1]
<1>1. Tail(s) \in Seq(T)
  OBVIOUS
<1>2. Len(Tail(s)) = 2
  OBVIOUS
<1>3. \A i \in 1 .. 2 : Tail(s)[i] = s[i + 1]
  <2>1. Tail(s)[1] = s[2] /\ Tail(s)[2] = s[3]
    OBVIOUS
  <2>2. (\A i \in 1 .. 2 : i = 1 \/ i = 2) /\ 1 + 1 = 2 /\ 2 + 1 = 3
    OBVIOUS
  <2>3. QED
    BY <2>1, <2>2, Zenon
<1>4. QED
  BY <1>1, <1>2, <1>3

\* Adding an entry to the history.
LEMMA AppendFacts ==
  ASSUME NEW T, NEW s \in Seq(T), NEW t \in T
  PROVE  /\ Append(s, t) \in Seq(T) /\ Len(Append(s, t)) = Len(s) + 1
         /\ Append(s, t)[Len(s) + 1] = t
         /\ \A i \in 1 .. Len(s) : Append(s, t)[i] = s[i]
  OBVIOUS

\* The history keeps the last three transmits: the new one comes last, and the
\* others keep their order.
Kept3(s, t) == Append(IF Len(s) = 3 THEN Tail(s) ELSE s, t)

\* What the history of three entries holds after one more transmit.
LEMMA Window ==
  ASSUME NEW T, NEW s \in Seq(T), Len(s) <= 3, NEW t \in T
  PROVE  /\ Kept3(s, t) \in Seq(T) /\ Len(Kept3(s, t)) \in 1 .. 3
         /\ Kept3(s, t)[Len(Kept3(s, t))] = t
         /\ \E d \in {0, 1} :
              /\ Len(Kept3(s, t)) = Len(s) + 1 - d
              /\ \A i \in 1 .. Len(s) - d : Kept3(s, t)[i] = s[i + d]
<1> DEFINE r == Kept3(s, t)
<1>1. Len(s) \in Nat
  OBVIOUS
<1>2. CASE Len(s) = 3
  <2>1. r = Append(Tail(s), t)
    BY <1>2 DEF Kept3
  <2>2. /\ Tail(s) \in Seq(T) /\ Len(Tail(s)) = 2
        /\ \A i \in 1 .. 2 : Tail(s)[i] = s[i + 1]
    BY <1>2, TailFacts
  <2> DEFINE u == Tail(s)
  <2> HIDE DEF r, u
  <2>3. /\ r \in Seq(T) /\ Len(r) = Len(u) + 1 /\ r[Len(u) + 1] = t
        /\ \A i \in 1 .. Len(u) : r[i] = u[i]
    <3>1. u \in Seq(T) /\ r = Append(u, t)
      BY <2>1, <2>2 DEF u
    <3>2. QED
      <4>1. /\ Append(u, t) \in Seq(T) /\ Len(Append(u, t)) = Len(u) + 1
            /\ Append(u, t)[Len(u) + 1] = t
            /\ \A i \in 1 .. Len(u) : Append(u, t)[i] = u[i]
        BY <3>1, AppendFacts
      <4>2. QED
        BY <3>1, <4>1, Zenon
  <2>4. Len(u) = 2 /\ \A i \in 1 .. 2 : u[i] = s[i + 1]
    BY <2>2 DEF u
  <2>5. Len(r) = 3 /\ r[3] = t /\ \A i \in 1 .. 2 : r[i] = s[i + 1]
    BY <2>3, <2>4
  <2>6. Len(r) = Len(s) + 1 - 1 /\ Len(r) \in 1 .. 3 /\ r[Len(r)] = t
    BY <2>5, <1>2
  <2>7. \A i \in 1 .. Len(s) - 1 : r[i] = s[i + 1]
    BY <2>5, <1>2
  <2>8. QED
    BY <2>3, <2>6, <2>7 DEF r
<1>3. CASE Len(s) \in 0 .. 2
  <2>1. r = Append(s, t)
    <3>1. \A n \in 0 .. 2 : n # 3
      OBVIOUS
    <3>2. QED
      BY <1>3, <3>1, Zenon DEF Kept3
  <2> HIDE DEF r
  <2>2. /\ r \in Seq(T) /\ Len(r) = Len(s) + 1 /\ r[Len(s) + 1] = t
        /\ \A i \in 1 .. Len(s) : r[i] = s[i]
    BY <2>1, AppendFacts
  <2>3. Len(r) \in 1 .. 3 /\ Len(r) = Len(s) + 1 - 0 /\ r[Len(r)] = t
    BY <2>2, <1>3
  <2>4. \A i \in 1 .. Len(s) - 0 : r[i] = s[i + 0]
    BY <2>2, <1>1
  <2>5. QED
    BY <2>2, <2>3, <2>4 DEF r
<1>4. Len(s) = 3 \/ Len(s) \in 0 .. 2
  <2>1. \A n \in Nat : n <= 3 => n = 3 \/ n \in 0 .. 2
    OBVIOUS
  <2>2. QED
    BY <1>1, <2>1
<1>5. QED
  BY <1>2, <1>3, <1>4

\* The fragments that chain_check counts: all but the last are full.
LEMMA Fragments ==
  ASSUME NEW nc \in Nat, NEW k, nc > ShortMaxNc,
         k = nc \div ShortMaxNc + (IF nc % ShortMaxNc # 0 THEN 1 ELSE 0)
  PROVE  k \in Nat /\ k >= 1 /\ (k - 1) * ShortMaxNc < nc /\ nc <= k * ShortMaxNc
<1> DEFINE q == nc \div ShortMaxNc
           m == nc % ShortMaxNc
<1>1. q \in Nat /\ m \in Nat /\ m < ShortMaxNc /\ nc = ShortMaxNc * q + m
  BY LimitAssumption
<1>2. QED
  BY <1>1, LimitAssumption

-----------------------------------------------------------------------------
(* The history of a call. *)

\* What a transmit adds to the history.
Sending(sw) == [ins |-> call.step.ins, offset |-> call.offset, ne |-> call.step.ne,
                room |-> channel.max_response, sw |-> sw]

\* The next step may follow the last transmit: a fragment or command goes on
\* where the last one ended or repeats it after 6CXX, which nothing else does.
LEMMA NextFollows ==
  ASSUME IInv, Running, recent # <<>>
  PROVE  /\ call.step.ins # "get" =>
              \/ Latest.ins = "fragment" /\ Latest.offset < call.offset
              \/ /\ Latest.ins = "command" /\ call.step.ins = "command" /\ call.offset = 0
                 /\ Latest.sw.class = "6C" /\ Latest.ne # 0
         /\ Latest.sw.class = "6C" =>
              /\ call.step.ins = Latest.ins /\ call.step.ne = Latest.sw.length
              /\ Len(recent) > 1 => recent[Len(recent) - 1].sw.class # "6C"
<1>1. CASE pc = "chain"
  BY <1>1 DEF IInv, InChain
<1>2. CASE pc = "collect"
  <2>1. Latest.sw.class = "6C" =>
          /\ call.step.ins = Latest.ins /\ call.step.ne = Latest.sw.length
          /\ Len(recent) > 1 => recent[Len(recent) - 1].sw.class # "6C"
    BY <1>2 DEF IInv, InCollect
  <2>2. CASE call.step.ins = "command"
    <3>1. ~Chained(call) => call.offset = 0
      BY DEF IInv, StepFits
    <3>2. call.corrected => ~Chained(call)
      BY <1>2, <2>2 DEF IInv, InCollect, KindOf
    <3>3. QED
      BY <1>2, <2>1, <2>2, <3>1, <3>2 DEF IInv, InCollect
  <2>3. CASE call.step.ins = "get"
    BY <2>1, <2>3
  <2>4. QED
    BY <1>2, <2>2, <2>3 DEF IInv, InCollect
<1>3. QED
  BY <1>1, <1>2 DEF Running

\* The step about to be transmitted is a history entry.
LEMMA SendingType ==
  ASSUME IInv, Running, NEW sw \in Statuses
  PROVE  Sending(sw) \in Transmits
<1>1. call.step.ins \in {"fragment", "command", "get"}
  BY DEF IInv, Running, InChain, InCollect
<1>2. call.step \in Steps /\ call.offset \in Nat /\ channel.max_response \in Nat
  BY DEF IInv, TypeOK, Calls, Channels
<1>3. call.step.ne \in Nat
  BY <1>2 DEF Steps
<1>4. QED
  BY <1>1, <1>2, <1>3 DEF Sending, Transmits

\* A transmit keeps the rules of repetition.
LEMMA TransmittedHistory ==
  ASSUME IInv, Running, NEW sw \in Statuses, Transmitted(sw)
  PROVE  /\ recent' \in Seq(Transmits) /\ Len(recent') \in 1 .. 3
         /\ recent'[Len(recent')] = Sending(sw) /\ Len(recent') <= 3 /\ recent' # <<>>
         /\ CommandOnce' /\ CorrectedOnce'
         /\ Len(recent') > 1 => recent # <<>> /\ recent'[Len(recent') - 1] = Latest
         /\ \A i \in DOMAIN recent' :
              recent'[i] = Sending(sw) \/ \E j \in DOMAIN recent : recent'[i] = recent[j]
<1> DEFINE s == recent
           r == recent'
           t == Sending(sw)
<1>1. s \in Seq(Transmits) /\ Len(s) <= 3 /\ Len(s) \in Nat /\ t \in Transmits
  BY SendingType DEF IInv, TypeOK
<1>2. r = Kept3(s, t)
  BY DEF Transmitted, Kept3, Sending
<1>3. /\ r \in Seq(Transmits) /\ Len(r) \in 1 .. 3 /\ r[Len(r)] = t
      /\ \E d \in {0, 1} : /\ Len(r) = Len(s) + 1 - d
                           /\ \A i \in 1 .. Len(s) - d : r[i] = s[i + d]
  <2> HIDE DEF s, r, t
  <2>1. /\ Kept3(s, t) \in Seq(Transmits) /\ Len(Kept3(s, t)) \in 1 .. 3
        /\ Kept3(s, t)[Len(Kept3(s, t))] = t
        /\ \E d \in {0, 1} :
             /\ Len(Kept3(s, t)) = Len(s) + 1 - d
             /\ \A i \in 1 .. Len(s) - d : Kept3(s, t)[i] = s[i + d]
    BY <1>1, Window
  <2>2. QED
    BY <1>2, <2>1, Zenon
<1>4. PICK d \in {0, 1} : Len(r) = Len(s) + 1 - d /\ \A i \in 1 .. Len(s) - d : r[i] = s[i + d]
  BY <1>3
<1>5. /\ s # <<>> => /\ t.ins # "get" =>
                          \/ s[Len(s)].ins = "fragment" /\ s[Len(s)].offset < t.offset
                          \/ /\ s[Len(s)].ins = "command" /\ t.ins = "command" /\ t.offset = 0
                             /\ s[Len(s)].sw.class = "6C" /\ s[Len(s)].ne # 0
                     /\ s[Len(s)].sw.class = "6C" =>
                          /\ t.ins = s[Len(s)].ins /\ t.ne = s[Len(s)].sw.length
                          /\ Len(s) > 1 => s[Len(s) - 1].sw.class # "6C"
      /\ s = <<>> <=> Len(s) = 0
  BY <1>1, NextFollows DEF Sending, Latest
<1> HIDE DEF s, r, t
<1>6. CommandOnce'
  <2> SUFFICES ASSUME NEW i \in 1 .. Len(r) - 1
               PROVE  r[i + 1].ins # "get" =>
                        \/ r[i].ins = "fragment" /\ r[i].offset < r[i + 1].offset
                        \/ /\ r[i].ins = "command" /\ r[i + 1].ins = "command" /\ r[i + 1].offset = 0
                           /\ r[i].sw.class = "6C" /\ r[i].ne # 0
    BY DEF CommandOnce, r
  <2>1. i \in 1 .. Len(s) - d /\ r[i] = s[i + d] /\ i + d \in 1 .. Len(s)
    BY <1>1, <1>4
  <2>2. CASE i + 1 = Len(r)
    <3>1. i + d = Len(s) /\ r[i + 1] = t /\ Len(s) # 0
      BY <1>1, <1>3, <1>4, <2>1, <2>2
    <3>2. QED
      BY <3>1, <2>1, <1>5
  <2>3. CASE i + 1 # Len(r)
    <3>1. i + 1 \in 1 .. Len(s) - d /\ i + d \in 1 .. Len(s) - 1 /\ (i + 1) + d = (i + d) + 1
      BY <1>1, <1>4, <2>1, <2>3
    <3>2. r[i + 1] = s[(i + d) + 1]
      BY <1>4, <3>1
    <3>3. s[(i + d) + 1].ins # "get" =>
                        \/ s[i + d].ins = "fragment" /\ s[i + d].offset < s[(i + d) + 1].offset
                        \/ /\ s[i + d].ins = "command" /\ s[(i + d) + 1].ins = "command"
                           /\ s[(i + d) + 1].offset = 0
                           /\ s[i + d].sw.class = "6C" /\ s[i + d].ne # 0
      BY <3>1 DEF IInv, RepeatsSafe, CommandOnce, s
    <3>4. QED
      BY <2>1, <3>2, <3>3
  <2>4. QED
    BY <2>2, <2>3
<1>7. CorrectedOnce'
  <2> SUFFICES ASSUME NEW i \in 1 .. Len(r) - 1, r[i].sw.class = "6C"
               PROVE  /\ r[i + 1].ins = r[i].ins /\ r[i + 1].ne = r[i].sw.length
                      /\ i > 1 => r[i - 1].sw.class # "6C"
    BY DEF CorrectedOnce, r
  <2>1. i \in 1 .. Len(s) - d /\ r[i] = s[i + d] /\ i + d \in 1 .. Len(s)
    BY <1>1, <1>4
  <2>2. i > 1 => i + d > 1 /\ r[i - 1] = s[(i + d) - 1]
    <3> SUFFICES ASSUME i > 1 PROVE i + d > 1 /\ r[i - 1] = s[(i + d) - 1]
      OBVIOUS
    <3>1. i - 1 \in 1 .. Len(s) - d /\ (i - 1) + d = (i + d) - 1 /\ i + d > 1
      BY <1>1, <2>1
    <3>2. QED
      BY <1>4, <3>1
  <2>3. CASE i + 1 = Len(r)
    <3>1. i + d = Len(s) /\ r[i + 1] = t /\ Len(s) # 0
      BY <1>1, <1>3, <1>4, <2>1, <2>3
    <3>2. QED
      BY <3>1, <2>1, <2>2, <1>5
  <2>4. CASE i + 1 # Len(r)
    <3>1. i + 1 \in 1 .. Len(s) - d /\ i + d \in 1 .. Len(s) - 1 /\ (i + 1) + d = (i + d) + 1
      BY <1>1, <1>4, <2>1, <2>4
    <3>2. r[i + 1] = s[(i + d) + 1]
      BY <1>4, <3>1
    <3>3. s[i + d].sw.class = "6C" =>
            /\ s[(i + d) + 1].ins = s[i + d].ins /\ s[(i + d) + 1].ne = s[i + d].sw.length
            /\ i + d > 1 => s[(i + d) - 1].sw.class # "6C"
      BY <3>1 DEF IInv, RepeatsSafe, CorrectedOnce, s
    <3>4. QED
      BY <2>1, <2>2, <3>2, <3>3
  <2>5. QED
    BY <2>3, <2>4
<1>8. Len(r) > 1 => s # <<>> /\ r[Len(r) - 1] = s[Len(s)]
  BY <1>1, <1>3, <1>4, <1>5
<1>9. \A i \in DOMAIN r : r[i] = t \/ \E j \in DOMAIN s : r[i] = s[j]
  <2> SUFFICES ASSUME NEW i \in DOMAIN r PROVE r[i] = t \/ \E j \in DOMAIN s : r[i] = s[j]
    OBVIOUS
  <2>1. i \in 1 .. Len(r) /\ DOMAIN s = 1 .. Len(s)
    BY <1>1, <1>3
  <2>2. i = Len(r) \/ (i \in 1 .. Len(s) - d /\ i + d \in 1 .. Len(s))
    BY <1>1, <1>4, <2>1
  <2>3. QED
    BY <1>3, <1>4, <2>1, <2>2
<1>10. Len(r) <= 3 /\ r # <<>>
  <2>1. \A n \in 1 .. 3 : n <= 3 /\ n # 0
    OBVIOUS
  <2>2. Len(<<>>) = 0
    OBVIOUS
  <2>3. QED
    BY <1>3, <2>1, <2>2, Zenon
<1>11. QED
  BY <1>3, <1>6, <1>7, <1>8, <1>9, <1>10 DEF s, r, t, Latest

-----------------------------------------------------------------------------
(* The end of a call. *)

\* The state of a channel between calls.
LEMMA NoCallType ==
  NoCall \in Calls /\ NoCall.used = 0 /\ NoCall.high_water = 0 /\ ~NoCall.sm
  BY DEF NoCall, Calls, NoStep, Steps, Formats

\* The status word of a call that failed.
LEMMA NoSwType ==
  NoSw \in Statuses
  BY LimitAssumption DEF NoSw, Statuses, Classes

\* What a call returns.
LEMMA ReplyType ==
  ASSUME NEW c \in Calls, NEW result \in Results, NEW sw \in Statuses, NEW length \in Nat,
         NEW times \in 0 .. 2
  PROVE  /\ Reply(c, result, sw, length, times) \in Replies
         /\ Reply(c, result, sw, length, times).kind \in {"chained", "once", "repeatable"}
  BY DEF Reply, Replies, KindOf

\* A call that has returned with a result that is Assembled.
LEMMA DoneIInv ==
  ASSUME pc' = "done", call' = NoCall, channel' \in Channels, LimitKept',
         buffer' \in Seq(Int), reply' \in Replies, reply'.kind # "none",
         sent' \in Nat, entry' \in Nat, delivered' \in 0 .. 2,
         recent' \in Seq(Transmits), Len(recent') <= 3,
         Assembled', CommandOnce', CorrectedOnce'
  PROVE  IInv'
<1>1. Len(buffer') \in Nat
  OBVIOUS
<1>2. TypeOK'
  BY <1>1, NoCallType DEF TypeOK, Capacity
<1>3. Rests' /\ BufferKept' /\ StepFits' /\ DeliveryCounted'
  BY DEF Rests, BufferKept, StepFits, DeliveryCounted, Running
<1>4. InChain' /\ InCollect' /\ ChainCovered'
  BY DEF InChain, InCollect, ChainCovered, Running
<1>5. RepeatsSafe'
  BY NoCallType DEF RepeatsSafe, ProtectedNeverRepeated
<1>6. QED
  BY <1>2, <1>3, <1>4, <1>5 DEF IInv

\* A failed call wipes the buffer.
LEMMA FailIInv ==
  ASSUME IInv, NEW result \in {"LIMIT", "INVALID", "ERROR"}, Fail(result),
         channel' \in Channels, LimitKept', sent' \in Nat, entry' \in Nat, delivered' \in 0 .. 2,
         recent' \in Seq(Transmits), Len(recent') <= 3, CommandOnce', CorrectedOnce',
         result = "LIMIT" => recent' = <<>> \/ delivered' > 0
  PROVE  IInv'
<1>1. Capacity \in Nat
  BY DEF IInv, TypeOK, Capacity
<1>2. buffer' \in [1 .. Capacity -> Int] /\ \A i \in 1 .. Capacity : buffer'[i] = Zero
  BY DEF Fail, Zero
<1>3. buffer' \in Seq(Int) /\ DOMAIN buffer' = 1 .. Capacity
  BY <1>1, <1>2, ByteSequence
<1>4. reply' = Reply(call, result, NoSw, 0, delivered') /\ result \in Results
  BY DEF Fail, Results
<1>5. reply' \in Replies /\ reply'.kind # "none"
  BY <1>4, ReplyType, NoSwType DEF IInv, TypeOK
<1>6. reply'.result = result /\ reply'.delivered = delivered'
  BY <1>4 DEF Reply
<1>7. Assembled'
  BY <1>2, <1>3, <1>6 DEF Assembled
<1>8. QED
  BY <1>3, <1>5, <1>7, DoneIInv DEF Fail

\* An answer lands after the data kept, which stays as it is.
LEMMA WrittenFacts ==
  ASSUME IInv, Running, NEW a \in Answers(Offered)
  PROVE  /\ a.n \in Nat /\ a.sw \in Statuses /\ call.used + a.n + StatusBytes <= Capacity
         /\ Written(a) \in [1 .. Capacity -> Int]
         /\ HighWater(a) \in Nat /\ HighWater(a) <= Capacity /\ HighWater(a) > call.used + a.n
         /\ \A i \in 1 .. Capacity : /\ i <= call.used + a.n => Written(a)[i] = i
                                     /\ i > HighWater(a) => Written(a)[i] = Caller
<1>1. /\ Capacity \in Nat /\ call.used \in Nat /\ call.high_water \in Nat /\ call.high_water <= Capacity
      /\ buffer \in [1 .. Capacity -> Int] /\ sent = call.used /\ Offered \in Int
      /\ Offered = Capacity - call.used
  BY DEF IInv, TypeOK, Capacity, Calls, BufferKept, Offered
<1>2. a.n \in 0 .. Offered - StatusBytes /\ a.sw \in Statuses
  BY DEF Answers
<1>3. a.n \in Nat /\ call.used + a.n + StatusBytes <= Capacity
  BY <1>1, <1>2 DEF StatusBytes
<1>4. HighWater(a) \in Nat /\ HighWater(a) <= Capacity /\ HighWater(a) >= call.high_water
      /\ HighWater(a) >= call.used + a.n + StatusBytes
  <2> DEFINE reached == call.used + a.n + 2
  <2>1. reached \in Nat /\ reached <= Capacity
        /\ HighWater(a) = IF reached > call.high_water THEN reached ELSE call.high_water
    BY <1>1, <1>3 DEF HighWater, StatusBytes
  <2> HIDE DEF reached
  <2>2. HighWater(a) \in Nat /\ HighWater(a) <= Capacity /\ HighWater(a) >= call.high_water
        /\ HighWater(a) >= reached
    BY <1>1, <2>1
  <2>3. QED
    BY <2>2 DEF reached, StatusBytes
<1> DEFINE u == call.used
           n == a.n
           h == HighWater(a)
<1>5. /\ u \in Nat /\ n \in Nat /\ h \in Nat /\ h <= Capacity /\ h >= u + n + 2 /\ sent = u
      /\ \A i \in 1 .. Capacity : /\ i <= u => buffer[i] = i
                                  /\ i > h => buffer[i] = Caller
  <2>1. /\ \A i \in 1 .. Capacity : /\ i <= u => buffer[i] = i
                                    /\ i > u /\ i > call.high_water => buffer[i] = Caller
    BY DEF IInv, BufferKept
  <2>2. \A i \in 1 .. Capacity : i > h => i > u /\ i > call.high_water
    <3>1. h \in Nat /\ h >= call.high_water /\ h >= u + n + 2
      BY <1>4 DEF StatusBytes
    <3> HIDE DEF h, u, n
    <3>2. u \in Nat /\ n \in Nat /\ call.high_water \in Nat
      BY <1>1, <1>3 DEF u, n
    <3>3. QED
      BY <1>1, <3>1, <3>2
  <2>3. QED
    BY <1>1, <1>3, <1>4, <2>1, <2>2 DEF StatusBytes
<1>6. Written(a) = [i \in 1 .. Capacity |->
                      CASE i \in u + 1 .. u + n -> sent + i - u
                        [] i \in u + n + 1 .. u + n + 2 -> Status
                        [] OTHER -> buffer[i]]
  BY DEF Written, StatusBytes
<1> HIDE DEF u, n, h
<1>7. ASSUME NEW i \in 1 .. Capacity
      PROVE  /\ Written(a)[i] \in Int
             /\ i <= u + n => Written(a)[i] = i
             /\ i > h => Written(a)[i] = Caller
  <2>1. CASE i <= u
    <3>1. Written(a)[i] = buffer[i]
      BY <1>1, <1>5, <1>6, <2>1
    <3>2. QED
      BY <1>1, <1>5, <2>1, <3>1
  <2>2. CASE i > u /\ i <= u + n
    <3>1. Written(a)[i] = sent + i - u
      BY <1>1, <1>5, <1>6, <2>2
    <3>2. QED
      BY <1>1, <1>5, <2>2, <3>1
  <2>3. CASE i > u + n /\ i <= u + n + 2
    <3>1. Written(a)[i] = Status
      BY <1>1, <1>5, <1>6, <2>3
    <3>2. QED
      BY <1>1, <1>5, <2>3, <3>1 DEF Status
  <2>4. CASE i > u + n + 2
    <3>1. Written(a)[i] = buffer[i]
      BY <1>1, <1>5, <1>6, <2>4
    <3>2. QED
      BY <1>1, <1>5, <2>4, <3>1
  <2>5. QED
    BY <1>1, <1>5, <2>1, <2>2, <2>3, <2>4
<1>8. Written(a) \in [1 .. Capacity -> Int]
  <2>1. Written(a) = [i \in 1 .. Capacity |-> Written(a)[i]]
    BY <1>6
  <2>2. QED
    BY <1>7, <2>1
<1>9. h > u + n /\ u + n + 2 <= Capacity
  BY <1>1, <1>5
<1>10. QED
  BY <1>2, <1>5, <1>7, <1>8, <1>9 DEF StatusBytes, u, n, h

\* A completed call leaves the data and nothing after it.
LEMMA CompletedIInv ==
  ASSUME IInv, Running, NEW a \in Answers(Offered),
         Completed(a.sw, call.used + a.n, HighWater(a), Written(a)),
         sent' = sent + a.n, channel' \in Channels, LimitKept', entry' \in Nat, delivered' \in 0 .. 2,
         recent' \in Seq(Transmits), Len(recent') <= 3, CommandOnce', CorrectedOnce'
  PROVE  IInv'
<1> DEFINE length == call.used + a.n
           w == Written(a)
           h == HighWater(a)
<1>1. /\ Capacity \in Nat /\ call.used \in Nat /\ sent = call.used /\ call \in Calls
  BY DEF IInv, TypeOK, Capacity, Calls, BufferKept
<1>2. /\ a.n \in Nat /\ a.sw \in Statuses /\ w \in [1 .. Capacity -> Int]
      /\ h \in Nat /\ h > length
      /\ \A i \in 1 .. Capacity : (i <= length => w[i] = i) /\ (i > h => w[i] = Caller)
  BY WrittenFacts
<1>3. buffer' = [i \in 1 .. Capacity |-> IF i \in length + 1 .. h THEN Zero ELSE w[i]]
  BY DEF Completed
<1>4. length \in Nat /\ sent' = length
  BY <1>1, <1>2
<1> HIDE DEF length, w, h
<1>5. /\ buffer' \in [1 .. Capacity -> Int]
      /\ \A i \in 1 .. Capacity : IF i <= length THEN buffer'[i] = i ELSE buffer'[i] \in {Caller, Zero}
  BY <1>1, <1>2, <1>3, <1>4 DEF Zero
<1>6. buffer' \in Seq(Int) /\ DOMAIN buffer' = 1 .. Capacity
  BY <1>1, <1>5, ByteSequence
<1>7. reply' = Reply(call, "OK", a.sw, length, delivered') /\ pc' = "done" /\ call' = NoCall
  BY DEF Completed, length
<1>8. reply' \in Replies /\ reply'.kind # "none"
  <2>1. "OK" \in Results
    BY DEF Results
  <2>2. QED
    BY <1>1, <1>2, <1>4, <1>7, <2>1, ReplyType
<1>9. reply'.result = "OK" /\ reply'.length = length
  BY <1>7 DEF Reply
<1>10. Assembled'
  BY <1>4, <1>5, <1>6, <1>9 DEF Assembled
<1>11. QED
  BY <1>4, <1>6, <1>7, <1>8, <1>10, DoneIInv

-----------------------------------------------------------------------------
(* Between calls. *)

\* Opening, restricting or clearing a channel touches nothing else.
LEMMA IdleIInv ==
  ASSUME IInv, pc = "idle", channel' \in Channels, LimitKept',
         UNCHANGED <<pc, call, buffer, reply, sent, entry, delivered, recent>>
  PROVE  IInv'
<1>1. TypeOK'
  BY DEF IInv, TypeOK, Capacity
<1>2. Rests' /\ BufferKept' /\ StepFits' /\ DeliveryCounted'
  BY DEF IInv, Rests, BufferKept, StepFits, DeliveryCounted, Running
<1>3. InChain' /\ InCollect' /\ ChainCovered'
  BY DEF IInv, InChain, InCollect, ChainCovered, Running
<1>4. Assembled' /\ RepeatsSafe'
  BY DEF IInv, Assembled, RepeatsSafe, CommandOnce, CorrectedOnce, ProtectedNeverRepeated
<1>5. QED
  BY <1>1, <1>2, <1>3, <1>4 DEF IInv

\* The state TC_APDU_channel_clear leaves.
LEMMA ClosedType ==
  Closed \in Channels /\ Closed.max_response = 0
  BY DEF Closed, Channels, Formats

\* TC_APDU_channel_init and TC_APDU_channel_restrict keep the invariant: a
\* tightened card limit still leaves room for a data byte.
LEMMA SetupIInv ==
  ASSUME IInv, Setup
  PROVE  IInv'
<1>1. PICK mc \in CommandLimits, mr \in ResponseLimits, plain \in BOOLEAN :
        \/ \E exchanges \in Budgets, scratch \in Scratches, format \in Formats :
             ChannelInit(exchanges, scratch, mc, mr, plain, format)
        \/ Restrict(mc, mr, plain)
  BY DEF Setup
<1>2. mc \in Nat /\ mr \in Nat
  BY InputAssumption
<1>3. CASE \E exchanges \in Budgets, scratch \in Scratches, format \in Formats :
             ChannelInit(exchanges, scratch, mc, mr, plain, format)
  <2>1. PICK exchanges \in Budgets, scratch \in Scratches, format \in Formats :
          ChannelInit(exchanges, scratch, mc, mr, plain, format)
    BY <1>3
  <2>2. exchanges \in Nat /\ scratch \in Nat
    BY InputAssumption
  <2>3. channel' \in Channels /\ channel'.max_response = mr
    BY <1>2, <2>1, <2>2 DEF ChannelInit, Channels
  <2>4. LimitKept'
    BY <2>1, <2>3 DEF ChannelInit, LimitKept, LimitsValid
  <2>5. QED
    BY <2>1, <2>3, <2>4, IdleIInv DEF ChannelInit
<1>4. CASE Restrict(mc, mr, plain)
  <2>1. channel \in Channels /\ Tighter(channel.max_command, mc) \in Nat
        /\ Tighter(channel.max_response, mr) \in Nat
    BY <1>2 DEF IInv, TypeOK, Channels, Tighter
  <2>2. channel' \in Channels /\ channel'.max_response = Tighter(channel.max_response, mr)
    BY <1>4, <2>1 DEF Restrict, Channels
  <2>3. LimitKept'
    BY <1>4, <2>2 DEF IInv, Restrict, LimitKept, LimitsValid, Tighter
  <2>4. QED
    BY <1>4, <2>2, <2>3, IdleIInv DEF Restrict
<1>5. QED
  BY <1>1, <1>3, <1>4

\* TC_APDU_channel_clear keeps the invariant.
LEMMA ClearIInv ==
  ASSUME IInv, ChannelClear
  PROVE  IInv'
  BY ClosedType, IdleIInv DEF ChannelClear, LimitKept

\* So does the caller that takes its result.
LEMMA TakeIInv ==
  ASSUME IInv, Take
  PROVE  IInv'
<1>1. call = NoCall /\ call' = NoCall /\ pc' = "idle"
  BY DEF IInv, Rests, Running, Take
<1>2. TypeOK'
  <2>1. NoReply \in Replies
    BY NoSwType DEF NoReply, Replies, Results
  <2>2. channel' \in Channels
    BY DEF IInv, TypeOK, Take
  <2>3. buffer' = <<>> /\ recent' = <<>> /\ Len(buffer') = 0
    BY DEF Take
  <2>4. QED
    BY <1>1, <2>1, <2>2, <2>3, NoCallType DEF TypeOK, Take, Capacity
<1>3. Rests' /\ BufferKept' /\ StepFits' /\ DeliveryCounted' /\ LimitKept'
  BY <1>1 DEF IInv, Rests, BufferKept, StepFits, DeliveryCounted, Running, Take, LimitKept
<1>4. InChain' /\ InCollect' /\ ChainCovered' /\ Assembled'
  BY <1>1 DEF InChain, InCollect, ChainCovered, Running, Assembled
<1>5. recent' = <<>> /\ Len(recent') = 0 /\ DOMAIN recent' = {}
  BY DEF Take
<1>6. RepeatsSafe'
  BY <1>5 DEF RepeatsSafe, CommandOnce, CorrectedOnce, ProtectedNeverRepeated
<1>7. QED
  BY <1>2, <1>3, <1>4, <1>5, <1>6 DEF IInv

\* Before any channel is opened the invariant holds.
LEMMA InitIInv ==
  Init => IInv
<1> SUFFICES ASSUME Init PROVE IInv
  OBVIOUS
<1>1. recent = <<>> /\ Len(recent) = 0 /\ DOMAIN recent = {} /\ buffer = <<>> /\ Len(buffer) = 0
  BY DEF Init
<1>2. TypeOK
  <2>1. NoReply \in Replies
    BY NoSwType DEF NoReply, Replies, Results
  <2>2. QED
    BY <1>1, <2>1, NoCallType, ClosedType DEF TypeOK, Init, Capacity
<1>3. Rests /\ BufferKept /\ StepFits /\ DeliveryCounted /\ LimitKept
  BY ClosedType DEF Rests, BufferKept, StepFits, DeliveryCounted, Running, Init, LimitKept
<1>4. InChain /\ InCollect /\ ChainCovered /\ Assembled
  BY DEF InChain, InCollect, ChainCovered, Running, Assembled, Init
<1>5. RepeatsSafe
  BY <1>1 DEF RepeatsSafe, CommandOnce, CorrectedOnce, ProtectedNeverRepeated
<1>6. QED
  BY <1>1, <1>2, <1>3, <1>4, <1>5 DEF IInv

-----------------------------------------------------------------------------
(* The steps of a call before its command has gone out. *)

\* response_ne only lowers Ne, and not below zero.
LEMMA ResponseNeFacts ==
  ASSUME IInv, NEW ne \in Nat
  PROVE  ResponseNe(ne) \in Nat /\ ResponseNe(ne) <= ne
<1>1. channel.max_response \in Nat
  BY DEF IInv, TypeOK, Channels
<1>2. QED
  BY <1>1 DEF IInv, LimitKept, ResponseNe, StatusBytes

\* chain_send changes only the step.
LEMMA FragmentFacts ==
  ASSUME NEW c \in Calls
  PROVE  /\ Fragment(c) \in Calls
         /\ Fragment(c).step = [ins |-> "fragment", nc |-> ShortMaxNc, ne |-> 0, sm |-> c.sm]
         /\ Fragment(c).nc = c.nc /\ Fragment(c).ne = c.ne /\ Fragment(c).sm = c.sm
         /\ Fragment(c).format = c.format /\ Fragment(c).offset = c.offset
         /\ Fragment(c).correctable = c.correctable /\ Fragment(c).corrected = c.corrected
         /\ Fragment(c).card_stated = c.card_stated
         /\ Fragment(c).used = c.used /\ Fragment(c).high_water = c.high_water
<1>1. [ins |-> "fragment", nc |-> ShortMaxNc, ne |-> 0, sm |-> c.sm] \in Steps
  BY LimitAssumption DEF Steps, Calls
<1>2. QED
  BY <1>1 DEF Fragment, Calls

LEMMA FragmentStep ==
  ASSUME NEW c \in Calls
  PROVE  Fragment(c).step.nc = ShortMaxNc /\ Fragment(c).step.ne = 0
<1>1. Fragment(c).step = [ins |-> "fragment", nc |-> ShortMaxNc, ne |-> 0, sm |-> c.sm]
  BY FragmentFacts, Zenon
<1>2. QED
  BY <1>1

\* response_collect starts with the rest of the command and no correction.
LEMMA CollectFacts ==
  ASSUME IInv, NEW c \in Calls, c.offset <= c.nc
  PROVE  /\ Collect(c) \in Calls
         /\ Collect(c).step = [ins |-> "command", nc |-> c.nc - c.offset, ne |-> ResponseNe(c.ne), sm |-> c.sm]
         /\ Collect(c).nc = c.nc /\ Collect(c).ne = c.ne /\ Collect(c).sm = c.sm
         /\ Collect(c).format = c.format /\ Collect(c).offset = c.offset
         /\ Collect(c).correctable = (~Chained(c) /\ ~c.sm /\ ResponseNe(c.ne) # 0)
         /\ Collect(c).corrected = FALSE /\ Collect(c).card_stated = FALSE
         /\ Collect(c).used = c.used /\ Collect(c).high_water = c.high_water
<1>1. c.ne \in Nat /\ c.nc \in Nat /\ c.offset \in Nat /\ c.sm \in BOOLEAN
  BY DEF Calls
<1>2. ResponseNe(c.ne) \in Nat
  BY <1>1, ResponseNeFacts
<1>3. c.nc - c.offset \in Nat
  BY <1>1
<1>4. [ins |-> "command", nc |-> c.nc - c.offset, ne |-> ResponseNe(c.ne), sm |-> c.sm] \in Steps
  BY <1>1, <1>2, <1>3 DEF Steps
<1>5. (~Chained(c) /\ ~c.sm /\ ResponseNe(c.ne) # 0) \in BOOLEAN
  OBVIOUS
<1>6. QED
  BY <1>4, <1>5 DEF Collect, Calls

LEMMA CollectStep ==
  ASSUME IInv, NEW c \in Calls, c.offset <= c.nc
  PROVE  /\ Collect(c).step.ins = "command" /\ Collect(c).step.nc = c.nc - c.offset
         /\ Collect(c).step.ne = ResponseNe(c.ne)
<1>1. Collect(c).step = [ins |-> "command", nc |-> c.nc - c.offset, ne |-> ResponseNe(c.ne), sm |-> c.sm]
  BY CollectFacts, Zenon
<1>2. QED
  BY <1>1

\* The caller's buffer of n bytes, as the answers so far have left it.
BufferGiven(c, n) ==
  /\ n >= StatusBytes /\ c.high_water <= n
  /\ buffer' \in [1 .. n -> Int]
  /\ \A i \in 1 .. n : i > c.high_water => buffer'[i] = Caller

\* Only fragments of this command have gone out.
FragmentsOnly(c) ==
  /\ recent' \in Seq(Transmits) /\ Len(recent') <= 3 /\ CommandOnce' /\ CorrectedOnce'
  /\ c.sm => \A i \in DOMAIN recent' : recent'[i].sw.class # "6C"
  /\ recent' # <<>> => /\ Chained(c) /\ Latest'.ins = "fragment" /\ Latest'.offset < c.offset
                       /\ Latest'.sw.class # "6C"

\* What is left of a chain is covered.
RestCovered(c) == Chained(c) => \E k \in Nat : ChainRoom(c, channel', k)

\* Before its next fragment, or before its command, a call has what it needs.
LEMMA EnterIInv ==
  ASSUME IInv, NEW c \in Calls, NEW more \in BOOLEAN, NEW n \in Nat,
         more <=> Chained(c) /\ c.nc - c.offset > ShortMaxNc,
         c.nc <= MaxNc, Chained(c) => c.ne <= ShortMaxNe /\ c.offset < c.nc,
         ~Chained(c) => c.offset = 0 /\ FormFits(c.nc, c.ne, c.format),
         c.used = 0, ~c.card_stated,
         pc' = (IF more THEN "chain" ELSE "collect"),
         call' = (IF more THEN Fragment(c) ELSE Collect(c)),
         channel' \in Channels, LimitKept', ~channel'.stopped,
         sent' = 0, delivered' = 0, entry' \in Nat, channel'.exchanges_left <= entry',
         reply' = NoReply, BufferGiven(c, n), FragmentsOnly(c), RestCovered(c)
  PROVE  IInv'
<1>1. c.nc \in Nat /\ c.ne \in Nat /\ c.offset \in Nat /\ c.offset <= c.nc /\ c.format \in Formats
      /\ c.sm \in BOOLEAN
  BY DEF Calls
<1>2. /\ call' \in Calls /\ call'.nc = c.nc /\ call'.ne = c.ne /\ call'.sm = c.sm
      /\ call'.format = c.format /\ call'.offset = c.offset /\ call'.used = 0
      /\ call'.card_stated = FALSE /\ call'.high_water = c.high_water
  <2>1. CASE more
    <3>1. call' = Fragment(c) /\ c.card_stated = FALSE
      BY <2>1 DEF Calls
    <3>2. /\ Fragment(c) \in Calls /\ Fragment(c).nc = c.nc /\ Fragment(c).ne = c.ne /\ Fragment(c).sm = c.sm
          /\ Fragment(c).format = c.format /\ Fragment(c).offset = c.offset /\ Fragment(c).used = c.used
          /\ Fragment(c).card_stated = FALSE /\ Fragment(c).high_water = c.high_water
      BY <1>1, <3>1, FragmentFacts
    <3>3. QED
      BY <3>1, <3>2, Zenon
  <2>2. CASE ~more
    <3>1. call' = Collect(c)
      BY <2>2
    <3>2. /\ Collect(c) \in Calls /\ Collect(c).nc = c.nc /\ Collect(c).ne = c.ne /\ Collect(c).sm = c.sm
          /\ Collect(c).format = c.format /\ Collect(c).offset = c.offset /\ Collect(c).used = c.used
          /\ Collect(c).card_stated = FALSE /\ Collect(c).high_water = c.high_water
      BY <1>1, <3>1, CollectFacts
    <3>3. QED
      BY <3>1, <3>2, Zenon
  <2>3. QED
    BY <2>1, <2>2
<1>3. Chained(call)' <=> Chained(c)
  BY <1>2 DEF Chained
<1>4. buffer' \in Seq(Int) /\ Capacity' = n
  BY ByteSequence DEF Capacity, BufferGiven
<1>5. TypeOK'
  <2>1. NoReply \in Replies
    BY NoSwType DEF NoReply, Replies, Results
  <2>2. pc' \in {"chain", "collect"}
    OBVIOUS
  <2>3. QED
    BY <1>2, <1>4, <2>1, <2>2 DEF TypeOK, BufferGiven, FragmentsOnly
<1>6. Rests'
  BY DEF Rests, Running
<1>7. BufferKept'
  BY <1>2, <1>4 DEF BufferKept, BufferGiven
<1>8. /\ FormFits(call.step.nc, call.step.ne, call.format)'
      /\ more => call'.step = [ins |-> "fragment", nc |-> ShortMaxNc, ne |-> 0, sm |-> c.sm]
      /\ ~more => /\ call'.step = [ins |-> "command", nc |-> c.nc - c.offset,
                                   ne |-> ResponseNe(c.ne), sm |-> c.sm]
                  /\ ResponseNe(c.ne) \in Nat /\ ResponseNe(c.ne) <= c.ne
  <2>1. CASE more
    <3>1. call'.step = [ins |-> "fragment", nc |-> ShortMaxNc, ne |-> 0, sm |-> c.sm]
      BY <2>1, FragmentFacts
    <3>2. FormFits(ShortMaxNc, 0, call'.format)
      BY LimitAssumption DEF FormFits, ShortFits
    <3>3. call'.step.nc = ShortMaxNc /\ call'.step.ne = 0
      BY <2>1, FragmentStep, Zenon
    <3>4. FormFits(call.step.nc, call.step.ne, call.format)'
      BY <3>2, <3>3, Zenon
    <3>5. QED
      BY <2>1, <3>1, <3>4, Zenon
  <2>2. CASE ~more
    <3>1. call'.step = [ins |-> "command", nc |-> c.nc - c.offset, ne |-> ResponseNe(c.ne), sm |-> c.sm]
      BY <1>1, <2>2, CollectFacts
    <3>2. ResponseNe(c.ne) \in Nat /\ ResponseNe(c.ne) <= c.ne
      BY <1>1, ResponseNeFacts
    <3>3. FormFits(c.nc - c.offset, ResponseNe(c.ne), c.format)
      <4> DEFINE e == ResponseNe(c.ne)
      <4> HIDE DEF e
      <4>1. e \in Nat /\ e <= c.ne
        BY <3>2 DEF e
      <4> DEFINE m == c.nc - c.offset
      <4>2. m \in Nat /\ m <= MaxNc /\ (Chained(c) => m <= ShortMaxNc)
        <5>1. Chained(c) => ~(c.nc - c.offset > ShortMaxNc)
          BY <2>2, Zenon
        <5>2. m \in Nat /\ m <= MaxNc
          BY <1>1, LimitAssumption
        <5>3. QED
          BY <5>1, <5>2, LimitAssumption
      <4>3. c.ne <= MaxNe /\ (Chained(c) => c.ne <= ShortMaxNe)
        BY <1>1, LimitAssumption DEF FormFits
      <4>4. ~Chained(c) => FormFits(m, c.ne, c.format)
        BY <1>1
      <4> HIDE DEF m
      <4>5. FormFits(m, e, c.format)
        BY <1>1, <4>1, <4>2, <4>3, <4>4, LimitAssumption DEF FormFits, ShortFits
      <4>6. QED
        BY <4>5 DEF m, e
    <3>4. FormFits(call.step.nc, call.step.ne, call.format)'
      <4>1. call'.step.nc = c.nc - c.offset /\ call'.step.ne = ResponseNe(c.ne) /\ call'.format = c.format
        BY <1>1, <1>2, <2>2, CollectStep, Zenon
      <4>2. QED
        BY <3>3, <4>1, Zenon
    <3>5. QED
      BY <2>2, <3>1, <3>2, <3>4, Zenon
  <2>3. QED
    BY <2>1, <2>2
<1>9. StepFits'
  BY <1>1, <1>2, <1>3, <1>8 DEF StepFits
<1>10. DeliveryCounted'
  <2>1. channel'.exchanges_left \in Nat
    BY DEF Channels
  <2>2. QED
    BY <2>1 DEF DeliveryCounted
<1>11. InChain'
  BY <1>1, <1>2, <1>3, <1>8 DEF InChain, FragmentsOnly
<1>12. InCollect'
  <2> SUFFICES ASSUME ~more, pc' = "collect" PROVE InCollect'
    BY DEF InCollect
  <2>1. /\ call'.step = [ins |-> "command", nc |-> c.nc - c.offset, ne |-> ResponseNe(c.ne), sm |-> c.sm]
        /\ call'.correctable = (~Chained(c) /\ ~c.sm /\ ResponseNe(c.ne) # 0)
        /\ call'.corrected = FALSE
    BY <1>1, CollectFacts
  <2>2. /\ call'.step.ins = "command" /\ call'.step.nc = c.nc - c.offset /\ call'.step.ne = ResponseNe(c.ne)
        /\ ResponseNe(c.ne) \in Nat /\ ResponseNe(c.ne) <= c.ne
    BY <1>1, <1>8, CollectStep, Zenon
  <2>3. c.ne = 0 => ResponseNe(c.ne) = 0
    <3> DEFINE e == ResponseNe(c.ne)
               d == c.ne
    <3>1. e \in Nat /\ d \in Nat /\ e <= d
      BY <1>1, <2>2, Zenon
    <3> HIDE DEF d, e
    <3>2. d = 0 => e = 0
      BY <3>1
    <3>3. QED
      BY <3>2, Zenon DEF d, e
  <2>4. call'.correctable => ~call'.sm /\ KindOf(call)' = "repeatable" /\ call'.step.ne # 0
    <3> SUFFICES ASSUME call'.correctable
                 PROVE  ~call'.sm /\ KindOf(call)' = "repeatable" /\ call'.step.ne # 0
      OBVIOUS
    <3>1. ~Chained(call)' /\ ~call'.sm /\ ResponseNe(c.ne) # 0
      BY <1>2, <1>3, <2>1, Zenon
    <3>2. call'.ne # 0
      BY <1>2, <2>3, <3>1, Zenon
    <3>3. QED
      BY <2>2, <3>1, <3>2, Zenon DEF KindOf
  <2>5. Chained(call)' => call'.step.nc \in 1 .. ShortMaxNc
    <3> SUFFICES ASSUME Chained(c) PROVE call'.step.nc \in 1 .. ShortMaxNc
      BY <1>3, Zenon
    <3>1. c.offset < c.nc /\ ~(c.nc - c.offset > ShortMaxNc)
      BY Zenon
    <3>2. c.nc - c.offset \in 1 .. ShortMaxNc
      BY <1>1, <3>1, LimitAssumption
    <3>3. QED
      BY <2>2, <3>2, Zenon
  <2>6. call'.ne = 0 => call'.step.ne = 0
    BY <1>2, <2>2, <2>3, Zenon
  <2>7. /\ call'.corrected = FALSE /\ delivered' = 0 /\ ~call'.card_stated /\ call'.used = 0
        /\ call'.step.nc = call'.nc - call'.offset
    BY <1>2, <2>1, <2>2, Zenon
  <2>8. recent' # <<>> => /\ Chained(call)' /\ Latest'.ins = "fragment" /\ Latest'.offset < call'.offset
                          /\ Latest'.sw.class # "6C"
    BY <1>2, <1>3, Zenon DEF FragmentsOnly
  <2>9. QED
    BY <2>2, <2>4, <2>5, <2>6, <2>7, <2>8, Zenon DEF InCollect
<1>13. ChainCovered'
  BY <1>2, <1>3 DEF ChainCovered, ChainRoom, RestCovered
<1>14. Assembled' /\ RepeatsSafe'
  BY <1>2 DEF Assembled, RepeatsSafe, ProtectedNeverRepeated, FragmentsOnly
<1>15. Len(recent') <= 3
  BY DEF FragmentsOnly
<1>16. QED
  BY <1>15, <1>5, <1>6, <1>7, <1>9, <1>10, <1>11, <1>12, <1>13, <1>14 DEF IInv

\* A call is refused, or begins with what chain_check has found room for.
LEMMA CallIInv ==
  ASSUME IInv, NEW nc \in DataLengths, NEW ne \in Expected, NEW sm \in BOOLEAN, NEW checked \in Checks,
         NEW format \in Formats, NEW capacity \in Capacities, Call(nc, ne, sm, format, capacity, checked)
  PROVE  IInv'
<1> DEFINE c == [NoCall EXCEPT !.nc = nc, !.ne = ne, !.sm = sm, !.format = format]
           refused == Refused(c, capacity, checked)
           limited == Chained(c) /\ ~ChainFits(nc, ne)
<1>1. nc \in Nat /\ ne \in Nat /\ capacity \in Nat
  BY InputAssumption
<1>2. /\ c \in Calls /\ c.nc = nc /\ c.ne = ne /\ c.sm = sm /\ c.format = format /\ c.offset = 0
      /\ c.used = 0 /\ c.high_water = 0 /\ ~c.card_stated
  BY <1>1 DEF NoCall, NoStep, Calls, Steps, Formats
<1>3. /\ pc = "idle" /\ call = NoCall /\ reply = NoReply /\ channel' = channel
      /\ sent' = 0 /\ entry' = channel.exchanges_left /\ delivered' = 0 /\ recent' = <<>>
  BY DEF IInv, Rests, Running, Call
<1>4. /\ channel' \in Channels /\ LimitKept' /\ entry' \in Nat
      /\ recent' \in Seq(Transmits) /\ Len(recent') = 0 /\ DOMAIN recent' = {}
  BY <1>3 DEF IInv, TypeOK, LimitKept, Channels
<1>5. CommandOnce' /\ CorrectedOnce'
  BY <1>3, <1>4 DEF CommandOnce, CorrectedOnce
<1>6. CASE refused # "OK" \/ limited
  <2> DEFINE result == IF refused # "OK" THEN refused ELSE "LIMIT"
  <2>1. /\ reply' = Reply(c, result, NoSw, 0, 0) /\ pc' = "done" /\ call' = NoCall
        /\ buffer' = [i \in 1 .. capacity |-> IF refused # "OK" THEN Caller ELSE Zero]
    BY <1>3, <1>6 DEF Call
  <2>2. result \in Results /\ result # "OK"
    BY DEF Refused, Checks, Results
  <2> HIDE DEF refused, limited, result, c
  <2>3. buffer' \in [1 .. capacity -> Int] /\ \A i \in 1 .. capacity : buffer'[i] \in {Caller, Zero}
    BY <1>1, <2>1 DEF Caller, Zero
  <2>4. buffer' \in Seq(Int) /\ DOMAIN buffer' = 1 .. capacity
    BY <1>1, <2>3, ByteSequence
  <2>5. reply' \in Replies /\ reply'.kind # "none" /\ reply'.result = result
    <3>1. reply'.result = result
      BY <2>1 DEF Reply
    <3>2. QED
      BY <1>2, <2>1, <2>2, <3>1, ReplyType, NoSwType
  <2>6. Assembled'
    BY <1>3, <2>2, <2>3, <2>4, <2>5 DEF Assembled
  <2>7. QED
    BY <1>3, <1>4, <1>5, <2>1, <2>4, <2>5, <2>6, DoneIInv
<1>7. CASE ~(refused # "OK" \/ limited)
  <2> DEFINE more == Chained(c)
  <2>1. /\ pc' = (IF more THEN "chain" ELSE "collect")
        /\ call' = (IF more THEN Fragment(c) ELSE Collect(c))
        /\ buffer' = [i \in 1 .. capacity |-> Caller] /\ reply' = NoReply
    BY <1>3, <1>7 DEF Call
  <2>2. /\ capacity >= StatusBytes /\ ~channel.stopped
        /\ FormFits(IF more /\ nc <= MaxNc THEN ShortMaxNc ELSE nc, ne, format)
    <3>1. refused = "OK"
      BY <1>7
    <3>2. ~(~channel.open \/ capacity < StatusBytes
            \/ ~FormFits(IF Chained(c) /\ c.nc <= MaxNc THEN ShortMaxNc ELSE c.nc, c.ne, c.format))
      BY <3>1 DEF Refused
    <3>3. ~channel.stopped
      BY <3>1 DEF Refused
    <3>4. QED
      BY <1>1, <1>2, <3>2, <3>3 DEF StatusBytes
  <2>3. more <=> format = "SHORT" /\ nc > ShortMaxNc
    BY <1>2 DEF Chained
  <2>4. more => ChainFits(nc, ne)
    BY <1>7
  <2> HIDE DEF refused, limited, c, more
  <2>5. nc <= MaxNc /\ (more => ne <= ShortMaxNe) /\ (~more => FormFits(nc, ne, format))
    BY <1>1, <2>2, <2>3, LimitAssumption DEF FormFits, ShortFits
  <2>6. more => \E k \in Nat : ChainRoom(c, channel', k)
    <3> SUFFICES ASSUME more PROVE \E k \in Nat : ChainRoom(c, channel', k)
      OBVIOUS
    <3> DEFINE k == nc \div ShortMaxNc + (IF nc % ShortMaxNc # 0 THEN 1 ELSE 0)
    <3>1. /\ k \in Nat /\ k >= 1 /\ (k - 1) * ShortMaxNc < nc /\ nc <= k * ShortMaxNc
      BY <1>1, <2>3, Fragments
    <3> DEFINE rest == (k - 1) * ShortMaxNc
               last == nc - rest
               final == HeaderBytes + 1 + last + (IF ne # 0 THEN 1 ELSE 0)
               middle == HeaderBytes + 1 + ShortMaxNc
               largest == IF final > middle THEN final ELSE middle
    <3>2. /\ largest <= channel.scratch /\ channel.exchanges_left >= k
          /\ channel.max_command # 0 => largest <= channel.max_command
      BY <2>4 DEF ChainFits
    <3> HIDE DEF k
    <3>3. rest \in Int /\ rest < nc /\ k * ShortMaxNc = rest + ShortMaxNc
      BY <3>1, LimitAssumption
    <3> HIDE DEF rest
    <3>4. last \in Int /\ last > 0 /\ last <= ShortMaxNc
      BY <1>1, <3>1, <3>3, LimitAssumption
    <3>5. channel \in Channels /\ channel.scratch \in Nat /\ channel.max_command \in Nat
      BY DEF IInv, TypeOK, Channels
    <3>6. /\ middle \in Int /\ final \in Int /\ middle <= largest /\ final <= largest /\ largest \in Int
      BY <1>1, <3>4, LimitAssumption DEF HeaderBytes
    <3> HIDE DEF largest
    <3>7. /\ middle <= channel.scratch /\ final <= channel.scratch
          /\ channel.max_command # 0 => middle <= channel.max_command /\ final <= channel.max_command
      BY <3>2, <3>5, <3>6
    <3>8. c.nc - c.offset - (k - 1) * ShortMaxNc = last
      BY <1>1, <1>2, <3>1, <3>3, LimitAssumption DEF rest
    <3>9. k <= channel.exchanges_left
      BY <3>1, <3>2, <3>5 DEF Channels
    <3> HIDE DEF last
    <3>10. ChainRoom(c, channel, k)
      BY <1>2, <3>1, <3>4, <3>7, <3>8, <3>9 DEF ChainRoom
    <3>11. QED
      BY <1>3, <3>1, <3>10
  <2>7. /\ buffer' \in [1 .. capacity -> Int] /\ \A i \in 1 .. capacity : buffer'[i] = Caller
    BY <2>1 DEF Caller
  <2>8. more <=> Chained(c) /\ c.nc - c.offset > ShortMaxNc
    BY <1>1, <1>2, <2>3, LimitAssumption DEF more
  <2>9. channel'.exchanges_left <= entry' /\ ~channel'.stopped
    BY <1>3, <1>4, <2>2
  <2>10. Chained(c) => c.ne <= ShortMaxNe /\ c.offset < c.nc
    BY <1>1, <1>2, <2>3, <2>5, LimitAssumption DEF more
  <2>11. ~Chained(c) => c.offset = 0 /\ FormFits(c.nc, c.ne, c.format)
    BY <1>2, <2>5 DEF more
  <2>12. more \in BOOLEAN /\ c.nc <= MaxNc
    BY <1>1, <1>2, <2>5 DEF more, Chained
  <2>13. BufferGiven(c, capacity)
    BY <1>1, <1>2, <2>2, <2>7 DEF BufferGiven
  <2>14. FragmentsOnly(c)
    BY <1>3, <1>4, <1>5 DEF FragmentsOnly
  <2>15. RestCovered(c)
    BY <2>6, <2>10 DEF RestCovered, more
  <2>16. QED
    BY <1>1, <1>2, <1>3, <1>4, <2>1, <2>8, <2>9, <2>10, <2>11, <2>12, <2>13, <2>14, <2>15, EnterIInv
<1>8. QED
  BY <1>6, <1>7

-----------------------------------------------------------------------------
(* A step that cannot be transmitted. *)

\* What chain_check has found room for can be transmitted: a call that fails
\* before a transmit has transmitted nothing or the whole command.
LEMMA ChainNeverCut ==
  ASSUME IInv, Running, NoRoom \/ StepResult # "OK"
  PROVE  recent = <<>> \/ delivered > 0
<1>0. SUFFICES ASSUME recent # <<>>, ~(delivered > 0) PROVE FALSE
  OBVIOUS
<1>1. delivered = 0 /\ call \in Calls /\ channel \in Channels /\ call.nc \in Nat /\ call.offset \in Nat
      /\ call.ne \in Nat /\ call.step \in Steps /\ call.step.nc \in Nat /\ call.step.ne \in Nat
      /\ channel.scratch \in Nat /\ channel.max_command \in Nat /\ channel.exchanges_left \in Nat
      /\ call.used \in Nat /\ Capacity \in Nat
  <2>1. call \in Calls /\ channel \in Channels /\ delivered \in 0 .. 2
    BY DEF IInv, TypeOK
  <2>2. call.step \in Steps
    BY <2>1 DEF Calls
  <2>3. QED
    BY <1>0, <2>1, <2>2 DEF IInv, TypeOK, Calls, Channels, Steps, Capacity
<1>2. /\ Chained(call) /\ ~call.card_stated /\ call.used = 0
      /\ call.step.nc \in 1 .. ShortMaxNc
      /\ call.step.nc <= call.nc - call.offset
      /\ pc = "collect" => call.step.nc = call.nc - call.offset
      /\ pc = "chain" => call.step.nc = ShortMaxNc
      /\ call.ne = 0 => call.step.ne = 0
  <2>1. CASE pc = "chain"
    <3>1. Chained(call) /\ call.nc - call.offset > ShortMaxNc /\ ~call.card_stated /\ call.used = 0
          /\ call.step.nc = ShortMaxNc /\ call.step.ne = 0
      BY <2>1 DEF IInv, InChain
    <3>2. QED
      BY <1>1, <2>1, <3>1, LimitAssumption
  <2>2. CASE pc = "collect"
    <3>1. call.step.ins = "command"
      BY <1>1, <2>2 DEF IInv, InCollect
    <3>2. ~call.corrected
      BY <1>1, <2>2, <3>1 DEF IInv, InCollect
    <3>3. Chained(call) /\ ~call.card_stated /\ call.used = 0 /\ call.step.nc = call.nc - call.offset
          /\ (call.ne = 0 => call.step.ne = 0)
      BY <1>0, <2>2, <3>1, <3>2 DEF IInv, InCollect
    <3>4. call.step.nc \in 1 .. ShortMaxNc
      BY <2>2, <3>1, <3>3 DEF IInv, InCollect
    <3>5. QED
      BY <1>1, <2>2, <3>3, <3>4
  <2>3. QED
    BY <2>1, <2>2 DEF Running
<1>3. PICK k \in Nat : ChainRoom(call, channel, k)
  BY <1>1, <1>2 DEF IInv, ChainCovered
<1> DEFINE rest == (k - 1) * ShortMaxNc
           last == call.nc - call.offset - rest
           nc == call.step.nc
           ne == call.step.ne
           le == IF call.ne # 0 THEN 1 ELSE 0
<1>4. /\ last > 0 /\ last <= ShortMaxNc /\ k >= 1 /\ k <= channel.exchanges_left
      /\ HeaderBytes + 1 + ShortMaxNc <= channel.scratch
      /\ HeaderBytes + 1 + last + le <= channel.scratch
      /\ channel.max_command # 0 =>
           /\ HeaderBytes + 1 + ShortMaxNc <= channel.max_command
           /\ HeaderBytes + 1 + last + le <= channel.max_command
  BY <1>3 DEF ChainRoom
<1>5. rest \in Int /\ (k >= 2 => rest >= ShortMaxNc) /\ (k = 1 => rest = 0)
  <2>1. k = 1 => rest = 0
    BY LimitAssumption
  <2>2. k >= 2 => rest >= ShortMaxNc
    <3> SUFFICES ASSUME k >= 2 PROVE rest >= ShortMaxNc
      OBVIOUS
    <3>1. \A m, s \in Nat : m >= 1 => m * s >= s
      OBVIOUS
    <3>2. k - 1 \in Nat /\ k - 1 >= 1 /\ ShortMaxNc \in Nat
      BY LimitAssumption
    <3>3. QED
      BY <3>1, <3>2
  <2>3. QED
    BY <2>1, <2>2, LimitAssumption
<1> HIDE DEF rest
<1>6. pc = "collect" => last = nc
  <2> SUFFICES ASSUME pc = "collect" PROVE last = nc
    OBVIOUS
  <2>1. nc = call.nc - call.offset /\ nc \in 1 .. ShortMaxNc
    BY <1>2
  <2>2. ~(k >= 2)
    BY <1>1, <1>4, <1>5, <2>1, LimitAssumption
  <2>3. rest = 0
    BY <1>4, <1>5, <2>2
  <2>4. QED
    BY <1>1, <2>1, <2>3
<1>7. ne <= ShortMaxNe /\ FormFits(nc, ne, call.format)
  BY <1>2 DEF IInv, StepFits, FormFits, ShortFits, Chained
<1>8. FormSize(nc, ne) = HeaderBytes + 1 + nc + (IF ne # 0 THEN 1 ELSE 0)
  <2>1. ShortFits(nc, ne) /\ nc # 0
    BY <1>1, <1>2, <1>7, LimitAssumption DEF ShortFits
  <2>2. QED
    BY <1>1, <2>1 DEF FormSize, HeaderBytes
<1>9. /\ FormSize(nc, ne) <= channel.scratch
      /\ channel.max_command # 0 => FormSize(nc, ne) <= channel.max_command
  <2>1. CASE pc = "chain"
    <3>1. nc = ShortMaxNc /\ ne = 0
      BY <2>1, ChainState, Zenon
    <3> DEFINE size == FormSize(nc, ne)
    <3>2. size = HeaderBytes + 1 + ShortMaxNc
      BY <1>1, <1>8, <3>1, LimitAssumption DEF HeaderBytes
    <3>3. QED
      BY <1>4, <3>2, Zenon
  <2>2. CASE pc = "collect"
    <3>1. last = nc /\ (IF ne # 0 THEN 1 ELSE 0) <= le
      BY <1>2, <1>6, <2>2
    <3> DEFINE extra == IF ne # 0 THEN 1 ELSE 0
    <3>2. FormSize(nc, ne) <= HeaderBytes + 1 + last + le /\ FormSize(nc, ne) \in Int
      <4>1. extra \in Int /\ le \in Int /\ extra <= le
        BY <3>1
      <4> HIDE DEF extra, le
      <4>2. FormSize(nc, ne) = HeaderBytes + 1 + nc + extra
        BY <1>8 DEF extra
      <4>3. last = nc /\ nc \in Int
        BY <1>1, <3>1
      <4> HIDE DEF last, nc, ne
      <4>4. QED
        BY <4>1, <4>2, <4>3 DEF HeaderBytes
    <3> DEFINE final == HeaderBytes + 1 + last + le
               size == FormSize(nc, ne)
    <3>3. final \in Int
      BY <1>1, <1>5 DEF HeaderBytes
    <3>4. size \in Int /\ size <= final /\ final <= channel.scratch
          /\ (channel.max_command # 0 => final <= channel.max_command)
      BY <1>4, <3>2
    <3> HIDE DEF final, size
    <3>5. size <= channel.scratch /\ (channel.max_command # 0 => size <= channel.max_command)
      BY <1>1, <3>3, <3>4
    <3>6. QED
      BY <3>5 DEF size
  <2>3. QED
    BY <2>1, <2>2 DEF Running
<1>10. Offered \in Int /\ Offered >= StatusBytes /\ channel.exchanges_left # 0
  <2>1. Capacity >= StatusBytes /\ call.used = 0
    BY <1>2, Zenon DEF IInv, BufferKept
  <2>2. Capacity \in Nat
    BY DEF IInv, TypeOK, Capacity
  <2>3. Offered \in Int /\ Offered >= StatusBytes
    BY <2>1, <2>2 DEF Offered, StatusBytes
  <2>4. channel.exchanges_left # 0
    <3>1. k >= 1 /\ k <= channel.exchanges_left /\ channel.exchanges_left \in Nat
      BY <1>1, <1>4, Zenon
    <3>2. QED
      BY <3>1
  <2>5. QED
    BY <2>3, <2>4, Zenon
<1>11. FormSize(nc, ne) \in Int
  BY <1>1, <1>8 DEF HeaderBytes
<1> DEFINE size == FormSize(nc, ne)
<1>12. StepResult = IF ~FormFits(nc, ne, call.format) THEN "ARGUMENT"
                    ELSE IF \/ size > channel.scratch
                            \/ channel.max_command # 0 /\ size > channel.max_command
                            \/ Offered < StatusBytes \/ channel.exchanges_left = 0
                      THEN "LIMIT" ELSE "OK"
  BY DEF StepResult
<1>13. StepResult = "OK"
  <2> HIDE DEF size, nc, ne
  <2>1. size \in Int /\ size <= channel.scratch /\ (channel.max_command # 0 => size <= channel.max_command)
    BY <1>9, <1>11 DEF size
  <2>2. ~(size > channel.scratch) /\ ~(channel.max_command # 0 /\ size > channel.max_command)
        /\ ~(Offered < StatusBytes) /\ ~(channel.exchanges_left = 0)
    BY <1>1, <1>10, <2>1 DEF StatusBytes
  <2>3. QED
    BY <1>7, <1>12, <2>2, Zenon
<1>14. ~NoRoom
  BY <1>2 DEF NoRoom
<1>15. QED
  BY <1>13, <1>14

\* A step that cannot be transmitted ends the call with LIMIT, and only there.
LEMMA StepFailsIInv ==
  ASSUME IInv, StepFails
  PROVE  IInv' /\ Fail("LIMIT")
<1>1. Running /\ (NoRoom \/ StepResult # "OK")
  BY DEF StepFails, Running
<1>2. StepResult # "ARGUMENT"
  <2>1. FormFits(call.step.nc, call.step.ne, call.format)
    BY <1>1 DEF IInv, StepFits
  <2>2. QED
    BY <2>1 DEF StepResult
<1>3. StepResult \in {"OK", "LIMIT"}
  BY <1>2 DEF StepResult
<1>4. Fail("LIMIT")
  BY <1>1, <1>3 DEF StepFails
<1>5. recent = <<>> \/ delivered > 0
  BY <1>1, ChainNeverCut
<1>6. UNCHANGED <<channel, sent, entry, delivered, recent>>
  BY DEF StepFails
<1>7. channel' \in Channels /\ LimitKept' /\ sent' \in Nat /\ entry' \in Nat /\ delivered' \in 0 .. 2
      /\ recent' \in Seq(Transmits) /\ Len(recent') <= 3 /\ CommandOnce' /\ CorrectedOnce'
  BY <1>6 DEF IInv, TypeOK, LimitKept, RepeatsSafe, CommandOnce, CorrectedOnce
<1>8. QED
  BY <1>4, <1>5, <1>6, <1>7, FailIInv

-----------------------------------------------------------------------------
(* A transmit and its answer. *)

\* A transmit takes one exchange from a budget that has one left.
LEMMA SpendFacts ==
  ASSUME IInv, Running, StepResult = "OK", Spend
  PROVE  /\ channel' \in Channels /\ LimitKept' /\ ~channel'.stopped
         /\ channel.exchanges_left \in Nat /\ channel'.exchanges_left = channel.exchanges_left - 1
         /\ channel'.scratch = channel.scratch /\ channel'.max_command = channel.max_command
         /\ channel'.max_response = channel.max_response
<1>1. channel \in Channels /\ channel.exchanges_left \in Nat /\ ~channel.stopped
  BY DEF IInv, TypeOK, Channels, BufferKept
<1>2. channel.exchanges_left # 0
  BY DEF StepResult
<1>3. channel.exchanges_left - 1 \in Nat
  BY <1>1, <1>2
<1>4. channel' = [channel EXCEPT !.exchanges_left = channel.exchanges_left - 1]
  BY DEF Spend
<1>5. QED
  BY <1>1, <1>3, <1>4 DEF Channels, IInv, LimitKept

\* The command goes out once, or twice when it may be corrected.
LEMMA DeliveredFacts ==
  ASSUME IInv, Running, NEW sw \in Statuses, Transmitted(sw)
  PROVE  /\ delivered' = delivered + (IF call.step.ins = "command" THEN 1 ELSE 0)
         /\ delivered \in 0 .. 2 /\ delivered' \in 0 .. 2
         /\ KindOf(call) # "repeatable" => delivered' <= 1
         /\ pc = "chain" => delivered' = 0
         /\ pc = "collect" => delivered' > 0
<1>1. delivered \in 0 .. 2 /\ delivered' = delivered + (IF call.step.ins = "command" THEN 1 ELSE 0)
  BY DEF IInv, TypeOK, Transmitted
<1>2. KindOf(call) # "repeatable" => delivered <= 1
  BY DEF IInv, DeliveryCounted
<1>3. CASE pc = "chain"
  <2>1. call.step.ins = "fragment" /\ delivered = 0
    BY <1>3, ChainState, Zenon
  <2>2. QED
    BY <1>1, <1>3, <2>1
<1>4. CASE pc = "collect" /\ call.step.ins = "command"
  <2>1. /\ ~call.corrected => delivered = 0
        /\ call.corrected => delivered = 1 /\ KindOf(call) = "repeatable"
    BY <1>4 DEF IInv, InCollect
  <2>2. QED
    BY <1>1, <1>4, <2>1
<1>5. CASE pc = "collect" /\ call.step.ins = "get"
  <2>1. delivered \in 1 .. 2
    BY <1>5 DEF IInv, InCollect
  <2>2. QED
    BY <1>1, <1>2, <1>5, <2>1
<1>6. QED
  BY <1>3, <1>4, <1>5 DEF IInv, InCollect, Running

\* The transport fails: the channel stops and the call returns nothing.
LEMMA TransportFailsIInv ==
  ASSUME IInv, Running, StepResult = "OK", TransportFails
  PROVE  IInv'
<1> DEFINE sw == [class |-> "invalid", length |-> 1]
<1>1. sw \in Statuses
  BY LimitAssumption DEF Statuses, Classes
<1>2. channel \in Channels /\ channel.exchanges_left \in Nat /\ channel.exchanges_left # 0
  BY DEF IInv, TypeOK, Channels, StepResult
<1>3. channel.exchanges_left - 1 \in Nat
  BY <1>2
<1>4. channel' = [channel EXCEPT !.exchanges_left = channel.exchanges_left - 1, !.stopped = TRUE]
  BY DEF TransportFails
<1>5. channel' \in Channels /\ channel'.max_response = channel.max_response
  BY <1>2, <1>3, <1>4 DEF Channels
<1>6. LimitKept'
  BY <1>5 DEF IInv, LimitKept
<1>7. Transmitted(sw) /\ Fail("ERROR") /\ sent' = sent /\ entry' = entry
  BY DEF TransportFails
<1> HIDE DEF sw
<1>8. /\ recent' \in Seq(Transmits) /\ Len(recent') <= 3 /\ CommandOnce' /\ CorrectedOnce'
      /\ delivered' \in 0 .. 2
  BY <1>1, <1>7, TransmittedHistory, DeliveredFacts
<1>9. sent' \in Nat /\ entry' \in Nat
  BY <1>7 DEF IInv, TypeOK
<1>10. QED
  BY <1>5, <1>6, <1>7, <1>8, <1>9, FailIInv

\* An answer to a fragment ends the call or lets the next fragment go out, for
\* which chain_check has found room.
LEMMA ChainAnswerIInv ==
  ASSUME IInv, pc = "chain", StepResult = "OK", NEW a \in Answers(Offered), ChainAnswer(a)
  PROVE  IInv'
<1> DEFINE sw == a.sw
<1>1. Running /\ Spend /\ Transmitted(sw) /\ sent' = sent + a.n /\ entry' = entry
  BY DEF Running, ChainAnswer
<1>2. /\ a.n \in Nat /\ sw \in Statuses /\ Written(a) \in [1 .. Capacity -> Int]
      /\ HighWater(a) \in Nat /\ HighWater(a) <= Capacity
      /\ \A i \in 1 .. Capacity : i > HighWater(a) => Written(a)[i] = Caller
  BY <1>1, WrittenFacts
<1>3. /\ channel' \in Channels /\ LimitKept' /\ ~channel'.stopped
      /\ channel.exchanges_left \in Nat /\ channel'.exchanges_left = channel.exchanges_left - 1
      /\ channel'.scratch = channel.scratch /\ channel'.max_command = channel.max_command
  BY <1>1, SpendFacts
<1>4. /\ recent' \in Seq(Transmits) /\ Len(recent') <= 3 /\ CommandOnce' /\ CorrectedOnce'
      /\ recent'[Len(recent')] = Sending(sw)
      /\ \A i \in DOMAIN recent' :
           recent'[i] = Sending(sw) \/ \E j \in DOMAIN recent : recent'[i] = recent[j]
  BY <1>1, <1>2, TransmittedHistory
<1>5. sent \in Nat /\ entry \in Nat /\ sent' \in Nat /\ entry' \in Nat
      /\ delivered' = 0 /\ delivered' \in 0 .. 2
  <2>1. sent \in Nat /\ entry \in Nat
    BY DEF IInv, TypeOK
  <2>2. delivered' = 0
    BY <1>1, <1>2, DeliveredFacts
  <2>3. QED
    BY <1>1, <1>2, <2>1, <2>2
<1>6. CASE ~Readable(a) \/ a.n > 0 \/ a.sw.class = "warning"
  <2>1. Fail("INVALID")
    BY <1>6 DEF ChainAnswer
  <2>2. QED
    BY <1>3, <1>4, <1>5, <2>1, FailIInv
<1>7. CASE ~(~Readable(a) \/ a.n > 0 \/ a.sw.class = "warning") /\ a.sw.class # "9000"
  <2>1. a.n = 0 /\ call.used \in Nat
    <3>1. call.used \in Nat
      BY DEF IInv, TypeOK, Calls
    <3>2. QED
      BY <1>2, <1>7, <3>1
  <2>2. Completed(a.sw, call.used, HighWater(a), Written(a)) /\ call.used = call.used + a.n
    BY <1>7, <2>1 DEF ChainAnswer
  <2>3. Completed(a.sw, call.used + a.n, HighWater(a), Written(a))
    BY <2>2, Zenon
  <2>4. QED
    BY <1>1, <1>3, <1>4, <1>5, <2>3, CompletedIInv
<1>8. CASE ~(~Readable(a) \/ a.n > 0 \/ a.sw.class = "warning") /\ a.sw.class = "9000"
  <2> DEFINE c == [call EXCEPT !.offset = @ + ShortMaxNc, !.high_water = HighWater(a)]
             more == c.nc - c.offset > ShortMaxNc
  <2>1. /\ pc' = (IF more THEN "chain" ELSE "collect")
        /\ call' = (IF more THEN Fragment(c) ELSE Collect(c))
        /\ buffer' = Written(a) /\ reply' = reply
    BY <1>8 DEF ChainAnswer
  <2>2. call \in Calls /\ call.offset \in Nat /\ call.nc \in Nat /\ call.ne \in Nat /\ call.sm \in BOOLEAN
    BY DEF IInv, TypeOK, Calls
  <2>3. call.offset + ShortMaxNc \in Nat
    BY <2>2, LimitAssumption
  <2>4. /\ c \in Calls /\ c.nc = call.nc /\ c.ne = call.ne /\ c.sm = call.sm /\ c.format = call.format
        /\ c.offset = call.offset + ShortMaxNc /\ c.used = call.used /\ c.high_water = HighWater(a)
        /\ c.card_stated = call.card_stated
    BY <1>2, <2>2, <2>3 DEF Calls
  <2> HIDE DEF c
  <2>5. /\ Chained(call) /\ call.nc - call.offset > ShortMaxNc /\ call.used = 0 /\ ~call.card_stated
        /\ delivered = 0 /\ call.step.ins = "fragment"
    BY ChainState, Zenon
  <2>6. Chained(c) /\ more \in BOOLEAN /\ (more <=> Chained(c) /\ c.nc - c.offset > ShortMaxNc)
    <3>1. Chained(c)
      BY <2>4, <2>5, Zenon DEF Chained
    <3>2. QED
      BY <3>1
  <2>7. c.nc <= MaxNc /\ c.ne <= ShortMaxNe /\ c.offset < c.nc
    <3>1. call.nc <= MaxNc /\ call.ne <= ShortMaxNe
      BY <1>1, <2>5 DEF IInv, StepFits
    <3>2. c.offset < c.nc
      <4>1. /\ call.offset \in Nat /\ call.nc \in Nat /\ call.nc - call.offset > ShortMaxNc
            /\ c.nc = call.nc /\ c.offset = call.offset + ShortMaxNc
        BY <2>2, <2>4, <2>5, Zenon
      <4>2. QED
        BY <4>1, LimitAssumption
    <3>3. QED
      BY <2>4, <3>1, <3>2
  <2>8. Capacity \in Nat /\ Capacity >= StatusBytes /\ sent = 0 /\ sent' = 0
    <3>1. Capacity \in Nat
      BY DEF IInv, TypeOK, Capacity
    <3>2. Capacity >= StatusBytes /\ sent = 0
      BY <1>1, <2>5 DEF IInv, BufferKept
    <3>3. a.n = 0
      BY <1>2, <1>8
    <3>4. QED
      BY <1>1, <3>1, <3>2, <3>3
  <2>9. channel'.exchanges_left <= entry'
    <3>1. entry - channel.exchanges_left >= delivered
      BY <1>1 DEF IInv, DeliveryCounted
    <3>2. QED
      BY <1>1, <1>3, <1>5, <2>5, <3>1, SMTT(20)
  <2>10. reply' = NoReply
    BY <2>1 DEF IInv, Rests
  <2>11. Sending(sw).ins = "fragment" /\ Sending(sw).offset = call.offset /\ Sending(sw).sw.class = "9000"
    BY <1>8, <2>5 DEF Sending
  <2>12. Latest'.ins = "fragment" /\ Latest'.offset < c.offset /\ Latest'.sw.class # "6C"
    <3>1. Latest' = Sending(sw)
      BY <1>4, Zenon DEF Latest
    <3>2. c.offset > call.offset
      BY <2>2, <2>4, LimitAssumption
    <3>3. Sending(sw).sw.class # "6C"
      BY <2>11
    <3>4. call.offset < c.offset
      BY <2>2, <2>3, <2>4, <3>2
    <3>5. QED
      BY <2>11, <3>1, <3>3, <3>4, Zenon
  <2>13. c.sm => \A i \in DOMAIN recent' : recent'[i].sw.class # "6C"
    <3>1. call.sm => \A j \in DOMAIN recent : recent[j].sw.class # "6C"
      BY DEF IInv, RepeatsSafe, ProtectedNeverRepeated
    <3> HIDE DEF sw
    <3>2. QED
      BY <1>4, <2>4, <2>11, <3>1
  <2>14. \E k \in Nat : ChainRoom(c, channel', k)
    <3>1. PICK k \in Nat : ChainRoom(call, channel, k)
      BY <1>1, <2>5 DEF IInv, ChainCovered
    <3> DEFINE rest == (k - 1) * ShortMaxNc
               last == call.nc - call.offset - rest
               final == HeaderBytes + 1 + last + (IF call.ne # 0 THEN 1 ELSE 0)
    <3>2. /\ last > 0 /\ last <= ShortMaxNc /\ k >= 1 /\ k <= channel.exchanges_left
          /\ HeaderBytes + 1 + ShortMaxNc <= channel.scratch /\ final <= channel.scratch
          /\ channel.max_command # 0 =>
               HeaderBytes + 1 + ShortMaxNc <= channel.max_command /\ final <= channel.max_command
      BY <3>1 DEF ChainRoom
    <3>3. k = 1 => rest = 0
      BY LimitAssumption
    <3>4. rest \in Int
      BY LimitAssumption
    <3>5. k >= 2
      <4> HIDE DEF rest
      <4>1. k # 1
        BY <2>2, <2>5, <3>2, <3>3, <3>4, LimitAssumption
      <4>2. QED
        BY <3>2, <4>1
    <3>6. ((k - 1) - 1) * ShortMaxNc = rest - ShortMaxNc
      BY LimitAssumption
    <3>7. c.nc - c.offset - ((k - 1) - 1) * ShortMaxNc = last
      <4> HIDE DEF rest
      <4> DEFINE less == ((k - 1) - 1) * ShortMaxNc
      <4>1. less = rest - ShortMaxNc
        BY <3>6
      <4> HIDE DEF less
      <4>2. c.nc - c.offset - less = last
        BY <2>2, <2>4, <3>4, <4>1, LimitAssumption
      <4>3. QED
        BY <4>2 DEF less
    <3>8. k - 1 \in Nat /\ k - 1 >= 1 /\ k - 1 <= channel'.exchanges_left
      BY <1>3, <3>2, <3>5
    <3> HIDE DEF last
    <3>9. ChainRoom(c, channel', k - 1)
      BY <1>3, <2>4, <3>2, <3>7, <3>8 DEF ChainRoom
    <3>10. QED
      BY <3>8, <3>9
  <2> HIDE DEF more
  <2>15. c.used = 0 /\ ~c.card_stated
    BY <2>4, <2>5
  <2>16. BufferGiven(c, Capacity)
    BY <1>2, <2>1, <2>4, <2>8 DEF BufferGiven
  <2>17. FragmentsOnly(c)
    BY <1>4, <1>5, <2>6, <2>12, <2>13 DEF FragmentsOnly
  <2>18. RestCovered(c)
    BY <2>14 DEF RestCovered
  <2>19. /\ Chained(c) => c.ne <= ShortMaxNe /\ c.offset < c.nc
         /\ ~Chained(c) => c.offset = 0 /\ FormFits(c.nc, c.ne, c.format)
    BY <2>6, <2>7
  <2>20. QED
    BY <1>3, <1>4, <1>5, <2>1, <2>4, <2>6, <2>7, <2>8, <2>9, <2>10, <2>15, <2>16, <2>17, <2>18, <2>19,
       EnterIInv
<1>9. QED
  BY <1>6, <1>7, <1>8

\* What response_collect does with an answer after which it goes on.
GoesOn(a) ==
  /\ Spend /\ Transmitted(a.sw) /\ sent' = sent + a.n /\ entry' = entry
  /\ pc' = pc /\ reply' = reply /\ buffer' = Written(a)

\* The call is still about the same command, with the data of a kept.
SameCommand(a) ==
  /\ call'.nc = call.nc /\ call'.ne = call.ne /\ call'.sm = call.sm
  /\ call'.format = call.format /\ call'.offset = call.offset
  /\ call'.used = call.used + a.n /\ call'.high_water = HighWater(a)

\* An answer after which response_collect goes on: the data it brought is kept.
LEMMA GoesOnIInv ==
  ASSUME IInv, pc = "collect", StepResult = "OK", NEW a \in Answers(Offered), GoesOn(a),
         call' \in Calls, SameCommand(a), FormFits(call.step.nc, call.step.ne, call.format)',
         InCollect', call'.sm => a.sw.class # "6C"
  PROVE  IInv'
<1> DEFINE sw == a.sw
<1>1. Running /\ pc' = "collect" /\ Spend /\ Transmitted(sw)
  BY DEF Running, GoesOn
<1>2. /\ a.n \in Nat /\ sw \in Statuses /\ call.used + a.n + StatusBytes <= Capacity
      /\ Written(a) \in [1 .. Capacity -> Int]
      /\ HighWater(a) \in Nat /\ HighWater(a) <= Capacity
      /\ \A i \in 1 .. Capacity : /\ i <= call.used + a.n => Written(a)[i] = i
                                  /\ i > HighWater(a) => Written(a)[i] = Caller
  BY <1>1, WrittenFacts
<1>3. /\ channel' \in Channels /\ LimitKept' /\ ~channel'.stopped
      /\ channel.exchanges_left \in Nat /\ channel'.exchanges_left = channel.exchanges_left - 1
  BY <1>1, SpendFacts
<1>4. /\ recent' \in Seq(Transmits) /\ Len(recent') <= 3 /\ CommandOnce' /\ CorrectedOnce'
      /\ \A i \in DOMAIN recent' :
           recent'[i] = Sending(sw) \/ \E j \in DOMAIN recent : recent'[i] = recent[j]
  BY <1>1, <1>2, TransmittedHistory
<1>5. /\ delivered \in 0 .. 2 /\ delivered' \in 0 .. 2 /\ delivered' <= delivered + 1 /\ delivered' > 0
      /\ KindOf(call) # "repeatable" => delivered' <= 1
  <2>1. /\ delivered' = delivered + (IF call.step.ins = "command" THEN 1 ELSE 0)
        /\ delivered \in 0 .. 2 /\ delivered' \in 0 .. 2 /\ delivered' > 0
        /\ KindOf(call) # "repeatable" => delivered' <= 1
    BY <1>1, <1>2, DeliveredFacts
  <2>2. QED
    BY <2>1
<1>6. /\ Capacity \in Nat /\ call.used \in Nat /\ sent \in Nat /\ entry \in Nat
  <2>1. call \in Calls /\ buffer \in Seq(Int) /\ sent \in Nat /\ entry \in Nat
    BY Zenon DEF IInv, TypeOK
  <2>2. call.used \in Nat
    BY <2>1 DEF Calls
  <2>3. Capacity \in Nat
    BY <2>1 DEF Capacity
  <2>4. QED
    BY <2>1, <2>2, <2>3, Zenon
<1>7. /\ sent = call.used /\ Capacity >= StatusBytes
      /\ entry - channel.exchanges_left >= delivered
      /\ call.nc <= MaxNc /\ call.offset <= call.nc
  BY <1>1 DEF IInv, BufferKept, DeliveryCounted, StepFits
<1>8. buffer' \in Seq(Int) /\ Capacity' = Capacity /\ buffer' = Written(a)
  BY <1>2, <1>6, ByteSequence DEF Capacity, GoesOn
<1>9. /\ call'.used = call.used + a.n /\ call'.used \in Nat /\ call'.used <= Capacity
      /\ sent' = call'.used /\ call'.high_water = HighWater(a)
  <2>1. call'.used = call.used + a.n /\ call'.high_water = HighWater(a) /\ sent' = sent + a.n
    BY DEF SameCommand, GoesOn
  <2> DEFINE u == call.used
             n == a.n
             kept == call'.used
  <2>2. kept = u + n /\ u \in Nat /\ n \in Nat /\ u + n + 2 <= Capacity /\ sent' = u + n
    BY <1>2, <1>6, <1>7, <2>1 DEF StatusBytes
  <2> HIDE DEF u, n, kept
  <2>3. kept \in Nat /\ kept <= Capacity /\ sent' = kept
    BY <1>6, <2>2
  <2>4. QED
    BY <2>1, <2>3 DEF kept
<1>10. TypeOK'
  <2>1. reply' \in Replies /\ entry' = entry
    BY DEF IInv, TypeOK, GoesOn
  <2>2. QED
    BY <1>1, <1>2, <1>3, <1>4, <1>5, <1>6, <1>8, <1>9, <2>1 DEF TypeOK
<1>11. Rests'
  BY <1>1 DEF IInv, Rests, Running, GoesOn
<1>12. BufferKept'
  BY <1>2, <1>3, <1>7, <1>8, <1>9 DEF BufferKept
<1>13. (Chained(call)' <=> Chained(call)) /\ KindOf(call)' = KindOf(call)
  BY DEF Chained, KindOf, SameCommand
<1>14. StepFits'
  <2>1. (Chained(call) => call.ne <= ShortMaxNe) /\ (~Chained(call) => call.offset = 0)
    BY <1>1 DEF IInv, StepFits
  <2>2. call'.nc = call.nc /\ call'.offset = call.offset /\ call'.ne = call.ne
    BY DEF SameCommand
  <2>3. QED
    BY <1>7, <1>13, <2>1, <2>2 DEF StepFits
<1>15. DeliveryCounted'
  <2>1. entry' = entry
    BY DEF GoesOn
  <2>2. entry' - channel'.exchanges_left >= delivered'
    BY <1>3, <1>5, <1>6, <1>7, <2>1
  <2>3. QED
    BY <1>5, <1>13, <2>2 DEF DeliveryCounted
<1>16. InChain' /\ Assembled'
  <2>1. pc' # "chain" /\ pc' # "done"
    BY <1>1
  <2>2. QED
    BY <2>1, Zenon DEF InChain, Assembled
<1>17. ChainCovered'
  <2>1. delivered' # 0
    BY <1>5
  <2>2. QED
    BY <2>1, Zenon DEF ChainCovered
<1>18. RepeatsSafe'
  <2>1. call.sm => \A j \in DOMAIN recent : recent[j].sw.class # "6C"
    BY DEF IInv, RepeatsSafe, ProtectedNeverRepeated
  <2>2. Sending(sw).sw = sw /\ call'.sm = call.sm
    BY DEF Sending, SameCommand
  <2>3. call'.sm => \A i \in DOMAIN recent' : recent'[i].sw.class # "6C"
    BY <1>4, <2>1, <2>2
  <2>4. QED
    BY <1>4, <2>3 DEF RepeatsSafe, ProtectedNeverRepeated
<1>19. QED
  BY <1>3, <1>4, <1>10, <1>11, <1>12, <1>14, <1>15, <1>16, <1>17, <1>18 DEF IInv

\* 6CXX is followed by the same step with the length the card stated.
LEMMA CorrectIInv ==
  ASSUME IInv, pc = "collect", StepResult = "OK", NEW a \in Answers(Offered), GoesOn(a),
         a.sw.class = "6C", a.n = 0, call.correctable, ~call.corrected,
         call' = Correct([call EXCEPT !.high_water = HighWater(a)], a.sw.length)
  PROVE  IInv'
<1> DEFINE sw == a.sw
<1>1. Running /\ Transmitted(a.sw) /\ pc' = "collect"
  BY DEF Running, GoesOn
<1>2. sw \in Statuses /\ HighWater(a) \in Nat
  BY <1>1, WrittenFacts
<1>3. sw.length \in 1 .. ShortMaxNe /\ sw.length \in Nat /\ sw.length # 0 /\ sw.length <= ShortMaxNe
  BY <1>2, LimitAssumption DEF Statuses
<1>4. call \in Calls /\ call.step \in Steps /\ call.used \in Nat
  BY DEF IInv, TypeOK, Calls
<1> DEFINE high == HighWater(a)
           length == sw.length
<1>5. /\ call' = [[call EXCEPT !.high_water = high] EXCEPT !.step.ne = length, !.corrected = TRUE,
                                                           !.card_stated = TRUE]
      /\ high \in Nat /\ length \in Nat
  BY <1>2, <1>3 DEF Correct
<1>6. /\ call' \in Calls /\ call'.nc = call.nc /\ call'.ne = call.ne /\ call'.sm = call.sm
      /\ call'.format = call.format /\ call'.offset = call.offset
      /\ call'.used = call.used /\ call'.high_water = high
      /\ call'.step.ins = call.step.ins /\ call'.step.nc = call.step.nc /\ call'.step.ne = length
      /\ call'.corrected = TRUE /\ call'.correctable = call.correctable
  <2> HIDE DEF high, length
  <2>1. [call.step EXCEPT !.ne = length] \in Steps
    BY <1>4, <1>5 DEF Steps
  <2>2. call' = [call EXCEPT !.high_water = high, !.step = [call.step EXCEPT !.ne = length],
                             !.corrected = TRUE, !.card_stated = TRUE]
    BY <1>4, <1>5 DEF Calls
  <2> DEFINE s == [call.step EXCEPT !.ne = length]
  <2>3. s.ins = call.step.ins /\ s.nc = call.step.nc /\ s.ne = length
    BY <1>4 DEF Steps
  <2> HIDE DEF s
  <2>4. s \in Steps /\ call' = [call EXCEPT !.high_water = high, !.step = s,
                                            !.corrected = TRUE, !.card_stated = TRUE]
    BY <2>1, <2>2 DEF s
  <2>5. /\ call' \in Calls /\ call'.nc = call.nc /\ call'.ne = call.ne /\ call'.sm = call.sm
        /\ call'.format = call.format /\ call'.offset = call.offset
        /\ call'.used = call.used /\ call'.high_water = high /\ call'.step = s
        /\ call'.corrected = TRUE /\ call'.correctable = call.correctable
    BY <1>4, <1>5, <2>4, Zenon DEF Calls
  <2>6. QED
    BY <2>3, <2>5
<1>7. FormFits(call'.step.nc, call'.step.ne, call'.format)
  <2>1. FormFits(call.step.nc, call.step.ne, call.format)
    BY <1>1 DEF IInv, StepFits
  <2>2. call.step.nc \in Nat /\ call.step.ne \in Nat
    BY <1>4 DEF Steps
  <2>3. FormFits(call.step.nc, length, call.format)
    BY <1>3, <2>1, <2>2, LimitAssumption DEF FormFits, ShortFits
  <2>4. QED
    BY <1>6, <2>3
<1>8. /\ Len(recent') \in 1 .. 3 /\ Latest' = Sending(sw) /\ recent' \in Seq(Transmits)
      /\ Len(recent') > 1 => recent # <<>> /\ recent'[Len(recent') - 1] = Latest
  BY <1>1, <1>2, TransmittedHistory DEF Latest
<1>9. recent' # <<>>
  BY <1>1, <1>2, TransmittedHistory
<1>10. /\ delivered' = delivered + (IF call.step.ins = "command" THEN 1 ELSE 0)
       /\ delivered' \in 0 .. 2 /\ delivered' > 0
  BY <1>1, <1>2, DeliveredFacts
<1>11. /\ Sending(sw).ins = call.step.ins /\ Sending(sw).sw = sw /\ Sending(sw).ne = call.step.ne
  BY DEF Sending
<1>12. KindOf(call)' = KindOf(call) /\ (Chained(call)' <=> Chained(call))
  BY <1>6 DEF KindOf, Chained
<1>13. InCollect'
  <2>1. ~call.sm /\ call.step.ins \in {"command", "get"}
    BY DEF IInv, InCollect
  <2>2. call.step.ins = "command" =>
          /\ call.step.nc = call.nc - call.offset
          /\ Chained(call) => call.step.nc \in 1 .. ShortMaxNc
          /\ KindOf(call) = "repeatable" /\ call.step.ne # 0 /\ delivered = 0
    BY DEF IInv, InCollect
  <2>3. recent # <<>> => Latest.sw.class # "6C"
    BY DEF IInv, InCollect
  <2>4. Len(recent') > 1 => recent'[Len(recent') - 1].sw.class # "6C"
    BY <1>8, <2>3
  <2>5. call.step.ins = "command" => delivered' = 1
    BY <1>10, <2>2
  <2>6. call.step.ins = "get" => delivered' \in 1 .. 2
    BY <1>10
  <2>7. Latest'.ins = call'.step.ins /\ Latest'.sw.class = "6C" /\ Latest'.ne = call.step.ne
        /\ Latest'.sw.length = call'.step.ne
    BY <1>6, <1>8, <1>11
  <2>8. call'.step.ins = "command" =>
          /\ call'.step.nc = call'.nc - call'.offset
          /\ Chained(call)' => call'.step.nc \in 1 .. ShortMaxNc
          /\ KindOf(call)' = "repeatable" /\ call'.step.ne # 0 /\ delivered' = 1
          /\ Latest'.ins = "command" /\ Latest'.sw.class = "6C" /\ Latest'.ne # 0
    BY <1>3, <1>6, <1>12, <2>2, <2>5, <2>7
  <2> HIDE DEF sw, high, length
  <2>9. call'.correctable = TRUE /\ call'.corrected = TRUE /\ ~call'.sm
    BY <1>4, <1>6, <2>1 DEF Calls
  <2>10. call'.step.ins \in {"command", "get"} /\ (call'.step.ins = "get" => delivered' \in 1 .. 2)
    BY <1>6, <2>1, <2>6
  <2>11. QED
    BY <1>1, <1>9, <2>4, <2>7, <2>8, <2>9, <2>10 DEF InCollect
<1>14. ~call'.sm
  BY <1>6 DEF IInv, InCollect
<1>15. SameCommand(a)
  BY <1>4, <1>6 DEF SameCommand
<1>16. QED
  BY <1>6, <1>7, <1>13, <1>14, <1>15, GoesOnIInv

\* 61XX is followed by a GET RESPONSE for the length the card announced.
LEMMA GetResponseIInv ==
  ASSUME IInv, pc = "collect", StepResult = "OK", NEW a \in Answers(Offered), GoesOn(a),
         a.sw.class = "61",
         NEW g, g = [[call EXCEPT !.high_water = HighWater(a)]
                     EXCEPT !.step = GetResponse(a.sw.length), !.used = Kept(a)],
         call' = [g EXCEPT !.correctable = MayCorrect(g), !.corrected = FALSE, !.card_stated = TRUE]
  PROVE  IInv'
<1> DEFINE sw == a.sw
           s == GetResponse(a.sw.length)
           high == HighWater(a)
           used == call.used + a.n
<1>1. Running /\ Transmitted(a.sw) /\ pc' = "collect"
  BY DEF Running, GoesOn
<1>2. sw \in Statuses /\ high \in Nat /\ a.n \in Nat
  BY <1>1, WrittenFacts
<1>3. sw.length \in Nat /\ sw.length <= ShortMaxNe
  BY <1>2, LimitAssumption DEF Statuses
<1>4. call \in Calls /\ call.used \in Nat /\ call.sm \in BOOLEAN /\ channel.plain \in BOOLEAN
  BY DEF IInv, TypeOK, Calls, Channels
<1>5. ResponseNe(sw.length) \in Nat /\ ResponseNe(sw.length) <= sw.length
  BY <1>3, ResponseNeFacts
<1>6. s \in Steps /\ s.ins = "get" /\ s.nc = 0 /\ s.ne = ResponseNe(sw.length)
  BY <1>4, <1>5 DEF GetResponse, Steps
<1>7. used \in Nat
  BY <1>2, <1>4
<1>8. g = [[call EXCEPT !.high_water = high] EXCEPT !.step = s, !.used = used]
  BY DEF Kept
<1> HIDE DEF s, high, used, sw
<1>9. /\ g \in Calls /\ g.nc = call.nc /\ g.ne = call.ne /\ g.sm = call.sm
      /\ g.format = call.format /\ g.offset = call.offset
      /\ g.used = used /\ g.high_water = high /\ g.step = s
  <2> DEFINE h == [call EXCEPT !.high_water = high]
  <2>1. /\ h \in Calls /\ h.nc = call.nc /\ h.ne = call.ne /\ h.sm = call.sm
        /\ h.format = call.format /\ h.offset = call.offset /\ h.high_water = high
    BY <1>2, <1>4 DEF Calls
  <2>2. g = [h EXCEPT !.step = s, !.used = used]
    BY <1>8, Zenon
  <2> HIDE DEF h
  <2>3. /\ g \in Calls /\ g.nc = h.nc /\ g.ne = h.ne /\ g.sm = h.sm /\ g.format = h.format
        /\ g.offset = h.offset /\ g.used = used /\ g.high_water = h.high_water /\ g.step = s
    BY <1>6, <1>7, <2>1, <2>2 DEF Calls
  <2>4. QED
    BY <2>1, <2>3, Zenon
<1>10. MayCorrect(g) = ~call.sm /\ MayCorrect(g) \in BOOLEAN
  BY <1>9 DEF MayCorrect
<1>11. /\ call' \in Calls /\ call'.nc = call.nc /\ call'.ne = call.ne /\ call'.sm = call.sm
       /\ call'.format = call.format /\ call'.offset = call.offset
       /\ call'.used = used /\ call'.high_water = high /\ call'.step = s
       /\ call'.correctable = MayCorrect(g)
  <2> DEFINE may == MayCorrect(g)
  <2>1. may \in BOOLEAN /\ g \in Calls
        /\ call' = [g EXCEPT !.correctable = may, !.corrected = FALSE, !.card_stated = TRUE]
    BY <1>9, <1>10
  <2> HIDE DEF may
  <2>2. call' \in Calls
    BY <2>1 DEF Calls
  <2>3. /\ call'.nc = g.nc /\ call'.ne = g.ne /\ call'.sm = g.sm /\ call'.format = g.format
        /\ call'.offset = g.offset /\ call'.used = g.used /\ call'.high_water = g.high_water
        /\ call'.step = g.step /\ call'.correctable = may
    BY <2>1 DEF Calls
  <2>4. QED
    BY <1>9, <2>2, <2>3, Zenon DEF may
<1>12. FormFits(call'.step.nc, call'.step.ne, call'.format)
  <2>1. FormFits(0, ResponseNe(sw.length), call.format)
    BY <1>3, <1>5, LimitAssumption DEF FormFits, ShortFits
  <2>2. QED
    BY <1>6, <1>11, <2>1
<1>13. Latest' = Sending(sw) /\ recent' # <<>>
  BY <1>1, <1>2, TransmittedHistory DEF Latest, sw
<1>14. delivered' \in 0 .. 2 /\ delivered' > 0
  BY <1>1, <1>2, DeliveredFacts DEF sw
<1>15. Latest'.sw.class = "61"
  BY <1>13 DEF Sending, sw
<1>16. call'.correctable => ~call'.sm
  BY <1>10, <1>11, Zenon
<1>17. InCollect'
  <2>1. call'.step.ins = "get" /\ delivered' \in 1 .. 2
    BY <1>6, <1>11, <1>14
  <2>2. QED
    BY <1>1, <1>13, <1>15, <1>16, <2>1 DEF InCollect
<1>18. SameCommand(a)
  BY <1>11 DEF SameCommand, used, high
<1>19. QED
  BY <1>11, <1>12, <1>17, <1>18, GoesOnIInv

\* An answer to the command or to a GET RESPONSE ends the call, is corrected or
\* is followed by a GET RESPONSE.
LEMMA CollectAnswerIInv ==
  ASSUME IInv, pc = "collect", StepResult = "OK", NEW a \in Answers(Offered), CollectAnswer(a)
  PROVE  IInv'
<1> DEFINE c == [call EXCEPT !.high_water = HighWater(a)]
           read == Readable(a) /\ a.n <= call.step.ne
<1>1. Running /\ Spend /\ Transmitted(a.sw) /\ sent' = sent + a.n /\ entry' = entry
  BY DEF Running, CollectAnswer
<1>2. a.n \in Nat /\ a.sw \in Statuses
  BY <1>1, WrittenFacts
<1>3. channel' \in Channels /\ LimitKept'
  BY <1>1, SpendFacts
<1>4. /\ recent' \in Seq(Transmits) /\ Len(recent') <= 3 /\ CommandOnce' /\ CorrectedOnce'
      /\ delivered' \in 0 .. 2
  BY <1>1, <1>2, TransmittedHistory, DeliveredFacts
<1>5. sent' \in Nat /\ entry' \in Nat /\ call.used \in Nat /\ call.step.ne \in Nat
  <2>1. sent \in Nat /\ entry \in Nat /\ call \in Calls
    BY DEF IInv, TypeOK
  <2>2. call.used \in Nat /\ call.step \in Steps
    BY <2>1 DEF Calls
  <2>3. QED
    BY <1>1, <1>2, <2>1, <2>2 DEF Steps
<1>6. CASE ~read
  <2>1. /\ ~Readable(a) \/ a.n > call.step.ne
        /\ ~(Readable(a) /\ a.n <= call.step.ne /\ a.sw.class = "6C")
    BY <1>2, <1>5, <1>6
  <2>2. Fail("INVALID")
    BY <2>1 DEF CollectAnswer
  <2>3. QED
    BY <1>3, <1>4, <1>5, <2>2, FailIInv
<1>7. CASE read /\ a.sw.class = "6C"
  <2>1. ~(~Readable(a) \/ a.n > call.step.ne) /\ a.n = 0
    BY <1>2, <1>5, <1>7 DEF Readable
  <2>2. CASE ~call.correctable \/ call.corrected
    <3>1. Completed(a.sw, call.used, HighWater(a), Written(a)) /\ call.used = call.used + a.n
      BY <1>5, <1>7, <2>1, <2>2 DEF CollectAnswer
    <3>2. Completed(a.sw, call.used + a.n, HighWater(a), Written(a))
      BY <3>1, Zenon
    <3>3. QED
      BY <1>1, <1>3, <1>4, <1>5, <3>2, CompletedIInv
  <2>3. CASE ~(~call.correctable \/ call.corrected)
    <3>1. call' = Correct(c, a.sw.length) /\ buffer' = Written(a) /\ pc' = pc /\ reply' = reply
      BY <1>7, <2>1, <2>3 DEF CollectAnswer
    <3>2. QED
      BY <1>1, <1>7, <2>1, <2>3, <3>1, CorrectIInv DEF GoesOn
  <2>4. QED
    BY <2>2, <2>3
<1>8. CASE read /\ a.sw.class # "6C"
  <2>1. /\ ~(~Readable(a) \/ a.n > call.step.ne)
        /\ ~(Readable(a) /\ a.n <= call.step.ne /\ a.sw.class = "6C")
    BY <1>2, <1>5, <1>8
  <2>2. CASE a.sw.class # "61"
    <3>1. Completed(a.sw, Kept(a), HighWater(a), Written(a))
      BY <2>1, <2>2 DEF CollectAnswer
    <3>2. Completed(a.sw, call.used + a.n, HighWater(a), Written(a))
      BY <3>1 DEF Kept
    <3>3. QED
      BY <1>1, <1>3, <1>4, <1>5, <3>2, CompletedIInv
  <2>3. CASE a.sw.class = "61"
    <3> DEFINE g == [c EXCEPT !.step = GetResponse(a.sw.length), !.used = Kept(a)]
    <3>1. /\ call' = [g EXCEPT !.correctable = MayCorrect(g), !.corrected = FALSE, !.card_stated = TRUE]
          /\ buffer' = Written(a) /\ pc' = pc /\ reply' = reply
      BY <2>1, <2>3 DEF CollectAnswer
    <3>2. QED
      BY <1>1, <2>3, <3>1, GetResponseIInv DEF GoesOn
  <2>4. QED
    BY <2>2, <2>3
<1>9. QED
  BY <1>6, <1>7, <1>8

-----------------------------------------------------------------------------
(* The theorems. *)

\* A step that changes nothing.
LEMMA StutterIInv ==
  ASSUME IInv, UNCHANGED vars
  PROVE  IInv'
<1>1. TypeOK' /\ LimitKept' /\ Rests' /\ BufferKept' /\ StepFits' /\ Len(recent') <= 3
  BY DEF IInv, vars, TypeOK, LimitKept, Rests, BufferKept, StepFits, Running, Capacity, Chained
<1>2. DeliveryCounted' /\ InChain' /\ InCollect'
  BY DEF IInv, vars, DeliveryCounted, InChain, InCollect, Running, Latest, Chained, KindOf
<1>3. ChainCovered' /\ Assembled' /\ RepeatsSafe'
  BY DEF IInv, vars, ChainCovered, ChainRoom, Running, Chained, Assembled, RepeatsSafe, CommandOnce,
         CorrectedOnce, ProtectedNeverRepeated
<1>4. QED
  BY <1>1, <1>2, <1>3 DEF IInv

\* Every operation of the channel keeps the invariant.
LEMMA NextIInv ==
  ASSUME IInv, [Next]_vars
  PROVE  IInv'
<1>1. CASE Setup
  BY <1>1, SetupIInv
<1>2. CASE ChannelClear
  BY <1>2, ClearIInv
<1>3. CASE CallerCalls
  <2>1. PICK nc \in DataLengths, ne \in Expected, sm \in BOOLEAN, checked \in Checks,
             format \in Formats, capacity \in Capacities :
          Call(nc, ne, sm, format, capacity, checked)
    BY <1>3 DEF CallerCalls
  <2>2. QED
    BY <2>1, CallIInv
<1>4. CASE StepFails
  BY <1>4, StepFailsIInv
<1>5. CASE Transmit
  <2>1. Running /\ StepResult = "OK"
    BY <1>5 DEF Transmit, Running
  <2>2. CASE TransportFails
    BY <2>1, <2>2, TransportFailsIInv
  <2>3. CASE pc = "chain" /\ \E a \in Answers(Offered) : ChainAnswer(a)
    BY <2>1, <2>3, ChainAnswerIInv
  <2>4. CASE pc = "collect" /\ \E a \in Answers(Offered) : CollectAnswer(a)
    BY <2>1, <2>4, CollectAnswerIInv
  <2>5. QED
    BY <1>5, <2>2, <2>3, <2>4 DEF Transmit
<1>6. CASE Take
  BY <1>6, TakeIInv
<1>7. CASE UNCHANGED vars
  BY <1>7, StutterIInv
<1>8. QED
  BY <1>1, <1>2, <1>3, <1>4, <1>5, <1>6, <1>7 DEF Next

\* The invariant holds throughout.
LEMMA Invariant ==
  Spec => []IInv
<1>1. IInv /\ [Next]_vars => IInv'
  BY NextIInv
<1>2. QED
  BY <1>1, InitIInv, PTL DEF Spec

\* Every variable keeps its type, and the data kept never exceeds the buffer the
\* caller gave: exchange_state and transmit_step, for every limit and answer.
THEOREM TypeCorrect == Spec => []TypeOK
<1>1. IInv => TypeOK
  BY DEF IInv
<1>2. QED
  BY <1>1, Invariant, PTL

\* A completed call returns exactly the data of all its answers in order, a
\* failed one nothing, and no limit cuts a chain: tc_apdu_transceive_format,
\* chain_check and response_collect, for every limit and answer.
THEOREM AnswersAssembled == Spec => []Assembled
<1>1. IInv => Assembled
  BY DEF IInv
<1>2. QED
  BY <1>1, Invariant, PTL

\* Only a step the card asked to be corrected goes out twice, once and with the
\* length the card stated, and under secure messaging none: response_collect.
THEOREM OnlyCorrectionsRepeat == Spec => []RepeatsSafe
<1>1. IInv => RepeatsSafe
  BY DEF IInv
<1>2. QED
  BY <1>1, Invariant, PTL

-----------------------------------------------------------------------------
(* The channel implements the abstract exchange. *)

\* Between calls the abstract reply is the empty one.
LEMMA NoReplyMapped ==
  ASSUME IInv
  PROVE  /\ pc # "done" => [kind |-> reply.kind, result |-> reply.result,
                            delivered |-> reply.delivered] = Exchange!NoReply
         /\ pc = "done" => [kind |-> reply.kind, result |-> reply.result,
                            delivered |-> reply.delivered] # Exchange!NoReply
<1>1. pc # "done" => reply = NoReply
  BY DEF IInv, Rests
<1>2. pc = "done" => reply.kind # "none"
  BY DEF IInv, Rests
<1>3. NoReply.kind = "none" /\ NoReply.result = "none" /\ NoReply.delivered = 0
  BY DEF NoReply
<1>4. QED
  BY <1>1, <1>2, <1>3 DEF Exchange!NoReply, Exchange!Reply

\* A call that returns is one Transceive of the abstract exchange.
LEMMA ReturnStep ==
  ASSUME IInv, Running, pc' = "done", NEW result \in {"OK", "LIMIT", "INVALID", "ERROR"},
         NEW sw, NEW length, reply' = Reply(call, result, sw, length, delivered'),
         channel' \in Channels, delivered' \in 0 .. 2, KindOf(call) # "repeatable" => delivered' <= 1,
         delivered' <= entry - channel'.exchanges_left,
         result # "LIMIT" => entry - channel'.exchanges_left > 0,
         channel'.stopped = (result = "ERROR"),
         result = "OK" /\ ~Chained(call) => delivered' > 0
  PROVE  Exchange!Next
<1> DEFINE kind == KindOf(call)
           spent == entry - channel'.exchanges_left
           d == delivered'
<1>1. kind \in Exchange!Kinds /\ (kind = "chained" <=> Chained(call))
  BY DEF KindOf, Exchange!Kinds
<1>2. entry \in Nat /\ channel'.exchanges_left \in Nat
  BY DEF IInv, TypeOK, Channels
<1>3. spent \in 0 .. entry /\ channel'.exchanges_left = entry - spent
  BY <1>2
<1>4. result \in Exchange!Results
  BY DEF Exchange!Results
<1>5. ~channel.stopped
  BY DEF IInv, BufferKept
<1>6. [kind |-> reply.kind, result |-> reply.result, delivered |-> reply.delivered] = Exchange!NoReply
  BY NoReplyMapped DEF Running
<1>7. reply'.kind = kind /\ reply'.result = result /\ reply'.delivered = d
  BY DEF Reply
<1>8. Exchange!Outcome(kind, result, d)
  <2>1. d \in Exchange!Deliveries(kind)
    BY DEF Exchange!Deliveries
  <2>2. QED
    BY <1>1, <2>1 DEF Exchange!Outcome
<1> HIDE DEF kind, spent, d
<1>9. [kind |-> reply'.kind, result |-> reply'.result, delivered |-> reply'.delivered]
        = Exchange!Reply(kind, result, d)
  BY <1>7 DEF Exchange!Reply
<1>10. d <= spent /\ (result # "LIMIT" => spent > 0) /\ d \in 0 .. 2
  BY DEF d, spent
<1>11. (IF pc' \in {"chain", "collect"} THEN entry' ELSE channel'.exchanges_left)
         = (IF pc \in {"chain", "collect"} THEN entry ELSE channel.exchanges_left) - spent
  BY <1>3 DEF Running
<1>12. Exchange!Transceive(kind, result, spent, d)
  BY <1>5, <1>6, <1>8, <1>9, <1>10, <1>11, Zenon DEF Exchange!Transceive
<1>13. spent \in 0 .. (IF pc \in {"chain", "collect"} THEN entry ELSE channel.exchanges_left)
  BY <1>3 DEF Running
<1>14. QED
  BY <1>1, <1>4, <1>10, <1>12, <1>13, Zenon DEF Exchange!Next

\* A transmit whose answer ends the call.
LEMMA AnswerReturns ==
  ASSUME IInv, Running, StepResult = "OK", NEW s \in Statuses, Transmitted(s), pc' = "done",
         NEW result \in {"OK", "INVALID", "ERROR"}, NEW sw, NEW length,
         reply' = Reply(call, result, sw, length, delivered'),
         channel' \in Channels, channel'.exchanges_left = channel.exchanges_left - 1,
         channel'.stopped = (result = "ERROR")
  PROVE  Exchange!Next
<1>1. /\ delivered' = delivered + (IF call.step.ins = "command" THEN 1 ELSE 0)
      /\ delivered \in 0 .. 2 /\ delivered' \in 0 .. 2
      /\ KindOf(call) # "repeatable" => delivered' <= 1
      /\ pc = "collect" => delivered' > 0
  BY DeliveredFacts
<1>2. entry \in Nat /\ channel.exchanges_left \in Nat /\ entry - channel.exchanges_left >= delivered
  BY DEF IInv, TypeOK, Channels, DeliveryCounted
<1>3. delivered' <= entry - channel'.exchanges_left /\ entry - channel'.exchanges_left > 0
  BY <1>1, <1>2
<1>4. ~Chained(call) => delivered' > 0
  BY <1>1 DEF Running, IInv, InChain
<1>5. QED
  BY <1>1, <1>3, <1>4, ReturnStep

\* While a call goes on, the abstract exchange stays where the call began.
LEMMA GoingOnStutters ==
  ASSUME IInv, Running, StepResult = "OK", Spend, pc' \in {"chain", "collect"}, entry' = entry,
         reply' = reply
  PROVE  UNCHANGED Exchange!xvars
<1>1. channel'.stopped = channel.stopped
  <2>1. channel \in Channels
    BY DEF IInv, TypeOK
  <2>2. QED
    BY <2>1 DEF Spend, Channels
<1>2. QED
  BY <1>1 DEF Exchange!xvars, Running

\* Opening, clearing and restricting a channel.
LEMMA OpenStep ==
  ASSUME IInv, Setup \/ ChannelClear
  PROVE  Exchange!Next \/ UNCHANGED Exchange!xvars
<1>1. pc = "idle" /\ pc' = "idle" /\ reply' = reply
  BY DEF Setup, ChannelClear, ChannelInit, Restrict
<1>2. [kind |-> reply.kind, result |-> reply.result, delivered |-> reply.delivered] = Exchange!NoReply
  BY <1>1, NoReplyMapped
<1>3. ASSUME channel'.exchanges_left \in Budgets \cup {0}, channel'.stopped = FALSE
      PROVE  Exchange!Next
  BY <1>1, <1>2, <1>3 DEF Exchange!Next, Exchange!Open
<1>4. CASE ChannelClear
  <2>1. channel'.exchanges_left = 0 /\ channel'.stopped = FALSE
    BY <1>4 DEF ChannelClear, Closed
  <2>2. QED
    BY <1>3, <2>1
<1>5. CASE Setup
  <2>1. PICK mc \in CommandLimits, mr \in ResponseLimits, plain \in BOOLEAN :
          \/ \E exchanges \in Budgets, scratch \in Scratches, format \in Formats :
               ChannelInit(exchanges, scratch, mc, mr, plain, format)
          \/ Restrict(mc, mr, plain)
    BY <1>5 DEF Setup
  <2>2. CASE \E exchanges \in Budgets, scratch \in Scratches, format \in Formats :
               ChannelInit(exchanges, scratch, mc, mr, plain, format)
    <3>1. PICK exchanges \in Budgets, scratch \in Scratches, format \in Formats :
            channel' = [open |-> TRUE, scratch |-> scratch, exchanges_left |-> exchanges,
                        max_command |-> mc, max_response |-> mr, plain |-> plain,
                        format |-> format, stopped |-> FALSE]
      BY <2>2, Zenon DEF ChannelInit
    <3>2. channel'.exchanges_left = exchanges /\ channel'.stopped = FALSE
      BY <3>1, Zenon
    <3>3. QED
      BY <1>3, <3>2
  <2>3. CASE Restrict(mc, mr, plain)
    <3>1. channel \in Channels
      BY DEF IInv, TypeOK
    <3>2. channel'.exchanges_left = channel.exchanges_left /\ channel'.stopped = channel.stopped
      BY <2>3, <3>1 DEF Restrict, Channels
    <3>3. QED
      BY <1>1, <3>2 DEF Exchange!xvars
  <2>4. QED
    BY <2>1, <2>2, <2>3
<1>6. QED
  BY <1>4, <1>5

\* A call is refused, runs into a limit before its first transmit, or begins.
LEMMA CallStep ==
  ASSUME IInv, NEW nc \in DataLengths, NEW ne \in Expected, NEW sm \in BOOLEAN, NEW checked \in Checks,
         NEW format \in Formats, NEW capacity \in Capacities, Call(nc, ne, sm, format, capacity, checked)
  PROVE  Exchange!Next \/ UNCHANGED Exchange!xvars
<1> DEFINE c == [NoCall EXCEPT !.nc = nc, !.ne = ne, !.sm = sm, !.format = format]
           refused == Refused(c, capacity, checked)
           limited == Chained(c) /\ ~ChainFits(nc, ne)
           kind == KindOf(c)
<1>1. pc = "idle" /\ channel' = channel /\ entry' = channel.exchanges_left
  BY DEF Call
<1>2. [kind |-> reply.kind, result |-> reply.result, delivered |-> reply.delivered] = Exchange!NoReply
  BY <1>1, NoReplyMapped
<1>3. kind \in Exchange!Kinds
  BY DEF KindOf, Exchange!Kinds
<1>4. CASE refused # "OK"
  <2>1. pc' = "done" /\ reply' = Reply(c, refused, NoSw, 0, 0)
    BY <1>4 DEF Call
  <2>2. refused \in {"ARGUMENT", "UNSUPPORTED", "ERROR"} /\ (refused = "ERROR" => channel.stopped)
    BY <1>4 DEF Refused, Checks
  <2>3. reply'.kind = kind /\ reply'.result = refused /\ reply'.delivered = 0
    BY <2>1 DEF Reply
  <2> HIDE DEF c, refused, limited, kind
  <2>4. [kind |-> reply'.kind, result |-> reply'.result, delivered |-> reply'.delivered]
          = Exchange!Reply(kind, refused, 0)
    BY <2>3 DEF Exchange!Reply
  <2>5. (IF pc' \in {"chain", "collect"} THEN entry' ELSE channel'.exchanges_left)
          = (IF pc \in {"chain", "collect"} THEN entry ELSE channel.exchanges_left)
    BY <1>1, <2>1
  <2>6. Exchange!Refuse(kind, refused)
    BY <1>1, <1>2, <2>2, <2>4, <2>5, Zenon DEF Exchange!Refuse
  <2>7. QED
    BY <1>3, <2>2, <2>6, Zenon DEF Exchange!Next, Exchange!Refusals
<1>5. CASE refused = "OK" /\ limited
  <2>1. pc' = "done" /\ reply' = Reply(c, "LIMIT", NoSw, 0, 0)
    BY <1>5 DEF Call
  <2>2. channel \in Channels /\ channel.stopped = FALSE /\ channel.exchanges_left \in Nat
    <3>1. channel \in Channels
      BY DEF IInv, TypeOK
    <3>2. ~channel.stopped
      BY <1>5 DEF Refused
    <3>3. QED
      BY <3>1, <3>2 DEF Channels
  <2>3. reply'.kind = kind /\ reply'.result = "LIMIT" /\ reply'.delivered = 0
    BY <2>1 DEF Reply
  <2> HIDE DEF c, refused, limited, kind
  <2>4. [kind |-> reply'.kind, result |-> reply'.result, delivered |-> reply'.delivered]
          = Exchange!Reply(kind, "LIMIT", 0)
    BY <2>3 DEF Exchange!Reply
  <2>5. Exchange!Outcome(kind, "LIMIT", 0)
    BY DEF Exchange!Outcome, Exchange!Deliveries
  <2>6. (IF pc' \in {"chain", "collect"} THEN entry' ELSE channel'.exchanges_left)
          = (IF pc \in {"chain", "collect"} THEN entry ELSE channel.exchanges_left) - 0
    BY <1>1, <2>1, <2>2
  <2>7. /\ 0 \in 0 .. (IF pc \in {"chain", "collect"} THEN entry ELSE channel.exchanges_left)
        /\ 0 \in 0 .. 2 /\ 0 <= 0 /\ "LIMIT" \in Exchange!Results
    BY <1>1, <2>2 DEF Exchange!Results
  <2>8. channel.stopped = FALSE /\ channel'.stopped = ("LIMIT" = "ERROR")
    BY <1>1, <2>2
  <2>9. Exchange!Transceive(kind, "LIMIT", 0, 0)
    BY <1>2, <2>4, <2>5, <2>6, <2>7, <2>8, Zenon DEF Exchange!Transceive
  <2>10. QED
    BY <1>3, <2>7, <2>9, Zenon DEF Exchange!Next
<1>6. CASE refused = "OK" /\ ~limited
  <2>1. pc' \in {"chain", "collect"} /\ reply' = reply
    BY <1>6 DEF Call
  <2>2. QED
    BY <1>1, <2>1 DEF Exchange!xvars
<1>7. QED
  BY <1>4, <1>5, <1>6

\* A step that cannot be transmitted.
LEMMA FailStep ==
  ASSUME IInv, StepFails
  PROVE  Exchange!Next
<1>1. Running /\ Fail("LIMIT")
  BY StepFailsIInv DEF StepFails, Running
<1>2. UNCHANGED <<channel, entry, delivered>>
  BY DEF StepFails
<1>3. /\ channel' \in Channels /\ delivered' \in 0 .. 2 /\ (KindOf(call) # "repeatable" => delivered' <= 1)
      /\ delivered' <= entry - channel'.exchanges_left
  <2>1. channel \in Channels /\ entry \in Nat /\ delivered \in 0 .. 2
    BY DEF IInv, TypeOK
  <2>2. entry - channel.exchanges_left >= delivered /\ (KindOf(call) # "repeatable" => delivered <= 1)
    BY <1>1 DEF IInv, DeliveryCounted
  <2>3. channel.exchanges_left \in Nat
    BY <2>1 DEF Channels
  <2>4. QED
    BY <1>2, <2>1, <2>2, <2>3
<1>4. channel'.stopped = ("LIMIT" = "ERROR")
  BY <1>1, <1>3, <1>2 DEF IInv, BufferKept, Channels
<1>5. reply' = Reply(call, "LIMIT", NoSw, 0, delivered') /\ pc' = "done"
  BY <1>1 DEF Fail
<1>6. QED
  BY <1>1, <1>3, <1>4, <1>5, ReturnStep

\* A transmit: the transport fails, or an answer ends the call or lets it go on.
LEMMA TransmitStep ==
  ASSUME IInv, Transmit
  PROVE  Exchange!Next \/ UNCHANGED Exchange!xvars
<1>1. Running /\ StepResult = "OK"
  BY DEF Transmit, Running
<1>2. channel \in Channels /\ channel.exchanges_left \in Nat /\ channel.exchanges_left # 0
      /\ channel.stopped = FALSE
  <2>1. channel \in Channels /\ ~channel.stopped
    BY <1>1 DEF IInv, TypeOK, BufferKept
  <2>2. QED
    BY <1>1, <2>1 DEF StepResult, Channels
<1>3. CASE TransportFails
  <2> DEFINE sw == [class |-> "invalid", length |-> 1]
  <2>1. sw \in Statuses /\ Transmitted(sw) /\ Fail("ERROR")
    BY <1>3, LimitAssumption DEF TransportFails, Statuses, Classes
  <2>2. channel.exchanges_left - 1 \in Nat
    BY <1>2
  <2>3. /\ channel' \in Channels /\ channel'.exchanges_left = channel.exchanges_left - 1
        /\ channel'.stopped = TRUE
    BY <1>2, <1>3, <2>2 DEF TransportFails, Channels
  <2>4. channel'.stopped = ("ERROR" = "ERROR")
    BY <2>3
  <2>5. reply' = Reply(call, "ERROR", NoSw, 0, delivered') /\ pc' = "done"
    BY <2>1 DEF Fail
  <2> HIDE DEF sw
  <2>6. QED
    BY <1>1, <2>1, <2>3, <2>4, <2>5, AnswerReturns
<1>4. ASSUME NEW a \in Answers(Offered), Spend, Transmitted(a.sw), entry' = entry,
             \/ Fail("INVALID")
             \/ \E length : Completed(a.sw, length, HighWater(a), Written(a))
             \/ pc' \in {"chain", "collect"} /\ reply' = reply
      PROVE  Exchange!Next \/ UNCHANGED Exchange!xvars
  <2>1. a.sw \in Statuses
    BY <1>1, WrittenFacts
  <2>2. /\ channel' \in Channels /\ channel'.exchanges_left = channel.exchanges_left - 1
        /\ ~channel'.stopped
    BY <1>1, <1>4, SpendFacts
  <2>3. channel'.stopped = FALSE
    BY <2>2 DEF Channels
  <2>4. CASE Fail("INVALID")
    <3>1. reply' = Reply(call, "INVALID", NoSw, 0, delivered') /\ pc' = "done"
      BY <2>4 DEF Fail
    <3>2. channel'.stopped = ("INVALID" = "ERROR")
      BY <2>3
    <3>3. QED
      BY <1>1, <1>4, <2>1, <2>2, <3>1, <3>2, AnswerReturns
  <2>5. CASE \E length : Completed(a.sw, length, HighWater(a), Written(a))
    <3>1. PICK length : Completed(a.sw, length, HighWater(a), Written(a))
      BY <2>5
    <3>2. reply' = Reply(call, "OK", a.sw, length, delivered') /\ pc' = "done"
      BY <3>1 DEF Completed
    <3>3. channel'.stopped = ("OK" = "ERROR")
      BY <2>3
    <3>4. QED
      BY <1>1, <1>4, <2>1, <2>2, <3>2, <3>3, AnswerReturns
  <2>6. CASE pc' \in {"chain", "collect"} /\ reply' = reply
    BY <1>1, <1>4, <2>6, GoingOnStutters
  <2>7. QED
    BY <1>4, <2>4, <2>5, <2>6
<1>5. ASSUME NEW a \in Answers(Offered), ChainAnswer(a)
      PROVE  Exchange!Next \/ UNCHANGED Exchange!xvars
  <2>1. Spend /\ Transmitted(a.sw) /\ entry' = entry
    BY <1>5 DEF ChainAnswer
  <2>2. \/ Fail("INVALID")
        \/ Completed(a.sw, call.used, HighWater(a), Written(a))
        \/ pc' \in {"chain", "collect"} /\ reply' = reply
    BY <1>5 DEF ChainAnswer
  <2>3. QED
    BY <1>4, <2>1, <2>2
<1>6. ASSUME NEW a \in Answers(Offered), CollectAnswer(a), pc = "collect"
      PROVE  Exchange!Next \/ UNCHANGED Exchange!xvars
  <2>1. Spend /\ Transmitted(a.sw) /\ entry' = entry
    BY <1>6 DEF CollectAnswer
  <2>2. \/ Fail("INVALID")
        \/ Completed(a.sw, call.used, HighWater(a), Written(a))
        \/ Completed(a.sw, Kept(a), HighWater(a), Written(a))
        \/ pc' = pc /\ reply' = reply
    <3> DEFINE p == ~Readable(a) \/ a.n > call.step.ne
               q == Readable(a) /\ a.n <= call.step.ne /\ a.sw.class = "6C"
    <3>1. ~(p /\ q)
      <4>1. a.n \in Nat
        BY <1>1, WrittenFacts
      <4>2. call.step \in Steps
        BY DEF IInv, TypeOK, Calls
      <4>3. call.step.ne \in Nat
        BY <4>2 DEF Steps
      <4>4. QED
        BY <4>1, <4>3
    <3>2. CASE p
      BY <1>6, <3>1, <3>2 DEF CollectAnswer
    <3>3. CASE q
      BY <1>6, <3>1, <3>3 DEF CollectAnswer
    <3>4. CASE ~p /\ ~q
      BY <1>6, <3>4 DEF CollectAnswer
    <3>5. QED
      BY <3>2, <3>3, <3>4
  <2>3. QED
    BY <1>4, <1>6, <2>1, <2>2
<1>7. QED
  BY <1>3, <1>5, <1>6 DEF Transmit

\* A call is one step of the abstract exchange, taken when it returns, whatever
\* fragments, corrections and GET RESPONSE commands it takes: TC_APDU_transceive
\* for every limit, budget and answer.
THEOREM Refinement == Spec => ImplementsExchange
<1>1. ASSUME Init PROVE Exchange!Init
  <2>1. pc = "idle" /\ channel = Closed /\ reply = NoReply
    BY <1>1, Zenon DEF Init
  <2>2. channel.exchanges_left = 0 /\ channel.stopped = FALSE
    BY <2>1, Zenon DEF Closed
  <2>3. reply.kind = "none" /\ reply.result = "none" /\ reply.delivered = 0
    BY <2>1, Zenon DEF NoReply
  <2>4. pc \notin {"chain", "collect"}
    BY <2>1
  <2>5. QED
    BY <2>2, <2>3, <2>4, Zenon DEF Exchange!Init, Exchange!NoReply, Exchange!Reply
<1>2. ASSUME IInv, [Next]_vars PROVE [Exchange!Next]_(Exchange!xvars)
  <2>1. CASE Setup \/ ChannelClear
    BY <1>2, <2>1, OpenStep
  <2>2. CASE CallerCalls
    <3>1. PICK nc \in DataLengths, ne \in Expected, sm \in BOOLEAN, checked \in Checks,
               format \in Formats, capacity \in Capacities :
            Call(nc, ne, sm, format, capacity, checked)
      BY <2>2 DEF CallerCalls
    <3>2. QED
      BY <1>2, <3>1, CallStep
  <2>3. CASE StepFails
    BY <1>2, <2>3, FailStep
  <2>4. CASE Transmit
    BY <1>2, <2>4, TransmitStep
  <2>5. CASE Take
    <3>1. pc = "done" /\ pc' = "idle" /\ reply' = NoReply /\ channel' = channel
      BY <2>5 DEF Take
    <3>2. [kind |-> reply.kind, result |-> reply.result, delivered |-> reply.delivered] # Exchange!NoReply
      BY <1>2, <3>1, NoReplyMapped
    <3>3. [kind |-> reply'.kind, result |-> reply'.result, delivered |-> reply'.delivered]
            = Exchange!NoReply
      BY <3>1 DEF NoReply, Exchange!NoReply, Exchange!Reply
    <3>4. QED
      BY <3>1, <3>2, <3>3 DEF Exchange!Next, Exchange!Take
  <2>6. CASE UNCHANGED vars
    BY <2>6 DEF vars, Exchange!xvars
  <2>7. QED
    BY <1>2, <2>1, <2>2, <2>3, <2>4, <2>5, <2>6 DEF Next
<1>3. QED
  BY <1>1, <1>2, Invariant, PTL DEF Spec, ImplementsExchange, Exchange!Spec
=============================================================================
