---------------------------- MODULE ApduExchange ----------------------------
(***************************************************************************)
(* What TC_APDU_transceive promises its callers: one call is one step,     *)
(* whatever fragments, GET RESPONSE commands and corrections it takes.     *)
(* ApduChannel implements it.                                              *)
(***************************************************************************)
EXTENDS Integers

CONSTANT Budgets      \* exchange budgets a channel is opened with

VARIABLES
  left,        \* exchanges_left
  stopped,     \* the channel has lost its transport
  reply        \* what the call returns to its caller

xvars == <<left, stopped, reply>>

Refusals == {"ARGUMENT", "UNSUPPORTED", "ERROR"}
Results == {"OK", "LIMIT", "INVALID", "ERROR"}

\* A command goes out whole or as a chain.  One that is chained, protected or
\* without Le is delivered at most once.
Kinds == {"chained", "once", "repeatable"}
Deliveries(kind) == IF kind = "repeatable" THEN 0 .. 2 ELSE 0 .. 1

\* A call whose result is the card's answer to a whole command delivered it.
Outcome(kind, result, delivered) ==
  /\ delivered \in Deliveries(kind)
  /\ result = "OK" /\ kind # "chained" => delivered > 0

\* delivered counts how often the transport was handed the last fragment of
\* the command, the one that makes the card execute it.
Reply(kind, result, delivered) ==
  [kind |-> kind, result |-> result, delivered |-> delivered]

NoReply == Reply("none", "none", 0)

Init == left = 0 /\ stopped = FALSE /\ reply = NoReply

\* A channel is opened with a new budget, or cleared.
Open ==
  /\ reply = NoReply
  /\ left' \in Budgets \cup {0}
  /\ stopped' = FALSE
  /\ UNCHANGED reply

\* A call that transmits nothing.
Refuse(kind, result) ==
  /\ reply = NoReply
  /\ result = "ERROR" => stopped
  /\ reply' = Reply(kind, result, 0)
  /\ UNCHANGED <<left, stopped>>

\* A call spends at least as many exchanges as it delivers.  Every result but
\* LIMIT needs at least one, and only a transport failure stops the channel.
Transceive(kind, result, spent, delivered) ==
  /\ reply = NoReply /\ ~stopped
  /\ Outcome(kind, result, delivered) /\ delivered <= spent
  /\ result # "LIMIT" => spent > 0
  /\ left' = left - spent
  /\ stopped' = (result = "ERROR")
  /\ reply' = Reply(kind, result, delivered)

\* The caller takes the result.
Take ==
  /\ reply # NoReply
  /\ reply' = NoReply
  /\ UNCHANGED <<left, stopped>>

Next ==
  \/ Open
  \/ Take
  \/ \E kind \in Kinds, result \in Refusals : Refuse(kind, result)
  \/ \E kind \in Kinds, result \in Results, spent \in 0 .. left,
        delivered \in 0 .. 2 : Transceive(kind, result, spent, delivered)

Spec == Init /\ [][Next]_xvars
=============================================================================
