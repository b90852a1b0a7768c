-------------------------- MODULE TwicAuthenticate --------------------------
(***************************************************************************)
(* One run of the TWIC reader program (examples/twic_authenticate.c, with  *)
(* credential_validate.c and credential_pcsc.c): read the command line,    *)
(* load the trust inputs, open the card, authenticate it, check the signed *)
(* objects the command line asks for, read the clock again and repeat      *)
(* every decision that depends on time, then give everything back.         *)
(* Whether a certificate, list or object deserves a positive verdict is a  *)
(* matter of time here (inputs.until); any call may also fail.             *)
(***************************************************************************)
EXTENDS Integers, Sequences, TLAPS

CONSTANTS
  CommandLines,   \* argument lists: sequences of [option, value]
  Inputs,         \* what the files and the card are
  Times,          \* what the clock may show
  MaxDuration,    \* MAX_DURATION
  Day,            \* SECONDS_PER_DAY
  Budgets,        \* WORK_LIMIT
  Decrypts        \* whether AES-128 ECB is built in

Items == {"path", "revocation", "chuid", "security", "unsigned", "printed", "fingerprints", "face"}

ASSUME ConstantTypes ==
  /\ CommandLines \subseteq Seq([option : STRING, value : Int])
  /\ \A i \in Inputs : i.created \in Int /\ i.until \in [Items -> Int] /\ i.cancelled \in BOOLEAN
  /\ Times \subseteq Nat /\ MaxDuration \in Nat /\ Day \in Nat /\ Budgets \subseteq Nat

VARIABLES
  arguments, inputs,
  options,     \* Options: what was given, how often, MARSEC level and floor
  next,        \* the argument to read
  pc,          \* where main stands
  pass,        \* 1 until the clock is read again, then 2
  started, at, \* the first time read, and path.at
  work,
  proved,      \* the card has answered the challenge
  kept,        \* spans of card objects that are retained
  prepared,    \* sensitive.crl.prepared
  commands,    \* steps so far that reached the card
  held,        \* what has to be given back or wiped
  unreleased,  \* what could not be given back
  accepted, code

conf == <<arguments, inputs, options, next>>
times == <<pass, started, at>>
card == <<proved, kept, prepared, commands>>
vars == <<conf, pc, times, work, card, held, unreleased, accepted, code>>

Flags == {"printed-plaintext", "extended-reads", "piv-certificate-envelope", "security-object",
          "fips201-1-biometric-signature", "chuid-ber", "allow-rsa1024"}
Lists == {"issuer", "chuid-issuer", "chuid-crl"}
Singles == {"reader", "root", "root-sha256", "ccl", "chuid-root", "chuid-root-sha256", "tpk-hex",
            "cms-rsa-parameters", "rsa-padding", "marsec-level", "minimum-publication"}
Required == {"reader", "root", "root-sha256", "ccl"}

\* ISSUERS and CRLS.
Room == [o \in Lists |-> IF o = "chuid-crl" THEN 4 ELSE 3]

\* Values the parser takes: a name, one of two words, a level, a number.  A
\* missing or empty value is NoValue.
NoValue == -1
Legal(a) ==
  /\ a.option \in Flags \cup Lists \cup Singles
  /\ a.option \notin Flags => a.value \in Nat
  /\ a.option \in {"cms-rsa-parameters", "rsa-padding"} => a.value \in {0, 1}
  /\ a.option = "marsec-level" => a.value \in 1 .. 3

\* A flag or a single value given twice, a list without room, or a bad value.
Refused(a) ==
  \/ ~Legal(a)
  \/ IF a.option \in Lists THEN options.count[a.option] = Room[a.option]
     ELSE a.option \in options.given

Taken(a) ==
  [given |-> options.given \cup {a.option},
   count |-> IF a.option \in Lists THEN [options.count EXCEPT ![a.option] = @ + 1] ELSE options.count,
   level |-> IF a.option = "marsec-level" THEN a.value ELSE options.level,
   floor |-> IF a.option = "minimum-publication" THEN a.value ELSE options.floor]

Given(o) == o \in options.given
Content == Given("chuid-root")

Init ==
  /\ arguments \in CommandLines /\ inputs \in Inputs /\ work \in Budgets
  /\ options = [given |-> {}, count |-> [o \in Lists |-> 0], level |-> 1, floor |-> 0]
  /\ next = 1 /\ pc = "arguments" /\ pass = 1 /\ started = 0 /\ at = 0
  /\ proved = FALSE /\ kept = {} /\ prepared = FALSE /\ commands = 0
  /\ held = {} /\ unreleased = {} /\ accepted = FALSE /\ code = "none"

(* ----------------------------- command line ------------------------------ *)

Leave(status) == pc' = "exit" /\ code' = status

AsksHelp == Len(arguments) = 1 /\ arguments[1].option = "help"

Help ==
  /\ pc = "arguments" /\ AsksHelp /\ Leave("usage shown")
  /\ UNCHANGED <<conf, times, work, card, held, unreleased, accepted>>

\* One turn of the loop of options_read.
ReadArgument ==
  /\ pc = "arguments" /\ ~AsksHelp /\ next <= Len(arguments)
  /\ \/ /\ Refused(arguments[next]) /\ Leave("usage") /\ UNCHANGED <<options, next>>
     \/ /\ ~Refused(arguments[next])
        /\ options' = Taken(arguments[next]) /\ next' = next + 1 /\ UNCHANGED <<pc, code>>
  /\ UNCHANGED <<arguments, inputs, times, work, card, held, unreleased, accepted>>

\* Mutant: the security object may be asked for without trust for its signer.
CoherentWithoutTrust ==
  /\ IF Content THEN {"chuid-root-sha256", "chuid-crl"} \subseteq options.given
     ELSE options.given \cap {"chuid-root-sha256", "chuid-crl", "chuid-issuer", "chuid-ber"} = {}
  /\ Given("tpk-hex") \/ Given("cms-rsa-parameters") => Content
  /\ Given("printed-plaintext") => Given("security-object") /\ Given("tpk-hex")
  /\ Given("fips201-1-biometric-signature") => Given("tpk-hex")
  /\ Given("tpk-hex") => Decrypts
  /\ Required \subseteq options.given

\* What options_read demands of the options together.
Coherent ==
  /\ IF Content THEN {"chuid-root-sha256", "chuid-crl"} \subseteq options.given
     ELSE options.given \cap {"chuid-root-sha256", "chuid-crl", "chuid-issuer", "chuid-ber"} = {}
  /\ Given("tpk-hex") \/ Given("cms-rsa-parameters") \/ Given("security-object") => Content
  /\ Given("printed-plaintext") => Given("security-object") /\ Given("tpk-hex")
  /\ Given("fips201-1-biometric-signature") => Given("tpk-hex")
  /\ Given("tpk-hex") => Decrypts
  /\ Required \subseteq options.given

\* The end of options_read; then core dumps are disabled and the memory that
\* will hold card data is locked.
Protect ==
  /\ pc = "arguments" /\ next > Len(arguments)
  /\ \/ ~Coherent /\ Leave("usage") /\ UNCHANGED held
     \/ Coherent /\ Leave("failed") /\ UNCHANGED held
     \/ Coherent /\ pc' = "key" /\ held' = {"memory"} /\ UNCHANGED code
  /\ UNCHANGED <<conf, times, work, card, unreleased, accepted>>

(* ------------------------------ trust inputs ----------------------------- *)

\* A step of main: on to the next phase, or to cleanup.
Step(from, to, holds) ==
  /\ pc = from
  /\ pc' \in IF holds THEN {to, "cleanup"} ELSE {"cleanup"}

Covers(cost) == cost <= work
Charge(cost) == work' = IF Covers(cost) THEN work - cost ELSE work

\* A step that talks to the card, and may fail before it does.
Reach == commands' \in IF pc' = "cleanup" THEN {commands, commands + 1} ELSE {commands + 1}

\* The privacy key, when one is given; its text is wiped with the rest.
LoadKey ==
  /\ Step("key", "content", TRUE)
  /\ held' = IF Given("tpk-hex") THEN held \cup {"secrets"} ELSE held
  /\ Given("tpk-hex") \/ pc' = "content"
  /\ UNCHANGED <<conf, times, work, card, unreleased, accepted, code>>

\* content_trust_load: the root by its digest, the issuers, and a lease on the
\* store they are published in.
LoadContent ==
  /\ Step("content", "root", TRUE)
  /\ Content \/ pc' = "root"
  /\ held' = IF Content /\ pc' = "root" THEN held \cup {"trust"} ELSE held
  /\ UNCHANGED <<conf, times, work, card, unreleased, accepted, code>>

\* The card root, the canceled card list with its creation time, the issuers.
LoadRoot ==
  /\ Step("root", "list", TRUE)
  /\ UNCHANGED <<conf, times, work, card, held, unreleased, accepted, code>>

\* The list is indexed, published and leased.
PublishList ==
  /\ Step("list", "start", TRUE)
  /\ held' = IF pc' = "start" THEN held \cup {"list"} ELSE held
  /\ UNCHANGED <<conf, times, work, card, unreleased, accepted, code>>

\* max_age of a canceled card list, by MARSEC level.
MaxAge(level) == IF level = 1 THEN 7 * Day ELSE Day

\* TC_TWIC_CCL_check_freshness with metadata published and received at created.
Fresh(now) ==
  /\ inputs.created <= now /\ options.floor <= inputs.created
  /\ now - inputs.created <= MaxAge(options.level)

\* The first reading of the clock.
Start ==
  /\ \E now \in Times :
       /\ Step("start", "reader", Fresh(now))
       /\ started' = now /\ at' = now
  /\ UNCHANGED <<conf, pass, work, card, held, unreleased, accepted, code>>

(* ----------------------------- reader and card --------------------------- *)

Handles == {"context", "card", "transaction"}

\* What is open when the one reader of that name is not found, its card is not
\* the one asked for, or it cannot be connected or locked.
Unfinished == {{}, {"context"}, {"context", "card"}}

\* example_card_pcsc_open: a context, a connection, a transaction; when one of
\* them fails, those before it are closed, and what does not close is lost.
OpenReader ==
  /\ Step("reader", "link", TRUE)
  /\ \E opened \in Unfinished, lost \in SUBSET Handles :
       /\ lost \subseteq opened
       /\ IF pc' = "link" THEN held' = held \cup Handles /\ UNCHANGED unreleased
          ELSE held' = held /\ unreleased' = unreleased \cup lost
  /\ UNCHANGED <<conf, times, work, card, accepted, code>>

InitLink ==
  /\ Step("link", "certificate", TRUE)
  /\ held' = IF pc' = "certificate" THEN held \cup {"link"} ELSE held
  /\ UNCHANGED <<conf, times, work, card, unreleased, accepted, code>>

\* Reading a certificate twice, for its fields and for its extensions; one
\* unit for any other work.
ReadCost == 2
UnitCost == 1

\* card_certificate and purpose_read; what the card sends is kept in the
\* protected memory.
ReadCertificate ==
  /\ Step("certificate", "path", Covers(ReadCost)) /\ Charge(ReadCost)
  /\ commands' = commands + 1 /\ held' = held \cup {"secrets"}
  /\ UNCHANGED <<conf, times, proved, kept, prepared, unreleased, accepted, code>>

\* What a positive verdict on an item means at the time of this pass.
Current(item) == at <= inputs.until[item]

Supported == inputs.profile \in {"LEGACY", "NEXGEN"}

\* example_twic_authenticate up to the verdict on the path.  A path that fails
\* is charged the whole budget.
BuildPath ==
  /\ Step("path", "cancellation", Supported /\ Current("path") /\ Covers(UnitCost))
  /\ work' = IF pc' = "cancellation" THEN work - UnitCost ELSE IF Supported THEN 0 ELSE work
  /\ UNCHANGED <<conf, times, card, held, unreleased, accepted, code>>

\* example_twic_cancellation_check on the leased list.
NotCancelled == Fresh(at) /\ ~inputs.cancelled

\* The identifiers of the certificate, looked up.
CheckCancellation ==
  /\ Step("cancellation", "prove", Covers(ReadCost) /\ NotCancelled) /\ Charge(ReadCost)
  /\ UNCHANGED <<conf, times, card, held, unreleased, accepted, code>>

\* TC_PIV_key_prove, and the cancellation check after it.
Prove ==
  /\ Step("prove", "objects", Covers(UnitCost) /\ NotCancelled) /\ Charge(UnitCost)
  /\ proved' \in IF pc' = "objects" THEN {TRUE} ELSE BOOLEAN
  /\ Reach
  /\ UNCHANGED <<conf, times, kept, prepared, held, unreleased, accepted, code>>

(* ----------------------------- signed objects ---------------------------- *)

\* After the objects: the clock in the first pass, the end in the second.
AfterObjects == IF pass = 1 THEN "finish" ELSE "cleanup"

\* A failed check of an object is also the end of an acceptance.
ObjectStep(from, to, holds) ==
  /\ pc = from
  /\ \/ holds /\ pc' = to /\ UNCHANGED accepted
     \/ pc' = "cleanup" /\ accepted' = FALSE

\* Mutant: the spans live in the call, not in main.
SpansOfCall == kept

\* What signed_objects retains once the CHUID is read, alone or with the stored
\* biometrics out of an inventory of the card.
Spans ==
  kept \cup {"chuid"} \cup
    (IF ~Given("security-object") THEN {}
     ELSE IF inputs.profile = "NEXGEN" THEN {"storedFingerprints", "storedFace"}
     ELSE {"storedFingerprints"})

\* signed_objects_check begins: nothing without content trust; the identity of
\* the certificate; the objects, when they are not retained.
ReadObjects ==
  /\ IF ~Content
     THEN /\ pc = "objects" /\ pc' = AfterObjects
          /\ UNCHANGED <<work, kept, commands, held, accepted>>
     ELSE /\ ObjectStep("objects", "crls", Covers(ReadCost)) /\ Charge(ReadCost)
          /\ IF "chuid" \in kept THEN UNCHANGED <<kept, commands, held>>
             ELSE /\ Reach
                  /\ held' = IF Given("security-object") THEN held \cup {"inventory"} ELSE held
                  /\ kept' = IF pc' = "cleanup" THEN kept ELSE Spans
  /\ UNCHANGED <<conf, times, proved, prepared, unreleased, code>>

\* content_crls_prepare: once, for every certificate that may be asked about.
PrepareCrls ==
  /\ IF prepared THEN pc = "crls" /\ pc' = "chuid" /\ UNCHANGED <<work, held, prepared, accepted>>
     ELSE /\ ObjectStep("crls", "chuid", Covers(UnitCost)) /\ Charge(UnitCost)
          /\ held' = held \cup {"jobs"} /\ prepared' = (pc' = "chuid")
  /\ UNCHANGED <<conf, times, proved, kept, commands, unreleased, code>>

\* TC_PIV_CHUID_validate at the time of this pass.
ValidateChuid ==
  /\ ObjectStep("chuid", "security", Covers(UnitCost) /\ Current("chuid")) /\ Charge(UnitCost)
  /\ UNCHANGED <<conf, times, card, held, unreleased, code>>

\* The security object with the stored objects, the unsigned CHUID and the
\* printed information, whose plaintext is retained.
ValidateSecurity ==
  /\ IF ~Given("security-object")
     THEN pc = "security" /\ pc' = "biometrics" /\ UNCHANGED <<work, kept, accepted>>
     ELSE /\ ObjectStep("security", "biometrics",
                        /\ Covers(UnitCost) /\ Current("security") /\ Current("unsigned")
                        /\ Given("printed-plaintext") => Current("printed"))
          /\ Charge(UnitCost)
          /\ kept' = IF Given("printed-plaintext") THEN kept \cup {"printed"} ELSE kept
  /\ UNCHANGED <<conf, times, proved, prepared, commands, held, unreleased, code>>

Biometrics == IF inputs.profile = "NEXGEN" THEN {"fingerprints", "face"} ELSE {"fingerprints"}
Stored(o) == IF o = "face" THEN "storedFace" ELSE "storedFingerprints"

\* protected_object_read: objects that are not decrypted yet; the card is asked
\* for those whose stored form is not at hand either.
Missing == Biometrics \ kept
Fetched == {o \in Missing : Stored(o) \notin kept}

\* The biometric objects of the profile are read and decrypted, ...
ReadBiometrics ==
  /\ IF ~Given("tpk-hex")
     THEN pc = "biometrics" /\ pc' = AfterObjects /\ UNCHANGED <<work, kept, commands, accepted>>
     ELSE /\ ObjectStep("biometrics", "signatures", Covers(UnitCost)) /\ Charge(UnitCost)
          /\ IF Fetched = {} THEN UNCHANGED commands ELSE Reach
          /\ kept' = kept \cup Missing \cup {Stored(o) : o \in Fetched}
  /\ UNCHANGED <<conf, times, proved, prepared, held, unreleased, code>>

\* ... and validated at the time of this pass.
ValidateBiometrics ==
  /\ ObjectStep("signatures", AfterObjects, Covers(UnitCost) /\ \A o \in Biometrics : Current(o))
  /\ Charge(UnitCost)
  /\ UNCHANGED <<conf, times, card, held, unreleased, code>>

(* --------------------------- the final decision -------------------------- *)

\* Mutant: a clock that went back is not noticed.
InTimeForward(now) == now - started <= MaxDuration

InTime(now) == started <= now /\ now - started <= MaxDuration

\* The clock is read again, and the list must still be fresh.
Finish ==
  /\ \E now \in Times :
       /\ Step("finish", "recheck", InTime(now) /\ Fresh(now))
       /\ at' = now /\ pass' = 2
  /\ UNCHANGED <<conf, started, work, card, held, unreleased, accepted, code>>

\* The identity is read again and looked up again.
Recheck ==
  /\ Step("recheck", "final", Covers(ReadCost) /\ NotCancelled) /\ Charge(ReadCost)
  /\ UNCHANGED <<conf, times, card, held, unreleased, accepted, code>>

\* Mutant: the path keeps the verdict of the first pass.
FinalPathKept ==
  /\ Step("final", "revocation", Covers(UnitCost))
  /\ accepted' = (pc' = "revocation")
  /\ work' = IF pc' = "revocation" THEN work - UnitCost ELSE work
  /\ UNCHANGED <<conf, times, card, held, unreleased, code>>

\* The path is built again at the new time; accepted is set here.
FinalPath ==
  /\ Step("final", "revocation", Covers(UnitCost) /\ Current("path"))
  /\ accepted' = (pc' = "revocation")
  /\ work' = IF pc' = "revocation" THEN work - UnitCost ELSE work
  /\ UNCHANGED <<conf, times, card, held, unreleased, code>>

\* The card path is checked for revocation when lists were prepared; then the
\* objects once more.
CheckRevocation ==
  /\ IF prepared
     THEN ObjectStep("revocation", "objects", Covers(UnitCost) /\ Current("revocation")) /\ Charge(UnitCost)
     ELSE pc = "revocation" /\ pc' = "objects" /\ UNCHANGED <<work, accepted>>
  /\ UNCHANGED <<conf, times, card, held, unreleased, code>>

(* -------------------------------- cleanup -------------------------------- *)

\* What is cleared or wiped, and what is given back by a call that may fail.
Cleared == {"inventory", "link", "jobs", "secrets"}
Released == {"trust", "list", "memory"} \cup Handles

\* Mutant: what could not be given back leaves the verdict alone.
CleanupSilent ==
  /\ pc = "cleanup"
  /\ \E lost \in SUBSET (held \cap Released) : unreleased' = unreleased \cup lost
  /\ held' = held \ (Cleared \cup Released)
  /\ UNCHANGED accepted /\ Leave(IF accepted THEN "succeeded" ELSE "failed")
  /\ UNCHANGED <<conf, times, work, card>>

\* Mutant: a failed run ends without giving anything back.
CleanupOnSuccess ==
  /\ pc = "cleanup"
  /\ UNCHANGED unreleased
  /\ held' = IF accepted THEN {} ELSE held
  /\ UNCHANGED accepted /\ Leave(IF accepted THEN "succeeded" ELSE "failed")
  /\ UNCHANGED <<conf, times, work, card>>

\* Clear the inventory, the link and the jobs, release both leases, close the
\* reader, wipe and unlock; each call that fails takes the acceptance back.
Cleanup ==
  /\ pc = "cleanup"
  /\ \E lost \in SUBSET (held \cap Released) :
       /\ unreleased' = unreleased \cup lost
       /\ accepted' = (accepted /\ lost = {})
  /\ held' = held \ (Cleared \cup Released)
  /\ Leave(IF accepted' THEN "succeeded" ELSE "failed")
  /\ UNCHANGED <<conf, times, work, card>>

Done == pc = "exit" /\ UNCHANGED vars

Next ==
  \/ Help \/ ReadArgument \/ Protect \/ LoadKey \/ LoadContent \/ LoadRoot \/ PublishList \/ Start
  \/ OpenReader \/ InitLink \/ ReadCertificate \/ BuildPath \/ CheckCancellation \/ Prove
  \/ ReadObjects \/ PrepareCrls \/ ValidateChuid \/ ValidateSecurity \/ ReadBiometrics
  \/ ValidateBiometrics \/ Finish \/ Recheck \/ FinalPath \/ CheckRevocation \/ Cleanup \/ Done

Spec == Init /\ [][Next]_vars

(* --------------------------- a small instance ---------------------------- *)

Plain(names) == [i \in 1 .. Len(names) |-> [option |-> names[i], value |-> 0]]
Base == Plain(<<"reader", "root", "root-sha256", "ccl">>)
Trust == Base \o Plain(<<"chuid-root", "chuid-root-sha256", "chuid-crl">>)
Short == Base \o <<[option |-> "marsec-level", value |-> 3]>>

\* Sound command lines that ask for more and more, and lines that are refused.
SampleLines ==
  {Plain(<<"help">>), Base, Short, Trust \o Plain(<<"issuer", "rsa-padding">>),
   Trust \o Plain(<<"security-object">>), Trust \o Plain(<<"tpk-hex", "chuid-ber">>),
   Trust \o Plain(<<"security-object", "tpk-hex", "printed-plaintext">>),
   Base \o <<[option |-> "minimum-publication", value |-> 6]>>,
   Base \o Plain(<<"security-object">>), Base \o Plain(<<"chuid-crl">>), Base \o Plain(<<"help">>),
   Base \o Plain(<<"ccl">>), Base \o Plain(<<"issuer", "issuer", "issuer", "issuer">>),
   Base \o <<[option |-> "marsec-level", value |-> 4]>>, <<[option |-> "reader", value |-> NoValue]>>}

SampleTimes == {9, 11, 14}

\* One good card, and cards and lists with one thing that is not.
Good == [profile |-> "NEXGEN", created |-> 8, until |-> [i \in Items |-> 20], cancelled |-> FALSE]
SampleInputs ==
  {[Good EXCEPT !.until[i] = 10] : i \in Items} \cup {[Good EXCEPT !.created = c] : c \in {5, 8, 10}}
    \cup {[Good EXCEPT !.profile = p] : p \in {"LEGACY", "OTHER"}} \cup {[Good EXCEPT !.cancelled = TRUE]}

(******************************* Properties *******************************)

Phases == {"arguments", "key", "content", "root", "list", "start", "reader", "link", "certificate", "path",
           "cancellation", "prove", "objects", "crls", "chuid", "security", "biometrics", "signatures",
           "finish", "recheck", "final", "revocation", "cleanup", "exit"}
Spannable == {"chuid", "storedFingerprints", "storedFace", "printed", "fingerprints", "face"}

OptionsType ==
  /\ arguments \in CommandLines /\ inputs \in Inputs /\ next \in 1 .. Len(arguments) + 1
  /\ options \in [given : SUBSET (Flags \cup Lists \cup Singles), count : [Lists -> 0 .. 4],
                  level : 1 .. 3, floor : Nat]
  /\ \A o \in Lists : options.count[o] <= Room[o]

ProgressType ==
  /\ pc \in Phases /\ pass \in {1, 2} /\ started \in Times \cup {0} /\ at \in Times \cup {0}
  /\ work \in Nat /\ accepted \in BOOLEAN
  /\ code \in {"none", "usage shown", "usage", "failed", "succeeded"}

CardType ==
  /\ proved \in BOOLEAN /\ prepared \in BOOLEAN /\ kept \subseteq Spannable /\ commands \in Nat
  /\ held \subseteq Cleared \cup Released /\ unreleased \subseteq Released

\* Every variable keeps its shape, no list takes more files than there is room
\* for, and the budget is never overdrawn.
TypeOK == OptionsType /\ ProgressType /\ CardType

Asked(o) == \E i \in 1 .. Len(arguments) : arguments[i].option = o

\* What each option that asks for a check asks about.
Demanded ==
  {"path"} \cup (IF Asked("chuid-root") THEN {"revocation", "chuid"} ELSE {})
           \cup (IF Asked("security-object") THEN {"security", "unsigned"} ELSE {})
           \cup (IF Asked("printed-plaintext") THEN {"printed"} ELSE {})
           \cup (IF Asked("tpk-hex") THEN Biometrics ELSE {})

\* The program reports success only for a card that has answered a challenge,
\* whose certificate path and every object that the command line asks about
\* are good at the last time read from the clock; that time is not before the
\* first and at most MAX_DURATION after it; and at it the card is not on the
\* list, which is no older than the MARSEC level and the floor given allow.
Granted ==
  code = "succeeded" =>
    /\ proved /\ ~inputs.cancelled
    /\ \A item \in Demanded : at <= inputs.until[item]
    /\ started <= at /\ at - started <= MaxDuration
    /\ inputs.created <= at
    /\ at - inputs.created <= 7 * Day
    /\ \A i \in 1 .. Len(arguments) :
         /\ arguments[i].option = "marsec-level" /\ arguments[i].value # 1 => at - inputs.created <= Day
         /\ arguments[i].option = "minimum-publication" => inputs.created >= arguments[i].value

\* Once the clock that dates the decision has been read, nothing is read from
\* the card any more: the second pass is about the very objects of the first.
DecidedOffline == [][pass = 2 => commands' = commands]_vars

\* Whatever happens, the program ends with nothing held: leases, reader
\* handles, locked memory and card data; and it does not report success when
\* a release failed, be it in the middle of opening the reader.
HandedBack == pc = "exit" => held = {} /\ (code = "succeeded" => unreleased = {})

(* ----------------------- the inductive invariant ------------------------- *)

\* The phases of signed_objects_check, and those from its first call on.
ObjectPhases == {"objects", "crls", "chuid", "security", "biometrics", "signatures"}
FinalPhases == {"recheck", "final", "revocation"}
Ending == {"cleanup", "exit"}

\* The options read so far are those of the command line so far, with the
\* values given there; past options_read they are all of it, and coherent.
OptionsRead ==
  /\ \A o \in options.given : \E j \in 1 .. next - 1 : arguments[j].option = o
  /\ \A j \in 1 .. next - 1 :
       /\ arguments[j].option \in options.given
       /\ arguments[j].option = "marsec-level" => options.level = arguments[j].value
       /\ arguments[j].option = "minimum-publication" => options.floor = arguments[j].value
  /\ pc \notin {"arguments", "exit"} \/ accepted => next = Len(arguments) + 1 /\ Coherent

\* Which pass the program is in, when it has accepted, and when it reports.
Flow ==
  /\ pass = 1 => pc \notin FinalPhases /\ ~accepted
  /\ pass = 2 => pc \in FinalPhases \cup ObjectPhases \cup Ending
  /\ accepted => pc \in {"revocation"} \cup ObjectPhases \cup Ending
  /\ pass = 2 /\ pc \in {"revocation"} \cup ObjectPhases => accepted
  /\ code # "none" => pc = "exit"
  /\ code = "succeeded" => accepted

\* What has been retained when the program has come to a phase.
Retained ==
  /\ pc \in FinalPhases \cup ObjectPhases \cup {"finish"} => proved
  /\ Content /\ (pc \in (ObjectPhases \cup {"finish"}) \ {"objects"} \/ (pass = 2 /\ pc \notin Ending))
       => "chuid" \in kept
  /\ Content /\ (pc \in {"chuid", "security", "biometrics", "signatures", "finish"}
                   \/ (pass = 2 /\ pc \notin Ending)) => prepared
  /\ Given("tpk-hex") /\ (pc \in {"signatures", "finish"} \/ (pass = 2 /\ pc \notin Ending))
       => Biometrics \subseteq kept

\* What has been decided at the time of the second reading of the clock.
Decided ==
  /\ pc \in {"recheck", "final"} \/ accepted => InTime(at) /\ Fresh(at)
  /\ pc = "final" \/ accepted => ~inputs.cancelled
  /\ accepted =>
       /\ proved /\ Current("path")
       /\ Content /\ pc # "revocation" => Current("revocation")
       /\ Content /\ pc \in {"security", "biometrics", "signatures"} \cup Ending => Current("chuid")
       /\ pc \in {"biometrics", "signatures"} \cup Ending =>
            /\ Given("security-object") => Current("security") /\ Current("unsigned")
            /\ Given("printed-plaintext") => Current("printed")
       /\ Given("tpk-hex") /\ pc \in Ending => \A o \in Biometrics : Current(o)

\* Where something can be held, and that a loss rules out an acceptance.
Holding ==
  /\ pc \in {"arguments", "exit"} => held = {}
  /\ unreleased # {} => pc \in Ending /\ ~accepted

Inv == TypeOK /\ OptionsRead /\ Flow /\ Retained /\ Decided /\ Holding

(* ------------------------------ the proof -------------------------------- *)

USE DEF conf, times, card

\* Only the loop of options_read changes the options.
LEMMA OptionsKept == ASSUME [Next]_vars PROVE ReadArgument \/ UNCHANGED conf
PROOF
  BY Zenon DEF Next, vars, Done, Help, Protect, LoadKey, LoadContent, LoadRoot, PublishList, Start,
       OpenReader, InitLink, ReadCertificate, BuildPath, CheckCancellation, Prove, ReadObjects, PrepareCrls,
       ValidateChuid, ValidateSecurity, ReadBiometrics, ValidateBiometrics, Finish, Recheck, FinalPath,
       CheckRevocation, Cleanup

\* The budget is only charged with what it covers.
LEMMA WorkStep == ASSUME work \in Nat, [Next]_vars PROVE work' \in Nat
PROOF
<1>0. CASE UNCHANGED vars \/ Done
  BY <1>0 DEF vars, Done
<1>1. CASE Help
  BY Zenon, <1>1 DEF Help, Step, Charge, Covers, ReadCost, UnitCost
<1>2. CASE ReadArgument
  BY <1>2 DEF ReadArgument, Step, Charge, Covers, ReadCost, UnitCost
<1>3. CASE Protect
  BY <1>3 DEF Protect, Step, Charge, Covers, ReadCost, UnitCost
<1>4. CASE LoadKey
  BY <1>4 DEF LoadKey, Step, Charge, Covers, ReadCost, UnitCost
<1>5. CASE LoadContent
  BY <1>5 DEF LoadContent, Step, Charge, Covers, ReadCost, UnitCost
<1>6. CASE LoadRoot
  BY <1>6 DEF LoadRoot, Step, Charge, Covers, ReadCost, UnitCost
<1>7. CASE PublishList
  BY <1>7 DEF PublishList, Step, Charge, Covers, ReadCost, UnitCost
<1>8. CASE Start
  BY <1>8 DEF Start, Step, Charge, Covers, ReadCost, UnitCost
<1>9. CASE OpenReader
  BY <1>9 DEF OpenReader, Step, Charge, Covers, ReadCost, UnitCost
<1>10. CASE InitLink
  BY <1>10 DEF InitLink, Step, Charge, Covers, ReadCost, UnitCost
<1>11. CASE ReadCertificate
  BY <1>11 DEF ReadCertificate, Step, Charge, Covers, ReadCost, UnitCost
<1>12. CASE BuildPath
  <2>1. pc' = "cancellation" => UnitCost <= work
    BY <1>12 DEF BuildPath, Step, Covers
  <2>2. work' \in {work - UnitCost, 0, work} /\ (work' = work - UnitCost => UnitCost <= work \/ work' \in {0, work})
    BY <1>12, <2>1 DEF BuildPath
  <2> QED  BY <2>2 DEF UnitCost
<1>13. CASE CheckCancellation
  BY <1>13 DEF CheckCancellation, Step, Charge, Covers, ReadCost, UnitCost
<1>14. CASE Prove
  BY <1>14 DEF Prove, Step, Charge, Covers, ReadCost, UnitCost
<1>15. CASE ReadObjects
  BY <1>15 DEF ReadObjects, Step, Charge, Covers, ReadCost, UnitCost
<1>16. CASE PrepareCrls
  BY <1>16 DEF PrepareCrls, Step, Charge, Covers, ReadCost, UnitCost
<1>17. CASE ValidateChuid
  BY <1>17 DEF ValidateChuid, Step, Charge, Covers, ReadCost, UnitCost
<1>18. CASE ValidateSecurity
  <2>1. work' = work \/ Charge(UnitCost)
    BY Zenon, <1>18 DEF ValidateSecurity
  <2> QED  BY <2>1 DEF Charge, Covers, UnitCost
<1>19. CASE ReadBiometrics
  BY <1>19 DEF ReadBiometrics, Step, Charge, Covers, ReadCost, UnitCost
<1>20. CASE ValidateBiometrics
  BY <1>20 DEF ValidateBiometrics, Step, Charge, Covers, ReadCost, UnitCost
<1>21. CASE Finish
  BY <1>21 DEF Finish, Step, Charge, Covers, ReadCost, UnitCost
<1>22. CASE Recheck
  BY <1>22 DEF Recheck, Step, Charge, Covers, ReadCost, UnitCost
<1>23. CASE FinalPath
  BY <1>23 DEF FinalPath, Step, Charge, Covers, ReadCost, UnitCost
<1>24. CASE CheckRevocation
  BY <1>24 DEF CheckRevocation, Step, Charge, Covers, ReadCost, UnitCost
<1>25. CASE Cleanup
  BY <1>25 DEF Cleanup, Step, Charge, Covers, ReadCost, UnitCost
<1> QED  BY <1>0, <1>1, <1>2, <1>3, <1>4, <1>5, <1>6, <1>7, <1>8, <1>9, <1>10, <1>11, <1>12, <1>13, <1>14,
              <1>15, <1>16, <1>17, <1>18, <1>19, <1>20, <1>21, <1>22, <1>23, <1>24, <1>25 DEF Next

LEMMA PhaseStep == ASSUME pc \in Phases, [Next]_vars PROVE pc' \in Phases
PROOF
<1> USE DEF Phases
<1>0. CASE UNCHANGED vars \/ Done
  BY <1>0 DEF vars, Done
<1>1. CASE Help
  BY Zenon, <1>1 DEF Help, Step, ObjectStep, Leave, AfterObjects
<1>2. CASE ReadArgument
  BY <1>2 DEF ReadArgument, Step, ObjectStep, Leave, AfterObjects
<1>3. CASE Protect
  BY <1>3 DEF Protect, Step, ObjectStep, Leave, AfterObjects
<1>4. CASE LoadKey
  BY <1>4 DEF LoadKey, Step, ObjectStep, Leave, AfterObjects
<1>5. CASE LoadContent
  BY <1>5 DEF LoadContent, Step, ObjectStep, Leave, AfterObjects
<1>6. CASE LoadRoot
  BY <1>6 DEF LoadRoot, Step, ObjectStep, Leave, AfterObjects
<1>7. CASE PublishList
  BY <1>7 DEF PublishList, Step, ObjectStep, Leave, AfterObjects
<1>8. CASE Start
  BY <1>8 DEF Start, Step, ObjectStep, Leave, AfterObjects
<1>9. CASE OpenReader
  BY <1>9 DEF OpenReader, Step, ObjectStep, Leave, AfterObjects
<1>10. CASE InitLink
  BY <1>10 DEF InitLink, Step, ObjectStep, Leave, AfterObjects
<1>11. CASE ReadCertificate
  BY <1>11 DEF ReadCertificate, Step, ObjectStep, Leave, AfterObjects
<1>12. CASE BuildPath
  BY <1>12 DEF BuildPath, Step, ObjectStep, Leave, AfterObjects
<1>13. CASE CheckCancellation
  BY <1>13 DEF CheckCancellation, Step, ObjectStep, Leave, AfterObjects
<1>14. CASE Prove
  BY <1>14 DEF Prove, Step, ObjectStep, Leave, AfterObjects
<1>15. CASE ReadObjects
  BY <1>15 DEF ReadObjects, Step, ObjectStep, Leave, AfterObjects
<1>16. CASE PrepareCrls
  BY <1>16 DEF PrepareCrls, Step, ObjectStep, Leave, AfterObjects
<1>17. CASE ValidateChuid
  BY <1>17 DEF ValidateChuid, Step, ObjectStep, Leave, AfterObjects
<1>18. CASE ValidateSecurity
  BY <1>18 DEF ValidateSecurity, Step, ObjectStep, Leave, AfterObjects
<1>19. CASE ReadBiometrics
  BY <1>19 DEF ReadBiometrics, Step, ObjectStep, Leave, AfterObjects
<1>20. CASE ValidateBiometrics
  BY <1>20 DEF ValidateBiometrics, Step, ObjectStep, Leave, AfterObjects
<1>21. CASE Finish
  BY <1>21 DEF Finish, Step, ObjectStep, Leave, AfterObjects
<1>22. CASE Recheck
  BY <1>22 DEF Recheck, Step, ObjectStep, Leave, AfterObjects
<1>23. CASE FinalPath
  BY <1>23 DEF FinalPath, Step, ObjectStep, Leave, AfterObjects
<1>24. CASE CheckRevocation
  BY <1>24 DEF CheckRevocation, Step, ObjectStep, Leave, AfterObjects
<1>25. CASE Cleanup
  BY <1>25 DEF Cleanup, Step, ObjectStep, Leave, AfterObjects
<1> QED  BY <1>0, <1>1, <1>2, <1>3, <1>4, <1>5, <1>6, <1>7, <1>8, <1>9, <1>10, <1>11, <1>12, <1>13, <1>14,
              <1>15, <1>16, <1>17, <1>18, <1>19, <1>20, <1>21, <1>22, <1>23, <1>24, <1>25 DEF Next

LEMMA AcceptedStep == ASSUME accepted \in BOOLEAN, [Next]_vars PROVE accepted' \in BOOLEAN
PROOF
<1>1. \/ ReadObjects \/ PrepareCrls \/ ValidateChuid \/ ValidateSecurity \/ ReadBiometrics \/ ValidateBiometrics
      \/ FinalPath \/ CheckRevocation \/ Cleanup \/ UNCHANGED accepted
  BY Zenon DEF Next, vars, Done, Help, ReadArgument, Protect, LoadKey, LoadContent, LoadRoot, PublishList,
       Start, OpenReader, InitLink, ReadCertificate, BuildPath, CheckCancellation, Prove, Finish, Recheck
<1>2. CASE ReadObjects
  BY Zenon, <1>2 DEF ReadObjects, ObjectStep
<1>3. CASE PrepareCrls
  BY Zenon, <1>3 DEF PrepareCrls, ObjectStep
<1>4. CASE ValidateChuid
  BY Zenon, <1>4 DEF ValidateChuid, ObjectStep
<1>5. CASE ValidateSecurity
  BY Zenon, <1>5 DEF ValidateSecurity, ObjectStep
<1>6. CASE ReadBiometrics
  BY Zenon, <1>6 DEF ReadBiometrics, ObjectStep
<1>7. CASE ValidateBiometrics
  BY Zenon, <1>7 DEF ValidateBiometrics, ObjectStep
<1>8. CASE FinalPath
  BY <1>8 DEF FinalPath, ObjectStep
<1>9. CASE CheckRevocation
  BY Zenon, <1>9 DEF CheckRevocation, ObjectStep
<1>10. CASE Cleanup
  BY <1>10 DEF Cleanup, ObjectStep
<1> QED  BY <1>1, <1>2, <1>3, <1>4, <1>5, <1>6, <1>7, <1>8, <1>9, <1>10

LEMMA TimesStep ==
  ASSUME pass \in {1, 2}, started \in Times \cup {0}, at \in Times \cup {0}, [Next]_vars
  PROVE  pass' \in {1, 2} /\ started' \in Times \cup {0} /\ at' \in Times \cup {0}
PROOF
<1>1. Start \/ Finish \/ UNCHANGED times
  BY Zenon DEF Next, vars, Done, Help, ReadArgument, Protect, LoadKey, LoadContent, LoadRoot, PublishList,
       OpenReader, InitLink, ReadCertificate, BuildPath, CheckCancellation, Prove, ReadObjects, PrepareCrls,
       ValidateChuid, ValidateSecurity, ReadBiometrics, ValidateBiometrics, Recheck, FinalPath,
       CheckRevocation, Cleanup
<1>2. CASE Start
  BY <1>2 DEF Start
<1>3. CASE Finish
  BY <1>3 DEF Finish
<1> QED  BY <1>1, <1>2, <1>3
LEMMA SeqElement == ASSUME NEW S, NEW s \in Seq(S), NEW i \in 1 .. Len(s) PROVE s[i] \in S
PROOF BY SMT

LEMMA OptionsTypeStep == ASSUME OptionsType, [Next]_vars PROVE OptionsType'
PROOF
<1>1. CASE UNCHANGED conf
  BY <1>1 DEF OptionsType
<1>2. CASE ReadArgument
  <2> DEFINE a == arguments[next]
  <2>1. arguments \in Seq([option : STRING, value : Int]) /\ next \in 1 .. Len(arguments)
    BY <1>2, ConstantTypes DEF ReadArgument, OptionsType
  <2>2. a \in [option : STRING, value : Int]
    BY Zenon, <2>1, SeqElement
  <2>3. next' \in 1 .. Len(arguments) + 1 /\ UNCHANGED <<arguments, inputs>>
    BY <1>2, <2>1 DEF ReadArgument, OptionsType
  <2>4. CASE options' = options
    BY <2>3, <2>4 DEF OptionsType
  <2>5. CASE ~Refused(a) /\ options' = Taken(a)
    <3> HIDE DEF a
    <3>1. Legal(a) /\ (a.option \in Lists => options.count[a.option] # Room[a.option])
      BY <2>5 DEF Refused
    <3>2. options'.given \in SUBSET (Flags \cup Lists \cup Singles)
      BY <2>5, <3>1 DEF Taken, Legal, OptionsType
    <3>3. options'.level \in 1 .. 3
      BY <2>5, <3>1 DEF Taken, Legal, OptionsType
    <3>4. options'.floor \in Nat
      BY <2>5, <3>1 DEF Taken, Legal, OptionsType, Flags
    <3>5. options'.count \in [Lists -> 0 .. 4] /\ \A o \in Lists : options'.count[o] <= Room[o]
      <4>1. CASE a.option \notin Lists
        BY <2>5, <4>1 DEF Taken, OptionsType
      <4>2. CASE a.option \in Lists
        <5>1. options'.count = [options.count EXCEPT ![a.option] = options.count[a.option] + 1]
          BY <2>5, <4>2 DEF Taken
        <5>2. options.count \in [Lists -> 0 .. 4] /\ \A o \in Lists : options.count[o] <= Room[o] /\ Room[o] \in 0 .. 4
          BY DEF OptionsType, Room
        <5>3. options.count[a.option] + 1 <= Room[a.option] /\ options.count[a.option] + 1 \in 0 .. 4
          BY <3>1, <4>2, <5>2
        <5> QED  BY <4>2, <5>1, <5>2, <5>3
      <4> QED  BY <4>1, <4>2
    <3>6. options' = [given |-> options'.given, count |-> options'.count, level |-> options'.level, floor |-> options'.floor]
      BY <2>5 DEF Taken
    <3> QED  BY <2>3, <3>2, <3>3, <3>4, <3>5, <3>6 DEF OptionsType
  <2> QED  BY <1>2, <2>4, <2>5 DEF ReadArgument
<1> QED  BY <1>1, <1>2, OptionsKept

LEMMA ProgressTypeStep == ASSUME ProgressType, [Next]_vars PROVE ProgressType'
PROOF
<1>1. code' \in {"none", "usage shown", "usage", "failed", "succeeded"}
  <2> USE DEF ProgressType
  <2>1. UNCHANGED code \/ Help \/ ReadArgument \/ Protect \/ Cleanup
    BY Zenon DEF Next, vars, Done, LoadKey, LoadContent, LoadRoot, PublishList, Start, OpenReader, InitLink,
         ReadCertificate, BuildPath, CheckCancellation, Prove, ReadObjects, PrepareCrls, ValidateChuid,
         ValidateSecurity, ReadBiometrics, ValidateBiometrics, Finish, Recheck, FinalPath, CheckRevocation
  <2> QED  BY Zenon, <2>1 DEF Help, ReadArgument, Protect, Cleanup, Leave
<1> QED  BY Zenon, <1>1, PhaseStep, TimesStep, WorkStep, AcceptedStep DEF ProgressType

LEMMA KeptStep == ASSUME kept \subseteq Spannable, [Next]_vars PROVE kept' \subseteq Spannable
PROOF
<1> USE DEF Spannable
<1>1. ReadObjects \/ ValidateSecurity \/ ReadBiometrics \/ UNCHANGED kept
  BY Zenon DEF Next, vars, Done, Help, ReadArgument, Protect, LoadKey, LoadContent, LoadRoot, PublishList,
       Start, OpenReader, InitLink, ReadCertificate, BuildPath, CheckCancellation, Prove, PrepareCrls,
       ValidateChuid, ValidateBiometrics, Finish, Recheck, FinalPath, CheckRevocation, Cleanup
<1>2. CASE ReadObjects
  BY Zenon, <1>2 DEF ReadObjects, Spans, Biometrics, Stored, Missing, Fetched
<1>3. CASE ValidateSecurity
  BY Zenon, <1>3 DEF ValidateSecurity, Spans, Biometrics, Stored, Missing, Fetched
<1>4. CASE ReadBiometrics
  <2>1. kept' = kept \/ kept' = kept \cup Missing \cup {Stored(o) : o \in Fetched}
    BY Zenon, <1>4 DEF ReadBiometrics
  <2>2. Missing \subseteq Spannable
    BY DEF Missing, Biometrics
  <2>3. \A o \in Fetched : Stored(o) \in Spannable
    BY DEF Stored
  <2> HIDE DEF Spannable
  <2> QED  BY Zenon, <2>1, <2>2, <2>3
<1> QED  BY Zenon, <1>1, <1>2, <1>3, <1>4

LEMMA CommandsStep == ASSUME commands \in Nat, [Next]_vars PROVE commands' \in Nat
PROOF
<1>1. ReadCertificate \/ Prove \/ ReadObjects \/ ReadBiometrics \/ UNCHANGED commands
  BY Zenon DEF Next, vars, Done, Help, ReadArgument, Protect, LoadKey, LoadContent, LoadRoot, PublishList,
       Start, OpenReader, InitLink, BuildPath, CheckCancellation, PrepareCrls, ValidateChuid,
       ValidateSecurity, ValidateBiometrics, Finish, Recheck, FinalPath, CheckRevocation, Cleanup
<1>2. CASE ReadCertificate
  BY <1>2 DEF ReadCertificate, Reach
<1>3. CASE Prove
  BY <1>3 DEF Prove, Reach
<1>4. CASE ReadObjects
  BY <1>4 DEF ReadObjects, Reach
<1>5. CASE ReadBiometrics
  BY <1>5 DEF ReadBiometrics, Reach
<1> QED  BY <1>1, <1>2, <1>3, <1>4, <1>5

LEMMA HeldStep ==
  ASSUME held \subseteq Cleared \cup Released, unreleased \subseteq Released, [Next]_vars
  PROVE  held' \subseteq Cleared \cup Released /\ unreleased' \subseteq Released
PROOF
<1> USE DEF Cleared, Released
<1>1. \/ Protect \/ LoadKey \/ LoadContent \/ PublishList \/ OpenReader \/ InitLink \/ ReadCertificate
      \/ ReadObjects \/ PrepareCrls \/ Cleanup \/ UNCHANGED <<held, unreleased>>
  BY Zenon DEF Next, vars, Done, Help, ReadArgument, LoadRoot, Start, BuildPath, CheckCancellation, Prove,
       ValidateChuid, ValidateSecurity, ReadBiometrics, ValidateBiometrics, Finish, Recheck, FinalPath,
       CheckRevocation
<1>2. CASE Protect
  BY Zenon, <1>2 DEF Protect, Handles
<1>3. CASE LoadKey
  BY <1>3 DEF LoadKey, Handles
<1>4. CASE LoadContent
  BY <1>4 DEF LoadContent, Handles
<1>5. CASE PublishList
  BY <1>5 DEF PublishList, Handles
<1>6. CASE OpenReader
  BY Zenon, <1>6 DEF OpenReader, Handles
<1>7. CASE InitLink
  BY <1>7 DEF InitLink, Handles
<1>8. CASE ReadCertificate
  BY <1>8 DEF ReadCertificate, Handles
<1>9. CASE ReadObjects
  BY Zenon, <1>9 DEF ReadObjects, Handles
<1>10. CASE PrepareCrls
  BY Zenon, <1>10 DEF PrepareCrls, Handles
<1>11. CASE Cleanup
  BY <1>11 DEF Cleanup, Handles
<1> QED  BY Zenon, <1>1, <1>2, <1>3, <1>4, <1>5, <1>6, <1>7, <1>8, <1>9, <1>10, <1>11

LEMMA ProvedStep ==
  ASSUME proved \in BOOLEAN, prepared \in BOOLEAN, [Next]_vars
  PROVE  proved' \in BOOLEAN /\ prepared' \in BOOLEAN
PROOF
<1>1. Prove \/ PrepareCrls \/ UNCHANGED <<proved, prepared>>
  BY Zenon DEF Next, vars, Done, Help, ReadArgument, Protect, LoadKey, LoadContent, LoadRoot, PublishList,
       Start, OpenReader, InitLink, ReadCertificate, BuildPath, CheckCancellation, ReadObjects,
       ValidateChuid, ValidateSecurity, ReadBiometrics, ValidateBiometrics, Finish, Recheck, FinalPath,
       CheckRevocation, Cleanup
<1>2. CASE Prove
  BY Zenon, <1>2 DEF Prove
<1>3. CASE PrepareCrls
  BY Zenon, <1>3 DEF PrepareCrls
<1> QED  BY <1>1, <1>2, <1>3

LEMMA TypeStep == ASSUME TypeOK, [Next]_vars PROVE TypeOK'
PROOF
<1>1. CardType'
  BY KeptStep, CommandsStep, HeldStep, ProvedStep DEF TypeOK, CardType
<1> QED  BY <1>1, OptionsTypeStep, ProgressTypeStep DEF TypeOK
\* Before the options are read and after the end, nothing but reading options
\* can happen.
LEMMA Outside ==
  ASSUME [Next]_vars, pc \in {"arguments", "exit"} PROVE Help \/ ReadArgument \/ Protect \/ UNCHANGED vars
PROOF
<1>1. ASSUME Next PROVE Help \/ ReadArgument \/ Protect \/ Done
  BY Zenon, <1>1 DEF Next, Step, ObjectStep, LoadKey, LoadContent, LoadRoot, PublishList, Start, OpenReader,
       InitLink, ReadCertificate, BuildPath, CheckCancellation, Prove, ReadObjects, PrepareCrls,
       ValidateChuid, ValidateSecurity, ReadBiometrics, ValidateBiometrics, Finish, Recheck, FinalPath,
       CheckRevocation, Cleanup
<1> QED  BY <1>1 DEF Done

\* Where the options are not yet all read, nothing else has begun.
LEMMA OptionsReadStep == ASSUME TypeOK, OptionsRead, Flow, [Next]_vars PROVE OptionsRead'
PROOF
<1>1. CASE ReadArgument
  <2> DEFINE a == arguments[next]
  <2>1. arguments \in Seq([option : STRING, value : Int]) /\ next \in 1 .. Len(arguments)
    BY <1>1, ConstantTypes DEF ReadArgument, TypeOK, OptionsType
  <2>2. pc = "arguments" /\ ~accepted /\ ~accepted' /\ UNCHANGED arguments /\ pc' \in {"arguments", "exit"}
    BY <1>1 DEF ReadArgument, Flow, Leave, ObjectPhases, Ending
  <2>3. CASE UNCHANGED <<options, next>>
    BY <2>2, <2>3 DEF OptionsRead
  <2>4. CASE ~Refused(a) /\ options' = Taken(a) /\ next' = next + 1
    <3> HIDE DEF a
    <3>1. options'.given = options.given \cup {a.option} /\ (a.option \notin Lists => a.option \notin options.given)
      BY <2>4 DEF Refused, Taken
    <3>2. \A o \in options'.given : \E j \in 1 .. next' - 1 : arguments'[j].option = o
      <4> SUFFICES ASSUME NEW o \in options'.given
                   PROVE  \E j \in 1 .. next' - 1 : arguments[j].option = o
        BY <2>2
      <4>1. CASE o \in options.given
        BY <2>1, <2>4, <4>1 DEF OptionsRead
      <4>2. CASE o = a.option
        BY <2>1, <2>4, <4>2 DEF a
      <4> QED  BY <3>1, <4>1, <4>2
    <3>3. ASSUME NEW j \in 1 .. next' - 1
          PROVE  /\ arguments'[j].option \in options'.given
                 /\ arguments'[j].option = "marsec-level" => options'.level = arguments'[j].value
                 /\ arguments'[j].option = "minimum-publication" => options'.floor = arguments'[j].value
      <4>1. CASE j = next
        <5>1. arguments'[j] = a
          BY <2>2, <4>1 DEF a
        <5> QED  BY <2>4, <3>1, <5>1 DEF Taken
      <4>2. CASE j \in 1 .. next - 1
        <5>1. arguments'[j].option \in options.given /\ arguments'[j] = arguments[j]
          BY <2>2, <4>2 DEF OptionsRead
        <5>2. arguments[j].option = "marsec-level" => a.option # "marsec-level"
          BY <3>1, <5>1 DEF Lists
        <5>3. arguments[j].option = "minimum-publication" => a.option # "minimum-publication"
          BY <3>1, <5>1 DEF Lists
        <5> QED  BY <2>4, <3>1, <4>2, <5>1, <5>2, <5>3 DEF Taken, OptionsRead
      <4> QED  BY <2>1, <2>4, <4>1, <4>2
    <3> QED  BY <2>2, <3>2, <3>3 DEF OptionsRead
  <2> QED  BY <1>1, <2>3, <2>4 DEF ReadArgument
<1>2. CASE UNCHANGED conf
  <2>1. (pc' \notin {"arguments", "exit"} \/ accepted' => next = Len(arguments) + 1 /\ Coherent) => OptionsRead'
    BY <1>2 DEF OptionsRead, Coherent, Content, Given
  <2>2. CASE pc' \in {"arguments", "exit"} /\ ~accepted'
    BY <2>1, <2>2
  <2>3. CASE Protect
    <3>1. arguments \in Seq([option : STRING, value : Int]) /\ next \in 1 .. Len(arguments) + 1
      BY ConstantTypes DEF TypeOK, OptionsType
    <3>2. next > Len(arguments) /\ (pc' = "exit" \/ Coherent) /\ pc = "arguments" /\ UNCHANGED accepted
      BY <2>3 DEF Protect, Leave
    <3>3. next = Len(arguments) + 1 /\ ~accepted
      BY <3>1, <3>2 DEF Flow, ObjectPhases, Ending
    <3> QED  BY <2>1, <2>2, <3>2, <3>3
  <2>4. CASE pc \notin {"arguments", "exit"} \/ accepted
    BY <2>1, <2>4 DEF OptionsRead
  <2>5. CASE pc \in {"arguments", "exit"} /\ ~accepted
    <3>1. Protect \/ (pc' \in {"arguments", "exit"} /\ UNCHANGED accepted)
      BY Zenon, <2>5, Outside DEF vars, Help, ReadArgument, Leave
    <3> QED  BY <2>2, <2>3, <2>5, <3>1
  <2> QED  BY <2>4, <2>5, Zenon
<1> QED  BY <1>1, <1>2, OptionsKept

\* The program accepts in its second pass, and reports at its end.
LEMMA FlowStep == ASSUME TypeOK, Flow, [Next]_vars PROVE Flow'
PROOF
<1> USE DEF Flow, FinalPhases, ObjectPhases, Ending, TypeOK, ProgressType
<1>0. CASE UNCHANGED vars \/ Done
  <2>1. UNCHANGED <<pc, pass, accepted, code>>
    BY Zenon, <1>0 DEF vars, Done
  <2> QED  BY Zenon, <2>1
<1>1. CASE Help
  BY Zenon, <1>1 DEF Help, Step, ObjectStep, Leave, AfterObjects
<1>2. CASE ReadArgument
  BY Zenon, <1>2 DEF ReadArgument, Step, ObjectStep, Leave, AfterObjects
<1>3. CASE Protect
  BY Zenon, <1>3 DEF Protect, Step, ObjectStep, Leave, AfterObjects
<1>4. CASE LoadKey
  BY Zenon, <1>4 DEF LoadKey, Step, ObjectStep, Leave, AfterObjects
<1>5. CASE LoadContent
  BY Zenon, <1>5 DEF LoadContent, Step, ObjectStep, Leave, AfterObjects
<1>6. CASE LoadRoot
  BY Zenon, <1>6 DEF LoadRoot, Step, ObjectStep, Leave, AfterObjects
<1>7. CASE PublishList
  BY Zenon, <1>7 DEF PublishList, Step, ObjectStep, Leave, AfterObjects
<1>8. CASE Start
  BY Zenon, <1>8 DEF Start, Step, ObjectStep, Leave, AfterObjects
<1>9. CASE OpenReader
  BY Zenon, <1>9 DEF OpenReader, Step, ObjectStep, Leave, AfterObjects
<1>10. CASE InitLink
  BY Zenon, <1>10 DEF InitLink, Step, ObjectStep, Leave, AfterObjects
<1>11. CASE ReadCertificate
  BY Zenon, <1>11 DEF ReadCertificate, Step, ObjectStep, Leave, AfterObjects
<1>12. CASE BuildPath
  BY Zenon, <1>12 DEF BuildPath, Step, ObjectStep, Leave, AfterObjects
<1>13. CASE CheckCancellation
  BY Zenon, <1>13 DEF CheckCancellation, Step, ObjectStep, Leave, AfterObjects
<1>14. CASE Prove
  BY Zenon, <1>14 DEF Prove, Step, ObjectStep, Leave, AfterObjects
<1>15. CASE ReadObjects
  BY Zenon, <1>15 DEF ReadObjects, Step, ObjectStep, Leave, AfterObjects
<1>16. CASE PrepareCrls
  BY Zenon, <1>16 DEF PrepareCrls, Step, ObjectStep, Leave, AfterObjects
<1>17. CASE ValidateChuid
  <2>1. pc = "chuid" /\ UNCHANGED <<pass, code>>
    BY Zenon, <1>17 DEF ValidateChuid, ObjectStep
  <2>2. (pc' = "security" /\ UNCHANGED accepted) \/ (pc' = "cleanup" /\ accepted' = FALSE)
    BY Zenon, <1>17 DEF ValidateChuid, ObjectStep
  <2>3. code = "none" /\ (accepted <=> pass = 2)
    BY Zenon, <2>1
  <2>4. CASE pc' = "security" /\ UNCHANGED accepted
    BY <2>1, <2>3, <2>4 DEF AfterObjects
  <2>5. CASE pc' = "cleanup" /\ accepted' = FALSE
    BY <2>1, <2>3, <2>5
  <2> QED  BY <2>2, <2>4, <2>5, Zenon
<1>18. CASE ValidateSecurity
  BY Zenon, <1>18 DEF ValidateSecurity, Step, ObjectStep, Leave, AfterObjects
<1>19. CASE ReadBiometrics
  BY Zenon, <1>19 DEF ReadBiometrics, Step, ObjectStep, Leave, AfterObjects
<1>20. CASE ValidateBiometrics
  <2>1. pc = "signatures" /\ UNCHANGED <<pass, code>>
    BY Zenon, <1>20 DEF ValidateBiometrics, ObjectStep
  <2>2. (pc' = AfterObjects /\ UNCHANGED accepted) \/ (pc' = "cleanup" /\ accepted' = FALSE)
    BY Zenon, <1>20 DEF ValidateBiometrics, ObjectStep
  <2>3. code = "none" /\ (accepted <=> pass = 2)
    BY Zenon, <2>1
  <2>4. CASE pc' = AfterObjects /\ UNCHANGED accepted
    BY <2>1, <2>3, <2>4 DEF AfterObjects
  <2>5. CASE pc' = "cleanup" /\ accepted' = FALSE
    BY <2>1, <2>3, <2>5
  <2> QED  BY <2>2, <2>4, <2>5, Zenon
<1>21. CASE Finish
  BY Zenon, <1>21 DEF Finish, Step, ObjectStep, Leave, AfterObjects
<1>22. CASE Recheck
  BY Zenon, <1>22 DEF Recheck, Step, ObjectStep, Leave, AfterObjects
<1>23. CASE FinalPath
  BY Zenon, <1>23 DEF FinalPath, Step, ObjectStep, Leave, AfterObjects
<1>24. CASE CheckRevocation
  BY Zenon, <1>24 DEF CheckRevocation, Step, ObjectStep, Leave, AfterObjects
<1>25. CASE Cleanup
  BY Zenon, <1>25 DEF Cleanup, Step, ObjectStep, Leave, AfterObjects
<1> QED  BY Zenon, <1>0, <1>1, <1>2, <1>3, <1>4, <1>5, <1>6, <1>7, <1>8, <1>9, <1>10, <1>11, <1>12, <1>13,
              <1>14, <1>15, <1>16, <1>17, <1>18, <1>19, <1>20, <1>21, <1>22, <1>23, <1>24, <1>25 DEF Next

\* Nothing is held where nothing has been taken or all has been given back; a
\* loss while the reader is opened, or in cleanup, ends the run in failure.
LEMMA HoldingStep == ASSUME TypeOK, Flow, Holding, [Next]_vars PROVE Holding'
PROOF
<1> USE DEF Holding, Flow, Ending
<1>0. CASE UNCHANGED vars \/ Done
  <2>1. UNCHANGED <<pc, held, unreleased, accepted>>
    BY <1>0 DEF vars, Done
  <2> QED  BY Zenon, <2>1
<1>1. CASE Help
  BY Zenon, <1>1 DEF Help, Step, ObjectStep, Leave, AfterObjects
<1>2. CASE ReadArgument
  BY <1>2 DEF ReadArgument, Step, ObjectStep, Leave, AfterObjects
<1>3. CASE Protect
  BY <1>3 DEF Protect, Step, ObjectStep, Leave, AfterObjects
<1>4. CASE LoadKey
  BY <1>4 DEF LoadKey, Step, ObjectStep, Leave, AfterObjects
<1>5. CASE LoadContent
  BY <1>5 DEF LoadContent, Step, ObjectStep, Leave, AfterObjects
<1>6. CASE LoadRoot
  BY <1>6 DEF LoadRoot, Step, ObjectStep, Leave, AfterObjects
<1>7. CASE PublishList
  BY <1>7 DEF PublishList, Step, ObjectStep, Leave, AfterObjects
<1>8. CASE Start
  BY <1>8 DEF Start, Step, ObjectStep, Leave, AfterObjects
<1>9. CASE OpenReader
  BY Zenon, <1>9 DEF OpenReader, Step, TypeOK, ProgressType, FinalPhases, ObjectPhases
<1>10. CASE InitLink
  BY <1>10 DEF InitLink, Step, ObjectStep, Leave, AfterObjects
<1>11. CASE ReadCertificate
  BY <1>11 DEF ReadCertificate, Step, ObjectStep, Leave, AfterObjects
<1>12. CASE BuildPath
  BY <1>12 DEF BuildPath, Step, ObjectStep, Leave, AfterObjects
<1>13. CASE CheckCancellation
  BY <1>13 DEF CheckCancellation, Step, ObjectStep, Leave, AfterObjects
<1>14. CASE Prove
  BY <1>14 DEF Prove, Step, ObjectStep, Leave, AfterObjects
<1>15. CASE ReadObjects
  BY <1>15 DEF ReadObjects, Step, ObjectStep, Leave, AfterObjects
<1>16. CASE PrepareCrls
  BY <1>16 DEF PrepareCrls, Step, ObjectStep, Leave, AfterObjects
<1>17. CASE ValidateChuid
  BY <1>17 DEF ValidateChuid, Step, ObjectStep, Leave, AfterObjects
<1>18. CASE ValidateSecurity
  BY <1>18 DEF ValidateSecurity, Step, ObjectStep, Leave, AfterObjects
<1>19. CASE ReadBiometrics
  BY <1>19 DEF ReadBiometrics, Step, ObjectStep, Leave, AfterObjects
<1>20. CASE ValidateBiometrics
  BY <1>20 DEF ValidateBiometrics, Step, ObjectStep, Leave, AfterObjects
<1>21. CASE Finish
  BY <1>21 DEF Finish, Step, ObjectStep, Leave, AfterObjects
<1>22. CASE Recheck
  BY <1>22 DEF Recheck, Step, ObjectStep, Leave, AfterObjects
<1>23. CASE FinalPath
  BY <1>23 DEF FinalPath, Step, ObjectStep, Leave, AfterObjects
<1>24. CASE CheckRevocation
  BY <1>24 DEF CheckRevocation, Step, ObjectStep, Leave, AfterObjects
<1>25. CASE Cleanup
  BY Zenon, <1>25 DEF Cleanup, Leave, TypeOK, CardType
<1> QED  BY <1>0, <1>1, <1>2, <1>3, <1>4, <1>5, <1>6, <1>7, <1>8, <1>9, <1>10, <1>11, <1>12, <1>13, <1>14,
              <1>15, <1>16, <1>17, <1>18, <1>19, <1>20, <1>21, <1>22, <1>23, <1>24, <1>25 DEF Next
\* Once a phase has been reached, what the phases before it retained is there.
LEMMA RetainedStep == ASSUME TypeOK, OptionsRead, Flow, Retained, [Next]_vars PROVE Retained'
PROOF
<1> USE DEF Retained, Flow, FinalPhases, ObjectPhases, Ending, Content, Given, Biometrics
<1>0. CASE UNCHANGED vars \/ Done
  BY <1>0 DEF vars, Done
<1>1. CASE Help
  BY Zenon, <1>1 DEF Help, Step, ObjectStep, Leave, AfterObjects, Spans, Missing
<1>2. CASE ReadArgument
  BY <1>2 DEF ReadArgument, Step, ObjectStep, Leave, AfterObjects, Spans, Missing
<1>3. CASE Protect
  BY <1>3 DEF Protect, Step, ObjectStep, Leave, AfterObjects, Spans, Missing
<1>4. CASE LoadKey
  BY <1>4 DEF LoadKey, Step, ObjectStep, Leave, AfterObjects, Spans, Missing
<1>5. CASE LoadContent
  BY <1>5 DEF LoadContent, Step, ObjectStep, Leave, AfterObjects, Spans, Missing
<1>6. CASE LoadRoot
  BY <1>6 DEF LoadRoot, Step, ObjectStep, Leave, AfterObjects, Spans, Missing
<1>7. CASE PublishList
  BY <1>7 DEF PublishList, Step, ObjectStep, Leave, AfterObjects, Spans, Missing
<1>8. CASE Start
  BY <1>8 DEF Start, Step, ObjectStep, Leave, AfterObjects, Spans, Missing
<1>9. CASE OpenReader
  BY <1>9 DEF OpenReader, Step, ObjectStep, Leave, AfterObjects, Spans, Missing
<1>10. CASE InitLink
  BY <1>10 DEF InitLink, Step, ObjectStep, Leave, AfterObjects, Spans, Missing
<1>11. CASE ReadCertificate
  BY <1>11 DEF ReadCertificate, Step, ObjectStep, Leave, AfterObjects, Spans, Missing
<1>12. CASE BuildPath
  BY <1>12 DEF BuildPath, Step, ObjectStep, Leave, AfterObjects, Spans, Missing
<1>13. CASE CheckCancellation
  BY <1>13 DEF CheckCancellation, Step, ObjectStep, Leave, AfterObjects, Spans, Missing
<1>14. CASE Prove
  BY Zenon, <1>14 DEF Prove, Step, ObjectStep, Leave, AfterObjects, Spans, Missing
<1>15. CASE ReadObjects
  <2>1. pc = "objects" /\ Coherent /\ proved /\ UNCHANGED <<conf, pass, proved, prepared>>
    BY <1>15 DEF ReadObjects, OptionsRead, ObjectStep
  <2>2. CASE ~Content
    <3>1. pc' = AfterObjects /\ UNCHANGED kept /\ ~Given("tpk-hex")
      BY <1>15, <2>1, <2>2 DEF ReadObjects, Coherent
    <3> QED  BY <2>1, <2>2, <3>1 DEF AfterObjects
  <2>3. CASE Content
    <3>1. pc' = "cleanup" \/ (pc' = "crls" /\ "chuid" \in kept' /\ kept \subseteq kept')
      BY <1>15, <2>3 DEF ReadObjects, ObjectStep, Spans
    <3> QED  BY <2>1, <3>1
  <2> QED  BY <2>2, <2>3
<1>16. CASE PrepareCrls
  BY Zenon, <1>16 DEF PrepareCrls, Step, ObjectStep, Leave, AfterObjects, Spans, Missing
<1>17. CASE ValidateChuid
  BY <1>17 DEF ValidateChuid, Step, ObjectStep, Leave, AfterObjects, Spans, Missing
<1>18. CASE ValidateSecurity
  BY <1>18 DEF ValidateSecurity, Step, ObjectStep, Leave, AfterObjects, Spans, Missing
<1>19. CASE ReadBiometrics
  BY <1>19 DEF ReadBiometrics, Step, ObjectStep, Leave, AfterObjects, Spans, Missing
<1>20. CASE ValidateBiometrics
  BY <1>20 DEF ValidateBiometrics, Step, ObjectStep, Leave, AfterObjects, Spans, Missing
<1>21. CASE Finish
  BY <1>21 DEF Finish, Step, ObjectStep, Leave, AfterObjects, Spans, Missing
<1>22. CASE Recheck
  BY <1>22 DEF Recheck, Step, ObjectStep, Leave, AfterObjects, Spans, Missing
<1>23. CASE FinalPath
  BY <1>23 DEF FinalPath, Step, ObjectStep, Leave, AfterObjects, Spans, Missing
<1>24. CASE CheckRevocation
  BY <1>24 DEF CheckRevocation, Step, ObjectStep, Leave, AfterObjects, Spans, Missing
<1>25. CASE Cleanup
  BY <1>25 DEF Cleanup, Step, ObjectStep, Leave, AfterObjects, Spans, Missing
<1> QED  BY Zenon, <1>0, <1>1, <1>2, <1>3, <1>4, <1>5, <1>6, <1>7, <1>8, <1>9, <1>10, <1>11, <1>12, <1>13,
              <1>14, <1>15, <1>16, <1>17, <1>18, <1>19, <1>20, <1>21, <1>22, <1>23, <1>24, <1>25 DEF Next

\* Each decision of the second pass is made at the time of that pass, which
\* does not change any more.
LEMMA DecidedStep == ASSUME TypeOK, Flow, Retained, OptionsRead, Decided, [Next]_vars PROVE Decided'
PROOF
<1> USE DEF Decided, Flow, FinalPhases, ObjectPhases, Ending, Content, Given, Biometrics
<1>0. CASE UNCHANGED vars \/ Done
  <2>1. UNCHANGED <<conf, pc, times, proved, accepted>>
    BY <1>0 DEF vars, Done
  <2> QED  BY <2>1 DEF Current, InTime, Fresh
<1>1. CASE Help
  BY Zenon, <1>1 DEF Help, Step, ObjectStep, Leave, AfterObjects, NotCancelled, Current, InTime, Fresh
<1>2. CASE ReadArgument
  BY <1>2 DEF ReadArgument, Step, ObjectStep, Leave, AfterObjects, NotCancelled, Current, InTime, Fresh
<1>3. CASE Protect
  BY <1>3 DEF Protect, Step, ObjectStep, Leave, AfterObjects, NotCancelled, Current, InTime, Fresh
<1>4. CASE LoadKey
  BY <1>4 DEF LoadKey, Step, ObjectStep, Leave, AfterObjects, NotCancelled, Current, InTime, Fresh
<1>5. CASE LoadContent
  BY <1>5 DEF LoadContent, Step, ObjectStep, Leave, AfterObjects, NotCancelled, Current, InTime, Fresh
<1>6. CASE LoadRoot
  BY <1>6 DEF LoadRoot, Step, ObjectStep, Leave, AfterObjects, NotCancelled, Current, InTime, Fresh
<1>7. CASE PublishList
  BY <1>7 DEF PublishList, Step, ObjectStep, Leave, AfterObjects, NotCancelled, Current, InTime, Fresh
<1>8. CASE Start
  BY <1>8 DEF Start, Step, ObjectStep, Leave, AfterObjects, NotCancelled, Current, InTime, Fresh
<1>9. CASE OpenReader
  BY <1>9 DEF OpenReader, Step, ObjectStep, Leave, AfterObjects, NotCancelled, Current, InTime, Fresh
<1>10. CASE InitLink
  BY <1>10 DEF InitLink, Step, ObjectStep, Leave, AfterObjects, NotCancelled, Current, InTime, Fresh
<1>11. CASE ReadCertificate
  BY <1>11 DEF ReadCertificate, Step, ObjectStep, Leave, AfterObjects, NotCancelled, Current, InTime, Fresh
<1>12. CASE BuildPath
  BY <1>12 DEF BuildPath, Step, ObjectStep, Leave, AfterObjects, NotCancelled, Current, InTime, Fresh
<1>13. CASE CheckCancellation
  BY <1>13 DEF CheckCancellation, Step, ObjectStep, Leave, AfterObjects, NotCancelled, Current, InTime, Fresh
<1>14. CASE Prove
  BY <1>14 DEF Prove, Step, ObjectStep, Leave, AfterObjects, NotCancelled, Current, InTime, Fresh
<1>15. CASE ReadObjects
  <2>1. pc = "objects" /\ Coherent /\ UNCHANGED <<conf, times, proved>>
    BY <1>15 DEF ReadObjects, OptionsRead, ObjectStep
  <2>2. CASE ~Content
    <3>1. pc' \in {"finish", "cleanup"} /\ UNCHANGED accepted
      BY <1>15, <2>2 DEF ReadObjects, AfterObjects
    <3>2. ~Given("security-object") /\ ~Given("printed-plaintext") /\ ~Given("tpk-hex")
      BY <2>1, <2>2 DEF Coherent
    <3> QED  BY <2>1, <2>2, <3>1, <3>2 DEF Current, InTime, Fresh
  <2>3. CASE Content
    <3>1. (pc' = "crls" /\ UNCHANGED accepted) \/ (pc' = "cleanup" /\ ~accepted')
      BY <1>15, <2>3 DEF ReadObjects, ObjectStep
    <3> QED  BY <2>1, <3>1 DEF Current, InTime, Fresh
  <2> QED  BY <2>2, <2>3
<1>16. CASE PrepareCrls
  BY <1>16 DEF PrepareCrls, Step, ObjectStep, Leave, AfterObjects, NotCancelled, Current, InTime, Fresh
<1>17. CASE ValidateChuid
  BY <1>17 DEF ValidateChuid, Step, ObjectStep, Leave, AfterObjects, NotCancelled, Current, InTime, Fresh
<1>18. CASE ValidateSecurity
  <2>1. pc = "security" /\ Coherent /\ UNCHANGED <<conf, times, proved>>
    BY Zenon, <1>18 DEF ValidateSecurity, OptionsRead, ObjectStep
  <2>2. CASE ~Given("security-object")
    <3>1. pc' = "biometrics" /\ UNCHANGED accepted /\ ~Given("printed-plaintext")
      BY <1>18, <2>1, <2>2 DEF ValidateSecurity, Coherent
    <3> QED  BY <2>1, <2>2, <3>1 DEF Current, InTime, Fresh
  <2>3. CASE Given("security-object")
    <3>1. \/ /\ pc' = "biometrics" /\ UNCHANGED accepted /\ Current("security") /\ Current("unsigned")
             /\ Given("printed-plaintext") => Current("printed")
          \/ pc' = "cleanup" /\ ~accepted'
      BY <1>18, <2>3 DEF ValidateSecurity, ObjectStep
    <3> QED  BY <2>1, <3>1 DEF Current, InTime, Fresh
  <2> QED  BY <2>2, <2>3
<1>19. CASE ReadBiometrics
  BY <1>19 DEF ReadBiometrics, Step, ObjectStep, Leave, AfterObjects, NotCancelled, Current, InTime, Fresh
<1>20. CASE ValidateBiometrics
  <2>1. pc = "signatures" /\ UNCHANGED <<conf, times, proved>>
    BY Zenon, <1>20 DEF ValidateBiometrics, ObjectStep
  <2>2. \/ pc' = AfterObjects /\ UNCHANGED accepted /\ \A o \in Biometrics : Current(o)
        \/ pc' = "cleanup" /\ ~accepted'
    BY Zenon, <1>20 DEF ValidateBiometrics, ObjectStep
  <2>3. accepted => AfterObjects = "cleanup"
    BY DEF AfterObjects
  <2>4. ~accepted' \/ (pc' = "cleanup" /\ accepted /\ accepted' /\ \A o \in Biometrics : Current(o))
    BY Zenon, <2>2, <2>3 DEF TypeOK, ProgressType
  <2>5. CASE ~accepted'
    <3>1. pc' \in {"finish", "cleanup"}
      BY <2>2 DEF AfterObjects
    <3> QED  BY <2>5, <3>1
  <2>6. CASE pc' = "cleanup" /\ accepted /\ accepted' /\ \A o \in Biometrics : Current(o)
    BY <2>1, <2>6 DEF Current, InTime, Fresh
  <2> QED  BY <2>4, <2>5, <2>6
<1>21. CASE Finish
  BY <1>21 DEF Finish, Step, ObjectStep, Leave, AfterObjects, NotCancelled, Current, InTime, Fresh
<1>22. CASE Recheck
  BY <1>22 DEF Recheck, Step, ObjectStep, Leave, AfterObjects, NotCancelled, Current, InTime, Fresh
<1>23. CASE FinalPath
  <2>1. pc = "final" /\ UNCHANGED <<conf, times, proved>> /\ proved
    BY <1>23 DEF FinalPath, Step, Retained
  <2>2. (pc' = "revocation" /\ Current("path")) \/ (pc' = "cleanup" /\ ~accepted')
    BY Zenon, <1>23 DEF FinalPath, Step
  <2> QED  BY <2>1, <2>2 DEF Current, InTime, Fresh
<1>24. CASE CheckRevocation
  <2>1. pc = "revocation" /\ pass = 2 /\ UNCHANGED <<conf, times, proved>>
    BY Zenon, <1>24 DEF CheckRevocation, ObjectStep, TypeOK, ProgressType
  <2>2. CASE ~prepared
    <3>1. pc' = "objects" /\ UNCHANGED accepted /\ ~Content
      BY <1>24, <2>1, <2>2 DEF CheckRevocation, Retained
    <3> QED  BY <2>1, <3>1 DEF Current, InTime, Fresh
  <2>3. CASE prepared
    <3>1. (pc' = "objects" /\ UNCHANGED accepted /\ Current("revocation")) \/ (pc' = "cleanup" /\ ~accepted')
      BY <1>24, <2>3 DEF CheckRevocation, ObjectStep
    <3> QED  BY Zenon, <2>1, <3>1 DEF Current, InTime, Fresh
  <2> QED  BY <2>2, <2>3
<1>25. CASE Cleanup
  BY Zenon, <1>25 DEF Cleanup, Step, ObjectStep, Leave, AfterObjects, NotCancelled, Current, InTime, Fresh
<1> QED  BY Zenon, <1>0, <1>1, <1>2, <1>3, <1>4, <1>5, <1>6, <1>7, <1>8, <1>9, <1>10, <1>11, <1>12, <1>13,
              <1>14, <1>15, <1>16, <1>17, <1>18, <1>19, <1>20, <1>21, <1>22, <1>23, <1>24, <1>25 DEF Next
LEMMA InvInit == ASSUME Init PROVE Inv
PROOF
<1>1. OptionsType
  <2>1. arguments \in Seq([option : STRING, value : Int])
    BY ConstantTypes DEF Init
  <2>2. next \in 1 .. Len(arguments) + 1
    BY <2>1 DEF Init
  <2>3. \A o \in Lists : Room[o] \in Nat
    BY DEF Room
  <2> QED  BY <2>2, <2>3 DEF Init, OptionsType
<1>2. ProgressType
  BY Zenon, ConstantTypes DEF Init, ProgressType, Phases
<1>3. CardType
  BY Zenon DEF Init, CardType
<1>4. OptionsRead /\ Flow /\ Retained /\ Decided /\ Holding
  <2>1. /\ options.given = {} /\ next = 1 /\ pc = "arguments" /\ pass = 1 /\ accepted = FALSE
        /\ held = {} /\ unreleased = {} /\ code = "none"
    BY Zenon DEF Init
  <2>2. 1 .. next - 1 = {}
    BY <2>1
  <2>3. OptionsRead
    BY Zenon, <2>1, <2>2 DEF OptionsRead
  <2>4. /\ pass # 2 /\ code # "succeeded"
        /\ pc \notin FinalPhases \cup ObjectPhases \cup Ending \cup {"finish", "revocation", "recheck", "final"}
    BY <2>1 DEF FinalPhases, ObjectPhases, Ending
  <2>5. Flow /\ Holding
    BY Zenon, <2>1, <2>4 DEF Flow, Holding
  <2>6. Retained
    BY <2>1 DEF Retained, FinalPhases, ObjectPhases
  <2>7. Decided
    BY Zenon, <2>1 DEF Decided
  <2> QED  BY Zenon, <2>3, <2>5, <2>6, <2>7
<1> QED  BY <1>1, <1>2, <1>3, <1>4 DEF Inv, TypeOK

LEMMA InvStep == ASSUME Inv, [Next]_vars PROVE Inv'
PROOF BY TypeStep, OptionsReadStep, FlowStep, RetainedStep, DecidedStep, HoldingStep DEF Inv

\* What the program has decided is what the command line asked: of the options
\* (Asked) rather than of what was read of them (Given).
LEMMA InvGrants == ASSUME Inv PROVE Granted
PROOF
<1> SUFFICES ASSUME code = "succeeded" PROVE Granted
  BY DEF Granted
<1> USE DEF Inv
<1>1. accepted /\ pc = "exit"
  BY DEF Flow
<1>2. next = Len(arguments) + 1 /\ Coherent
  BY <1>1 DEF OptionsRead
<1>3. arguments \in Seq([option : STRING, value : Int])
  BY ConstantTypes DEF TypeOK, OptionsType
<1>4. ASSUME NEW i \in 1 .. Len(arguments)
      PROVE  /\ Given(arguments[i].option)
             /\ arguments[i].option = "marsec-level" => options.level = arguments[i].value
             /\ arguments[i].option = "minimum-publication" => options.floor = arguments[i].value
  BY <1>2, <1>3 DEF OptionsRead, Given
<1>5. \A o : Asked(o) => Given(o)
  BY <1>4 DEF Asked
<1>6. InTime(at) /\ Fresh(at) /\ proved /\ ~inputs.cancelled
  BY <1>1 DEF Decided
<1>7. \A item \in Demanded : at <= inputs.until[item]
  <2>1. Current("path")
    BY <1>1 DEF Decided
  <2>2. Asked("chuid-root") => Current("revocation") /\ Current("chuid")
    BY <1>1, <1>5 DEF Decided, Content, Ending
  <2>3. Asked("security-object") => Current("security") /\ Current("unsigned")
    BY <1>1, <1>5 DEF Decided, Ending
  <2>4. Asked("printed-plaintext") => Current("printed")
    BY <1>1, <1>5 DEF Decided, Ending
  <2>5. Asked("tpk-hex") => \A o \in Biometrics : Current(o)
    BY <1>1, <1>5 DEF Decided, Ending
  <2> QED  BY <2>1, <2>2, <2>3, <2>4, <2>5 DEF Demanded, Current
<1>8. at \in Nat /\ started \in Nat /\ inputs.created \in Int /\ options.level \in 1 .. 3
  BY ConstantTypes DEF TypeOK, ProgressType, OptionsType
<1>9. at - inputs.created <= 7 * Day /\ (options.level # 1 => at - inputs.created <= Day)
  BY <1>6, <1>8, ConstantTypes DEF Fresh, MaxAge
<1> QED  BY <1>4, <1>6, <1>7, <1>8, <1>9 DEF Granted, InTime, Fresh

LEMMA InvHandsBack == ASSUME Inv PROVE HandedBack
PROOF BY DEF Inv, Holding, Flow, HandedBack

\* In the second pass every object is at hand.
LEMMA OfflineStep == ASSUME Inv, [Next]_vars, pass = 2 PROVE commands' = commands
PROOF
<1> USE DEF Inv, Flow, FinalPhases, ObjectPhases, Ending
<1>1. CASE ReadCertificate
  BY <1>1 DEF ReadCertificate, Step
<1>2. CASE Prove
  BY <1>2 DEF Prove, Step
<1>3. CASE ReadObjects
  <2>1. CASE ~Content
    BY <1>3, <2>1 DEF ReadObjects
  <2>2. CASE Content
    <3>1. "chuid" \in kept
      BY <1>3, <2>2 DEF ReadObjects, ObjectStep, Retained
    <3> QED  BY <1>3, <2>2, <3>1 DEF ReadObjects
  <2> QED  BY <2>1, <2>2
<1>4. CASE ReadBiometrics
  <2>1. CASE ~Given("tpk-hex")
    BY <1>4, <2>1 DEF ReadBiometrics
  <2>2. CASE Given("tpk-hex")
    <3>1. Biometrics \subseteq kept
      BY <1>4, <2>2 DEF ReadBiometrics, ObjectStep, Retained
    <3>2. Fetched = {}
      BY <3>1 DEF Fetched, Missing
    <3> QED  BY <1>4, <2>2, <3>2 DEF ReadBiometrics
  <2> QED  BY <2>1, <2>2
<1> QED  BY Zenon, <1>1, <1>2, <1>3, <1>4 DEF Next, vars, Done, Help, ReadArgument, Protect, LoadKey,
              LoadContent, LoadRoot, PublishList, Start, OpenReader, InitLink, BuildPath, CheckCancellation,
              PrepareCrls, ValidateChuid, ValidateSecurity, ValidateBiometrics, Finish, Recheck, FinalPath,
              CheckRevocation, Cleanup

LEMMA ReaderInvariant == Spec => []Inv
PROOF
<1>1. Inv /\ [Next]_vars => Inv'
  BY InvStep
<1> QED  BY <1>1, InvInit, PTL DEF Spec

\* The reader program reports success only for a card that has answered the
\* challenge, is not cancelled, and is good in everything that the command line
\* asks about at the last reading of the clock: for every command line, card,
\* clock and budget, and whichever calls fail.
THEOREM SuccessIsGranted == Spec => []Granted
PROOF
<1>1. Inv => Granted
  BY InvGrants
<1> QED  BY <1>1, ReaderInvariant, PTL

\* However it ends, it holds nothing any more, and success is not reported when
\* a release failed.
THEOREM EndHandsBack == Spec => []HandedBack
PROOF
<1>1. Inv => HandedBack
  BY InvHandsBack
<1> QED  BY <1>1, ReaderInvariant, PTL

\* The types hold and the budget is never overdrawn.
THEOREM ReaderTyped == Spec => []TypeOK
PROOF
<1>1. Inv => TypeOK
  BY DEF Inv
<1> QED  BY <1>1, ReaderInvariant, PTL

\* After the second reading of the clock no command goes to the card: the
\* decision is about what was read before.
THEOREM SecondPassOffline == Spec => DecidedOffline
PROOF
<1>1. Inv /\ [Next]_vars => [pass = 2 => commands' = commands]_vars
  BY OfflineStep
<1> QED  BY <1>1, ReaderInvariant, PTL DEF Spec, DecidedOffline

=============================================================================
