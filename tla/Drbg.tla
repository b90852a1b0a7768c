-------------------------------- MODULE Drbg --------------------------------
(***************************************************************************)
(* The SP 800-90A envelope (drbg.c) over any of the three mechanisms, and  *)
(* the random source other parts of the library draw from (drbg_random.c). *)
(* A mechanism's working state is abstracted to the seed it descends from  *)
(* and the number of requests answered since, and is torn when a primitive *)
(* fails inside it: what a torn state would produce is not known.          *)
(***************************************************************************)
EXTENDS Integers, Sequences, TLAPS

CONSTANTS
  Intervals,     \* reseed intervals a caller configures
  MaxChunks,     \* longest TC_DRBG_random request, in maximum-size requests
  MaxSeeds       \* bound on the entropy inputs drawn in one behaviour

ASSUME Constants ==
  Intervals \subseteq Nat \ {0} /\ MaxChunks \in Nat \ {0} /\ MaxSeeds \in Nat

VARIABLES
  drbg,        \* TC_DRBG
  seeds,       \* entropy inputs drawn so far
  fill,        \* the TC_DRBG_random call in progress: chunks to go
  output,      \* the buffer of the last call, one entry for each maximum-size request
  result,      \* what the last call returned
  issued       \* every output handed to a caller: its state and its terms

vars == <<drbg, seeds, fill, output, result, issued>>

Fresh(seed) == [seed |-> seed, step |-> 0, torn |-> FALSE]

\* TC_DRBG_uninstantiate wipes the context.
Wiped ==
  [marker |-> FALSE, failed |-> FALSE, resistance |-> FALSE, interval |-> 0, counter |-> 0,
   state |-> Fresh(0)]

\* Mutant: a failed context is still used.
IsLiveUnfailed(d) == d.marker

\* live: instantiated and not failed.
IsLive(d) == d.marker /\ ~d.failed

\* A primitive failure leaves the working state undefined: the DRBG is
\* unusable until it is uninstantiated (record).
Torn(d) == [d EXCEPT !.failed = TRUE, !.state.torn = TRUE]

\* A result, the context it leaves and the entropy inputs it took.
After(r, d, drawn) == [result |-> r, drbg |-> d, drawn |-> drawn]

\* Mutant: the counter is reset before the entropy is there.
ReseedCountedFirst(d) ==
  {After("ENTROPY", [d EXCEPT !.counter = 1], 0), After("ERROR", Torn(d), 1),
   After("OK", [d EXCEPT !.state = Fresh(seeds + 1), !.counter = 1], 1)}

\* What reseed leaves: no entropy, a failing primitive, or a new seed.
Reseed(d) ==
  {After("ENTROPY", d, 0), After("ERROR", Torn(d), 1),
   After("OK", [d EXCEPT !.state = Fresh(seeds + 1), !.counter = 1], 1)}

\* The update of the working state behind an output.
Advanced(state) == [state EXCEPT !.step = @ + 1]

\* The generate step of a mechanism: the output, and the update behind it.
MechanismGenerate(d) ==
  {After("OK", [d EXCEPT !.state = Advanced(@), !.counter = @ + 1], 0), After("ERROR", Torn(d), 0)}

\* Mutant: prediction resistance does not reseed.
ReseedDueByCount(d, resistance) == d.counter > d.interval

\* The condition of TC_DRBG_generate for a reseed.
ReseedDue(d, resistance) == resistance \/ d.counter > d.interval

\* TC_DRBG_generate on a live DRBG.  An output is the state it comes from.
Generate(d, resistance) ==
  LET reseeded == IF ReseedDue(d, resistance) THEN Reseed(d) ELSE {After("OK", d, 0)}
      failed == {r \in reseeded : r.result # "OK"}
  IN  {[result |-> r.result, drbg |-> r.drbg, drawn |-> r.drawn, from |-> r.drbg.state] :
         r \in failed} \cup
      UNION {{[result |-> g.result, drbg |-> g.drbg, drawn |-> r.drawn, from |-> r.drbg.state] :
                g \in MechanismGenerate(r.drbg)} : r \in reseeded \ failed}

\* The bound: once MaxSeeds inputs are drawn the entropy source only fails.
Within(outcomes) == {o \in outcomes : seeds + o.drawn <= MaxSeeds}

\* A chunk of the caller's buffer: as it was, wiped, or output of the DRBG.
Chunk(holds, from) == [holds |-> holds, from |-> from]
Old == Chunk("old", Fresh(0))
Zero == Chunk("zero", Fresh(0))
Blank(chunks) == [i \in 1 .. chunks |-> Old]
Zeroed(chunks) == [i \in 1 .. chunks |-> Zero]

\* An output handed out: where it came from, and the entropy inputs that had
\* been drawn when it was asked for.
Issue(d, resistance, from) ==
  [from |-> from, interval |-> d.interval, resistance |-> resistance, known |-> seeds]

Idle == fill = 0

Instantiate(interval, resistance) ==
  /\ Idle
  /\ \E r \in {"OK", "ENTROPY", "ERROR"} :
       /\ result' = r
       /\ r = "ENTROPY" \/ seeds < MaxSeeds
       /\ seeds' = IF r = "ENTROPY" THEN seeds ELSE seeds + 1
       /\ drbg' = IF r # "OK" THEN Wiped
                  ELSE [Wiped EXCEPT !.marker = TRUE, !.interval = interval, !.counter = 1,
                                     !.resistance = resistance, !.state = Fresh(seeds + 1)]
  /\ output' = <<>>
  /\ UNCHANGED <<fill, issued>>

\* Instantiation with arguments it rejects wipes what was there before.
InstantiateRejected ==
  /\ Idle
  /\ drbg' = Wiped /\ result' = "ARGUMENT"
  /\ output' = <<>>
  /\ UNCHANGED <<seeds, fill, issued>>

ReseedCall ==
  /\ Idle /\ IsLive(drbg)
  /\ \E r \in Within(Reseed(drbg)) :
       drbg' = r.drbg /\ seeds' = seeds + r.drawn /\ result' = r.result
  /\ output' = <<>>
  /\ UNCHANGED <<fill, issued>>

\* A request larger than the maximum is LIMIT, a resistant one on a DRBG
\* without the option ARGUMENT.  Both leave the output alone.
GenerateCall(resistance) ==
  /\ Idle
  /\ IF IsLive(drbg) /\ (resistance => drbg.resistance)
     THEN \E g \in Within(Generate(drbg, resistance)) :
            /\ drbg' = g.drbg /\ seeds' = seeds + g.drawn /\ result' = g.result
            /\ output' = IF g.result = "OK" THEN <<Chunk("random", g.from)>> ELSE Zeroed(1)
            /\ issued' = IF g.result = "OK"
                         THEN Append(issued, Issue(drbg, resistance, g.from)) ELSE issued
     ELSE /\ output' = Blank(1) /\ result' = "ARGUMENT"
          /\ UNCHANGED <<drbg, seeds, issued>>
  /\ UNCHANGED fill

\* TC_DRBG_random starts with the whole request to go, and one chunk for an
\* empty one.
RandomCall(chunks) ==
  /\ Idle
  /\ fill' = chunks /\ output' = Blank(chunks) /\ result' = "NONE"
  /\ UNCHANGED <<drbg, seeds, issued>>

\* Mutant: only the failing chunk is wiped.
WipeChunkOnly(r, chunks, at) ==
  IF r = "ARGUMENT" THEN output ELSE [output EXCEPT ![at] = Zero]

\* A failing chunk wipes the whole output, except for an argument error.
WipeFilled(r, chunks, at) ==
  IF r = "ARGUMENT" THEN output ELSE Zeroed(chunks)

RandomChunk ==
  LET chunks == Len(output)
      at == chunks - fill + 1
  IN  /\ fill > 0
      /\ IF IsLive(drbg)
         THEN \E g \in Within(Generate(drbg, FALSE)) :
                /\ drbg' = g.drbg /\ seeds' = seeds + g.drawn
                /\ IF g.result = "OK"
                   THEN /\ output' = [output EXCEPT ![at] = Chunk("random", g.from)]
                        /\ issued' = Append(issued, Issue(drbg, FALSE, g.from))
                        /\ fill' = fill - 1
                        /\ result' = IF fill = 1 THEN "OK" ELSE "NONE"
                   ELSE /\ output' = WipeFilled(g.result, chunks, at)
                        /\ fill' = 0 /\ result' = "ERROR"
                        /\ UNCHANGED issued
         ELSE /\ output' = WipeFilled("ARGUMENT", chunks, at)
              /\ fill' = 0 /\ result' = "ERROR"
              /\ UNCHANGED <<drbg, seeds, issued>>

Uninstantiate ==
  /\ Idle
  /\ drbg' = Wiped
  /\ output' = <<>> /\ result' = "NONE"
  /\ UNCHANGED <<seeds, fill, issued>>

Init ==
  /\ drbg = Wiped /\ seeds = 0 /\ fill = 0 /\ output = <<>> /\ result = "NONE" /\ issued = <<>>

Next ==
  \/ \E interval \in Intervals, resistance \in BOOLEAN : Instantiate(interval, resistance)
  \/ InstantiateRejected
  \/ ReseedCall
  \/ \E resistance \in BOOLEAN : GenerateCall(resistance)
  \/ \E chunks \in 1 .. MaxChunks : RandomCall(chunks)
  \/ RandomChunk
  \/ Uninstantiate

Spec == Init /\ [][Next]_vars

(******************************* Properties *******************************)

\* Every variable keeps its shape, and the counter stays within one request of
\* the interval, whatever fails on the way (TC_DRBG_generate).
TypeOK ==
  /\ drbg \in [marker : BOOLEAN, failed : BOOLEAN, resistance : BOOLEAN,
               interval : Intervals \cup {0}, counter : Nat,
               state : [seed : 0 .. MaxSeeds, step : Nat, torn : BOOLEAN]]
  /\ drbg.counter <= drbg.interval + 1
  /\ seeds \in 0 .. MaxSeeds /\ fill \in 0 .. MaxChunks
  /\ Len(output) <= MaxChunks /\ fill <= Len(output)
  /\ result \in {"NONE", "OK", "ENTROPY", "ERROR", "ARGUMENT"}

\* No two outputs come from the same working state, and none from a state that
\* a failing primitive left undefined (record, live).
NeverRepeats ==
  /\ \A i, j \in DOMAIN issued : i # j => issued[i].from # issued[j].from
  /\ \A i \in DOMAIN issued : ~issued[i].from.torn

\* An output requested with prediction resistance is the first of a seed drawn
\* in that very call, and no seed ever answers more requests than the interval,
\* however often a due reseed fails for lack of entropy and the request is
\* tried again (TC_DRBG_generate, reseed).
ResistantIsFresh ==
  \A i \in DOMAIN issued :
    /\ issued[i].resistance => issued[i].from.seed > issued[i].known /\ issued[i].from.step = 0
    /\ issued[i].from.step < issued[i].interval

\* When TC_DRBG_random returns, the buffer is filled on OK, and otherwise holds
\* no output at all: it is untouched or wiped from end to end.
FilledOrNothing ==
  Idle /\ output # <<>> =>
    \/ result = "OK" /\ \A i \in DOMAIN output : output[i].holds = "random"
    \/ result # "OK" /\ (output = Blank(Len(output)) \/ output = Zeroed(Len(output)))

(* -------------------------------- proofs --------------------------------- *)

(* Proofs about Drbg, for any reseed intervals, any length of a request    *)
(* and any number of seeds.                                                *)

States == [seed : 0 .. MaxSeeds, step : Nat, torn : BOOLEAN]
Contexts == [marker : BOOLEAN, failed : BOOLEAN, resistance : BOOLEAN,
             interval : Intervals \cup {0}, counter : Nat, state : States]
Issues == [from : States, interval : Intervals \cup {0}, resistance : BOOLEAN, known : 0 .. MaxSeeds]

\* A live instance has an interval, its working state is whole, and the counter
\* is one ahead of the requests that the seed has answered.
ContextInv ==
  /\ drbg \in Contexts /\ seeds \in 0 .. MaxSeeds /\ drbg.state.seed <= seeds
  /\ drbg.counter <= drbg.interval + 1
  /\ IsLive(drbg) => /\ drbg.interval \in Intervals /\ ~drbg.state.torn
                     /\ drbg.counter = drbg.state.step + 1

\* Every output came from a whole state of a seed drawn before, and the working
\* state of a live instance is ahead of all the outputs of its seed.
IssuedInv ==
  /\ issued \in Seq(Issues) /\ NeverRepeats /\ ResistantIsFresh
  /\ \A i \in DOMAIN issued : issued[i].from.seed <= seeds
  /\ \A i \in DOMAIN issued : IsLive(drbg) /\ issued[i].from.seed = drbg.state.seed =>
       issued[i].from.step < drbg.state.step

\* While a request is filled, the chunks done hold output and the others are as
\* the caller gave them; once a chunk is done the instance is live.
Chunks == [holds : {"old", "zero", "random"}, from : States]
OutputInv ==
  /\ output \in Seq(Chunks) /\ Len(output) <= MaxChunks
  /\ fill \in 0 .. MaxChunks /\ fill <= Len(output) /\ FilledOrNothing
  /\ result \in {"NONE", "OK", "ENTROPY", "ERROR", "ARGUMENT"}
  /\ fill > 0 /\ fill < Len(output) => IsLive(drbg)
  /\ fill > 0 => \A i \in 1 .. Len(output) :
       IF i <= Len(output) - fill THEN output[i].holds = "random" ELSE output[i] = Old

IInv == ContextInv /\ IssuedInv /\ OutputInv

\* The state a request is answered from: the current one while the interval
\* lasts, or the one of a new seed.
Seeded(d, drawn) ==
  IF drawn = 0 THEN d ELSE [d EXCEPT !.state = Fresh(seeds + 1), !.counter = 1]

\* What a generate call on a live instance can leave.
LEMMA GenerateOutcomes ==
  ASSUME ContextInv, IsLive(drbg), NEW resistance \in BOOLEAN,
         NEW g \in Within(Generate(drbg, resistance))
  PROVE  /\ g.drawn \in {0, 1} /\ seeds + g.drawn \in 0 .. MaxSeeds
         /\ g.result = "OK" =>
              LET b == Seeded(drbg, g.drawn) IN
              /\ g.drawn = 0 => ~resistance /\ drbg.counter <= drbg.interval
              /\ g.from = b.state
              /\ g.drbg = [b EXCEPT !.state = Advanced(b.state), !.counter = b.counter + 1]
         /\ g.result # "OK" =>
              /\ g.result \in {"ENTROPY", "ERROR"}
              /\ g.drbg \in {drbg, Torn(drbg), Torn(Seeded(drbg, g.drawn))}
<1> DEFINE due == ReseedDue(drbg, resistance)
           reseeded == IF due THEN Reseed(drbg) ELSE {After("OK", drbg, 0)}
           new == [drbg EXCEPT !.state = Fresh(seeds + 1), !.counter = 1]
<1>1. seeds + g.drawn <= MaxSeeds /\ g \in Generate(drbg, resistance)
  BY DEF Within
<1>2. ~due => ~resistance /\ drbg.counter <= drbg.interval
  <2>1. drbg.counter \in Nat /\ drbg.interval \in Nat
    BY Constants DEF ContextInv, Contexts
  <2>2. CASE resistance
    BY <2>2 DEF ReseedDue
  <2>3. CASE ~resistance
    BY <2>1, <2>3 DEF ReseedDue
  <2>4. QED
    BY <2>2, <2>3
<1>3. \A r \in reseeded : \/ r = After("OK", drbg, 0) /\ ~due
                          \/ r = After("OK", new, 1)
                          \/ r = After("ENTROPY", drbg, 0)
                          \/ r = After("ERROR", Torn(drbg), 1)
  BY DEF Reseed
<1>4. CASE g \in {[result |-> r.result, drbg |-> r.drbg, drawn |-> r.drawn, from |-> r.drbg.state] :
                    r \in {r \in reseeded : r.result # "OK"}}
  <2>1. \/ g.result = "ENTROPY" /\ g.drbg = drbg /\ g.drawn = 0
        \/ g.result = "ERROR" /\ g.drbg = Torn(drbg) /\ g.drawn = 1
    BY <1>3, <1>4 DEF After
  <2>2. QED
    BY <1>1, <2>1 DEF Seeded, ContextInv
<1>5. ASSUME NEW r \in reseeded, r.result = "OK",
             g \in {[result |-> m.result, drbg |-> m.drbg, drawn |-> r.drawn, from |-> r.drbg.state] :
                      m \in MechanismGenerate(r.drbg)}
      PROVE  /\ g.drawn \in {0, 1} /\ seeds + g.drawn \in 0 .. MaxSeeds
             /\ g.result = "OK" =>
                  LET b == Seeded(drbg, g.drawn) IN
                  /\ g.drawn = 0 => ~resistance /\ drbg.counter <= drbg.interval
                  /\ g.from = b.state
                  /\ g.drbg = [b EXCEPT !.state = Advanced(b.state), !.counter = b.counter + 1]
             /\ g.result # "OK" =>
                  /\ g.result \in {"ENTROPY", "ERROR"}
                  /\ g.drbg \in {drbg, Torn(drbg), Torn(Seeded(drbg, g.drawn))}
  <2>1. (r = After("OK", drbg, 0) /\ ~due) \/ r = After("OK", new, 1)
    BY <1>3, <1>5 DEF After
  <2>2. PICK m \in MechanismGenerate(r.drbg) :
          g = [result |-> m.result, drbg |-> m.drbg, drawn |-> r.drawn, from |-> r.drbg.state]
    BY <1>5
  <2>3. g.drawn = r.drawn /\ g.drawn \in {0, 1} /\ (g.drawn = 0 => ~due) /\ r.drbg = Seeded(drbg, g.drawn)
    BY <2>1, <2>2 DEF After, Seeded
  <2>4. seeds + g.drawn \in 0 .. MaxSeeds
    BY <1>1, <2>3, Constants DEF ContextInv
  <2>5. /\ g.from = r.drbg.state
        /\ \/ /\ g.result = "OK"
              /\ g.drbg = [r.drbg EXCEPT !.state = Advanced(r.drbg.state),
                                         !.counter = r.drbg.counter + 1]
           \/ g.result = "ERROR" /\ g.drbg = Torn(r.drbg)
    BY <2>2 DEF After, MechanismGenerate
  <2>6. QED
    BY <1>2, <2>3, <2>4, <2>5
<1>6. QED
  BY <1>1, <1>4, <1>5 DEF Generate

\* The base of a request is whole, within its interval and of no later seed.
LEMMA BaseContext ==
  ASSUME ContextInv, IsLive(drbg), NEW drawn \in {0, 1}, seeds + drawn \in 0 .. MaxSeeds
  PROVE  LET b == Seeded(drbg, drawn) IN
         /\ b \in Contexts /\ IsLive(b) /\ b.interval = drbg.interval /\ b.interval \in Intervals
         /\ ~b.state.torn /\ b.state.seed <= seeds + drawn /\ b.counter <= drbg.interval + 1
         /\ b.counter = b.state.step + 1
         /\ drawn = 1 => b.state = Fresh(seeds + 1) /\ b.counter = 1
         /\ drawn = 0 => b = drbg
<1>1. /\ drbg \in Contexts /\ drbg.interval \in Intervals /\ drbg.interval \in Nat \ {0}
      /\ ~drbg.state.torn /\ drbg.marker /\ ~drbg.failed /\ drbg.counter = drbg.state.step + 1
  BY Constants DEF ContextInv, IsLive
<1>2. CASE drawn = 0
  BY <1>1, <1>2 DEF ContextInv, Seeded, Contexts
<1>3. CASE drawn = 1
  <2>1. Fresh(seeds + 1) \in States
    BY <1>3 DEF Fresh, States
  <2> DEFINE b == [drbg EXCEPT !.state = Fresh(seeds + 1), !.counter = 1]
  <2>2. b \in Contexts
    BY <1>1, <2>1 DEF Contexts
  <2>3. b.interval = drbg.interval /\ b.state = Fresh(seeds + 1) /\ b.counter = 1
    BY <1>1 DEF Contexts
  <2>4. b.marker /\ ~b.failed
    BY <1>1 DEF Contexts
  <2>5. seeds + 1 \in Nat /\ Fresh(seeds + 1).seed = seeds + 1 /\ Fresh(seeds + 1).step = 0
    BY <1>3 DEF Fresh
  <2>6. ~Fresh(seeds + 1).torn
    BY DEF Fresh
  <2>7. Seeded(drbg, drawn) = b
    BY <1>3 DEF Seeded
  <2>8. IsLive(b) /\ ~b.state.torn
    BY <2>3, <2>4, <2>6 DEF IsLive
  <2> HIDE DEF b
  <2>9. /\ b.interval \in Intervals /\ b.state.seed <= seeds + drawn /\ b.counter <= drbg.interval + 1
        /\ b.counter = b.state.step + 1
    BY <1>1, <1>3, <2>3, <2>5
  <2>10. QED
    BY <1>3, <2>2, <2>3, <2>7, <2>8, <2>9
<1>4. QED
  BY <1>2, <1>3

\* The context behind an answered request.
LEMMA AdvancedContext ==
  ASSUME NEW b \in Contexts
  PROVE  LET d == [b EXCEPT !.state = Advanced(b.state), !.counter = b.counter + 1] IN
         /\ d \in Contexts /\ d.counter = b.counter + 1 /\ d.interval = b.interval
         /\ d.state = Advanced(b.state) /\ (IsLive(b) => IsLive(d))
<1> DEFINE d == [b EXCEPT !.state = Advanced(b.state), !.counter = b.counter + 1]
<1>1. Advanced(b.state) \in States
  BY DEF Contexts, States, Advanced
<1>2. d \in Contexts
  <2>1. b.counter + 1 \in Nat
    BY DEF Contexts
  <2>2. \A state \in States, counter \in Nat :
          [b EXCEPT !.state = state, !.counter = counter] \in Contexts
    BY DEF Contexts
  <2>3. QED
    BY <1>1, <2>1, <2>2
<1>3. d.counter = b.counter + 1 /\ d.interval = b.interval /\ d.state = Advanced(b.state)
  BY DEF Contexts
<1>4. ASSUME IsLive(b) PROVE IsLive(d)
  <2>1. b.marker /\ ~b.failed
    BY <1>4 DEF IsLive
  <2>2. d.marker /\ ~d.failed
    BY <2>1 DEF Contexts
  <2>3. QED
    BY <2>2 DEF IsLive
<1>5. QED
  BY <1>2, <1>3, <1>4

\* A failed request tears the state or leaves it as it was, and gives out nothing.
LEMMA FailedInv ==
  ASSUME ContextInv, IssuedInv, IsLive(drbg), NEW drawn \in {0, 1}, seeds + drawn \in 0 .. MaxSeeds,
         drbg' \in {drbg, Torn(drbg), Torn(Seeded(drbg, drawn))}, seeds' = seeds + drawn, issued' = issued
  PROVE  ContextInv' /\ IssuedInv'
<1>1. seeds \in 0 .. MaxSeeds /\ seeds <= seeds' /\ seeds' \in 0 .. MaxSeeds
  BY DEF ContextInv
<1>2. ASSUME NEW b \in Contexts, drbg' = Torn(b), b.state.seed <= seeds', b.counter <= b.interval + 1
      PROVE  ContextInv' /\ ~IsLive(drbg')
  BY <1>1, <1>2 DEF ContextInv, Torn, Contexts, States, IsLive
<1>3. /\ drbg \in Contexts /\ drbg.state.seed <= seeds' /\ drbg.counter <= drbg.interval + 1
      /\ drbg.state.seed \in 0 .. MaxSeeds
  BY <1>1 DEF ContextInv, Contexts, States
<1>4. /\ Seeded(drbg, drawn) \in Contexts /\ Seeded(drbg, drawn).state.seed <= seeds'
      /\ Seeded(drbg, drawn).counter <= Seeded(drbg, drawn).interval + 1
  BY BaseContext
<1>5. ContextInv' /\ (drbg' = drbg \/ ~IsLive(drbg'))
  <2>1. CASE drbg' = drbg
    BY <1>1, <1>3, <2>1 DEF ContextInv, IsLive
  <2>2. CASE drbg' = Torn(drbg)
    BY <1>2, <1>3, <2>2
  <2>3. CASE drbg' = Torn(Seeded(drbg, drawn))
    BY <1>2, <1>4, <2>3
  <2>4. QED
    BY <2>1, <2>2, <2>3
<1>6. \A i \in DOMAIN issued : issued[i].from.seed <= seeds'
  <2>1. \A i \in DOMAIN issued : issued[i] \in Issues
    BY DEF IssuedInv
  <2>2. \A i \in DOMAIN issued : issued[i].from.seed \in 0 .. MaxSeeds
    BY <2>1 DEF Issues, States
  <2>3. QED
    BY <1>1, <2>2 DEF IssuedInv
<1>7. IssuedInv'
  BY <1>5, <1>6 DEF IssuedInv, NeverRepeats, ResistantIsFresh
<1>8. QED
  BY <1>5, <1>7

\* An answered request issues a state ahead of all that its seed issued before.
LEMMA AnsweredInv ==
  ASSUME ContextInv, IssuedInv, IsLive(drbg), NEW resistance \in BOOLEAN,
         NEW g \in Within(Generate(drbg, resistance)), g.result = "OK",
         drbg' = g.drbg, seeds' = seeds + g.drawn,
         issued' = Append(issued, Issue(drbg, resistance, g.from))
  PROVE  ContextInv' /\ IssuedInv' /\ g.from \in States
<1> DEFINE b == Seeded(drbg, g.drawn)
           new == Issue(drbg, resistance, g.from)
<1>1. /\ g.drawn \in {0, 1} /\ seeds' \in 0 .. MaxSeeds /\ seeds \in 0 .. MaxSeeds
      /\ g.drawn = 0 => ~resistance /\ drbg.counter <= drbg.interval
      /\ g.from = b.state
      /\ drbg' = [b EXCEPT !.state = Advanced(b.state), !.counter = b.counter + 1]
  BY GenerateOutcomes DEF ContextInv
<1>2. /\ b \in Contexts /\ IsLive(b) /\ b.interval = drbg.interval /\ b.interval \in Intervals
      /\ ~b.state.torn /\ b.state.seed <= seeds' /\ b.counter = b.state.step + 1
      /\ g.drawn = 1 => b.state = Fresh(seeds + 1) /\ b.counter = 1
      /\ g.drawn = 0 => b = drbg
  BY <1>1, BaseContext
<1> HIDE DEF b
<1>3. b.interval \in Nat \ {0} /\ b.counter \in Nat /\ b.counter <= b.interval
  BY <1>1, <1>2, Constants DEF Contexts
<1>4. /\ drbg' \in Contexts /\ drbg'.counter = b.counter + 1 /\ drbg'.interval = b.interval
      /\ drbg'.state = Advanced(b.state) /\ IsLive(drbg')
  <2>1. drbg' = [b EXCEPT !.state = Advanced(b.state), !.counter = b.counter + 1] /\ b \in Contexts
    BY <1>1, <1>2
  <2>2. IsLive(b)
    BY <1>2
  <2>3. QED
    BY <2>1, <2>2, AdvancedContext
<1>5. /\ b.state \in States /\ drbg'.state.seed = b.state.seed /\ ~drbg'.state.torn
      /\ drbg'.state.step = b.state.step + 1
  BY <1>2, <1>4 DEF Contexts, States, Advanced
<1>6. ContextInv'
  BY <1>1, <1>2, <1>3, <1>4, <1>5 DEF ContextInv
<1>7. /\ new \in Issues /\ new.from = b.state /\ new.resistance = resistance
      /\ new.interval = b.interval /\ new.known = seeds
  BY <1>1, <1>2, <1>5 DEF Issue, Issues
<1>8. /\ issued \in Seq(Issues) /\ issued' \in Seq(Issues) /\ Len(issued) \in Nat
      /\ DOMAIN issued = 1 .. Len(issued) /\ DOMAIN issued' = 1 .. Len(issued) + 1
      /\ \A i \in DOMAIN issued : issued'[i] = issued[i] /\ issued[i] \in Issues
      /\ issued'[Len(issued) + 1] = new
  BY <1>7 DEF IssuedInv
<1> HIDE DEF new
<1>9. \A i \in DOMAIN issued : /\ issued[i].from.seed \in 0 .. MaxSeeds /\ issued[i].from.step \in Nat
                               /\ issued[i].from.seed <= seeds /\ ~issued[i].from.torn
  BY <1>8 DEF IssuedInv, Issues, States, NeverRepeats
<1>10. \A i \in DOMAIN issued : issued[i].from.seed = b.state.seed =>
          g.drawn = 0 /\ issued[i].from.step < b.state.step
  <2>1. TAKE i \in DOMAIN issued
  <2>2. HAVE issued[i].from.seed = b.state.seed
  <2>3. g.drawn # 1
    BY <1>1, <1>2, <1>9, <2>2 DEF Fresh
  <2>4. g.drawn = 0
    BY <1>1, <2>3
  <2>5. QED
    BY <1>2, <2>2, <2>4 DEF IssuedInv
<1>11. \A i \in DOMAIN issued : issued[i].from # b.state
  <2>1. b.state.step \in Nat
    BY <1>5 DEF States
  <2>2. QED
    BY <1>9, <1>10, <2>1
<1>12. NeverRepeats'
  <2>1. \A i \in DOMAIN issued' : ~issued'[i].from.torn
    BY <1>2, <1>7, <1>8, <1>9
  <2>2. \A i, j \in DOMAIN issued' : i # j => issued'[i].from # issued'[j].from
    <3>1. TAKE i, j \in DOMAIN issued'
    <3>2. HAVE i # j
    <3>3. CASE i \in DOMAIN issued /\ j \in DOMAIN issued
      BY <1>8, <3>2, <3>3 DEF IssuedInv, NeverRepeats
    <3>4. CASE i = Len(issued) + 1 /\ j \in DOMAIN issued
      BY <1>7, <1>8, <1>11, <3>4
    <3>5. CASE j = Len(issued) + 1 /\ i \in DOMAIN issued
      BY <1>7, <1>8, <1>11, <3>5
    <3>6. QED
      BY <1>8, <3>2, <3>3, <3>4, <3>5
  <2>3. QED
    BY <2>1, <2>2 DEF NeverRepeats
<1>13. ResistantIsFresh'
  <2>1. SUFFICES ASSUME NEW i \in DOMAIN issued'
                 PROVE  /\ issued'[i].resistance =>
                             issued'[i].from.seed > issued'[i].known /\ issued'[i].from.step = 0
                        /\ issued'[i].from.step < issued'[i].interval
    BY DEF ResistantIsFresh
  <2>2. CASE i \in DOMAIN issued
    BY <1>8, <2>2 DEF IssuedInv, ResistantIsFresh
  <2>3. CASE i = Len(issued) + 1
    <3>1. issued'[i] = new
      BY <1>8, <2>3
    <3>2. resistance => b.state = Fresh(seeds + 1)
      BY <1>1, <1>2
    <3>3. Fresh(seeds + 1).seed = seeds + 1 /\ Fresh(seeds + 1).step = 0 /\ seeds + 1 > seeds
      BY <1>1 DEF Fresh
    <3>4. b.state.step < b.interval
      <4>1. b.state.step \in Nat
        BY <1>5 DEF States
      <4>2. QED
        BY <1>2, <1>3, <4>1
    <3>5. QED
      BY <1>7, <3>1, <3>2, <3>3, <3>4
  <2>4. QED
    BY <1>8, <2>2, <2>3
<1>14. \A i \in DOMAIN issued' : issued'[i].from.seed <= seeds'
  <2>1. \A i \in DOMAIN issued : issued[i].from.seed <= seeds'
    BY <1>1, <1>9
  <2>2. QED
    BY <1>2, <1>7, <1>8, <2>1
<1>15. \A i \in DOMAIN issued' : issued'[i].from.seed = drbg'.state.seed =>
         issued'[i].from.step < drbg'.state.step
  <2>1. b.state.step \in Nat
    BY <1>5 DEF States
  <2>2. \A i \in DOMAIN issued : issued[i].from.seed = drbg'.state.seed =>
          issued[i].from.step < drbg'.state.step
    BY <1>5, <1>9, <1>10, <2>1
  <2>3. QED
    BY <1>5, <1>7, <1>8, <2>1, <2>2
<1>16. IssuedInv'
  BY <1>8, <1>12, <1>13, <1>14, <1>15 DEF IssuedInv
<1>17. QED
  BY <1>1, <1>5, <1>6, <1>16

\* An instance that is wiped, or newly seeded.
LEMMA ReplacedInv ==
  ASSUME ContextInv, IssuedInv, seeds' \in {seeds, seeds + 1}, seeds' \in 0 .. MaxSeeds, issued' = issued,
         \/ drbg' = Wiped
         \/ /\ seeds' = seeds + 1 /\ drbg' \in Contexts /\ drbg'.interval \in Intervals
            /\ drbg'.state = Fresh(seeds + 1) /\ drbg'.counter = 1
  PROVE  ContextInv' /\ IssuedInv'
<1>1. seeds \in 0 .. MaxSeeds /\ seeds <= seeds'
  BY DEF ContextInv
<1>2. \A i \in DOMAIN issued : issued[i] \in Issues
  BY DEF IssuedInv
<1>3. \A i \in DOMAIN issued : issued[i].from.seed \in 0 .. MaxSeeds /\ issued[i].from.seed <= seeds
  BY <1>2 DEF IssuedInv, Issues, States
<1>4. CASE drbg' = Wiped
  <2>1. Wiped \in Contexts /\ ~IsLive(Wiped) /\ Wiped.state.seed = 0 /\ Wiped.counter = 0 /\ Wiped.interval = 0
    BY Constants DEF Wiped, Contexts, States, Fresh, IsLive
  <2>2. ContextInv'
    BY <1>1, <1>4, <2>1 DEF ContextInv
  <2>3. IssuedInv'
    BY <1>1, <1>3, <1>4, <2>1 DEF IssuedInv, NeverRepeats, ResistantIsFresh
  <2>4. QED
    BY <2>2, <2>3
<1>5. CASE /\ seeds' = seeds + 1 /\ drbg' \in Contexts /\ drbg'.interval \in Intervals
           /\ drbg'.state = Fresh(seeds + 1) /\ drbg'.counter = 1
  <2>1. drbg'.state.seed = seeds' /\ drbg'.interval \in Nat
    <3>1. drbg'.interval \in Nat
      BY <1>5, Constants
    <3>2. Fresh(seeds + 1).seed = seeds + 1
      BY DEF Fresh
    <3>3. QED
      BY <1>5, <3>1, <3>2
  <2>2. ~drbg'.state.torn /\ drbg'.counter = drbg'.state.step + 1
    BY <1>5 DEF Fresh
  <2>3. ContextInv'
    BY <1>1, <1>5, <2>1, <2>2 DEF ContextInv
  <2>4. \A i \in DOMAIN issued : issued[i].from.seed # drbg'.state.seed /\ issued[i].from.seed <= seeds'
    BY <1>1, <1>3, <1>5, <2>1
  <2>5. IssuedInv'
    BY <2>4 DEF IssuedInv, NeverRepeats, ResistantIsFresh
  <2>6. QED
    BY <2>3, <2>5
<1>6. QED
  BY <1>4, <1>5

\* A call that is over and leaves an empty buffer.
LEMMA EmptyOutput ==
  ASSUME fill' = 0, output' = <<>>, result' \in {"NONE", "OK", "ENTROPY", "ERROR", "ARGUMENT"}
  PROVE  OutputInv'
  BY Constants DEF OutputInv, FilledOrNothing

\* A call that is over, and filled the whole buffer, wiped it or left it alone.
LEMMA WholeOutput ==
  ASSUME fill' = 0, NEW n \in 1 .. MaxChunks, output' \in Seq(Chunks), Len(output') = n,
         result' \in {"OK", "ENTROPY", "ERROR", "ARGUMENT"},
         \/ result' = "OK" /\ \A i \in 1 .. n : output'[i].holds = "random"
         \/ result' # "OK" /\ (output' = Blank(n) \/ output' = Zeroed(n))
  PROVE  OutputInv'
  BY Constants DEF OutputInv, FilledOrNothing, Idle

\* The three kinds of buffers have their types.
LEMMA OutputTypes ==
  ASSUME NEW n \in 1 .. MaxChunks
  PROVE  /\ Old \in Chunks /\ Zero \in Chunks
         /\ Blank(n) \in Seq(Chunks) /\ Len(Blank(n)) = n
         /\ Zeroed(n) \in Seq(Chunks) /\ Len(Zeroed(n)) = n
<1>1. Fresh(0) \in States
  BY Constants DEF Fresh, States
<1>2. Old \in Chunks /\ Zero \in Chunks
  BY <1>1 DEF Old, Zero, Chunk, Chunks
<1>3. n \in Nat
  BY Constants
<1>4. QED
  BY <1>2, <1>3 DEF Blank, Zeroed

\* Instantiation wipes what was there, or seeds a new instance.
LEMMA InstantiateIInv ==
  ASSUME IInv, NEW interval \in Intervals, NEW resistance \in BOOLEAN, Instantiate(interval, resistance)
  PROVE  IInv'
<1>1. PICK r \in {"OK", "ENTROPY", "ERROR"} :
        /\ result' = r /\ (r = "ENTROPY" \/ seeds < MaxSeeds)
        /\ seeds' = IF r = "ENTROPY" THEN seeds ELSE seeds + 1
        /\ drbg' = IF r # "OK" THEN Wiped
                   ELSE [Wiped EXCEPT !.marker = TRUE, !.interval = interval, !.counter = 1,
                                      !.resistance = resistance, !.state = Fresh(seeds + 1)]
  BY DEF Instantiate
<1>2. seeds \in 0 .. MaxSeeds /\ seeds' \in {seeds, seeds + 1} /\ seeds' \in 0 .. MaxSeeds
  BY <1>1, Constants DEF IInv, ContextInv
<1>3. OutputInv'
  BY <1>1, EmptyOutput DEF Instantiate, Idle
<1>4. CASE r # "OK"
  <2>1. ContextInv' /\ IssuedInv'
    BY <1>1, <1>2, <1>4, ReplacedInv DEF Instantiate, IInv
  <2>2. QED
    BY <1>3, <2>1 DEF IInv
<1>5. CASE r = "OK"
  <2>1. Fresh(seeds + 1) \in States /\ seeds' = seeds + 1
    BY <1>1, <1>2, <1>5 DEF Fresh, States
  <2>2. drbg' = [marker |-> TRUE, failed |-> FALSE, resistance |-> resistance, interval |-> interval,
                 counter |-> 1, state |-> Fresh(seeds + 1)]
    BY <1>1, <1>5 DEF Wiped
  <2>3. drbg' \in Contexts
    BY <2>1, <2>2 DEF Contexts
  <2>4. drbg'.interval \in Intervals /\ drbg'.state = Fresh(seeds + 1) /\ drbg'.counter = 1
    BY <2>2
  <2>5. ContextInv' /\ IssuedInv'
    BY <1>2, <2>1, <2>3, <2>4, ReplacedInv DEF Instantiate, IInv
  <2>6. QED
    BY <1>3, <2>5 DEF IInv
<1>6. QED
  BY <1>4, <1>5

\* A reseed call keeps the instance, marks it failed or seeds it anew.
LEMMA ReseedIInv ==
  ASSUME IInv, ReseedCall
  PROVE  IInv'
<1>1. PICK r \in Within(Reseed(drbg)) : drbg' = r.drbg /\ seeds' = seeds + r.drawn /\ result' = r.result
  BY DEF ReseedCall
<1>2. /\ seeds + r.drawn <= MaxSeeds
      /\ \/ r = After("ENTROPY", drbg, 0)
         \/ r = After("ERROR", Torn(drbg), 1)
         \/ r = After("OK", [drbg EXCEPT !.state = Fresh(seeds + 1), !.counter = 1], 1)
  BY DEF Within, Reseed
<1>3. OutputInv'
  BY <1>1, <1>2, EmptyOutput DEF ReseedCall, Idle, After
<1>4. IsLive(drbg) /\ seeds \in 0 .. MaxSeeds /\ issued' = issued
  BY DEF ReseedCall, IInv, ContextInv
<1>5. r.drawn \in {0, 1} /\ seeds + r.drawn \in 0 .. MaxSeeds
  BY <1>2, <1>4, Constants DEF After
<1>6. CASE r.result # "OK"
  <2>1. drbg' \in {drbg, Torn(drbg), Torn(Seeded(drbg, r.drawn))}
    BY <1>1, <1>2, <1>6 DEF After
  <2>2. ContextInv' /\ IssuedInv'
    BY <1>1, <1>4, <1>5, <2>1, FailedInv DEF IInv
  <2>3. QED
    BY <1>3, <2>2 DEF IInv
<1>7. CASE r.result = "OK"
  <2>1. drbg' = Seeded(drbg, 1) /\ seeds' = seeds + 1 /\ r.drawn = 1
    BY <1>1, <1>2, <1>7 DEF After, Seeded
  <2>2. /\ drbg' \in Contexts /\ drbg'.interval \in Intervals
        /\ drbg'.state = Fresh(seeds + 1) /\ drbg'.counter = 1
    BY <1>4, <1>5, <2>1, BaseContext DEF IInv
  <2>3. ContextInv' /\ IssuedInv'
    BY <1>4, <1>5, <2>1, <2>2, ReplacedInv DEF IInv
  <2>4. QED
    BY <1>3, <2>3 DEF IInv
<1>8. QED
  BY <1>6, <1>7

\* TC_DRBG_generate answers, fails and wipes its buffer, or refuses.
LEMMA GenerateIInv ==
  ASSUME IInv, NEW resistance \in BOOLEAN, GenerateCall(resistance)
  PROVE  IInv'
<1>1. fill' = 0 /\ 1 \in 1 .. MaxChunks
  BY Constants DEF GenerateCall, Idle
<1>2. CASE ~(IsLive(drbg) /\ (resistance => drbg.resistance))
  <2>1. output' = Blank(1) /\ result' = "ARGUMENT" /\ UNCHANGED <<drbg, seeds, issued>>
    BY <1>2 DEF GenerateCall
  <2>2. OutputInv'
    BY <1>1, <2>1, OutputTypes, WholeOutput
  <2>3. ContextInv' /\ IssuedInv'
    BY <2>1 DEF IInv, ContextInv, IssuedInv, NeverRepeats, ResistantIsFresh
  <2>4. QED
    BY <2>2, <2>3 DEF IInv
<1>3. CASE IsLive(drbg) /\ (resistance => drbg.resistance)
  <2>1. PICK g \in Within(Generate(drbg, resistance)) :
          /\ drbg' = g.drbg /\ seeds' = seeds + g.drawn /\ result' = g.result
          /\ output' = IF g.result = "OK" THEN <<Chunk("random", g.from)>> ELSE Zeroed(1)
          /\ issued' = IF g.result = "OK"
                       THEN Append(issued, Issue(drbg, resistance, g.from)) ELSE issued
    BY <1>3 DEF GenerateCall
  <2>2. CASE g.result = "OK"
    <3>1. ContextInv' /\ IssuedInv' /\ g.from \in States
      BY <1>3, <2>1, <2>2, AnsweredInv DEF IInv
    <3>2. Chunk("random", g.from) \in Chunks /\ Chunk("random", g.from).holds = "random"
      BY <3>1 DEF Chunk, Chunks
    <3>3. OutputInv'
      BY <1>1, <2>1, <2>2, <3>2, WholeOutput
    <3>4. QED
      BY <3>1, <3>3 DEF IInv
  <2>3. CASE g.result # "OK"
    <3>1. ContextInv' /\ IssuedInv' /\ g.result \in {"ENTROPY", "ERROR"}
      BY <1>3, <2>1, <2>3, GenerateOutcomes, FailedInv DEF IInv
    <3>2. OutputInv'
      BY <1>1, <2>1, <2>3, <3>1, OutputTypes, WholeOutput
    <3>3. QED
      BY <3>1, <3>2 DEF IInv
  <2>4. QED
    BY <2>2, <2>3
<1>4. QED
  BY <1>2, <1>3

\* TC_DRBG_random starts on a buffer it has not touched.
LEMMA RandomIInv ==
  ASSUME IInv, NEW chunks \in 1 .. MaxChunks, RandomCall(chunks)
  PROVE  IInv'
<1>1. ContextInv' /\ IssuedInv'
  BY DEF RandomCall, IInv, ContextInv, IssuedInv, NeverRepeats, ResistantIsFresh
<1>2. output' = Blank(chunks) /\ fill' = chunks /\ Len(output') = chunks /\ output' \in Seq(Chunks)
  BY OutputTypes DEF RandomCall
<1>3. \A i \in 1 .. chunks : output'[i] = Old
  BY <1>2 DEF Blank
<1>4. OutputInv'
  BY <1>2, <1>3, Constants DEF RandomCall, OutputInv, FilledOrNothing, Idle
<1>5. QED
  BY <1>1, <1>4 DEF IInv

\* One chunk of TC_DRBG_random: the next of the buffer, or the end of the call.
LEMMA ChunkIInv ==
  ASSUME IInv, RandomChunk
  PROVE  IInv'
<1> DEFINE n == Len(output)
           at == n - fill + 1
<1>1. /\ output \in Seq(Chunks) /\ n \in 1 .. MaxChunks /\ fill \in 1 .. n /\ at \in 1 .. n
      /\ DOMAIN output = 1 .. n
  BY Constants DEF RandomChunk, IInv, OutputInv
<1>2. \A i \in 1 .. n : IF i < at THEN output[i].holds = "random" ELSE output[i] = Old
  BY <1>1 DEF IInv, OutputInv
<1>3. CASE ~IsLive(drbg)
  <2>1. output' = output /\ fill' = 0 /\ result' = "ERROR" /\ UNCHANGED <<drbg, seeds, issued>>
    BY <1>3 DEF RandomChunk, WipeFilled
  <2>2. at = 1
    BY <1>1, <1>3 DEF IInv, OutputInv
  <2>3. \A i \in 1 .. n : output[i] = Old
    BY <1>1, <1>2, <2>2
  <2>4. output = Blank(n)
    BY <1>1, <2>3 DEF Blank
  <2>5. OutputInv'
    BY <1>1, <2>1, <2>4, WholeOutput
  <2>6. ContextInv' /\ IssuedInv'
    BY <2>1 DEF IInv, ContextInv, IssuedInv, NeverRepeats, ResistantIsFresh
  <2>7. QED
    BY <2>5, <2>6 DEF IInv
<1>4. CASE IsLive(drbg)
  <2>1. PICK g \in Within(Generate(drbg, FALSE)) :
          /\ drbg' = g.drbg /\ seeds' = seeds + g.drawn
          /\ IF g.result = "OK"
             THEN /\ output' = [output EXCEPT ![at] = Chunk("random", g.from)]
                  /\ issued' = Append(issued, Issue(drbg, FALSE, g.from))
                  /\ fill' = fill - 1
                  /\ result' = IF fill = 1 THEN "OK" ELSE "NONE"
             ELSE /\ output' = WipeFilled(g.result, n, at)
                  /\ fill' = 0 /\ result' = "ERROR"
                  /\ UNCHANGED issued
    BY <1>4 DEF RandomChunk
  <2>2. CASE g.result # "OK"
    <3>1. ContextInv' /\ IssuedInv' /\ g.result \in {"ENTROPY", "ERROR"}
      BY <1>4, <2>1, <2>2, GenerateOutcomes, FailedInv DEF IInv
    <3>2. output' = Zeroed(n) /\ fill' = 0 /\ result' = "ERROR"
      BY <2>1, <2>2, <3>1 DEF WipeFilled
    <3>3. OutputInv'
      BY <1>1, <3>2, OutputTypes, WholeOutput
    <3>4. QED
      BY <3>1, <3>3 DEF IInv
  <2>3. CASE g.result = "OK"
    <3>1. ContextInv' /\ IssuedInv' /\ g.from \in States
      BY <1>4, <2>1, <2>3, AnsweredInv DEF IInv
    <3>2. IsLive(drbg')
      <4>1. /\ g.drawn \in {0, 1} /\ seeds + g.drawn \in 0 .. MaxSeeds
            /\ g.drbg = [Seeded(drbg, g.drawn) EXCEPT
                           !.state = Advanced(Seeded(drbg, g.drawn).state),
                           !.counter = Seeded(drbg, g.drawn).counter + 1]
        BY <1>4, <2>3, GenerateOutcomes DEF IInv
      <4>2. Seeded(drbg, g.drawn) \in Contexts /\ IsLive(Seeded(drbg, g.drawn))
        BY <1>4, <4>1, BaseContext DEF IInv
      <4>3. QED
        BY <2>1, <4>1, <4>2, AdvancedContext
    <3>3. Chunk("random", g.from) \in Chunks /\ Chunk("random", g.from).holds = "random"
      BY <3>1 DEF Chunk, Chunks
    <3>4. output' = [output EXCEPT ![at] = Chunk("random", g.from)] /\ fill' = fill - 1
      BY <2>1, <2>3
    <3>5. output' \in Seq(Chunks) /\ Len(output') = n
      BY <1>1, <3>3, <3>4
    <3>6. \A i \in 1 .. n : IF i <= at THEN output'[i].holds = "random" ELSE output'[i] = Old
      <4> SUFFICES ASSUME NEW i \in 1 .. n
                   PROVE  IF i <= at THEN output'[i].holds = "random" ELSE output'[i] = Old
        OBVIOUS
      <4> DEFINE chunk == Chunk("random", g.from)
      <4>1. /\ i < at => output[i].holds = "random"
            /\ i > at => output[i] = Old
        BY <1>1, <1>2
      <4>2. chunk.holds = "random" /\ output' = [output EXCEPT ![at] = chunk]
        BY <3>3, <3>4
      <4> HIDE DEF chunk
      <4>3. output'[i] = IF i = at THEN chunk ELSE output[i]
        BY <1>1, <4>2
      <4>4. QED
        BY <1>1, <4>1, <4>2, <4>3
    <3>7. CASE fill = 1
      <4>1. fill' = 0 /\ result' = "OK" /\ at = n
        BY <1>1, <2>1, <2>3, <3>7
      <4>2. \A i \in 1 .. n : output'[i].holds = "random"
        BY <1>1, <3>6, <4>1
      <4>3. OutputInv'
        BY <1>1, <3>5, <4>1, <4>2, WholeOutput
      <4>4. QED
        BY <3>1, <4>3 DEF IInv
    <3>8. CASE fill # 1
      <4>1. fill' \in 1 .. n /\ result' = "NONE" /\ at = n - fill'
        BY <1>1, <2>1, <2>3, <3>8
      <4>2. OutputInv'
        BY <1>1, <3>2, <3>5, <3>6, <4>1, Constants DEF OutputInv, FilledOrNothing, Idle
      <4>3. QED
        BY <3>1, <4>2 DEF IInv
    <3>9. QED
      BY <3>7, <3>8
  <2>4. QED
    BY <2>2, <2>3
<1>5. QED
  BY <1>3, <1>4

\* A context that was never instantiated satisfies the invariant.
LEMMA InitIInv == Init => IInv
<1> SUFFICES ASSUME Init PROVE IInv
  OBVIOUS
<1>1. Wiped \in Contexts /\ ~IsLive(Wiped) /\ Wiped.state.seed = 0 /\ Wiped.counter = 0 /\ Wiped.interval = 0
  BY Constants DEF Wiped, Contexts, States, Fresh, IsLive
<1>2. ContextInv
  BY <1>1, Constants DEF Init, ContextInv
<1>3. IssuedInv
  BY DEF Init, IssuedInv, NeverRepeats, ResistantIsFresh
<1>4. OutputInv
  BY Constants DEF Init, OutputInv, FilledOrNothing, Idle
<1>5. QED
  BY <1>2, <1>3, <1>4 DEF IInv

\* Every call, and every step of a call in progress, preserves the invariant.
LEMMA NextIInv == IInv /\ [Next]_vars => IInv'
<1> SUFFICES ASSUME IInv, [Next]_vars PROVE IInv'
  OBVIOUS
<1>1. CASE \E interval \in Intervals, resistance \in BOOLEAN : Instantiate(interval, resistance)
  BY <1>1, InstantiateIInv
<1>2. CASE InstantiateRejected
  <2>1. ContextInv' /\ IssuedInv'
    BY <1>2, ReplacedInv DEF InstantiateRejected, IInv, ContextInv
  <2>2. QED
    BY <1>2, <2>1, EmptyOutput DEF InstantiateRejected, Idle, IInv
<1>3. CASE ReseedCall
  BY <1>3, ReseedIInv
<1>4. CASE \E resistance \in BOOLEAN : GenerateCall(resistance)
  BY <1>4, GenerateIInv
<1>5. CASE \E chunks \in 1 .. MaxChunks : RandomCall(chunks)
  BY <1>5, RandomIInv
<1>6. CASE RandomChunk
  BY <1>6, ChunkIInv
<1>7. CASE Uninstantiate
  <2>1. ContextInv' /\ IssuedInv'
    BY <1>7, ReplacedInv DEF Uninstantiate, IInv, ContextInv
  <2>2. QED
    BY <1>7, <2>1, EmptyOutput DEF Uninstantiate, Idle, IInv
<1>8. CASE UNCHANGED vars
  BY <1>8 DEF vars, IInv, ContextInv, IssuedInv, OutputInv, NeverRepeats, ResistantIsFresh,
              FilledOrNothing, Idle
<1>9. QED
  BY <1>1, <1>2, <1>3, <1>4, <1>5, <1>6, <1>7, <1>8 DEF Next

\* The inductive invariant holds throughout every behaviour.
THEOREM Invariant == Spec => []IInv
  BY InitIInv, NextIInv, PTL DEF Spec

\* Every variable keeps its shape and the request counter stays within one of
\* the interval, whatever fails (TC_DRBG_generate).
THEOREM TypeCorrect == Spec => []TypeOK
<1>1. IInv => TypeOK
  BY Constants DEF IInv, ContextInv, OutputInv, TypeOK, Contexts, States
<1>2. QED
  BY <1>1, Invariant, PTL

\* No two outputs ever come from one working state, and none from a state a
\* failing primitive left undefined (live, record in drbg.c).
THEOREM OutputsNeverRepeat == Spec => []NeverRepeats
<1>1. IInv => NeverRepeats
  BY DEF IInv, IssuedInv
<1>2. QED
  BY <1>1, Invariant, PTL

\* An output requested with prediction resistance is the first of a seed drawn
\* in that very call, and a seed answers at most as many requests as the
\* interval, for every interval and every run of failures (TC_DRBG_generate).
THEOREM ResistanceReseeds == Spec => []ResistantIsFresh
<1>1. IInv => ResistantIsFresh
  BY DEF IInv, IssuedInv
<1>2. QED
  BY <1>1, Invariant, PTL

\* A TC_DRBG_random buffer is filled from end to end, or holds no output at all
\* (drbg_random.c).
THEOREM RandomAllOrNothing == Spec => []FilledOrNothing
<1>1. IInv => FilledOrNothing
  BY DEF IInv, OutputInv
<1>2. QED
  BY <1>1, Invariant, PTL

=============================================================================
