------------------------------ MODULE Metering ------------------------------
(***************************************************************************)
(* How a stream is metered: the token engine (pkg/token) counts the tokens *)
(* of each chunk, exactly when an encoder for the model was warmed up and  *)
(* by a rule of thumb otherwise; the pricing engine (pkg/pricing) turns    *)
(* them into whole millicents; the stream relay (internal/proxy/sse.go)    *)
(* adds the costs up, against a hold priced when the request came in.      *)
(* Encoders and prices may be replaced at any time.                        *)
(*                                                                         *)
(* A text is its length.  The tokenizer is external and works on bytes: a  *)
(* text of n characters has from 1 to 4n tokens.  A price table is a       *)
(* function from model names to the price of a thousand output tokens - a  *)
(* million, say the comments in engine.go:7-10 and 45; the code divides by *)
(* a thousand.  Input tokens are always 0, and no request carries images.  *)
(***************************************************************************)
EXTENDS Integers

CONSTANTS
    Streams,
    Warmers,        \* concurrent callers of Warmup
    Models,         \* names of models and of targets
    DefaultModel,   \* the entry "default"
    PriceTables,    \* what NewEngine and UpdatePrices may be given
    DefaultPrice,   \* NewEngine's price for "default", if it is given none
    Lengths,        \* of the text in a chunk
    MaxTokenLimit,  \* of one call of Calculate
    MaxChunks       \* bound: chunks of a stream

ASSUME MeteringAssumption ==
    /\ \A table \in PriceTables : table \in [DOMAIN table -> Nat]
    /\ DefaultPrice \in Nat /\ MaxTokenLimit \in Nat /\ MaxChunks \in Nat
    /\ Lengths \subseteq Nat \ {0}

VARIABLES
    prices,    \* the price table in force
    encoders,  \* the models with an encoder
    warming,   \* calls of Warmup: the model, and the table of encoders they copy
    meter      \* each stream: target, model, hold, total cost, and its history

metering == <<prices, encoders, warming, meter>>

HeldTokens == 4000
NotWarming == [model |-> DefaultModel, copied |-> {}, busy |-> FALSE]

(* What a stream is charged and how it came about: text, chunks and tokens  *)
(* counted, whether every count was the rule of thumb's, and whether every  *)
(* price was the hold's.                                                    *)
Unmetered ==
    [open |-> FALSE, model |-> DefaultModel, unit |-> 0, hold |-> 0, cost |-> 0,
     text |-> 0, chunks |-> 0, tokens |-> 0, rough |-> TRUE, steady |-> TRUE]

Meters ==
    [open : BOOLEAN, model : Models \cup {DefaultModel}, unit : Nat, hold : Nat, cost : Nat,
     text : Nat, chunks : Nat, tokens : Nat, rough : BOOLEAN, steady : BOOLEAN]

AtMost(n, cap) == IF n > cap THEN cap ELSE n

(* A slip: the division rounds down. *)
EstimateDown(length) == AtMost(length \div 4, MaxTokenLimit)

EstimateFallback(length) == AtMost((length + 3) \div 4, MaxTokenLimit)

(* The tokenizer: the fewest tokens, one a character, and one a byte.       *)
Encode(length) == {1, length, 4 * length}

(* Calculate, for text.                                                     *)
Calculate(model, length) ==
    IF model \in encoders THEN {AtMost(n, MaxTokenLimit) : n \in Encode(length)}
    ELSE {EstimateFallback(length)}

(* The price of a model, of "default", or the zero of a missing entry.      *)
Price(model) ==
    IF model \in DOMAIN prices THEN prices[model]
    ELSE IF DefaultModel \in DOMAIN prices THEN prices[DefaultModel] ELSE 0

(* CalculateCost of so many output tokens.                                  *)
CalculateCost(price, tokens) == (tokens * price) \div 1000

(* NewEngine.                                                               *)
WithDefault(table) ==
    [m \in DOMAIN table \cup {DefaultModel} |->
        IF m \in DOMAIN table THEN table[m] ELSE DefaultPrice]

MeteringInit ==
    /\ prices \in {WithDefault(table) : table \in PriceTables}
    /\ encoders = {}
    /\ warming = [w \in Warmers |-> NotWarming]
    /\ meter = [s \in Streams |-> Unmetered]

UpdatePrices(table) ==
    /\ prices' = table
    /\ UNCHANGED <<encoders, warming, meter>>

(* Warmup's mutex is free.                                                  *)
Unlocked == \A w \in Warmers : ~warming[w].busy

(* Warmup, up to the copy of the table; a model that is known returns.      *)
WarmupLoad(w, model) ==
    /\ Unlocked /\ ~warming[w].busy /\ model \notin encoders
    /\ warming' = [warming EXCEPT ![w] = [model |-> model, copied |-> encoders, busy |-> TRUE]]
    /\ UNCHANGED <<prices, encoders, meter>>

(* The encoder is loaded and the copy published, or there is none and       *)
(* Warmup returns an error.                                                 *)
WarmupStore(w) ==
    /\ warming[w].busy
    /\ encoders' \in {encoders, warming[w].copied \cup {warming[w].model}}
    /\ warming' = [warming EXCEPT ![w] = NotWarming]
    /\ UNCHANGED <<prices, meter>>

(* A slip: the hold is for ten times fewer tokens. *)
MeterShort(s, target, model) ==
    /\ ~meter[s].open
    /\ meter' = [meter EXCEPT ![s] =
         [Unmetered EXCEPT !.open = TRUE, !.model = model, !.unit = Price(target),
                           !.hold = CalculateCost(Price(target), 400)]]
    /\ UNCHANGED <<prices, encoders, warming>>

(* The hold of a request is priced for the target of its route, its stream  *)
(* for the model the client asked for.                                      *)
Meter(s, target, model) ==
    /\ ~meter[s].open
    /\ meter' = [meter EXCEPT ![s] =
         [Unmetered EXCEPT !.open = TRUE, !.model = model, !.unit = Price(target),
                           !.hold = CalculateCost(Price(target), HeldTokens)]]
    /\ UNCHANGED <<prices, encoders, warming>>

(* handleSSE, for a chunk that carries text.                                *)
Chunk(s, length) ==
    LET m == meter[s]
        price == Price(m.model) IN
    /\ m.open /\ m.chunks < MaxChunks
    /\ \E n \in Calculate(m.model, length) :
         meter' = [meter EXCEPT ![s] =
           [m EXCEPT !.cost = @ + CalculateCost(price, n),
                     !.text = @ + AtMost(length, 4 * MaxTokenLimit),
                     !.chunks = @ + 1, !.tokens = @ + n,
                     !.rough = @ /\ m.model \notin encoders,
                     !.steady = @ /\ price = m.unit]]
    /\ UNCHANGED <<prices, encoders, warming>>

MeteringNext ==
    \/ \E table \in PriceTables : UpdatePrices(table)
    \/ \E w \in Warmers : WarmupStore(w) \/ \E m \in Models : WarmupLoad(w, m)
    \/ \E s \in Streams :
         \/ \E target, model \in Models : Meter(s, target, model)
         \/ \E length \in Lengths : Chunk(s, length)

MeteringSpec == MeteringInit /\ [][MeteringNext]_metering

-----------------------------------------------------------------------------
(* Properties *)

(* server.go:207, sse.go:93: a stream of no more tokens than were held for  *)
(* is charged no more than was held, however it is cut into chunks and      *)
(* however its tokens were counted, provided that it is charged at the      *)
(* price it was held at: the price of its route's target then, and the      *)
(* price of the client's model now.                                         *)
HoldCovers ==
    \A s \in Streams :
        meter[s].steady /\ meter[s].tokens <= HeldTokens => meter[s].cost <= meter[s].hold

(* estimator.go:13-14: the rule of thumb never counts a stream for less     *)
(* than a token per four characters of the whole text (up to the limit of   *)
(* a call), and for at most one token more per chunk.                       *)
RoughNeverShort ==
    \A s \in Streams : meter[s].rough =>
        /\ meter[s].text <= 4 * meter[s].tokens
        /\ 4 * meter[s].tokens <= meter[s].text + 3 * meter[s].chunks

=============================================================================
