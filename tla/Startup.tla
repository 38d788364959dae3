------------------------------ MODULE Startup -------------------------------
(***************************************************************************)
(* One call of stream() (stream.rs): the configuration is validated, the   *)
(* exchange is asked for the instrument and, when that fails, for one      *)
(* fallback spelling after the other (instrument.rs and the validation.rs  *)
(* of each exchange), and then one WebSocket loop per data kind is started *)
(* for the spelling found (mod.rs of each, spawn_per_channel_streams).     *)
(* Every await of the call is an exchange's answer; the caller may drop    *)
(* the call at any of them.                                                *)
(***************************************************************************)
EXTENDS Config

CONSTANTS Configs,      \* the configurations stream() is called with
          Listings      \* the sets of symbols the exchange may list

ASSUME StartupAssumption ==
    \A c \in Configs :
       /\ c.data_kind \subseteq Kinds /\ "max_attempts" \in DOMAIN c.resilience
       /\ \A exchange \in DOMAIN c.fallback : \A alias \in DOMAIN c.fallback[exchange] :
             LET rule == c.fallback[exchange][alias]
             IN {rule.bases, rule.quotes, rule.separators} \subseteq Seq(STRING)

VARIABLES config,       \* the configuration of this call
          listing,      \* the symbols the exchange lists
          phase,        \* "called", "trying", "streaming", "refused", "dropped"
                        \* or "panicked"
          candidate,    \* the spelling being validated
          variants,     \* the fallback spellings not tried yet
          original,     \* the candidate is the configured instrument
          request,      \* where its validation is: "none", "dialling", "awaiting"
          loops,        \* the WebSocket loops started, in order
          unanswered    \* history: some validation failed without an answer

vars == <<config, listing, phase, candidate, variants, original, request, loops,
          unanswered>>

(* ---- spellings of an instrument ---------------------------------------- *)

\* A spelling is base, separator, quote and the case it is written in; two
\* different ones are two different strings.
Spelling == [base : STRING, sep : STRING, quote : STRING,
             case : {"lower", "upper", "mixed"}]

\* apply_case_fallback
Cased(spelling, case) == IF case = "none" THEN spelling ELSE [spelling EXCEPT !.case = case]

\* A plausible bug: separators vary slower than quotes.
CombinationBySeparator(mapping, n) ==
    LET Q == Len(mapping.quotes)  S == Len(mapping.separators)
    IN Cased([base  |-> mapping.bases[1 + (n - 1) \div (Q * S)],
              quote |-> mapping.quotes[1 + ((n - 1) % Q)],
              sep   |-> mapping.separators[1 + (((n - 1) \div Q) % S)],
              case  |-> "upper"], mapping.case)

\* The n-th combination of the three nested loops.
Combination(mapping, n) ==
    LET Q == Len(mapping.quotes)  S == Len(mapping.separators)
    IN Cased([base  |-> mapping.bases[1 + (n - 1) \div (Q * S)],
              quote |-> mapping.quotes[1 + (((n - 1) \div S) % Q)],
              sep   |-> mapping.separators[1 + ((n - 1) % S)],
              case  |-> "upper"], mapping.case)

Combinations(mapping) ==
    [n \in 1..(Len(mapping.bases) * Len(mapping.quotes) * Len(mapping.separators))
       |-> Combination(mapping, n)]

\* generate_fallback_variants: the original in the mapping's case, then the
\* combinations that differ from it.
FallbackVariants(instrument, mapping) ==
    LET first == Cased(instrument, mapping.case)
        all == Combinations(mapping)
        pushed[n \in 0..Len(all)] == IF n = 0 THEN <<first>>
                                     ELSE IF all[n] = first THEN pushed[n - 1]
                                     ELSE Append(pushed[n - 1], all[n])
    IN pushed[Len(all)]

\* select_fallback_mapping: the exchange's rule for the alias, else for "".
Rules == IF config.exchange \in DOMAIN config.fallback THEN config.fallback[config.exchange]
         ELSE <<>>

Aliases == {a \in DOMAIN Rules : a = "" \/ <<a>> = config.alias}

SelectedMapping == Rules[IF \E a \in Aliases : <<a>> = config.alias THEN config.alias[1] ELSE ""]

\* What is tried after the configured instrument.
Fallbacks == IF Aliases = {} THEN <<>> ELSE FallbackVariants(config.instrument, SelectedMapping)

(* ---- the exchange's list ------------------------------------------------ *)

\* instrument_to_channel: Bitstamp's symbols are lowercase without separator.
Normalized(spelling) == [spelling EXCEPT !.sep = "", !.case = "lower"]

\* A plausible bug: every exchange is asked in Bitstamp's spelling.
ListedNormalized(spelling) == listing \cap {spelling, Normalized(spelling)} # {}

\* check_instrument_in_set and its like; Bitstamp accepts either spelling.
Listed(spelling) == \/ spelling \in listing
                    \/ config.exchange = "bitstamp" /\ Normalized(spelling) \in listing

\* The symbol a loop for this spelling subscribes to.
Symbol(spelling) == IF config.exchange = "bitstamp" THEN Normalized(spelling) ELSE spelling

(* ---- the call ----------------------------------------------------------- *)

\* The validation of a candidate starts: Kraken over a WebSocket of its own,
\* the others with one REST request.
Try(spelling) == /\ candidate' = spelling
                 /\ request' = IF config.exchange = "kraken" THEN "dialling" ELSE "awaiting"

ConfigRefused == /\ phase = "called" /\ ~Accepted(config)
                 /\ phase' = "refused"
                 /\ UNCHANGED <<config, listing, candidate, variants, original, request,
                                loops, unanswered>>

\* The validation looks up the endpoint of the exchange and the region.
ConfigAccepted == /\ phase = "called" /\ Accepted(config)
                  /\ IF HasEndpoints(config.region, config.exchange)
                     THEN phase' = "trying" /\ Try(config.instrument)
                     ELSE phase' = "panicked" /\ UNCHANGED <<candidate, request>>
                  /\ UNCHANGED <<config, listing, variants, original, loops, unanswered>>

\* Kraken: connected and the instrument channel subscribed.
KrakenConnected == /\ phase = "trying" /\ request = "dialling"
                   /\ request' = "awaiting"
                   /\ UNCHANGED <<config, listing, phase, candidate, variants, original,
                                  loops, unanswered>>

\* The adapters are built and their loops started without an await between:
\* build_channel_streams, spawn_per_channel_streams, merge_stream_handles.
Start == /\ phase' = "streaming"
         /\ request' = "none"
         /\ LET kinds == ActiveChannelKinds(config.data_kind)
            IN loops' = [i \in 1..Len(kinds) |-> ChannelLoop(config, kinds[i], Symbol(candidate))]
         /\ UNCHANGED <<candidate, variants, original>>

Candidates == IF original THEN Fallbacks ELSE variants

\* Plausible bugs: the queue of variants is not advanced; the last request is
\* not given up.
TryNextStuck ==
    \/ /\ Candidates = <<>>
       /\ phase' = "refused" /\ request' = "none"
       /\ UNCHANGED <<candidate, variants, original, loops>>
    \/ /\ Candidates # <<>>
       /\ original' = FALSE /\ variants' = Candidates /\ Try(Head(Candidates))
       /\ UNCHANGED <<phase, loops>>

\* The next candidate, if there is one; whatever the error was, it only warns.
TryNext ==
    \/ /\ Candidates = <<>>
       /\ phase' = "refused" /\ request' = "none"
       /\ UNCHANGED <<candidate, variants, original, loops>>
    \/ /\ Candidates # <<>>
       /\ original' = FALSE /\ variants' = Tail(Candidates) /\ Try(Head(Candidates))
       /\ UNCHANGED <<phase, loops>>

\* The exchange sends its list.
Decides == /\ IF Listed(candidate) THEN Start ELSE TryNext
           /\ UNCHANGED <<config, listing, unanswered>>

RestAnswered == /\ phase = "trying" /\ config.exchange # "kraken"
                /\ Decides

\* Other messages of the instrument channel are skipped.
KrakenAnswered == /\ phase = "trying" /\ config.exchange = "kraken" /\ request = "awaiting"
                  /\ Decides

\* A validation ends without a list; the error is as good as a refusal.
Fails == /\ phase = "trying"
         /\ unanswered' = TRUE
         /\ TryNext
         /\ UNCHANGED <<config, listing>>

\* Unreachable, an error status, an unreadable body.
RestFails == config.exchange # "kraken" /\ Fails

KrakenDialFails == config.exchange = "kraken" /\ request = "dialling" /\ Fails

\* A read error, a refused subscription or the end before the list.
KrakenGivesNoList == config.exchange = "kraken" /\ request = "awaiting" /\ Fails

\* Kraken's validation gives up by itself; a REST request has no timeout.
KrakenTimesOut == config.exchange = "kraken" /\ Fails

\* The caller drops the future: nothing has been started yet.
CallDropped == /\ phase = "trying"
               /\ phase' = "dropped" /\ request' = "none"
               /\ UNCHANGED <<config, listing, candidate, variants, original, loops, unanswered>>

Returned == phase \in {"streaming", "refused", "dropped", "panicked"}

Ended == Returned /\ UNCHANGED vars

\* Bitstamp lists its url_symbols, which are normalized.
Init == /\ config \in Configs /\ listing \in Listings
        /\ config.exchange = "bitstamp" => \A symbol \in listing : symbol = Normalized(symbol)
        /\ phase = "called"
        /\ candidate = config.instrument /\ variants = <<>> /\ original = TRUE
        /\ request = "none" /\ loops = <<>> /\ unanswered = FALSE

Next == \/ ConfigRefused \/ ConfigAccepted \/ KrakenConnected
        \/ RestAnswered \/ KrakenAnswered \/ RestFails \/ KrakenDialFails
        \/ KrakenGivesNoList \/ KrakenTimesOut \/ CallDropped \/ Ended

Spec == Init /\ [][Next]_vars

\* Local steps are taken and Kraken's timer fires; nothing is assumed about
\* the exchange.
FairSpec == Spec /\ WF_vars(ConfigRefused \/ ConfigAccepted) /\ WF_vars(KrakenTimesOut)

(* ---- properties ---------------------------------------------------------- *)

\* A loop never subscribes to a symbol the exchange does not list, whichever
\* spelling was found in whichever way (validate_with_fallback to
\* subscribe_msgs).
SubscribesListed == \A i \in 1..Len(loops) : loops[i].symbol \in listing

\* Every configured kind has its loop once the call succeeds, the book's
\* before the trades', one symbol for all, and max_level never goes without
\* a book; a Bitvavo loop can authenticate, a loop that authenticates has a
\* timeout for the confirmation, without which it panics, and no other loop
\* has one; a retry budget allows for at least one attempt; a call that fails
\* or is dropped leaves no loop behind (validate, active_channel_kinds,
\* build_channel_streams, auth_msgs, the expect in run_ws_loop,
\* normalize_max_attempts).
LoopsMatchConfig ==
    /\ phase # "streaming" => loops = <<>>
    /\ phase = "streaming" =>
          /\ {loops[i].kind : i \in 1..Len(loops)} = config.data_kind
          /\ \A i, j \in 1..Len(loops) :
                /\ loops[i].symbol = loops[j].symbol
                /\ loops[i].kind = "lob" => i = 1
                /\ loops[i].kind = loops[j].kind => i = j
          /\ \A i \in 1..Len(loops) :
                /\ config.max_level # None => loops[1].kind = "lob"
                /\ config.exchange = "bitvavo" =>
                      ~Missing(loops[i].settings.key) /\ ~Missing(loops[i].settings.secret)
                /\ loops[i].hooks.auth_msgs = None <=>
                      loops[i].hooks.auth_confirmation_timeout = None
                /\ loops[i].params.max_attempts # <<0>>

\* A configuration that validate() accepts never reaches the indexing of the
\* table of endpoints with a region or an exchange it does not have, which
\* would panic inside stream() or inside a loop (validate, websocket_url,
\* rest_url).
NeverPanics == phase # "panicked"

\* Where the fallback rule ranks a spelling, as the README describes it: the
\* instrument, then in the rule's case, then base before quote before
\* separator.  Smaller ranks are preferred.
Earlier(r, q) == \E k \in 1..4 : r[k] < q[k] /\ \A j \in 1..(k - 1) : r[j] = q[j]

Ranked ==
    LET rule == SelectedMapping
    IN {[spelling |-> config.instrument, rank |-> <<1, 0, 0, 0>>]} \cup
       (IF Aliases = {} THEN {} ELSE
          {[spelling |-> Cased(config.instrument, rule.case), rank |-> <<2, 0, 0, 0>>]} \cup
          {[spelling |-> Cased([base |-> rule.bases[b], quote |-> rule.quotes[q],
                                sep |-> rule.separators[s], case |-> "upper"], rule.case),
            rank |-> <<3, b, q, s>>] :
              b \in DOMAIN rule.bases, q \in DOMAIN rule.quotes, s \in DOMAIN rule.separators})

\* As long as the exchange answers, the spelling used is the most preferred
\* listed one, and the call is refused only if none is listed
\* (generate_fallback_variants, validate_with_fallback).
ChoosesBest ==
    ~unanswered /\ Accepted(config) =>
        /\ phase = "refused" => \A c \in Ranked : ~Listed(c.spelling)
        /\ phase = "streaming" =>
              \E c \in Ranked : /\ c.spelling = candidate
                                /\ \A d \in Ranked : Earlier(d.rank, c.rank) => ~Listed(d.spelling)

\* A call for Kraken always returns, however the exchange behaves: every
\* candidate is given up after VALIDATION_TIMEOUT_SECS and there are finitely
\* many of them.
KrakenReturns == config.exchange = "kraken" ~> Returned
=============================================================================
