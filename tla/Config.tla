------------------------------- MODULE Config -------------------------------
(***************************************************************************)
(* The configuration of a stream (config.rs), the table of endpoints       *)
(* (urls.rs) and what the loop of one channel is given (WsLoopParams in    *)
(* wsloop.rs, build_channel_streams in the mod.rs of each exchange).  "" is *)
(* any blank string; the fields that only gate logging are left out.       *)
(***************************************************************************)
EXTENDS Integers, Sequences

None == <<>>                \* Option::None; Some(x) is <<x>>

(* ---- DataKind ----------------------------------------------------------- *)

Kinds == {"lob", "trade"}   \* a DataKind is the set of its bits

\* contains: a bit in common, not all of them.
Contains(kinds, other) == kinds \cap other # {}

\* The parts between the bars of the text.
Part(text) == CASE text = "Lob"   -> {"lob"}
                [] text = "Trade" -> {"trade"}
                [] OTHER          -> {}

\* Deserialize: an unknown part or no kind at all is an error, here None.
ParseDataKind(parts) ==
    LET kinds == UNION {Part(parts[i]) : i \in DOMAIN parts}
    IN IF kinds = {} \/ \E i \in DOMAIN parts : parts[i] \notin {"Lob", "Trade", ""}
       THEN None ELSE <<kinds>>

\* active_channel_kinds: first the order book, then the trades.
Active(kinds, kind) == IF Contains(kinds, {kind}) THEN <<kind>> ELSE <<>>

ActiveChannelKinds(kinds) == Active(kinds, "lob") \o Active(kinds, "trade")

(* ---- the defaults ------------------------------------------------------- *)

DefaultResilience ==
    [initial_backoff_ms |-> 1000, max_backoff_ms |-> 60000, backoff_multiplier |-> 2,
     jitter_ms |-> 1000, max_attempts |-> None, silence_timeout_secs |-> None,
     silence_reconnect_timeout_secs |-> <<30>>]

\* Fields a `resilience' section must have.
BackoffFields == {"initial_backoff_ms", "max_backoff_ms", "backoff_multiplier", "jitter_ms"}

\* Defaults of the fields that may be left out.
Optional == [alias |-> None, max_level |-> None, max_level_pct |-> 0, snapshot_delay |-> 6,
             resilience |-> DefaultResilience, fallback |-> <<>>,
             api_key |-> None, api_secret |-> None]

Required == {"exchange", "region", "instrument", "data_kind"}

WithDefaults(given, defaults) ==
    [f \in DOMAIN given \cup DOMAIN defaults |-> IF f \in DOMAIN given THEN given[f] ELSE defaults[f]]

\* The configuration made of the fields in `given', or None when it cannot be
\* read; its data kinds are given as parts.
Deserialized(given) ==
    IF \/ ~(Required \subseteq DOMAIN given)
       \/ ParseDataKind(given.data_kind) = None
       \/ "resilience" \in DOMAIN given /\ ~(BackoffFields \subseteq DOMAIN given.resilience)
    THEN None
    ELSE LET kinds == ParseDataKind(given.data_kind)[1]
             full == WithDefaults([given EXCEPT !.data_kind = kinds], Optional)
         IN <<[full EXCEPT !.resilience = WithDefaults(@, DefaultResilience)]>>

(* ---- validate ----------------------------------------------------------- *)

Known == {"okx", "kraken", "bitstamp", "bitvavo"}

\* An instrument is a spelling, see Startup.
Blank == [base |-> "", sep |-> "", quote |-> "", case |-> "lower"]

Missing(secret) == secret \in {None, <<"">>}

\* Plausible bug: a region is accepted before the table of endpoints has it.
RegionsAhead == {"global", "europe", "usa"}

Regions == {"global", "europe"}

\* The checks of validate() in their order; the first that fails is reported.
Checks(c) ==
    << [error |-> "MissingExchange",    fails |-> c.exchange = ""],
       [error |-> "UnknownExchange",    fails |-> c.exchange \notin Known],
       [error |-> "MissingCredentials", fails |-> /\ c.exchange = "bitvavo"
                                                  /\ Missing(c.api_key) \/ Missing(c.api_secret)],
       [error |-> "MissingRegion",      fails |-> c.region = ""],
       [error |-> "UnknownRegion",      fails |-> c.region \notin Regions],
       [error |-> "MissingInstrument",  fails |-> c.instrument = Blank],
       [error |-> "EmptyDataKind",      fails |-> c.data_kind = {}],
       [error |-> "MaxLevelWithoutLob", fails |-> /\ c.max_level # None
                                                  /\ ~Contains(c.data_kind, {"lob"})] >>

Accepted(c) == \A i \in DOMAIN Checks(c) : ~Checks(c)[i].fails

ConfigError(c) == LET first == CHOOSE i \in DOMAIN Checks(c) :
                                  /\ Checks(c)[i].fails
                                  /\ \A j \in 1..(i - 1) : ~Checks(c)[j].fails
                  IN Checks(c)[first].error

(* ---- endpoints ---------------------------------------------------------- *)

Endpoint(websocket, rest) == [websocket |-> websocket, rest |-> rest]

\* EXCHANGE_URL, by host: only OKX has a websocket of its own in Europe.
ExchangeUrl ==
    [region \in {"global", "europe"} |->
       [okx      |-> Endpoint(IF region = "global" THEN "ws.okx" ELSE "wseea.okx", "www.okx"),
        kraken   |-> Endpoint("ws.kraken", "api.kraken"),
        bitstamp |-> Endpoint("ws.bitstamp", "www.bitstamp"),
        bitvavo  |-> Endpoint("ws-mdpro.bitvavo", "api.bitvavo")]]

\* Whether the indexing in websocket_url and rest_url finds an entry; it
\* panics otherwise.
HasEndpoints(region, exchange) ==
    /\ region \in DOMAIN ExchangeUrl
    /\ exchange \in DOMAIN ExchangeUrl[region]

(* ---- the loop of one channel -------------------------------------------- *)

\* Plausible bug: a limit of 0 is a limit.
KeepsZeroAttempts(max) == max

\* normalize_max_attempts: no attempts at all means no limit.
NormalizeMaxAttempts(max) == IF max = <<0>> THEN None ELSE max

\* WsLoopParams::from_config
WsLoopParams(c) == [c.resilience EXCEPT !.max_attempts = NormalizeMaxAttempts(@)]

\* What build_channel_streams of each exchange gives the adapters.
OkxSettings(c) == [level |-> c.max_level, pct |-> c.max_level_pct]

KrakenSettings(c) == [level |-> c.max_level, pct |-> c.max_level_pct]

BitstampSettings(c) == [level |-> c.max_level, pct |-> c.max_level_pct, delay |-> c.snapshot_delay]

BitvavoSettings(c) == [level |-> c.max_level, pct |-> c.max_level_pct,
                       key |-> c.api_key, secret |-> c.api_secret]

\* The match in stream().
Settings(c) == CASE c.exchange = "okx"      -> OkxSettings(c)
                 [] c.exchange = "kraken"   -> KrakenSettings(c)
                 [] c.exchange = "bitstamp" -> BitstampSettings(c)
                 [] c.exchange = "bitvavo"  -> BitvavoSettings(c)

\* What ExchangeAdapter answers about keepalive and authentication where an
\* exchange says nothing of its own; without ping_msg the ping is a frame.
TraitDefaults == [keepalive_interval_ms |-> 5000, ping_msg |-> None,
                  auth_msgs |-> None, auth_confirmation_timeout |-> None]

OkxHooks == [TraitDefaults EXCEPT !.keepalive_interval_ms = 18000]

KrakenHooks == [TraitDefaults EXCEPT !.keepalive_interval_ms = 6000, !.ping_msg = <<"ping">>]

BitstampHooks == [TraitDefaults EXCEPT !.keepalive_interval_ms = 5000]

\* auth_msgs: only with both credentials.
AuthMsgs(key, secret) == IF None \in {key, secret} THEN None ELSE <<"auth">>

BitvavoHooks(c) == [TraitDefaults EXCEPT !.auth_msgs = AuthMsgs(c.api_key, c.api_secret),
                                         !.auth_confirmation_timeout = <<10>>]

Hooks(c) == CASE c.exchange = "okx"      -> OkxHooks
              [] c.exchange = "kraken"   -> KrakenHooks
              [] c.exchange = "bitstamp" -> BitstampHooks
              [] c.exchange = "bitvavo"  -> BitvavoHooks(c)

\* The adapter of one kind, and its loop.
ChannelLoop(c, kind, symbol) ==
    [kind |-> kind, symbol |-> symbol, url |-> ExchangeUrl[c.region][c.exchange].websocket,
     settings |-> Settings(c), hooks |-> Hooks(c), params |-> WsLoopParams(c)]
=============================================================================
