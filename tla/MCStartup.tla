----------------------------- MODULE MCStartup ------------------------------
(* Small instances of the startup for TLC: configurations read from their    *)
(* fields, or filled in by the program and so without any of the checks of   *)
(* the reader; an instrument written with a slash, a rule with two bases,    *)
(* quotes and separators in each case, under the alias of the call, under "" *)
(* or under neither; up to two symbols listed among those the rule reaches.  *)
EXTENDS Startup, FiniteSets, TLC

S(base, sep, quote, case) == [base |-> base, sep |-> sep, quote |-> quote, case |-> case]

Rule(case) == [bases |-> <<"XBT", "BTC">>, quotes |-> <<"USD", "EUR">>,
               separators |-> <<"/", "">>, case |-> case]

OtherRule == [bases |-> <<"BTC">>, quotes |-> <<"EUR">>, separators |-> <<"">>, case |-> "lower"]

Fallback == {[a \in {"own", ""} |-> IF a = "own" THEN Rule(case) ELSE OtherRule] :
                case \in {"none", "lower", "upper"}}
            \cup {[a \in {""} |-> Rule("lower")]}

\* The fields every caller gives.
Given(exchange, region, instrument, parts) ==
    [exchange |-> exchange, region |-> region, instrument |-> instrument, data_kind |-> parts]

Secrets(exchange) == IF exchange = "bitvavo" THEN [api_key |-> <<"k">>, api_secret |-> <<"s">>]
                     ELSE [f \in {} |-> None]

Parts == {<<"Lob", "Trade">>, <<"Trade", "", "Trade">>, <<"">>, <<"Lob", "Quote">>}

Searching ==
    UNION {{Given(e, "global", S("BTC", "/", "USD", case), parts) @@ Secrets(e)
              @@ [alias |-> <<"own">>, fallback |-> (e :> rules)] :
                rules \in Fallback, case \in {"upper", "mixed"}, parts \in Parts}
           : e \in Known}

\* Every way to fail a check, and sections that are there in part.
Odd ==
    UNION {{Given(e, region, S("BTC", "/", "USD", "upper"), <<"Trade", "Lob">>),
            Given(e, region, S("BTC", "/", "USD", "upper"), <<"Trade">>)
               @@ [max_level |-> <<1>>] @@ Secrets(e),
            Given(e, region, S("BTC", "/", "USD", "upper"), <<"Lob">>)
               @@ [api_key |-> <<"">>, api_secret |-> <<"s">>],
            Given(e, region, S("BTC", "/", "USD", "upper"), <<"Lob">>) @@ Secrets(e)
               @@ [max_level |-> <<1>>,
                   resilience |-> [f \in BackoffFields |-> 1] @@ [max_attempts |-> <<0>>]],
            Given(e, region, S("BTC", "/", "USD", "upper"), <<"Lob">>) @@ Secrets(e)
               @@ [resilience |-> [max_attempts |-> <<1>>]],
            Given(e, region, Blank, <<"Lob">>) @@ Secrets(e)}
           : e \in Known \cup {"", "unknown"}, region \in {"global", "europe", "usa", ""}}

FromFields == UNION {{Deserialized(given)[i] : i \in DOMAIN Deserialized(given)} :
                        given \in Searching \cup Odd}

\* DataSourceConfig::default() with some of its fields set.
FromDefault == {WithDefaults(Given(e, "global", S("BTC", "/", "USD", "upper"), kinds), Optional) :
                   e \in {"okx", "bitvavo"}, kinds \in {{}, {"trade"}}}

SmallConfigs == FromFields \cup FromDefault

SmallListings ==
    {symbols \in SUBSET {S("BTC", "/", "USD", "upper"), S("BTC", "", "USD", "lower"),
                         S("XBT", "/", "EUR", "upper"), S("XBT", "", "USD", "upper"),
                         S("XBT", "", "EUR", "lower"), S("BTC", "", "EUR", "lower")} :
       Cardinality(symbols) <= 2}
=============================================================================
