---------------------------- MODULE StartupProofs ---------------------------
(***************************************************************************)
(* Proofs, for every set of configurations and of listings, that a loop    *)
(* subscribes only to symbols the exchange lists, that the loops are those *)
(* the configuration asks for, and that the spelling chosen is the most    *)
(* preferred listed one.                                                   *)
(***************************************************************************)
EXTENDS Startup, WellFoundedInduction, TLAPS

\* The inductive invariant: nothing runs before a listed spelling is found,
\* nothing is tried with an invalid configuration, and Bitstamp lists
\* normalized symbols only.
IInv == /\ config \in Configs
        /\ phase \in {"trying", "streaming"} => Accepted(config)
        /\ NeverPanics
        /\ LoopsMatchConfig
        /\ config.exchange = "bitstamp" => \A symbol \in listing : symbol = Normalized(symbol)
        /\ SubscribesListed

\* The symbol subscribed to for a spelling the exchange lists is itself
\* listed (check_instrument_in_set, instrument_to_channel).
LEMMA ListedSymbol ==
    ASSUME IInv, NEW spelling, Listed(spelling)
    PROVE  Symbol(spelling) \in listing
<1>1. CASE spelling \in listing
  BY <1>1 DEF IInv, Symbol
<1>2. CASE config.exchange = "bitstamp" /\ Normalized(spelling) \in listing
  BY <1>2 DEF Symbol
<1> QED
  BY <1>1, <1>2 DEF Listed

LEMMA InitIInv == Init => IInv
BY DEF Init, IInv, SubscribesListed, LoopsMatchConfig, NeverPanics

\* What validate() guarantees when it accepts a configuration.
LEMMA AcceptedFacts ==
    ASSUME NEW c, Accepted(c)
    PROVE  /\ c.exchange \in Known
           /\ HasEndpoints(c.region, c.exchange)
           /\ c.exchange = "bitvavo" => ~Missing(c.api_key) /\ ~Missing(c.api_secret)
           /\ c.data_kind # {}
           /\ c.max_level # None => "lob" \in c.data_kind
<1>1. DOMAIN Checks(c) = 1..8
  BY DEF Checks
<1>2. \A i \in 1..8 : ~Checks(c)[i].fails
  BY <1>1 DEF Accepted
<1>3. c.exchange \in Known
  <2>1. ~Checks(c)[2].fails
    BY <1>2
  <2> QED
    BY <2>1 DEF Checks
<1>4. c.exchange = "bitvavo" => ~Missing(c.api_key) /\ ~Missing(c.api_secret)
  <2>1. ~Checks(c)[3].fails
    BY <1>2
  <2> QED
    BY <2>1 DEF Checks
<1>5. c.region \in Regions
  <2>1. ~Checks(c)[5].fails
    BY <1>2
  <2> QED
    BY <2>1 DEF Checks
<1>6. c.data_kind # {}
  <2>1. ~Checks(c)[7].fails
    BY <1>2
  <2> QED
    BY <2>1 DEF Checks
<1>7. c.max_level # None => "lob" \in c.data_kind
  <2>1. ~Checks(c)[8].fails
    BY <1>2
  <2> QED
    BY <2>1 DEF Checks, Contains
<1>8. HasEndpoints(c.region, c.exchange)
  <2>1. c.region \in DOMAIN ExchangeUrl
    BY <1>5 DEF Regions, ExchangeUrl
  <2>2. DOMAIN ExchangeUrl[c.region] = Known
    BY <1>5 DEF Regions, ExchangeUrl, Known
  <2> QED
    BY <1>3, <2>1, <2>2 DEF HasEndpoints
<1> QED
  BY <1>3, <1>4, <1>6, <1>7, <1>8

\* The kinds in the order of the loops, for each choice of kinds
\* (active_channel_kinds).
LEMMA ActiveKindsFacts ==
    ASSUME NEW kinds, kinds \subseteq Kinds, kinds # {}
    PROVE  LET active == ActiveChannelKinds(kinds)
           IN /\ Len(active) \in {1, 2}
              /\ {active[i] : i \in 1..Len(active)} = kinds
              /\ Len(active) = 2 => active[2] = "trade"
              /\ \A i, j \in 1..Len(active) : active[i] = active[j] => i = j
              /\ "lob" \in kinds => active[1] = "lob"
<1>2. CASE kinds = {"lob", "trade"}
  <2>1. ActiveChannelKinds(kinds) = <<"lob">> \o <<"trade">>
    BY <1>2 DEF ActiveChannelKinds, Active, Contains
  <2>2. /\ Len(ActiveChannelKinds(kinds)) = 2
        /\ ActiveChannelKinds(kinds)[1] = "lob" /\ ActiveChannelKinds(kinds)[2] = "trade"
    BY <2>1
  <2> QED
    BY <1>2, <2>2
<1>3. CASE kinds = {"lob"}
  <2>1. ActiveChannelKinds(kinds) = <<"lob">>
    BY <1>3 DEF ActiveChannelKinds, Active, Contains
  <2> QED
    BY <1>3, <2>1
<1>4. CASE kinds = {"trade"}
  <2>1. ActiveChannelKinds(kinds) = <<"trade">>
    BY <1>4 DEF ActiveChannelKinds, Active, Contains
  <2> QED
    BY <1>4, <2>1
<1> QED
  BY <1>2, <1>3, <1>4 DEF Kinds

\* What the loop of a channel is given (build_channel_streams).
LEMMA ChannelLoopFacts ==
    ASSUME NEW c, NEW kind, NEW symbol
    PROVE  /\ ChannelLoop(c, kind, symbol).kind = kind
           /\ ChannelLoop(c, kind, symbol).symbol = symbol
           /\ ChannelLoop(c, kind, symbol).params = WsLoopParams(c)
           /\ ChannelLoop(c, kind, symbol).hooks = Hooks(c)
           /\ c.exchange = "bitvavo" =>
                 /\ ChannelLoop(c, kind, symbol).settings.key = c.api_key
                 /\ ChannelLoop(c, kind, symbol).settings.secret = c.api_secret
<1>1. c.exchange = "bitvavo" => Settings(c) = BitvavoSettings(c)
  BY DEF Settings
<1> QED
  BY <1>1 DEF ChannelLoop, BitvavoSettings

\* An accepted configuration never makes a loop wait for a confirmation of
\* nothing (validate, auth_msgs, auth_confirmation_timeout).
LEMMA HooksFacts ==
    ASSUME NEW c, Accepted(c)
    PROVE  Hooks(c).auth_msgs = None <=> Hooks(c).auth_confirmation_timeout = None
<1>1. c.exchange \in Known
  BY AcceptedFacts
<1>2. CASE c.exchange = "bitvavo"
  <2>1. AuthMsgs(c.api_key, c.api_secret) # None
    BY <1>2, AcceptedFacts DEF Missing, AuthMsgs, None
  <2>2. Hooks(c) = BitvavoHooks(c)
    BY <1>2 DEF Hooks
  <2> QED
    BY <2>1, <2>2 DEF BitvavoHooks, TraitDefaults, None
<1>3. CASE c.exchange # "bitvavo"
  <2>1. /\ c.exchange = "okx" => Hooks(c) = OkxHooks
        /\ c.exchange = "kraken" => Hooks(c) = KrakenHooks
        /\ c.exchange = "bitstamp" => Hooks(c) = BitstampHooks
    BY DEF Hooks
  <2>2. OkxHooks.auth_msgs = None /\ OkxHooks.auth_confirmation_timeout = None
    BY DEF OkxHooks, TraitDefaults
  <2>3. KrakenHooks.auth_msgs = None /\ KrakenHooks.auth_confirmation_timeout = None
    BY DEF KrakenHooks, TraitDefaults
  <2>4. BitstampHooks.auth_msgs = None /\ BitstampHooks.auth_confirmation_timeout = None
    BY DEF BitstampHooks, TraitDefaults
  <2> QED
    BY <1>1, <1>3, <2>1, <2>2, <2>3, <2>4 DEF Known
<1> QED
  BY <1>2, <1>3

\* Starting the loops, the only step that adds any.
LEMMA StartIInv ==
    ASSUME IInv, phase = "trying", Listed(candidate), Start, UNCHANGED <<config, listing>>
    PROVE  IInv'
<1> DEFINE kinds == ActiveChannelKinds(config.data_kind)
           run == [i \in 1..Len(kinds) |-> ChannelLoop(config, kinds[i], Symbol(candidate))]
<1>1. loops' = run /\ phase' = "streaming"
  BY DEF Start
<1>2. Accepted(config) /\ config.data_kind \subseteq Kinds
  BY StartupAssumption DEF IInv
<1>3. /\ Len(kinds) \in {1, 2}
      /\ {kinds[i] : i \in 1..Len(kinds)} = config.data_kind
      /\ Len(kinds) = 2 => kinds[2] = "trade"
      /\ \A i, j \in 1..Len(kinds) : kinds[i] = kinds[j] => i = j
      /\ "lob" \in config.data_kind => kinds[1] = "lob"
  BY <1>2, ActiveKindsFacts, AcceptedFacts
<1> HIDE DEF kinds
<1>4. /\ Len(loops') = Len(kinds)
      /\ \A i \in 1..Len(loops') : loops'[i] = ChannelLoop(config, kinds[i], Symbol(candidate))
  BY <1>1, <1>3
<1>5. \A i \in 1..Len(loops') : loops'[i].symbol = Symbol(candidate) /\ loops'[i].kind = kinds[i]
  BY <1>4, ChannelLoopFacts
<1>6. SubscribesListed'
  BY <1>5, ListedSymbol DEF SubscribesListed
<1>7. LoopsMatchConfig'
  <2>1. {loops'[i].kind : i \in 1..Len(loops')} = config.data_kind
    BY <1>3, <1>4, <1>5
  <2>2. \A i, j \in 1..Len(loops') :
           /\ loops'[i].symbol = loops'[j].symbol
           /\ loops'[i].kind = "lob" => i = 1
           /\ loops'[i].kind = loops'[j].kind => i = j
    BY <1>3, <1>4, <1>5
  <2>3. config.max_level # None => loops'[1].kind = "lob"
    BY <1>2, <1>3, <1>4, <1>5, AcceptedFacts
  <2>4. ASSUME NEW i \in 1..Len(loops')
        PROVE  /\ config.exchange = "bitvavo" =>
                      ~Missing(loops'[i].settings.key) /\ ~Missing(loops'[i].settings.secret)
               /\ loops'[i].hooks.auth_msgs = None <=>
                      loops'[i].hooks.auth_confirmation_timeout = None
               /\ loops'[i].params.max_attempts # <<0>>
    <3>1. loops'[i] = ChannelLoop(config, kinds[i], Symbol(candidate))
      BY <1>4
    <3>2. config.exchange = "bitvavo" => /\ loops'[i].settings.key = config.api_key
                                             /\ loops'[i].settings.secret = config.api_secret
      BY <3>1, ChannelLoopFacts
    <3>3. loops'[i].params = WsLoopParams(config)
      BY <3>1, ChannelLoopFacts
    <3>4. WsLoopParams(config).max_attempts # <<0>>
      <4>1. NormalizeMaxAttempts(config.resilience.max_attempts) # <<0>>
        BY DEF NormalizeMaxAttempts, None
      <4>2. "max_attempts" \in DOMAIN config.resilience
        BY StartupAssumption DEF IInv
      <4> QED
        BY <4>1, <4>2 DEF WsLoopParams
    <3>5. loops'[i].hooks = Hooks(config)
      BY <3>1, ChannelLoopFacts
    <3>6. Hooks(config).auth_msgs = None <=> Hooks(config).auth_confirmation_timeout = None
      BY <1>2, HooksFacts
    <3> QED
      BY <1>2, <3>2, <3>3, <3>4, <3>5, <3>6, AcceptedFacts
  <2> QED
    BY <1>1, <2>1, <2>2, <2>3, <2>4 DEF LoopsMatchConfig
<1>8. (config.exchange = "bitstamp" => \A symbol \in listing : symbol = Normalized(symbol))'
  BY DEF IInv, Normalized
<1>9. config' \in Configs /\ Accepted(config)' /\ NeverPanics'
  BY <1>1, <1>2 DEF IInv, NeverPanics
<1> QED
  BY <1>6, <1>7, <1>8, <1>9 DEF IInv

\* Every other step leaves the loops alone and starts no stream.
LEMMA QuietIInv ==
    ASSUME IInv, UNCHANGED <<config, listing, loops>>,
           phase' = phase \/ (phase # "streaming" /\ phase' # "streaming"),
           phase' # "panicked", phase' = "trying" => Accepted(config)
    PROVE  IInv'
<1>1. /\ config' \in Configs /\ NeverPanics'
      /\ phase' \in {"trying", "streaming"} => Accepted(config)'
  BY DEF IInv, NeverPanics
<1>2. LoopsMatchConfig' /\ SubscribesListed'
  BY DEF IInv, LoopsMatchConfig, SubscribesListed
<1>3. (config.exchange = "bitstamp" => \A symbol \in listing : symbol = Normalized(symbol))'
  BY DEF IInv, Normalized
<1> QED
  BY <1>1, <1>2, <1>3 DEF IInv

LEMMA NextIInv == IInv /\ [Next]_vars => IInv'
<1> SUFFICES ASSUME IInv, [Next]_vars PROVE IInv'
  OBVIOUS
<1>0. phase # "panicked"
  BY DEF IInv, NeverPanics
<1>1. CASE ConfigRefused
  BY <1>1, QuietIInv DEF ConfigRefused, IInv
<1>2. CASE ConfigAccepted
  <2>1. HasEndpoints(config.region, config.exchange)
    BY <1>2, AcceptedFacts DEF ConfigAccepted
  <2> QED
    BY <1>2, <2>1, QuietIInv DEF ConfigAccepted, IInv
<1>3. CASE KrakenConnected
  BY <1>3, QuietIInv DEF KrakenConnected, IInv
<1>4. ASSUME phase = "trying", Decides PROVE IInv'
  <2>1. CASE Listed(candidate)
    BY <1>4, <2>1, StartIInv DEF Decides
  <2>2. CASE ~Listed(candidate)
    BY <1>4, <2>2, QuietIInv DEF Decides, TryNext, IInv
  <2> QED
    BY <2>1, <2>2
<1>5. CASE RestAnswered \/ KrakenAnswered
  BY <1>4, <1>5 DEF RestAnswered, KrakenAnswered
<1>6. CASE RestFails \/ KrakenDialFails \/ KrakenGivesNoList \/ KrakenTimesOut
  <2>1. Fails
    BY <1>6 DEF RestFails, KrakenDialFails, KrakenGivesNoList, KrakenTimesOut
  <2> QED
    BY <2>1, QuietIInv DEF Fails, TryNext, IInv
<1>7. CASE CallDropped
  BY <1>7, QuietIInv DEF CallDropped, IInv
<1>8. CASE Ended \/ UNCHANGED vars
  BY <1>0, <1>8, QuietIInv DEF Ended, vars, IInv
<1> QED
  BY <1>1, <1>2, <1>3, <1>5, <1>6, <1>7, <1>8 DEF Next

\* A loop never subscribes to a symbol the exchange does not list, whatever
\* is configured (validate_with_fallback to subscribe_msgs).
THEOREM SubscribesListedCorrect == Spec => []SubscribesListed
<1>1. IInv => SubscribesListed
  BY DEF IInv
<1> QED
  BY InitIInv, NextIInv, <1>1, PTL DEF Spec

\* The loops are those of the configured kinds, and none is left by a call
\* that fails or is dropped (active_channel_kinds, spawn_per_channel_streams).
THEOREM LoopsMatchConfigCorrect == Spec => []LoopsMatchConfig
<1>1. IInv => LoopsMatchConfig
  BY DEF IInv
<1> QED
  BY InitIInv, NextIInv, <1>1, PTL DEF Spec

\* An accepted configuration never meets a missing endpoint, for every region
\* and exchange (validate, websocket_url, rest_url).
THEOREM NeverPanicsCorrect == Spec => []NeverPanics
<1>1. IInv => NeverPanics
  BY DEF IInv
<1> QED
  BY InitIInv, NextIInv, <1>1, PTL DEF Spec

(* ---- the order of the fallback spellings -------------------------------- *)

\* Induction over the first n numbers, with a set in place of a predicate.
LEMMA UpTo ==
    ASSUME NEW n \in Nat, NEW S, 0 \in S, \A i \in 0..n-1 : i \in S => i + 1 \in S
    PROVE  n \in S
<1> DEFINE T == {i \in 0..n : i \notin S}
<1> SUFFICES ASSUME n \notin S PROVE FALSE
  OBVIOUS
<1>1. T \subseteq Nat /\ T # {}
  OBVIOUS
<1>2. PICK x \in T : \A y \in T : <<y, x>> \notin OpToRel(<, Nat)
  BY <1>1, NatLessThanWellFounded, WFMin
<1>3. \A y \in T : ~(y < x)
  BY <1>1, <1>2 DEF OpToRel
<1>4. x # 0 /\ x - 1 \in 0..n-1 /\ x - 1 < x
  OBVIOUS
<1>5. x - 1 \notin T
  BY <1>3, <1>4
<1> QED
  BY <1>4, <1>5

\* Products, one variable at a time.
LEMMA Products ==
    ASSUME NEW a \in Nat, NEW b \in Nat
    PROVE  /\ a * b \in Nat
           /\ a * b = b * a
           /\ a * (b + 1) = a * b + a
           /\ b > 0 => a * b >= a
OBVIOUS

LEMMA ProductsGrow ==
    ASSUME NEW d \in Nat, NEW a \in Nat, NEW b \in Nat, a < b
    PROVE  d * a + d <= d * b
<1>1. PICK c \in Nat : b = (a + 1) + c
  <2>1. b - (a + 1) \in Nat /\ b = (a + 1) + (b - (a + 1))
    OBVIOUS
  <2> QED BY <2>1
<1>2. d * b = d * (a + 1) + d * c
  BY <1>1
<1>3. d * (a + 1) = d * a + d /\ d * c \in Nat /\ d * a \in Nat
  BY Products
<1> QED BY <1>2, <1>3

\* Division with remainder.
LEMMA Division ==
    ASSUME NEW d \in Nat \ {0}, NEW q \in Nat, NEW r \in 0..d-1
    PROVE  (d * q + r) \div d = q /\ (d * q + r) % d = r
<1> DEFINE x == d * q + r
<1>1. x \in Nat /\ d * q \in Nat
  BY Products
<1>2. /\ x \div d \in Nat /\ x % d \in 0..d-1
      /\ x = d * (x \div d) + (x % d)
  BY <1>1
<1> HIDE DEF x
<1>3. ~(x \div d < q)
  <2> SUFFICES ASSUME x \div d < q PROVE FALSE
    OBVIOUS
  <2>1. d * (x \div d) + d <= d * q
    BY <1>2, ProductsGrow
  <2> QED BY <1>1, <1>2, <2>1, Products DEF x
<1>4. ~(q < x \div d)
  <2> SUFFICES ASSUME q < x \div d PROVE FALSE
    OBVIOUS
  <2>1. d * q + d <= d * (x \div d) /\ d * (x \div d) \in Nat
    BY <1>2, ProductsGrow, Products
  <2> QED BY <1>1, <1>2, <2>1 DEF x
<1>5. x \div d = q
  <2>1. x \div d \in Nat
    BY <1>2
  <2> QED BY <1>3, <1>4, <2>1
<1>6. x % d = r
  <2>1. x = d * q + r
    BY DEF x
  <2>2. x = d * q + (x % d)
    BY <1>2, <1>5
  <2> QED BY <1>1, <1>2, <2>1, <2>2
<1> QED BY <1>5, <1>6 DEF x

\* The place of a base, a quote and a separator in the three nested loops.
Place(Q, S, b, q, s) == S * (Q * b + q) + s

LEMMA PlaceIsNat ==
    ASSUME NEW Q \in Nat, NEW S \in Nat, NEW b \in Nat, NEW q \in 0..Q-1, NEW s \in 0..S-1
    PROVE  Place(Q, S, b, q, s) \in Nat
<1>1. Q * b \in Nat
  BY Products
<1>2. Q * b + q \in Nat /\ s \in Nat
  BY <1>1
<1>3. S * (Q * b + q) \in Nat
  BY <1>2, Products
<1> QED BY <1>2, <1>3 DEF Place

LEMMA PlaceDigits ==
    ASSUME NEW Q \in Nat \ {0}, NEW S \in Nat \ {0},
           NEW b \in Nat, NEW q \in Nat, q < Q, NEW s \in Nat, s < S,
           NEW x, x = Place(Q, S, b, q, s)
    PROVE  /\ x \in Nat
           /\ x \div (Q * S) = b
           /\ (x \div S) % Q = q
           /\ x % S = s
<1> DEFINE y == Q * b + q
<1>1. Q * b \in Nat /\ y \in Nat /\ q \in Nat /\ s \in Nat
  BY Products
<1>2. x = S * y + s
  BY DEF Place
<1>3. x \in Nat
  BY <1>1, <1>2, Products
<1>4. y \div Q = b /\ y % Q = q
  BY Division
<1>5. x \div S = y /\ x % S = s
  <2> HIDE DEF y
  <2> QED BY <1>1, <1>2, Division
<1>6. x \div (Q * S) = b
  <2>1. x = (Q * S) * b + (S * q + s)
    <3>1. S * y = S * (Q * b) + S * q
      BY <1>1
    <3>2. S * (Q * b) = (Q * S) * b
      BY <1>1
    <3>3. S * q \in Nat /\ (Q * S) * b \in Nat
      BY <1>1, Products
    <3> HIDE DEF y
    <3> QED BY <1>1, <1>2, <3>1, <3>2, <3>3
  <2>2. Q * S \in Nat \ {0}
    BY Products
  <2>3. S * q + s \in 0..(Q * S)-1
    <3>1. S * q + S <= S * Q /\ S * q \in Nat /\ S * Q = Q * S
      BY <1>1, ProductsGrow, Products
    <3> QED BY <1>1, <2>2, <3>1
  <2> QED BY <2>1, <2>2, <2>3, Division
<1> HIDE DEF y
<1> QED BY <1>3, <1>4, <1>5, <1>6

HasDigits(B, Q, S, x) ==
    \E b \in 0..B-1, q \in 0..Q-1, s \in 0..S-1 : x = Place(Q, S, b, q, s)

\* Every place is the place of its digits.
LEMMA DigitsPlace ==
    ASSUME NEW B \in Nat, NEW Q \in Nat, NEW S \in Nat,
           NEW x \in Nat, x < B * Q * S
    PROVE  HasDigits(B, Q, S, x)
<1>1. B * Q \in Nat
  BY Products
<1>2. Q > 0 /\ S > 0
  <2>1. Q = 0 => B * Q = 0
    OBVIOUS
  <2>2. (B * Q = 0 \/ S = 0) => B * Q * S = 0
    BY <1>1
  <2> QED BY <2>1, <2>2
<1> DEFINE y == x \div S
           s == x % S
           b == y \div Q
           q == y % Q
<1>3. y \in Nat /\ s \in 0..S-1 /\ x = S * y + s
  BY <1>2
<1> HIDE DEF y, s
<1>4. b \in Nat /\ q \in 0..Q-1 /\ y = Q * b + q
  BY <1>2, <1>3
<1> HIDE DEF b, q
<1>5. y < B * Q
  <2> SUFFICES ASSUME ~(y < B * Q) PROVE FALSE
    OBVIOUS
  <2>1. PICK c \in Nat : y = B * Q + c
    <3>1. y - B * Q \in Nat /\ y = B * Q + (y - B * Q)
      BY <1>1, <1>3
    <3> QED BY <3>1
  <2>2. S * y = S * (B * Q) + S * c
    BY <1>1, <2>1
  <2>3. S * (B * Q) = B * Q * S /\ S * c \in Nat /\ S * y \in Nat /\ B * Q * S \in Nat
    BY <1>1, <1>3, Products
  <2> QED BY <1>3, <2>2, <2>3
<1>6. b < B
  <2> SUFFICES ASSUME ~(b < B) PROVE FALSE
    OBVIOUS
  <2>1. PICK c \in Nat : b = B + c
    <3>1. b - B \in Nat /\ b = B + (b - B)
      BY <1>4
    <3> QED BY <3>1
  <2>2. Q * b = Q * B + Q * c
    BY <2>1
  <2>3. Q * B = B * Q /\ Q * c \in Nat /\ Q * b \in Nat
    BY <1>4, Products
  <2> QED BY <1>1, <1>4, <1>5, <2>2, <2>3
<1>7. b \in 0..B-1 /\ x = Place(Q, S, b, q, s)
  BY <1>3, <1>4, <1>6 DEF Place
<1> QED BY <1>3, <1>4, <1>7 DEF HasDigits

\* An earlier base comes earlier, then an earlier quote, then an earlier
\* separator.
LEMMA PlaceOrder ==
    ASSUME NEW Q \in Nat, NEW S \in Nat,
           NEW b1 \in Nat, NEW q1 \in 0..Q-1, NEW s1 \in 0..S-1,
           NEW b2 \in Nat, NEW q2 \in 0..Q-1, NEW s2 \in 0..S-1,
           b1 < b2 \/ (b1 = b2 /\ (q1 < q2 \/ (q1 = q2 /\ s1 < s2)))
    PROVE  Place(Q, S, b1, q1, s1) < Place(Q, S, b2, q2, s2)
<1> DEFINE y1 == Q * b1 + q1
           y2 == Q * b2 + q2
<1>1. /\ Q * b1 \in Nat /\ Q * b2 \in Nat /\ y1 \in Nat /\ y2 \in Nat
      /\ q1 \in Nat /\ q2 \in Nat /\ s1 \in Nat /\ s2 \in Nat
  BY Products
<1>2. y1 < y2 \/ (y1 = y2 /\ s1 < s2)
  <2>1. CASE b1 < b2
    <3>1. Q * b1 + Q <= Q * b2
      BY <2>1, ProductsGrow
    <3> QED BY <1>1, <3>1
  <2>2. CASE b1 = b2
    BY <1>1, <2>2
  <2> QED BY <2>1, <2>2
<1>3. Place(Q, S, b1, q1, s1) = S * y1 + s1 /\ Place(Q, S, b2, q2, s2) = S * y2 + s2
  BY DEF Place
<1> HIDE DEF y1, y2
<1>4. S * y1 \in Nat /\ S * y2 \in Nat
  BY <1>1, Products
<1>5. CASE y1 < y2
  <2>1. S * y1 + S <= S * y2
    BY <1>1, <1>5, ProductsGrow
  <2> QED BY <1>1, <1>3, <1>4, <2>1
<1>6. CASE y1 = y2 /\ s1 < s2
  BY <1>1, <1>3, <1>4, <1>6
<1> QED BY <1>2, <1>5, <1>6

\* v is what the loops have pushed after the first n of all combinations.
PushedUpTo(v, first, all, n) ==
    /\ Len(v) > 0 /\ v[1] = first
    /\ \A m \in 1..n : \E j \in 1..Len(v) : v[j] = all[m]
    /\ \A i \in 2..Len(v) :
          \E m \in 1..n : /\ v[i] = all[m]
                          /\ \A l \in 1..m-1 : \E j \in 1..i-1 : v[j] = all[l]

LEMMA PushKeeps ==
    ASSUME NEW X, NEW first \in X, NEW all \in Seq(X), NEW n \in 0..Len(all)-1,
           NEW v \in Seq(X), PushedUpTo(v, first, all, n)
    PROVE  PushedUpTo(IF all[n + 1] = first THEN v ELSE Append(v, all[n + 1]), first, all, n + 1)
<1> USE DEF PushedUpTo
<1>1. CASE all[n + 1] = first
  <2>1. \A m \in 1..n+1 : \E j \in 1..Len(v) : v[j] = all[m]
    <3> TAKE m \in 1..n+1
    <3>1. CASE m = n + 1
      BY <1>1, <3>1
    <3>2. CASE m # n + 1
      <4>1. m \in 1..n
        BY <3>2
      <4> QED BY <4>1
    <3> QED BY <3>1, <3>2
  <2>2. 1..n \subseteq 1..n+1
    OBVIOUS
  <2> QED BY <1>1, <2>1, <2>2
<1>2. CASE all[n + 1] # first
  <2> DEFINE w == Append(v, all[n + 1])
  <2>1. all[n + 1] \in X
    OBVIOUS
  <2>2. /\ Len(w) = Len(v) + 1 /\ w[Len(v) + 1] = all[n + 1]
        /\ \A i \in 1..Len(v) : w[i] = v[i]
    BY <2>1
  <2> HIDE DEF w
  <2>3. \A m \in 1..n+1 : \E j \in 1..Len(w) : w[j] = all[m]
    <3> TAKE m \in 1..n+1
    <3>1. CASE m = n + 1
      BY <2>2, <3>1
    <3>2. CASE m # n + 1
      <4>1. m \in 1..n
        BY <3>2
      <4>2. PICK j \in 1..Len(v) : v[j] = all[m]
        BY <4>1
      <4> QED BY <2>2, <4>2
    <3> QED BY <3>1, <3>2
  <2>4. ASSUME NEW i \in 2..Len(w)
        PROVE  \E m \in 1..n+1 : /\ w[i] = all[m]
                                 /\ \A l \in 1..m-1 : \E j \in 1..i-1 : w[j] = all[l]
    <3>1. CASE i = Len(v) + 1
      <4>1. \A l \in 1..(n+1)-1 : \E j \in 1..i-1 : w[j] = all[l]
        BY <2>2, <3>1
      <4> QED BY <2>2, <3>1, <4>1
    <3>2. CASE i # Len(v) + 1
      <4>1. i \in 2..Len(v)
        BY <2>2, <3>2
      <4>2. PICK m \in 1..n : /\ v[i] = all[m]
                              /\ \A l \in 1..m-1 : \E j \in 1..i-1 : v[j] = all[l]
        BY <4>1
      <4>3. w[i] = v[i] /\ \A j \in 1..i-1 : w[j] = v[j]
        BY <2>2, <4>1
      <4>4. \A l \in 1..m-1 : \E j \in 1..i-1 : w[j] = all[l]
        BY <4>2, <4>3
      <4>5. w[i] = all[m] /\ m \in 1..n+1
        BY <4>2, <4>3
      <4> QED BY <4>4, <4>5
    <3> QED BY <3>1, <3>2
  <2>5. Len(w) > 0 /\ w[1] = first
    BY <2>2
  <2> QED BY <1>2, <2>3, <2>4, <2>5 DEF w
<1> QED BY <1>1, <1>2

\* The variants are the first one and then every other combination, in the
\* order of the loops (generate_fallback_variants).
LEMMA VariantsFacts ==
    ASSUME NEW instrument, NEW rule, NEW all, all = Combinations(rule), NEW X,
           Cased(instrument, rule.case) \in X, all \in Seq(X)
    PROVE  /\ FallbackVariants(instrument, rule) \in Seq(X)
           /\ PushedUpTo(FallbackVariants(instrument, rule), Cased(instrument, rule.case),
                         all, Len(all))
<1> DEFINE first == Cased(instrument, rule.case)
           n == Len(all)
           Next1(v, i) == IF all[i] = first THEN v ELSE Append(v, all[i])
           Good(g, k) == g[0] = <<first>> /\ \A i \in 1..k : g[i] = Next1(g[i - 1], i)
           r == CHOOSE r : r = [i \in 0..n |-> IF i = 0 THEN <<first>>
                                               ELSE IF all[i] = first THEN r[i - 1]
                                               ELSE Append(r[i - 1], all[i])]
           T == {k \in 0..n : \E g \in [0..k -> Seq(X)] : Good(g, k)}
<1> HIDE DEF first
<1>1. first \in X /\ n \in Nat /\ <<first>> \in Seq(X)
  BY DEF first
<1>2. \A v \in Seq(X), i \in 1..n : Next1(v, i) \in Seq(X)
  OBVIOUS
<1> HIDE DEF Next1
<1>3. 0 \in T
  <2> DEFINE h == [i \in 0..0 |-> <<first>>]
  <2>1. h \in [0..0 -> Seq(X)] /\ Good(h, 0)
    BY <1>1
  <2> HIDE DEF h, Good
  <2> QED BY <1>1, <2>1
<1>4. ASSUME NEW k \in 0..n-1, k \in T PROVE k + 1 \in T
  <2>1. PICK g \in [0..k -> Seq(X)] : Good(g, k)
    BY <1>4
  <2> DEFINE next == Next1(g[k], k + 1)
             h == [i \in 0..k+1 |-> IF i = k + 1 THEN next ELSE g[i]]
  <2>2. g[k] \in Seq(X) /\ k + 1 \in 1..n /\ k + 1 \in 0..n
    BY <1>1
  <2>3. next \in Seq(X)
    BY <1>2, <2>2
  <2> HIDE DEF next
  <2>4. /\ h \in [0..k+1 -> Seq(X)]
        /\ h[k + 1] = next
        /\ \A i \in 0..k : h[i] = g[i]
    BY <2>3
  <2> HIDE DEF h
  <2>5. ASSUME NEW i \in 1..k+1 PROVE h[i] = Next1(h[i - 1], i)
    <3>1. CASE i = k + 1
      <4>1. i - 1 = k /\ h[i - 1] = g[k]
        BY <2>4, <3>1
      <4> QED BY <2>4, <3>1, <4>1 DEF next
    <3>2. CASE i # k + 1
      <4>1. i \in 1..k /\ i \in 0..k /\ i - 1 \in 0..k
        BY <3>2
      <4>2. g[i] = Next1(g[i - 1], i)
        BY <2>1, <4>1
      <4> QED BY <2>4, <4>1, <4>2
    <3> QED BY <3>1, <3>2
  <2>6. h[0] = <<first>>
    BY <2>1, <2>4
  <2>7. Good(h, k + 1)
    BY <2>5, <2>6
  <2> HIDE DEF Good
  <2> QED BY <2>2, <2>4, <2>7
<1>5. n \in T
  <2> HIDE DEF T
  <2> QED BY <1>1, <1>3, <1>4, UpTo
<1>6. PICK g \in [0..n -> Seq(X)] : Good(g, n)
  BY <1>5
<1>7. g = [i \in 0..n |-> IF i = 0 THEN <<first>>
                          ELSE IF all[i] = first THEN g[i - 1] ELSE Append(g[i - 1], all[i])]
  <2>1. ASSUME NEW i \in 0..n
        PROVE  g[i] = IF i = 0 THEN <<first>>
                      ELSE IF all[i] = first THEN g[i - 1] ELSE Append(g[i - 1], all[i])
    <3>1. i = 0 \/ i \in 1..n
      OBVIOUS
    <3> QED BY <1>6, <3>1 DEF Next1
  <2>2. g = [i \in 0..n |-> g[i]]
    BY <1>6
  <2> QED BY <2>1, <2>2, Zenon
<1>8. r = [i \in 0..n |-> IF i = 0 THEN <<first>>
                          ELSE IF all[i] = first THEN r[i - 1] ELSE Append(r[i - 1], all[i])]
  BY <1>7, Zenon
<1>9. FallbackVariants(instrument, rule) = r[n]
  BY Zenon DEF FallbackVariants, first
<1> HIDE DEF r
<1>10. /\ r[0] = <<first>>
       /\ \A i \in 1..n : r[i] = IF all[i] = first THEN r[i - 1] ELSE Append(r[i - 1], all[i])
  <2>1. \A i \in 0..n : r[i] = IF i = 0 THEN <<first>>
                               ELSE IF all[i] = first THEN r[i - 1] ELSE Append(r[i - 1], all[i])
    BY <1>8, Zenon
  <2>2. 0 \in 0..n /\ \A i \in 1..n : i \in 0..n /\ i # 0
    BY <1>1
  <2> QED BY <2>1, <2>2, Zenon
<1> DEFINE U == {k \in 0..n : r[k] \in Seq(X) /\ PushedUpTo(r[k], first, all, k)}
<1>11. 0 \in U
  <2>1. PushedUpTo(<<first>>, first, all, 0)
    BY DEF PushedUpTo
  <2>2. 0 \in 0..n
    BY <1>1
  <2> QED BY <1>1, <1>10, <2>1, <2>2, Zenon
<1>12. ASSUME NEW k \in 0..n-1, k \in U PROVE k + 1 \in U
  <2>1. k + 1 \in 1..n /\ (k + 1) - 1 = k /\ all[k + 1] \in X
    BY <1>1
  <2>2. r[k + 1] = IF all[k + 1] = first THEN r[k] ELSE Append(r[k], all[k + 1])
    BY <1>10, <2>1
  <2>3. PushedUpTo(r[k + 1], first, all, k + 1)
    BY <1>1, <1>12, <2>2, PushKeeps
  <2>4. r[k + 1] \in Seq(X)
    BY <1>12, <2>1, <2>2
  <2> QED BY <2>1, <2>3, <2>4
<1>13. n \in U
  <2> HIDE DEF U
  <2> QED BY <1>1, <1>11, <1>12, UpTo
<1> QED BY <1>9, <1>13 DEF first

\* The spelling that a base, a quote and a separator make.
Spelled(rule, b, q, s) ==
    Cased([base |-> rule.bases[b], quote |-> rule.quotes[q], sep |-> rule.separators[s],
           case |-> "upper"], rule.case)

\* all is what the three nested loops make of the rule, in their order.
InLoopOrder(rule, all) ==
    LET B == Len(rule.bases)  Q == Len(rule.quotes)  S == Len(rule.separators)
    IN /\ all \in Seq({all[m] : m \in 1..Len(all)}) /\ Len(all) = B * Q * S
       /\ \A m \in 1..Len(all) : \E b \in 1..B, q \in 1..Q, s \in 1..S :
             m = 1 + Place(Q, S, b - 1, q - 1, s - 1) /\ all[m] = Spelled(rule, b, q, s)
       /\ \A b \in 1..B, q \in 1..Q, s \in 1..S :
             LET m == 1 + Place(Q, S, b - 1, q - 1, s - 1)
             IN m \in 1..Len(all) /\ all[m] = Spelled(rule, b, q, s)

\* The n-th combination comes from the digits of n.
LEMMA LoopOrder ==
    ASSUME NEW rule, NEW X, rule.bases \in Seq(X), rule.quotes \in Seq(X),
           rule.separators \in Seq(X)
    PROVE  InLoopOrder(rule, Combinations(rule))
<1> DEFINE all == Combinations(rule)
           B == Len(rule.bases)
           Q == Len(rule.quotes)
           S == Len(rule.separators)
           N == B * Q * S
<1>1. B \in Nat /\ Q \in Nat /\ S \in Nat
  OBVIOUS
<1>2. all = [m \in 1..N |-> Combination(rule, m)]
  BY DEF Combinations
<1> HIDE DEF all, B, Q, S
<1>3. N \in Nat
  BY <1>1, Products
<1>4. all \in Seq({all[m] : m \in 1..Len(all)}) /\ Len(all) = N
  BY <1>2, <1>3
<1>5. ASSUME NEW b \in 1..B, NEW q \in 1..Q, NEW s \in 1..S
      PROVE  LET m == 1 + Place(Q, S, b - 1, q - 1, s - 1)
             IN m \in 1..N /\ all[m] = Spelled(rule, b, q, s)
  <2> DEFINE x == Place(Q, S, b - 1, q - 1, s - 1)
             m == 1 + x
  <2>1. /\ b - 1 \in Nat /\ b - 1 < B /\ q - 1 \in 0..Q-1 /\ s - 1 \in 0..S-1
        /\ Q \in Nat \ {0} /\ S \in Nat \ {0} /\ 0 \in 0..Q-1 /\ 0 \in 0..S-1
    BY <1>1
  <2>2. /\ x \in Nat /\ x \div (Q * S) = b - 1 /\ (x \div S) % Q = q - 1 /\ x % S = s - 1
    <3>1. q - 1 \in Nat /\ q - 1 < Q /\ s - 1 \in Nat /\ s - 1 < S
      BY <2>1
    <3>2. x = Place(Q, S, b - 1, q - 1, s - 1)
      OBVIOUS
    <3> HIDE DEF x
    <3> QED BY <2>1, <3>1, <3>2, PlaceDigits
  <2>3. x < N
    <3>1. x < Place(Q, S, B, 0, 0)
      BY <1>1, <2>1, PlaceOrder
    <3>2. Place(Q, S, B, 0, 0) = N
      <4>1. Place(Q, S, B, 0, 0) = S * (Q * B)
        <5>1. Q * B \in Nat /\ S * (Q * B) \in Nat
          BY <1>1, Products
        <5> QED BY <5>1 DEF Place
      <4>2. Q * B = B * Q /\ B * Q \in Nat
        BY <1>1, Products
      <4>3. S * (B * Q) = B * Q * S
        BY <1>1, <4>2, Products
      <4> QED BY <4>1, <4>2, <4>3
    <3> QED BY <3>1, <3>2
  <2> HIDE DEF x
  <2>4. m \in 1..N /\ m - 1 = x
    BY <1>3, <2>2, <2>3
  <2>5. all[m] = Combination(rule, m)
    BY <1>2, <2>4
  <2>6. /\ 1 + (m - 1) \div (Q * S) = b
        /\ 1 + (((m - 1) \div S) % Q) = q
        /\ 1 + ((m - 1) % S) = s
    BY <2>1, <2>2, <2>4
  <2>7. Combination(rule, m) = Spelled(rule, b, q, s)
    BY <2>6, Zenon DEF Combination, Spelled, Q, S
  <2> QED BY <2>4, <2>5, <2>7 DEF x
<1>6. ASSUME NEW m \in 1..N
      PROVE  \E b \in 1..B, q \in 1..Q, s \in 1..S :
                m = 1 + Place(Q, S, b - 1, q - 1, s - 1) /\ all[m] = Spelled(rule, b, q, s)
  <2>1. m - 1 \in Nat /\ m - 1 < N
    BY <1>3
  <2> DEFINE x == m - 1
  <2>2. PICK b \in 0..B-1, q \in 0..Q-1, s \in 0..S-1 : x = Place(Q, S, b, q, s)
    <3>1. x \in Nat /\ x < B * Q * S
      BY <2>1
    <3> HIDE DEF x, N
    <3>2. HasDigits(B, Q, S, x)
      BY <1>1, <3>1, DigitsPlace
    <3> QED BY <3>2 DEF HasDigits
  <2>3. /\ b + 1 \in 1..B /\ q + 1 \in 1..Q /\ s + 1 \in 1..S
        /\ (b + 1) - 1 = b /\ (q + 1) - 1 = q /\ (s + 1) - 1 = s
        /\ m = 1 + (m - 1)
    BY <1>1, <1>3
  <2>4. m = 1 + Place(Q, S, (b + 1) - 1, (q + 1) - 1, (s + 1) - 1)
    BY <2>2, <2>3
  <2>5. all[m] = Spelled(rule, b + 1, q + 1, s + 1)
    BY <1>5, <2>3, <2>4
  <2> QED BY <2>3, <2>4, <2>5
<1> HIDE DEF N
<1>7. /\ \A m \in 1..Len(all) : \E b \in 1..B, q \in 1..Q, s \in 1..S :
            m = 1 + Place(Q, S, b - 1, q - 1, s - 1) /\ all[m] = Spelled(rule, b, q, s)
      /\ \A b \in 1..B, q \in 1..Q, s \in 1..S :
            LET m == 1 + Place(Q, S, b - 1, q - 1, s - 1)
            IN m \in 1..Len(all) /\ all[m] = Spelled(rule, b, q, s)
  BY <1>4, <1>5, <1>6, Zenon
<1> QED BY <1>4, <1>7, Zenon DEF InLoopOrder, all, B, Q, S, N

\* The rule that applies is one of the exchange's, and well formed
\* (select_fallback_mapping).
LEMMA RuleTyped ==
    ASSUME config \in Configs, Aliases # {}
    PROVE  /\ SelectedMapping.bases \in Seq(STRING)
           /\ SelectedMapping.quotes \in Seq(STRING)
           /\ SelectedMapping.separators \in Seq(STRING)
<1>1. PICK a \in DOMAIN Rules : SelectedMapping = Rules[a]
  <2>1. CASE \E a \in Aliases : <<a>> = config.alias
    <3>1. PICK a \in Aliases : <<a>> = config.alias
      BY <2>1
    <3>2. config.alias[1] = a
      BY <3>1
    <3>3. SelectedMapping = Rules[a]
      BY <2>1, <3>2, Zenon DEF SelectedMapping
    <3> QED BY <3>1, <3>3, Zenon DEF Aliases
  <2>2. CASE ~\E a \in Aliases : <<a>> = config.alias
    <3>1. PICK a \in Aliases : TRUE
      OBVIOUS
    <3>2. a = "" /\ a \in DOMAIN Rules
      BY <2>2, <3>1, Zenon DEF Aliases
    <3>3. SelectedMapping = Rules[a]
      BY <2>2, <3>2, Zenon DEF SelectedMapping
    <3> QED BY <3>2, <3>3, Zenon
  <2> QED BY <2>1, <2>2
<1>2. config.exchange \in DOMAIN config.fallback /\ Rules = config.fallback[config.exchange]
  BY <1>1 DEF Rules
<1>3. {SelectedMapping.bases, SelectedMapping.quotes, SelectedMapping.separators}
         \subseteq Seq(STRING)
  BY <1>1, <1>2, StartupAssumption, Zenon
<1> QED BY <1>3

\* What Ranked holds, case by case.
LEMMA RankedCases ==
    ASSUME Aliases # {}
    PROVE  LET rule == SelectedMapping
           IN \A c \in Ranked :
                 \/ c = [spelling |-> config.instrument, rank |-> <<1, 0, 0, 0>>]
                 \/ c = [spelling |-> Cased(config.instrument, rule.case), rank |-> <<2, 0, 0, 0>>]
                 \/ \E b \in DOMAIN rule.bases, q \in DOMAIN rule.quotes, s \in DOMAIN rule.separators :
                       c = [spelling |-> Spelled(rule, b, q, s), rank |-> <<3, b, q, s>>]
BY DEF Ranked, Spelled

LEMMA RankedHas ==
    /\ [spelling |-> config.instrument, rank |-> <<1, 0, 0, 0>>] \in Ranked
    /\ Aliases # {} =>
          LET rule == SelectedMapping
          IN /\ [spelling |-> Cased(config.instrument, rule.case), rank |-> <<2, 0, 0, 0>>] \in Ranked
             /\ \A b \in DOMAIN rule.bases, q \in DOMAIN rule.quotes, s \in DOMAIN rule.separators :
                   [spelling |-> Spelled(rule, b, q, s), rank |-> <<3, b, q, s>>] \in Ranked
BY DEF Ranked, Spelled

\* Which ranks come before which.
LEMMA EarlierRanks ==
    /\ ~Earlier(<<1, 0, 0, 0>>, <<1, 0, 0, 0>>)
    /\ ~Earlier(<<2, 0, 0, 0>>, <<1, 0, 0, 0>>)
    /\ ~Earlier(<<2, 0, 0, 0>>, <<2, 0, 0, 0>>)
    /\ \A b, q, s : /\ ~Earlier(<<3, b, q, s>>, <<1, 0, 0, 0>>)
                    /\ ~Earlier(<<3, b, q, s>>, <<2, 0, 0, 0>>)
    /\ \A b1, q1, s1, b2, q2, s2 \in Nat :
          Earlier(<<3, b1, q1, s1>>, <<3, b2, q2, s2>>) =>
              b1 < b2 \/ (b1 = b2 /\ (q1 < q2 \/ (q1 = q2 /\ s1 < s2)))
<1>0. \A k \in 1..4 : k = 1 \/ k = 2 \/ k = 3 \/ k = 4
  OBVIOUS
<1>1. \A r, t : Earlier(r, t) <=>
         \/ r[1] < t[1]
         \/ r[1] = t[1] /\ r[2] < t[2]
         \/ r[1] = t[1] /\ r[2] = t[2] /\ r[3] < t[3]
         \/ r[1] = t[1] /\ r[2] = t[2] /\ r[3] = t[3] /\ r[4] < t[4]
  <2> TAKE r, t
  <2>1. 1..(1-1) = {} /\ 1..(2-1) = {1} /\ 1..(3-1) = {1, 2} /\ 1..(4-1) = {1, 2, 3}
    OBVIOUS
  <2> QED BY <1>0, <2>1 DEF Earlier
<1> QED BY <1>1

\* The fallback spellings of this call are those of its rule, in order.
LEMMA FallbacksFacts ==
    ASSUME config \in Configs, Aliases # {},
           NEW all, all = Combinations(SelectedMapping),
           NEW first, first = Cased(config.instrument, SelectedMapping.case)
    PROVE  /\ Len(Fallbacks) \in Nat /\ Len(all) \in Nat
           /\ Fallbacks \in Seq({first} \cup {all[m] : m \in 1..Len(all)})
           /\ PushedUpTo(Fallbacks, first, all, Len(all))
<1> DEFINE A == {all[m] : m \in 1..Len(all)}
           X == {first} \cup A
<1>1. all \in Seq(A)
  <2>1. InLoopOrder(SelectedMapping, all)
    BY RuleTyped, LoopOrder
  <2> QED BY <2>1 DEF InLoopOrder
<1> HIDE DEF A
<1>2. all \in Seq(X) /\ Len(all) \in Nat
  BY <1>1
<1>3. first \in X
  OBVIOUS
<1>4. Fallbacks = FallbackVariants(config.instrument, SelectedMapping)
  BY Zenon DEF Fallbacks
<1> HIDE DEF X
<1>5. Fallbacks \in Seq(X) /\ PushedUpTo(Fallbacks, first, all, Len(all))
  BY <1>2, <1>3, <1>4, VariantsFacts
<1>6. Len(Fallbacks) \in Nat
  BY <1>5
<1> QED BY <1>2, <1>5, <1>6 DEF X, A

\* c is the most preferred listed spelling, or comes before every listed one.
Best(c) == \A d \in Ranked : Earlier(d.rank, c.rank) => ~Listed(d.spelling)

LEMMA InstrumentIsBest ==
    \E c \in Ranked : c.spelling = config.instrument /\ Best(c)
<1> DEFINE c == [spelling |-> config.instrument, rank |-> <<1, 0, 0, 0>>]
<1>1. c \in Ranked
  BY RankedHas
<1>2. ASSUME NEW d \in Ranked PROVE ~Earlier(d.rank, c.rank)
  <2>1. CASE Aliases = {}
    <3>1. d = c
      BY <2>1 DEF Ranked
    <3> QED BY <3>1, EarlierRanks
  <2>2. CASE Aliases # {}
    BY <2>2, RankedCases, EarlierRanks
  <2> QED BY <2>1, <2>2
<1> QED BY <1>1, <1>2 DEF Best

\* A variant all of whose predecessors have failed is the best one left: every
\* spelling the rule ranks before it has been tried.
LEMMA VariantIsBest ==
    ASSUME config \in Configs, Aliases # {}, NEW k \in 1..Len(Fallbacks),
           ~Listed(config.instrument), \A j \in 1..k-1 : ~Listed(Fallbacks[j])
    PROVE  \E c \in Ranked : c.spelling = Fallbacks[k] /\ Best(c)
<1> DEFINE rule == SelectedMapping
           first == Cased(config.instrument, rule.case)
           all == Combinations(rule)
           B == Len(rule.bases)
           Q == Len(rule.quotes)
           S == Len(rule.separators)
           Nth(b, q, s) == 1 + Place(Q, S, b - 1, q - 1, s - 1)
<1>1. PushedUpTo(Fallbacks, first, all, Len(all)) /\ Len(all) \in Nat /\ Len(Fallbacks) \in Nat
  BY FallbacksFacts
<1>2. /\ B \in Nat /\ Q \in Nat /\ S \in Nat
      /\ DOMAIN rule.bases = 1..B /\ DOMAIN rule.quotes = 1..Q /\ DOMAIN rule.separators = 1..S
  BY RuleTyped
<1>3. /\ \A m \in 1..Len(all) : \E b \in 1..B, q \in 1..Q, s \in 1..S :
            m = Nth(b, q, s) /\ all[m] = Spelled(rule, b, q, s)
      /\ \A b \in 1..B, q \in 1..Q, s \in 1..S :
            Nth(b, q, s) \in 1..Len(all) /\ all[Nth(b, q, s)] = Spelled(rule, b, q, s)
  <2>1. InLoopOrder(rule, all)
    BY RuleTyped, LoopOrder
  <2> HIDE DEF rule, all
  <2> QED BY <2>1 DEF InLoopOrder
<1>4. \A d \in Ranked :
         \/ d = [spelling |-> config.instrument, rank |-> <<1, 0, 0, 0>>]
         \/ d = [spelling |-> first, rank |-> <<2, 0, 0, 0>>]
         \/ \E b \in 1..B, q \in 1..Q, s \in 1..S :
               d = [spelling |-> Spelled(rule, b, q, s), rank |-> <<3, b, q, s>>]
  BY <1>2, RankedCases
<1>5. /\ [spelling |-> first, rank |-> <<2, 0, 0, 0>>] \in Ranked
      /\ \A b \in 1..B, q \in 1..Q, s \in 1..S :
            [spelling |-> Spelled(rule, b, q, s), rank |-> <<3, b, q, s>>] \in Ranked
  BY <1>2, RankedHas
<1>6. ASSUME NEW b1 \in 1..B, NEW q1 \in 1..Q, NEW s1 \in 1..S,
             NEW b2 \in 1..B, NEW q2 \in 1..Q, NEW s2 \in 1..S,
             Earlier(<<3, b1, q1, s1>>, <<3, b2, q2, s2>>)
      PROVE  Nth(b1, q1, s1) < Nth(b2, q2, s2)
  <2>1. b1 < b2 \/ (b1 = b2 /\ (q1 < q2 \/ (q1 = q2 /\ s1 < s2)))
    BY <1>2, <1>6, EarlierRanks
  <2>2. /\ b1 - 1 \in Nat /\ q1 - 1 \in 0..Q-1 /\ s1 - 1 \in 0..S-1
        /\ b2 - 1 \in Nat /\ q2 - 1 \in 0..Q-1 /\ s2 - 1 \in 0..S-1
        /\ \/ b1 - 1 < b2 - 1
           \/ b1 - 1 = b2 - 1 /\ (q1 - 1 < q2 - 1 \/ (q1 - 1 = q2 - 1 /\ s1 - 1 < s2 - 1))
    BY <1>2, <2>1
  <2>3. Place(Q, S, b1 - 1, q1 - 1, s1 - 1) < Place(Q, S, b2 - 1, q2 - 1, s2 - 1)
    BY <1>2, <2>2, PlaceOrder
  <2>4. Place(Q, S, b1 - 1, q1 - 1, s1 - 1) \in Nat /\ Place(Q, S, b2 - 1, q2 - 1, s2 - 1) \in Nat
    BY <1>2, <2>2, PlaceIsNat
  <2> QED BY <2>3, <2>4
<1> HIDE DEF rule, first, all, B, Q, S, Nth
<1>7. CASE k = 1
  <2> DEFINE c == [spelling |-> first, rank |-> <<2, 0, 0, 0>>]
  <2>1. c \in Ranked /\ c.spelling = Fallbacks[k]
    BY <1>1, <1>5, <1>7 DEF PushedUpTo
  <2>2. ASSUME NEW d \in Ranked, Earlier(d.rank, c.rank) PROVE ~Listed(d.spelling)
    <3>1. d = [spelling |-> config.instrument, rank |-> <<1, 0, 0, 0>>]
      BY <1>4, <2>2, EarlierRanks
    <3> QED BY <3>1
  <2> QED BY <2>1, <2>2 DEF Best
<1>8. CASE k # 1
  <2>1. k \in 2..Len(Fallbacks)
    BY <1>1, <1>8
  <2>2. PICK m \in 1..Len(all) :
            /\ Fallbacks[k] = all[m]
            /\ \A l \in 1..m-1 : \E j \in 1..k-1 : Fallbacks[j] = all[l]
    BY <1>1, <2>1 DEF PushedUpTo
  <2>3. PICK b \in 1..B, q \in 1..Q, s \in 1..S :
            m = Nth(b, q, s) /\ all[m] = Spelled(rule, b, q, s)
    BY <1>3
  <2> DEFINE c == [spelling |-> Spelled(rule, b, q, s), rank |-> <<3, b, q, s>>]
  <2>4. c \in Ranked /\ c.spelling = Fallbacks[k]
    BY <1>5, <2>2, <2>3
  <2>5. ASSUME NEW d \in Ranked, Earlier(d.rank, c.rank) PROVE ~Listed(d.spelling)
    <3>1. CASE d = [spelling |-> config.instrument, rank |-> <<1, 0, 0, 0>>]
      BY <3>1
    <3>2. CASE d = [spelling |-> first, rank |-> <<2, 0, 0, 0>>]
      <4>1. 1 \in 1..k-1 /\ Fallbacks[1] = first
        BY <1>1, <2>1 DEF PushedUpTo
      <4> QED BY <3>2, <4>1
    <3>3. ASSUME NEW b1 \in 1..B, NEW q1 \in 1..Q, NEW s1 \in 1..S,
                 d = [spelling |-> Spelled(rule, b1, q1, s1), rank |-> <<3, b1, q1, s1>>]
          PROVE  ~Listed(d.spelling)
      <4>1. Nth(b1, q1, s1) < m
        BY <1>6, <2>3, <2>5, <3>3
      <4>2. Nth(b1, q1, s1) \in 1..Len(all) /\ all[Nth(b1, q1, s1)] = d.spelling
        BY <1>3, <3>3
      <4>3. Nth(b1, q1, s1) \in 1..m-1
        BY <1>1, <4>1, <4>2
      <4> QED BY <2>2, <4>2, <4>3
    <3> QED BY <1>4, <3>1, <3>2, <3>3
  <2> QED BY <2>4, <2>5 DEF Best
<1> QED BY <1>7, <1>8

\* Every spelling the rule reaches is the instrument or one of the variants.
LEMMA VariantsAreAll ==
    ASSUME config \in Configs, NEW c \in Ranked
    PROVE  \/ c.spelling = config.instrument
           \/ \E j \in 1..Len(Fallbacks) : c.spelling = Fallbacks[j]
<1>1. CASE Aliases = {}
  BY <1>1 DEF Ranked
<1>2. CASE Aliases # {}
  <2> DEFINE rule == SelectedMapping
             first == Cased(config.instrument, rule.case)
             all == Combinations(rule)
  <2>1. PushedUpTo(Fallbacks, first, all, Len(all)) /\ Len(Fallbacks) \in Nat
    BY <1>2, FallbacksFacts
  <2>2. CASE c = [spelling |-> first, rank |-> <<2, 0, 0, 0>>]
    <3> HIDE DEF first, all
    <3> QED BY <2>1, <2>2 DEF PushedUpTo
  <2>3. ASSUME NEW b \in DOMAIN rule.bases, NEW q \in DOMAIN rule.quotes,
               NEW s \in DOMAIN rule.separators,
               c = [spelling |-> Spelled(rule, b, q, s), rank |-> <<3, b, q, s>>]
        PROVE  \E j \in 1..Len(Fallbacks) : c.spelling = Fallbacks[j]
    <3>1. b \in 1..Len(rule.bases) /\ q \in 1..Len(rule.quotes) /\ s \in 1..Len(rule.separators)
      BY <1>2, RuleTyped
    <3>2. PICK m \in 1..Len(all) : all[m] = Spelled(rule, b, q, s)
      <4>1. InLoopOrder(rule, all)
        BY <1>2, RuleTyped, LoopOrder
      <4> HIDE DEF rule, all
      <4> QED BY <3>1, <4>1 DEF InLoopOrder
    <3> HIDE DEF first, all, rule
    <3> QED BY <2>1, <2>3, <3>2 DEF PushedUpTo
  <2>4. \/ c.spelling = config.instrument
        \/ c = [spelling |-> first, rank |-> <<2, 0, 0, 0>>]
        \/ \E b \in DOMAIN rule.bases, q \in DOMAIN rule.quotes, s \in DOMAIN rule.separators :
              c = [spelling |-> Spelled(rule, b, q, s), rank |-> <<3, b, q, s>>]
    BY <1>2, RankedCases
  <2> HIDE DEF first, all, rule
  <2> QED BY <2>1, <2>2, <2>3, <2>4 DEF PushedUpTo
<1> QED BY <1>1, <1>2

\* The instrument and the first k - 1 variants have been asked for in vain.
FailedUpTo(k) == ~Listed(config.instrument) /\ \A j \in 1..k-1 : ~Listed(Fallbacks[j])

\* Where the search is, as long as the exchange answers (validate_with_fallback).
Searched ==
    ~unanswered /\ Accepted(config) =>
       /\ phase = "called" => original /\ candidate = config.instrument
       /\ phase = "trying" =>
             \/ original /\ candidate = config.instrument
             \/ /\ ~original
                /\ \E k \in 1..Len(Fallbacks) :
                      /\ candidate = Fallbacks[k] /\ FailedUpTo(k)
                      /\ variants = SubSeq(Fallbacks, k + 1, Len(Fallbacks))
       /\ phase = "refused" => FailedUpTo(Len(Fallbacks) + 1)
       /\ phase = "streaming" =>
             \/ candidate = config.instrument
             \/ \E k \in 1..Len(Fallbacks) : candidate = Fallbacks[k] /\ FailedUpTo(k)

\* The variants form a sequence, whether or not a rule applies.
LEMMA FallbacksTyped ==
    ASSUME config \in Configs
    PROVE  /\ Len(Fallbacks) \in Nat /\ Fallbacks \in Seq({Fallbacks[j] : j \in 1..Len(Fallbacks)})
           /\ Aliases = {} => Len(Fallbacks) = 0
<1>1. CASE Aliases = {}
  <2>1. Fallbacks = <<>>
    BY <1>1, Zenon DEF Fallbacks
  <2> QED BY <2>1
<1>2. CASE Aliases # {}
  <2>1. \E X : Fallbacks \in Seq(X)
    BY <1>2, FallbacksFacts, Zenon
  <2> QED BY <1>2, <2>1
<1> QED BY <1>1, <1>2

LEMMA SearchConstant ==
    ASSUME config' = config, listing' = listing
    PROVE  /\ Fallbacks' = Fallbacks
           /\ \A k : FailedUpTo(k)' <=> FailedUpTo(k)
<1>1. Rules' = Rules
  BY Zenon DEF Rules
<1>2. Aliases' = Aliases
  BY <1>1, Zenon DEF Aliases
<1>3. SelectedMapping' = SelectedMapping
  BY <1>1, <1>2, Zenon DEF SelectedMapping
<1>4. Fallbacks' = Fallbacks
  BY <1>2, <1>3, Zenon DEF Fallbacks
<1>5. \A x : Listed(x)' <=> Listed(x)
  BY Zenon DEF Listed
<1> QED BY <1>4, <1>5, Zenon DEF FailedUpTo

LEMMA InitSearched == Init => Searched
BY DEF Init, Searched

\* A candidate that is not listed gives way to the next one, or ends the call
\* with every spelling tried.
LEMMA TryNextSearched ==
    ASSUME config \in Configs, Searched, phase = "trying", ~unanswered, Accepted(config),
           ~Listed(candidate), TryNext, config' = config, listing' = listing,
           unanswered' = unanswered
    PROVE  Searched'
<1> DEFINE F == Fallbacks
           E == {F[j] : j \in 1..Len(F)}
<1>1. F' = F /\ \A k : FailedUpTo(k)' <=> FailedUpTo(k)
  BY SearchConstant
<1>2. Len(F) \in Nat /\ F \in Seq(E)
  BY FallbacksTyped
<1>3. \E k \in 1..Len(F)+1 : FailedUpTo(k) /\ Candidates = SubSeq(F, k, Len(F))
  <2>1. CASE original /\ candidate = config.instrument
    <3>1. Candidates = F
      BY <2>1 DEF Candidates
    <3>2. FailedUpTo(1)
      BY <2>1 DEF FailedUpTo
    <3> HIDE DEF F, E
    <3>3. F = SubSeq(F, 1, Len(F))
      BY <1>2
    <3> QED BY <1>2, <3>1, <3>2, <3>3
  <2>2. ASSUME ~original, NEW k \in 1..Len(F), candidate = F[k], FailedUpTo(k),
               variants = SubSeq(F, k + 1, Len(F))
        PROVE  \E l \in 1..Len(F)+1 : FailedUpTo(l) /\ Candidates = SubSeq(F, l, Len(F))
    <3>1. \A j \in 1..(k+1)-1 : j = k \/ j \in 1..k-1
      BY <1>2
    <3>2. FailedUpTo(k + 1)
      BY <2>2, <3>1 DEF FailedUpTo
    <3>3. Candidates = SubSeq(F, k + 1, Len(F))
      BY <2>2 DEF Candidates
    <3>4. k + 1 \in 1..Len(F)+1
      BY <1>2
    <3> QED BY <3>2, <3>3, <3>4
  <2> QED BY <2>1, <2>2 DEF Searched
<1>4. PICK k \in 1..Len(F)+1 : FailedUpTo(k) /\ Candidates = SubSeq(F, k, Len(F))
  BY <1>3
<1> HIDE DEF E
<1>5. CASE Candidates = <<>>
  <2>1. phase' = "refused"
    BY <1>5 DEF TryNext
  <2>2. k = Len(F) + 1
    <3> HIDE DEF F
    <3>1. Len(SubSeq(F, k, Len(F))) = 0
      BY <1>4, <1>5
    <3>2. CASE k \in 1..Len(F)
      <4>1. Len(SubSeq(F, k, Len(F))) = Len(F) - k + 1
        BY <1>2, <3>2
      <4> QED BY <1>2, <3>1, <3>2, <4>1
    <3> QED BY <1>2, <3>2
  <2>3. FailedUpTo(Len(F) + 1)'
    BY <1>1, <1>4, <2>2
  <2> QED BY <1>1, <2>1, <2>3 DEF Searched
<1>6. CASE Candidates # <<>>
  <2>1. /\ phase' = "trying" /\ original' = FALSE
        /\ variants' = Tail(Candidates) /\ candidate' = Head(Candidates)
    BY <1>6 DEF TryNext, Try
  <2>2. /\ k \in 1..Len(F) /\ Head(SubSeq(F, k, Len(F))) = F[k]
        /\ Tail(SubSeq(F, k, Len(F))) = SubSeq(F, k + 1, Len(F))
    <3> HIDE DEF F
    <3>1. k \in 1..Len(F)
      BY <1>2, <1>4, <1>6
    <3> QED BY <1>2, <3>1
  <2>3. /\ k \in 1..Len(F') /\ candidate' = F'[k] /\ FailedUpTo(k)'
        /\ variants' = SubSeq(F', k + 1, Len(F'))
    BY <1>1, <1>4, <2>1, <2>2
  <2> HIDE DEF F
  <2>4. \E l \in 1..Len(F') : /\ candidate' = F'[l] /\ FailedUpTo(l)'
                              /\ variants' = SubSeq(F', l + 1, Len(F'))
    BY <2>3
  <2> QED BY <2>1, <2>4 DEF Searched, F
<1> QED BY <1>5, <1>6

\* A listed candidate is streamed.
LEMMA DecidesSearched ==
    ASSUME config \in Configs, Searched, phase = "trying", Decides
    PROVE  Searched'
<1>1. config' = config /\ listing' = listing /\ unanswered' = unanswered
  BY DEF Decides
<1>2. SUFFICES ASSUME ~unanswered, Accepted(config)
               PROVE  Searched'
  BY <1>1 DEF Searched
<1>3. CASE Listed(candidate)
  <2>1. phase' = "streaming" /\ candidate' = candidate
    BY <1>3 DEF Decides, Start
  <2>2. \/ candidate = config.instrument
        \/ \E k \in 1..Len(Fallbacks) : candidate = Fallbacks[k] /\ FailedUpTo(k)
    BY <1>2 DEF Searched
  <2>3. Fallbacks' = Fallbacks /\ \A k : FailedUpTo(k)' <=> FailedUpTo(k)
    BY <1>1, SearchConstant
  <2> QED BY <1>1, <2>1, <2>2, <2>3 DEF Searched
<1>4. CASE ~Listed(candidate)
  BY <1>1, <1>2, <1>4, TryNextSearched DEF Decides
<1> QED BY <1>3, <1>4

LEMMA NextSearched ==
    ASSUME config \in Configs, Searched, [Next]_vars
    PROVE  Searched'
<1>1. CASE ConfigRefused
  BY <1>1 DEF ConfigRefused, Searched
<1>2. CASE ConfigAccepted
  BY <1>2 DEF ConfigAccepted, Try, Searched
<1>3. CASE RestAnswered \/ KrakenAnswered
  BY <1>3, DecidesSearched DEF RestAnswered, KrakenAnswered
<1>4. CASE RestFails \/ KrakenDialFails \/ KrakenGivesNoList \/ KrakenTimesOut
  BY <1>4 DEF RestFails, KrakenDialFails, KrakenGivesNoList, KrakenTimesOut, Fails, Searched
<1>5. CASE CallDropped
  BY <1>5 DEF CallDropped, Searched
<1>6. CASE KrakenConnected \/ UNCHANGED vars
  <2>1. /\ config' = config /\ listing' = listing /\ phase' = phase /\ candidate' = candidate
        /\ variants' = variants /\ original' = original /\ unanswered' = unanswered
    BY <1>6 DEF KrakenConnected, vars
  <2>2. Fallbacks' = Fallbacks /\ \A k : FailedUpTo(k)' <=> FailedUpTo(k)
    BY <2>1, SearchConstant
  <2> QED BY <2>1, <2>2 DEF Searched
<1> QED
  BY <1>1, <1>2, <1>3, <1>4, <1>5, <1>6 DEF Next, Ended

\* What the search has done makes its result the best one.
LEMMA SearchedIsBest ==
    ASSUME config \in Configs, Searched
    PROVE  ChoosesBest
<1> SUFFICES ASSUME ~unanswered, Accepted(config)
             PROVE  /\ phase = "refused" => \A c \in Ranked : ~Listed(c.spelling)
                    /\ phase = "streaming" => \E c \in Ranked : c.spelling = candidate /\ Best(c)
  BY DEF ChoosesBest, Best
<1>0. Len(Fallbacks) \in Nat
  BY FallbacksTyped
<1>1. ASSUME phase = "refused", NEW c \in Ranked PROVE ~Listed(c.spelling)
  <2>1. FailedUpTo(Len(Fallbacks) + 1)
    BY <1>1 DEF Searched
  <2>2. \A j \in 1..Len(Fallbacks) : j \in 1..(Len(Fallbacks) + 1)-1
    BY <1>0
  <2> QED BY <2>1, <2>2, VariantsAreAll DEF FailedUpTo
<1>2. ASSUME phase = "streaming" PROVE \E c \in Ranked : c.spelling = candidate /\ Best(c)
  <2>1. CASE candidate = config.instrument
    BY <2>1, InstrumentIsBest
  <2>2. ASSUME NEW k \in 1..Len(Fallbacks), candidate = Fallbacks[k], FailedUpTo(k)
        PROVE  \E c \in Ranked : c.spelling = candidate /\ Best(c)
    <3>1. Aliases # {}
      BY <1>0, FallbacksTyped
    <3> QED BY <2>2, <3>1, VariantIsBest DEF FailedUpTo
  <2> QED BY <1>2, <2>1, <2>2 DEF Searched
<1> QED BY <1>1, <1>2

\* As long as the exchange answers, the spelling used is the most preferred
\* listed one, for every rule, instrument and listing, and the call is refused
\* only when none is listed (generate_fallback_variants, validate_with_fallback).
THEOREM ChoosesBestCorrect == Spec => []ChoosesBest
<1>1. Init => config \in Configs /\ Searched
  BY InitSearched DEF Init
<1>2. config \in Configs /\ Searched /\ [Next]_vars => (config \in Configs /\ Searched)'
  <2>1. [Next]_vars => config' = config
    BY DEF Next, vars, ConfigRefused, ConfigAccepted, KrakenConnected, RestAnswered,
           KrakenAnswered, RestFails, KrakenDialFails, KrakenGivesNoList, KrakenTimesOut,
           CallDropped, Ended, Decides, Fails
  <2> QED BY <2>1, NextSearched
<1>3. config \in Configs /\ Searched => ChoosesBest
  BY SearchedIsBest
<1> QED
  BY <1>1, <1>2, <1>3, PTL DEF Spec
=============================================================================
