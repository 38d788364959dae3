------------------------------- MODULE Market -------------------------------
(***************************************************************************)
(* The exchange's side of one market, as the adapters rely on it: the      *)
(* order book it holds and the incremental updates it publishes.  A book   *)
(* is the set of price levels present in it, one [side, price] each; the   *)
(* size of a level is abstracted, its presence kept.  The book after       *)
(* change n is truth[n], so positions in `truth' are the exchange's        *)
(* sequence numbers (Bitvavo's mdSeqNo, Bitstamp's microtimestamp).        *)
(* Nothing here is code of src/: it is what src/ assumes of its peer.      *)
(***************************************************************************)
EXTENDS Integers, Sequences, FiniteSets

CONSTANTS Prices,       \* the prices a level may have
          Openings,     \* the books the market may start from
          MaxMoves,     \* bound on the number of changes of the book
          MaxLevel,     \* config.max_level; 0 stands for None
          MaxLevelPct   \* config.max_level_pct, in whole percents

VARIABLES truth,        \* truth[n]: the book after change n
          touched,      \* levels changed since the last update was published
          published     \* number of the last change an update has covered

market == <<truth, touched, published>>

(* ---- order books ----------------------------------------------------- *)

Level == [side : {"bid", "ask"}, price : Prices]

\* best_bid >= best_ask, the condition of repair_crossing and of the guards
Crossed(book) == \E b, a \in book : /\ b.side = "bid" /\ a.side = "ask"
                                    /\ b.price >= a.price

\* a book or an item needs a level on both sides
TwoSided(book) == {l.side : l \in book} = {"bid", "ask"}

\* l is nearer to the other side than m
Better(l, m) == /\ l.side = m.side
                /\ IF l.side = "bid" THEN l.price > m.price ELSE l.price < m.price

\* max_level_pct: 0 and 100 upwards keep everything, else a level may be at
\* most that far from the best of its side
WithinPct(l, best) == IF l.side = "bid"
                      THEN 100 * l.price >= best.price * (100 - MaxLevelPct)
                      ELSE 100 * l.price <= best.price * (100 + MaxLevelPct)

NearBest(book) ==
    IF MaxLevelPct \notin 1..99 THEN book
    ELSE {l \in book : \A m \in book : Better(m, l) => WithinPct(l, m)}

\* max_level: the best levels of each side
Top(book) ==
    IF MaxLevel = 0 THEN book
    ELSE {l \in book : Cardinality({m \in book : Better(m, l)}) < MaxLevel}

NoItem == {}    \* None, and an adapter that has not emitted yet

\* to_lob_item: what the consumer is given of a book
Item(book) == IF TwoSided(book) THEN Top(NearBest(book)) ELSE NoItem

\* the levels of an update: size 0 removes, any other size inserts
Apply(book, update) == (book \ update.gone) \cup update.set

\* the books a matching engine can hold
Book == {book \in SUBSET Level : ~Crossed(book)}

ASSUME MarketAssumption == /\ Prices \subseteq Nat
                           /\ {MaxMoves, MaxLevel, MaxLevelPct} \subseteq Nat
                           /\ Openings \subseteq Book

(* ---- the exchange ---------------------------------------------------- *)

Now == truth[Len(truth)]

\* What an update sent now says: the current state of every touched level.
UpdateNow == [type |-> "update", from |-> published + 1, to |-> Len(truth),
              set |-> touched \cap Now, gone |-> touched \ Now]

MarketInit == /\ truth \in {<<book>> : book \in Openings}
              /\ touched = {}
              /\ published = 1

\* An order is placed, cancelled or matched: a level comes or goes.
MarketMoves == /\ Len(truth) <= MaxMoves
               /\ \E l \in Level :
                     LET book == IF l \in Now THEN Now \ {l} ELSE Now \cup {l} IN
                     /\ ~Crossed(book)
                     /\ truth' = Append(truth, book)
                     /\ touched' = touched \cup {l}
               /\ UNCHANGED published

\* A subscription starts with the changes after this moment.
Subscription == /\ touched' = {}
                /\ published' = Len(truth)
                /\ UNCHANGED truth

\* One update covers every change since the previous one.
Published == /\ published < Len(truth)
             /\ touched' = {}
             /\ published' = Len(truth)
             /\ UNCHANGED truth

MarketTypeOK == /\ truth \in Seq(Book) /\ truth # <<>>
                /\ touched \subseteq Level
                /\ published \in 1..Len(truth)
=============================================================================
