---------------------------- MODULE MarketProofs ----------------------------
(***************************************************************************)
(* Lemmas about the market and about replaying a buffer of updates, shared *)
(* by the proofs of the adapters.                                          *)
(***************************************************************************)
EXTENDS Market, WellFoundedInduction, TLAPS

(* ---- replaying a buffer ----------------------------------------------- *)

\* Induction over the first n numbers, with a set in place of a predicate.
LEMMA UpTo ==
    ASSUME NEW n \in Nat, NEW S, 0 \in S, \A i \in 0..n-1 : i \in S => i + 1 \in S
    PROVE  n \in S
<1> DEFINE T == {i \in 0..n : i \notin S}
<1> SUFFICES ASSUME n \notin S PROVE FALSE
  OBVIOUS
<1>1. T \subseteq Nat /\ T # {}
  OBVIOUS
<1>2. PICK x \in T : \A y \in T : <<y, x>> \notin OpToRel(<, Nat)
  BY <1>1, NatLessThanWellFounded, WFMin
<1>3. \A y \in T : ~(y < x)
  BY <1>1, <1>2 DEF OpToRel
<1>4. x # 0 /\ x - 1 \in 0..n-1 /\ x - 1 < x
  OBVIOUS
<1>5. x - 1 \notin T
  BY <1>3, <1>4
<1> QED
  BY <1>4, <1>5

\* g is the replay of the updates us from state s on: g[i] is the state after
\* the first i of them.
Replays(g, F, s, us) ==
    g[0] = s /\ \A i \in 1..Len(us) : g[i] = F[<<g[i - 1], us[i]>>]

\* Every buffer can be replayed.
LEMMA ReplayExists ==
    ASSUME NEW St, NEW Up, NEW F \in [St \X Up -> St], NEW s \in St, NEW us \in Seq(Up)
    PROVE  \E g : g \in [0..Len(us) -> St] /\ Replays(g, F, s, us)
<1> DEFINE n == Len(us)
           Good(g, k) == g[0] = s /\ \A i \in 1..k : g[i] = F[<<g[i - 1], us[i]>>]
           S == {k \in 0..n : \E g \in [0..k -> St] : Good(g, k)}
<1>1. 0 \in S
  <2> DEFINE h == [i \in 0..0 |-> s]
  <2>1. h \in [0..0 -> St] /\ Good(h, 0)
    OBVIOUS
  <2>2. 0 \in 0..n
    OBVIOUS
  <2> HIDE DEF h, Good
  <2> QED
    BY <2>1, <2>2
<1>2. ASSUME NEW k \in 0..n-1, k \in S PROVE k + 1 \in S
  <2>1. PICK g \in [0..k -> St] : Good(g, k)
    BY <1>2
  <2> DEFINE next == F[<<g[k], us[k + 1]>>]
             h == [i \in 0..k+1 |-> IF i = k + 1 THEN next ELSE g[i]]
  <2>2. us[k + 1] \in Up /\ k \in 0..k /\ k + 1 \in 0..n /\ k + 1 # 0
    OBVIOUS
  <2>3. next \in St
    BY <2>2
  <2>4. /\ h \in [0..k+1 -> St]
        /\ h[k + 1] = next
        /\ \A i \in 0..k : h[i] = g[i]
    <3> HIDE DEF next
    <3> QED
      BY <2>3
  <2> HIDE DEF h
  <2>5. ASSUME NEW i \in 1..k+1 PROVE h[i] = F[<<h[i - 1], us[i]>>]
    <3>1. CASE i = k + 1
      <4>1. i - 1 = k /\ k \in 0..k
        BY <3>1
      <4>2. h[i - 1] = g[k] /\ h[i] = next
        BY <2>4, <3>1, <4>1
      <4> QED
        BY <3>1, <4>2
    <3>2. CASE i # k + 1
      <4>1. i \in 1..k /\ i \in 0..k /\ i - 1 \in 0..k
        BY <3>2
      <4>2. g[i] = F[<<g[i - 1], us[i]>>]
        BY <2>1, <4>1
      <4> QED
        BY <2>4, <4>1, <4>2
    <3> QED
      BY <3>1, <3>2
  <2>6. h[0] = s
    BY <2>1, <2>4
  <2>7. Good(h, k + 1)
    BY <2>5, <2>6
  <2> HIDE DEF Good
  <2> QED
    BY <2>2, <2>4, <2>7
<1>3. n \in Nat /\ n \in S
  <2> HIDE DEF S
  <2> QED
    BY <1>1, <1>2, UpTo
<1> QED
  BY <1>3 DEF Replays

(* ---- the market ------------------------------------------------------- *)

LevelSet == SUBSET Level
Update   == [type : {"update"}, from : Nat, to : Nat, set : LevelSet, gone : LevelSet]

\* What was not touched since the last update is as it was then.
MarketOK == /\ MarketTypeOK
            /\ \A k \in published..Len(truth) :
                  \A l \in Level \ touched : l \in Now <=> l \in truth[k]

\* An update takes the book before its first change, or after any of them, to
\* the one after its last.
Covers(books, u) ==
    /\ u \in Update
    /\ u.from - 1 \in 1..Len(books) /\ u.to \in 1..Len(books) /\ u.from <= u.to
    /\ \A k \in (u.from - 1)..u.to : Apply(books[k], u) = books[u.to]

LEMMA MarketNumbers ==
    ASSUME MarketOK
    PROVE  /\ truth \in Seq(Book) /\ touched \subseteq Level
           /\ Len(truth) \in Nat \ {0} /\ published \in 1..Len(truth)
           /\ Now = truth[Len(truth)] /\ Now \in Book /\ Now \in LevelSet
           /\ \A k \in 1..Len(truth) : truth[k] \in Book /\ truth[k] \in LevelSet
<1>1. truth \in Seq(Book) /\ Len(truth) \in Nat \ {0} /\ Now = truth[Len(truth)]
      /\ touched \subseteq Level /\ published \in 1..Len(truth)
  BY DEF MarketOK, MarketTypeOK, Now
<1>2. Book \subseteq LevelSet
  BY DEF Book, LevelSet
<1> QED
  BY <1>1, <1>2

\* A change adds a book; what was told of the past stays true.
LEMMA MarketGrows ==
    ASSUME MarketOK, MarketMoves
    PROVE  /\ MarketOK' /\ published' = published /\ Len(truth') = Len(truth) + 1
           /\ \A k \in 1..Len(truth) : k \in 1..Len(truth') /\ truth'[k] = truth[k]
           /\ touched \subseteq touched'
           /\ \A l \in Level \ touched' : l \in Now' <=> l \in Now
           /\ \A u : Covers(truth, u) => Covers(truth', u)
<1>1. PICK c \in Level :
         LET b == IF c \in Now THEN Now \ {c} ELSE Now \cup {c}
         IN ~Crossed(b) /\ truth' = Append(truth, b) /\ touched' = touched \cup {c}
  BY DEF MarketMoves
<1> DEFINE b == IF c \in Now THEN Now \ {c} ELSE Now \cup {c}
<1>2. Now \in LevelSet /\ b \in Book
  BY <1>1, MarketNumbers DEF LevelSet, Book
<1>3. truth' = Append(truth, b)
  BY <1>1
<1>4. \A l \in Level \ touched' : l \in b <=> l \in Now
  BY <1>1
<1> HIDE DEF b
<1>5. /\ Len(truth') = Len(truth) + 1 /\ truth' \in Seq(Book) /\ truth' # <<>>
      /\ \A k \in 1..Len(truth) : k \in 1..Len(truth') /\ truth'[k] = truth[k]
      /\ Now' = b /\ truth'[Len(truth')] = b
  BY <1>2, <1>3, MarketNumbers DEF Now
<1>6. published' = published /\ touched' \subseteq Level
  BY <1>1, MarketNumbers DEF MarketMoves
<1>7. ASSUME NEW k \in published'..Len(truth'), NEW l \in Level \ touched'
      PROVE  l \in Now' <=> l \in truth'[k]
  <2>1. CASE k = Len(truth')
    BY <1>5, <2>1
  <2>2. CASE k \in published..Len(truth)
    <3>1. l \in Now <=> l \in truth[k]
      BY <1>1, <2>2 DEF MarketOK
    <3>2. k \in 1..Len(truth)
      BY <2>2, MarketNumbers
    <3> QED
      BY <1>4, <1>5, <3>1, <3>2
  <2> QED
    BY <1>5, <1>6, <2>1, <2>2, MarketNumbers
<1>8. MarketOK'
  <2>1. MarketTypeOK'
    BY <1>5, <1>6, MarketNumbers DEF MarketTypeOK
  <2> QED
    BY <1>7, <2>1 DEF MarketOK
<1>9. ASSUME NEW u, Covers(truth, u) PROVE Covers(truth', u)
  <2>1. \A k \in (u.from - 1)..u.to : k \in 1..Len(truth)
    BY <1>9, MarketNumbers DEF Covers, Update
  <2> QED
    BY <1>5, <1>9, <2>1, MarketNumbers DEF Covers
<1> QED
  BY <1>1, <1>4, <1>5, <1>6, <1>8, <1>9

\* What is published covers every change since the last update.
LEMMA UpdateNowCovers ==
    ASSUME MarketOK, published < Len(truth)
    PROVE  /\ Covers(truth, UpdateNow) /\ UpdateNow.type = "update"
           /\ UpdateNow.from = published + 1 /\ UpdateNow.to = Len(truth)
           /\ UpdateNow.set = touched \cap Now /\ UpdateNow.gone = touched \ Now
<1> DEFINE u == UpdateNow
<1>1. /\ u.type = "update" /\ u.from = published + 1 /\ u.to = Len(truth)
      /\ u.set = touched \cap Now /\ u.gone = touched \ Now
  BY DEF UpdateNow
<1>2. u \in Update
  BY MarketNumbers DEF UpdateNow, Update, LevelSet
<1> HIDE DEF u
<1>3. ASSUME NEW k \in published..Len(truth) PROVE Apply(truth[k], u) = Now
  <2>1. truth[k] \subseteq Level /\ Now \subseteq Level
    BY MarketNumbers DEF LevelSet
  <2>2. \A l \in Level \ touched : l \in Now <=> l \in truth[k]
    BY DEF MarketOK
  <2> QED
    BY <1>1, <2>1, <2>2, MarketNumbers DEF Apply
<1>4. Covers(truth, u)
  BY <1>1, <1>2, <1>3, MarketNumbers DEF Covers
<1> QED
  BY <1>1, <1>4 DEF u

\* Publishing and subscribing leave nothing untold.
LEMMA MarketRests ==
    ASSUME MarketOK, truth' = truth,
           \/ touched' = {} /\ published' = Len(truth)
           \/ touched' = touched /\ published' = published
    PROVE  MarketOK' /\ Now' = Now
<1>1. Now' = Now
  BY DEF Now
<1>2. CASE touched' = {} /\ published' = Len(truth)
  BY <1>1, <1>2, MarketNumbers DEF MarketOK, MarketTypeOK
<1>3. CASE touched' = touched /\ published' = published
  BY <1>1, <1>3 DEF MarketOK, MarketTypeOK
<1> QED
  BY <1>1, <1>2, <1>3

LEMMA InitMarketOK ==
    ASSUME MarketInit
    PROVE  MarketOK /\ Len(truth) = 1 /\ touched = {} /\ published = 1
<1>1. PICK b \in Openings : truth = <<b>>
  BY DEF MarketInit
<1>2. truth \in Seq(Book) /\ Len(truth) = 1 /\ Now = truth[1] /\ truth # <<>>
  BY <1>1, MarketAssumption DEF Now
<1> QED
  BY <1>2 DEF MarketInit, MarketOK, MarketTypeOK

(* ---- a socket --------------------------------------------------------- *)

Members(w) == {w[i] : i \in 1..Len(w)}
Updates(w) == {m \in Members(w) : m.type = "update"}

\* The changes from which the updates in socket w, and the next one to be
\* published after change p, go on.
Starts(w, p) == {u.from - 1 : u \in Updates(w)} \cup {p}

\* Updates come in order; of other messages there is one at most.
Before(m, n) == /\ m.type = "update" /\ n.type = "update" => m.to < n.from
                /\ m.type = "update" \/ n.type = "update"

Ordered(w) == \A i, j \in 1..Len(w) : i < j => Before(w[i], w[j])

\* The updates in a socket tell of the exchange's books, without a gap.
Feed(w, p, books) ==
    /\ Ordered(w)
    /\ \A u \in Updates(w) : Covers(books, u) /\ u.to <= p /\ u.to \in Starts(w, p)

LEMMA EmptyFeed ==
    ASSUME NEW p, NEW books
    PROVE  /\ Members(<<>>) = {} /\ Updates(<<>>) = {} /\ Starts(<<>>, p) = {p}
           /\ Feed(<<>>, p, books)
<1>1. Members(<<>>) = {} /\ Ordered(<<>>)
  BY DEF Members, Ordered
<1> QED
  BY <1>1 DEF Updates, Starts, Feed

\* A message is sent.
LEMMA Sends ==
    ASSUME NEW M, NEW w \in Seq(M), NEW m \in M
    PROVE  /\ Append(w, m) \in Seq(M) /\ Members(Append(w, m)) = Members(w) \cup {m}
           /\ Ordered(w) /\ (\A n \in Members(w) : Before(n, m)) => Ordered(Append(w, m))
<1> DEFINE v == Append(w, m)
<1>1. /\ Len(v) = Len(w) + 1 /\ v[Len(w) + 1] = m
      /\ \A i \in 1..Len(w) : v[i] = w[i]
      /\ Len(w) \in Nat /\ v \in Seq(M)
  OBVIOUS
<1> HIDE DEF v
<1>2. 1..Len(v) = 1..Len(w) \cup {Len(w) + 1}
  BY <1>1
<1>3. Members(v) = Members(w) \cup {m}
  BY <1>1, <1>2 DEF Members
<1>4. ASSUME Ordered(w), \A n \in Members(w) : Before(n, m),
             NEW i \in 1..Len(v), NEW j \in 1..Len(v), i < j
      PROVE  Before(v[i], v[j])
  <2>1. i \in 1..Len(w) /\ v[i] = w[i] /\ w[i] \in Members(w)
    BY <1>1, <1>4 DEF Members
  <2>2. CASE j \in 1..Len(w)
    BY <1>1, <1>4, <2>1, <2>2 DEF Ordered
  <2>3. CASE j = Len(w) + 1
    BY <1>1, <1>4, <2>1, <2>3
  <2> QED
    BY <1>2, <2>2, <2>3
<1>5. Ordered(w) /\ (\A n \in Members(w) : Before(n, m)) => Ordered(v)
  BY <1>4 DEF Ordered
<1> QED
  BY <1>1, <1>3, <1>5 DEF v

\* A message is read.
LEMMA Reads ==
    ASSUME NEW M, NEW w \in Seq(M), w # <<>>
    PROVE  /\ Head(w) \in Members(w) /\ Head(w) \in M
           /\ Tail(w) \in Seq(M) /\ Members(w) = Members(Tail(w)) \cup {Head(w)}
           /\ Ordered(w) => Ordered(Tail(w)) /\ \A n \in Members(Tail(w)) : Before(Head(w), n)
<1> DEFINE v == Tail(w)
<1>1. /\ Len(v) = Len(w) - 1 /\ Len(w) \in Nat /\ v \in Seq(M)
      /\ \A i \in 1..Len(v) : i + 1 \in 1..Len(w) /\ v[i] = w[i + 1]
      /\ 1 \in 1..Len(w) /\ Head(w) = w[1] /\ Head(w) \in M
  OBVIOUS
<1> HIDE DEF v
<1>2. Members(w) = Members(v) \cup {Head(w)}
  <2>1. ASSUME NEW i \in 1..Len(w) PROVE w[i] \in Members(v) \cup {Head(w)}
    <3>1. i = 1 \/ (i - 1 \in 1..Len(v) /\ (i - 1) + 1 = i)
      BY <1>1
    <3> QED
      BY <1>1, <3>1 DEF Members
  <2> QED
    BY <1>1, <2>1 DEF Members
<1>3. ASSUME Ordered(w), NEW i \in 1..Len(v) PROVE Before(Head(w), v[i])
  <2>1. 1 < i + 1 /\ i + 1 \in 1..Len(w)
    BY <1>1
  <2> QED
    BY <1>1, <1>3, <2>1 DEF Ordered
<1>4. ASSUME Ordered(w), NEW i \in 1..Len(v), NEW j \in 1..Len(v), i < j
      PROVE  Before(v[i], v[j])
  <2>1. i + 1 < j + 1
    BY <1>4
  <2> QED
    BY <1>1, <1>4, <2>1 DEF Ordered
<1>5. Ordered(w) => Ordered(v) /\ \A n \in Members(v) : Before(Head(w), n)
  BY <1>3, <1>4 DEF Ordered, Members
<1> QED
  BY <1>1, <1>2, <1>5 DEF v

\* An update that goes on from the last one is published.
LEMMA FeedSends ==
    ASSUME NEW M, NEW w \in Seq(M), NEW p \in Nat, NEW books, Feed(w, p, books),
           NEW u \in M, u.type = "update", Covers(books, u), u.from = p + 1
    PROVE  /\ Feed(Append(w, u), u.to, books)
           /\ Updates(Append(w, u)) = Updates(w) \cup {u}
           /\ Starts(Append(w, u), u.to) = Starts(w, p) \cup {u.to}
<1>1. u.to \in Nat /\ p < u.to
  BY DEF Covers, Update
<1>2. \A n \in Updates(w) : n.to \in Nat /\ n.to <= p /\ n.to \in Starts(w, p) /\ Covers(books, n)
  BY DEF Feed, Covers, Update
<1>3. \A n \in Members(w) : Before(n, u)
  BY <1>2 DEF Before, Updates
<1>4. Ordered(Append(w, u)) /\ Members(Append(w, u)) = Members(w) \cup {u}
  BY <1>3, Sends DEF Feed
<1>5. Updates(Append(w, u)) = Updates(w) \cup {u}
  BY <1>4 DEF Updates
<1>6. Starts(Append(w, u), u.to) = Starts(w, p) \cup {u.to}
  BY <1>5 DEF Starts
<1>7. \A v \in Updates(Append(w, u)) :
         Covers(books, v) /\ v.to <= u.to /\ v.to \in Starts(Append(w, u), u.to)
  BY <1>1, <1>2, <1>5, <1>6
<1> QED
  BY <1>4, <1>5, <1>6, <1>7 DEF Feed

\* The update read is the first of those to come, and the others go on from it.
LEMMA FeedReads ==
    ASSUME NEW M, NEW w \in Seq(M), NEW p \in Nat, NEW books, Feed(w, p, books),
           w # <<>>, Head(w).type = "update"
    PROVE  LET u == Head(w)
               v == Tail(w)
           IN /\ u \in Updates(w) /\ Covers(books, u)
              /\ u.from - 1 \in Starts(w, p)
              /\ \A start \in Starts(w, p) : u.from - 1 <= start
              /\ \A start \in Starts(v, p) : u.to <= start
              /\ u.to \in Starts(v, p) /\ Starts(v, p) \subseteq Starts(w, p)
              /\ Updates(w) = Updates(v) \cup {u}
              /\ Feed(v, p, books)
<1> DEFINE u == Head(w)
           v == Tail(w)
<1>1. /\ u \in Members(w) /\ Members(w) = Members(v) \cup {u} /\ u.type = "update"
      /\ Ordered(v) /\ \A n \in Members(v) : Before(u, n)
  BY Reads DEF Feed
<1> HIDE DEF u, v
<1>2. u \in Updates(w) /\ Updates(w) = Updates(v) \cup {u}
  BY <1>1 DEF Updates
<1>3. \A n \in Updates(w) : /\ n.from \in Nat /\ n.to \in Nat /\ n.from <= n.to
                            /\ n.to <= p /\ n.to \in Starts(w, p) /\ Covers(books, n)
  BY DEF Feed, Covers, Update
<1>4. \A n \in Updates(v) : n \in Updates(w) /\ u.to < n.from
  BY <1>1, <1>2 DEF Updates, Before
<1>5. \A start \in Starts(w, p) : u.from - 1 <= start
  BY <1>2, <1>3, <1>4 DEF Starts
<1>6. \A start \in Starts(v, p) : u.to <= start
  BY <1>2, <1>3, <1>4 DEF Starts
<1>7. Starts(w, p) = Starts(v, p) \cup {u.from - 1}
  BY <1>2 DEF Starts
<1>8. \A n \in Updates(w) : n.to \in Starts(v, p)
  BY <1>2, <1>3, <1>4, <1>7
<1>9. Feed(v, p, books)
  BY <1>1, <1>3, <1>4, <1>8 DEF Feed
<1> QED
  BY <1>2, <1>3, <1>5, <1>6, <1>7, <1>8, <1>9 DEF u, v
=============================================================================
