--------------------------- MODULE BitstampProofs ---------------------------
(***************************************************************************)
(* Proofs about the Bitstamp adapter, for every snapshot delay, lag, filter *)
(* and bound: what the consumer sees is the local book, the merge of       *)
(* snapshot and buffer is exact, and the deltas in the socket make up for  *)
(* what the book lacks.                                                    *)
(***************************************************************************)
EXTENDS BitstampSync, MarketProofs

\* The inductive invariant.  The previous item is the consumer's last one or
\* there is none; there is none while a snapshot is awaited, because only the
\* snapshot emits without setting it.
IInv == /\ prevLob # NoItem => view = prevLob
        /\ fetch # "none" \/ (awaiting /\ snapshotDelay > 0) => prevLob = NoItem
        /\ fetch = "emit" => seeded = "no"
        /\ ViewIsBook

\* The item of a book depends on nothing else.
LEMMA ItemOfSame == ASSUME NEW levels, book' = levels PROVE Item(book)' = Item(levels)
BY DEF Item, Top, NearBest, TwoSided, NoItem, Better, WithinPct

\* A dropped book has neither a previous item nor a snapshot (reset_local).
LEMMA DroppedIInv ==
    ASSUME Dropped PROVE IInv'
BY DEF Dropped, IInv, ViewIsBook, NoItem

\* What emit_lob decides leaves the consumer with the item of the book.
LEMMA EmitsIInv ==
    ASSUME IInv, fetch = "none", ~(awaiting /\ snapshotDelay > 0),
           NEW levels, book' = levels, Emits(Item(levels)),
           UNCHANGED <<fetch, awaiting, snapshotDelay, seeded>>
    PROVE  IInv'
<1>1. Item(book)' = Item(levels)
  BY ItemOfSame
<1>2. prevLob' # NoItem => view' = prevLob'
  BY DEF IInv, Emits
<1>3. Item(levels) # NoItem => view' = Item(levels)
  BY DEF IInv, Emits
<1> QED
  BY <1>1, <1>2, <1>3 DEF IInv, ViewIsBook, NoItem

LEMMA InitIInv == Init => IInv
BY DEF Init, IInv, ViewIsBook

\* A delta is buffered, applied, or ends the book (handle_message).
LEMMA HandleIInv ==
    ASSUME IInv, HandleDelta
    PROVE  IInv'
<1> DEFINE delta == Head(wire)
<1>1. CASE /\ awaiting /\ snapshotDelay > 0
           /\ BuffersDelta(delta)
           /\ UNCHANGED <<book, needsResync, prevLob, view, seeded>>
  <2>1. Item(book)' = Item(book)
    BY <1>1, ItemOfSame
  <2> QED
    BY <1>1, <2>1 DEF IInv, ViewIsBook, HandleDelta, BuffersDelta, NoItem
<1>2. CASE /\ ~(awaiting /\ snapshotDelay > 0)
           /\ AppliesDelta(delta)
           /\ UNCHANGED <<fetch, requested, buffer>>
  <2> DEFINE s == Applied(State, delta)
  <2>1. CASE s.resync
    BY <1>2, <2>1, DroppedIInv DEF AppliesDelta
  <2>2. CASE ~s.resync
    <3>1. /\ book' = s.levels /\ Emits(Item(s.levels)) /\ seeded' = seeded
          /\ UNCHANGED <<fetch, awaiting, snapshotDelay>> /\ fetch = "none"
      BY <1>2, <2>2 DEF AppliesDelta, HandleDelta
    <3> QED
      BY <1>2, <3>1, EmitsIInv
  <2> QED
    BY <2>1, <2>2
<1> QED
  BY <1>1, <1>2 DEF HandleDelta

LEMMA NextIInv == IInv /\ [Next]_vars => IInv'
<1> SUFFICES ASSUME IInv, [Next]_vars PROVE IInv'
  OBVIOUS
<1>1. CASE HandleDelta
  BY <1>1, HandleIInv
<1>2. CASE Connect \/ Disconnect
  BY <1>2, DroppedIInv DEF Connect, Disconnect, Reset
<1>3. CASE SnapshotEmitted
  BY <1>3 DEF SnapshotEmitted, adapter, IInv, ViewIsBook, NoItem
<1>4. CASE SnapshotMerged
  <2> DEFINE s == Merged(answer)
  <2>1. /\ book' = s.levels /\ fetch = "merge" /\ fetch' = "none" /\ awaiting' = FALSE
        /\ view' = (IF Item(s.levels) = NoItem THEN view ELSE Item(s.levels))
        /\ UNCHANGED <<prevLob, snapshotDelay>>
    BY <1>4 DEF SnapshotMerged
  <2>2. Item(book)' = Item(s.levels)
    BY <2>1, ItemOfSame
  <2> QED
    BY <2>1, <2>2 DEF IInv, ViewIsBook, NoItem
<1>5. CASE /\ UNCHANGED <<adapter, view, seeded, snapshotDelay>>
           /\ fetch' \in {fetch, "none"}
  <2>1. Item(book)' = Item(book)
    BY <1>5, ItemOfSame DEF adapter
  <2> QED
    BY <1>5, <2>1 DEF adapter, IInv, ViewIsBook, NoItem
<1>6. CASE Moves \/ PublishesDelta \/ RestAnswers \/ FetchFails \/ UNCHANGED vars
  BY <1>5, <1>6 DEF Moves, PublishesDelta, RestAnswers, FetchFails, vars
<1> QED
  BY <1>1, <1>2, <1>3, <1>4, <1>6 DEF Next

\* From the merge on, the consumer's last item is the filtered local book
\* whenever that has two sides (emit_lob, fetch_snapshot_and_merge).
THEOREM BitstampViewCorrect == Spec => []ViewIsBook
<1>1. IInv => ViewIsBook
  BY DEF IInv
<1> QED
  BY InitIInv, NextIInv, <1>1, PTL DEF Spec

(* ---- the book and the deltas in the socket ---------------------------- *)

Work == [levels : LevelSet, resync : BOOLEAN]

Touches(u) == u.set \cup u.gone

\* What is not told by an update to come, about a book after change k.
Settled(k) == {l \in Level \ touched :
                  \A u \in Updates(wire) : u.to > k => l \notin Touches(u)}

\* A book after change k misses nothing of what is still to be read.
Reaches(k) == \E start \in Starts(wire, published) : start <= k

SocketOK == /\ MarketOK
            /\ wire \in Seq(Update) /\ Feed(wire, published, truth)
            /\ ~up => wire = <<>>
            /\ answer \in 0..Len(truth) /\ since \in 1..Len(truth)
            /\ book \in LevelSet /\ needsResync \in BOOLEAN

\* What no update to come tells is now as it was after change k.
TellsOK == \A k \in 1..Len(truth) :
              Reaches(k) => \A l \in Settled(k) : l \in truth[k] <=> l \in Now

\* The buffer starts at the subscription and has no gap.
BufferOK == /\ buffer \in Seq(Update)
            /\ \A i \in 1..Len(buffer) :
                  /\ Covers(truth, buffer[i])
                  /\ (IF i = 1 THEN since ELSE buffer[i - 1].to)
                        \in (buffer[i].from - 1)..buffer[i].to

Waits == awaiting /\ snapshotDelay > 0

\* The change up to which deltas have been read while a snapshot is awaited.
Front == IF buffer = <<>> THEN since ELSE buffer[Len(buffer)].to

WaitOK == /\ buffer # <<>> => Waits /\ up
          /\ fetch = "merge" => buffer # <<>>
          /\ Waits => book = {} /\ ~needsResync /\ seeded = "no"
          /\ Waits /\ up => /\ Front \in Starts(wire, published)
                            /\ \A start \in Starts(wire, published) : Front <= start

\* What no delta in the socket tells, the merged book has already.
SeededOK == seeded = "exact" =>
               \A l \in Level \ touched :
                  (\A u \in Updates(wire) : l \notin Touches(u)) => (l \in book <=> l \in Now)

UncrossedOK == ~Crossed(book) /\ ~Crossed(view)

BookInv == SocketOK /\ TellsOK /\ BufferOK /\ WaitOK /\ SeededOK /\ UncrossedOK

LEMMA NumbersOK ==
    ASSUME BookInv
    PROVE  /\ truth \in Seq(Book) /\ Len(truth) \in Nat \ {0} /\ published \in 1..Len(truth)
           /\ Starts(wire, published) \subseteq 1..Len(truth)
           /\ Now = truth[Len(truth)] /\ Now \in LevelSet /\ touched \subseteq Level
           /\ \A k \in 1..Len(truth) : truth[k] \in Book /\ truth[k] \in LevelSet
           /\ \A u \in Updates(wire) : Covers(truth, u) /\ u.to \in Nat /\ u.from \in Nat
           /\ \A i \in 1..Len(buffer) : buffer[i] \in Update /\ buffer[i].to \in 1..Len(truth)
           /\ Len(buffer) \in Nat
<1>1. MarketOK /\ Feed(wire, published, truth) /\ buffer \in Seq(Update)
  BY DEF BookInv, SocketOK, BufferOK
<1>2. \A u \in Updates(wire) : Covers(truth, u) /\ u.to \in Nat /\ u.from \in Nat
  BY <1>1 DEF Feed, Covers, Update
<1>3. Starts(wire, published) \subseteq 1..Len(truth)
  BY <1>1, <1>2, MarketNumbers DEF Starts, Covers
<1>4. \A i \in 1..Len(buffer) : buffer[i] \in Update /\ buffer[i].to \in 1..Len(truth)
  BY <1>1 DEF BookInv, BufferOK, Covers
<1> QED
  BY <1>1, <1>2, <1>3, <1>4, MarketNumbers

\* An update tells the state of every level it touches.
LEMMA CoversTells ==
    ASSUME NEW books, NEW u, Covers(books, u)
    PROVE  \A l \in Touches(u) : l \in u.set <=> l \in books[u.to]
<1>1. u.to \in (u.from - 1)..u.to
  BY DEF Covers, Update
<1>2. Apply(books[u.to], u) = books[u.to]
  BY <1>1 DEF Covers
<1> QED
  BY <1>2 DEF Apply, Touches

(* ---- the order book --------------------------------------------------- *)

LEMMA AppliedFacts ==
    ASSUME NEW s \in Work, NEW d, d.set \in LevelSet, d.gone \in LevelSet
    PROVE  /\ Applied(s, d) \in Work /\ ~Crossed(Applied(s, d).levels)
           /\ Apply(s.levels, d) \in LevelSet
           /\ ~Crossed(Apply(s.levels, d)) => /\ Applied(s, d).levels = Apply(s.levels, d)
                                              /\ Applied(s, d).resync = s.resync
           /\ ~Applied(s, d).resync => /\ Applied(s, d).levels = Apply(s.levels, d)
                                       /\ ~s.resync
<1> DEFINE levels == Apply(s.levels, d)
<1>1. levels \in LevelSet /\ s.levels \in LevelSet /\ s.resync \in BOOLEAN
  BY DEF Apply, Work, LevelSet
<1>2. {} \in LevelSet /\ ~Crossed({})
  BY DEF LevelSet, Crossed
<1>3. Applied(s, d) = IF Crossed(levels) THEN [levels |-> {}, resync |-> TRUE]
                                         ELSE [s EXCEPT !.levels = levels]
  BY DEF Applied
<1> HIDE DEF levels
<1>4. CASE Crossed(levels)
  <2>1. Applied(s, d) = [levels |-> {}, resync |-> TRUE]
    BY <1>3, <1>4
  <2>2. Applied(s, d).levels = {} /\ Applied(s, d).resync /\ Applied(s, d) \in Work
    BY <1>2, <2>1 DEF Work
  <2> QED
    BY <1>1, <1>2, <1>4, <2>2 DEF levels
<1>5. CASE ~Crossed(levels)
  <2>1. Applied(s, d) = [s EXCEPT !.levels = levels]
    BY <1>3, <1>5
  <2>2. /\ Applied(s, d).levels = levels /\ Applied(s, d).resync = s.resync
        /\ Applied(s, d) \in Work
    BY <1>1, <2>1 DEF Work
  <2> QED
    BY <1>1, <1>5, <2>2 DEF levels
<1> QED
  BY <1>4, <1>5

\* An item is part of its book.
LEMMA ItemUncrossed ==
    ASSUME NEW levels, ~Crossed(levels) PROVE ~Crossed(Item(levels))
<1>1. Item(levels) \subseteq levels
  BY DEF Item, Top, NearBest, NoItem
<1> QED
  BY <1>1 DEF Crossed

\* What the merge does with one buffered delta.
Merging(at, s, d) == IF Relevant(at, d) THEN Applied(s, d) ELSE s

Seed(at) == Applied(State, [set |-> truth[at], gone |-> {}])

LEMMA MergingFacts ==
    ASSUME NEW at, NEW s \in Work, NEW d \in Update
    PROVE  Merging(at, s, d) \in Work
BY AppliedFacts DEF Merging, Update

\* The merge, one delta at a time (apply_snapshot_and_merge).
LEMMA MergedInduction ==
    ASSUME NEW at, Seed(at) \in Work, buffer \in Seq(Update), NEW S,
           <<0, Seed(at)>> \in S,
           \A i \in 1..Len(buffer), t \in Work :
               <<i - 1, t>> \in S => <<i, Merging(at, t, buffer[i])>> \in S
    PROVE  Merged(at) \in Work /\ <<Len(buffer), Merged(at)>> \in S
<1> DEFINE n == Len(buffer)
           F == [p \in Work \X Update |-> Merging(at, p[1], p[2])]
           r == CHOOSE r : r = [i \in 0..n |->
                    IF i = 0 THEN Applied(State, [set |-> truth[at], gone |-> {}])
                    ELSE IF Relevant(at, buffer[i]) THEN Applied(r[i - 1], buffer[i])
                                                    ELSE r[i - 1]]
<1>1. F \in [Work \X Update -> Work]
  <2> SUFFICES ASSUME NEW t \in Work, NEW u \in Update PROVE Merging(at, t, u) \in Work
    OBVIOUS
  <2> QED
    BY MergingFacts
<1>2. ASSUME NEW t \in Work, NEW u \in Update PROVE F[<<t, u>>] = Merging(at, t, u)
  <2>1. <<t, u>> \in Work \X Update /\ <<t, u>>[1] = t /\ <<t, u>>[2] = u
    OBVIOUS
  <2>2. F[<<t, u>>] = Merging(at, <<t, u>>[1], <<t, u>>[2])
    BY <2>1, Zenon
  <2> HIDE DEF F
  <2> QED
    BY <2>1, <2>2
<1> HIDE DEF F
<1>3. PICK g : g \in [0..n -> Work] /\ Replays(g, F, Seed(at), buffer)
  BY <1>1, ReplayExists
<1>4. ASSUME NEW i \in 1..n PROVE g[i] = Merging(at, g[i - 1], buffer[i])
  <2>1. buffer[i] \in Update /\ g[i - 1] \in Work
    BY <1>3
  <2> QED
    BY <1>2, <1>3, <2>1 DEF Replays
<1>5. g = [i \in 0..n |->
              IF i = 0 THEN Applied(State, [set |-> truth[at], gone |-> {}])
              ELSE IF Relevant(at, buffer[i]) THEN Applied(g[i - 1], buffer[i]) ELSE g[i - 1]]
  BY <1>3, <1>4 DEF Replays, Merging, Seed
<1>6. r = [i \in 0..n |->
              IF i = 0 THEN Applied(State, [set |-> truth[at], gone |-> {}])
              ELSE IF Relevant(at, buffer[i]) THEN Applied(r[i - 1], buffer[i]) ELSE r[i - 1]]
  BY <1>5, Zenon
<1>7. Merged(at) = r[n]
  BY DEF Merged
<1> HIDE DEF r
<1>8. n \in Nat /\ r[0] = Seed(at) /\ \A i \in 1..n : r[i] = Merging(at, r[i - 1], buffer[i])
  <2>1. n \in Nat
    OBVIOUS
  <2> HIDE DEF n
  <2>2. 0 \in 0..n /\ \A i \in 1..n : i \in 0..n /\ i # 0
    BY <2>1
  <2>3. r[0] = Seed(at)
    BY <1>6, <2>2 DEF Seed
  <2>4. ASSUME NEW i \in 1..n PROVE r[i] = Merging(at, r[i - 1], buffer[i])
    BY <1>6, <2>2, Zenon DEF Merging
  <2> QED
    BY <2>1, <2>3, <2>4
<1> DEFINE T == {i \in 0..n : r[i] \in Work /\ <<i, r[i]>> \in S}
<1>9. 0 \in T
  BY <1>8
<1>10. ASSUME NEW i \in 0..n-1, i \in T PROVE i + 1 \in T
  <2>1. i + 1 \in 1..n /\ (i + 1) - 1 = i /\ buffer[i + 1] \in Update
    BY <1>8
  <2>2. r[i + 1] = Merging(at, r[i], buffer[i + 1])
    BY <1>8, <2>1
  <2>3. r[i + 1] \in Work
    BY <1>10, <2>1, <2>2, MergingFacts
  <2>4. <<i + 1, r[i + 1]>> \in S
    BY <1>10, <2>1, <2>2
  <2> QED
    BY <2>1, <2>3, <2>4
<1> HIDE DEF T
<1>11. n \in T
  BY <1>8, <1>9, <1>10, UpTo
<1> QED
  BY <1>7, <1>11 DEF T

\* The snapshot comes into a book of any kind without crossing it.
LEMMA MergedUncrossed ==
    ASSUME BookInv, answer # 0
    PROVE  /\ Merged(answer) \in Work /\ ~Crossed(Merged(answer).levels)
           /\ Seed(answer) \in Work
<1> DEFINE S == {p \in Nat \X Work : ~Crossed(p[2].levels)}
<1>1. answer \in 1..Len(truth) /\ truth[answer] \in LevelSet /\ State \in Work
  BY NumbersOK DEF BookInv, SocketOK, State, Work
<1>2. Seed(answer) \in Work /\ ~Crossed(Seed(answer).levels)
  <2> DEFINE d == [set |-> truth[answer], gone |-> {}]
  <2>1. d.set \in LevelSet /\ d.gone \in LevelSet
    BY <1>1 DEF LevelSet
  <2> HIDE DEF d
  <2>2. Applied(State, d) \in Work /\ ~Crossed(Applied(State, d).levels)
    BY <1>1, <2>1, AppliedFacts
  <2> QED
    BY <2>2 DEF Seed, d
<1>3. <<0, Seed(answer)>> \in S
  BY <1>2
<1>4. ASSUME NEW i \in 1..Len(buffer), NEW t \in Work, <<i - 1, t>> \in S
      PROVE  <<i, Merging(answer, t, buffer[i])>> \in S
  <2>1. ~Crossed(t.levels) /\ buffer[i] \in Update /\ i \in Nat
    BY <1>4, NumbersOK
  <2>2. Merging(answer, t, buffer[i]) \in Work
    BY <2>1, MergingFacts
  <2>3. ~Crossed(Merging(answer, t, buffer[i]).levels)
    BY <2>1, AppliedFacts DEF Merging, Update
  <2> QED
    BY <2>1, <2>2, <2>3
<1>5. buffer \in Seq(Update)
  BY DEF BookInv, BufferOK
<1> HIDE DEF S
<1>6. Merged(answer) \in Work /\ <<Len(buffer), Merged(answer)>> \in S
  BY <1>2, <1>3, <1>4, <1>5, MergedInduction
<1> QED
  BY <1>2, <1>6 DEF S

\* The newest change the snapshot and the first i buffered deltas tell of.
Newest(i) == IF i = 0 \/ buffer[i].to <= answer THEN answer ELSE buffer[i].to

\* Snapshot and buffer fit together: the replay goes from one book of the
\* exchange to the next.
LEMMA MergedExact ==
    ASSUME BookInv, fetch = "merge", answer # 0, since <= answer
    PROVE  /\ ~Merged(answer).resync
           /\ Merged(answer).levels = truth[Newest(Len(buffer))]
<1> DEFINE n == Len(buffer)
           S == {p \in (0..n) \X Work :
                    ~p[2].resync /\ p[2].levels = truth[Newest(p[1])]}
<1>1. /\ answer \in 1..Len(truth) /\ State \in Work /\ n \in Nat /\ Len(truth) \in Nat
      /\ State.levels = {} /\ ~State.resync /\ since \in Nat
  BY NumbersOK DEF BookInv, SocketOK, WaitOK, State, Work
<1>2. Seed(answer).levels = truth[answer] /\ ~Seed(answer).resync /\ Seed(answer) \in Work
  <2> DEFINE d == [set |-> truth[answer], gone |-> {}]
  <2>1. d.set = truth[answer] /\ d.gone = {} /\ {} \in LevelSet
        /\ truth[answer] \in LevelSet /\ ~Crossed(truth[answer])
    BY <1>1, NumbersOK DEF LevelSet, Book
  <2> HIDE DEF d
  <2>2. Apply(State.levels, d) = truth[answer]
    BY <1>1, <2>1 DEF Apply
  <2>3. /\ Applied(State, d) \in Work
        /\ ~Crossed(Apply(State.levels, d)) => /\ Applied(State, d).levels = Apply(State.levels, d)
                                               /\ Applied(State, d).resync = State.resync
    <3>1. d.set \in LevelSet /\ d.gone \in LevelSet
      BY <2>1
    <3> QED
      BY <1>1, <3>1, AppliedFacts
  <2> QED
    BY <1>1, <2>1, <2>2, <2>3 DEF Seed, d
<1>3. <<0, Seed(answer)>> \in S
  BY <1>1, <1>2 DEF Newest
<1>4. ASSUME NEW i \in 1..n, NEW s \in Work, <<i - 1, s>> \in S
      PROVE  <<i, Merging(answer, s, buffer[i])>> \in S
  <2> DEFINE u == buffer[i]
             k == Newest(i - 1)
  <2>1. ~s.resync /\ s.levels = truth[k] /\ i \in 0..n /\ i # 0
    BY <1>1, <1>4
  <2>2. /\ u \in Update /\ Covers(truth, u)
        /\ (IF i = 1 THEN since ELSE buffer[i - 1].to) \in (u.from - 1)..u.to
    BY DEF BookInv, BufferOK
  <2>3. u.from \in Nat /\ u.to \in 1..Len(truth)
    BY <2>2 DEF Update, Covers
  <2>4. i # 1 => i - 1 \in 1..n /\ buffer[i - 1].to \in Nat
    BY <1>1, NumbersOK
  <2>5. /\ k = IF i - 1 = 0 \/ buffer[i - 1].to <= answer THEN answer ELSE buffer[i - 1].to
        /\ Newest(i) = IF u.to <= answer THEN answer ELSE u.to
    BY <2>1 DEF Newest
  <2> HIDE DEF u, k
  <2>6. CASE u.to < answer
    <3>1. Merging(answer, s, u) = s
      BY <1>1, <2>3, <2>6 DEF Merging, Relevant
    <3>2. k = answer /\ Newest(i) = answer
      BY <1>1, <2>2, <2>3, <2>4, <2>5, <2>6
    <3> QED
      BY <2>1, <3>1, <3>2 DEF u
  <2>7. CASE u.to >= answer
    <3>1. Merging(answer, s, u) = Applied(s, u)
      BY <2>7 DEF Merging, Relevant
    <3>2. k \in (u.from - 1)..u.to /\ Newest(i) = u.to
      BY <1>1, <2>2, <2>3, <2>4, <2>5, <2>7
    <3>3. Apply(s.levels, u) = truth[u.to] /\ ~Crossed(truth[u.to])
      BY <2>1, <2>2, <2>3, <3>2, NumbersOK DEF Covers, Book
    <3>4. u.set \in LevelSet /\ u.gone \in LevelSet
      BY <2>2 DEF Update
    <3>5. /\ Applied(s, u).levels = truth[u.to] /\ ~Applied(s, u).resync
          /\ Applied(s, u) \in Work
      BY <2>1, <3>3, <3>4, AppliedFacts
    <3> QED
      BY <2>1, <3>1, <3>2, <3>5 DEF u
  <2> QED
    BY <1>1, <2>3, <2>6, <2>7
<1>5. buffer \in Seq(Update)
  BY DEF BookInv, BufferOK
<1> HIDE DEF S
<1>6. <<n, Merged(answer)>> \in S
  BY <1>2, <1>3, <1>4, <1>5, MergedInduction
<1> QED
  BY <1>6 DEF S

\* What the merge has covered, the rest of the socket goes on from.
LEMMA NewestReached ==
    ASSUME BookInv, fetch = "merge", answer # 0
    PROVE  Newest(Len(buffer)) \in 1..Len(truth) /\ Reaches(Newest(Len(buffer)))
<1>1. /\ buffer # <<>> /\ Len(buffer) \in 1..Len(buffer)
      /\ buffer[Len(buffer)].to \in Starts(wire, published)
  BY NumbersOK DEF BookInv, WaitOK, Front, BufferOK
<1>2. buffer[Len(buffer)].to \in 1..Len(truth) /\ answer \in 1..Len(truth) /\ Len(truth) \in Nat
  BY <1>1, NumbersOK DEF BookInv, SocketOK
<1> QED
  BY <1>1, <1>2 DEF Newest, Reaches

(* ---- the steps --------------------------------------------------------- *)

LEMMA MovesBookInv == ASSUME BookInv, Moves PROVE BookInv'
<1>1. /\ UNCHANGED <<up, wire, fetch, answer, snapshotDelay, book, needsResync, awaiting,
                     buffer, view, since, seeded>>
      /\ MarketMoves /\ MarketOK
  BY DEF Moves, adapter, BookInv, SocketOK
<1>2. /\ MarketOK' /\ published' = published /\ Len(truth') = Len(truth) + 1
      /\ \A k \in 1..Len(truth) : k \in 1..Len(truth') /\ truth'[k] = truth[k]
      /\ touched \subseteq touched'
      /\ \A l \in Level \ touched' : l \in Now' <=> l \in Now
      /\ \A u : Covers(truth, u) => Covers(truth', u)
  BY <1>1, MarketGrows
<1>3. /\ Len(truth) \in Nat \ {0} /\ Len(truth') \in Nat /\ Now' = truth'[Len(truth')]
      /\ published \in 1..Len(truth)
  BY <1>2, NumbersOK DEF Now
<1>4. Feed(wire, published, truth)'
  BY <1>1, <1>2, <1>3 DEF BookInv, SocketOK, Feed
<1>5. SocketOK'
  BY <1>1, <1>2, <1>3, <1>4 DEF BookInv, SocketOK
<1>6. TellsOK'
  <2> SUFFICES ASSUME NEW k \in 1..Len(truth'), Reaches(k)', NEW l \in Settled(k)'
               PROVE  l \in truth'[k] <=> l \in Now'
    BY DEF TellsOK
  <2>1. l \in Level \ touched'
    BY DEF Settled
  <2>2. CASE k = Len(truth')
    BY <1>3, <2>2
  <2>3. CASE k # Len(truth')
    <3>1. k \in 1..Len(truth)
      BY <1>2, <1>3, <2>3
    <3>2. Reaches(k) /\ l \in Settled(k)
      BY <1>1, <1>2, <2>1 DEF Reaches, Settled
    <3>3. l \in truth[k] <=> l \in Now
      BY <3>1, <3>2 DEF BookInv, TellsOK
    <3> QED
      BY <1>2, <2>1, <3>1, <3>3
  <2> QED
    BY <2>2, <2>3
<1>7. SeededOK'
  BY <1>1, <1>2 DEF BookInv, SeededOK
<1>8. BufferOK' /\ WaitOK' /\ UncrossedOK'
  BY <1>1, <1>2 DEF BookInv, BufferOK, WaitOK, Waits, Front, UncrossedOK, Crossed
<1> QED
  BY <1>5, <1>6, <1>7, <1>8 DEF BookInv

LEMMA PublishesBookInv == ASSUME BookInv, PublishesDelta PROVE BookInv'
<1> DEFINE u == UpdateNow
<1>1. /\ UNCHANGED <<truth, up, fetch, answer, snapshotDelay, book, needsResync, awaiting,
                     buffer, view, since, seeded>>
      /\ up /\ published < Len(truth) /\ touched' = {} /\ published' = Len(truth)
      /\ wire' = Append(wire, u) /\ wire \in Seq(Update) /\ MarketOK
      /\ Feed(wire, published, truth)
  BY DEF PublishesDelta, Published, adapter, BookInv, SocketOK
<1>2. /\ Covers(truth, u) /\ u.type = "update" /\ u.from = published + 1 /\ u.to = Len(truth)
      /\ Touches(u) = touched /\ u \in Update
  BY <1>1, UpdateNowCovers, MarketNumbers DEF Touches, Covers
<1> HIDE DEF u
<1>3. MarketOK' /\ Now' = Now
  BY <1>1, MarketRests
<1>4. /\ Feed(wire', published', truth) /\ Updates(wire') = Updates(wire) \cup {u}
      /\ Starts(wire', published') = Starts(wire, published) \cup {Len(truth)}
  <2>1. published \in Nat
    BY NumbersOK
  <2> QED
    BY <1>1, <1>2, <2>1, FeedSends
<1>5. SocketOK'
  <2>1. wire' \in Seq(Update)
    BY <1>1, <1>2
  <2> QED
    BY <1>1, <1>3, <1>4, <2>1 DEF BookInv, SocketOK
<1>6. TellsOK'
  <2> SUFFICES ASSUME NEW k \in 1..Len(truth), Reaches(k)', NEW l \in Settled(k)'
               PROVE  l \in truth[k] <=> l \in Now
    BY <1>1, <1>3 DEF TellsOK
  <2>1. Len(truth) \in Nat /\ Now = truth[Len(truth)]
    BY NumbersOK
  <2>2. CASE k = Len(truth)
    BY <2>1, <2>2
  <2>3. CASE k < Len(truth)
    <3>1. Reaches(k)
      BY <1>1, <1>4, <2>1, <2>3 DEF Reaches
    <3>2. l \in Settled(k)
      BY <1>2, <1>4, <2>3 DEF Settled
    <3> QED
      BY <3>1, <3>2 DEF BookInv, TellsOK
  <2> QED
    BY <2>1, <2>2, <2>3
<1>7. SeededOK'
  BY <1>1, <1>2, <1>3, <1>4 DEF BookInv, SeededOK
<1>8. WaitOK'
  <2>1. \A start \in Starts(wire, published) : start <= Len(truth)
    BY NumbersOK
  <2> QED
    BY <1>1, <1>4, <2>1, NumbersOK DEF BookInv, WaitOK, Waits, Front
<1>9. BufferOK' /\ UncrossedOK'
  BY <1>1 DEF BookInv, BufferOK, UncrossedOK, Crossed
<1> QED
  BY <1>5, <1>6, <1>7, <1>8, <1>9 DEF BookInv

\* The delta read is the first of those to come; the book or the buffer goes
\* on from it (handle_message).
LEMMA HandleBookInv == ASSUME BookInv, HandleDelta PROVE BookInv'
<1> DEFINE u == Head(wire)
           rest == Tail(wire)
<1>1. /\ UNCHANGED <<truth, touched, published, up, answer, snapshotDelay, awaiting, since>>
      /\ up /\ fetch = "none" /\ wire # <<>> /\ wire' = rest
      /\ wire \in Seq(Update) /\ Feed(wire, published, truth) /\ MarketOK
  BY DEF HandleDelta, market, BookInv, SocketOK
<1>2. /\ u \in Update /\ u.type = "update" /\ rest \in Seq(Update)
  <2>1. u \in Update /\ rest \in Seq(Update)
    BY <1>1
  <2> HIDE DEF u, rest
  <2> QED
    BY <2>1 DEF Update
<1>3. /\ u \in Updates(wire) /\ Covers(truth, u) /\ u.from - 1 \in Starts(wire, published)
      /\ \A start \in Starts(wire, published) : u.from - 1 <= start
      /\ \A start \in Starts(rest, published) : u.to <= start
      /\ u.to \in Starts(rest, published)
      /\ Starts(rest, published) \subseteq Starts(wire, published)
      /\ Updates(wire) = Updates(rest) \cup {u}
      /\ Feed(rest, published, truth)
  <2>1. published \in Nat
    BY NumbersOK
  <2> QED
    BY <1>1, <1>2, <2>1, FeedReads
<1> HIDE DEF u, rest
<1>4. /\ u.to \in 1..Len(truth) /\ u.from \in Nat /\ u.from <= u.to /\ Len(truth) \in Nat
      /\ u.set \in LevelSet /\ u.gone \in LevelSet
      /\ \A start \in Starts(wire, published) : start \in 1..Len(truth)
  BY <1>2, <1>3, NumbersOK DEF Covers, Update
<1>5. Now' = Now /\ MarketOK'
  BY <1>1, MarketRests
<1>6. ASSUME NEW k \in 1..Len(truth), Reaches(k)', NEW l \in Settled(k)'
      PROVE  l \in truth[k] <=> l \in Now
  <2>1. PICK start \in Starts(rest, published) : start <= k
    BY <1>1, <1>6 DEF Reaches
  <2>2. start \in Starts(wire, published) /\ u.to <= start
    BY <1>3, <2>1
  <2>3. Reaches(k) /\ ~(u.to > k)
    BY <1>4, <2>1, <2>2 DEF Reaches
  <2>4. l \in Settled(k)
    BY <1>1, <1>3, <2>3 DEF Settled
  <2> QED
    BY <2>3, <2>4 DEF BookInv, TellsOK
<1>7. TellsOK'
  BY <1>1, <1>5, <1>6 DEF TellsOK
<1>8. CASE Waits
  <2>1. /\ BuffersDelta(u) /\ UNCHANGED <<book, needsResync, prevLob, view, seeded>>
        /\ buffer' = Append(buffer, u)
    BY <1>8 DEF HandleDelta, Waits, BuffersDelta, u
  <2>2. /\ buffer \in Seq(Update) /\ buffer' \in Seq(Update) /\ Len(buffer) \in Nat
        /\ Len(buffer') = Len(buffer) + 1 /\ buffer'[Len(buffer')] = u
        /\ \A i \in 1..Len(buffer) : buffer'[i] = buffer[i]
    BY <1>2, <2>1 DEF BookInv, BufferOK
  <2>3. Front \in (u.from - 1)..u.to
    <3>1. Front \in Starts(wire, published) /\ Front <= u.from - 1
      BY <1>1, <1>3, <1>8 DEF BookInv, WaitOK
    <3> QED
      BY <1>3, <1>4, <3>1
  <2>4. BufferOK'
    <3> SUFFICES ASSUME NEW i \in 1..Len(buffer')
                 PROVE  /\ Covers(truth, buffer'[i])
                        /\ (IF i = 1 THEN since ELSE buffer'[i - 1].to)
                              \in (buffer'[i].from - 1)..buffer'[i].to
      BY <1>1, <2>2 DEF BufferOK
    <3>1. CASE i \in 1..Len(buffer)
      <4>1. /\ Covers(truth, buffer[i])
            /\ (IF i = 1 THEN since ELSE buffer[i - 1].to) \in (buffer[i].from - 1)..buffer[i].to
        BY <3>1 DEF BookInv, BufferOK
      <4>2. buffer'[i] = buffer[i] /\ (i # 1 => buffer'[i - 1] = buffer[i - 1])
        BY <2>2, <3>1
      <4> QED
        BY <4>1, <4>2
    <3>2. CASE i = Len(buffer) + 1
      <4>1. buffer'[i] = u /\ (i # 1 => buffer'[i - 1] = buffer[Len(buffer)])
        BY <2>2, <3>2
      <4>2. Front = IF i = 1 THEN since ELSE buffer[Len(buffer)].to
        BY <2>2, <3>2 DEF Front
      <4> QED
        BY <1>3, <2>3, <4>1, <4>2
    <3> QED
      BY <2>2, <3>1, <3>2
  <2>5. WaitOK'
    <3>1. buffer' # <<>> /\ Front' = u.to
      BY <2>2 DEF Front
    <3>2. Starts(wire, published)' = Starts(rest, published)
      BY <1>1
    <3>3. Waits' /\ up' /\ book = {} /\ ~needsResync /\ seeded = "no"
      BY <1>1, <1>8 DEF Waits, BookInv, WaitOK
    <3> QED
      BY <1>3, <2>1, <3>1, <3>2, <3>3 DEF WaitOK
  <2>6. SocketOK' /\ SeededOK' /\ UncrossedOK'
    BY <1>1, <1>2, <1>3, <1>5, <1>8, <2>1
       DEF BookInv, SocketOK, SeededOK, UncrossedOK, Crossed, WaitOK
  <2> QED
    BY <1>7, <2>4, <2>5, <2>6 DEF BookInv
<1>9. CASE ~Waits
  <2> DEFINE s == Applied(State, u)
  <2>1. AppliesDelta(u) /\ UNCHANGED <<fetch, requested, buffer>>
    BY <1>9 DEF HandleDelta, Waits, u
  <2>2. State \in Work /\ State.levels = book /\ State.resync = needsResync
    BY DEF State, Work, BookInv, SocketOK
  <2>3. s \in Work /\ ~Crossed(s.levels) /\ (~s.resync => s.levels = Apply(book, u))
    BY <1>4, <2>2, AppliedFacts
  <2> HIDE DEF s
  <2>4. BufferOK' /\ WaitOK'
    BY <1>1, <1>9, <2>1 DEF BookInv, BufferOK, WaitOK, Waits
  <2>5. CASE s.resync
    <3>1. book' = {} /\ needsResync' = FALSE /\ seeded' = "no" /\ view' = view
      BY <2>1, <2>5 DEF AppliesDelta, Dropped, s
    <3>2. SocketOK' /\ SeededOK' /\ UncrossedOK'
      BY <1>1, <1>2, <1>3, <1>5, <3>1
         DEF BookInv, SocketOK, SeededOK, UncrossedOK, Crossed, LevelSet
    <3> QED
      BY <1>7, <2>4, <3>2 DEF BookInv
  <2>6. CASE ~s.resync
    <3>1. /\ book' = s.levels /\ Emits(Item(s.levels))
          /\ needsResync' = needsResync /\ seeded' = seeded
      BY <2>1, <2>6 DEF AppliesDelta, s
    <3>2. view' = view \/ view' = Item(s.levels)
      BY <3>1 DEF Emits
    <3>3. UncrossedOK'
      <4>1. ~Crossed(book')
        BY <2>3, <3>1
      <4>2. ~Crossed(view')
        BY <2>3, <3>2, ItemUncrossed DEF BookInv, UncrossedOK
      <4> QED
        BY <4>1, <4>2 DEF UncrossedOK, Crossed
    <3>4. SocketOK'
      BY <1>1, <1>2, <1>3, <1>5, <2>3, <3>1 DEF BookInv, SocketOK, Work
    <3>5. SeededOK'
      <4> SUFFICES ASSUME seeded = "exact", NEW l \in Level \ touched,
                          \A v \in Updates(rest) : l \notin Touches(v)
                   PROVE  l \in book' <=> l \in Now
        BY <1>1, <1>5, <3>1 DEF SeededOK
      <4>1. book' = Apply(book, u)
        BY <2>3, <2>6, <3>1
      <4>2. CASE l \in Touches(u)
        <5>1. l \in book' <=> l \in u.set
          BY <4>1, <4>2 DEF Apply, Touches
        <5>2. l \in u.set <=> l \in truth[u.to]
          BY <1>3, <4>2, CoversTells
        <5>3. PICK k \in 1..Len(truth) : k = u.to
          BY <1>4
        <5>4. k \in Starts(rest, published) /\ k <= k
          BY <1>3, <5>3
        <5>5. Reaches(k)' /\ l \in Settled(k)'
          BY <1>1, <5>4 DEF Reaches, Settled
        <5>6. l \in truth[k] <=> l \in Now
          BY <1>6, <5>5
        <5> QED
          BY <5>1, <5>2, <5>3, <5>6
      <4>3. CASE l \notin Touches(u)
        <5>1. l \in book' <=> l \in book
          BY <4>1, <4>3 DEF Apply, Touches
        <5>2. l \in book <=> l \in Now
          BY <1>3, <4>3 DEF BookInv, SeededOK
        <5> QED
          BY <5>1, <5>2
      <4> QED
        BY <4>2, <4>3
    <3> QED
      BY <1>7, <2>4, <3>3, <3>4, <3>5 DEF BookInv
  <2> QED
    BY <2>5, <2>6
<1> QED
  BY <1>8, <1>9

\* The merged book is one of the exchange's, reached by the deltas to come.
LEMMA MergedBookInv == ASSUME BookInv, SnapshotMerged PROVE BookInv'
<1> DEFINE s == Merged(answer)
           k == Newest(Len(buffer))
<1>1. /\ UNCHANGED <<truth, touched, published, up, wire, snapshotDelay, since>>
      /\ fetch = "merge" /\ answer # 0 /\ book' = s.levels /\ needsResync' = s.resync
      /\ view' = view \/ view' = Item(s.levels)
      /\ awaiting' = FALSE /\ buffer' = <<>> /\ fetch' = "none" /\ answer' = 0
      /\ seeded' = IF answer < since THEN "stale" ELSE "exact"
  BY DEF SnapshotMerged, market
<1>2. s \in Work /\ ~Crossed(s.levels)
  BY <1>1, MergedUncrossed
<1>3. answer \in Nat /\ since \in Nat
  BY NumbersOK DEF BookInv, SocketOK
<1>4. k \in 1..Len(truth) /\ Reaches(k)
  BY <1>1, NewestReached
<1>5. since <= answer => s.levels = truth[k]
  BY <1>1, MergedExact
<1> HIDE DEF s, k
<1>6. Now' = Now /\ MarketOK'
  BY <1>1, MarketRests DEF BookInv, SocketOK
<1>7. SocketOK'
  BY <1>1, <1>2, <1>6, NumbersOK DEF BookInv, SocketOK, Work
<1>8. TellsOK'
  BY <1>1, <1>6 DEF BookInv, TellsOK, Reaches, Settled
<1>9. BufferOK' /\ WaitOK'
  <2>1. <<>> \in Seq(Update) /\ \A i \in 1..Len(<<>>) : FALSE
    OBVIOUS
  <2> QED
    BY <1>1, <2>1 DEF BufferOK, WaitOK, Waits
<1>10. SeededOK'
  <2> SUFFICES ASSUME seeded' = "exact", NEW l \in Level \ touched,
                      \A u \in Updates(wire) : l \notin Touches(u)
               PROVE  l \in book' <=> l \in Now
    BY <1>1, <1>6 DEF SeededOK
  <2>1. book' = truth[k]
    BY <1>1, <1>3, <1>5
  <2>2. l \in Settled(k)
    BY DEF Settled
  <2> QED
    BY <1>4, <2>1, <2>2 DEF BookInv, TellsOK
<1>11. UncrossedOK'
  <2>1. ~Crossed(book')
    BY <1>1, <1>2
  <2>2. ~Crossed(view')
    BY <1>1, <1>2, ItemUncrossed DEF BookInv, UncrossedOK
  <2> QED
    BY <2>1, <2>2 DEF UncrossedOK, Crossed
<1> QED
  BY <1>7, <1>8, <1>9, <1>10, <1>11 DEF BookInv

\* on_connect and on_reconnect start over with an empty socket.
LEMMA ResetBookInv == ASSUME BookInv, Connect \/ Disconnect PROVE BookInv'
<1>1. /\ UNCHANGED <<truth, answer, snapshotDelay, view>>
      /\ wire' = <<>> /\ book' = {} /\ needsResync' = FALSE /\ seeded' = "no"
      /\ fetch' \in {"emit", fetch, "none"} /\ fetch' # "merge"
      /\ \/ ~up /\ up' /\ touched' = {} /\ published' = Len(truth) /\ since' = Len(truth)
         \/ up /\ ~up' /\ UNCHANGED <<touched, published, since>>
      /\ \/ snapshotDelay = 0 /\ UNCHANGED <<awaiting, buffer>>
         \/ snapshotDelay # 0 /\ buffer' = <<>>
  BY DEF Connect, Disconnect, Reset, Dropped, Subscription, market
<1>2. MarketOK' /\ Now' = Now
  BY <1>1, MarketRests DEF BookInv, SocketOK
<1>3. /\ wire' \in Seq(Update) /\ Updates(wire') = {} /\ Starts(wire', published') = {published'}
      /\ Feed(wire', published', truth)
  <2>1. <<>> \in Seq(Update)
    OBVIOUS
  <2> QED
    BY <1>1, <2>1, EmptyFeed
<1>4. SocketOK'
  <2>1. since' \in 1..Len(truth) /\ {} \in LevelSet
    BY <1>1, NumbersOK DEF BookInv, SocketOK, LevelSet
  <2> QED
    BY <1>1, <1>2, <1>3, <2>1 DEF BookInv, SocketOK
<1>5. TellsOK'
  <2> SUFFICES ASSUME NEW k \in 1..Len(truth), Reaches(k)', NEW l \in Settled(k)'
               PROVE  l \in truth[k] <=> l \in Now'
    BY <1>1 DEF TellsOK
  <2>1. k \in published'..Len(truth') /\ l \in Level \ touched'
    BY <1>1, <1>3, NumbersOK DEF Reaches, Settled
  <2> QED
    BY <1>1, <1>2, <2>1 DEF MarketOK
<1>6. buffer' = <<>>
  BY <1>1 DEF BookInv, WaitOK, Waits
<1>7. BufferOK'
  <2>1. <<>> \in Seq(Update) /\ \A i \in 1..Len(<<>>) : FALSE
    OBVIOUS
  <2> QED
    BY <1>6, <2>1 DEF BufferOK
<1>8. WaitOK'
  <2>1. Waits' /\ up' => Front' = Len(truth) /\ Starts(wire, published)' = {Len(truth)}
    BY <1>1, <1>3, <1>6 DEF Front
  <2>2. Len(truth) <= Len(truth)
    BY NumbersOK
  <2> QED
    BY <1>1, <1>6, <2>1, <2>2 DEF WaitOK, Waits
<1>9. SeededOK' /\ UncrossedOK'
  BY <1>1 DEF BookInv, SeededOK, UncrossedOK, Crossed
<1> QED
  BY <1>4, <1>5, <1>7, <1>8, <1>9 DEF BookInv

\* What touches neither book, buffer nor socket.
LEMMA OthersBookInv ==
    ASSUME BookInv, UNCHANGED <<truth, touched, published, up, wire, snapshotDelay, book,
                                needsResync, awaiting, buffer, since, seeded>>,
           answer' \in 0..Len(truth), fetch' \in {fetch, "none"}, ~Crossed(view')
    PROVE  BookInv'
<1>1. MarketOK' /\ Now' = Now
  BY MarketRests DEF BookInv, SocketOK
<1>2. SocketOK' /\ TellsOK' /\ SeededOK'
  BY <1>1 DEF BookInv, SocketOK, TellsOK, Reaches, Settled, SeededOK
<1>3. BufferOK' /\ WaitOK'
  BY DEF BookInv, BufferOK, WaitOK, Waits, Front
<1>4. UncrossedOK'
  BY DEF BookInv, UncrossedOK, Crossed
<1> QED
  BY <1>2, <1>3, <1>4 DEF BookInv

LEMMA InitBookInv == Init => BookInv
<1> SUFFICES ASSUME Init PROVE BookInv
  OBVIOUS
<1>1. /\ wire = <<>> /\ ~up /\ fetch = "none" /\ answer = 0 /\ book = {} /\ needsResync = FALSE
      /\ view = {} /\ awaiting = FALSE /\ buffer = <<>> /\ since = 1 /\ seeded = "no"
  BY DEF Init, NoItem
<1>2. MarketOK /\ Len(truth) = 1 /\ touched = {} /\ published = 1
  BY InitMarketOK DEF Init
<1>3. Now = truth[1]
  BY <1>2 DEF Now
<1>4. <<>> \in Seq(Update) /\ (\A i \in 1..Len(<<>>) : FALSE) /\ {} \in LevelSet /\ ~Crossed({})
  BY DEF LevelSet, Crossed
<1>5. SocketOK
  <2>1. Feed(wire, published, truth) /\ wire \in Seq(Update) /\ book \in LevelSet
    <3>1. Feed(<<>>, published, truth)
      BY EmptyFeed
    <3>2. Feed(wire, published, truth)
      BY <1>1, <3>1
    <3>3. wire \in Seq(Update)
      BY <1>1
    <3> QED
      BY <1>1, <1>4, <3>2, <3>3
  <2>2. answer \in 0..Len(truth) /\ since \in 1..Len(truth) /\ needsResync \in BOOLEAN
    <3>1. answer = 0 /\ since = 1 /\ needsResync \in BOOLEAN
      BY <1>1
    <3> QED
      BY <1>2, <3>1
  <2>3. ~up => wire = <<>>
    BY <1>1
  <2> QED
    BY <1>2, <2>1, <2>2, <2>3 DEF SocketOK
<1>6. TellsOK
  BY <1>2, <1>3 DEF TellsOK
<1>7. BufferOK /\ WaitOK /\ SeededOK /\ UncrossedOK
  BY <1>1, <1>4 DEF BufferOK, WaitOK, Waits, SeededOK, UncrossedOK
<1> QED
  BY <1>5, <1>6, <1>7 DEF BookInv

LEMMA NextBookInv == BookInv /\ [Next]_vars => BookInv'
<1> SUFFICES ASSUME BookInv, [Next]_vars PROVE BookInv'
  OBVIOUS
<1>1. CASE Moves
  BY <1>1, MovesBookInv
<1>2. CASE PublishesDelta
  BY <1>2, PublishesBookInv
<1>3. CASE Connect \/ Disconnect
  BY <1>3, ResetBookInv
<1>4. CASE HandleDelta
  BY <1>4, HandleBookInv
<1>5. CASE SnapshotMerged
  BY <1>5, MergedBookInv
<1>6. CASE RestAnswers \/ FetchFails \/ SnapshotEmitted \/ UNCHANGED vars
  <2>1. answer \in 0..Len(truth) /\ Len(truth) \in Nat /\ ~Crossed(view)
    BY NumbersOK DEF BookInv, SocketOK, UncrossedOK
  <2>2. /\ UNCHANGED <<truth, touched, published, up, wire, snapshotDelay, book,
                       needsResync, awaiting, buffer, since, seeded>>
        /\ fetch' \in {fetch, "none"} /\ answer' \in 0..Len(truth)
    BY <1>6, <2>1 DEF RestAnswers, FetchFails, SnapshotEmitted, vars, market, adapter
  <2>3. ~Crossed(view')
    <3>1. CASE SnapshotEmitted
      <4>1. view' = Item(truth[answer]) /\ answer \in 1..Len(truth)
        BY <2>1, <3>1 DEF SnapshotEmitted
      <4>2. ~Crossed(truth[answer])
        BY <4>1, NumbersOK DEF Book
      <4> QED
        BY <4>1, <4>2, ItemUncrossed
    <3>2. CASE view' = view
      BY <2>1, <3>2
    <3> QED
      BY <1>6, <3>1, <3>2 DEF RestAnswers, FetchFails, vars
  <2> QED
    BY <2>2, <2>3, OthersBookInv
<1> QED
  BY <1>1, <1>2, <1>3, <1>4, <1>5, <1>6 DEF Next

LEMMA BookInvariance == Spec => []BookInv
BY InitBookInv, NextBookInv, PTL DEF Spec

(* ---- the theorems ------------------------------------------------------ *)

\* No crossed book reaches the consumer, even when deltas older than the
\* snapshot are applied on top of it (repair_crossing).
THEOREM NoCrossedCorrect == Spec => []NoCrossedItem
<1>1. BookInv => NoCrossedItem
  BY DEF BookInv, UncrossedOK, NoCrossedItem
<1> QED
  BY <1>1, BookInvariance, PTL

\* A snapshot not older than the subscription and the buffered deltas give the
\* exchange's book at the newest of the two (apply_snapshot_and_merge).
THEOREM MergeCorrect == Spec => MergeIsExact
<1>1. BookInv /\ [Next]_vars =>
         [SnapshotMerged /\ since <= answer
          => LET last == buffer[Len(buffer)].to
             IN  book' = truth[IF last > answer THEN last ELSE answer]]_vars
  <2> SUFFICES ASSUME BookInv, SnapshotMerged, since <= answer
               PROVE  LET last == buffer[Len(buffer)].to
                      IN  book' = truth[IF last > answer THEN last ELSE answer]
    OBVIOUS
  <2>1. fetch = "merge" /\ answer # 0 /\ book' = Merged(answer).levels
    BY DEF SnapshotMerged
  <2>2. Merged(answer).levels = truth[Newest(Len(buffer))]
    BY <2>1, MergedExact
  <2>3. /\ Len(buffer) # 0 /\ buffer[Len(buffer)].to \in Nat /\ answer \in Nat
    <3>1. buffer # <<>> /\ Len(buffer) \in 1..Len(buffer)
      BY <2>1 DEF BookInv, WaitOK, BufferOK
    <3> QED
      BY <3>1, NumbersOK DEF BookInv, SocketOK
  <2> QED
    BY <2>1, <2>2, <2>3 DEF Newest
<1> QED
  BY <1>1, BookInvariance, PTL DEF Spec, MergeIsExact

\* Applying a sequence of deltas, one at a time.
LEMMA ReplayedInduction ==
    ASSUME NEW levels \in LevelSet, NEW deltas \in Seq(Update), NEW S,
           <<0, levels>> \in S,
           \A i \in 1..Len(deltas), t \in LevelSet :
               <<i - 1, t>> \in S => <<i, Apply(t, deltas[i])>> \in S
    PROVE  Replayed(levels, deltas) \in LevelSet
           /\ <<Len(deltas), Replayed(levels, deltas)>> \in S
<1> DEFINE n == Len(deltas)
           F == [p \in LevelSet \X Update |-> Apply(p[1], p[2])]
           r == CHOOSE r : r = [i \in 0..n |-> IF i = 0 THEN levels
                                               ELSE Apply(r[i - 1], deltas[i])]
<1>1. ASSUME NEW t \in LevelSet, NEW u \in Update PROVE Apply(t, u) \in LevelSet
  BY DEF Apply, Update, LevelSet
<1>2. F \in [LevelSet \X Update -> LevelSet]
  BY <1>1
<1>3. ASSUME NEW t \in LevelSet, NEW u \in Update PROVE F[<<t, u>>] = Apply(t, u)
  <2>1. <<t, u>> \in LevelSet \X Update /\ <<t, u>>[1] = t /\ <<t, u>>[2] = u
    OBVIOUS
  <2>2. F[<<t, u>>] = Apply(<<t, u>>[1], <<t, u>>[2])
    BY <2>1, Zenon
  <2> HIDE DEF F
  <2> QED
    BY <2>1, <2>2
<1> HIDE DEF F
<1>4. PICK g : g \in [0..n -> LevelSet] /\ Replays(g, F, levels, deltas)
  BY <1>2, ReplayExists
<1>5. ASSUME NEW i \in 1..n PROVE g[i] = Apply(g[i - 1], deltas[i])
  <2>1. deltas[i] \in Update /\ g[i - 1] \in LevelSet
    BY <1>4
  <2> QED
    BY <1>3, <1>4, <2>1 DEF Replays
<1>6. g = [i \in 0..n |-> IF i = 0 THEN levels ELSE Apply(g[i - 1], deltas[i])]
  BY <1>4, <1>5 DEF Replays
<1>7. r = [i \in 0..n |-> IF i = 0 THEN levels ELSE Apply(r[i - 1], deltas[i])]
  BY <1>6, Zenon
<1>8. Replayed(levels, deltas) = r[n]
  BY DEF Replayed
<1> HIDE DEF r
<1>9. n \in Nat /\ r[0] = levels /\ \A i \in 1..n : r[i] = Apply(r[i - 1], deltas[i])
  BY <1>7
<1> DEFINE T == {i \in 0..n : r[i] \in LevelSet /\ <<i, r[i]>> \in S}
<1>10. 0 \in T
  BY <1>9
<1>11. ASSUME NEW i \in 0..n-1, i \in T PROVE i + 1 \in T
  <2>1. i + 1 \in 1..n /\ (i + 1) - 1 = i /\ deltas[i + 1] \in Update
    BY <1>9
  <2>2. r[i + 1] = Apply(r[i], deltas[i + 1])
    BY <1>9, <2>1
  <2>3. r[i + 1] \in LevelSet
    BY <1>1, <1>11, <2>1, <2>2
  <2>4. <<i + 1, r[i + 1]>> \in S
    BY <1>11, <2>1, <2>2
  <2> QED
    BY <2>1, <2>3, <2>4
<1> HIDE DEF T
<1>12. n \in T
  BY <1>9, <1>10, <1>11, UpTo
<1> QED
  BY <1>8, <1>12 DEF T

\* After the first i deltas a level is as it is now unless a later one tells it.
LEMMA Repairs == BookInv => InFlightRepairs
<1> SUFFICES ASSUME BookInv, seeded = "exact"
             PROVE  Apply(Replayed(book, wire), UpdateNow) = Now
  BY DEF InFlightRepairs
<1> DEFINE n == Len(wire)
           Told(i) == {l \in Level \ touched : \A j \in (i + 1)..n : l \notin Touches(wire[j])}
           S == {p \in (0..n) \X LevelSet : \A l \in Told(p[1]) : l \in p[2] <=> l \in Now}
<1>1. /\ wire \in Seq(Update) /\ book \in LevelSet /\ n \in Nat
      /\ Feed(wire, published, truth) /\ Now \in LevelSet /\ touched \subseteq Level
  BY NumbersOK DEF BookInv, SocketOK
<1>2. ASSUME NEW i \in 1..n
      PROVE  wire[i] \in Update /\ wire[i].type = "update" /\ wire[i] \in Updates(wire)
  <2>1. wire[i] \in Update
    BY <1>1
  <2>2. wire[i].type = "update"
    BY <2>1 DEF Update
  <2> QED
    BY <2>1, <2>2 DEF Updates, Members
<1>3. \A u \in Updates(wire) : \E j \in 1..n : u = wire[j]
  BY DEF Updates, Members
<1>4. <<0, book>> \in S
  <2> SUFFICES ASSUME NEW l \in Told(0) PROVE l \in book <=> l \in Now
    BY <1>1
  <2>1. l \in Level \ touched /\ \A j \in 1..n : l \notin Touches(wire[j])
    BY <1>1
  <2>2. \A u \in Updates(wire) : l \notin Touches(u)
    BY <1>3, <2>1
  <2> QED
    BY <2>1, <2>2 DEF BookInv, SeededOK
<1>5. ASSUME NEW i \in 1..n, NEW t \in LevelSet, <<i - 1, t>> \in S
      PROVE  <<i, Apply(t, wire[i])>> \in S
  <2> DEFINE u == wire[i]
  <2>1. u \in Update /\ u \in Updates(wire) /\ Covers(truth, u) /\ u.to \in Starts(wire, published)
        /\ u.from \in Nat /\ u.to \in Nat /\ u.from <= u.to /\ u.to \in 1..Len(truth)
    BY <1>1, <1>2 DEF Feed, Covers, Update
  <2>2. Apply(t, u) \in LevelSet /\ i \in 0..n
    BY <1>1, <2>1 DEF Apply, Update, LevelSet
  <2>3. ASSUME NEW l \in Told(i) PROVE l \in Apply(t, u) <=> l \in Now
    <3>1. l \in Level \ touched /\ \A j \in (i + 1)..n : l \notin Touches(wire[j])
      OBVIOUS
    <3>2. CASE l \in Touches(u)
      <4>1. l \in Apply(t, u) <=> l \in truth[u.to]
        <5>1. l \in Apply(t, u) <=> l \in u.set
          BY <3>2 DEF Apply, Touches
        <5> HIDE DEF u
        <5> QED
          BY <2>1, <3>2, <5>1, CoversTells
      <4>2. ASSUME NEW v \in Updates(wire), v.to > u.to PROVE l \notin Touches(v)
        <5>1. PICK j \in 1..n : v = wire[j]
          BY <1>3
        <5>2. v.to \in Nat /\ u.to \in Nat
          BY <2>1, NumbersOK
        <5>3. ~(j < i)
          <6> SUFFICES ASSUME j < i PROVE FALSE
            OBVIOUS
          <6>1. Before(v, u)
            BY <1>1, <5>1 DEF Feed, Ordered
          <6>2. v.to < u.from
            BY <1>2, <5>1, <6>1 DEF Before
          <6> QED
            BY <2>1, <4>2, <5>2, <6>2
        <5>4. j # i
          BY <4>2, <5>1, <5>2
        <5> QED
          BY <1>1, <3>1, <5>1, <5>3, <5>4
      <4>3. l \in Settled(u.to) /\ Reaches(u.to)
        BY <2>1, <3>1, <4>2 DEF Settled, Reaches
      <4> QED
        BY <2>1, <4>1, <4>3 DEF BookInv, TellsOK
    <3>3. CASE l \notin Touches(u)
      <4>1. l \in Told(i - 1)
        <5>1. ASSUME NEW j \in ((i - 1) + 1)..n PROVE l \notin Touches(wire[j])
          <6>1. j = i \/ j \in (i + 1)..n
            BY <1>1
          <6> QED
            BY <3>1, <3>3, <6>1
        <5> QED
          BY <3>1, <5>1
      <4>2. l \in t <=> l \in Now
        BY <1>5, <4>1
      <4> QED
        BY <3>3, <4>2 DEF Apply, Touches
    <3> QED
      BY <3>2, <3>3
  <2> HIDE DEF u, Told
  <2> QED
    BY <2>2, <2>3 DEF u
<1> HIDE DEF S
<1>6. Replayed(book, wire) \in LevelSet /\ <<n, Replayed(book, wire)>> \in S
  BY <1>1, <1>4, <1>5, ReplayedInduction
<1> DEFINE levels == Replayed(book, wire)
<1> HIDE DEF levels
<1>7. \A l \in Level \ touched : l \in levels <=> l \in Now
  <2>1. \A l \in Told(n) : l \in levels <=> l \in Now
    BY <1>6 DEF S, levels
  <2>2. \A j \in (n + 1)..n : FALSE
    BY <1>1
  <2> QED
    BY <2>1, <2>2
<1>8. levels \subseteq Level /\ Now \subseteq Level
  BY <1>1, <1>6 DEF levels, LevelSet
<1>9. UpdateNow.set = touched \cap Now /\ UpdateNow.gone = touched \ Now
  BY DEF UpdateNow
<1> QED
  BY <1>7, <1>8, <1>9 DEF Apply, levels

\* Once a snapshot not older than the subscription is merged, the deltas in the
\* socket and what is still unpublished lead to the exchange's book
\* (handle_message after a fetch).
THEOREM InFlightCorrect == Spec => []InFlightRepairs
BY Repairs, BookInvariance, PTL
=============================================================================
