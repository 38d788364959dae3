---------------------------- MODULE BitvavoProofs ---------------------------
(***************************************************************************)
(* Proofs about the Bitvavo adapter in one task, for every market and any  *)
(* number of reconnects: the book is exact once the snapshot is handled,   *)
(* and what is sent is a book the exchange had.  Both need getBook to ask  *)
(* for the whole book (max_level = None).                                  *)
(***************************************************************************)
EXTENDS BitvavoSync, MarketProofs

Snapshot == [type : {"snapshot"}, seq : Nat, levels : LevelSet]
Message  == Update \cup Snapshot

(* ---- the inductive invariant ------------------------------------------ *)

Snapshots == {m \in Members(wire) : m.type = "snapshot"}

\* A book after change k misses nothing of what is still to be read.
Reaches(k) == \E start \in Starts(wire, published) : start <= k

\* The changes at which the snapshots on their way were taken.
Coming == {m.seq : m \in Snapshots} \cup ({reply} \ {0})

WireOK == /\ wire \in Seq(Message)
          /\ Feed(wire, published, truth)
          /\ \A m \in Snapshots : m.seq \in 1..Len(truth) /\ m.levels = truth[m.seq]
          /\ reply \in 0..Len(truth)
          /\ reply # 0 => Snapshots = {}
          /\ asked => Coming = {}
          /\ ~up => wire = <<>> /\ reply = 0 /\ ~asked

\* The buffer: every update goes on from the one before it or begins at a
\* change the snapshot includes.
BufferOK == /\ pending \in Seq(Update)
            /\ lastMdSeq # 0 => pending = <<>>
            /\ \A i \in 1..Len(pending) :
                  /\ Covers(truth, pending[i])
                  /\ \/ i > 1 /\ pending[i].from - 1 <= pending[i - 1].to
                     \/ \A k \in Coming : pending[i].from - 1 <= k

\* Between subscription and snapshot the book, old or empty, is behind what is
\* to be read, and what was read already is in the snapshot, in the buffer or,
\* if the book is an old one, in the book.
AwaitOK == up /\ ~synced =>
    /\ \A start \in Starts(wire, published) : lastMdSeq <= start
    /\ \A k \in Coming : \/ Reaches(k)
                         \/ lastMdSeq # 0 /\ Reaches(lastMdSeq)
                         \/ pending # <<>> /\ Reaches(pending[Len(pending)].to)

BookOK == /\ book \in LevelSet /\ lastMdSeq \in 0..Len(truth) /\ lost \in BOOLEAN
          /\ synced => lastMdSeq # 0 /\ Coming = {} /\ ~asked
          /\ synced /\ ~lost => book = truth[lastMdSeq]
          /\ up /\ synced /\ ~lost => Reaches(lastMdSeq)

IInv == MarketOK /\ WireOK /\ BufferOK /\ AwaitOK /\ BookOK

LEMMA NumbersOK ==
    ASSUME IInv
    PROVE  /\ truth \in Seq(Book) /\ Len(truth) \in Nat \ {0} /\ published \in 1..Len(truth)
           /\ Starts(wire, published) \subseteq 1..Len(truth) /\ Coming \subseteq 1..Len(truth)
           /\ lastMdSeq \in 0..Len(truth)
           /\ \A k \in 1..Len(truth) : truth[k] \in Book /\ truth[k] \in LevelSet
           /\ \A i \in 1..Len(pending) : pending[i] \in Update
<1>1. MarketOK /\ pending \in Seq(Update) /\ lastMdSeq \in 0..Len(truth)
  BY DEF IInv, BufferOK, BookOK
<1>2. Starts(wire, published) \subseteq 1..Len(truth)
  BY <1>1, MarketNumbers DEF Starts, IInv, WireOK, Feed, Covers
<1>3. Coming \subseteq 1..Len(truth)
  BY DEF Coming, IInv, WireOK
<1> QED
  BY <1>1, <1>2, <1>3, MarketNumbers

(* ---- the buffer -------------------------------------------------------- *)

\* The record the operators of the order book work on.
Work == [book : LevelSet, last : Nat, lost : BOOLEAN]

LEMMA AppliedFacts ==
    ASSUME NEW s \in Work, NEW u \in Update
    PROVE  /\ AppliedUpdate(s, u) \in Work
           /\ u.from <= s.last => /\ AppliedUpdate(s, u).book = s.book
                                  /\ AppliedUpdate(s, u).last = s.last
                                  /\ (AppliedUpdate(s, u).lost <=> s.lost \/ s.last < u.to)
           /\ u.from > s.last => /\ AppliedUpdate(s, u).book = Apply(s.book, u)
                                 /\ AppliedUpdate(s, u).last = u.to
                                 /\ AppliedUpdate(s, u).lost = s.lost
<1>1. u.from \in Nat /\ u.to \in Nat /\ s.last \in Nat
  BY DEF Update, Work
<1>2. CASE u.from <= s.last
  <2> DEFINE more == s.lost \/ Cut(s, u)
  <2>1. more \in BOOLEAN
    BY DEF Cut, Work
  <2>2. AppliedUpdate(s, u) = [s EXCEPT !.lost = more]
    BY <1>2 DEF AppliedUpdate
  <2>3. more <=> s.lost \/ s.last < u.to
    BY <1>2 DEF Cut
  <2> HIDE DEF more
  <2> QED
    BY <1>1, <1>2, <2>1, <2>2, <2>3 DEF Work
<1>3. CASE ~(u.from <= s.last)
  <2>1. Apply(s.book, u) \in LevelSet
    BY DEF Apply, Work, Update, LevelSet
  <2>2. AppliedUpdate(s, u) = [s EXCEPT !.book = Apply(s.book, u), !.last = u.to]
    BY <1>3 DEF AppliedUpdate
  <2> HIDE DEF LevelSet
  <2> QED
    BY <1>1, <1>3, <2>1, <2>2 DEF Work
<1> QED
  BY <1>2, <1>3, <1>1

\* Replaying the buffer, one update at a time (drain_pending): what holds of
\* the state before it, and is kept by each update, holds afterwards.
LEMMA DrainedInduction ==
    ASSUME NEW s \in Work, pending \in Seq(Update), NEW S,
           <<0, s>> \in S,
           \A i \in 1..Len(pending), t \in Work :
               <<i - 1, t>> \in S => <<i, AppliedUpdate(t, pending[i])>> \in S
    PROVE  Drained(s) \in Work /\ <<Len(pending), Drained(s)>> \in S
<1> DEFINE n == Len(pending)
           F == [p \in Work \X Update |-> AppliedUpdate(p[1], p[2])]
           r == CHOOSE r : r = [i \in 0..n |-> IF i = 0 THEN s
                                               ELSE AppliedUpdate(r[i - 1], pending[i])]
<1>1. F \in [Work \X Update -> Work]
  <2> SUFFICES ASSUME NEW t \in Work, NEW u \in Update PROVE AppliedUpdate(t, u) \in Work
    OBVIOUS
  <2> QED
    BY AppliedFacts
<1>2. ASSUME NEW t \in Work, NEW u \in Update PROVE F[<<t, u>>] = AppliedUpdate(t, u)
  <2>1. <<t, u>> \in Work \X Update /\ <<t, u>>[1] = t /\ <<t, u>>[2] = u
    OBVIOUS
  <2>2. F[<<t, u>>] = AppliedUpdate(<<t, u>>[1], <<t, u>>[2])
    BY <2>1, Zenon
  <2> HIDE DEF F
  <2> QED
    BY <2>1, <2>2
<1> HIDE DEF F
<1>3. PICK g : g \in [0..n -> Work] /\ Replays(g, F, s, pending)
  BY <1>1, ReplayExists
<1>4. ASSUME NEW i \in 1..n PROVE g[i] = AppliedUpdate(g[i - 1], pending[i])
  <2>1. pending[i] \in Update /\ g[i - 1] \in Work
    BY <1>3
  <2> QED
    BY <1>2, <1>3, <2>1 DEF Replays
<1>5. g = [i \in 0..n |-> IF i = 0 THEN s ELSE AppliedUpdate(g[i - 1], pending[i])]
  BY <1>3, <1>4 DEF Replays
<1>6. r = [i \in 0..n |-> IF i = 0 THEN s ELSE AppliedUpdate(r[i - 1], pending[i])]
  BY <1>5, Zenon
<1>7. Drained(s) = r[n]
  BY DEF Drained
<1> HIDE DEF r
<1>8. n \in Nat /\ r[0] = s /\ \A i \in 1..n : r[i] = AppliedUpdate(r[i - 1], pending[i])
  BY <1>6
<1> DEFINE T == {i \in 0..n : r[i] \in Work /\ <<i, r[i]>> \in S}
<1>9. 0 \in T
  BY <1>8
<1>10. ASSUME NEW i \in 0..n-1, i \in T PROVE i + 1 \in T
  <2>1. i + 1 \in 1..n /\ (i + 1) - 1 = i /\ pending[i + 1] \in Update
    BY <1>8
  <2>2. r[i + 1] = AppliedUpdate(r[i], pending[i + 1])
    BY <1>8, <2>1
  <2>3. r[i + 1] \in Work
    BY <1>10, <2>1, <2>2, AppliedFacts
  <2>4. <<i + 1, r[i + 1]>> \in S
    BY <1>10, <2>1, <2>2
  <2> QED
    BY <2>1, <2>3, <2>4
<1> HIDE DEF T
<1>11. n \in T
  BY <1>8, <1>9, <1>10, UpTo
<1> QED
  BY <1>7, <1>11 DEF T

(* ---- the steps --------------------------------------------------------- *)

\* A change of the market: what was sent still tells of the books it told of.
LEMMA MovesIInv == ASSUME IInv, Moves PROVE IInv'
<1>1. /\ UNCHANGED <<up, asked, reply, wire, book, lastMdSeq, pending, synced, lost>>
      /\ MarketMoves /\ MarketOK
  BY DEF IInv, Moves, exchange, adapter, consumer, history
<1>2. /\ MarketOK' /\ published' = published /\ Len(truth') = Len(truth) + 1
      /\ \A k \in 1..Len(truth) : k \in 1..Len(truth') /\ truth'[k] = truth[k]
      /\ \A u : Covers(truth, u) => Covers(truth', u)
  BY <1>1, MarketGrows
<1>3. Feed(wire, published, truth)'
  BY <1>1, <1>2 DEF Feed, IInv, WireOK
<1>4. /\ Snapshots' = Snapshots /\ Coming' = Coming
      /\ Starts(wire, published)' = Starts(wire, published)
      /\ \A k : Reaches(k)' <=> Reaches(k)
  BY <1>1, <1>2 DEF Snapshots, Coming, Reaches
<1>5. WireOK'
  BY <1>1, <1>2, <1>3, <1>4, NumbersOK DEF IInv, WireOK
<1>6. BufferOK'
  BY <1>1, <1>2, <1>4 DEF IInv, BufferOK
<1>7. AwaitOK'
  BY <1>1, <1>4 DEF IInv, AwaitOK
<1>8. BookOK'
  BY <1>1, <1>2, <1>4, NumbersOK DEF IInv, BookOK
<1> QED
  BY <1>2, <1>5, <1>6, <1>7, <1>8 DEF IInv

\* An update goes on from the last one published and covers what changed since.
LEMMA PublishesIInv == ASSUME IInv, PublishesUpdate PROVE IInv'
<1> DEFINE u == UpdateNow
<1>1. /\ UNCHANGED <<truth, up, asked, reply, book, lastMdSeq, pending, synced, lost>>
      /\ up /\ published < Len(truth) /\ touched' = {} /\ published' = Len(truth)
      /\ wire' = Append(wire, u) /\ wire \in Seq(Message) /\ Feed(wire, published, truth)
  BY DEF PublishesUpdate, Published, adapter, consumer, history, IInv, WireOK
<1>2. Covers(truth, u) /\ u.type = "update" /\ u.from = published + 1 /\ u.to = Len(truth)
  BY <1>1, UpdateNowCovers DEF IInv
<1> HIDE DEF u
<1>3. u \in Message /\ published \in Nat
  BY <1>2, NumbersOK DEF Covers, Message
<1>4. /\ Feed(wire, published, truth)'
      /\ Starts(wire, published)' = Starts(wire, published) \cup {Len(truth)}
  BY <1>1, <1>2, <1>3, FeedSends
<1>5. wire' \in Seq(Message) /\ Members(wire)' = Members(wire) \cup {u}
  BY <1>1, <1>3, Sends
<1>6. Snapshots' = Snapshots /\ Coming' = Coming
  BY <1>1, <1>2, <1>5 DEF Snapshots, Coming
<1>7. \A k : Reaches(k) => Reaches(k)'
  BY <1>4 DEF Reaches
<1>8. MarketOK'
  BY <1>1, MarketRests DEF IInv
<1>9. WireOK' /\ BufferOK'
  BY <1>1, <1>4, <1>5, <1>6 DEF IInv, WireOK, BufferOK
<1>10. AwaitOK' /\ BookOK'
  BY <1>1, <1>4, <1>6, <1>7, NumbersOK DEF IInv, AwaitOK, BookOK
<1> QED
  BY <1>8, <1>9, <1>10 DEF IInv

\* The exchange takes the snapshot now, or refuses.
LEMMA AnswersIInv == ASSUME IInv, AnswersGetBook PROVE IInv'
<1>1. /\ UNCHANGED <<truth, touched, published, up, wire, book, lastMdSeq, pending, synced, lost>>
      /\ up /\ asked /\ ~asked' /\ reply' \in {0, Len(truth)}
  BY DEF AnswersGetBook, market, adapter, consumer, history
<1>2. Coming = {} /\ Snapshots = {} /\ ~synced
  <2>1. Coming = {} /\ ~synced
    BY <1>1 DEF IInv, WireOK, BookOK
  <2>2. \A m \in Snapshots : m.seq \in Coming
    BY DEF Coming
  <2> QED
    BY <2>1, <2>2
<1>3. Snapshots' = Snapshots /\ \A k : Reaches(k)' <=> Reaches(k)
  BY <1>1 DEF Snapshots, Reaches
<1>4. Coming' \subseteq {Len(truth)}
  BY <1>1, <1>2, <1>3 DEF Coming
<1>5. Reaches(Len(truth))
  BY NumbersOK DEF Reaches, Starts
<1>6. MarketOK'
  BY <1>1, MarketRests DEF IInv
<1>7. WireOK'
  BY <1>1, <1>2, <1>3, NumbersOK DEF IInv, WireOK
<1>8. BufferOK'
  <2> SUFFICES ASSUME NEW i \in 1..Len(pending), NEW k \in Coming'
               PROVE  pending[i].from - 1 <= k
    BY <1>1 DEF IInv, BufferOK
  <2>1. Covers(truth, pending[i])
    BY DEF IInv, BufferOK
  <2> QED
    BY <1>4, <2>1, NumbersOK DEF Covers, Update
<1>9. AwaitOK' /\ BookOK'
  BY <1>1, <1>2, <1>3, <1>4, <1>5 DEF IInv, AwaitOK, BookOK
<1> QED
  BY <1>6, <1>7, <1>8, <1>9 DEF IInv

\* The snapshot leaves; it tells of the whole book if getBook asked for that.
LEMMA SendsIInv == ASSUME MaxLevel = 0, IInv, SendsSnapshot PROVE IInv'
<1> DEFINE m == [type |-> "snapshot", seq |-> reply, levels |-> Top(truth[reply])]
<1>1. /\ UNCHANGED <<truth, touched, published, up, asked, book, lastMdSeq, pending, synced, lost>>
      /\ up /\ reply # 0 /\ reply' = 0 /\ wire' = Append(wire, m) /\ wire \in Seq(Message)
  BY DEF SendsSnapshot, market, adapter, consumer, history, IInv, WireOK
<1>2. reply \in 1..Len(truth) /\ Snapshots = {} /\ ~asked
  <2>1. reply \in 0..Len(truth) /\ Snapshots = {} /\ (asked => Coming = {})
    BY <1>1 DEF IInv, WireOK
  <2>2. reply \in Coming
    BY <1>1 DEF Coming
  <2> QED
    BY <1>1, <2>1, <2>2
<1>3. m.type = "snapshot" /\ m.seq = reply /\ m.levels = truth[reply] /\ m \in Message
  BY <1>2, NumbersOK DEF Top, Message, Snapshot
<1> HIDE DEF m
<1>4. \A n \in Members(wire) : Before(n, m)
  <2>1. \A n \in Members(wire) : n \in Message
    BY <1>1 DEF Members
  <2> QED
    BY <1>2, <1>3, <2>1 DEF Snapshots, Before, Message, Update, Snapshot
<1>5. wire' \in Seq(Message) /\ Members(wire)' = Members(wire) \cup {m} /\ Ordered(wire)'
  BY <1>1, <1>3, <1>4, Sends DEF IInv, WireOK, Feed
<1>6. /\ Updates(wire)' = Updates(wire) /\ Snapshots' = {m} /\ Coming' = Coming
      /\ Starts(wire, published)' = Starts(wire, published)
  <2>1. Updates(wire)' = Updates(wire) /\ Snapshots' = {m}
    BY <1>2, <1>3, <1>5 DEF Updates, Snapshots
  <2> QED
    BY <1>1, <1>2, <1>3, <2>1 DEF Coming, Starts
<1>7. Feed(wire, published, truth)'
  BY <1>1, <1>5, <1>6 DEF Feed, IInv, WireOK
<1>8. MarketOK'
  BY <1>1, MarketRests DEF IInv
<1>9. WireOK' /\ BufferOK'
  BY <1>1, <1>2, <1>3, <1>5, <1>6, <1>7, NumbersOK DEF IInv, WireOK, BufferOK
<1>10. \A k : Reaches(k)' <=> Reaches(k)
  BY <1>6 DEF Reaches
<1>11. AwaitOK' /\ BookOK'
  BY <1>1, <1>6, <1>10 DEF IInv, AwaitOK, BookOK
<1> QED
  BY <1>8, <1>9, <1>11 DEF IInv

\* A socket that is emptied leaves nothing to be read.
LEMMA Emptied ==
    ASSUME wire' = <<>>, reply' = 0
    PROVE  /\ wire' \in Seq(Message) /\ Feed(wire, published, truth)' /\ Snapshots' = {}
           /\ Coming' = {} /\ Starts(wire, published)' = {published'}
<1>1. /\ Members(wire)' = {} /\ Feed(wire, published, truth)'
      /\ Starts(wire, published)' = {published'}
  BY EmptyFeed
<1>2. Snapshots' = {}
  BY <1>1 DEF Snapshots
<1> QED
  BY <1>1, <1>2 DEF Coming

\* A subscription starts with the changes after the last one.
LEMMA SubscribeIInv == ASSUME IInv, Subscribe PROVE IInv'
<1>1. /\ UNCHANGED <<truth, book, lastMdSeq, pending, lost>>
      /\ touched' = {} /\ published' = Len(truth)
      /\ up' /\ wire' = <<>> /\ reply' = 0 /\ ~synced'
  BY DEF Subscribe, Subscription, adapter, consumer
<1>2. /\ wire' \in Seq(Message) /\ Feed(wire, published, truth)' /\ Snapshots' = {}
      /\ Coming' = {} /\ Starts(wire, published)' = {Len(truth)}
  BY <1>1, Emptied
<1>3. MarketOK'
  BY <1>1, MarketRests DEF IInv
<1>4. WireOK'
  BY <1>1, <1>2, NumbersOK DEF WireOK
<1>5. BufferOK'
  BY <1>1, <1>2 DEF IInv, BufferOK
<1>6. AwaitOK' /\ BookOK'
  BY <1>1, <1>2, NumbersOK DEF IInv, AwaitOK, BookOK
<1> QED
  BY <1>3, <1>4, <1>5, <1>6 DEF IInv

\* A lost connection leaves the adapter as it was.
LEMMA DownIInv == ASSUME IInv, Disconnect PROVE IInv'
<1>1. /\ UNCHANGED <<truth, touched, published, book, lastMdSeq, pending, synced, lost>>
      /\ ~up' /\ wire' = <<>> /\ reply' = 0 /\ ~asked'
  BY DEF Disconnect, Closed, market, adapter, consumer, history
<1>2. /\ wire' \in Seq(Message) /\ Feed(wire, published, truth)' /\ Snapshots' = {}
      /\ Coming' = {}
  BY <1>1, Emptied
<1>3. MarketOK'
  BY <1>1, MarketRests DEF IInv
<1>4. WireOK'
  BY <1>1, <1>2, NumbersOK DEF WireOK
<1>5. BufferOK'
  BY <1>1, <1>2 DEF IInv, BufferOK
<1>6. AwaitOK' /\ BookOK'
  BY <1>1, <1>2 DEF IInv, AwaitOK, BookOK
<1> QED
  BY <1>3, <1>4, <1>5, <1>6 DEF IInv

\* Reading an update leaves those that go on from it.
LEMMA ReadsUpdate ==
    ASSUME IInv, Received("update"), wire' = Tail(wire),
           UNCHANGED <<truth, touched, published, reply, asked, up>>
    PROVE  LET u == Head(wire) IN
           /\ u \in Update /\ Covers(truth, u)
           /\ u.from \in Nat /\ u.to \in 1..Len(truth) /\ u.from <= u.to
           /\ u.from - 1 \in Starts(wire, published)
           /\ \A start \in Starts(wire, published) : u.from - 1 <= start
           /\ \A start \in Starts(wire', published) : u.to <= start
           /\ u.to \in Starts(wire', published)
           /\ Starts(wire', published) \subseteq Starts(wire, published)
           /\ Coming' = Coming
           /\ MarketOK' /\ WireOK'
<1> DEFINE u == Head(wire)
<1>1. /\ wire \in Seq(Message) /\ wire # <<>> /\ u.type = "update" /\ up
      /\ Feed(wire, published, truth) /\ published \in Nat
  BY NumbersOK DEF IInv, WireOK, Received
<1>2. /\ u \in Updates(wire) /\ Covers(truth, u)
      /\ u.from - 1 \in Starts(wire, published)
      /\ \A start \in Starts(wire, published) : u.from - 1 <= start
      /\ \A start \in Starts(wire', published) : u.to <= start
      /\ u.to \in Starts(wire', published)
      /\ Starts(wire', published) \subseteq Starts(wire, published)
      /\ Feed(wire', published, truth)
  BY <1>1, FeedReads
<1>3. wire' \in Seq(Message) /\ Members(wire) = Members(wire') \cup {u}
  BY <1>1, Reads
<1> HIDE DEF u
<1>4. Snapshots' = Snapshots
  BY <1>1, <1>3 DEF Snapshots
<1>5. Coming' = Coming
  BY <1>4 DEF Coming
<1>6. WireOK'
  BY <1>1, <1>2, <1>3, <1>4, <1>5 DEF IInv, WireOK
<1>7. MarketOK'
  BY MarketRests DEF IInv
<1> QED
  BY <1>2, <1>5, <1>6, <1>7 DEF u, Covers, Update

\* An update before the snapshot is buffered, or goes on top of an old book;
\* one after it is applied, or part of the book already (apply_update).
LEMMA HandleUpdateIInv == ASSUME IInv, HandleUpdate PROVE IInv'
<1> DEFINE u == Head(wire)
<1>1. /\ UNCHANGED <<truth, touched, published, up, asked, reply, synced>>
      /\ Received("update") /\ wire' = Tail(wire) /\ up
  BY DEF HandleUpdate, market, Received
<1>2. /\ u \in Update /\ Covers(truth, u)
      /\ \A start \in Starts(wire, published) : u.from - 1 <= start
      /\ \A start \in Starts(wire', published) : u.to <= start
      /\ u.to \in Starts(wire', published)
      /\ Starts(wire', published) \subseteq Starts(wire, published)
      /\ Coming' = Coming
      /\ WireOK'
  BY <1>1, ReadsUpdate
<1>3. u.from \in Nat /\ u.to \in 1..Len(truth) /\ u.from <= u.to /\ u.from - 1 \in 1..Len(truth)
  BY <1>2 DEF Covers, Update
<1>4. MarketOK'
  BY <1>1, ReadsUpdate
<1>6. CASE lastMdSeq = 0
  <2>1. /\ pending' = Append(pending, u) /\ pending \in Seq(Update)
        /\ UNCHANGED <<book, lastMdSeq, lost>> /\ ~synced
    BY <1>6 DEF HandleUpdate, IInv, BufferOK, BookOK
  <2> DEFINE n == Len(pending)
  <2>2. /\ pending' \in Seq(Update) /\ Len(pending') = n + 1 /\ n \in Nat
        /\ pending'[n + 1] = u /\ pending'[Len(pending')] = u /\ pending' # <<>>
        /\ \A i \in 1..n : pending'[i] = pending[i] /\ (i > 1 => pending'[i - 1] = pending[i - 1])
    BY <1>2, <2>1
  <2>3. \/ \A k \in Coming : u.from - 1 <= k
        \/ n > 0 /\ u.from - 1 <= pending[n].to
    <3> SUFFICES ASSUME NEW k \in Coming, ~(u.from - 1 <= k)
                 PROVE  n > 0 /\ u.from - 1 <= pending[n].to
      OBVIOUS
    <3>1. \A l : Reaches(l) => \E start \in Starts(wire, published) : u.from - 1 <= start /\ start <= l
      BY <1>2 DEF Reaches
    <3>2. ~Reaches(k)
      BY <1>3, <3>1, NumbersOK
    <3>3. pending # <<>> /\ Reaches(pending[n].to)
      BY <1>1, <1>6, <2>1, <3>2 DEF IInv, AwaitOK
    <3>4. n > 0 /\ pending[n].to \in Nat
      <4>1. n \in 1..n
        BY <2>1, <3>3
      <4> QED
        BY <4>1, NumbersOK DEF Update
    <3> QED
      BY <1>3, <3>1, <3>3, <3>4, NumbersOK
  <2>4. BufferOK'
    <3> SUFFICES ASSUME NEW i \in 1..n+1
                 PROVE  (/\ Covers(truth, pending[i])
                         /\ \/ i > 1 /\ pending[i].from - 1 <= pending[i - 1].to
                            \/ \A k \in Coming : pending[i].from - 1 <= k)'
      <4>1. 1..Len(pending') = 1..n+1 /\ lastMdSeq' = 0
        BY <1>6, <2>1, <2>2
      <4> QED
        BY <2>2, <4>1 DEF BufferOK
    <3>1. CASE i \in 1..n
      <4>1. /\ Covers(truth, pending[i])
            /\ \/ i > 1 /\ pending[i].from - 1 <= pending[i - 1].to
               \/ \A k \in Coming : pending[i].from - 1 <= k
        BY <3>1 DEF IInv, BufferOK
      <4> QED
        BY <1>1, <1>2, <2>2, <3>1, <4>1
    <3>2. CASE i = n + 1
      <4>1. n > 0 => n \in 1..n /\ pending'[i - 1] = pending[n]
        BY <2>2, <3>2
      <4> QED
        BY <1>1, <1>2, <2>2, <2>3, <3>2, <4>1
    <3> QED
      BY <2>2, <3>1, <3>2
  <2>5. AwaitOK'
    <3>1. \A start \in Starts(wire', published) : lastMdSeq' <= start
      BY <1>2, <1>3, <1>6, <2>1, NumbersOK
    <3>2. \E start \in Starts(wire', published) : start <= pending'[Len(pending')].to
      BY <1>2, <1>3, <2>2
    <3> QED
      BY <1>1, <2>2, <3>1, <3>2 DEF AwaitOK, Reaches
  <2>6. BookOK'
    BY <1>1, <1>2, <2>1 DEF IInv, BookOK
  <2> QED
    BY <1>2, <1>4, <2>4, <2>5, <2>6 DEF IInv
<1>7. CASE lastMdSeq # 0
  <2> DEFINE s == AppliedUpdate(State, u)
  <2>1. /\ book' = s.book /\ lastMdSeq' = s.last /\ lost' = s.lost /\ UNCHANGED pending
        /\ pending = <<>>
    BY <1>7 DEF HandleUpdate, IInv, BufferOK
  <2>2. /\ State \in Work /\ State.book = book /\ State.last = lastMdSeq /\ State.lost = lost
        /\ lastMdSeq \in 1..Len(truth)
    BY <1>7, NumbersOK DEF State, Work, IInv, BookOK
  <2>3. /\ s \in Work
        /\ u.from <= lastMdSeq => /\ s.book = book /\ s.last = lastMdSeq
                                  /\ (s.lost <=> lost \/ lastMdSeq < u.to)
        /\ u.from > lastMdSeq => /\ s.book = Apply(book, u) /\ s.last = u.to /\ s.lost = lost
    BY <1>2, <2>2, AppliedFacts
  <2> HIDE DEF s
  <2>4. lastMdSeq' \in 1..Len(truth) /\ book' \in LevelSet /\ lost' \in BOOLEAN
    BY <1>3, <2>1, <2>2, <2>3 DEF Work
  <2>5. BufferOK'
    <3>1. pending' \in Seq(Update) /\ \A i \in 1..Len(pending') : FALSE
      BY <2>1
    <3> QED
      BY <2>1, <3>1 DEF BufferOK
  <2>6. CASE ~synced
    <3>1. \A start \in Starts(wire, published) : lastMdSeq <= start
      BY <1>1, <2>6 DEF IInv, AwaitOK
    <3>2. u.from > lastMdSeq
      <4>1. u.from - 1 \in Starts(wire, published)
        BY <1>1, ReadsUpdate
      <4> QED
        BY <1>3, <2>2, <3>1, <4>1
    <3>3. lastMdSeq' = u.to /\ lastMdSeq' # 0 /\ lastMdSeq' \in Starts(wire', published)
      BY <1>2, <1>3, <2>1, <2>3, <3>2
    <3>4. AwaitOK'
      BY <1>1, <1>2, <1>3, <3>3 DEF AwaitOK, Reaches
    <3>5. BookOK'
      BY <1>1, <2>4, <2>6 DEF BookOK
    <3> QED
      BY <1>2, <1>4, <2>5, <3>4, <3>5 DEF IInv
  <2>7. CASE synced
    <3>1. AwaitOK'
      BY <1>1, <2>7 DEF AwaitOK
    <3>2. ASSUME ~lost' PROVE book' = truth'[lastMdSeq'] /\ \E start \in Starts(wire', published) : start <= lastMdSeq'
      <4>1. ~lost /\ book = truth[lastMdSeq] /\ Reaches(lastMdSeq)
        BY <1>1, <2>1, <2>3, <2>7, <3>2, <1>3, <2>2 DEF IInv, BookOK
      <4>2. u.from - 1 <= lastMdSeq
        BY <1>2, <1>3, <2>2, <4>1, NumbersOK DEF Reaches
      <4>3. CASE u.from <= lastMdSeq
        <5>1. u.to <= lastMdSeq
          BY <1>3, <2>1, <2>2, <2>3, <3>2, <4>3
        <5> QED
          BY <1>1, <1>2, <1>3, <2>1, <2>2, <2>3, <4>1, <4>3, <5>1
      <4>4. CASE u.from > lastMdSeq
        <5>1. u.from - 1 = lastMdSeq
          BY <1>3, <2>2, <4>2, <4>4
        <5> QED
          BY <1>1, <1>2, <1>3, <2>1, <2>3, <4>1, <4>4, <5>1 DEF Covers
      <4> QED
        BY <1>3, <2>2, <4>3, <4>4
    <3>3. BookOK'
      BY <1>1, <1>2, <2>4, <2>7, <3>2 DEF IInv, BookOK, Reaches
    <3> QED
      BY <1>2, <1>4, <2>5, <3>1, <3>3 DEF IInv
  <2> QED
    BY <2>6, <2>7
<1> QED
  BY <1>6, <1>7

\* Snapshot and buffer together: a book the exchange had, not older than the
\* snapshot or the last update of the buffer, unless a loss was noticed
\* (apply_snapshot, drain_pending).
LEMMA SnapshotThenBuffer ==
    ASSUME IInv, NEW m \in Snapshots, m.seq \in Coming
    PROVE  LET d == Drained(AppliedSnapshot(State, m)) IN
           /\ d \in Work /\ d.last \in m.seq..Len(truth)
           /\ m.seq < lastMdSeq => d.lost
           /\ ~d.lost => /\ d.book = truth[d.last]
                         /\ pending # <<>> => pending[Len(pending)].to <= d.last
<1> DEFINE q == m.seq
           n == Len(pending)
           s == AppliedSnapshot(State, m)
           Good(i, t) == /\ t.last \in q..Len(truth)
                         /\ q < lastMdSeq => t.lost
                         /\ ~t.lost => /\ t.book = truth[t.last]
                                       /\ i > 0 => pending[i].to <= t.last
           S == {p \in (0..n) \X Work : Good(p[1], p[2])}
<1>1. q \in 1..Len(truth) /\ m.levels = truth[q] /\ m.levels \in LevelSet
  BY NumbersOK DEF IInv, WireOK
<1>2. /\ s \in Work /\ s.book = m.levels /\ s.last = q /\ (s.lost <=> q < lastMdSeq)
      /\ pending \in Seq(Update) /\ n \in Nat
  <2> DEFINE older == q < lastMdSeq
  <2>1. s = [book |-> m.levels, last |-> q, lost |-> older] /\ older \in BOOLEAN
    BY DEF AppliedSnapshot, State
  <2> HIDE DEF s, older
  <2>2. s \in Work /\ s.book = m.levels /\ s.last = q /\ s.lost = older
    BY <1>1, <2>1 DEF Work
  <2>3. s.lost <=> q < lastMdSeq
    BY <2>2 DEF older
  <2>4. pending \in Seq(Update) /\ n \in Nat
    BY DEF IInv, BufferOK
  <2> QED
    BY <2>2, <2>3, <2>4
<1> HIDE DEF s
<1>3. <<0, s>> \in S
  <2>1. Good(0, s)
    BY <1>1, <1>2
  <2> QED
    BY <1>2, <2>1
<1>4. ASSUME NEW i \in 1..n, NEW t \in Work, <<i - 1, t>> \in S
      PROVE  <<i, AppliedUpdate(t, pending[i])>> \in S
  <2> DEFINE u == pending[i]
             v == AppliedUpdate(t, u)
  <2>1. Good(i - 1, t)
    BY <1>4
  <2>2. /\ u \in Update /\ u.from \in Nat /\ u.to \in 1..Len(truth) /\ u.from <= u.to
        /\ u.from - 1 \in 1..Len(truth) /\ Apply(truth[u.from - 1], u) = truth[u.to]
    <3>1. u \in Update /\ Covers(truth, u)
      BY <1>2 DEF IInv, BufferOK
    <3> HIDE DEF u
    <3> QED
      BY <3>1 DEF Covers, Update
  <2>3. \/ i > 1 /\ u.from - 1 <= pending[i - 1].to
        \/ u.from - 1 <= q
    BY DEF IInv, BufferOK
  <2>4. /\ v \in Work
        /\ u.from <= t.last => /\ v.book = t.book /\ v.last = t.last
                               /\ (v.lost <=> t.lost \/ t.last < u.to)
        /\ u.from > t.last => /\ v.book = Apply(t.book, u) /\ v.last = u.to
                              /\ v.lost = t.lost
    BY <2>2, AppliedFacts
  <2>5. /\ t.last \in Nat /\ q \in Nat /\ t.last >= q /\ t.last <= Len(truth)
        /\ q < lastMdSeq => t.lost
        /\ ~t.lost => t.book = truth[t.last]
    BY <1>1, <2>1
  <2>6. ASSUME ~t.lost, i > 1 PROVE pending[i - 1].to <= t.last /\ pending[i - 1].to \in Nat
    <3>1. i - 1 > 0 /\ i - 1 \in 1..n
      BY <2>6
    <3>2. pending[i - 1] \in Update
      BY <1>2, <3>1
    <3> QED
      BY <2>1, <2>6, <3>1, <3>2 DEF Update
  <2>7. Good(i, v)
    <3> SUFFICES /\ v.last \in q..Len(truth)
                 /\ q < lastMdSeq => v.lost
                 /\ ~v.lost => v.book = truth[v.last] /\ u.to <= v.last
      OBVIOUS
    <3> HIDE DEF u, v
    <3>1. CASE u.from <= t.last
      BY <1>1, <2>2, <2>4, <2>5, <3>1
    <3>2. CASE u.from > t.last
      <4>1. ASSUME ~t.lost PROVE u.from - 1 = t.last
        BY <2>2, <2>3, <2>5, <2>6, <3>2, <4>1
      <4> QED
        BY <1>1, <2>2, <2>4, <2>5, <3>2, <4>1
    <3> QED
      BY <2>2, <2>5, <3>1, <3>2
  <2> HIDE DEF Good
  <2> QED
    BY <1>2, <2>4, <2>7
<1> DEFINE d == Drained(s)
<1>5. d \in Work /\ <<n, d>> \in S
  <2> HIDE DEF S
  <2> QED
    BY <1>2, <1>3, <1>4, DrainedInduction
<1> HIDE DEF d
<1>6. Good(n, d)
  BY <1>5
<1>7. pending # <<>> => n > 0
  BY <1>2
<1> QED
  BY <1>5, <1>6, <1>7 DEF d, s

\* The snapshot and the buffer put the book where the next update goes on.
LEMMA HandleSnapshotIInv == ASSUME IInv, HandleSnapshot PROVE IInv'
<1> DEFINE m == Head(wire)
           d == Drained(AppliedSnapshot(State, m))
<1>1. /\ UNCHANGED <<truth, touched, published, up, asked, reply>>
      /\ wire # <<>> /\ m.type = "snapshot" /\ up /\ wire' = Tail(wire)
      /\ book' = d.book /\ lastMdSeq' = d.last /\ lost' = d.lost
      /\ pending' = <<>> /\ synced'
  BY DEF HandleSnapshot, market, Received
<1>2. /\ wire \in Seq(Message) /\ Feed(wire, published, truth)
      /\ m \in Members(wire) /\ wire' \in Seq(Message) /\ Members(wire) = Members(wire') \cup {m}
      /\ Ordered(wire') /\ \A n \in Members(wire') : Before(m, n)
  BY <1>1, Reads DEF IInv, WireOK, Feed
<1> HIDE DEF m
<1>3. m \in Snapshots /\ m.seq \in Coming
  BY <1>1, <1>2 DEF Snapshots, Coming
<1>4. /\ Snapshots' = {} /\ Starts(wire', published) = Starts(wire, published)
      /\ Feed(wire, published, truth)'
  <2>1. Updates(wire') = Updates(wire) /\ Snapshots' = {}
    BY <1>1, <1>2 DEF Updates, Snapshots, Before
  <2>2. Starts(wire', published) = Starts(wire, published)
    BY <2>1 DEF Starts
  <2> QED
    BY <1>1, <1>2, <2>1, <2>2 DEF Feed
<1>5. Coming' = {} /\ ~asked /\ ~synced
  BY <1>1, <1>3, <1>4 DEF Coming, IInv, WireOK, BookOK
<1>6. /\ d \in Work /\ d.last \in m.seq..Len(truth)
      /\ m.seq < lastMdSeq => d.lost
      /\ ~d.lost => /\ d.book = truth[d.last]
                    /\ pending # <<>> => pending[Len(pending)].to <= d.last
  BY <1>3, SnapshotThenBuffer
<1> HIDE DEF d
<1>7. m.seq \in 1..Len(truth) /\ d.last \in Nat /\ d.last >= m.seq /\ Starts(wire, published) \subseteq Nat
  BY <1>3, <1>6, NumbersOK
<1>8. ASSUME ~d.lost PROVE \E start \in Starts(wire, published) : start <= d.last
  <2>1. \/ Reaches(m.seq)
        \/ lastMdSeq # 0 /\ Reaches(lastMdSeq)
        \/ pending # <<>> /\ Reaches(pending[Len(pending)].to)
    BY <1>1, <1>3, <1>5 DEF IInv, AwaitOK
  <2>2. CASE Reaches(m.seq)
    BY <1>7, <2>2 DEF Reaches
  <2>3. CASE Reaches(lastMdSeq)
    <3>1. lastMdSeq \in Nat /\ lastMdSeq <= m.seq
      BY <1>6, <1>7, <1>8, NumbersOK
    <3> QED
      BY <1>7, <2>3, <3>1 DEF Reaches
  <2>4. CASE pending # <<>> /\ Reaches(pending[Len(pending)].to)
    <3>1. pending[Len(pending)].to \in Nat /\ pending[Len(pending)].to <= d.last
      <4>1. Len(pending) \in 1..Len(pending)
        BY <2>4 DEF IInv, BufferOK
      <4> QED
        BY <1>6, <1>8, <2>4, <4>1, NumbersOK DEF Update
    <3> QED
      BY <1>7, <2>4, <3>1 DEF Reaches
  <2> QED
    BY <2>1, <2>2, <2>3, <2>4
<1>9. MarketOK'
  BY <1>1, MarketRests DEF IInv
<1>10. WireOK'
  BY <1>1, <1>2, <1>4, <1>5 DEF IInv, WireOK
<1>11. BufferOK'
  <2>1. pending' \in Seq(Update) /\ \A i \in 1..Len(pending') : FALSE
    BY <1>1
  <2> QED
    BY <1>1, <2>1 DEF BufferOK
<1>12. AwaitOK'
  BY <1>1 DEF AwaitOK
<1>13. BookOK'
  <2>1. d.book \in LevelSet /\ d.lost \in BOOLEAN /\ d.last # 0 /\ d.last \in 0..Len(truth')
    BY <1>1, <1>6, <1>7 DEF Work
  <2> QED
    BY <1>1, <1>4, <1>5, <1>6, <1>8, <2>1 DEF BookOK, Reaches
<1> QED
  BY <1>9, <1>10, <1>11, <1>12, <1>13 DEF IInv

LEMMA InitIInv == Init => IInv
<1> SUFFICES ASSUME Init PROVE IInv
  OBVIOUS
<1>1. /\ wire = <<>> /\ reply = 0 /\ ~asked /\ ~up /\ ~synced /\ pending = <<>>
      /\ book = {} /\ lastMdSeq = 0 /\ lost = FALSE
      /\ MarketOK /\ Len(truth) = 1
  BY InitMarketOK DEF Init
<1>2. /\ wire \in Seq(Message) /\ Snapshots = {} /\ Coming = {}
      /\ Feed(wire, published, truth)
  BY <1>1, EmptyFeed DEF Snapshots, Coming
<1>3. pending \in Seq(Update) /\ \A i \in 1..Len(pending) : FALSE
  BY <1>1
<1>4. reply \in 0..Len(truth) /\ lastMdSeq \in 0..Len(truth)
  BY <1>1
<1>5. WireOK /\ BufferOK
  BY <1>1, <1>2, <1>3, <1>4 DEF WireOK, BufferOK
<1>6. AwaitOK /\ BookOK
  <2>1. book \in LevelSet
    BY <1>1 DEF LevelSet
  <2>2. lost \in BOOLEAN
    BY <1>1
  <2> QED
    BY <1>1, <1>4, <2>1, <2>2 DEF AwaitOK, BookOK
<1> QED
  BY <1>1, <1>5, <1>6 DEF IInv

LEMMA NextIInv == ASSUME MaxLevel = 0 PROVE IInv /\ [Next]_vars => IInv'
<1> SUFFICES ASSUME IInv, [Next]_vars PROVE IInv'
  OBVIOUS
<1>1. CASE Moves
  BY <1>1, MovesIInv
<1>2. CASE Delivers
  BY <1>2, PublishesIInv, AnswersIInv, SendsIInv DEF Delivers
<1>3. CASE Handles
  BY <1>3, SubscribeIInv, HandleUpdateIInv, HandleSnapshotIInv DEF Handles
<1>4. CASE Disconnect
  BY <1>4, DownIInv
<1>5. CASE UNCHANGED vars
  <2> USE <1>5 DEF vars, market, exchange, adapter, consumer, history
  <2>1. /\ Snapshots' = Snapshots /\ Coming' = Coming
        /\ \A k : Reaches(k)' <=> Reaches(k)
    BY DEF Snapshots, Coming, Reaches
  <2>2. MarketOK'
    BY MarketRests DEF IInv
  <2>3. WireOK' /\ BufferOK'
    BY <2>1 DEF IInv, WireOK, BufferOK
  <2>4. AwaitOK' /\ BookOK'
    BY <2>1 DEF IInv, AwaitOK, BookOK
  <2> QED
    BY <2>2, <2>3, <2>4 DEF IInv
<1> QED
  BY <1>1, <1>2, <1>3, <1>4, <1>5 DEF Next

\* Once this connection's snapshot is handled, and unless changes were thrown
\* away, the local book is the exchange's at last_mdseq, if getBook asks for
\* the whole book (apply_snapshot, apply_update, drain_pending).
THEOREM ExactWhenSyncedCorrect ==
    ASSUME MaxLevel = 0 PROVE Spec => []ExactWhenSynced
<1>1. IInv => ExactWhenSynced
  BY DEF IInv, BookOK, ExactWhenSynced
<1>2. IInv /\ [Next]_vars => IInv'
  BY NextIInv
<1> QED
  BY InitIInv, <1>1, <1>2, PTL DEF Spec

(* ---- what is shown ----------------------------------------------------- *)

\* The consumer has seen nothing newer than the book or the snapshot to come.
ViewOK == /\ viewAt \in 0..Len(truth)
          /\ up /\ ~synced => \A k \in Coming : viewAt <= k \/ viewAt <= lastMdSeq
          /\ synced /\ ~lost => viewAt <= lastMdSeq

\* emit_lob shows the book or changes nothing.
LEMMA EmitFacts ==
    ASSUME NEW s, Emit(s)
    PROVE  \/ view' = view /\ viewAt' = viewAt
           \/ view' = Item(s.book) /\ viewAt' = s.last
BY DEF Emit

\* The book never goes back behind what was shown, or the loss is known.
LEMMA HandlesViewOK ==
    ASSUME IInv, ViewOK, HandleUpdate \/ HandleSnapshot
    PROVE  /\ ViewOK'
           /\ synced' /\ ~lost' =>
                 \/ view' = view /\ viewAt' = viewAt
                 \/ view' = Item(book') /\ viewAt' = lastMdSeq' /\ viewAt <= lastMdSeq'
<1>1. CASE HandleUpdate
  <2> DEFINE u == Head(wire)
  <2>1. /\ UNCHANGED <<truth, touched, published, up, asked, reply, synced>>
        /\ Received("update") /\ wire' = Tail(wire) /\ up
    BY <1>1 DEF HandleUpdate, market, Received
  <2>2. /\ u \in Update /\ Covers(truth, u) /\ Coming' = Coming
        /\ \A start \in Starts(wire, published) : u.from - 1 <= start
    BY <2>1, ReadsUpdate
  <2>3. /\ viewAt \in Nat /\ viewAt <= Len(truth) /\ lastMdSeq \in 0..Len(truth)
        /\ u.from \in Nat /\ u.to \in 1..Len(truth) /\ u.from <= u.to
        /\ Coming \subseteq 1..Len(truth)
    BY <2>2, NumbersOK DEF ViewOK, Covers, Update
  <2>4. /\ lastMdSeq' \in 0..Len(truth) /\ lastMdSeq <= lastMdSeq' /\ (lost => lost')
        /\ \/ view' = view /\ viewAt' = viewAt
           \/ view' = Item(book') /\ viewAt' = lastMdSeq'
    <3>1. CASE lastMdSeq = 0
      <4>1. UNCHANGED <<book, lastMdSeq, lost>> /\ Emit(State)
        BY <1>1, <3>1 DEF HandleUpdate
      <4>2. State.book = book /\ State.last = lastMdSeq
        BY DEF State
      <4> QED
        BY <2>3, <4>1, <4>2, EmitFacts
    <3>2. CASE lastMdSeq # 0
      <4> DEFINE s == AppliedUpdate(State, u)
      <4>1. book' = s.book /\ lastMdSeq' = s.last /\ lost' = s.lost /\ Emit(s)
        BY <1>1, <3>2 DEF HandleUpdate
      <4>2. State \in Work /\ State.last = lastMdSeq /\ State.lost = lost
        BY <2>3 DEF State, Work, IInv, BookOK
      <4>3. /\ u.from <= lastMdSeq => s.last = lastMdSeq /\ (s.lost <=> lost \/ lastMdSeq < u.to)
            /\ u.from > lastMdSeq => s.last = u.to /\ s.lost = lost
        BY <2>2, <4>2, AppliedFacts
      <4> HIDE DEF s
      <4>4. \/ view' = view /\ viewAt' = viewAt
            \/ view' = Item(book') /\ viewAt' = lastMdSeq'
        BY <4>1, EmitFacts
      <4>5. lastMdSeq' \in 0..Len(truth) /\ lastMdSeq <= lastMdSeq' /\ (lost => lost')
        BY <2>3, <4>1, <4>3
      <4> QED
        BY <4>4, <4>5
    <3> QED
      BY <3>1, <3>2
  <2>5. ViewOK'
    BY <2>1, <2>2, <2>3, <2>4 DEF ViewOK
  <2>6. synced' /\ ~lost' => viewAt <= lastMdSeq'
    BY <2>1, <2>3, <2>4 DEF ViewOK
  <2> QED
    BY <2>4, <2>5, <2>6
<1>2. CASE HandleSnapshot
  <2> DEFINE m == Head(wire)
             d == Drained(AppliedSnapshot(State, m))
  <2>1. /\ UNCHANGED <<truth, up>> /\ m.type = "snapshot" /\ up /\ synced'
        /\ book' = d.book /\ lastMdSeq' = d.last /\ lost' = d.lost /\ Emit(d)
        /\ m \in Members(wire)
    BY <1>2, Reads DEF HandleSnapshot, market, Received, IInv, WireOK
  <2> HIDE DEF m
  <2>2. m \in Snapshots /\ m.seq \in Coming /\ ~synced
    BY <2>1 DEF Snapshots, Coming, IInv, BookOK
  <2>3. d.last \in m.seq..Len(truth) /\ (m.seq < lastMdSeq => d.lost)
    BY <2>2, SnapshotThenBuffer
  <2> HIDE DEF d
  <2>4. m.seq \in 1..Len(truth) /\ lastMdSeq \in Nat /\ viewAt \in Nat /\ viewAt <= Len(truth)
        /\ (viewAt <= m.seq \/ viewAt <= lastMdSeq)
    BY <2>1, <2>2, NumbersOK DEF ViewOK
  <2>5. \/ view' = view /\ viewAt' = viewAt
        \/ view' = Item(book') /\ viewAt' = lastMdSeq'
    BY <2>1, EmitFacts
  <2>6. ~lost' => viewAt <= lastMdSeq'
    BY <2>1, <2>3, <2>4
  <2>7. ViewOK'
    BY <2>1, <2>3, <2>4, <2>5, <2>6 DEF ViewOK
  <2> QED
    BY <2>5, <2>6, <2>7
<1> QED
  BY <1>1, <1>2

\* The other steps show nothing.
LEMMA OthersShowNothing ==
    ASSUME IInv, ViewOK, [Next]_vars, ~(HandleUpdate \/ HandleSnapshot)
    PROVE  ViewOK' /\ UNCHANGED <<view, viewAt>> /\ (UNCHANGED truth \/ MarketMoves)
<1> USE DEF market, exchange, adapter, consumer, history
<1>1. viewAt \in 0..Len(truth) /\ Len(truth) \in Nat
  BY NumbersOK DEF ViewOK
<1>2. CASE Moves
  <2>1. /\ UNCHANGED <<published, up, asked, reply, wire, lastMdSeq, synced, lost, view, viewAt>>
        /\ MarketMoves
    BY <1>2 DEF Moves, MarketMoves
  <2>2. Coming' = Coming
    BY <2>1 DEF Coming, Snapshots
  <2>3. viewAt \in 0..Len(truth')
    <3>1. PICK b : truth' = Append(truth, b)
      BY <2>1 DEF MarketMoves
    <3> QED
      BY <1>1, <3>1 DEF IInv, MarketOK, MarketTypeOK
  <2> QED
    BY <2>1, <2>2, <2>3 DEF ViewOK
<1>3. CASE PublishesUpdate
  <2>1. /\ UNCHANGED <<truth, up, asked, reply, lastMdSeq, synced, lost, view, viewAt>>
        /\ wire' = Append(wire, UpdateNow)
    BY <1>3 DEF PublishesUpdate, Published
  <2>2. UpdateNow \in Message /\ UpdateNow.type = "update"
    BY <1>3, UpdateNowCovers DEF PublishesUpdate, Published, Covers, Message, IInv
  <2>3. Members(wire') = Members(wire) \cup {UpdateNow}
    BY <2>1, <2>2, Sends DEF IInv, WireOK
  <2>4. Snapshots' = Snapshots
    BY <2>2, <2>3 DEF Snapshots
  <2> QED
    BY <2>1, <2>4 DEF ViewOK, Coming
<1>4. CASE AnswersGetBook
  <2>1. /\ UNCHANGED <<truth, up, wire, lastMdSeq, synced, lost, view, viewAt>>
        /\ asked /\ reply' \in {0, Len(truth)}
    BY <1>4 DEF AnswersGetBook
  <2>2. Coming' \subseteq {Len(truth)}
    <3>1. Coming = {} /\ Snapshots' = Snapshots
      BY <2>1 DEF IInv, WireOK, Snapshots
    <3> QED
      BY <2>1, <3>1 DEF Coming
  <2> QED
    BY <1>1, <2>1, <2>2 DEF ViewOK
<1>5. CASE SendsSnapshot
  <2> DEFINE m == [type |-> "snapshot", seq |-> reply, levels |-> Top(truth[reply])]
  <2>1. /\ UNCHANGED <<truth, up, lastMdSeq, synced, lost, view, viewAt>>
        /\ reply # 0 /\ reply' = 0 /\ wire' = Append(wire, m)
    BY <1>5 DEF SendsSnapshot
  <2>2. m \in Message /\ m.type = "snapshot" /\ m.seq = reply
    <3>1. reply \in 1..Len(truth)
      BY <2>1 DEF IInv, WireOK
    <3>2. Top(truth[reply]) \in LevelSet
      BY <3>1, NumbersOK DEF Top, LevelSet
    <3> QED
      BY <3>1, <3>2, NumbersOK DEF Message, Snapshot
  <2> HIDE DEF m
  <2>3. Snapshots' = Snapshots \cup {m}
    <3>1. Members(wire') = Members(wire) \cup {m}
      BY <2>1, <2>2, Sends DEF IInv, WireOK
    <3> QED
      BY <2>2, <3>1 DEF Snapshots
  <2>4. Coming' = Coming
    BY <2>1, <2>2, <2>3 DEF Coming
  <2> QED
    BY <2>1, <2>4 DEF ViewOK
<1>6. CASE Subscribe
  <2>1. /\ UNCHANGED <<truth, view, viewAt>> /\ wire' = <<>> /\ reply' = 0 /\ ~synced'
    BY <1>6 DEF Subscribe, Subscription
  <2> QED
    BY <1>1, <2>1, Emptied DEF ViewOK
<1>7. CASE Disconnect
  <2>1. /\ UNCHANGED <<truth, view, viewAt>> /\ ~up'
        /\ UNCHANGED <<lastMdSeq, synced, lost>> \/ ~synced'
    BY <1>7 DEF Disconnect, Closed
  <2> QED
    BY <1>1, <2>1 DEF ViewOK
<1>8. CASE UNCHANGED vars
  BY <1>8 DEF vars, ViewOK, Coming, Snapshots
<1> QED
  BY <1>2, <1>3, <1>4, <1>5, <1>6, <1>7, <1>8 DEF Next, Delivers, Handles

\* Each step shows a book the exchange had, not before the one shown last.
LEMMA StepKeepsPromise ==
    ASSUME IInv, IInv', ViewOK, [Next]_vars, synced', ~lost'
    PROVE  [Promise!Next]_<<truth, view, viewAt>>
<1> DEFINE T == [n \in DOMAIN truth |-> Item(truth[n])]
<1>1. truth \in Seq(Book) /\ Len(truth) \in Nat /\ DOMAIN truth = 1..Len(truth)
  BY DEF IInv, MarketOK, MarketTypeOK
<1>2. /\ Len(T) = Len(truth) /\ \A n \in 1..Len(truth) : T[n] = Item(truth[n])
      /\ T = [n \in 1..Len(truth) |-> Item(truth[n])]
  BY <1>1
<1>3. CASE HandleUpdate \/ HandleSnapshot
  <2>1. UNCHANGED truth
    BY <1>3 DEF HandleUpdate, HandleSnapshot, market
  <2>2. lastMdSeq' \in 1..Len(truth) /\ book' = truth[lastMdSeq']
    BY <1>1, <2>1 DEF IInv, BookOK
  <2>3. CASE view' = Item(book') /\ viewAt' = lastMdSeq' /\ viewAt <= lastMdSeq'
    <3> HIDE DEF T
    <3>1. view' = T[lastMdSeq']
      BY <1>2, <2>2, <2>3
    <3>2. \E n \in 1..Len(T) : viewAt <= n /\ view' = T[n] /\ viewAt' = n
      BY <1>2, <2>2, <2>3, <3>1
    <3>3. T' = T
      BY <2>1 DEF T
    <3>4. Promise!Show
      BY <3>2, <3>3 DEF Promise!Show, T
    <3> QED
      BY <3>4 DEF Promise!Next
  <2> QED
    BY <1>3, <2>1, <2>3, HandlesViewOK
<1>4. CASE ~(HandleUpdate \/ HandleSnapshot) /\ MarketMoves
  <2>1. PICK b : truth' = Append(truth, b)
    BY <1>4 DEF MarketMoves
  <2>2. /\ truth' \in Seq(Book) /\ Len(truth') = Len(truth) + 1
        /\ DOMAIN truth' = 1..Len(truth') /\ \A n \in 1..Len(truth) : truth'[n] = truth[n]
    BY <1>1, <2>1 DEF IInv, MarketOK, MarketTypeOK
  <2>3. T' = [n \in 1..Len(truth)+1 |-> Item(truth'[n])]
    BY <2>2
  <2>4. Len(T') = Len(T) + 1 /\ T' # T
    <3>1. DOMAIN T' = 1..Len(truth)+1 /\ T' \in Seq({T'[n] : n \in 1..Len(truth)+1})
      BY <1>1, <2>3
    <3>2. Len(T') = Len(truth) + 1
      BY <1>1, <3>1
    <3>3. Len(T) = Len(truth)
      BY <1>2
    <3> HIDE DEF T
    <3> QED
      BY <1>1, <3>2, <3>3
  <2>5. SubSeq(T', 1, Len(T)) = T
    BY <1>1, <1>2, <2>2, <2>3
  <2>6. UNCHANGED <<view, viewAt>>
    BY <1>4, OthersShowNothing
  <2>7. Promise!Change
    BY <2>4, <2>5, <2>6 DEF Promise!Change
  <2> QED
    BY <2>7 DEF Promise!Next
<1> QED
  BY <1>3, <1>4, OthersShowNothing

\* From a connection's snapshot on, unless changes were thrown away, the
\* consumer is shown books the exchange had, and never goes back (emit_lob).
THEOREM ShowsTrueBooksCorrect ==
    ASSUME MaxLevel = 0 PROVE Spec => ShowsTrueBooks
<1>1. Init => IInv /\ ViewOK
  <2> SUFFICES ASSUME Init PROVE ViewOK
    BY InitIInv
  <2>1. viewAt = 0 /\ ~synced /\ ~up /\ Len(truth) \in Nat
    BY InitIInv, NumbersOK DEF Init
  <2> QED
    BY <2>1 DEF ViewOK
<1>2. IInv /\ ViewOK /\ [Next]_vars => IInv' /\ ViewOK'
  BY NextIInv, HandlesViewOK, OthersShowNothing
<1>3. IInv /\ IInv' /\ ViewOK /\ [Next]_vars
      => [synced' /\ ~lost' => [Promise!Next]_<<truth, view, viewAt>>]_vars
  BY StepKeepsPromise
<1> QED
  BY <1>1, <1>2, <1>3, PTL DEF Spec, ShowsTrueBooks
=============================================================================
