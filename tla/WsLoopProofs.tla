----------------------------- MODULE WsLoopProofs -----------------------------
(***************************************************************************)
(* Theorems about run_ws_loop: about WsLoop, for every number of tasks,    *)
(* retry budget, queue capacity and combination of exchange features, and  *)
(* about the clocks of its read loop, module Keepalive.                    *)
(***************************************************************************)
EXTENDS WsLoopProperties, Keepalive, WellFoundedInduction, TLAPS

\* Root is a task, None is not, and the replacements are the other tasks.
LEMMA RootTask ==
    /\ Root \in Tasks /\ None \notin Tasks
    /\ Replacements \subseteq Tasks /\ Root \notin Replacements
    /\ \A t \in Tasks : t # Root => t \in Replacements
BY ConstantsAssumption DEF Root, Tasks, None, Replacements

-------------------------------------------------------------------------------
(* Type correctness                                                        *)

\* A step to a program counter keeps pc a function into PCs.
LEMMA GotoType ==
    ASSUME NEW t \in Tasks, NEW to \in PCs, TypeOK, Goto(t, to)
    PROVE  pc' \in [Tasks -> PCs]
BY DEF TypeOK, Goto

\* Counting a failure keeps the counter below its bound and ends in a retry
\* point or in the send of the fatal error.
LEMMA CountFailureType ==
    ASSUME NEW t \in Tasks, NEW retry \in Waiting, TypeOK, CountFailure(t, retry)
    PROVE  pc' \in [Tasks -> PCs] /\ attempt' \in [Tasks -> 0..AttemptCap]
<1> DEFINE n == IF attempt[t] < AttemptCap THEN attempt[t] + 1 ELSE AttemptCap
<1>1. n \in 0..AttemptCap
  BY ConstantsAssumption DEF TypeOK
<1>2. attempt' \in [Tasks -> 0..AttemptCap]
  BY <1>1 DEF TypeOK, CountFailure
<1>3. pc' \in [Tasks -> PCs]
  BY GotoType DEF CountFailure, PCs, Sending
<1> QED BY <1>2, <1>3

\* Where a task goes on after a send is a program counter.
LEMMA ResumeType == ASSUME NEW t \in Tasks PROVE Resume(t) \in PCs
BY DEF Resume, AfterRead, PCs, Waiting, Sending, Terminal

LEMMA TypeInit == Init => TypeOK
BY ConstantsAssumption
   DEF Init, TypeOK, Tasks, Root, None, PCs, Waiting, Entries

LEMMA SessionType == ASSUME NEW t \in Tasks, TypeOK, Session(t) PROVE TypeOK'
<1> USE DEF handleVars, history, PCs, Waiting, Sending
<1>1. CASE Connected(t)
  BY <1>1, GotoType DEF Connected, TypeOK
<1>2. CASE ConnectFails(t)
  BY <1>2, CountFailureType DEF ConnectFails, TypeOK
<1>3. CASE AuthSent(t)
  BY <1>3, GotoType DEF AuthSent, TypeOK
<1>4. CASE AuthSendFails(t)
  BY <1>4, CountFailureType DEF AuthSendFails, TypeOK
<1>5. CASE AuthConfirmed(t)
  BY <1>5, GotoType DEF AuthConfirmed, TypeOK
<1>6. CASE AuthItem(t)
  BY <1>6, GotoType DEF AuthItem, TypeOK
<1>7. CASE AuthGivesUp(t)
  BY <1>7, CountFailureType DEF AuthGivesUp, TypeOK
<1>8. CASE Subscribed(t)
  <2>1. attempt' \in [Tasks -> 0..AttemptCap]
    BY <1>8, ConstantsAssumption DEF Subscribed, TypeOK
  <2> QED BY <1>8, <2>1, GotoType DEF Subscribed, TypeOK
<1>9. CASE SubscribeFails(t)
  BY <1>9, CountFailureType DEF SubscribeFails, TypeOK
<1>10. CASE OnConnectItem(t)
  BY <1>10, GotoType DEF OnConnectItem, TypeOK
<1>11. CASE OnConnectDone(t)
  BY <1>11, GotoType DEF OnConnectDone, TypeOK
<1> QED
  BY <1>1, <1>2, <1>3, <1>4, <1>5, <1>6, <1>7, <1>8, <1>9, <1>10, <1>11
  DEF Session

LEMMA ReadingType ==
    ASSUME NEW t \in Tasks, TypeOK, Links, Reading(t)
    PROVE  TypeOK'
<1> USE DEF handleVars, history, PCs, Waiting, Sending, Terminal, Forked
<1>1. CASE ReadItem(t)
  BY <1>1, GotoType DEF ReadItem, Confirm, TypeOK
<1>2. CASE ReadSnapshot(t)
  BY <1>2, GotoType DEF ReadSnapshot, TypeOK
<1>3. CASE ReadAck(t)
  BY <1>3 DEF ReadAck, Confirm, TypeOK
<1>4. CASE ReadRetires(t)
  BY <1>4, GotoType DEF ReadRetires, TypeOK
<1>5. CASE ReadEnds(t)
  BY <1>5, GotoType DEF ReadEnds, AfterRead, TypeOK
<1>6. CASE KeepaliveTimeout(t)
  BY <1>6, GotoType DEF KeepaliveTimeout, TypeOK
<1>7. CASE SilenceForks(t)
  BY <1>7, GotoType DEF SilenceForks, TypeOK
<1>8. CASE SilenceEnds(t)
  BY <1>8, GotoType DEF SilenceEnds, AfterRead, TypeOK
<1>9. CASE ForkSpawn(t)
  <2>1. PICK c \in Replacements :
              /\ pc' = [pc EXCEPT ![t] = "spawned", ![c] = "connect"]
              /\ child' = [child EXCEPT ![t] = c]
    BY <1>9 DEF ForkSpawn
  <2>2. pc' \in [Tasks -> PCs] /\ child' \in [Tasks -> {None} \cup Replacements]
    BY <2>1, RootTask DEF TypeOK
  <2> QED BY <1>9, <2>2 DEF ForkSpawn, TypeOK
<1>10. CASE ForkPush(t)
  <2>1. child[t] \in Tasks
    BY <1>10, RootTask DEF ForkPush, Runs, Links, Replacements, TypeOK
  <2> QED BY <1>10, <2>1, GotoType DEF ForkPush, TypeOK
<1>11. CASE SnapshotArrives(t)
  BY <1>11, GotoType DEF SnapshotArrives, TypeOK
<1>12. CASE SnapshotFails(t)
  BY <1>12, GotoType DEF SnapshotFails, TypeOK
<1> QED
  BY <1>1, <1>2, <1>3, <1>4, <1>5, <1>6, <1>7, <1>8, <1>9, <1>10, <1>11,
     <1>12
  DEF Reading

LEMMA DrainingType == ASSUME NEW t \in Tasks, TypeOK, Draining(t) PROVE TypeOK'
<1> USE DEF handleVars, history, PCs, Waiting, Sending, Terminal
<1>1. CASE DrainItem(t)
  BY <1>1, GotoType DEF DrainItem, TypeOK
<1>2. CASE DrainEnds(t)
  BY <1>2, GotoType DEF DrainEnds, TypeOK
<1>3. CASE DrainTimesOut(t)
  BY <1>3, GotoType DEF DrainTimesOut, TypeOK
<1>4. CASE DrainRetires(t)
  BY <1>4, GotoType DEF DrainRetires, TypeOK
<1> QED BY <1>1, <1>2, <1>3, <1>4 DEF Draining

LEMMA RetryingType == ASSUME NEW t \in Tasks, TypeOK, Retrying(t) PROVE TypeOK'
<1> USE DEF handleVars, history, PCs, Waiting, Sending
<1>1. CASE CloseAndRetry(t)
  BY <1>1, CountFailureType DEF CloseAndRetry, TypeOK
<1>2. CASE OnReconnectItem(t)
  BY <1>2, GotoType DEF OnReconnectItem, TypeOK
<1>3. CASE OnReconnectDone(t)
  BY <1>3, GotoType DEF OnReconnectDone, TypeOK
<1>4. CASE BackoffElapses(t)
  BY <1>4, GotoType DEF BackoffElapses, TypeOK
<1> QED BY <1>1, <1>2, <1>3, <1>4 DEF Retrying

LEMMA SendType == ASSUME NEW t \in Tasks, TypeOK, SendStep(t) PROVE TypeOK'
<1> USE DEF handleVars, history, PCs, Waiting, Sending, Terminal
<1>1. CASE SendAccepted(t)
  <2>1. pc' \in [Tasks -> PCs]
    BY <1>1, GotoType, ResumeType DEF SendAccepted
  <2>2. [src |-> t, kind |-> Kind(pc[t])] \in Entries
    BY DEF Entries, Kind
  <2>3. chan' \in Seq(Entries) /\ Len(chan') <= ChanCap
    BY <1>1, <2>2, ConstantsAssumption DEF SendAccepted, QueueHasRoom, TypeOK
  <2> QED BY <1>1, <2>1, <2>3 DEF SendAccepted, TypeOK
<1>2. CASE SendRejected(t)
  <2>1. pc' \in [Tasks -> PCs] /\ attempt' \in [Tasks -> 0..AttemptCap]
    BY <1>2, GotoType, CountFailureType DEF SendRejected, AfterRead, TypeOK
  <2> QED BY <1>2, <2>1 DEF SendRejected, TypeOK
<1> QED BY <1>1, <1>2 DEF SendStep

LEMMA TaskType ==
    ASSUME NEW t \in Tasks, TypeOK, Links, TaskStep(t)
    PROVE  TypeOK'
<1>1. CASE Cancelled(t)
  BY <1>1, GotoType DEF Cancelled, TypeOK, handleVars, history, PCs, Terminal
<1> QED
  BY <1>1, SessionType, ReadingType, DrainingType, RetryingType, SendType
  DEF TaskStep

LEMMA TypeInductive == TypeOK /\ Links /\ [Next]_vars => TypeOK'
<1> SUFFICES ASSUME TypeOK, Links, [Next]_vars PROVE TypeOK'
  OBVIOUS
<1>1. CASE \E t \in Tasks : TaskStep(t)
  BY <1>1, TaskType
<1>2. CASE Recv
  <2>1. Head(chan) \in Entries
    BY <1>2 DEF Recv, TypeOK
  <2>2. fatalSeen' \subseteq Tasks
    BY <1>2, <2>1 DEF Recv, TypeOK, Entries
  <2>3. chan' \in Seq(Entries) /\ Len(chan') <= ChanCap
    BY <1>2, ConstantsAssumption DEF Recv, TypeOK
  <2> QED BY <1>2, <2>2, <2>3 DEF Recv, TypeOK, taskVars, handleVars
<1>3. CASE Merge
  BY <1>3 DEF Merge, TypeOK, taskVars, history
<1>4. CASE Drop
  BY <1>4, ConstantsAssumption DEF Drop, TypeOK, Owned, history, PCs, Terminal
<1>5. CASE Finished \/ UNCHANGED vars
  BY <1>5 DEF Finished, TypeOK, vars
<1> QED BY <1>1, <1>2, <1>3, <1>4, <1>5 DEF Next

-------------------------------------------------------------------------------
(* Only Root forks, drains and retires                                     *)

LEMMA LinksInductive ==
    TypeOK /\ Links /\ [Next]_vars => Links'
<1> SUFFICES ASSUME TypeOK, Links, [Next]_vars PROVE Links'
  OBVIOUS
<1> USE RootTask DEF TypeOK, Links, Runs, Goto, Forked, Sending, Terminal, Started,
      SuccessorReady,
      handleVars, history, taskVars
<1>1. ASSUME NEW t \in Tasks, Session(t) PROVE Links'
  BY <1>1
  DEF Session, Connected, ConnectFails, AuthSent, AuthSendFails,
      AuthConfirmed, AuthItem, AuthGivesUp, Subscribed, SubscribeFails,
      OnConnectItem, OnConnectDone, CountFailure
<1>2. ASSUME NEW t \in Tasks, Reading(t) PROVE Links'
  <2>1. CASE ForkSpawn(t)
    BY <2>1 DEF ForkSpawn
  <2>2. CASE ForkPush(t)
    BY <2>2 DEF ForkPush
  <2>3. CASE ~ForkSpawn(t) /\ ~ForkPush(t)
    BY <1>2, <2>3
    DEF Reading, ReadItem, ReadSnapshot, SnapshotArrives, SnapshotFails,
        ReadAck, ReadRetires, ReadEnds,
      KeepaliveTimeout, SilenceForks, SilenceEnds, AfterRead, Confirm
  <2> QED BY <2>1, <2>2, <2>3
<1>3. ASSUME NEW t \in Tasks, Draining(t) PROVE Links'
  BY <1>3 DEF Draining, DrainItem, DrainEnds, DrainTimesOut, DrainRetires
<1>4. ASSUME NEW t \in Tasks, Retrying(t) PROVE Links'
  BY <1>4
  DEF Retrying, CloseAndRetry, OnReconnectItem, OnReconnectDone,
      BackoffElapses, CountFailure
<1>5. ASSUME NEW t \in Tasks, SendStep(t) PROVE Links'
  <2>1. CASE SendAccepted(t)
    BY <2>1 DEF SendAccepted, Resume, AfterRead
  <2>2. CASE SendRejected(t)
    BY <2>2 DEF SendRejected, AfterRead, CountFailure
  <2> QED BY <1>5, <2>1, <2>2 DEF SendStep
<1>6. ASSUME NEW t \in Tasks, Cancelled(t) PROVE Links'
  BY <1>6 DEF Cancelled
<1>7. CASE Recv
  BY <1>7 DEF Recv
<1>8. CASE Merge
  BY <1>8 DEF Merge
<1>9. CASE Drop
  BY <1>9 DEF Drop, Owned
<1>10. CASE Finished \/ UNCHANGED vars
  BY <1>10 DEF Finished, vars
<1> QED
  BY <1>1, <1>2, <1>3, <1>4, <1>5, <1>6, <1>7, <1>8, <1>9, <1>10
  DEF Next, TaskStep

-------------------------------------------------------------------------------
(* The old connection hands over only to a confirmed replacement           *)

LEMMA RetiresInductive ==
    TypeOK /\ Links /\ RetiresOnlyWhenConfirmed /\ [Next]_vars => RetiresOnlyWhenConfirmed'
<1> SUFFICES ASSUME TypeOK, Links, RetiresOnlyWhenConfirmed, [Next]_vars PROVE RetiresOnlyWhenConfirmed'
  OBVIOUS
<1> USE RootTask DEF TypeOK, Links, Runs, Goto, Forked, Sending, Started,
      RetiresOnlyWhenConfirmed, SuccessorReady,
      handleVars, history, taskVars
<1>1. ASSUME NEW t \in Tasks, Session(t) PROVE RetiresOnlyWhenConfirmed'
  BY <1>1
  DEF Session, Connected, ConnectFails, AuthSent, AuthSendFails,
      AuthConfirmed, AuthItem, AuthGivesUp, Subscribed, SubscribeFails,
      OnConnectItem, OnConnectDone, CountFailure
<1>2. ASSUME NEW t \in Tasks, Reading(t) PROVE RetiresOnlyWhenConfirmed'
  <2>1. CASE ForkSpawn(t)
    BY <2>1 DEF ForkSpawn
  <2>2. CASE ForkPush(t)
    BY <2>2 DEF ForkPush
  <2>3. CASE ~ForkSpawn(t) /\ ~ForkPush(t)
    BY <1>2, <2>3
    DEF Reading, ReadItem, ReadSnapshot, SnapshotArrives, SnapshotFails,
        ReadAck, ReadRetires, ReadEnds,
      KeepaliveTimeout, SilenceForks, SilenceEnds, AfterRead, Confirm
  <2> QED BY <2>1, <2>2, <2>3
<1>3. ASSUME NEW t \in Tasks, Draining(t) PROVE RetiresOnlyWhenConfirmed'
  BY <1>3 DEF Draining, DrainItem, DrainEnds, DrainTimesOut, DrainRetires
<1>4. ASSUME NEW t \in Tasks, Retrying(t) PROVE RetiresOnlyWhenConfirmed'
  BY <1>4
  DEF Retrying, CloseAndRetry, OnReconnectItem, OnReconnectDone,
      BackoffElapses, CountFailure
<1>5. ASSUME NEW t \in Tasks, SendStep(t) PROVE RetiresOnlyWhenConfirmed'
  <2>1. CASE SendAccepted(t)
    BY <2>1 DEF SendAccepted, Resume, AfterRead
  <2>2. CASE SendRejected(t)
    BY <2>2 DEF SendRejected, AfterRead, CountFailure
  <2> QED BY <1>5, <2>1, <2>2 DEF SendStep
<1>6. ASSUME NEW t \in Tasks, Cancelled(t) PROVE RetiresOnlyWhenConfirmed'
  BY <1>6 DEF Cancelled
<1>7. CASE Recv
  BY <1>7 DEF Recv
<1>8. CASE Merge
  BY <1>8 DEF Merge
<1>9. CASE Drop
  BY <1>9 DEF Drop, Owned
<1>10. CASE Finished \/ UNCHANGED vars
  BY <1>10 DEF Finished, vars
<1> QED
  BY <1>1, <1>2, <1>3, <1>4, <1>5, <1>6, <1>7, <1>8, <1>9, <1>10
  DEF Next, TaskStep

\* Counting a failure spends the budget exactly when the task gives up.
LEMMA CountFailureBudget ==
    ASSUME NEW t \in Tasks, NEW retry \in Waiting, TypeOK, BudgetIsExact,
           pc[t] \in Waiting \cup Sending, pc[t] # "sendFatal",
           CountFailure(t, retry)
    PROVE  BudgetIsExact'
BY ConstantsAssumption
DEF CountFailure, Goto, BudgetIsExact, TypeOK, Waiting, Sending

-------------------------------------------------------------------------------
(* The retry budget is exact                                               *)

LEMMA BudgetInductive ==
    TypeOK /\ BudgetIsExact /\ [Next]_vars => BudgetIsExact'
<1> SUFFICES ASSUME TypeOK, BudgetIsExact, [Next]_vars PROVE BudgetIsExact'
  OBVIOUS
<1> USE RootTask, ConstantsAssumption DEF TypeOK, Runs, Goto, Sending,
      Forked, BudgetIsExact,
      handleVars, history, taskVars
<1>1. ASSUME NEW t \in Tasks, Session(t) PROVE BudgetIsExact'
  <2>1. CASE \/ ConnectFails(t) \/ AuthSendFails(t)
             \/ AuthGivesUp(t)  \/ SubscribeFails(t)
    BY <2>1, CountFailureBudget
    DEF ConnectFails, AuthSendFails, AuthGivesUp, SubscribeFails, Waiting
  <2>2. CASE \/ Connected(t) \/ AuthSent(t) \/ AuthConfirmed(t) \/ AuthItem(t)
             \/ Subscribed(t) \/ OnConnectItem(t) \/ OnConnectDone(t)
    BY <2>2
    DEF Connected, AuthSent, AuthConfirmed, AuthItem, Subscribed,
        OnConnectItem, OnConnectDone
  <2> QED BY <1>1, <2>1, <2>2 DEF Session
<1>2. ASSUME NEW t \in Tasks, Reading(t) PROVE BudgetIsExact'
  <2>1. CASE ForkSpawn(t)
    BY <2>1 DEF ForkSpawn
  <2>2. CASE ForkPush(t)
    BY <2>2 DEF ForkPush
  <2>3. CASE ~ForkSpawn(t) /\ ~ForkPush(t)
    BY <1>2, <2>3
    DEF Reading, ReadItem, ReadSnapshot, SnapshotArrives, SnapshotFails,
        ReadAck, ReadRetires, ReadEnds,
      KeepaliveTimeout, SilenceForks, SilenceEnds, AfterRead, Confirm
  <2> QED BY <2>1, <2>2, <2>3
<1>3. ASSUME NEW t \in Tasks, Draining(t) PROVE BudgetIsExact'
  BY <1>3 DEF Draining, DrainItem, DrainEnds, DrainTimesOut, DrainRetires
<1>4. ASSUME NEW t \in Tasks, Retrying(t) PROVE BudgetIsExact'
  <2>1. CASE CloseAndRetry(t)
    BY <2>1, CountFailureBudget DEF CloseAndRetry, Waiting
  <2>2. CASE OnReconnectItem(t) \/ OnReconnectDone(t) \/ BackoffElapses(t)
    BY <2>2 DEF OnReconnectItem, OnReconnectDone, BackoffElapses
  <2> QED BY <1>4, <2>1, <2>2 DEF Retrying
<1>5. ASSUME NEW t \in Tasks, SendStep(t) PROVE BudgetIsExact'
  <2>1. CASE SendAccepted(t)
    BY <2>1 DEF SendAccepted, Resume, AfterRead
  <2>2. CASE SendRejected(t)
    <3>1. CASE pc[t] = "sendAuth"
      BY <2>2, <3>1, CountFailureBudget DEF SendRejected, Waiting
    <3>2. CASE pc[t] # "sendAuth"
      BY <2>2, <3>2 DEF SendRejected, AfterRead
    <3> QED BY <3>1, <3>2
  <2> QED BY <1>5, <2>1, <2>2 DEF SendStep
<1>6. ASSUME NEW t \in Tasks, Cancelled(t) PROVE BudgetIsExact'
  BY <1>6 DEF Cancelled
<1>7. CASE Recv
  BY <1>7 DEF Recv
<1>8. CASE Merge
  BY <1>8 DEF Merge
<1>9. CASE Drop
  BY <1>9 DEF Drop, Owned
<1>10. CASE Finished \/ UNCHANGED vars
  BY <1>10 DEF Finished, vars
<1> QED
  BY <1>1, <1>2, <1>3, <1>4, <1>5, <1>6, <1>7, <1>8, <1>9, <1>10
  DEF Next, TaskStep

-------------------------------------------------------------------------------
(* No session without authentication                                       *)

LEMMA AuthInductive ==
    TypeOK /\ NoUnauthenticatedSession /\ [Next]_vars => NoUnauthenticatedSession'
<1> SUFFICES ASSUME TypeOK, NoUnauthenticatedSession, [Next]_vars PROVE NoUnauthenticatedSession'
  OBVIOUS
<1> USE RootTask DEF TypeOK, Runs, Goto, Forked, Sending, Subscribing,
      NoUnauthenticatedSession,
      handleVars, history, taskVars
<1>1. ASSUME NEW t \in Tasks, Session(t) PROVE NoUnauthenticatedSession'
  BY <1>1
  DEF Session, Connected, ConnectFails, AuthSent, AuthSendFails,
      AuthConfirmed, AuthItem, AuthGivesUp, Subscribed, SubscribeFails,
      OnConnectItem, OnConnectDone, CountFailure
<1>2. ASSUME NEW t \in Tasks, Reading(t) PROVE NoUnauthenticatedSession'
  <2>1. CASE ForkSpawn(t)
    BY <2>1 DEF ForkSpawn
  <2>2. CASE ForkPush(t)
    BY <2>2 DEF ForkPush
  <2>3. CASE ~ForkSpawn(t) /\ ~ForkPush(t)
    BY <1>2, <2>3
    DEF Reading, ReadItem, ReadSnapshot, SnapshotArrives, SnapshotFails,
        ReadAck, ReadRetires, ReadEnds,
      KeepaliveTimeout, SilenceForks, SilenceEnds, AfterRead, Confirm
  <2> QED BY <2>1, <2>2, <2>3
<1>3. ASSUME NEW t \in Tasks, Draining(t) PROVE NoUnauthenticatedSession'
  BY <1>3 DEF Draining, DrainItem, DrainEnds, DrainTimesOut, DrainRetires
<1>4. ASSUME NEW t \in Tasks, Retrying(t) PROVE NoUnauthenticatedSession'
  BY <1>4
  DEF Retrying, CloseAndRetry, OnReconnectItem, OnReconnectDone,
      BackoffElapses, CountFailure
<1>5. ASSUME NEW t \in Tasks, SendStep(t) PROVE NoUnauthenticatedSession'
  <2>1. CASE SendAccepted(t)
    BY <2>1 DEF SendAccepted, Resume, AfterRead
  <2>2. CASE SendRejected(t)
    BY <2>2 DEF SendRejected, AfterRead, CountFailure
  <2> QED BY <1>5, <2>1, <2>2 DEF SendStep
<1>6. ASSUME NEW t \in Tasks, Cancelled(t) PROVE NoUnauthenticatedSession'
  BY <1>6 DEF Cancelled
<1>7. CASE Recv
  BY <1>7 DEF Recv
<1>8. CASE Merge
  BY <1>8 DEF Merge
<1>9. CASE Drop
  BY <1>9 DEF Drop, Owned
<1>10. CASE Finished \/ UNCHANGED vars
  BY <1>10 DEF Finished, vars
<1> QED
  BY <1>1, <1>2, <1>3, <1>4, <1>5, <1>6, <1>7, <1>8, <1>9, <1>10
  DEF Next, TaskStep

\* An announcement stays while the queue and what was read stay.
LEMMA AnnouncedKept ==
    ASSUME UNCHANGED <<chan, fatalSeen>>
    PROVE  \A u \in Tasks : Announced(u) <=> Announced(u)'
BY DEF Announced

\* A step that leaves the queue and what was read alone, and ends no task
\* while the consumer listens, leaves every end explained.
LEMMA EndsKept ==
    ASSUME EndsExplained, UNCHANGED <<chan, fatalSeen, owner, aborting>>,
           RxAlive => \A u \in Tasks :
                          pc'[u] \in Terminal \ {"replaced"} => pc'[u] = pc[u]
    PROVE  EndsExplained'
BY AnnouncedKept DEF EndsExplained, RxAlive

-------------------------------------------------------------------------------
(* A task ends for a reason the consumer learns                            *)

LEMMA EndsInductive ==
    TypeOK /\ Links /\ EndsExplained /\ [Next]_vars => EndsExplained'
<1> SUFFICES ASSUME TypeOK, Links, EndsExplained, [Next]_vars PROVE EndsExplained'
  OBVIOUS
<1> USE RootTask DEF TypeOK, Links, Runs, Goto, Forked, Terminal, Sending,
      handleVars, history, taskVars
<1>1. ASSUME NEW t \in Tasks, Session(t) PROVE EndsExplained'
  BY <1>1, EndsKept
  DEF Session, Connected, ConnectFails, AuthSent, AuthSendFails,
      AuthConfirmed, AuthItem, AuthGivesUp, Subscribed, SubscribeFails,
      OnConnectItem, OnConnectDone, CountFailure
<1>2. ASSUME NEW t \in Tasks, Reading(t) PROVE EndsExplained'
  <2>1. CASE ForkSpawn(t)
    BY <2>1, EndsKept DEF ForkSpawn
  <2>2. CASE ForkPush(t)
    BY <2>2, EndsKept DEF ForkPush
  <2>3. CASE ~ForkSpawn(t) /\ ~ForkPush(t)
    BY <1>2, <2>3, EndsKept
    DEF Reading, ReadItem, ReadSnapshot, SnapshotArrives, SnapshotFails,
        ReadAck, ReadRetires, ReadEnds,
      KeepaliveTimeout, SilenceForks, SilenceEnds, AfterRead, Confirm
  <2> QED BY <2>1, <2>2, <2>3
<1>3. ASSUME NEW t \in Tasks, Draining(t) PROVE EndsExplained'
  BY <1>3, EndsKept DEF Draining, DrainItem, DrainEnds, DrainTimesOut, DrainRetires
<1>4. ASSUME NEW t \in Tasks, Retrying(t) PROVE EndsExplained'
  BY <1>4, EndsKept
  DEF Retrying, CloseAndRetry, OnReconnectItem, OnReconnectDone,
      BackoffElapses, CountFailure
<1>5. ASSUME NEW t \in Tasks, SendStep(t) PROVE EndsExplained'
  <2>1. CASE SendAccepted(t)
    <3>1. /\ RxAlive /\ UNCHANGED <<owner, aborting, fatalSeen>>
          /\ chan' = Append(chan, [src |-> t, kind |-> Kind(pc[t])])
          /\ pc[t] \in Sending
      BY <2>1 DEF SendAccepted
    <3>2. \A u \in Tasks : Announced(u) => Announced(u)'
      BY <3>1 DEF Announced
    <3>3. pc'[t] = "fatal" => Announced(t)'
      <4>1. pc'[t] = "fatal" => Kind(pc[t]) = "fatal"
        BY <2>1 DEF SendAccepted, Resume, AfterRead, Kind
      <4>2. /\ Len(chan) + 1 \in DOMAIN chan'
            /\ chan'[Len(chan) + 1] = [src |-> t, kind |-> Kind(pc[t])]
        BY <3>1
      <4> QED BY <4>1, <4>2 DEF Announced
    <3>4. /\ pc'[t] \in Terminal => pc'[t] \in {"fatal", "replaced"}
          /\ \A u \in Tasks : u # t => pc'[u] = pc[u]
      BY <2>1 DEF SendAccepted, Resume, AfterRead
    <3> QED BY <3>1, <3>2, <3>3, <3>4 DEF EndsExplained, RxAlive
  <2>2. CASE SendRejected(t)
    BY <2>2 DEF SendRejected, EndsExplained, RxAlive
  <2> QED BY <1>5, <2>1, <2>2 DEF SendStep
<1>6. ASSUME NEW t \in Tasks, Cancelled(t) PROVE EndsExplained'
  BY <1>6 DEF Cancelled, EndsExplained, RxAlive
<1>7. CASE Recv
  <2>1. /\ chan # <<>> /\ chan' = Tail(chan)
        /\ fatalSeen' = IF Head(chan).kind = "fatal"
                         THEN fatalSeen \cup {Head(chan).src} ELSE fatalSeen
        /\ UNCHANGED <<pc, owner, aborting>>
    BY <1>7 DEF Recv
  <2>2. ASSUME NEW u \in Tasks, Announced(u) PROVE Announced(u)'
    <3>1. CASE u \in fatalSeen
      BY <2>1, <3>1 DEF Announced
    <3>2. CASE \E i \in DOMAIN chan : chan[i] = [src |-> u, kind |-> "fatal"]
      <4>1. PICK i \in 1..Len(chan) : chan[i] = [src |-> u, kind |-> "fatal"]
        BY <3>2
      <4>2. CASE i = 1
        BY <2>1, <4>1, <4>2 DEF Announced
      <4>3. CASE i # 1
        <5>1. i - 1 \in DOMAIN chan' /\ chan'[i - 1] = chan[i]
          BY <2>1, <4>1, <4>3
        <5> QED BY <4>1, <5>1 DEF Announced
      <4> QED BY <4>2, <4>3
    <3> QED BY <2>2, <3>1, <3>2 DEF Announced
  <2> QED BY <2>1, <2>2 DEF EndsExplained, RxAlive
<1>8. CASE Merge
  BY <1>8, AnnouncedKept DEF Merge, EndsExplained, RxAlive
<1>9. CASE Drop
  BY <1>9 DEF Drop, EndsExplained, RxAlive
<1>10. CASE Finished \/ UNCHANGED vars
  BY <1>10, EndsKept DEF Finished, vars
<1> QED
  BY <1>1, <1>2, <1>3, <1>4, <1>5, <1>6, <1>7, <1>8, <1>9, <1>10
  DEF Next, TaskStep

-------------------------------------------------------------------------------
(* The handles cover the running tasks                                     *)

LEMMA HandlesInductive ==
    TypeOK /\ Links /\ HandlesCover /\ [Next]_vars => HandlesCover'
<1> SUFFICES ASSUME TypeOK, Links, HandlesCover, [Next]_vars PROVE HandlesCover'
  OBVIOUS
<1> USE RootTask DEF TypeOK, Links, Runs, Goto, Forked, Live, Terminal,
      Sending, HandlesCover,
      handleVars, history, taskVars
<1>1. ASSUME NEW t \in Tasks, Session(t) PROVE HandlesCover'
  BY <1>1, SMTT(40)
  DEF Session, Connected, ConnectFails, AuthSent, AuthSendFails,
      AuthConfirmed, AuthItem, AuthGivesUp, Subscribed, SubscribeFails,
      OnConnectItem, OnConnectDone, CountFailure
<1>2. ASSUME NEW t \in Tasks, Reading(t) PROVE HandlesCover'
  <2>1. CASE ForkSpawn(t)
    BY <2>1 DEF ForkSpawn
  <2>2. CASE ForkPush(t)
    BY <2>2 DEF ForkPush
  <2>3. CASE ~ForkSpawn(t) /\ ~ForkPush(t)
    BY <1>2, <2>3
    DEF Reading, ReadItem, ReadSnapshot, SnapshotArrives, SnapshotFails,
        ReadAck, ReadRetires, ReadEnds,
      KeepaliveTimeout, SilenceForks, SilenceEnds, AfterRead, Confirm
  <2> QED BY <2>1, <2>2, <2>3
<1>3. ASSUME NEW t \in Tasks, Draining(t) PROVE HandlesCover'
  BY <1>3 DEF Draining, DrainItem, DrainEnds, DrainTimesOut, DrainRetires
<1>4. ASSUME NEW t \in Tasks, Retrying(t) PROVE HandlesCover'
  BY <1>4
  DEF Retrying, CloseAndRetry, OnReconnectItem, OnReconnectDone,
      BackoffElapses, CountFailure
<1>5. ASSUME NEW t \in Tasks, SendStep(t) PROVE HandlesCover'
  <2>1. CASE SendAccepted(t)
    BY <2>1 DEF SendAccepted, Resume, AfterRead
  <2>2. CASE SendRejected(t)
    BY <2>2 DEF SendRejected, AfterRead, CountFailure
  <2> QED BY <1>5, <2>1, <2>2 DEF SendStep
<1>6. ASSUME NEW t \in Tasks, Cancelled(t) PROVE HandlesCover'
  BY <1>6 DEF Cancelled
<1>7. CASE Recv
  BY <1>7 DEF Recv
<1>8. CASE Merge
  BY <1>8 DEF Merge
<1>9. CASE Drop
  BY <1>9 DEF Drop, Owned
<1>10. CASE Finished \/ UNCHANGED vars
  BY <1>10 DEF Finished, vars
<1> QED
  BY <1>1, <1>2, <1>3, <1>4, <1>5, <1>6, <1>7, <1>8, <1>9, <1>10
  DEF Next, TaskStep

-------------------------------------------------------------------------------
(* A confirmed replacement has data                                        *)

LEMMA DataInductive ==
    TypeOK /\ Links /\ EndsExplained /\ ConfirmedByData /\ [Next]_vars => ConfirmedByData'
<1> SUFFICES ASSUME TypeOK, Links, EndsExplained, ConfirmedByData, [Next]_vars PROVE ConfirmedByData'
  OBVIOUS
<1> USE RootTask DEF TypeOK, Links, EndsExplained, Runs, Goto, Forked, RxAlive,
      Sending, ConfirmedByData, Started, Kind, SuccessorReady,
      handleVars, history, taskVars
<1>1. ASSUME NEW t \in Tasks, Session(t) PROVE ConfirmedByData'
  BY <1>1
  DEF Session, Connected, ConnectFails, AuthSent, AuthSendFails,
      AuthConfirmed, AuthItem, AuthGivesUp, Subscribed, SubscribeFails,
      OnConnectItem, OnConnectDone, CountFailure
<1>2. ASSUME NEW t \in Tasks, Reading(t) PROVE ConfirmedByData'
  <2>1. CASE ForkSpawn(t)
    BY <2>1 DEF ForkSpawn
  <2>2. CASE ForkPush(t)
    BY <2>2 DEF ForkPush
  <2>3. CASE ~ForkSpawn(t) /\ ~ForkPush(t)
    BY <1>2, <2>3
    DEF Reading, ReadItem, ReadSnapshot, SnapshotArrives, SnapshotFails,
        ReadAck, ReadRetires, ReadEnds,
      KeepaliveTimeout, SilenceForks, SilenceEnds, AfterRead, Confirm
  <2> QED BY <2>1, <2>2, <2>3
<1>3. ASSUME NEW t \in Tasks, Draining(t) PROVE ConfirmedByData'
  BY <1>3 DEF Draining, DrainItem, DrainEnds, DrainTimesOut, DrainRetires
<1>4. ASSUME NEW t \in Tasks, Retrying(t) PROVE ConfirmedByData'
  BY <1>4
  DEF Retrying, CloseAndRetry, OnReconnectItem, OnReconnectDone,
      BackoffElapses, CountFailure
<1>5. ASSUME NEW t \in Tasks, SendStep(t) PROVE ConfirmedByData'
  <2>1. CASE SendAccepted(t)
    BY <2>1 DEF SendAccepted, Resume, AfterRead
  <2>2. CASE SendRejected(t)
    BY <2>2 DEF SendRejected, AfterRead, CountFailure
  <2> QED BY <1>5, <2>1, <2>2 DEF SendStep
<1>6. ASSUME NEW t \in Tasks, Cancelled(t) PROVE ConfirmedByData'
  BY <1>6 DEF Cancelled
<1>7. CASE Recv
  BY <1>7 DEF Recv
<1>8. CASE Merge
  BY <1>8 DEF Merge
<1>9. CASE Drop
  BY <1>9 DEF Drop, Owned
<1>10. CASE Finished \/ UNCHANGED vars
  BY <1>10 DEF Finished, vars
<1> QED
  BY <1>1, <1>2, <1>3, <1>4, <1>5, <1>6, <1>7, <1>8, <1>9, <1>10
  DEF Next, TaskStep

-------------------------------------------------------------------------------
(* The theorems                                                            *)

LEMMA InitInvariant == Init => IInv
<1> SUFFICES ASSUME Init PROVE IInv
  OBVIOUS
<1> USE RootTask, ConstantsAssumption DEF Init
<1>1. TypeOK
  BY TypeInit
<1>2. Links /\ RetiresOnlyWhenConfirmed /\ ConfirmedByData
  BY DEF Links, RetiresOnlyWhenConfirmed, ConfirmedByData, Forked
<1>3. BudgetIsExact /\ NoUnauthenticatedSession
  BY DEF BudgetIsExact, NoUnauthenticatedSession, Subscribing, Forked
<1>4. EndsExplained /\ HandlesCover
  BY DEF EndsExplained, HandlesCover, Terminal, Live
<1> QED BY <1>1, <1>2, <1>3, <1>4 DEF IInv

LEMMA StepInvariant == IInv /\ [Next]_vars => IInv'
BY TypeInductive, LinksInductive, RetiresInductive, BudgetInductive,
   AuthInductive, EndsInductive, HandlesInductive, DataInductive
DEF IInv

LEMMA Invariance == Spec => []IInv
BY InitInvariant, StepInvariant, PTL DEF Spec

\* Every variable keeps its type, whatever the constants (the state of
\* run_ws_loop and of StreamHandle).
THEOREM TypeCorrect == Spec => []TypeOK
<1>1. IInv => TypeOK
  BY DEF IInv
<1> QED BY <1>1, Invariance, PTL

\* A task gives up after exactly max_attempts failures in a row, and never
\* without a budget (the attempt counter of run_ws_loop).
THEOREM BudgetCorrect == Spec => []BudgetIsExact
<1>1. IInv => BudgetIsExact
  BY DEF IInv
<1> QED BY <1>1, Invariance, PTL

\* No subscription on an unauthenticated connection (the auth phase of
\* run_ws_loop).
THEOREM AuthCorrect == Spec => []NoUnauthenticatedSession
<1>1. IInv => NoUnauthenticatedSession
  BY DEF IInv
<1> QED BY <1>1, Invariance, PTL

\* The old connection retires only for a confirmed replacement of its own
\* (the flag checks of run_ws_loop).
THEOREM RetirementCorrect == Spec => []RetiresOnlyWhenConfirmed
<1>1. IInv => RetiresOnlyWhenConfirmed
  BY DEF IInv
<1> QED BY <1>1, Invariance, PTL

\* Without subscription acks the replacement has data when the old connection
\* retires (the implicit confirmation in the read loop).
THEOREM HandoverCorrect == Spec => []HandsOverWithData
<1>1. IInv => HandsOverWithData
  BY RootTask DEF IInv, HandsOverWithData, ConfirmedByData,
                  RetiresOnlyWhenConfirmed, TypeOK
<1> QED BY <1>1, Invariance, PTL

\* While the consumer listens, the stream of a channel does not end without
\* its fatal error (the returns of run_ws_loop).
THEOREM EndCorrect == Spec => []EndIsAnnounced
<1>1. ASSUME IInv, RxAlive, AllEnded
      PROVE  fatalSeen # {} \/ \E i \in DOMAIN chan : chan[i].kind = "fatal"
  <2> USE <1>1, RootTask DEF IInv
  <2>1. PICK t \in Tasks : pc[t] \in Terminal \ {"replaced"}
    <3>1. CASE pc[Root] = "replaced"
      <4>1. child[Root] \in Replacements /\ pc[child[Root]] # "unborn"
        BY <3>1 DEF Links, TypeOK
      <4> QED BY <4>1 DEF AllEnded, Live, Links
    <3>2. CASE pc[Root] # "replaced"
      BY <3>2 DEF AllEnded, Live, Links
    <3> QED BY <3>1, <3>2
  <2>2. Announced(t)
    BY <2>1 DEF EndsExplained
  <2> QED BY <2>2 DEF Announced
<1>2. IInv => EndIsAnnounced
  BY <1>1 DEF EndIsAnnounced
<1> QED BY <1>2, Invariance, PTL

\* Dropping the handle of an unmerged channel outside a fork leaves no task
\* running (StreamHandle::drop).
THEOREM DropCorrect == Spec => DropIsClean
<1>1. IInv /\ [Next]_vars => [DropStepIsClean]_vars
  <2> SUFFICES ASSUME IInv, [Next]_vars PROVE [DropStepIsClean]_vars
    OBVIOUS
  <2>1. CASE Drop
    <3> SUFFICES ASSUME owner = "channel", pc[Root] \notin Forked PROVE AllEnded'
      BY DEF DropStepIsClean
    <3>1. ASSUME NEW t \in Tasks, Live(t) PROVE t \in Owned
      BY <3>1 DEF IInv, HandlesCover, Owned, Forked
    <3>2. \A t \in Tasks : pc[t] \notin Forked
      BY RootTask DEF IInv, Links
    <3> QED BY <2>1, <3>1, <3>2 DEF Drop, AllEnded, Live, Terminal
  <2>2. CASE owner' = owner \/ owner' = "merged"
    BY <2>2 DEF DropStepIsClean
  <2>3. Drop \/ owner' = owner \/ owner' = "merged"
    <3>1. ASSUME NEW t \in Tasks, TaskStep(t) PROVE owner' = owner
      <4> USE <3>1 DEF handleVars
      <4>1. CASE Session(t)
        BY <4>1 DEF Session, Connected, ConnectFails, AuthSent, AuthSendFails,
           AuthConfirmed, AuthItem, AuthGivesUp, Subscribed, SubscribeFails,
           OnConnectItem, OnConnectDone
      <4>2. CASE Reading(t)
        BY <4>2 DEF Reading, ReadItem, ReadSnapshot, SnapshotArrives, SnapshotFails,
           ReadAck, ReadRetires,
           ReadEnds, KeepaliveTimeout, SilenceForks, SilenceEnds, ForkSpawn,
           ForkPush
      <4>3. CASE Draining(t)
        BY <4>3 DEF Draining, DrainItem, DrainEnds, DrainTimesOut, DrainRetires
      <4>4. CASE Retrying(t)
        BY <4>4 DEF Retrying, CloseAndRetry, OnReconnectItem, OnReconnectDone,
           BackoffElapses
      <4>5. CASE SendStep(t) \/ Cancelled(t)
        BY <4>5 DEF SendStep, SendAccepted, SendRejected, Cancelled
      <4> QED BY <4>1, <4>2, <4>3, <4>4, <4>5 DEF TaskStep
    <3> QED
      BY <3>1 DEF Next, Recv, Merge, Finished, vars, handleVars
  <2> QED BY <2>1, <2>2, <2>3
<1> QED BY <1>1, Invariance, PTL DEF Spec, DropIsClean

\* Only a subscribe on an authenticated connection restores the retry budget
\* (attempt = 0 in run_ws_loop).
THEOREM BudgetRestoreCorrect == Spec => OnlySubscribeRestoresBudget
<1>1. IInv /\ [Next]_vars => [RestoresBySubscribe]_vars
  <2> SUFFICES ASSUME IInv, [Next]_vars PROVE RestoresBySubscribe \/ UNCHANGED vars
    OBVIOUS
  <2> USE DEF IInv, TypeOK
  <2>1. ASSUME NEW t \in Tasks, NEW retry \in Waiting, CountFailure(t, retry)
        PROVE  RestoresBySubscribe
    <3>1. \A u \in Tasks : attempt[u] \in 0..AttemptCap /\ attempt'[u] >= attempt[u]
      BY <2>1, ConstantsAssumption DEF CountFailure
    <3>2. \A u \in Tasks : attempt'[u] \in Nat
      BY <2>1, ConstantsAssumption DEF CountFailure
    <3> QED BY <3>1, <3>2, ConstantsAssumption DEF RestoresBySubscribe
  <2>2. ASSUME UNCHANGED attempt PROVE RestoresBySubscribe
    BY <2>2 DEF RestoresBySubscribe
  <2>3. ASSUME NEW t \in Tasks, Subscribed(t) PROVE RestoresBySubscribe
    BY <2>3 DEF Subscribed, RestoresBySubscribe, Runs, Goto, Subscribing,
                NoUnauthenticatedSession
  <2>4. ASSUME NEW t \in Tasks, TaskStep(t), ~Subscribed(t)
        PROVE  RestoresBySubscribe
    <3>1. CASE Session(t)
      BY <2>1, <2>2, <2>4, <3>1
      DEF Session, Connected, ConnectFails, AuthSent, AuthSendFails,
          AuthConfirmed, AuthItem, AuthGivesUp, SubscribeFails, OnConnectItem,
          OnConnectDone, Waiting
    <3>2. CASE Reading(t)
      BY <2>2, <3>2 DEF Reading, ReadItem, ReadSnapshot, SnapshotArrives, SnapshotFails,
         ReadAck, ReadRetires,
         ReadEnds, KeepaliveTimeout, SilenceForks, SilenceEnds, ForkSpawn,
         ForkPush
    <3>3. CASE Draining(t) \/ Cancelled(t)
      BY <2>2, <3>3 DEF Draining, DrainItem, DrainEnds, DrainTimesOut,
         DrainRetires, Cancelled
    <3>4. CASE Retrying(t)
      BY <2>1, <2>2, <3>4 DEF Retrying, CloseAndRetry, OnReconnectItem,
         OnReconnectDone, BackoffElapses, Waiting
    <3>5. CASE SendStep(t)
      BY <2>1, <2>2, <3>5 DEF SendStep, SendAccepted, SendRejected, Waiting
    <3> QED BY <2>4, <3>1, <3>2, <3>3, <3>4, <3>5 DEF TaskStep
  <2>5. CASE Recv \/ Merge \/ Drop \/ Finished
    BY <2>2, <2>5 DEF Recv, Merge, Drop, Finished, taskVars, vars
  <2> QED BY <2>3, <2>4, <2>5 DEF Next
<1> QED BY <1>1, Invariance, PTL DEF Spec, OnlySubscribeRestoresBudget

\* A connection starts at most one replacement, a task not yet in use
\* (replacement_started in run_ws_loop).
THEOREM ForkCorrect == Spec => OneForkPerConnection
<1>1. IInv /\ [Next]_vars => [ForksOnce]_vars
  <2> SUFFICES ASSUME IInv, [Next]_vars PROVE ForksOnce \/ UNCHANGED vars
    OBVIOUS
  <2> USE RootTask DEF IInv, TypeOK, Links, Forked
  <2>1. ASSUME UNCHANGED child PROVE ForksOnce
    BY <2>1 DEF ForksOnce
  <2>2. ASSUME NEW t \in Tasks, TaskStep(t) PROVE ForksOnce
    <3>1. CASE OnConnectDone(t)
      BY <3>1 DEF OnConnectDone, ForksOnce, Runs
    <3>2. CASE ForkSpawn(t)
      BY <3>2 DEF ForkSpawn, ForksOnce, Runs
    <3>3. CASE SendAccepted(t)
      BY <3>3 DEF SendAccepted, ForksOnce
    <3>4. CASE UNCHANGED child
      BY <2>1, <3>4
    <3>5. OnConnectDone(t) \/ ForkSpawn(t) \/ SendAccepted(t) \/ UNCHANGED child
      <4>1. CASE Session(t)
        BY <4>1 DEF Session, Connected, ConnectFails, AuthSent, AuthSendFails,
           AuthConfirmed, AuthItem, AuthGivesUp, Subscribed, SubscribeFails,
           OnConnectItem
      <4>2. CASE Reading(t)
        BY <4>2 DEF Reading, ReadItem, ReadSnapshot, SnapshotArrives, SnapshotFails,
           ReadAck, ReadRetires,
           ReadEnds, KeepaliveTimeout, SilenceForks, SilenceEnds, ForkPush
      <4>3. CASE Draining(t) \/ Cancelled(t)
        BY <4>3 DEF Draining, DrainItem, DrainEnds, DrainTimesOut,
           DrainRetires, Cancelled
      <4>4. CASE Retrying(t)
        BY <4>4 DEF Retrying, CloseAndRetry, OnReconnectItem,
           OnReconnectDone, BackoffElapses
      <4>5. CASE SendStep(t)
        BY <4>5 DEF SendStep, SendRejected
      <4> QED BY <2>2, <4>1, <4>2, <4>3, <4>4, <4>5 DEF TaskStep
    <3> QED BY <3>1, <3>2, <3>3, <3>4, <3>5
  <2>3. CASE Recv \/ Merge \/ Drop \/ Finished
    BY <2>1, <2>3 DEF Recv, Merge, Drop, Finished, taskVars, vars
  <2> QED BY <2>2, <2>3 DEF Next
<1> QED BY <1>1, Invariance, PTL DEF Spec, OneForkPerConnection

-------------------------------------------------------------------------------
(* The tasks implement Channel: every step is a step of the promise or     *)
(* leaves what the consumer can tell unchanged.                            *)

\* What the mapping of Promise makes of a state.
Running == {t \in Tasks : Live(t)}
Ready   == {t \in Tasks : confirmed[t]}
GaveUp  == {t \in Tasks : pc[t] = "fatal"}

\* A task that goes on keeps the set of running tasks; one that ends leaves it.
LEMMA GotoRunning ==
    ASSUME TypeOK, NEW t \in Tasks, Live(t), NEW to \in PCs \ {"unborn"}, Goto(t, to)
    PROVE  /\ to \notin Terminal => Running' = Running /\ GaveUp' = GaveUp
           /\ to \in Terminal => Running' = Running \ {t}
           /\ to = "fatal" => GaveUp' = GaveUp \cup {t}
           /\ to # "fatal" => GaveUp' = GaveUp
BY DEF TypeOK, Goto, Live, Running, GaveUp, Terminal

\* A step that moves one running task on and touches neither queue, receiver
\* nor flags cannot be told from a stutter.
LEMMA MovesOn ==
    ASSUME TypeOK, NEW t \in Tasks, Live(t),
           NEW to \in PCs \ (Terminal \cup {"unborn"}), Goto(t, to),
           UNCHANGED <<chan, owner, confirmed>>
    PROVE  UNCHANGED Promise!chanVars
<1>1. Running' = Running /\ GaveUp' = GaveUp
  BY GotoRunning
<1> QED BY <1>1 DEF Promise!chanVars, Running, GaveUp, RxAlive

\* A confirmed replacement is an heir while the consumer listens: it cannot
\* have ended except by giving up.
LEMMA SuccessorIsHeir ==
    ASSUME IInv, NEW t \in Tasks, SuccessorReady(t), RxAlive
    PROVE  Promise!HasHeir(t)
<1> USE RootTask DEF IInv, TypeOK, Links, Started, SuccessorReady
<1>1. t = Root /\ child[t] \in Tasks /\ child[t] # t
  BY DEF Replacements
<1>2. pc[child[t]] # "unborn" /\ pc[child[t]] # "replaced"
  BY <1>1
<1>3. Live(child[t]) \/ pc[child[t]] = "fatal"
  BY <1>1, <1>2 DEF Live, EndsExplained, Terminal
<1> QED BY <1>1, <1>3 DEF Promise!HasHeir

\* Retiring is a handover, or nobody listens.
LEMMA Retires ==
    ASSUME IInv, NEW t \in Tasks, Live(t), SuccessorReady(t),
           Goto(t, "replaced"), UNCHANGED <<chan, owner, confirmed>>
    PROVE  Promise!Next
<1>1. Running' = Running \ {t} /\ GaveUp' = GaveUp /\ t \in Running
  BY GotoRunning DEF IInv, PCs, Terminal, Running
<1>2. CASE RxAlive
  <2>1. Promise!HasHeir(t)
    BY <1>2, SuccessorIsHeir
  <2>2. Promise!HandOver(t)
    BY <1>1, <2>1 DEF Promise!HandOver, Running, GaveUp, RxAlive
  <2> QED BY <2>2 DEF Promise!Next
<1>3. CASE ~RxAlive
  <2>1. Promise!Vanish(t)
    BY <1>1, <1>3 DEF Promise!Vanish, Running, GaveUp, RxAlive
  <2> QED BY <2>1 DEF Promise!Next
<1> QED BY <1>2, <1>3

\* Counting a failure leaves a task running.
LEMMA CountFailureMovesOn ==
    ASSUME TypeOK, NEW t \in Tasks, Live(t),
           NEW retry \in Waiting, CountFailure(t, retry),
           UNCHANGED <<chan, owner, confirmed>>
    PROVE  UNCHANGED Promise!chanVars
<1>1. PICK to \in {"sendFatal", retry} : Goto(t, to)
  BY DEF CountFailure
<1>2. to \in PCs \ (Terminal \cup {"unborn"})
  BY <1>1 DEF PCs, Sending, Waiting, Terminal
<1> QED BY <1>1, <1>2, MovesOn

LEMMA RunsLive == ASSUME NEW t \in Tasks, NEW where, Runs(t, where),
                         where \notin Terminal \cup {"unborn"}
                  PROVE  Live(t)
BY DEF Runs, Live

LEMMA SessionRefines ==
    ASSUME IInv, NEW t \in Tasks, Session(t)
    PROVE  UNCHANGED Promise!chanVars
<1> USE DEF IInv, handleVars, history
<1>1. Live(t) /\ UNCHANGED <<chan, owner, confirmed>>
  BY RunsLive DEF Session, Connected, ConnectFails, AuthSent, AuthSendFails,
     AuthConfirmed, AuthItem, AuthGivesUp, Subscribed, SubscribeFails,
     OnConnectItem, OnConnectDone, Terminal
<1>2. CASE ConnectFails(t) \/ AuthSendFails(t) \/ AuthGivesUp(t) \/ SubscribeFails(t)
  <2>1. CountFailure(t, "backoff")
    BY <1>2 DEF ConnectFails, AuthSendFails, AuthGivesUp, SubscribeFails
  <2> QED BY <1>1, <2>1, CountFailureMovesOn DEF Waiting
<1>3. CASE ~(ConnectFails(t) \/ AuthSendFails(t) \/ AuthGivesUp(t) \/ SubscribeFails(t))
  <2>1. PICK to \in {"authSend", "authWait", "sendAuth", "subscribe", "onConnect",
                     "sendConnect", "read"} : Goto(t, to)
    BY <1>3 DEF Session, Connected, AuthSent, AuthConfirmed, AuthItem, Subscribed,
       OnConnectItem, OnConnectDone
  <2>2. to \in PCs \ (Terminal \cup {"unborn"})
    BY <2>1 DEF PCs, Sending, Waiting, Terminal
  <2> QED BY <1>1, <2>1, <2>2, MovesOn
<1> QED BY <1>2, <1>3

LEMMA DrainingRefines ==
    ASSUME IInv, NEW t \in Tasks, Draining(t) \/ Retrying(t)
    PROVE  [Promise!Next]_Promise!chanVars
<1> USE DEF IInv, handleVars, history
<1>1. Live(t) /\ UNCHANGED <<chan, owner, confirmed>>
  BY RunsLive DEF Draining, DrainItem, DrainEnds, DrainTimesOut, DrainRetires,
     Retrying, CloseAndRetry, OnReconnectItem, OnReconnectDone, BackoffElapses,
     Terminal
<1>2. CASE DrainRetires(t)
  BY <1>1, <1>2, Retires DEF DrainRetires
<1>3. CASE CloseAndRetry(t)
  BY <1>1, <1>3, CountFailureMovesOn DEF CloseAndRetry, Waiting
<1>4. CASE ~(DrainRetires(t) \/ CloseAndRetry(t))
  <2>1. PICK to \in {"sendDrain", "close", "sendReconnect", "backoff", "connect"} :
                Goto(t, to)
    BY <1>4 DEF Draining, DrainItem, DrainEnds, DrainTimesOut,
       Retrying, OnReconnectItem, OnReconnectDone, BackoffElapses
  <2>2. to \in PCs \ (Terminal \cup {"unborn"})
    BY <2>1 DEF PCs, Sending, Waiting, Terminal
  <2> QED BY <1>1, <2>1, <2>2, MovesOn
<1> QED BY <1>2, <1>3, <1>4

\* A task that confirms itself becomes ready; where it goes on is not seen.
LEMMA Confirms ==
    ASSUME TypeOK, NEW t \in Tasks, Live(t), Confirm(t),
           Running' = Running, GaveUp' = GaveUp, UNCHANGED <<chan, owner>>
    PROVE  [Promise!Next]_Promise!chanVars
<1>1. CASE t = Root
  BY <1>1 DEF Confirm, Promise!chanVars, Running, GaveUp, RxAlive
<1>2. CASE t # Root
  <2>1. Ready' = Ready \cup {t}
    BY <1>2 DEF Confirm, Ready, TypeOK
  <2>2. Promise!GetReady(t)
    BY <2>1 DEF Promise!GetReady, Ready, Running, GaveUp, RxAlive
  <2> QED BY <2>2 DEF Promise!Next
<1> QED BY <1>1, <1>2

LEMMA ForkRefines ==
    ASSUME IInv, NEW t \in Tasks, ForkSpawn(t)
    PROVE  Promise!Next
<1> USE DEF IInv, handleVars, history
<1>1. PICK c \in Replacements :
        /\ pc[c] = "unborn"
        /\ pc' = [pc EXCEPT ![t] = "spawned", ![c] = "connect"]
  BY DEF ForkSpawn
<1>2. Live(t) /\ c \in Tasks /\ c # t /\ t \in Running
  BY <1>1, RootTask, RunsLive DEF ForkSpawn, Live, Terminal, Running
<1>3. Running' = Running \cup {c} /\ GaveUp' = GaveUp
  BY <1>1, <1>2 DEF Running, GaveUp, Live, Terminal, TypeOK, ForkSpawn, Runs
<1>4. c \notin Running \cup GaveUp
  BY <1>1 DEF Running, GaveUp, Live
<1>5. Promise!Spawn(c)
  BY <1>2, <1>3, <1>4 DEF Promise!Spawn, Running, GaveUp, RxAlive, ForkSpawn
<1> QED BY <1>2, <1>5 DEF Promise!Next

LEMMA ReadingRefines ==
    ASSUME IInv, NEW t \in Tasks, Reading(t)
    PROVE  [Promise!Next]_Promise!chanVars
<1> USE DEF IInv, handleVars, history
<1>1. Live(t)
  BY RunsLive DEF Reading, ReadItem, ReadSnapshot, SnapshotArrives, SnapshotFails,
     ReadAck, ReadRetires, ReadEnds,
     KeepaliveTimeout, SilenceForks, SilenceEnds, ForkSpawn, ForkPush, Terminal
<1>2. CASE ReadItem(t)
  <2>1. Running' = Running /\ GaveUp' = GaveUp
    BY <1>1, <1>2, GotoRunning DEF ReadItem, PCs, Sending, Terminal
  <2> QED BY <1>1, <1>2, <2>1, Confirms DEF ReadItem
<1>3. CASE ReadAck(t)
  <2>1. Running' = Running /\ GaveUp' = GaveUp
    BY <1>3 DEF ReadAck, Running, GaveUp, Live
  <2> QED BY <1>1, <1>3, <2>1, Confirms DEF ReadAck
<1>4. CASE ForkSpawn(t)
  BY <1>4, ForkRefines
<1>5. CASE ForkPush(t)
  BY <1>1, <1>5, MovesOn DEF ForkPush, PCs, Waiting, Terminal
<1>6. CASE SuccessorReady(t) /\ (ReadRetires(t) \/ SilenceEnds(t))
  BY <1>1, <1>6, Retires DEF ReadRetires, SilenceEnds
<1>7. CASE ~SuccessorReady(t) /\ (ReadRetires(t) \/ SilenceEnds(t))
  <2>1. SilenceEnds(t)
    BY <1>7 DEF ReadRetires
  <2>2. PICK to \in {"drain", "close"} : Goto(t, to)
    BY <1>7, <2>1 DEF SilenceEnds, AfterRead
  <2> QED BY <1>1, <2>1, <2>2, MovesOn DEF SilenceEnds, PCs, Waiting, Terminal
<1>8. CASE \/ ReadSnapshot(t) \/ SnapshotArrives(t) \/ ReadEnds(t)
           \/ KeepaliveTimeout(t) \/ SilenceForks(t)
  <2>1. PICK to \in {"fetch", "sendSnapshot", "drain", "close", "sendTimeout",
                     "forking"} :
                Goto(t, to)
    BY <1>8 DEF ReadSnapshot, SnapshotArrives, ReadEnds, KeepaliveTimeout, SilenceForks, AfterRead
  <2>2. to \in PCs \ (Terminal \cup {"unborn"})
    BY <2>1 DEF PCs, Sending, Waiting, Forked, Terminal
  <2>3. UNCHANGED <<chan, owner, confirmed>>
    BY <1>8 DEF ReadSnapshot, SnapshotArrives, ReadEnds, KeepaliveTimeout, SilenceForks
  <2> QED BY <1>1, <2>1, <2>2, <2>3, MovesOn
<1>9. CASE SnapshotFails(t)
  <2>1. CASE SuccessorReady(t)
    BY <1>1, <1>9, <2>1, Retires DEF SnapshotFails
  <2>2. CASE ~SuccessorReady(t)
    BY <1>1, <1>9, <2>2, MovesOn DEF SnapshotFails, PCs, Waiting, Terminal
  <2> QED BY <2>1, <2>2
<1> QED BY <1>2, <1>3, <1>4, <1>5, <1>6, <1>7, <1>8, <1>9 DEF Reading

\* Where a task goes on after a send, and whether that ends it.
LEMMA ResumeEnds ==
    ASSUME IInv, NEW t \in Tasks, pc[t] \in Sending
    PROVE  /\ Resume(t) \in PCs \ {"unborn", "closed", "aborted"}
           /\ Resume(t) = "fatal" <=> pc[t] = "sendFatal"
           /\ Resume(t) = "replaced" => SuccessorReady(t)
           /\ Kind(pc[t]) = "fatal" <=> pc[t] = "sendFatal"
           /\ Kind(pc[t]) \in {"item", "timeout", "fatal"}
BY DEF Resume, AfterRead, Sending, PCs, Waiting, Terminal, Kind

LEMMA SendRefines ==
    ASSUME IInv, NEW t \in Tasks, SendAccepted(t)
    PROVE  Promise!Next
<1> USE DEF IInv, handleVars, history
<1>1. /\ pc[t] \in Sending /\ Live(t) /\ t \in Running /\ RxAlive
      /\ UNCHANGED <<owner, confirmed>>
      /\ Len(chan) < ChanCap
  BY DEF SendAccepted, Live, Running, Sending, Terminal, QueueHasRoom
<1>2. CASE pc[t] = "sendFatal"
  <2>1. Goto(t, "fatal") /\ chan' = Append(chan, [src |-> t, kind |-> "fatal"])
    BY <1>1, <1>2, ResumeEnds DEF SendAccepted, Kind
  <2>2. Running' = Running \ {t} /\ GaveUp' = GaveUp \cup {t}
    BY <1>1, <2>1, GotoRunning DEF PCs, Terminal
  <2>3. Promise!GiveUp(t)
    BY <1>1, <2>1, <2>2 DEF Promise!GiveUp, Running, GaveUp, RxAlive
  <2> QED BY <2>3 DEF Promise!Next
<1>3. CASE pc[t] # "sendFatal"
  <2>1. PICK to \in PCs \ {"unborn"} :
                Goto(t, to) /\ (to = "fetch" \/ to = Resume(t))
    BY <1>1, ResumeEnds DEF SendAccepted, PCs, Waiting, Sending
  <2>2. to \in Terminal => to = "replaced" /\ SuccessorReady(t)
    BY <1>1, <1>3, <2>1, ResumeEnds DEF Terminal
  <2>3. GaveUp' = GaveUp
    BY <1>1, <2>1, <2>2, GotoRunning
  <2>4. Running' = Running \/ (Promise!HasHeir(t) /\ Running' = Running \ {t})
    BY <1>1, <2>1, <2>2, GotoRunning, SuccessorIsHeir
  <2>5. \E kind \in {"item", "timeout"} :
            chan' = Append(chan, [src |-> t, kind |-> kind])
    BY <1>1, <1>3, ResumeEnds DEF SendAccepted
  <2>6. Promise!Publish(t)
    BY <1>1, <2>3, <2>4, <2>5 DEF Promise!Publish, Running, GaveUp, RxAlive
  <2> QED BY <2>6 DEF Promise!Next
<1> QED BY <1>2, <1>3

\* A task that ends unheard, or is cancelled: nobody listens any more.
LEMMA Unheard ==
    ASSUME IInv, NEW t \in Tasks, Live(t), ~RxAlive, NEW to \in Terminal,
           Goto(t, to), UNCHANGED <<chan, owner, confirmed>>
    PROVE  Promise!Next
<1>1. Running' = Running \ {t} /\ t \in Running
  BY GotoRunning DEF IInv, Terminal, PCs, Running
<1>2. GaveUp' \in {GaveUp, GaveUp \cup {t}}
  BY GotoRunning DEF IInv, Terminal, PCs
<1>3. Promise!Vanish(t)
  BY <1>1, <1>2 DEF Promise!Vanish, Running, GaveUp, RxAlive
<1> QED BY <1>3 DEF Promise!Next

LEMMA RejectedRefines ==
    ASSUME IInv, NEW t \in Tasks, SendRejected(t) \/ Cancelled(t)
    PROVE  [Promise!Next]_Promise!chanVars
<1> USE DEF IInv, handleVars, history
<1>1. Live(t) /\ ~RxAlive /\ UNCHANGED <<chan, owner, confirmed>>
  BY DEF SendRejected, Cancelled, EndsExplained, Live, Sending, Terminal
<1>2. CASE SendRejected(t) /\ pc[t] = "sendAuth"
  <2>1. CountFailure(t, "backoff")
    BY <1>2 DEF SendRejected
  <2> QED BY <1>1, <2>1, CountFailureMovesOn DEF Waiting
<1>3. CASE Cancelled(t) \/ pc[t] # "sendAuth"
  <2>1. PICK to \in {"drain", "close", "fatal", "closed", "aborted"} : Goto(t, to)
    BY <1>3 DEF SendRejected, Cancelled, AfterRead
  <2>2. CASE to \in Terminal
    BY <1>1, <2>1, <2>2, Unheard
  <2>3. CASE to \notin Terminal
    BY <1>1, <2>1, <2>3, MovesOn DEF PCs, Waiting, Terminal
  <2> QED BY <2>2, <2>3
<1> QED BY <1>2, <1>3

LEMMA HandleRefines ==
    ASSUME IInv, Recv \/ Merge \/ Drop \/ Finished
    PROVE  [Promise!Next]_Promise!chanVars
<1> USE DEF IInv, taskVars, handleVars, history
<1>1. CASE Recv
  <2>1. Promise!Take
    BY <1>1 DEF Recv, Promise!Take, RxAlive, Live
  <2> QED BY <2>1 DEF Promise!Next
<1>2. CASE Drop
  <2>1. Running' \in SUBSET Running /\ GaveUp' = GaveUp
    BY <1>2 DEF Drop, Running, GaveUp, Live, Terminal, TypeOK
  <2>2. Promise!Release
    BY <1>2, <2>1 DEF Drop, Promise!Release, Running, GaveUp, RxAlive
  <2> QED BY <2>2 DEF Promise!Next
<1>3. CASE Merge \/ Finished
  BY <1>3 DEF Merge, Finished, vars, Promise!chanVars, RxAlive, Live
<1> QED BY <1>1, <1>2, <1>3

\* The tasks of run_ws_loop, its forks and the StreamHandle keep the promise
\* of Channel, for every number of tasks, budget and capacity: nothing comes
\* from a connection that has ended, and none ends unexplained while the
\* consumer listens.
THEOREM ImplementationCorrect == Spec => ImplementsChannel
<1>1. Init => Promise!Init
  <2> SUFFICES ASSUME Init PROVE Promise!Init
    OBVIOUS
  <2>1. Running = {Root} /\ Ready = {} /\ GaveUp = {}
    BY RootTask DEF Init, Running, Ready, GaveUp, Live, Terminal
  <2> QED BY <2>1, RootTask
          DEF Init, Promise!Init, Running, Ready, GaveUp, RxAlive
<1>2. IInv /\ [Next]_vars => [Promise!Next]_Promise!chanVars
  <2> SUFFICES ASSUME IInv, [Next]_vars PROVE [Promise!Next]_Promise!chanVars
    OBVIOUS
  <2>1. ASSUME NEW t \in Tasks, TaskStep(t)
        PROVE  [Promise!Next]_Promise!chanVars
    BY <2>1, SessionRefines, ReadingRefines, DrainingRefines, SendRefines,
       RejectedRefines DEF TaskStep, SendStep
  <2>2. CASE UNCHANGED vars
    BY <2>2 DEF vars, Promise!chanVars, RxAlive, Live
  <2> QED BY <2>1, <2>2, HandleRefines DEF Next
<1> QED BY <1>1, <1>2, Invariance, PTL DEF Spec, ImplementsChannel, Promise!Spec

\* What the promise is worth: of those who feed the channel, the last to leave
\* finds no heir and can only give up.
LEMMA PromiseIsKept == Promise!Spec => []Promise!NeverJustSilent
<1>1. Promise!Init => Promise!NeverJustSilent
  BY DEF Promise!Init, Promise!NeverJustSilent
<1>2. Promise!NeverJustSilent /\ [Promise!Next]_Promise!chanVars
          => Promise!NeverJustSilent'
  <2> SUFFICES ASSUME Promise!NeverJustSilent,
                      [Promise!Next]_Promise!chanVars
               PROVE  Promise!NeverJustSilent'
    OBVIOUS
  <2> USE DEF Promise!NeverJustSilent
  <2>1. ASSUME NEW t \in Tasks, Promise!Spawn(t) \/ Promise!GetReady(t)
        PROVE  Promise!NeverJustSilent'
    BY <2>1 DEF Promise!Spawn, Promise!GetReady
  <2>2. ASSUME NEW t \in Tasks, Promise!HasHeir(t),
               Running' = Running \ {t}, GaveUp' = GaveUp
        PROVE  Running' # {} \/ GaveUp' # {}
    BY <2>2 DEF Promise!HasHeir, Running, GaveUp
  <2>3. ASSUME NEW t \in Tasks, Promise!Publish(t)
        PROVE  Promise!NeverJustSilent'
    BY <2>2, <2>3 DEF Promise!Publish, Running, GaveUp
  <2>4. ASSUME NEW t \in Tasks, Promise!HandOver(t)
        PROVE  Promise!NeverJustSilent'
    BY <2>2, <2>4 DEF Promise!HandOver, Running, GaveUp
  <2>5. ASSUME NEW t \in Tasks, Promise!GiveUp(t)
        PROVE  Promise!NeverJustSilent'
    BY <2>5 DEF Promise!GiveUp
  <2>6. ASSUME NEW t \in Tasks, Promise!Vanish(t)
        PROVE  Promise!NeverJustSilent'
    BY <2>6 DEF Promise!Vanish
  <2>7. CASE Promise!Take \/ Promise!Release
    BY <2>7 DEF Promise!Take, Promise!Release
  <2>8. CASE UNCHANGED Promise!chanVars
    BY <2>8 DEF Promise!chanVars
  <2> QED BY <2>1, <2>3, <2>4, <2>5, <2>6, <2>7, <2>8 DEF Promise!Next
<1> QED BY <1>1, <1>2, PTL DEF Promise!Spec

\* While a consumer holds the receiver of stream(), a task of run_ws_loop or a
\* fork still feeds it, or one has sent Err(MaxReconnectsExceeded): no
\* interleaving of forks, handovers and failures leaves it just silent.
THEOREM SilenceIsExplained == Spec => []Promise!NeverJustSilent
BY ImplementationCorrect, PromiseIsKept, PTL DEF ImplementsChannel

(***************************************************************************)
(* The clocks of the loop (module Keepalive), for every interval, silence  *)
(* time, backoff and bound: a live exchange is kept, a dead one is         *)
(* noticed, silence is the exchange's, and dials keep their distance.      *)
(***************************************************************************)

LifeWaits == \E i \in 1..Len(socket) : ShowsLife(socket[i])
ItemWaits == \E i \in 1..Len(socket) : socket[i] = "item"

\* The types the first three proofs need; the backoff comes below.
ClockTypes ==
    /\ exchange \in Exchanges
    /\ phase \in {"reading", "sending", "fetching", "raising", "waiting"}
    /\ socket \in Seq(Frame)
    /\ pingIn \in Int /\ pingIn <= Interval
    /\ sincePong \in Nat /\ silentIn \in Nat /\ sinceItem \in Nat
    /\ owed \in {Paid} \cup 0..Interval
    /\ late \in BOOLEAN /\ starved \in BOOLEAN

\* While nothing has gone wrong, a ping that is not answered is as old as the
\* time since it was sent, and if all are answered then the last sign of life
\* is not older than the last ping, or waits in the socket.
PingsAccounted ==
    /\ owed = Interval => late
    /\ pingIn <= -Interval => starved
    /\ ~late /\ ~starved =>
          /\ owed # Paid => owed = Interval - pingIn
          /\ owed = Paid => LifeWaits \/ sincePong <= Interval - pingIn

\* What the silence timer has run since the last item was sent by the
\* exchange, unless that item is still to be read.
SilenceAccounted == ItemWaits \/ silentIn + sinceItem >= SilenceDuration

ClocksInv == /\ ClockTypes
        /\ PingsAccounted
        /\ KeepsLiveConnection
        /\ DeadIsNoticed
        /\ SilenceAccounted

\* The constants as the provers need them.
LEMMA Durations ==
    /\ Interval \in Nat /\ Interval > 0
    /\ SilenceDuration \in Nat
    /\ Silence # NoSilence => SilenceDuration = Silence
BY KeepaliveAssumption DEF SilenceDuration, NoSilence

\* A new connection satisfies the invariant whatever came before (the timers
\* made before the read loop).
LEMMA FreshClocksInv ==
    ASSUME ClocksInv, Fresh, UNCHANGED exchange, phase' \in {"reading", "waiting"}
    PROVE  ClocksInv'
<1>a. socket' \in Seq(Frame)
  BY DEF Fresh
<1>b. (late \in BOOLEAN)' /\ (starved \in BOOLEAN)'
  BY DEF Fresh
<1>1. ClockTypes'
  BY <1>a, <1>b, Durations DEF ClocksInv, ClockTypes, Fresh, Paid
<1>2. PingsAccounted'
  BY Durations DEF PingsAccounted, Fresh, Paid
<1>3. KeepsLiveConnection' /\ DeadIsNoticed'
  BY Durations DEF KeepsLiveConnection, DeadIsNoticed, Fresh
<1>4. SilenceAccounted'
  BY Durations DEF SilenceAccounted, Fresh, SilenceDuration
<1> QED
  BY <1>1, <1>2, <1>3, <1>4 DEF ClocksInv

\* Leaving the read loop, for any reason, ends the connection's clocks.
LEMMA LeaveClocksInv == ASSUME ClocksInv, Leave PROVE ClocksInv'
BY FreshClocksInv DEF Leave

LEMMA InitClocksInv == ClocksInit => ClocksInv
<1> SUFFICES ASSUME ClocksInit PROVE ClocksInv
  OBVIOUS
<1>a. socket \in Seq(Frame)
  BY DEF ClocksInit
<1>b. (late \in BOOLEAN) /\ (starved \in BOOLEAN)
  BY DEF ClocksInit
<1>1. ClockTypes
  BY <1>a, <1>b, Durations DEF ClocksInit, ClockTypes, Paid
<1>2. PingsAccounted
  BY Durations DEF ClocksInit, PingsAccounted, Paid
<1>3. KeepsLiveConnection /\ DeadIsNoticed
  BY DEF ClocksInit, KeepsLiveConnection, DeadIsNoticed
<1>4. SilenceAccounted
  BY Durations DEF ClocksInit, SilenceAccounted, SilenceDuration
<1> QED
  BY <1>1, <1>2, <1>3, <1>4 DEF ClocksInv

\* One frame read: what is left in the socket was in it before, and what the
\* frame was is accounted for (Message::Text and Message::Pong).
LEMMA ReadClocksInv == ASSUME ClocksInv, Read PROVE ClocksInv'
<1>1. /\ socket \in Seq(Frame) /\ socket # <<>>
      /\ \A i \in 1..Len(socket) : i = 1 \/ (i - 1 \in 1..Len(socket') /\ socket'[i - 1] = socket[i])
  BY DEF ClocksInv, ClockTypes, Read
<1>2. LifeWaits => LifeWaits' \/ ShowsLife(Head(socket))
  BY <1>1 DEF LifeWaits
<1>3. ItemWaits => ItemWaits' \/ Head(socket) = "item"
  BY <1>1 DEF ItemWaits
<1>4. ClockTypes'
  <2>1. socket' \in Seq(Frame)
    BY <1>1 DEF Read
  <2>2. phase' \in {"reading", "sending", "fetching"}
    BY DEF Read
  <2> QED
    BY <2>1, <2>2, Durations DEF ClocksInv, ClockTypes, Read, marks
<1>5. PingsAccounted'
  <2>1. UNCHANGED <<pingIn, owed, late, starved>>
        /\ sincePong' = IF ShowsLife(Head(socket)) THEN 0 ELSE sincePong
    BY DEF Read, marks
  <2> QED
    BY <1>2, <2>1, Durations DEF ClocksInv, ClockTypes, PingsAccounted
<1>6. KeepsLiveConnection' /\ DeadIsNoticed'
  BY Durations DEF ClocksInv, ClockTypes, KeepsLiveConnection, DeadIsNoticed, Read
<1>7. SilenceAccounted'
  BY <1>3, Durations DEF ClocksInv, ClockTypes, SilenceAccounted, Read
<1> QED
  BY <1>4, <1>5, <1>6, <1>7 DEF ClocksInv

\* The ping branch: with every ping answered in time the last sign of life is
\* younger than two intervals (keepalive_timeout).
LEMMA NoTimeout == ASSUME ClocksInv, PingDue, ~late, ~starved PROVE sincePong < PingTimeout
<1>1. ~LifeWaits
  BY DEF PingDue, LifeWaits
<1>2. owed = Paid
  BY Durations DEF ClocksInv, ClockTypes, PingsAccounted, PingDue
<1> QED
  BY <1>1, <1>2, Durations DEF ClocksInv, ClockTypes, PingsAccounted, PingTimeout, PingDue

LEMMA PingTimesOutClocksInv == ASSUME ClocksInv, PingTimesOut PROVE ClocksInv'
<1>1. late \/ starved
  BY NoTimeout, Durations DEF PingTimesOut, ClocksInv, ClockTypes, PingTimeout
<1>2. UNCHANGED <<exchange, socket, pingIn, sincePong, silentIn, owed, late, starved, sinceItem>>
      /\ phase' = "raising"
  BY DEF PingTimesOut, timers, marks
<1>3. ClockTypes' /\ PingsAccounted' /\ SilenceAccounted'
  BY <1>2 DEF ClocksInv, ClockTypes, PingsAccounted, SilenceAccounted, LifeWaits, ItemWaits
<1> QED
  BY <1>1, <1>2, <1>3 DEF ClocksInv, KeepsLiveConnection, DeadIsNoticed

LEMMA PingsClocksInv == ASSUME ClocksInv, Pings PROVE ClocksInv'
<1>1. /\ UNCHANGED <<exchange, phase, socket, sincePong, silentIn, late, starved, sinceItem>>
      /\ pingIn' = Interval /\ owed' = IF owed = Paid THEN 0 ELSE owed
      /\ phase = "reading" /\ pingIn <= 0 /\ sincePong <= 2 * Interval
  BY DEF Pings, marks, PingDue, PingTimeout
<1>2. ClockTypes'
  BY <1>1, Durations DEF ClocksInv, ClockTypes, Paid
<1>3. PingsAccounted'
  BY <1>1, Durations DEF ClocksInv, ClockTypes, PingsAccounted, Paid
<1>4. KeepsLiveConnection' /\ DeadIsNoticed'
  BY <1>1, Durations DEF ClocksInv, ClockTypes, KeepsLiveConnection, DeadIsNoticed
<1>5. SilenceAccounted'
  BY <1>1 DEF ClocksInv, SilenceAccounted, ItemWaits
<1> QED
  BY <1>2, <1>3, <1>4, <1>5 DEF ClocksInv

\* A restart of the silence timer, a send or a fetch that returns.
LEMMA ResumeClocksInv ==
    ASSUME ClocksInv, phase \in {"reading", "sending", "fetching"}, phase' \in {"reading", "sending"},
           UNCHANGED <<exchange, socket, pingIn, sincePong, owed, late, starved, sinceItem>>,
           silentIn' \in {silentIn, SilenceDuration}
    PROVE  ClocksInv'
<1>1. ClockTypes'
  BY Durations DEF ClocksInv, ClockTypes
<1>2. PingsAccounted'
  BY DEF ClocksInv, PingsAccounted, LifeWaits
<1>3. KeepsLiveConnection' /\ DeadIsNoticed'
  BY DEF ClocksInv, KeepsLiveConnection, DeadIsNoticed
<1>4. ItemWaits' = ItemWaits
  BY DEF ItemWaits
<1>5. silentIn + sinceItem >= SilenceDuration => (silentIn + sinceItem >= SilenceDuration)'
  <2>1. sinceItem' = sinceItem /\ sinceItem \in Nat /\ SilenceDuration' = SilenceDuration
    BY DEF ClocksInv, ClockTypes, SilenceDuration
  <2>2. CASE silentIn' = silentIn
    BY <2>1, <2>2
  <2>3. CASE silentIn' = SilenceDuration
    BY <2>1, <2>3, Durations
  <2> QED
    BY <2>2, <2>3
<1>6. SilenceAccounted'
  BY <1>4, <1>5 DEF ClocksInv, SilenceAccounted
<1> QED
  BY <1>1, <1>2, <1>3, <1>6 DEF ClocksInv

\* A frame arrives: a pong settles the pings, an item restarts the exchange's
\* silence.
LEMMA ArrivesClocksInv ==
    ASSUME ClocksInv, NEW frame \in Frame, socket' = Append(socket, frame),
           UNCHANGED <<exchange, phase, pingIn, sincePong, silentIn, late, starved>>,
           sinceItem' = (IF frame = "item" THEN 0 ELSE sinceItem),
           owed' = owed \/ (owed' = Paid /\ ShowsLife(frame))
    PROVE  ClocksInv'
<1>1. /\ socket \in Seq(Frame)
      /\ socket' \in Seq(Frame)
      /\ Len(socket') = Len(socket) + 1
      /\ socket'[Len(socket) + 1] = frame
      /\ \A i \in 1..Len(socket) : socket'[i] = socket[i]
  BY DEF ClocksInv, ClockTypes
<1>2. LifeWaits \/ ShowsLife(frame) => LifeWaits'
  BY <1>1 DEF LifeWaits
<1>3. ItemWaits \/ frame = "item" => ItemWaits'
  BY <1>1 DEF ItemWaits
<1>4. ClockTypes'
  BY <1>1 DEF ClocksInv, ClockTypes
<1>5. PingsAccounted'
  BY <1>2, Durations DEF ClocksInv, ClockTypes, PingsAccounted, Paid
<1>6. KeepsLiveConnection' /\ DeadIsNoticed'
  BY DEF ClocksInv, KeepsLiveConnection, DeadIsNoticed
<1>7. SilenceAccounted'
  BY <1>3 DEF ClocksInv, SilenceAccounted
<1> QED
  BY <1>4, <1>5, <1>6, <1>7 DEF ClocksInv

\* Time passes: every clock moves by one, so the differences stay.
LEMMA TickClocksInv == ASSUME ClocksInv, Tick PROVE ClocksInv'
<1>1. CASE phase = "waiting"
  BY <1>1 DEF Tick, timers, marks, ClocksInv, ClockTypes, PingsAccounted, KeepsLiveConnection,
              DeadIsNoticed, SilenceAccounted, LifeWaits, ItemWaits
<1>2. CASE phase # "waiting"
  <2>1. /\ UNCHANGED <<exchange, phase, socket>>
        /\ pingIn' = pingIn - 1 /\ sincePong' = sincePong + 1
        /\ silentIn' = Less(silentIn)
        /\ owed' = IF owed = Paid THEN Paid ELSE Least(owed + 1, Interval)
        /\ late' = (late \/ owed' = Interval)
        /\ starved' = (starved \/ pingIn' <= -Interval)
        /\ sinceItem' = Least(sinceItem + 1, SilenceDuration)
    BY <1>2 DEF Tick
  <2>2. ClockTypes'
    BY <2>1, Durations DEF ClocksInv, ClockTypes, Less, Least, Paid
  <2>3. PingsAccounted'
    <3>1. (owed = Interval => late)' /\ (pingIn <= -Interval => starved)'
      BY <2>1
    <3>2. ~late' /\ ~starved' => ~late /\ ~starved /\ owed' # Interval
      BY <2>1
    <3>3. LifeWaits' = LifeWaits
      BY <2>1 DEF LifeWaits
    <3>4. ASSUME ~late', ~starved', owed' # Paid PROVE owed' = Interval - pingIn'
      BY <2>1, <3>2, <3>4, Durations DEF ClocksInv, ClockTypes, PingsAccounted, Least, Paid
    <3>5. ASSUME ~late', ~starved', owed' = Paid, ~LifeWaits'
          PROVE  sincePong' <= Interval - pingIn'
      BY <2>1, <3>2, <3>3, <3>5, Durations DEF ClocksInv, ClockTypes, PingsAccounted, Least, Paid
    <3> QED
      BY <3>1, <3>4, <3>5 DEF PingsAccounted
  <2>4. KeepsLiveConnection' /\ DeadIsNoticed'
    BY <2>1, Durations DEF ClocksInv, ClockTypes, KeepsLiveConnection, DeadIsNoticed
  <2>5. SilenceAccounted'
    BY <2>1, Durations DEF ClocksInv, ClockTypes, SilenceAccounted, ItemWaits, Less, Least
  <2> QED
    BY <2>2, <2>3, <2>4, <2>5 DEF ClocksInv
<1> QED
  BY <1>1, <1>2

LEMMA NextClocksInv == ClocksInv /\ [ClocksNext]_clocks => ClocksInv'
<1> SUFFICES ASSUME ClocksInv, [ClocksNext]_clocks PROVE ClocksInv'
  OBVIOUS
<1> USE DEF timers, marks
<1>1. CASE DialFails \/ UNCHANGED clocks
  BY <1>1 DEF DialFails, clocks, ClocksInv, ClockTypes, PingsAccounted, KeepsLiveConnection,
              DeadIsNoticed, SilenceAccounted, LifeWaits, ItemWaits
<1>2. CASE Connects
  BY <1>2, FreshClocksInv DEF Connects
<1>3. CASE Read
  BY <1>3, ReadClocksInv
<1>4. CASE ReadsClose \/ ReceiverGone \/ Raised \/ PingFails \/ SilenceLeaves
  BY <1>4, LeaveClocksInv DEF ReadsClose, ReceiverGone, Raised, PingFails, SilenceLeaves
<1>5. CASE Sent
  BY <1>5, ResumeClocksInv DEF Sent
<1>6. CASE Fetched
  BY <1>6, ResumeClocksInv DEF Fetched
<1>7. CASE PingTimesOut
  BY <1>7, PingTimesOutClocksInv
<1>8. CASE Pings
  BY <1>8, PingsClocksInv
<1>9. CASE SilenceReplaces
  BY <1>9, ResumeClocksInv DEF SilenceReplaces, SilenceDue
<1>10. CASE ExchangeSends
  <2>1. PICK frame \in (TextFrames \ {"appPong"}) \cup {"wsPing", "close"} :
           /\ socket' = Append(socket, frame)
           /\ sinceItem' = IF frame = "item" THEN 0 ELSE sinceItem
    BY <1>10 DEF ExchangeSends
  <2>2. frame \in Frame
    BY <2>1, KeepaliveAssumption DEF TextFrames, Frame, ClocksInv, ClockTypes
  <2> QED
    BY <1>10, <2>1, <2>2, ArrivesClocksInv DEF ExchangeSends
<1>11. CASE ExchangeAnswers
  <2>1. AnswerToPing \in Frame /\ ShowsLife(AnswerToPing) /\ AnswerToPing # "item"
    BY DEF AnswerToPing, Frame, ShowsLife, KrakenFrames
  <2> QED
    BY <1>11, <2>1, ArrivesClocksInv DEF ExchangeAnswers
<1>12. CASE Tick
  BY <1>12, TickClocksInv
<1> QED
  BY <1>1, <1>2, <1>3, <1>4, <1>5, <1>6, <1>7, <1>8, <1>9, <1>10, <1>11, <1>12 DEF ClocksNext

LEMMA SpecClocksInv == ClocksSpec => []ClocksInv
BY InitClocksInv, NextClocksInv, PTL DEF ClocksSpec

\* For every interval: an exchange that answers each ping within one is never
\* taken for dead while the loop gets to its timers (the ping_sleep branch).
THEOREM KeepsLiveConnectionCorrect == ClocksSpec => []KeepsLiveConnection
<1>1. ClocksInv => KeepsLiveConnection
  BY DEF ClocksInv
<1> QED
  BY SpecClocksInv, <1>1, PTL

\* For every interval: without a sign of life the connection is left after
\* three intervals and what the loop was late (the ping_sleep branch).
THEOREM DeadIsNoticedCorrect == ClocksSpec => []DeadIsNoticed
<1>1. ClocksInv => DeadIsNoticed
  BY DEF ClocksInv
<1> QED
  BY SpecClocksInv, <1>1, PTL

\* For every silence time: silence found is silence of the exchange (the
\* silence_sleep branch and the resets before each send).
THEOREM SilenceIsRealCorrect == ClocksSpec => []SilenceIsReal
<1>1. ClocksInv => SilenceIsReal
  BY Durations DEF ClocksInv, ClockTypes, SilenceIsReal, SilenceDue, SilenceAccounted, ItemWaits
<1> QED
  BY SpecClocksInv, <1>1, PTL

(* ---- the backoff -------------------------------------------------------- *)

\* Induction over the first n numbers, with a set in place of a predicate.
LEMMA UpTo ==
    ASSUME NEW n \in Nat, NEW S, 0 \in S, \A i \in 0..n-1 : i \in S => i + 1 \in S
    PROVE  n \in S
<1> DEFINE T == {i \in 0..n : i \notin S}
<1> SUFFICES ASSUME n \notin S PROVE FALSE
  OBVIOUS
<1>1. T \subseteq Nat /\ T # {}
  OBVIOUS
<1>2. PICK x \in T : \A y \in T : <<y, x>> \notin OpToRel(<, Nat)
  BY <1>1, NatLessThanWellFounded, WFMin
<1>3. \A y \in T : ~(y < x)
  BY <1>1, <1>2 DEF OpToRel
<1>4. x # 0 /\ x - 1 \in 0..n-1 /\ x - 1 < x
  OBVIOUS
<1>5. x - 1 \notin T
  BY <1>3, <1>4
<1> QED
  BY <1>4, <1>5

\* p is what Power is, up to k.
PowersTo(p, k) == \A n \in 0..k : p[n] = IF n = 0 THEN 1 ELSE Multiplier * p[n - 1]

LEMMA PowersExist ==
    ASSUME NEW k \in Nat
    PROVE  \E p \in [0..k -> Nat \ {0}] : PowersTo(p, k)
<1> DEFINE S == {j \in 0..k : \E p \in [0..j -> Nat \ {0}] : PowersTo(p, j)}
<1>1. 0 \in S
  <2> DEFINE h == [n \in 0..0 |-> 1]
  <2>1. h \in [0..0 -> Nat \ {0}] /\ PowersTo(h, 0)
    BY DEF PowersTo
  <2> HIDE DEF h
  <2> QED BY <2>1
<1>2. ASSUME NEW j \in 0..k-1, j \in S PROVE j + 1 \in S
  <2>1. PICK p \in [0..j -> Nat \ {0}] : PowersTo(p, j)
    BY <1>2
  <2> DEFINE next == Multiplier * p[j]
             h == [n \in 0..j+1 |-> IF n = j + 1 THEN next ELSE p[n]]
  <2>2. next \in Nat \ {0}
    <3>1. p[j] \in Nat \ {0} /\ Multiplier \in Nat \ {0}
      BY KeepaliveAssumption
    <3>2. \A a, b \in Nat \ {0} : a * b \in Nat \ {0}
      OBVIOUS
    <3> QED BY <3>1, <3>2
  <2>3. /\ h \in [0..j+1 -> Nat \ {0}]
        /\ h[j + 1] = next
        /\ \A n \in 0..j : h[n] = p[n]
    <3> HIDE DEF next
    <3> QED BY <2>2
  <2> HIDE DEF h
  <2>4. ASSUME NEW n \in 0..j+1
        PROVE  h[n] = IF n = 0 THEN 1 ELSE Multiplier * h[n - 1]
    <3>1. CASE n = j + 1
      <4>1. n # 0 /\ n - 1 = j /\ h[n - 1] = p[j]
        BY <2>3, <3>1
      <4> QED BY <2>3, <3>1, <4>1
    <3>2. CASE n # j + 1
      <4>1. n \in 0..j /\ (n # 0 => n - 1 \in 0..j)
        BY <3>2
      <4> QED BY <2>1, <2>3, <4>1 DEF PowersTo
    <3> QED BY <3>1, <3>2
  <2>5. PowersTo(h, j + 1)
    BY <2>4 DEF PowersTo
  <2> QED BY <2>3, <2>5
<1>3. k \in S
  <2> HIDE DEF S
  <2> QED BY <1>1, <1>2, UpTo
<1> QED BY <1>3

LEMMA PowersUnique ==
    ASSUME NEW j \in Nat, NEW k \in Nat, j <= k, NEW p, NEW q,
           PowersTo(p, j), PowersTo(q, k)
    PROVE  p[j] = q[j]
<1> DEFINE S == {n \in 0..j : p[n] = q[n]}
<1>1. 0 \in S
  BY DEF PowersTo
<1>2. ASSUME NEW n \in 0..j-1, n \in S PROVE n + 1 \in S
  <2>1. /\ n + 1 \in 0..j /\ n + 1 \in 0..k /\ n + 1 # 0 /\ (n + 1) - 1 = n
    OBVIOUS
  <2>2. p[n + 1] = Multiplier * p[(n + 1) - 1] /\ q[n + 1] = Multiplier * q[(n + 1) - 1]
    BY <2>1 DEF PowersTo
  <2> QED BY <1>2, <2>1, <2>2
<1>3. j \in S
  <2> HIDE DEF S
  <2> QED BY <1>1, <1>2, UpTo
<1> QED BY <1>3

\* The recursion of Power is well founded, and its values grow from 1.
LEMMA PowerFacts ==
    /\ Power[0] = 1
    /\ \A n \in Nat : Power[n] \in Nat \ {0}
<1> DEFINE P(n) == CHOOSE p \in [0..n -> Nat \ {0}] : PowersTo(p, n)
           f == [n \in Nat |-> P(n)[n]]
<1>1. ASSUME NEW n \in Nat PROVE P(n) \in [0..n -> Nat \ {0}] /\ PowersTo(P(n), n)
  BY PowersExist
<1> HIDE DEF P
<1>2. \A n \in Nat : f[n] \in Nat \ {0}
  BY <1>1
<1>3. ASSUME NEW n \in Nat
      PROVE  f[n] = IF n = 0 THEN 1 ELSE Multiplier * f[n - 1]
  <2>1. CASE n = 0
    BY <1>1, <2>1 DEF PowersTo
  <2>2. CASE n # 0
    <3>1. n - 1 \in Nat /\ n - 1 <= n /\ n \in 0..n
      BY <2>2
    <3>2. P(n)[n] = Multiplier * P(n)[n - 1]
      BY <1>1, <2>2, <3>1 DEF PowersTo
    <3>3. P(n)[n - 1] = P(n - 1)[n - 1]
      BY <1>1, <3>1, PowersUnique
    <3> QED BY <2>2, <3>1, <3>2, <3>3
  <2> QED BY <2>1, <2>2
<1> HIDE DEF f
<1>4. f = [n \in Nat |-> IF n = 0 THEN 1 ELSE Multiplier * f[n - 1]]
  <2>1. f = [n \in Nat |-> f[n]]
    BY DEF f
  <2> QED BY <1>3, <2>1
<1>5. Power = [n \in Nat |-> IF n = 0 THEN 1 ELSE Multiplier * Power[n - 1]]
  BY <1>4 DEF Power
<1>6. ASSUME NEW n \in Nat PROVE Power[n] = f[n]
  <2>1. PowersTo(Power, n)
    <3> HIDE DEF Power
    <3> QED BY <1>5 DEF PowersTo
  <2>2. PowersTo(f, n)
    BY <1>3 DEF PowersTo
  <2> QED BY <2>1, <2>2, PowersUnique
<1>7. f[0] = 1
  BY <1>3
<1> QED BY <1>2, <1>6, <1>7

\* No delay is shorter than the first one, or than the cap (backoff_delay).
LEMMA DelaysLast ==
    ASSUME NEW failures \in Nat, NEW d \in Delays(failures)
    PROVE  d \in Nat /\ d >= Spacing
<1> DEFINE power == Power[failures]
<1>1. power \in Nat \ {0}
  BY PowerFacts
<1> HIDE DEF power
<1>2. InitialBackoff \in Nat /\ MaxBackoff \in Nat /\ Jitter \in Nat
  BY KeepaliveAssumption
<1>3. InitialBackoff * power \in Nat /\ InitialBackoff * power >= InitialBackoff
  <2>1. \A a \in Nat, b \in Nat \ {0} : a * b \in Nat /\ a * b >= a
    <3> TAKE a \in Nat, b \in Nat \ {0}
    <3>1. a * b = a + a * (b - 1) /\ b - 1 \in Nat
      OBVIOUS
    <3>2. a * (b - 1) \in Nat
      BY <3>1
    <3> QED BY <3>1, <3>2
  <2> QED BY <1>1, <1>2, <2>1
<1>4. Backoff(failures) = Least(InitialBackoff * power, MaxBackoff)
  BY DEF Backoff, power
<1>5. PICK j \in 0..Jitter : d = Backoff(failures) + j
  BY DEF Delays
<1>6. Backoff(failures) \in Nat /\ Backoff(failures) >= Spacing
  BY <1>2, <1>3, <1>4 DEF Least, Spacing
<1>7. Spacing \in Nat
  BY <1>2 DEF Least, Spacing
<1> HIDE DEF power
<1> QED BY <1>2, <1>5, <1>6, <1>7

\* What is left to wait and the time since the last dial make up the spacing.
Spaced == /\ attempts \in Nat /\ wait \in Nat /\ sinceDial \in Nat
          /\ phase = "waiting" => wait + sinceDial >= Spacing

\* A new delay begins, however long ago the last dial was.
LEMMA DelaySpaces ==
    ASSUME attempts' \in Nat, sinceDial' \in Nat, wait' \in Nat, wait' >= Spacing
    PROVE  Spaced'
<1>1. Spacing \in Nat /\ Spacing' = Spacing
  BY KeepaliveAssumption DEF Spacing, Least
<1>2. \A a, b, c \in Nat : a >= c => a + b >= c
  OBVIOUS
<1>3. wait' + sinceDial' >= Spacing
  BY <1>1, <1>2
<1> HIDE DEF Spacing
<1> QED BY <1>1, <1>3 DEF Spaced

LEMMA LeaveSpaced == ASSUME Spaced, Leave PROVE Spaced'
<1>1. wait' \in Nat /\ wait' >= Spacing
  BY DelaysLast DEF Leave
<1>2. attempts' \in Nat /\ sinceDial' \in Nat
  BY DEF Leave, Spaced
<1> QED BY <1>1, <1>2, DelaySpaces

LEMMA NextSpaced == Spaced /\ [ClocksNext]_clocks => Spaced'
<1> SUFFICES ASSUME Spaced, [ClocksNext]_clocks PROVE Spaced'
  OBVIOUS
<1> USE DEF Spaced
<1>1. Spacing \in Nat /\ Spacing' = Spacing
  BY KeepaliveAssumption DEF Spacing, Least
<1>2. CASE DialFails
  <2>1. wait' \in Nat /\ wait' >= Spacing
    BY <1>2, DelaysLast DEF DialFails
  <2>2. attempts' \in Nat /\ sinceDial' \in Nat
    BY <1>2 DEF DialFails
  <2> QED BY <2>1, <2>2, DelaySpaces
<1>3. CASE Connects
  BY <1>3 DEF Connects
<1>4. CASE ReadsClose \/ ReceiverGone \/ Raised \/ PingFails \/ SilenceLeaves
  BY <1>4, LeaveSpaced DEF ReadsClose, ReceiverGone, Raised, PingFails, SilenceLeaves
<1>5. CASE Tick
  <2>1. CASE phase = "waiting"
    <3>1. wait > 0 /\ wait' = wait - 1
      BY <1>5, <2>1 DEF Tick, Idle
    <3> QED BY <1>1, <1>5, <2>1, <3>1 DEF Tick, Least
  <2>2. CASE phase # "waiting"
    BY <1>1, <1>5, <2>2 DEF Tick, Least
  <2> QED BY <2>1, <2>2
<1>6. ASSUME UNCHANGED <<attempts, wait, sinceDial>>, phase' = "waiting" => phase = "waiting"
      PROVE  Spaced'
  BY <1>1, <1>6
<1>7. CASE Read \/ Sent \/ Fetched \/ PingTimesOut \/ Pings \/ SilenceReplaces
  BY <1>6, <1>7 DEF Read, Sent, Fetched, PingTimesOut, Pings, PingDue, SilenceReplaces
<1>8. CASE ExchangeSends \/ ExchangeAnswers \/ UNCHANGED clocks
  BY <1>6, <1>8 DEF ExchangeSends, ExchangeAnswers, clocks
<1> QED BY <1>2, <1>3, <1>4, <1>5, <1>7, <1>8 DEF ClocksNext

\* For every backoff, cap, jitter and whole multiplier of at least 1: two dials
\* are never closer than the smallest backoff, whatever ended the connection
\* between them (backoff_delay, the reset of attempt).
THEOREM DialsSpacedCorrect == ClocksSpec => []DialsSpaced
<1>1. ClocksInit => Spaced
  BY KeepaliveAssumption DEF ClocksInit, Spaced, Spacing, Least
<1>2. Spaced => DialsSpaced
  BY KeepaliveAssumption DEF Spaced, DialsSpaced
<1> QED BY <1>1, <1>2, NextSpaced, PTL DEF ClocksSpec
=============================================================================
