------------------------ MODULE StrategyRound_proofs ------------------------
(***************************************************************************)
(* The rounds of the schedulers for every list of strategies, every period *)
(* and every age: they leave the session as it is on its own, and what     *)
(* they hand over is fresh.                                                *)
(***************************************************************************)
EXTENDS StrategyRound, FoldLemmas

----------------------------------------------------------------------------
\* The session on its own, for every pair of delays.

\* The first delay is within the bounds of all of them.
LEMMA FirstDelayType == FirstDelay \in FirstDelay .. MaxDelay
BY DelayAssumption

\* Doubling stays between the first delay and the cap.
LEMMA DelayType ==
    ASSUME NEW d \in FirstDelay .. MaxDelay
    PROVE  NextDelay(d) \in FirstDelay .. MaxDelay
BY DelayAssumption DEF NextDelay

\* Every variable keeps its type, and the delay its bounds.
THEOREM SessionType == Spec => []TypeOK
<1> USE DEF TypeOK, Phases, Keepalive, Reconnecting
<1>1. Init => TypeOK
  BY FirstDelayType DEF Init
<1>2. TypeOK /\ [Next]_vars => TypeOK'
  <2> SUFFICES ASSUME TypeOK, [Next]_vars PROVE TypeOK'
    OBVIOUS
  <2>1. CASE Start \/ Started \/ StartFails \/ StopTask \/ Closed \/ GatewayMoves
    BY <2>1 DEF Start, Started, StartFails, StopTask, Closed, GatewayMoves
  <2>2. CASE Tickle \/ Status \/ Reauthenticate \/ Reauthenticated \/ Lost
    BY <2>2, FirstDelayType DEF Tickle, Status, Reauthenticate, Reauthenticated, Lost
  <2>3. CASE ReauthenticateAgain \/ Reconnected
    BY <2>3 DEF ReauthenticateAgain, Reconnected
  <2>4. CASE AttemptFails
    BY <2>4, DelayType DEF AttemptFails
  <2>5. CASE UNCHANGED vars
    BY <2>5 DEF vars
  <2> QED BY <2>1, <2>2, <2>3, <2>4, <2>5 DEF Next, TaskStep
<1> QED BY <1>1, <1>2, PTL DEF Spec

\* There is a task exactly while the client runs, and the client connects only
\* in start and by its task.
SessionInv ==
    /\ ConnectedIsWatched
    /\ task # "none" <=> phase = "running"

\* The account id is never set while nothing would notice the loss of the
\* session.
THEOREM Watched == Spec => []ConnectedIsWatched
<1> USE DEF SessionInv, ConnectedIsWatched, Keepalive, Reconnecting
<1>1. Init => SessionInv
  BY DEF Init
<1>2. SessionInv /\ [Next]_vars => SessionInv'
  <2> SUFFICES ASSUME SessionInv, [Next]_vars PROVE SessionInv'
    OBVIOUS
  <2>1. CASE Start \/ Started \/ StartFails
    BY <2>1 DEF Start, Started, StartFails
  <2>2. CASE StopTask \/ Closed
    BY <2>2 DEF StopTask, Closed
  <2>3. CASE Tickle \/ Status \/ Reauthenticate
    BY <2>3 DEF Tickle, Status, Reauthenticate
  <2>4. CASE Reauthenticated \/ Lost
    BY <2>4 DEF Reauthenticated, Lost
  <2>5. CASE ReauthenticateAgain \/ Reconnected \/ AttemptFails
    BY <2>5 DEF ReauthenticateAgain, Reconnected, AttemptFails
  <2>6. CASE GatewayMoves \/ UNCHANGED vars
    BY <2>6 DEF GatewayMoves, vars
  <2> QED BY <2>1, <2>2, <2>3, <2>4, <2>5, <2>6 DEF Next, TaskStep
<1> QED BY <1>1, <1>2, PTL DEF Spec

----------------------------------------------------------------------------
\* The composition with the session.

\* Composed with the rounds of the schedulers, the store and the clock, the
\* session behaves as it does on its own: whatever is proved of it holds here.
THEOREM RoundKeepsSession == RoundSpec => Spec
<1>1. RoundInit => Init
  BY DEF RoundInit
<1>2. [RoundNext]_roundVars => [Next]_vars
  <2> SUFFICES ASSUME RoundNext \/ UNCHANGED roundVars PROVE Next \/ UNCHANGED vars
    OBVIOUS
  <2>1. CASE RoundStep
    BY <2>1 DEF RoundStep, Launch, Begin, BiasDone, HandedOver, Finish, GatewayAnswers, Ask,
                Evaluate, Skip
  <2>2. CASE Cancel \/ Tick
    BY <2>2 DEF Cancel, Tick
  <2>3. CASE SessionStep
    BY <2>3 DEF SessionStep
  <2>4. CASE (\E s \in Routed : AnsweredToRoute(s)) \/ (\E a \in routed : FetchedByRoute(a))
    BY <2>4 DEF AnsweredToRoute, FetchedByRoute
  <2>5. CASE UNCHANGED roundVars
    BY <2>5 DEF roundVars
  <2> QED BY <2>1, <2>2, <2>3, <2>4, <2>5 DEF RoundNext
<1> QED BY <1>1, <1>2, PTL DEF RoundSpec, RoundFairness, Spec

\* The account id is set only while a task watches the session, whatever the
\* schedulers and the shutdown of the application do.
THEOREM RoundWatched == RoundSpec => []ConnectedIsWatched
BY RoundKeepsSession, Watched, PTL

----------------------------------------------------------------------------
\* Types.

\* The strategies of the two lists are strategies with a feed.
LEMMA ListsType ==
    /\ \A i \in 1 .. Len(LongTerm) : LongTerm[i] \in Strategies
    /\ \A i \in 1 .. Len(Order) : Order[i] \in Strategies
    /\ \A s \in Strategies : Feed[s] \in Feeds
    /\ Len(LongTerm) \in Nat /\ Len(Order) \in Nat
BY RoundAssumption DEF Feeds

\* What the type of the round says of its fields.
LEMMA RoundFields ==
    ASSUME round \in RoundType
    PROVE  /\ round.at \in Nat \ {0} /\ round.now \in Times /\ round.began \in Times
           /\ NextOne \in RoundType
           /\ NextOne.at = round.at + 1 /\ NextOne.pc = round.pc /\ NextOne.answer = {}
           /\ NextOne.now = round.now /\ NextOne.began = round.began
<1> DEFINE Next1(n) == [round EXCEPT !.at = n, !.signal = 0, !.answer = {}]
<1>1. round.at + 1 \in Nat \ {0} /\ round.at \in Nat \ {0}
  BY DEF RoundType
<1>2. \A n \in Nat \ {0} : /\ Next1(n) \in RoundType
                           /\ Next1(n).at = n /\ Next1(n).answer = {}
                           /\ Next1(n).pc = round.pc
                           /\ Next1(n).now = round.now
                           /\ Next1(n).began = round.began
  BY DEF RoundType
<1>3. round.now \in Times /\ round.began \in Times
  BY DEF RoundType
<1>4. NextOne = Next1(round.at + 1)
  BY DEF NextOne
<1> HIDE DEF Next1
<1> QED BY <1>1, <1>2, <1>3, <1>4

\* An answer that comes changes nothing else of the round.
LEMMA AnswerComes ==
    ASSUME round \in RoundType, NEW s \in Strategies, clock \in Times,
           round' = [round EXCEPT !.answer = {AnswerNow(s)}]
    PROVE  /\ round' \in RoundType
           /\ round'.at = round.at /\ round'.pc = round.pc
           /\ round'.now = round.now /\ round'.began = round.began
           /\ round'.votes = round.votes /\ round'.signal = round.signal
           /\ round'.answer = {AnswerNow(s)} /\ AnswerNow(s).at = clock
<1>1. AnswerNow(s) \in AnswerType /\ AnswerNow(s).at = clock
  BY DEF AnswerNow, AnswerType
<1>2. {AnswerNow(s)} \in SUBSET AnswerType
  BY <1>1
<1>3. \A w \in SUBSET AnswerType : LET next == [round EXCEPT !.answer = w]
                                  IN /\ next \in RoundType
                                     /\ next.at = round.at /\ next.pc = round.pc
                                     /\ next.now = round.now /\ next.began = round.began
                                     /\ next.votes = round.votes /\ next.signal = round.signal
                                     /\ next.answer = w
  BY DEF RoundType
<1> QED BY <1>1, <1>2, <1>3

\* A task at rest has its type, and remembers no time.
LEMMA RestType ==
    ASSUME NEW pc \in {"none", "asleep", "bias", "fetch", "hand", "cancelled"}
    PROVE  /\ AtRest(pc) \in RoundType
           /\ AtRest(pc).pc = pc /\ AtRest(pc).at = 1 /\ AtRest(pc).answer = {}
           /\ AtRest(pc).now = 0 /\ AtRest(pc).began = 0
<1>1. 0 \in Times
  BY RoundAssumption DEF Times
<1> QED BY <1>1 DEF AtRest, RoundType

\* The part of the type invariant that is about the bars.
StoreOK ==
    /\ clock \in Times
    /\ traded \subseteq 0 .. clock
    /\ DOMAIN stored = Feeds
    /\ \A f \in Feeds : stored[f] \in [DOMAIN stored[f] -> States] /\ DOMAIN stored[f] \subseteq traded

\* What is on its way was formed by now.
AnswersOK ==
    /\ routed \subseteq AnswerType /\ round \in RoundType
    /\ \A a \in round.answer \cup routed : a.at <= clock

\* An answer holds bars of times at which the market was open, and storing it
\* keeps what there is.
LEMMA AnswerStored ==
    ASSUME StoreOK, NEW a \in AnswerType, Store(a)
    PROVE  /\ DOMAIN stored' = Feeds
           /\ \A f \in Feeds : /\ stored'[f] \in [DOMAIN stored'[f] -> States]
                               /\ DOMAIN stored'[f] \subseteq traded
                               /\ DOMAIN stored[f] \subseteq DOMAIN stored'[f]
<1> USE DEF StoreOK
<1> DEFINE f == Feed[a.of]
           new == Upserted(stored[f], a)
<1>1. f \in Feeds
  BY ListsType DEF AnswerType
<1>2. Bars(a) \subseteq traded
  BY DEF Bars, Newest
<1>3. \A t : State(a, t) \in States
  BY DEF State, States
<1>4. DOMAIN new = DOMAIN stored[f] \cup Bars(a)
  BY DEF Upserted
<1>5. new \in [DOMAIN new -> States]
  BY <1>1, <1>3 DEF Upserted
<1> HIDE DEF new
<1>6. stored' = [stored EXCEPT ![f] = new]
  BY DEF Store, new
<1> QED BY <1>1, <1>2, <1>4, <1>5, <1>6

\* The same for the fetch of the round, which may raise.
LEMMA BarsKept ==
    ASSUME StoreOK, AnswersOK, GetBars
    PROVE  /\ DOMAIN stored' = Feeds
           /\ \A f \in Feeds : /\ stored'[f] \in [DOMAIN stored'[f] -> States]
                               /\ DOMAIN stored'[f] \subseteq traded
                               /\ DOMAIN stored[f] \subseteq DOMAIN stored'[f]
<1>1. CASE Cached
  BY <1>1 DEF Cached, StoreOK
<1>2. CASE Fetched
  <2>1. PICK a \in round.answer : Store(a)
    BY <1>2 DEF Fetched
  <2>2. a \in AnswerType
    BY <2>1 DEF AnswersOK, RoundType
  <2> QED BY <2>1, <2>2, AnswerStored
<1> QED BY <1>1, <1>2 DEF GetBars

\* Every variable of the round keeps its type, and no time is in the future.
THEOREM RoundTypes == RoundSpec => []RoundTypeOK
<1>1. RoundInit => RoundTypeOK
  <2> SUFFICES ASSUME RoundInit PROVE RoundTypeOK
    OBVIOUS
  <2>1. 0 \in Times
    BY RoundAssumption DEF Times
  <2>2. \A f \in Feeds : stored[f] = << >>
    BY DEF RoundInit
  <2>3. DOMAIN << >> = {} /\ << >> \in [{} -> States]
    OBVIOUS
  <2> QED BY <2>1, <2>2, <2>3, RestType DEF RoundInit, RoundTypeOK
<1>2. RoundTypeOK /\ [RoundNext]_roundVars => RoundTypeOK'
  <2> SUFFICES ASSUME RoundTypeOK, [RoundNext]_roundVars PROVE RoundTypeOK'
    OBVIOUS
  <2> USE DEF RoundTypeOK
  <2>0. /\ StoreOK /\ AnswersOK /\ clock \in Nat /\ round \in RoundType
        /\ round.at \in Nat \ {0} /\ round.now \in Nat /\ round.began \in Nat
    BY RoundFields DEF StoreOK, AnswersOK, Times
  <2>1. CASE Launch \/ Cancel
    <3>1. /\ round' \in {AtRest("asleep"), AtRest("cancelled")}
          /\ UNCHANGED <<clock, traded, stored, routed>>
      BY <2>1 DEF Launch, Cancel
    <3> QED BY <2>0, <3>1, RestType
  <2>2. CASE Begin
    <3>1. round' = [AtRest("bias") EXCEPT !.now = clock, !.began = clock]
      BY <2>2 DEF Begin
    <3>2. /\ round' \in RoundType /\ round'.pc = "bias" /\ round'.at = 1
          /\ round'.now = clock /\ round'.began = clock /\ round'.answer = {}
      BY <3>1, RestType DEF RoundType, AtRest
    <3> QED BY <2>0, <2>2, <3>2, ListsType DEF Begin
  <2>3. CASE BiasDone
    <3>1. round' = [round EXCEPT !.pc = "fetch", !.at = 1, !.now = clock, !.began = clock]
      BY <2>3 DEF BiasDone
    <3>2. /\ round' \in RoundType /\ round'.pc = "fetch" /\ round'.at = 1
          /\ round'.now = clock /\ round'.began = clock /\ round'.answer = round.answer
      <4>1. clock \in Times
        OBVIOUS
      <4>2. round \in RoundType /\ 1 \in Nat \ {0}
        BY <2>0
      <4>3. /\ round'.pc = "fetch" /\ round'.at = 1 /\ round'.now = clock /\ round'.began = clock
            /\ round'.answer = round.answer /\ round' \in RoundType
        BY ONLY <3>1, <4>1, <4>2 DEF RoundType
      <4> QED BY <4>3
    <3> QED BY <2>0, <2>3, <3>2, ListsType DEF BiasDone
  <2>4. CASE HandedOver
    <3>1. round' = [NextOne EXCEPT !.pc = "fetch"] /\ round.pc = "hand"
      BY <2>4 DEF HandedOver
    <3>2. /\ round' \in RoundType /\ round'.pc = "fetch" /\ round'.at = round.at + 1
          /\ round'.now = round.now /\ round'.began = round.began /\ round'.answer = {}
      BY <3>1, RoundFields DEF RoundType
    <3> QED BY <2>0, <2>4, <3>1, <3>2, ListsType DEF HandedOver
  <2>5. CASE Finish
    BY <2>5, <2>0, RestType DEF Finish
  <2>6. ASSUME NEW i \in DOMAIN LongTerm, round.pc = "bias", round.at = i, Ask(LongTerm[i])
        PROVE  RoundTypeOK'
    <3>0. i \in 1 .. Len(LongTerm) /\ LongTerm[i] \in Strategies
      BY RoundAssumption, ListsType
    <3>1. StoreOK' /\ UNCHANGED <<clock, traded, routed>>
      BY <2>0, <2>6, BarsKept DEF Ask, StoreOK
    <3>2. round' = NextOne \/ \E v \in Strengths : round' = [NextOne EXCEPT !.votes = Append(@, v)]
      BY <2>6 DEF Ask, AfterRaise
    <3>3. \A v \in Strengths : /\ [NextOne EXCEPT !.votes = Append(@, v)] \in RoundType
                               /\ [NextOne EXCEPT !.votes = Append(@, v)].at = round.at + 1
                               /\ [NextOne EXCEPT !.votes = Append(@, v)].pc = round.pc
                               /\ [NextOne EXCEPT !.votes = Append(@, v)].now = round.now
                               /\ [NextOne EXCEPT !.votes = Append(@, v)].began = round.began
                               /\ [NextOne EXCEPT !.votes = Append(@, v)].answer = {}
      <4>1. /\ NextOne \in RoundType
            /\ NextOne.at = round.at + 1 /\ NextOne.pc = round.pc
            /\ NextOne.now = round.now /\ NextOne.began = round.began /\ NextOne.answer = {}
        BY <2>0, RoundFields
      <4>2. \A v \in Strengths : Append(NextOne.votes, v) \in Seq(Strengths)
        BY <4>1 DEF RoundType
      <4>3. \A w \in Seq(Strengths) : /\ [NextOne EXCEPT !.votes = w] \in RoundType
                                      /\ [NextOne EXCEPT !.votes = w].at = NextOne.at
                                      /\ [NextOne EXCEPT !.votes = w].pc = NextOne.pc
                                      /\ [NextOne EXCEPT !.votes = w].now = NextOne.now
                                      /\ [NextOne EXCEPT !.votes = w].began = NextOne.began
                                      /\ [NextOne EXCEPT !.votes = w].answer = NextOne.answer
        BY ONLY <4>1 DEF RoundType
      <4> QED BY ONLY <4>1, <4>2, <4>3
    <3>4. /\ round' \in RoundType /\ round'.at = i + 1 /\ round'.pc = "bias"
          /\ round'.now = round.now /\ round'.began = round.began /\ round'.answer = {}
      BY <2>0, <2>6, <3>2, <3>3, RoundFields
    <3> QED BY <2>0, <3>0, <3>1, <3>4, ListsType DEF StoreOK
  <2>7. ASSUME NEW i \in DOMAIN Order, round.pc = "fetch", round.at = i,
               Evaluate(Order[i]) \/ Skip(Order[i])
        PROVE  RoundTypeOK'
    <3>0. i \in 1 .. Len(Order) /\ Order[i] \in Strategies
      BY RoundAssumption, ListsType
    <3>1. StoreOK' /\ UNCHANGED <<clock, traded, routed>>
      BY <2>0, <2>7, BarsKept DEF Evaluate, Skip, StoreOK
    <3>2. \/ round' = NextOne
          \/ \E v \in Strengths : round' = [round EXCEPT !.pc = "hand", !.signal = v, !.answer = {}]
      BY <2>7 DEF Evaluate, Skip, AfterRaise
    <3>3. \A v \in Strengths : LET next == [round EXCEPT !.pc = "hand", !.signal = v, !.answer = {}]
                               IN /\ next \in RoundType
                                  /\ next.at = round.at /\ next.pc = "hand"
                                  /\ next.now = round.now /\ next.began = round.began
                                  /\ next.answer = {}
      BY <2>0 DEF RoundType
    <3>4. /\ round' \in RoundType
          /\ round'.now = round.now /\ round'.began = round.began /\ round'.answer = {}
          /\ \/ round'.at = i + 1 /\ round'.pc = "fetch"
             \/ round'.at = i /\ round'.pc = "hand"
      BY <2>0, <2>7, <3>2, <3>3, RoundFields
    <3> QED BY <2>0, <3>0, <3>1, <3>4, ListsType DEF StoreOK
  <2>8. CASE Tick
    <3>1. clock' \in Times /\ clock <= clock' /\ traded' \subseteq 0 .. clock' /\ traded \subseteq traded'
      BY <2>8, <2>0, RoundAssumption DEF Tick, Times
    <3>2. UNCHANGED <<stored, routed, round>> /\ clock \in Nat /\ clock' \in Nat
      BY <2>8, <2>0, <3>1 DEF Tick, Times
    <3>3. \A a \in round'.answer \cup routed' : a.at <= clock'
      <4> TAKE a \in round'.answer \cup routed'
      <4>1. a \in AnswerType /\ a.at <= clock
        BY <2>0, <3>2 DEF RoundType
      <4>2. a.at \in Nat
        BY <4>1 DEF AnswerType, Times
      <4> QED BY <3>1, <3>2, <4>1, <4>2
    <3>4. round'.now <= clock' /\ round'.began <= clock'
      <4>1. round.now \in Nat /\ round.began \in Nat
        BY <2>0 DEF RoundType, Times
      <4> QED BY <2>0, <3>1, <3>2, <4>1
    <3>5. StoreOK'
      BY <2>0, <3>1, <3>2 DEF StoreOK
    <3> HIDE <2>8
    <3> QED BY <2>0, <3>1, <3>2, <3>3, <3>4, <3>5
  <2>9. ASSUME NEW a \in routed, FetchedByRoute(a) PROVE RoundTypeOK'
    BY <2>0, <2>9, AnswerStored DEF FetchedByRoute
  <2>10. ASSUME NEW s \in Strategies, AnsweredToRoute(s) PROVE RoundTypeOK'
    <3>1. AnswerNow(s) \in AnswerType /\ AnswerNow(s).at = clock
      BY DEF AnswerNow, AnswerType
    <3>2. routed' = routed \cup {AnswerNow(s)} /\ UNCHANGED <<clock, traded, stored, round>>
      BY <2>10 DEF AnsweredToRoute
    <3> QED BY <2>0, <3>1, <3>2
  <2>11. ASSUME NEW s \in Strategies, GatewayAnswers(s) PROVE RoundTypeOK'
    <3>1. UNCHANGED <<clock, traded, stored, routed>>
      BY <2>11 DEF GatewayAnswers
    <3>2. /\ round' \in RoundType /\ round'.at = round.at /\ round'.pc = round.pc
          /\ round'.now = round.now /\ round'.began = round.began
          /\ \A a \in round'.answer : a.at = clock
      BY <2>0, <2>11, AnswerComes DEF GatewayAnswers
    <3> QED BY <2>0, <3>1, <3>2
  <2>12. CASE SessionStep \/ UNCHANGED roundVars
    BY <2>12 DEF SessionStep, roundVars
  <2>13. CASE RoundStep
    BY <2>1, <2>2, <2>3, <2>4, <2>5, <2>6, <2>7, <2>11, <2>13, ListsType, RoundAssumption
    DEF RoundStep
  <2> QED BY <2>1, <2>8, <2>9, <2>10, <2>12, <2>13, RoundAssumption DEF RoundNext
<1> QED BY <1>1, <1>2, PTL DEF RoundSpec

----------------------------------------------------------------------------
\* Freshness.

\* A non-empty set of times that are not in the future has a latest one.
LEMMA LatestTime ==
    ASSUME NEW c \in Nat, NEW times \in SUBSET (0 .. c), times # {}
    PROVE  \E m \in times : \A t \in times : t <= m
<1> DEFINE ages == {c - t : t \in times}
<1>1. \A t \in times : t \in Nat /\ c - t \in Nat
  OBVIOUS
<1>2. ages \subseteq Nat /\ ages # {}
  BY <1>1
<1> HIDE DEF ages
<1>3. \E age \in ages : \A other \in ages : <<other, age>> \notin OpToRel(<, Nat)
  BY <1>2, NatLessThanWellFounded, WFMin
<1>4. \A x, y \in Nat : x < y => <<x, y>> \in OpToRel(<, Nat)
  BY Zenon DEF OpToRel
<1>5. PICK age \in ages : \A other \in ages : ~(other < age)
  BY <1>2, <1>3, <1>4
<1>6. PICK m \in times : age = c - m
  BY DEF ages
<1>7. \A t \in times : ~(c - t < c - m)
  BY <1>5, <1>6 DEF ages
<1>8. \A t \in times : t <= m
  BY <1>1, <1>7
<1> QED BY <1>8

\* The latest of some times is among the n newest, for any n above 0.
LEMMA LatestIsNewest ==
    ASSUME NEW times \in SUBSET Nat, NEW n \in Nat \ {0}, NEW m \in times,
           \A t \in times : t <= m
    PROVE  m \in Newest(times, n)
<1>1. \A u \in times : ~(u > m)
  OBVIOUS
<1>2. Cardinality({u \in times : u > m}) = 0
  BY <1>1, FS_EmptySet
<1>3. 0 < n
  OBVIOUS
<1> QED BY <1>2, <1>3 DEF Newest

\* What FreshHandedOver needs: a part of a round does not outlast MaxDrift, its
\* ages are judged by the time it began, and the bars a signal rests on stay.
Timely ==
    /\ round.pc \in {"bias", "fetch", "hand"} =>
        round.now = round.began /\ clock <= round.began + MaxDrift
    /\ round.pc = "hand" =>
        \E t \in DOMAIN stored[Feed[Order[round.at]]] : round.now - t <= MaxAge

\* No signal that rests on bars of long ago reaches the order manager.
THEOREM HandedOverFresh == RoundSpec => []FreshHandedOver
<1>1. RoundInit => Timely
  BY RestType DEF RoundInit, Timely
<1>2. RoundTypeOK /\ RoundTypeOK' /\ Timely /\ [RoundNext]_roundVars => Timely'
  <2> SUFFICES ASSUME RoundTypeOK, RoundTypeOK', Timely, [RoundNext]_roundVars PROVE Timely'
    OBVIOUS
  <2> USE DEF Timely
  <2>0. /\ StoreOK /\ AnswersOK /\ clock \in Nat /\ round \in RoundType /\ MaxDrift \in Nat
        /\ round.at \in Nat \ {0} /\ round.now \in Nat /\ round.began \in Nat
    BY RoundFields, RoundAssumption DEF StoreOK, AnswersOK, Times, RoundTypeOK
  <2>1. CASE Launch \/ Cancel \/ Finish
    BY <2>1, RestType DEF Launch, Cancel, Finish
  <2>2. CASE Begin \/ BiasDone
    <3>1. /\ round'.pc \in {"bias", "fetch"} /\ round'.now = clock /\ round'.began = clock
          /\ clock' = clock
      BY <2>0, <2>2 DEF Begin, BiasDone, AtRest, RoundType
    <3> QED BY <2>0, <3>1
  <2>3. CASE HandedOver
    <3>1. /\ round'.pc = "fetch" /\ round'.now = round.now /\ round'.began = round.began
          /\ clock' = clock /\ round.pc = "hand"
      BY <2>0, <2>3, RoundFields DEF HandedOver, RoundType, NextOne
    <3> QED BY <3>1
  <2>4. ASSUME NEW i \in DOMAIN LongTerm, round.pc = "bias", round.at = i, Ask(LongTerm[i])
        PROVE  Timely'
    <3>1. round' = NextOne \/ \E v \in Strengths : round' = [NextOne EXCEPT !.votes = Append(@, v)]
      BY <2>4 DEF Ask, AfterRaise
    <3>2. round'.pc = "bias" /\ round'.now = round.now /\ round'.began = round.began
      BY <2>0, <2>4, <3>1 DEF RoundType, NextOne
    <3> QED BY <2>4, <3>2 DEF Ask
  <2>5. ASSUME NEW i \in DOMAIN Order, round.pc = "fetch", round.at = i,
               Evaluate(Order[i]) \/ Skip(Order[i])
        PROVE  Timely'
    <3>0. Order[i] \in Strategies /\ i = round.at
      BY <2>5, ListsType, RoundAssumption
    <3>1. CASE round' = NextOne
      <4>1. round'.pc = "fetch" /\ round'.now = round.now /\ round'.began = round.began
        BY <2>0, <2>5, <3>1, RoundFields
      <4> QED BY <2>5, <4>1 DEF Evaluate, Skip
    <3>2. ASSUME NEW v \in Strengths,
                 round' = [round EXCEPT !.pc = "hand", !.signal = v, !.answer = {}],
                 Evaluate(Order[i])
          PROVE  Timely'
      <4>1. /\ round'.pc = "hand" /\ round'.now = round.now /\ round'.began = round.began
            /\ round'.at = i
        BY <2>0, <2>5, <3>2 DEF RoundType
      <4>2. PICK t \in Window(stored', Order[i]) : round.now - t <= MaxAge
        BY <3>2 DEF Evaluate, Recent
      <4>3. t \in DOMAIN stored'[Feed[Order[i]]]
        BY <4>2 DEF Window, Newest
      <4> QED BY <2>5, <3>2, <4>1, <4>2, <4>3 DEF Evaluate
    <3> QED BY <2>5, <3>1, <3>2 DEF Evaluate, Skip, AfterRaise
  <2>6. CASE Tick
    <3>1. round' = round /\ stored' = stored /\ clock' = clock + 1
      BY <2>6 DEF Tick
    <3>2. round.pc \in {"bias", "fetch", "hand"} => clock < round.began + MaxDrift
      BY <2>6 DEF Tick
    <3> QED BY <2>0, <3>1, <3>2
  <2>7. ASSUME NEW a \in routed, FetchedByRoute(a) PROVE Timely'
    <3>1. round' = round /\ clock' = clock
      BY <2>7 DEF FetchedByRoute
    <3>2. \A f \in Feeds : DOMAIN stored[f] \subseteq DOMAIN stored'[f]
      BY <2>0, <2>7, AnswerStored DEF FetchedByRoute, AnswersOK
    <3>3. round.pc = "hand" => Feed[Order[round.at]] \in Feeds
      BY <2>0, ListsType DEF RoundTypeOK
    <3> QED BY <3>1, <3>2, <3>3
  <2>8. ASSUME NEW s \in Strategies, GatewayAnswers(s) PROVE Timely'
    <3>1. UNCHANGED <<clock, stored>>
      BY <2>8 DEF GatewayAnswers
    <3>2. /\ round'.at = round.at /\ round'.pc = round.pc
          /\ round'.now = round.now /\ round'.began = round.began
      BY <2>0, <2>8, AnswerComes DEF GatewayAnswers, StoreOK
    <3> QED BY <3>1, <3>2
  <2>9. CASE SessionStep \/ UNCHANGED roundVars
    BY <2>9 DEF SessionStep, roundVars
  <2>10. CASE \E s \in Routed : AnsweredToRoute(s)
    BY <2>10 DEF AnsweredToRoute
  <2>11. CASE RoundStep
    BY <2>1, <2>2, <2>3, <2>4, <2>5, <2>8, <2>11, ListsType, RoundAssumption DEF RoundStep
  <2> QED BY <2>1, <2>6, <2>7, <2>9, <2>10, <2>11 DEF RoundNext
<1>3. RoundTypeOK /\ Timely => FreshHandedOver
  <2> SUFFICES ASSUME RoundTypeOK, Timely, round.pc = "hand"
               PROVE  \E t \in Window(stored, Order[round.at]) : clock - t <= MaxAge + MaxDrift
    BY DEF FreshHandedOver
  <2>0. /\ clock \in Nat /\ round.at \in 1 .. Len(Order) /\ round.now \in Nat /\ MaxDrift \in Nat
        /\ MaxAge \in Nat /\ Order[round.at] \in Strategies
        /\ Feed[Order[round.at]] \in Feeds /\ Needs[Order[round.at]] \in Nat \ {0}
    <3>1. clock \in Nat /\ MaxDrift \in Nat /\ MaxAge \in Nat /\ round.now \in Nat
      BY RoundFields, RoundAssumption DEF RoundTypeOK, Times
    <3>2. round.at \in 1 .. Len(Order)
      BY RoundFields, ListsType DEF RoundTypeOK
    <3>3. Order[round.at] \in Strategies /\ Feed[Order[round.at]] \in Feeds
      BY <3>2, ListsType
    <3> QED BY <3>1, <3>2, <3>3, RoundAssumption
  <2> DEFINE times == DOMAIN stored[Feed[Order[round.at]]]
  <2>1. times \subseteq 0 .. clock
    BY <2>0 DEF RoundTypeOK
  <2>2. PICK t \in times : round.now - t <= MaxAge
    BY DEF Timely
  <2>3. PICK m \in times : \A u \in times : u <= m
    BY <2>0, <2>1, <2>2, LatestTime
  <2>4. m \in Window(stored, Order[round.at])
    BY <2>0, <2>1, <2>3, LatestIsNewest DEF Window
  <2>5. t \in Nat /\ m \in Nat /\ t <= m
    BY <2>1, <2>2, <2>3
  <2>6. clock <= round.now + MaxDrift
    BY DEF Timely
  <2>7. clock - m <= MaxAge + MaxDrift
    BY <2>0, <2>2, <2>5, <2>6
  <2> QED BY <2>4, <2>7
<1> QED BY <1>1, <1>2, <1>3, RoundTypes, PTL DEF RoundSpec

----------------------------------------------------------------------------
\* The window of the store.

\* The times up to now are finite in number.
LEMMA FiniteTimes ==
    ASSUME NEW c \in Nat, NEW T \in SUBSET (0 .. c)
    PROVE  T \in SUBSET Nat /\ IsFiniteSet(T)
<1> DEFINE D == 0 .. c
<1>1. IsFiniteSet(D) /\ T \in SUBSET D
  BY FS_Interval
<1>2. IsFiniteSet(T)
  <2> HIDE DEF D
  <2> QED BY <1>1, FS_Subset
<1> QED BY <1>2

\* Whoever is later than one of the newest times is one of them.
LEMMA NewestUpward ==
    ASSUME NEW T, T \in SUBSET Nat, IsFiniteSet(T), NEW n \in Nat,
           NEW u \in Newest(T, n), NEW t \in T, u <= t
    PROVE  t \in Newest(T, n)
<1> DEFINE after(x) == {y \in T : y > x}
<1>0. u \in Nat /\ t \in Nat /\ \A y \in T : y \in Nat
  BY DEF Newest
<1>1. after(t) \subseteq after(u) /\ after(u) \subseteq T
  <2>1. \A y \in T : y > t => y > u
    BY <1>0
  <2> QED BY <2>1
<1>2. /\ Cardinality(after(t)) <= Cardinality(after(u))
      /\ Cardinality(after(t)) \in Nat /\ Cardinality(after(u)) \in Nat
  <2> HIDE DEF after
  <2> QED BY <1>1, FS_Subset, FS_CardinalityType
<1>3. Cardinality(after(u)) < n
  BY DEF Newest
<1>4. Cardinality(after(t)) < n
  BY <1>2, <1>3
<1> QED BY <1>4 DEF Newest

\* The newest of the newest of more are the newest.
LEMMA NewestOfNewest ==
    ASSUME NEW T, T \in SUBSET Nat, IsFiniteSet(T), NEW n \in Nat, NEW c \in Nat, n <= c
    PROVE  Newest(Newest(T, c), n) = Newest(T, n)
<1> DEFINE B == Newest(T, c)
<1>1. B \subseteq T
  BY DEF Newest
<1>2. ASSUME NEW t \in B PROVE {u \in B : u > t} = {u \in T : u > t}
  <2>1. ASSUME NEW u \in T, u > t PROVE u \in B
    <3>1. t \in Nat /\ u \in Nat /\ t \in Newest(T, c)
      BY <1>1
    <3>2. t <= u
      BY <2>1, <3>1
    <3> QED BY <3>1, <3>2, NewestUpward
  <2> QED BY <1>1, <2>1
<1>3. \A t \in T : Cardinality({u \in T : u > t}) \in Nat
  <2> TAKE t \in T
  <2>1. {u \in T : u > t} \subseteq T
    OBVIOUS
  <2> QED BY <2>1, FS_Subset, FS_CardinalityType
<1>4. ASSUME NEW t \in T PROVE t \in Newest(B, n) <=> t \in Newest(T, n)
  <2> DEFINE later == Cardinality({u \in T : u > t})
  <2>1. later \in Nat
    BY <1>3
  <2>2. t \in B <=> later < c
    BY DEF Newest
  <2>3. t \in Newest(B, n) <=> t \in B /\ Cardinality({u \in B : u > t}) < n
    BY DEF Newest
  <2>4. t \in Newest(B, n) <=> t \in B /\ later < n
    BY <1>2, <2>3
  <2>5. t \in Newest(T, n) <=> later < n
    BY DEF Newest
  <2> HIDE DEF later
  <2> QED BY <2>1, <2>2, <2>4, <2>5
<1>5. Newest(B, n) \subseteq T /\ Newest(T, n) \subseteq T
  BY <1>1 DEF Newest
<1> QED BY <1>4, <1>5

\* The newest times are the newest of any times they are among.
LEMMA NewestKept ==
    ASSUME NEW c \in Nat, NEW T \in SUBSET (0 .. c), NEW n \in Nat \ {0},
           NEW S \in SUBSET T, Newest(T, n) \subseteq S
    PROVE  Newest(S, n) = Newest(T, n)
<1> DEFINE A == Newest(T, n)
<1>1. T \in SUBSET Nat /\ IsFiniteSet(T) /\ n \in Nat
  BY FiniteTimes
<1>2. \A u \in A, t \in T : t \notin A => t < u
  <2> TAKE u \in A, t \in T
  <2>1. u \in Nat /\ t \in Nat
    BY <1>1 DEF Newest
  <2>2. u <= t => t \in A
    BY <1>1, NewestUpward
  <2> QED BY <2>1, <2>2
<1>3. \A R \in SUBSET T : IsFiniteSet(R) /\ Cardinality(R) \in Nat
  BY <1>1, FS_Subset, FS_CardinalityType
<1>4. ASSUME NEW t \in A PROVE t \in Newest(S, n)
  <2>1. \A u \in T : u > t => u \in S
    <3> TAKE u \in T
    <3>1. u \in Nat /\ t \in Nat
      BY <1>1 DEF Newest
    <3>2. u \notin A => ~(u > t)
      BY <1>2, <3>1
    <3> QED BY <3>2
  <2>2. {u \in S : u > t} = {u \in T : u > t}
    BY <2>1
  <2> QED BY <2>2 DEF Newest
<1>5. ASSUME NEW t \in Newest(S, n), t \notin A PROVE FALSE
  <2>1. t \in T \ A /\ t \in S
    BY <1>5 DEF Newest
  <2>2. A \subseteq {u \in S : u > t} /\ {u \in S : u > t} \subseteq T
    <3>1. \A u \in A : t < u /\ u \in S /\ u \in Nat /\ t \in Nat
      BY <1>1, <1>2, <2>1 DEF Newest
    <3>2. \A u \in A : u > t
      BY <3>1
    <3> QED BY <3>1, <3>2
  <2>3. Cardinality({u \in S : u > t}) < n
    BY DEF Newest
  <2>4. Cardinality(A) < n /\ IsFiniteSet(A)
    <3> DEFINE R == {u \in S : u > t}
    <3>1. IsFiniteSet(R) /\ Cardinality(R) \in Nat /\ A \subseteq R /\ A \in SUBSET T
      BY <1>3, <2>2
    <3>2. Cardinality(A) \in Nat /\ IsFiniteSet(A)
      BY <1>3, <3>1
    <3>3. Cardinality(R) < n
      BY <2>3
    <3> HIDE DEF R
    <3>4. Cardinality(A) <= Cardinality(R)
      BY <3>1, FS_Subset
    <3> QED BY <3>1, <3>2, <3>3, <3>4
  <2>5. PICK m \in T \ A : \A x \in T \ A : x <= m
    <3>1. T \ A \in SUBSET (0 .. c) /\ T \ A # {}
      BY <2>1
    <3> QED BY <3>1, LatestTime
  <2>6. {u \in T : u > m} \subseteq A
    <3>1. ASSUME NEW u \in T, u > m PROVE u \in A
      <4>1. u \in Nat /\ m \in Nat /\ ~(u <= m)
        BY <1>1, <2>5, <3>1
      <4> QED BY <2>5, <4>1
    <3> QED BY <3>1
  <2>7. Cardinality({u \in T : u > m}) < n
    <3> DEFINE R == {u \in T : u > m}
    <3>1. R \in SUBSET T /\ A \in SUBSET T /\ R \subseteq A
      BY <2>6 DEF Newest
    <3>2. Cardinality(R) \in Nat /\ Cardinality(A) \in Nat
      BY <1>3, <3>1
    <3> HIDE DEF R
    <3>3. Cardinality(R) <= Cardinality(A)
      BY <2>4, <3>1, FS_Subset
    <3>4. Cardinality(R) < n
      BY <2>4, <3>2, <3>3
    <3> QED BY <3>4 DEF R
  <2>8. m \in A
    BY <2>5, <2>7 DEF Newest
  <2> QED BY <2>5, <2>8
<1>6. Newest(S, n) \subseteq A
  BY <1>5
<1> QED BY <1>4, <1>6

\* The newest of a store that an answer was put into.  T are the times of the
\* market, at is when the answer A was formed and D is what was there before: of
\* the times up to then, the newest hold only those of the answer, and leave out
\* only such as are before all of them.
LEMMA NewestOfStore ==
    ASSUME NEW c \in Nat, NEW T \in SUBSET (0 .. c), NEW at \in Nat, NEW n \in Nat \ {0},
           NEW D \in SUBSET T, NEW A, A = Newest({t \in T : t <= at}, n)
    PROVE  /\ \A t \in Newest(D \cup A, n) : t <= at => t \in A
           /\ \A t \in T \ Newest(D \cup A, n) : t <= at =>
                \A u \in Newest(D \cup A, n) : t < u
<1> DEFINE past == {t \in T : t <= at}
           N == D \cup A
           S == {t \in N : t <= at}
<1>1. past \in SUBSET (0 .. c) /\ A \subseteq past
  BY DEF Newest
<1>2. N \in SUBSET (0 .. c) /\ N \subseteq T /\ S \subseteq past /\ A \subseteq S
  BY <1>1
<1>3. /\ N \in SUBSET Nat /\ IsFiniteSet(N) /\ past \in SUBSET Nat /\ IsFiniteSet(past)
      /\ n \in Nat
  BY <1>1, <1>2, FiniteTimes
<1>4. A = Newest(past, n)
  OBVIOUS
<1> HIDE DEF past
<1>5. Newest(S, n) = A
  <2>1. S \in SUBSET past /\ Newest(past, n) \subseteq S
    BY <1>2, <1>4
  <2> HIDE DEF S
  <2> QED BY <1>1, <1>4, <2>1, NewestKept
<1>6. ASSUME NEW t \in Newest(N, n), t <= at PROVE t \in A
  <2> DEFINE later == {u \in N : u > t}
             laterS == {u \in S : u > t}
  <2>1. t \in N /\ Cardinality(later) < n
    BY DEF Newest
  <2>2. t \in S
    BY <1>6, <2>1
  <2>3. laterS \subseteq later /\ later \subseteq N
    OBVIOUS
  <2>4. /\ Cardinality(laterS) <= Cardinality(later)
        /\ Cardinality(laterS) \in Nat /\ Cardinality(later) \in Nat
    <3> HIDE DEF later, laterS, N
    <3> QED BY <1>3, <2>3, FS_Subset, FS_CardinalityType
  <2>5. Cardinality(laterS) < n
    <3> HIDE DEF later, laterS
    <3> QED BY <1>3, <2>1, <2>4
  <2>6. t \in Newest(S, n)
    BY <2>2, <2>5 DEF Newest
  <2> QED BY <1>5, <2>6
<1>7. ASSUME NEW t \in T \ Newest(N, n), t <= at, NEW u \in Newest(N, n) PROVE t < u
  <2> HIDE DEF N
  <2>1. u \in N /\ u \in Nat /\ t \in Nat
    BY <1>3, <1>7 DEF Newest
  <2>2. ASSUME u <= t PROVE FALSE
    <3>1. u \in A
      BY <1>6, <1>7, <2>1, <2>2
    <3>2. t \in past
      BY <1>7 DEF past
    <3>3. t \in A
      <4> HIDE DEF S
      <4>1. u \in Newest(past, n)
        BY <1>4, <3>1
      <4>2. t \in Newest(past, n)
        BY <1>3, <2>1, <2>2, <3>2, <4>1, NewestUpward
      <4> QED BY <1>4, <4>2
    <3>4. t \in N
      BY <3>3 DEF N
    <3>5. t \in Newest(N, n)
      BY <1>3, <2>2, <3>4, NewestUpward
    <3> QED BY <3>5
  <2> QED BY <2>1, <2>2
<1> QED BY <1>6, <1>7

\* Whoever gets an answer sees an unbroken window as of when it was formed, if
\* the period asked for covers it, however late the answer comes.
THEOREM WindowIsWhole == RoundSpec => WholeWindow
<1>1. ASSUME RoundTypeOK, [RoundNext]_roundVars, NEW a \in round.answer \cup routed,
             Covers[a.of] >= Needs[a.of], Store(a)
      PROVE  Whole(a)'
  <2> DEFINE s == a.of
             past == {t \in traded : t <= a.at}
             A == Bars(a)
             D == DOMAIN stored[Feed[s]]
  <2>0. /\ a \in AnswerType /\ s \in Strategies /\ a.at \in Nat /\ a.at <= clock
        /\ clock \in Nat /\ Needs[s] \in Nat \ {0} /\ Covers[s] \in Nat /\ Feed[s] \in Feeds
        /\ Needs[s] \in Nat /\ Needs[s] <= Covers[s]
    <3>1. a \in AnswerType /\ a.at <= clock /\ clock \in Nat
      BY <1>1 DEF RoundTypeOK, RoundType, Times
    <3>2. s \in Strategies /\ a.at \in Nat
      BY <3>1 DEF AnswerType, Times
    <3> QED BY <1>1, <3>1, <3>2, RoundAssumption, ListsType
  <2>1. traded \in SUBSET (0 .. clock) /\ D \in SUBSET traded /\ past \in SUBSET (0 .. clock)
    BY <1>1, <2>0 DEF RoundTypeOK
  <2>2. past \in SUBSET Nat /\ IsFiniteSet(past)
    BY <2>0, <2>1, FiniteTimes
  <2>3. A = Newest(past, Needs[s])
    <3> HIDE DEF past
    <3>1. Newest(Newest(past, Covers[s]), Needs[s]) = Newest(past, Needs[s])
      BY <2>0, <2>2, NewestOfNewest
    <3> QED BY <3>1 DEF Bars, past
  <2>4. ASSUME NEW t \in traded', t <= a.at PROVE t \in traded
    <3>1. CASE Tick
      BY <2>0, <2>4, <3>1 DEF Tick
    <3>2. CASE RoundStep
      BY <2>4, <3>2 DEF RoundStep, Launch, Begin, BiasDone, HandedOver, Finish, GatewayAnswers, Ask,
                        Evaluate, Skip
    <3>3. CASE Cancel \/ SessionStep \/ UNCHANGED roundVars
      BY <2>4, <3>3 DEF Cancel, SessionStep, roundVars
    <3>4. CASE (\E r \in Routed : AnsweredToRoute(r)) \/ (\E b \in routed : FetchedByRoute(b))
      BY <2>4, <3>4 DEF AnsweredToRoute, FetchedByRoute
    <3> QED BY <1>1, <3>1, <3>2, <3>3, <3>4 DEF RoundNext
  <2>5. stored'[Feed[s]] = Upserted(stored[Feed[s]], a)
    BY <1>1, <2>0 DEF Store, RoundTypeOK
  <2>6. /\ DOMAIN stored'[Feed[s]] = D \cup A
        /\ \A t \in A : stored'[Feed[s]][t] = State(a, t)
    BY <2>5 DEF Upserted
  <2> DEFINE W == Newest(D \cup A, Needs[s])
  <2>7. Window(stored', s) = W
    BY <2>6 DEF Window
  <2>8. /\ \A t \in W : t <= a.at => t \in A
        /\ \A t \in traded \ W : t <= a.at => \A u \in W : t < u
    <3> DEFINE at == a.at
               n == Needs[s]
    <3>1. /\ clock \in Nat /\ traded \in SUBSET (0 .. clock) /\ at \in Nat /\ n \in Nat \ {0}
          /\ D \in SUBSET traded /\ A = Newest({t \in traded : t <= at}, n)
      BY <2>0, <2>1, <2>3
    <3> HIDE DEF A, D, at, n, s
    <3>2. /\ \A t \in Newest(D \cup A, n) : t <= at => t \in A
          /\ \A t \in traded \ Newest(D \cup A, n) : t <= at =>
                \A u \in Newest(D \cup A, n) : t < u
      BY <3>1, NewestOfStore
    <3> QED BY <3>2 DEF at, n
  <2>9. \A t \in W : t \in Nat
    <3>1. A \subseteq Nat /\ D \subseteq Nat
      <4> HIDE DEF A, D, past
      <4>1. A \subseteq Nat
        BY <2>2, <2>3 DEF Newest
      <4>2. 0 .. clock \subseteq Nat
        BY <2>0
      <4> QED BY <2>1, <4>1, <4>2
    <3> HIDE DEF A, D
    <3> QED BY <3>1 DEF Newest
  <2> HIDE DEF A, D, W
  <2>10. \A t \in W : t < a.at => stored'[Feed[s]][t] = "complete"
    <3> TAKE t \in W
    <3> HAVE t < a.at
    <3>1. t \in Nat
      BY <2>9
    <3>2. t <= a.at /\ t # a.at
      BY <2>0, <3>1
    <3>3. t \in A
      BY <2>8, <3>2
    <3> QED BY <2>6, <3>2, <3>3 DEF State
  <2>11. \A t \in traded' \ W : t <= a.at => \A u \in W : t < u
    BY <2>4, <2>8
  <2> QED BY <2>7, <2>10, <2>11 DEF Whole
<1>2. RoundTypeOK /\ [RoundNext]_roundVars
        => [\A a \in (round.answer \ round.answer') \cup (routed \ routed') :
                Covers[a.of] >= Needs[a.of] /\ Store(a) => Whole(a)']_roundVars
  BY <1>1
<1> QED BY <1>2, RoundTypes, PTL DEF RoundSpec, WholeWindow

----------------------------------------------------------------------------
\* The direction of the market.

\* A sum of votes that are all beyond m, in one direction, is beyond m times their
\* number, whatever the order they are added in.
LEMMA VotesSum ==
    ASSUME NEW v \in Seq(Int), v # << >>, NEW m \in Int, NEW sign \in {-1, 1},
           \A i \in 1 .. Len(v) : sign * v[i] > m
    PROVE  SumFunction(v) \in Int /\ sign * SumFunction(v) > m * Len(v)
<1> DEFINE D == 1 .. Len(v)
           Any(s) == CHOOSE x \in s : TRUE
           Rec(f) == f = [s \in SUBSET D |->
                            IF s = {} THEN 0 ELSE v[Any(s)] + f[s \ {Any(s)}]]
           h == CHOOSE f : Rec(f)
           pick == [s \in SUBSET D |-> Any(s)]
           step == [i \in D |-> [a \in Int |-> v[i] + a]]
<1>0. /\ DOMAIN v = D /\ \A i \in D : v[i] \in Int
      /\ IsFiniteSet(D) /\ Cardinality(D) = Len(v) /\ D # {}
  <2>1. Len(v) \in Nat /\ Len(v) # 0
    OBVIOUS
  <2>2. IsFiniteSet(D) /\ Cardinality(D) = Len(v)
    BY <2>1, FS_Interval
  <2>3. 1 \in D
    BY <2>1
  <2> QED BY <2>2, <2>3
<1>1. SumFunction(v) = h[D]
  BY <1>0, Zenon DEF SumFunction, SumFunctionOnSet, FoldFunctionOnSet, MapThenFoldSet
<1>2. \A i \in D : sign * v[i] > m
  OBVIOUS
<1>3. \A s \in SUBSET D : s # {} => Any(s) \in s
  OBVIOUS
<1> HIDE DEF D, Any
<1>4. StepsIn(step, D, Int)
  BY <1>0 DEF StepsIn
<1>5. Picks(pick, D)
  BY <1>3 DEF Picks
<1>6. PICK g : IsFold(g, D, Int, 0, pick, step)
  <2> HIDE DEF step, pick
  <2>1. 0 \in Int
    OBVIOUS
  <2> QED BY <1>0, <1>4, <1>5, <2>1, FoldExists, Zenon
<1>7. \E f : Rec(f)
  <2> DEFINE f == [s \in SUBSET D |-> g[s]]
  <2>1. ASSUME NEW s \in SUBSET D, s # {}
        PROVE  f[s] = v[Any(s)] + f[s \ {Any(s)}]
    <3>1. Any(s) \in D /\ s \ {Any(s)} \in SUBSET D
      BY <1>3, <2>1
    <3>2. g[s] = step[Any(s)][g[s \ {Any(s)}]] /\ g[s \ {Any(s)}] \in Int
      BY <1>6, <2>1, <3>1 DEF IsFold
    <3> QED BY <3>1, <3>2
  <2>2. f[{}] = 0
    BY <1>6 DEF IsFold
  <2>3. Rec(f)
    BY <2>1, <2>2
  <2> HIDE DEF Rec, f
  <2> QED BY <2>3
<1>8. Rec(h)
  <2> HIDE DEF Rec
  <2> QED BY <1>7
<1>9. \A s \in SUBSET D : h[s] = IF s = {} THEN 0 ELSE v[Any(s)] + h[s \ {Any(s)}]
  <2> HIDE DEF h
  <2> QED BY <1>8, Zenon
<1> HIDE DEF h
<1> DEFINE P == {s \in SUBSET D : /\ h[s] \in Int
                                  /\ s # {} => sign * h[s] > m * Cardinality(s)}
<1>10. {} \in P
  <2>1. {} \in SUBSET D
    OBVIOUS
  <2>2. h[{}] = 0
    BY <1>9, <2>1
  <2> QED BY <2>1, <2>2
<1>11. ASSUME NEW s \in SUBSET D, s # {} PROVE s \ {pick[s]} \in P => s \in P
  <2> DEFINE x == Any(s)
             r == s \ {x}
  <2>1. x \in s /\ x \in D /\ r \in SUBSET D
    BY <1>3, <1>11
  <2>2. h[s] = v[x] + h[r]
    BY <1>9, <1>11
  <2> HIDE DEF x
  <2> SUFFICES ASSUME r \in P PROVE s \in P
    BY <1>11 DEF x
  <2>3. v[x] \in Int /\ h[r] \in Int /\ sign * v[x] > m
    BY <1>0, <1>2, <2>1
  <2>4. h[s] \in Int /\ sign * h[s] = sign * v[x] + sign * h[r]
    BY <2>2, <2>3
  <2>5. /\ Cardinality(s) \in Nat /\ Cardinality(r) \in Nat
        /\ Cardinality(r) = Cardinality(s) - 1
        /\ r = {} => Cardinality(r) = 0
    BY <1>0, <2>1, FS_Subset, FS_CardinalityType, FS_RemoveElement, FS_EmptySet
  <2>6. m * Cardinality(s) = m + m * Cardinality(r)
    <3> DEFINE k == Cardinality(r)
    <3>1. k \in Nat /\ Cardinality(s) = k + 1
      BY <2>5
    <3> HIDE DEF k
    <3>2. m * (k + 1) = m + m * k
      BY <3>1
    <3> QED BY <3>1, <3>2 DEF k
  <2>7. sign * h[r] >= m * Cardinality(r)
    <3>1. CASE r = {}
      <4>1. h[r] = 0 /\ Cardinality(r) = 0
        BY <1>9, <2>5, <3>1
      <4> QED BY <4>1
    <3>2. CASE r # {}
      <4>1. sign * h[r] > m * Cardinality(r)
        BY <3>2
      <4> DEFINE a == sign * h[r]
                 b == m * Cardinality(r)
      <4>2. a \in Int /\ b \in Int
        BY <2>3, <2>5
      <4> HIDE DEF a, b
      <4>3. a > b => a >= b
        BY <4>2
      <4> QED BY <4>1, <4>3 DEF a, b
    <3> QED BY <3>1, <3>2
  <2>8. sign * h[s] > m * Cardinality(s)
    <3> DEFINE a == sign * v[x]
               b == sign * h[r]
               c == m * Cardinality(r)
    <3>0. sign \in Int /\ Cardinality(r) \in Int
      BY <2>5
    <3>1. a \in Int /\ b \in Int /\ c \in Int
      BY <2>3, <3>0
    <3>3. a > m /\ b >= c
      BY <2>3, <2>7
    <3>2. sign * h[s] = a + b /\ m * Cardinality(s) = m + c
      BY <2>4, <2>6
    <3> HIDE DEF a, b, c
    <3> QED BY <3>1, <3>2, <3>3
  <2> QED BY <2>4, <2>8
<1>12. \A s \in SUBSET D : s \in P
  <2> HIDE DEF P, pick
  <2>1. \A s \in SUBSET D : s # {} /\ s \ {pick[s]} \in P => s \in P
    BY <1>11
  <2>2. IsFiniteSet(D)
    BY <1>0
  <2> QED BY <1>5, <1>10, <2>1, <2>2, AllSubsets, Zenon
<1>13. D \in P
  BY <1>12
<1> QED BY <1>0, <1>1, <1>13

\* What BiasRespected needs: a signal that is being handed over has passed the
\* bias of the votes of the same round.
Passed == round.pc = "hand" => Passes(round.signal) /\ round.signal \in Strengths

\* No signal is handed over against long-term strategies that agree.
THEOREM BiasKept == RoundSpec => []BiasRespected
<1>1. RoundInit => Passed
  BY RestType DEF RoundInit, Passed
<1>2. RoundTypeOK /\ Passed /\ [RoundNext]_roundVars => Passed'
  <2> SUFFICES ASSUME RoundTypeOK, Passed, [RoundNext]_roundVars PROVE Passed'
    OBVIOUS
  <2> USE DEF Passed
  <2>0. round \in RoundType
    BY DEF RoundTypeOK
  <2>1. CASE Launch \/ Cancel \/ Finish
    BY <2>1, RestType DEF Launch, Cancel, Finish
  <2>2. CASE Begin \/ BiasDone
    <3>1. round'.pc \in {"bias", "fetch"}
      BY <2>0, <2>2 DEF Begin, BiasDone, AtRest, RoundType
    <3> QED BY <3>1
  <2>3. CASE HandedOver
    <3>1. round'.pc = "fetch"
      BY <2>0, <2>3, RoundFields DEF HandedOver, RoundType, NextOne
    <3> QED BY <3>1
  <2>4. ASSUME NEW i \in DOMAIN LongTerm, round.pc = "bias", Ask(LongTerm[i])
        PROVE  Passed'
    <3>1. round' = NextOne \/ \E v \in Strengths : round' = [NextOne EXCEPT !.votes = Append(@, v)]
      BY <2>4 DEF Ask, AfterRaise
    <3>2. round'.pc = "bias"
      BY <2>0, <2>4, <3>1 DEF RoundType, NextOne
    <3> QED BY <3>2
  <2>5. ASSUME NEW i \in DOMAIN Order, round.pc = "fetch", Evaluate(Order[i]) \/ Skip(Order[i])
        PROVE  Passed'
    <3>1. CASE round' = NextOne
      BY <2>0, <2>5, <3>1, RoundFields
    <3>2. ASSUME NEW v \in Strengths,
                 round' = [round EXCEPT !.pc = "hand", !.signal = v, !.answer = {}],
                 Passes(v)
          PROVE  Passed'
      <4>1. round'.signal = v /\ round'.votes = round.votes
        BY <2>0, <3>2 DEF RoundType
      <4> QED BY <3>2, <4>1 DEF Passes, Biased
    <3> QED BY <2>5, <3>1, <3>2 DEF Evaluate, Skip, AfterRaise
  <2>6. CASE Tick \/ SessionStep \/ UNCHANGED roundVars
    BY <2>6 DEF Tick, SessionStep, roundVars, Passes, Biased
  <2>7. CASE (\E s \in Routed : AnsweredToRoute(s)) \/ (\E a \in routed : FetchedByRoute(a))
    BY <2>7 DEF AnsweredToRoute, FetchedByRoute, Passes, Biased
  <2>8. ASSUME NEW s \in Strategies, GatewayAnswers(s) PROVE Passed'
    <3>1. /\ round'.pc = round.pc /\ round'.votes = round.votes /\ round'.signal = round.signal
      BY <2>0, <2>8, AnswerComes DEF GatewayAnswers, RoundTypeOK
    <3> QED BY <3>1 DEF Passes, Biased
  <2>9. CASE RoundStep
    BY <2>1, <2>2, <2>3, <2>4, <2>5, <2>8, <2>9, ListsType, RoundAssumption DEF RoundStep
  <2> QED BY <2>1, <2>6, <2>7, <2>9 DEF RoundNext
<1>3. RoundTypeOK /\ Passed => BiasRespected
  <2> SUFFICES ASSUME RoundTypeOK, Passed, NEW sign \in {-1, 1}, round.pc = "hand",
                      round.votes # << >>, \A i \in DOMAIN round.votes : sign * round.votes[i] > MinBias
               PROVE  sign * round.signal > 0
    BY DEF BiasRespected
  <2>1. round.votes \in Seq(Strengths) /\ round.signal \in Strengths
    BY DEF RoundTypeOK, RoundType, Passed
  <2>2. round.votes \in Seq(Int) /\ round.signal \in Int /\ MinBias \in Int
    <3>1. Strengths \subseteq Int /\ MinBias \in Int
      BY RoundAssumption
    <3>3. round.votes \in Seq(Int)
      BY <2>1, <3>1, SeqOfMore, Zenon
    <3>4. round.signal \in Int
      BY <2>1, <3>1
    <3> QED BY <3>1, <3>3, <3>4
  <2>3. sign * SumFunction(round.votes) > MinBias * Len(round.votes)
    <3> DEFINE v == round.votes
    <3>1. v \in Seq(Int) /\ v # << >> /\ \A i \in 1 .. Len(v) : sign * v[i] > MinBias
      BY <2>2
    <3> HIDE DEF v
    <3>2. sign * SumFunction(v) > MinBias * Len(v)
      BY <2>2, <3>1, VotesSum
    <3> QED BY <3>2 DEF v
  <2>4. Biased(round.votes, sign)
    BY <2>3 DEF Biased
  <2> QED BY <2>2, <2>4 DEF Passed, Passes
<1> QED BY <1>1, <1>2, <1>3, RoundTypes, PTL DEF RoundSpec
=============================================================================
