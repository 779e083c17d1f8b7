---------------------------- MODULE StrategyRound ----------------------------
(***************************************************************************)
(* The rounds of the schedulers over their strategies, with the bars they  *)
(* work on, while the session with the gateway comes and goes:             *)
(* src/src/polara/research_engine/scheduler.py, intraday_scheduler.py and  *)
(* confluent_scheduler.py, src/src/polara/market_data/service.py, store.py *)
(* and fetcher.py, composed with CPSession.                                *)
(*                                                                         *)
(* A confluent round first asks its long-term strategies for a bias.  The  *)
(* other two schedulers are the case without long-term strategies: the     *)
(* bias is neutral, which lets every signal pass.                          *)
(*                                                                         *)
(* The clock counts bars.  A bar is named by the time it starts at, as in  *)
(* the store; the bar of the present time is still forming.  An answer of  *)
(* the gateway is formed in one step and stored in a later one: bars may   *)
(* begin and other answers be stored between the two.                      *)
(***************************************************************************)
EXTENDS CPSession, Sequences, FiniteSets, Functions

CONSTANTS
    LongTerm,       \* strategies asked for the bias, in order
    Order,          \* strategies whose signals are handed over, in order
    Feed,           \* the symbol and bar size of a strategy
    Needs,          \* bars_needed of a strategy
    Covers,         \* bars that the period asked for it covers, _cp_period
    Strengths,      \* of signals, in hundredths
    MinBias,        \* min_bias_strength, in hundredths
    MaxAge,         \* MAX_BAR_AGE
    MaxDrift,       \* how long the gateway can stretch a part of a round
    Routed,         \* strategies whose bars the routes ask for
    MaxRouted,      \* answers on their way to routes at a time
    MaxClock

Strategies == {LongTerm[i] : i \in DOMAIN LongTerm} \cup {Order[i] : i \in DOMAIN Order}
Feeds == {Feed[s] : s \in Strategies}
Times == 0 .. MaxClock

ASSUME RoundAssumption ==
    /\ LongTerm \in Seq(Strategies) /\ Order \in Seq(Strategies)
    /\ Needs \in [Strategies -> Nat \ {0}] /\ Covers \in [Strategies -> Nat \ {0}]
    /\ Strengths \subseteq -100 .. 100 /\ MinBias \in 0 .. 100
    /\ MaxAge \in Nat /\ MaxDrift \in Nat /\ MaxClock \in Nat
    /\ Routed \subseteq Strategies /\ MaxRouted \in Nat

VARIABLES
    clock,      \* the present time
    traded,     \* the times at which the market was open: a bar starts at each
    stored,     \* the bars of a feed in the store, in the state they were last fetched in
    routed,     \* the answers on their way to routes
    round       \* the local state of the scheduler task

roundVars == <<vars, clock, traded, stored, routed, round>>

States == {"forming", "complete"}

\* An answer is known by the time it was formed at, as the past of the market
\* does not change.
AnswerType == [of : Strategies, at : Times]

\* now: the time the ages of bars are judged by; began: when this part of the
\* round began; votes: the strengths of the long-term signals; answer: what the
\* gateway answered to the present request, if it has.
AtRest(pc) == [pc |-> pc, at |-> 1, now |-> 0, began |-> 0, votes |-> << >>, signal |-> 0,
               answer |-> {}]
RoundType == [pc : {"none", "asleep", "bias", "fetch", "hand", "cancelled"}, at : Nat \ {0},
              now : Times, began : Times, votes : Seq(Strengths), signal : Strengths \cup {0},
              answer : SUBSET AnswerType]

RoundTypeOK ==
    /\ clock \in Times
    /\ traded \subseteq 0 .. clock
    /\ DOMAIN stored = Feeds
    /\ \A f \in Feeds : stored[f] \in [DOMAIN stored[f] -> States] /\ DOMAIN stored[f] \subseteq traded
    /\ routed \subseteq AnswerType /\ round \in RoundType
    /\ \A a \in round.answer \cup routed : a.at <= clock
    /\ round.now <= clock /\ round.began <= clock
    /\ (round.pc = "bias" => round.at <= Len(LongTerm) + 1)
    /\ (round.pc = "fetch" => round.at <= Len(Order) + 1)
    /\ (round.pc = "hand" => round.at <= Len(Order))

RoundInit ==
    /\ Init
    /\ clock = 0 /\ traded \in SUBSET {0}
    /\ stored = [f \in Feeds |-> << >>]
    /\ routed = {}
    /\ round = AtRest("none")

----------------------------------------------------------------------------
\* MarketDataService.get_bars.

\* The n latest of a set of times.
Newest(times, n) == {t \in times : Cardinality({u \in times : u > t}) < n}

\* A faulty variant of the next definition: bars outside the trading hours.
BarsAllHours(a) == Newest(0 .. a.at, Needs[a.of])

\* fetch_bars: the last bars of the period asked for, at most as many as needed.
Bars(a) == Newest(Newest({t \in traded : t <= a.at}, Covers[a.of]), Needs[a.of])

State(a, t) == IF t = a.at THEN "forming" ELSE "complete"

\* A faulty variant of the next definition: a bar that is there is not updated.
Inserted(bars, a) == [t \in DOMAIN bars \cup Bars(a) |->
    IF t \in DOMAIN bars THEN bars[t] ELSE State(a, t)]

\* upsert, which does not ask whether what is there is newer.
Upserted(bars, a) == [t \in DOMAIN bars \cup Bars(a) |->
    IF t \in Bars(a) THEN State(a, t) ELSE bars[t]]

Store(a) == stored' = [stored EXCEPT ![Feed[a.of]] = Upserted(@, a)]

\* The gateway answers to the request for the bars of s.
AnswerNow(s) == [of |-> s, at |-> clock]

\* The answer has come.
Fetched == \E a \in round.answer : Store(a)

\* A request raises: the cached bars will do.
Cached == Raises /\ UNCHANGED stored

GetBars == Fetched \/ Cached

\* query
Window(bars, s) == Newest(DOMAIN bars[Feed[s]], Needs[s])

----------------------------------------------------------------------------
\* A round.

\* A faulty variant of the next definition: strategies without a signal count.
OverAll(votes, sign) == votes # << >> /\ sign * SumFunction(votes) > MinBias * Len(LongTerm)

\* _compute_bias: the average strength of the signals is beyond the minimum.
Biased(votes, sign) == votes # << >> /\ sign * SumFunction(votes) > MinBias * Len(votes)

\* _apply_bias_filter
Passes(strength) ==
    /\ ~(Biased(round.votes, 1) /\ strength <= 0)
    /\ ~(Biased(round.votes, -1) /\ strength >= 0)

\* The strategies are gone through in turn.
NextOne == [round EXCEPT !.at = @ + 1, !.signal = 0, !.answer = {}]

\* A faulty variant of the next definition: the exception leaves the loop.
LeavesLoop == AtRest("asleep")

\* Whatever a strategy raises, the next one has its turn.
AfterRaise == NextOne

\* There are bars, and the latest is not too old for the time of the round.
Recent(bars, s) == \E t \in Window(bars, s) : round.now - t <= MaxAge

\* The scheduler is started after connect, whether that failed or not.
Launch ==
    /\ round.pc = "none" /\ phase \in {"running", "failed"}
    /\ round' = AtRest("asleep")
    /\ UNCHANGED <<vars, clock, traded, stored, routed>>

\* The task is cancelled at its await, before disconnect.
Cancel ==
    /\ round.pc \notin {"none", "cancelled"}
    /\ round' = AtRest("cancelled")
    /\ UNCHANGED <<vars, clock, traded, stored, routed>>

Begin ==
    /\ round.pc = "asleep"
    /\ round' = [AtRest("bias") EXCEPT !.now = clock, !.began = clock]
    /\ UNCHANGED <<vars, clock, traded, stored, routed>>

\* The answer to the request for the bars of s is formed; the task awaits it.
GatewayAnswers(s) ==
    /\ Answers /\ round.answer = {}
    /\ round' = [round EXCEPT !.answer = {AnswerNow(s)}]
    /\ UNCHANGED <<vars, clock, traded, stored, routed>>

\* A long-term strategy is asked.
Ask(s) ==
    /\ GetBars
    /\ IF ~Recent(stored', s) THEN round' = NextOne
       ELSE \/ round' \in {NextOne, AfterRaise}
            \/ \E v \in Strengths : round' = [NextOne EXCEPT !.votes = Append(@, v)]
    /\ UNCHANGED <<vars, clock, traded, routed>>

\* A faulty variant of the next definition: the time of the bias is kept.
BiasKeepsTime ==
    /\ round.pc = "bias" /\ round.at = Len(LongTerm) + 1
    /\ round' = [round EXCEPT !.pc = "fetch", !.at = 1, !.began = clock]
    /\ UNCHANGED <<vars, clock, traded, stored, routed>>

\* The bias is known, and the time is taken again.
BiasDone ==
    /\ round.pc = "bias" /\ round.at = Len(LongTerm) + 1
    /\ round' = [round EXCEPT !.pc = "fetch", !.at = 1, !.now = clock, !.began = clock]
    /\ UNCHANGED <<vars, clock, traded, stored, routed>>

\* on_bars is called, and its signal handed over if there is one and it passes.
Evaluate(s) ==
    /\ GetBars /\ Recent(stored', s)
    /\ \/ round' \in {NextOne, AfterRaise}
       \/ \E v \in Strengths :
            round' = IF Passes(v) THEN [round EXCEPT !.pc = "hand", !.signal = v, !.answer = {}]
                     ELSE NextOne
    /\ UNCHANGED <<vars, clock, traded, routed>>

\* There are no bars, or they are too old.
Skip(s) ==
    /\ GetBars /\ ~Recent(stored', s)
    /\ round' = NextOne
    /\ UNCHANGED <<vars, clock, traded, routed>>

\* process_signal returns, or raises what the round survives.
HandedOver ==
    /\ round.pc = "hand"
    /\ round' = [NextOne EXCEPT !.pc = "fetch"]
    /\ UNCHANGED <<vars, clock, traded, stored, routed>>

Finish ==
    /\ round.pc = "fetch" /\ round.at = Len(Order) + 1
    /\ round' = AtRest("asleep")
    /\ UNCHANGED <<vars, clock, traded, stored, routed>>

RoundStep ==
    \/ Launch \/ Begin \/ BiasDone \/ HandedOver \/ Finish
    \/ \E i \in DOMAIN LongTerm :
        /\ round.pc = "bias" /\ round.at = i
        /\ GatewayAnswers(LongTerm[i]) \/ Ask(LongTerm[i])
    \/ \E i \in DOMAIN Order :
        /\ round.pc = "fetch" /\ round.at = i
        /\ GatewayAnswers(Order[i]) \/ Evaluate(Order[i]) \/ Skip(Order[i])

----------------------------------------------------------------------------
\* What else goes on.

\* POST /strategy/run, validate and GET /market-data/bars fetch bars too.  What the
\* first does with a signal is in OrderManager; it does not look at their age.
AnsweredToRoute(s) ==
    /\ phase \in {"running", "failed"} /\ Answers
    /\ Cardinality(routed) < MaxRouted
    /\ routed' = routed \cup {AnswerNow(s)}
    /\ UNCHANGED <<vars, clock, traded, stored, round>>

FetchedByRoute(a) ==
    /\ phase \in {"running", "failed"}
    /\ Store(a)
    /\ routed' = routed \ {a}
    /\ UNCHANGED <<vars, clock, traded, round>>

\* A bar begins, if the market is open; a part of a round takes its time.
Tick ==
    /\ clock < MaxClock /\ clock' = clock + 1
    /\ (round.pc \in {"bias", "fetch", "hand"} => clock < round.began + MaxDrift)
    /\ traded' \in {traded, traded \cup {clock + 1}}
    /\ UNCHANGED <<vars, stored, routed, round>>

\* The session goes its way; disconnect comes after the scheduler has ended.
SessionStep ==
    /\ Next
    /\ (StopTask => round.pc = "cancelled")
    /\ UNCHANGED <<clock, traded, stored, routed, round>>

RoundNext ==
    \/ RoundStep \/ Cancel \/ Tick \/ SessionStep
    \/ \E s \in Routed : AnsweredToRoute(s)
    \/ \E a \in routed : FetchedByRoute(a)

\* Every sleep ends, and every request is answered or times out.
RoundFairness == Fairness /\ WF_roundVars(RoundStep)

RoundSpec == RoundInit /\ [][RoundNext]_roundVars /\ RoundFairness

----------------------------------------------------------------------------
\* Properties

\* No signal that rests on bars of long ago reaches the order manager, though
\* the bars may come from the cache, an outage may fall between any two steps,
\* and the age is judged by a time taken before the requests of the round.
FreshHandedOver ==
    round.pc = "hand" =>
        \E t \in Window(stored, Order[round.at]) : clock - t <= MaxAge + MaxDrift

\* A signal is not handed over against the long-term strategies of the same
\* round, when those that gave one agree and mean it.
BiasRespected == \A sign \in {-1, 1} :
    /\ round.pc = "hand" /\ round.votes # << >>
    /\ \A i \in DOMAIN round.votes : sign * round.votes[i] > MinBias
    => sign * round.signal > 0

\* The window once an answer is stored, as of when the answer was formed: no bar
\* of a time at which the market was open is missing, and all bars that had
\* ended by then are complete.
Whole(a) ==
    LET window == Window(stored, a.of)
    IN  /\ \A t \in window : t < a.at => stored[Feed[a.of]][t] = "complete"
        /\ \A t \in traded \ window : t <= a.at => \A u \in window : t < u

\* Whatever outages, half-formed bars and fetches of others left in the store,
\* and whatever was stored and began while the answer was on its way, whoever
\* gets an answer works on an unbroken window as of when it was formed, if the
\* period asked for covers it.  (It does not for 40 bars of 30 minutes, and the
\* bars from the cache can have gaps behind those that another strategy fetched.
\* Of the time after the answer was formed nothing is promised: the bar that was
\* forming stays so, and an answer that was overtaken takes what it has back to
\* what it was.)
WholeWindow == [][\A a \in (round.answer \ round.answer') \cup (routed \ routed') :
    Covers[a.of] >= Needs[a.of] /\ Store(a) => Whole(a)']_roundVars

\* A strategy is called with recent bars.
Evaluates(i) == round.pc = "fetch" /\ round.at = i /\ Evaluate(Order[i])

\* After an outage the program trades again: while the gateway stays ready, and
\* bars are recent, every strategy is evaluated again and again with the client
\* connected, though others raise whenever they are called.
Resumes == \A i \in DOMAIN Order :
    <>[](/\ phase = "running" /\ gateway = "ready" /\ round.pc # "cancelled"
         /\ \E t \in traded : clock - t <= MaxAge)
        => []<><<connected /\ Evaluates(i)>>_roundVars
=============================================================================
