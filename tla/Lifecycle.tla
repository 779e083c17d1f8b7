------------------------------ MODULE Lifecycle ------------------------------
(***************************************************************************)
(* The life of the registered strategies: how they are validated, promoted *)
(* and demoted by requests (src/src/polara/api/routes/strategy.py with     *)
(* research_engine/promotion.py, status_service.py and                     *)
(* backtester/service.py), how the calibration task tunes the parameters   *)
(* of the same objects (calibration/engine.py, scheduler.py, service.py),  *)
(* and what a restart leaves of both (api/main.py).                        *)
(*                                                                         *)
(* A request is a task of the event loop; its steps end at its awaits.     *)
(* The calibration of one strategy runs in a worker thread, so its writes  *)
(* to the fields of a strategy are steps of their own.                     *)
(***************************************************************************)
EXTENDS Integers, Sequences, FiniteSets, SequencesExt

CONSTANTS
    Lists,          \* the ids each loop of _lifespan registers, in turn
    Requests,       \* requests that may be under way at once
    Fields,         \* the parameters a strategy's PARAM_GRID names
    Values,
    Default,        \* the parameters a strategy is created with
    Grid,           \* the combinations of PARAM_GRID
    Raising,        \* strategies whose candidates may raise what is not a ValueError
    Found,          \* what the table of strategies may hold at the first start
    Asked           \* the strategies that requests are made for

\* The registered strategies, in the order of the registry.
Order == FlattenSeq(Lists)

Strategies == {Order[i] : i \in DOMAIN Order}
Combos == [Fields -> Values]

\* No id is registered twice, or the start fails: as with a symbol in two of the
\* lists of Bollinger bands, whose ids are the same.
ASSUME LifecycleAssumption ==
    /\ Order \in Seq(Strategies)
    /\ \A i, j \in DOMAIN Order : Order[i] = Order[j] => i = j
    /\ Fields # {} /\ Default \in Combos /\ Grid \subseteq Combos
    /\ Raising \subseteq Strategies /\ Asked \subseteq Strategies
    /\ Found \subseteq [Strategies -> {"none", "inactive", "paper", "paused"}]

VARIABLES
    up,         \* the process runs and has started
    status,     \* the status column of strategies, "none" without a row
    results,    \* the rows of backtest_results, as pairs of strategy and verdict
    params,     \* the fields of the live strategy objects
    request,    \* the local state of each request
    calib,      \* the local state of the calibration task
    stopped     \* strategies demoted for good: a history variable

vars == <<up, status, results, params, request, calib, stopped>>

StatusValues == {"none", "inactive", "paper", "paused", "live"}
Ops == {"promote", "demote", "validate"}
Idle == [op |-> "none", strategy |-> "none", pc |-> "idle", passed |-> FALSE]
RequestType == {Idle} \cup [op : Ops, strategy : Strategies,
                             pc : {"asked", "passing", "granted", "tested"}, passed : BOOLEAN]

\* at: the strategy under calibration; left: the fields still to be set;
\* done: the results that are not saved yet.  (What is saved is read by nothing.)
Asleep == [pc |-> "asleep", at |-> 1, best |-> Default, left |-> {}, done |-> {}]
Ended == [Asleep EXCEPT !.pc = "ended"]
Row(s, p) == [strategy |-> s, best |-> p]
CalibType == [pc : {"ended", "asleep", "tuning", "applying", "saving"}, at : Nat \ {0},
              best : Combos, left : SUBSET Fields, done : SUBSET [strategy : Strategies, best : Combos]]

TypeOK ==
    /\ up \in BOOLEAN
    /\ status \in [Strategies -> StatusValues]
    /\ (up => \A s \in Strategies : status[s] # "none")
    /\ results \subseteq [strategy : Strategies, passed : BOOLEAN]
    /\ params \in [Strategies -> Combos]
    /\ request \in [Requests -> RequestType]
    /\ calib \in CalibType
    /\ (calib.pc \in {"tuning", "applying"} => calib.at <= Len(Order) + 1)
    /\ (calib.pc = "applying" => calib.at <= Len(Order))
    /\ stopped \subseteq Strategies

Init ==
    /\ up = FALSE
    /\ status \in Found
    /\ results = {}
    /\ params = [s \in Strategies |-> Default]
    /\ request = [r \in Requests |-> Idle]
    /\ calib = Ended
    /\ stopped = {}

----------------------------------------------------------------------------
\* Start and stop of the process.

\* Faulty variants of the next definition: no row is made, the row is
\* overwritten, and a strategy that passed goes live again.
LeftOut(s) == status[s]
Overwritten(s) == "paper"
Restored(s) == IF [strategy |-> s, passed |-> TRUE] \in results THEN "live" ELSE "paper"

\* ensure_registered
Registered(s) == IF status[s] = "none" THEN "paper" ELSE status[s]

\* Each strategy is created anew and gets its row, and the tasks start.
Startup ==
    /\ ~up /\ up' = TRUE
    /\ status' = [s \in Strategies |-> Registered(s)]
    /\ calib' = Asleep
    /\ UNCHANGED <<results, params, request, stopped>>

\* The tasks and the objects are gone, by a shutdown or a crash; the tables stay.
Stop ==
    /\ up /\ up' = FALSE
    /\ params' = [s \in Strategies |-> Default]
    /\ request' = [r \in Requests |-> Idle]
    /\ calib' = Ended
    /\ UNCHANGED <<status, results, stopped>>

----------------------------------------------------------------------------
\* Requests.

At(r, op, pc) == up /\ request[r].op = op /\ request[r].pc = pc
Of(r) == request[r].strategy
Reply(r) == request' = [request EXCEPT ![r] = Idle]
GoOn(r, pc) == request' = [request EXCEPT ![r].pc = pc]

Promoting(s) == \E r \in Requests : request[r].op = "promote" /\ Of(r) = s

\* A request arrives for a registered strategy.
Ask(r, op, s) ==
    /\ up /\ request[r].pc = "idle"
    /\ request' = [request EXCEPT ![r] =
                    [op |-> op, strategy |-> s, pc |-> "asked", passed |-> FALSE]]
    /\ stopped' = IF op = "promote" THEN stopped \ {s} ELSE stopped
    /\ UNCHANGED <<up, status, results, params, calib>>

others == <<up, params, calib>>

\* A faulty variant of the next definition: any result will do.
HasResult(s) == \E passed \in BOOLEAN : [strategy |-> s, passed |-> passed] \in results

HasPassing(s) == [strategy |-> s, passed |-> TRUE] \in results

\* promote: a backtest has passed, or 409.
CheckResult(r) ==
    /\ At(r, "promote", "asked")
    /\ IF HasPassing(Of(r)) THEN GoOn(r, "passing") ELSE Reply(r)
    /\ UNCHANGED <<others, status, results, stopped>>

\* promote and demote: the status is the one expected, or 409.
CheckStatus(r) ==
    /\ \/ /\ At(r, "promote", "passing")
          /\ IF status[Of(r)] \in {"paper", "paused"} THEN GoOn(r, "granted") ELSE Reply(r)
       \/ /\ At(r, "demote", "asked")
          /\ IF status[Of(r)] = "live" THEN GoOn(r, "granted") ELSE Reply(r)
    /\ UNCHANGED <<others, status, results, stopped>>

SetLive(r) ==
    /\ At(r, "promote", "granted")
    /\ status' = [status EXCEPT ![Of(r)] = "live"]
    /\ Reply(r)
    /\ UNCHANGED <<others, results, stopped>>

\* A demotion holds unless a promotion that is under way overwrites it.
SetPaper(r) ==
    /\ At(r, "demote", "granted")
    /\ status' = [status EXCEPT ![Of(r)] = "paper"]
    /\ stopped' = IF Promoting(Of(r)) THEN stopped ELSE stopped \cup {Of(r)}
    /\ Reply(r)
    /\ UNCHANGED <<others, results>>

\* validate: the backtest ends with a verdict, or with 422 for want of bars.
Backtested(r) ==
    /\ At(r, "validate", "asked")
    /\ \/ \E passed \in BOOLEAN :
            request' = [request EXCEPT ![r].pc = "tested", ![r].passed = passed]
       \/ Reply(r)
    /\ UNCHANGED <<others, status, results, stopped>>

SaveResult(r) ==
    /\ At(r, "validate", "tested")
    /\ results' = results \cup {[strategy |-> Of(r), passed |-> request[r].passed]}
    /\ Reply(r)
    /\ UNCHANGED <<others, status, stopped>>

\* The database fails: 500.
RequestFails(r) ==
    /\ up /\ request[r].pc # "idle"
    /\ Reply(r)
    /\ UNCHANGED <<others, status, results, stopped>>

Request(r) ==
    \/ \E op \in Ops, s \in Asked : Ask(r, op, s)
    \/ CheckResult(r) \/ CheckStatus(r) \/ SetLive(r) \/ SetPaper(r)
    \/ Backtested(r) \/ SaveResult(r) \/ RequestFails(r)

----------------------------------------------------------------------------
\* The calibration task.

unrelated == <<up, status, results, request, stopped>>
Current == Order[calib.at]

Wake ==
    /\ up /\ calib.pc = "asleep"
    /\ calib' = [Asleep EXCEPT !.pc = "tuning"]
    /\ UNCHANGED <<unrelated, params>>

\* _run_backtest finds too few bars: no result.
Skip ==
    /\ calib.pc = "tuning" /\ calib.at <= Len(Order)
    /\ calib' = [calib EXCEPT !.at = @ + 1]
    /\ UNCHANGED <<unrelated, params>>

\* _tune_parameters: copies of the strategy are backtested with every
\* combination; the best is one of them, or what the strategy has.
Tune ==
    /\ calib.pc = "tuning" /\ calib.at <= Len(Order)
    /\ \E best \in Grid \cup {params[Current]} :
        calib' = [calib EXCEPT !.pc = "applying", !.best = best, !.left = Fields]
    /\ UNCHANGED <<unrelated, params>>

\* A faulty variant of the next definition: the strategy itself was tuned.
RaisesInPlace ==
    /\ calib.pc = "tuning" /\ calib.at <= Len(Order) /\ Current \in Raising
    /\ calib' = Asleep
    /\ \E p \in Grid, f \in Fields : params' = [params EXCEPT ![Current][f] = p[f]]
    /\ UNCHANGED unrelated

\* A faulty variant of the next definition: the exception ends the task.
RaisesForGood ==
    /\ calib.pc = "tuning" /\ calib.at <= Len(Order) /\ Current \in Raising
    /\ calib' = Ended
    /\ UNCHANGED <<unrelated, params>>

\* A candidate raises: a field that is None keeps the grid's string, and
\* arithmetic with it is a TypeError.  The round ends, with what it has done.
Raises ==
    /\ calib.pc = "tuning" /\ calib.at <= Len(Order) /\ Current \in Raising
    /\ calib' = Asleep
    /\ UNCHANGED <<unrelated, params>>

\* A faulty variant of the next definition: a field that is set alone is
\* taken for all of them.
AppliesOne ==
    /\ calib.pc = "applying"
    /\ \E f \in calib.left :
        /\ params' = [params EXCEPT ![Current][f] = calib.best[f]]
        /\ calib' = [calib EXCEPT !.pc = "tuning", !.at = @ + 1, !.left = {},
                                  !.done = @ \cup {Row(Current, calib.best)}]
    /\ UNCHANGED unrelated

\* calibrate_one sets the fields of the live strategy, one after the other.
Apply ==
    /\ calib.pc = "applying"
    /\ \E f \in calib.left :
        /\ params' = [params EXCEPT ![Current][f] = calib.best[f]]
        /\ calib' = IF calib.left = {f}
                    THEN [calib EXCEPT !.pc = "tuning", !.at = @ + 1, !.left = {},
                                       !.done = @ \cup {Row(Current, calib.best)}]
                    ELSE [calib EXCEPT !.left = @ \ {f}]
    /\ UNCHANGED unrelated

\* calibrate_all is done, and its results are saved one by one.
Tuned ==
    /\ calib.pc = "tuning" /\ calib.at = Len(Order) + 1
    /\ calib' = [calib EXCEPT !.pc = "saving"]
    /\ UNCHANGED <<unrelated, params>>

Save ==
    /\ calib.pc = "saving"
    /\ IF calib.done = {} THEN calib' = Asleep
       ELSE \E row \in calib.done : calib' = [calib EXCEPT !.done = @ \ {row}]
    /\ UNCHANGED <<unrelated, params>>

\* A save raises: the rows after it are lost, what they say stays in force.
SaveFails ==
    /\ calib.pc = "saving" /\ calib.done # {}
    /\ calib' = Asleep
    /\ UNCHANGED <<unrelated, params>>

Calibrate == Wake \/ Skip \/ Tune \/ Raises \/ Apply \/ Tuned \/ Save \/ SaveFails

Next ==
    \/ Startup \/ Stop
    \/ \E r \in Requests : Request(r)
    \/ Calibrate

\* The calibration task is rescheduled after every sleep and every failure.
Fairness == WF_vars(Calibrate)

Spec == Init /\ [][Next]_vars /\ Fairness

----------------------------------------------------------------------------
\* Properties

\* A strategy trades with real money only if one of its backtests passed: no
\* interleaving of requests, and no restart, makes it live otherwise.
LiveWasValidated == \A s \in Strategies :
    status[s] = "live" => [strategy |-> s, passed |-> TRUE] \in results

\* A demotion made while no promotion of the strategy is under way keeps it
\* off until somebody asks for a promotion again.  (One that is under way has
\* read the status already, and overwrites the demotion.)
DemotionHolds == \A s \in stopped : status[s] # "live"

\* Only a promotion that was granted starts live trading and only a demotion
\* that was granted ends it: not a restart, which registers every strategy
\* again, nor anything else.
StatusMovesByRequest ==
    [][\A s \in Strategies :
        (status[s] = "live") # (status'[s] = "live") =>
            \E r \in Requests : Of(r) = s /\ request[r].pc = "granted"
                /\ request[r].op = (IF status'[s] = "live" THEN "promote" ELSE "demote")]_vars

\* Outside the moment its fields are set, a strategy runs with the parameters
\* it was created with or with a whole combination of its grid, which the
\* calibration has backtested, though the calibration of any strategy may raise or be cut off.
SettledParams == \A s \in Strategies :
    ~(calib.pc = "applying" /\ Current = s) => params[s] \in Grid \cup {Default}

\* A calibration about to be saved says what is in force.
UnsavedIsInForce == \A row \in calib.done : params[row.strategy] = row.best

\* A calibration is followed by another one: a strategy that no strategy
\* raising something precedes is tuned again and again, or skipped for want of
\* bars, while the process runs.
CalibratedAgain == \A i \in DOMAIN Order :
    (\A j \in 1 .. i : Order[j] \notin Raising)
        => (<>[]up => []<>(calib.pc = "tuning" /\ calib.at = i))
=============================================================================
