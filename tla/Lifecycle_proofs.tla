--------------------------- MODULE Lifecycle_proofs ---------------------------
(***************************************************************************)
(* Safety of the life of strategies for every registry, every number of    *)
(* requests, every grid and any failures and restarts.                     *)
(***************************************************************************)
EXTENDS Lifecycle, TLAPS

\* The strategies of the registry are the ones it lists.
LEMMA OrderType ==
    /\ Order \in Seq(Strategies)
    /\ \A i \in 1 .. Len(Order) : Order[i] \in Strategies
BY LifecycleAssumption

\* A request that is under way is for a registered strategy.
LEMMA RequestFacts ==
    ASSUME NEW r \in Requests, request \in [Requests -> RequestType],
           NEW op \in Ops, NEW pc, At(r, op, pc), pc # "idle"
    PROVE  request[r] \in [op : Ops, strategy : Strategies,
                           pc : {"asked", "passing", "granted", "tested"}, passed : BOOLEAN]
BY DEF At, RequestType, Idle

\* A request ends, or goes on to its next step.
LEMMA RequestMoves ==
    ASSUME NEW r \in Requests, request \in [Requests -> RequestType]
    PROVE  /\ Reply(r) => request' \in [Requests -> RequestType]
           /\ \A op \in Ops, pc \in {"asked", "tested"}, next \in {"passing", "granted", "tested"} :
                At(r, op, pc) /\ GoOn(r, next) => request' \in [Requests -> RequestType]
           /\ \A op \in Ops : At(r, op, "passing") /\ GoOn(r, "granted")
                => request' \in [Requests -> RequestType]
<1>1. Idle \in RequestType
  BY DEF RequestType
<1>2. Reply(r) => request' \in [Requests -> RequestType]
  BY <1>1 DEF Reply
<1>3. ASSUME NEW op \in Ops, NEW pc \in {"asked", "passing", "tested"},
             NEW next \in {"passing", "granted", "tested"}, At(r, op, pc), GoOn(r, next)
      PROVE  request' \in [Requests -> RequestType]
  <2>1. request[r] \in [op : Ops, strategy : Strategies,
                        pc : {"asked", "passing", "granted", "tested"}, passed : BOOLEAN]
    BY <1>3, RequestFacts
  <2>2. [request[r] EXCEPT !.pc = next] \in RequestType
    BY <2>1 DEF RequestType
  <2> QED BY <1>3, <2>2 DEF GoOn
<1> QED BY <1>2, <1>3

\* Every variable keeps its type, and what has started has its rows.
THEOREM LifecycleType == Spec => []TypeOK
<1>1. Init => TypeOK
  <2>1. Ended \in CalibType /\ Idle \in RequestType
    BY LifecycleAssumption DEF Ended, Asleep, CalibType, RequestType
  <2>2. Found \subseteq [Strategies -> StatusValues]
    BY LifecycleAssumption DEF StatusValues
  <2>3. Ended.pc = "ended"
    BY DEF Ended, Asleep
  <2>4. Default \in Combos
    BY LifecycleAssumption
  <2> SUFFICES ASSUME Init PROVE TypeOK
    OBVIOUS
  <2>5. up = FALSE /\ status \in [Strategies -> StatusValues] /\ results = {} /\ stopped = {}
    BY <2>2 DEF Init
  <2>6. params \in [Strategies -> Combos] /\ request \in [Requests -> RequestType]
    BY <2>1, <2>4 DEF Init
  <2>7. calib \in CalibType /\ calib.pc = "ended"
    BY <2>1, <2>3 DEF Init
  <2> QED BY <2>5, <2>6, <2>7 DEF TypeOK
<1>2. TypeOK /\ [Next]_vars => TypeOK'
  <2> SUFFICES ASSUME TypeOK, [Next]_vars PROVE TypeOK'
    OBVIOUS
  <2> USE DEF TypeOK
  <2>1. CASE Startup
    <3>1. Asleep \in CalibType
      BY LifecycleAssumption DEF Asleep, CalibType
    <3>2. \A s \in Strategies : Registered(s) \in StatusValues \ {"none"}
      BY DEF Registered, StatusValues
    <3> QED BY <2>1, <3>1, <3>2 DEF Startup, Asleep
  <2>2. CASE Stop
    <3>1. Ended \in CalibType /\ Idle \in RequestType
      BY LifecycleAssumption DEF Ended, Asleep, CalibType, RequestType
    <3> QED BY <2>2, <3>1, LifecycleAssumption DEF Stop, Ended, Asleep
  <2>3. ASSUME NEW r \in Requests, Request(r) PROVE TypeOK'
    <3> USE DEF others, Ops
    <3>1. ASSUME NEW op \in Ops, NEW s \in Asked, Ask(r, op, s) PROVE TypeOK'
      <4>1. [op |-> op, strategy |-> s, pc |-> "asked", passed |-> FALSE] \in RequestType
        BY LifecycleAssumption DEF RequestType
      <4> QED BY <3>1, <4>1 DEF Ask
    <3>2. CASE CheckResult(r)
      BY <3>2, RequestMoves DEF CheckResult
    <3>3. CASE CheckStatus(r)
      BY <3>3, RequestMoves DEF CheckStatus
    <3>4. CASE SetLive(r)
      <4>1. Of(r) \in Strategies
        BY <3>4, RequestFacts DEF SetLive, Of
      <4> QED BY <3>4, <4>1, RequestMoves DEF SetLive, StatusValues
    <3>5. CASE SetPaper(r)
      <4>1. Of(r) \in Strategies
        BY <3>5, RequestFacts DEF SetPaper, Of
      <4> QED BY <3>5, <4>1, RequestMoves DEF SetPaper, StatusValues
    <3>6. CASE Backtested(r)
      <4>1. request[r] \in [op : Ops, strategy : Strategies,
                            pc : {"asked", "passing", "granted", "tested"}, passed : BOOLEAN]
        BY <3>6, RequestFacts DEF Backtested
      <4>2. \A passed \in BOOLEAN :
              [request[r] EXCEPT !.pc = "tested", !.passed = passed] \in RequestType
        BY <4>1 DEF RequestType
      <4> QED BY <3>6, <4>2, RequestMoves DEF Backtested
    <3>7. CASE SaveResult(r)
      <4>1. Of(r) \in Strategies /\ request[r].passed \in BOOLEAN
        BY <3>7, RequestFacts DEF SaveResult, Of
      <4> QED BY <3>7, <4>1, RequestMoves DEF SaveResult
    <3>8. CASE RequestFails(r)
      BY <3>8, RequestMoves DEF RequestFails
    <3> QED BY <2>3, <3>1, <3>2, <3>3, <3>4, <3>5, <3>6, <3>7, <3>8 DEF Request
  <2>4. CASE Calibrate
    <3> USE DEF unrelated
    <3>1. CASE Wake \/ Raises \/ SaveFails
      <4>1. Asleep \in CalibType /\ [Asleep EXCEPT !.pc = "tuning"] \in CalibType
        BY LifecycleAssumption DEF Asleep, CalibType
      <4>2. 1 <= Len(Order) + 1
        BY OrderType
      <4>3. /\ Asleep.pc = "asleep"
            /\ [Asleep EXCEPT !.pc = "tuning"].pc = "tuning"
            /\ [Asleep EXCEPT !.pc = "tuning"].at = 1
        BY DEF Asleep
      <4>4. \/ calib' = Asleep
            \/ calib' = [Asleep EXCEPT !.pc = "tuning"]
        BY <3>1 DEF Wake, Raises, SaveFails
      <4>5. UNCHANGED <<unrelated, params>>
        BY <3>1 DEF Wake, Raises, SaveFails
      <4>6. calib' \in CalibType
        BY <4>1, <4>4
      <4>7. calib'.pc = "asleep" \/ (calib'.pc = "tuning" /\ calib'.at <= Len(Order) + 1)
        BY <4>2, <4>3, <4>4
      <4> QED BY <4>5, <4>6, <4>7
    <3>2. CASE Skip
      <4>0. calib.at \in Nat \ {0} /\ Len(Order) \in Nat
        BY OrderType DEF CalibType
      <4>1. calib' \in CalibType /\ calib'.at <= Len(Order) + 1 /\ calib'.pc = "tuning"
        BY <3>2, <4>0 DEF Skip, CalibType
      <4> QED BY <3>2, <4>1 DEF Skip
    <3>3. CASE Tune
      <4>1. Current \in Strategies
        BY <3>3, OrderType DEF Tune, Current, CalibType
      <4>2. calib' \in CalibType /\ calib'.at <= Len(Order) /\ calib'.pc = "applying"
        BY <3>3, <4>1, LifecycleAssumption DEF Tune, CalibType
      <4> QED BY <3>3, <4>2, OrderType DEF Tune
    <3>4. CASE Apply
      <4>1. Current \in Strategies
        BY <3>4, OrderType DEF Apply, Current, CalibType
      <4>2. PICK f \in calib.left :
              /\ params' = [params EXCEPT ![Current][f] = calib.best[f]]
              /\ calib' = IF calib.left = {f}
                          THEN [calib EXCEPT !.pc = "tuning", !.at = @ + 1, !.left = {},
                                             !.done = @ \cup {Row(Current, calib.best)}]
                          ELSE [calib EXCEPT !.left = @ \ {f}]
        BY <3>4 DEF Apply
      <4>3. f \in Fields /\ calib.best[f] \in Values
        BY <4>2 DEF CalibType, Combos
      <4>4. params' \in [Strategies -> Combos]
        BY <4>1, <4>2, <4>3 DEF Combos
      <4>5. calib' \in CalibType
        <5>1. Row(Current, calib.best) \in [strategy : Strategies, best : Combos]
          BY <4>1 DEF CalibType, Row
        <5>2. calib.at + 1 \in Nat \ {0}
          BY DEF CalibType
        <5>3. [calib EXCEPT !.pc = "tuning", !.at = @ + 1, !.left = {},
                            !.done = @ \cup {Row(Current, calib.best)}] \in CalibType
          BY <5>1, <5>2 DEF CalibType
        <5>4. [calib EXCEPT !.left = @ \ {f}] \in CalibType
          BY DEF CalibType
        <5> QED BY <4>2, <5>3, <5>4
      <4>6. calib.at \in Nat /\ calib.at <= Len(Order)
        BY <3>4 DEF Apply, CalibType
      <4>7. /\ calib'.pc = "tuning" => calib'.at = calib.at + 1
            /\ calib'.pc = "applying" => calib'.at = calib.at
        BY <3>4, <4>2 DEF CalibType, Apply
      <4> QED BY <3>4, <4>4, <4>5, <4>6, <4>7, OrderType DEF Apply
    <3>5. CASE Tuned
      <4>1. calib' \in CalibType /\ calib'.pc = "saving"
        BY <3>5 DEF Tuned, CalibType
      <4> QED BY <3>5, <4>1 DEF Tuned
    <3>6. CASE Save
      <4>1. calib' \in CalibType /\ calib'.pc \in {"asleep", "saving"}
        BY <3>6, LifecycleAssumption DEF Save, CalibType, Asleep
      <4> QED BY <3>6, <4>1 DEF Save
    <3> QED BY <2>4, <3>1, <3>2, <3>3, <3>4, <3>5, <3>6 DEF Calibrate
  <2>5. CASE UNCHANGED vars
    BY <2>5 DEF vars
  <2> QED BY <2>1, <2>2, <2>3, <2>4, <2>5 DEF Next
<1> QED BY <1>1, <1>2, PTL DEF Spec

----------------------------------------------------------------------------
\* Live trading.

\* A step of a request leaves the others alone and keeps what it is for.
LEMMA RequestKept ==
    ASSUME NEW r \in Requests, request \in [Requests -> RequestType], NEW q \in Requests
    PROVE  /\ Reply(r) => request'[q] = IF q = r THEN Idle ELSE request[q]
           /\ \A pc : GoOn(r, pc) =>
                /\ q # r => request'[q] = request[q]
                /\ q = r => /\ request'[r].op = request[r].op
                            /\ request'[r].strategy = request[r].strategy
                            /\ request'[r].pc = pc
           /\ Backtested(r) =>
                \/ request'[q] = IF q = r THEN Idle ELSE request[q]
                \/ /\ q # r => request'[q] = request[q]
                   /\ q = r => /\ request'[r].op = request[r].op
                               /\ request'[r].strategy = request[r].strategy
                               /\ request'[r].pc = "tested"
<1>1. request[r] = Idle \/ request[r] \in [op : Ops, strategy : Strategies,
                           pc : {"asked", "passing", "granted", "tested"}, passed : BOOLEAN]
  BY DEF RequestType
<1>2. \A pc : /\ [request[r] EXCEPT !.pc = pc].op = request[r].op
              /\ [request[r] EXCEPT !.pc = pc].strategy = request[r].strategy
              /\ [request[r] EXCEPT !.pc = pc].pc = pc
  BY <1>1 DEF Idle
<1>3. \A b : /\ [request[r] EXCEPT !.pc = "tested", !.passed = b].op = request[r].op
             /\ [request[r] EXCEPT !.pc = "tested", !.passed = b].strategy = request[r].strategy
             /\ [request[r] EXCEPT !.pc = "tested", !.passed = b].pc = "tested"
  BY <1>1 DEF Idle
<1>4. Reply(r) => request'[q] = IF q = r THEN Idle ELSE request[q]
  BY DEF Reply
<1>5. ASSUME NEW pc, GoOn(r, pc)
      PROVE  /\ q # r => request'[q] = request[q]
             /\ q = r => request'[r].op = request[r].op /\ request'[r].strategy = request[r].strategy
                         /\ request'[r].pc = pc
  BY <1>2, <1>5 DEF GoOn
<1>6. ASSUME Backtested(r)
      PROVE  \/ request'[q] = IF q = r THEN Idle ELSE request[q]
             \/ /\ q # r => request'[q] = request[q]
                /\ q = r => request'[r].op = request[r].op /\ request'[r].strategy = request[r].strategy
                            /\ request'[r].pc = "tested"
  <2>1. CASE Reply(r)
    BY <1>4, <2>1
  <2>2. ASSUME NEW b \in BOOLEAN, request' = [request EXCEPT ![r].pc = "tested", ![r].passed = b]
        PROVE  /\ q # r => request'[q] = request[q]
               /\ q = r => request'[r].op = request[r].op /\ request'[r].strategy = request[r].strategy
                           /\ request'[r].pc = "tested"
    BY <1>3, <2>2
  <2> QED BY <1>6, <2>1, <2>2 DEF Backtested
<1> QED BY <1>4, <1>5, <1>6

\* What LiveWasValidated needs to be kept by every step: a promotion that has
\* passed its first check has found a passing result, and results stay.
Vetted ==
    /\ LiveWasValidated
    /\ \A r \in Requests :
        request[r].op = "promote" /\ request[r].pc \in {"passing", "granted"} => HasPassing(Of(r))

\* A strategy trades with real money only if one of its backtests passed.
THEOREM LiveIsValidated == Spec => []LiveWasValidated
<1>1. Init => Vetted
  BY LifecycleAssumption DEF Init, Vetted, LiveWasValidated, Idle
<1>2. TypeOK /\ Vetted /\ [Next]_vars => Vetted'
  <2> SUFFICES ASSUME TypeOK, Vetted, [Next]_vars PROVE Vetted'
    OBVIOUS
  <2> USE DEF Vetted, LiveWasValidated, HasPassing, Of
  <2>1. CASE Startup
    BY <2>1 DEF Startup, Registered, TypeOK
  <2>2. CASE Stop
    BY <2>2 DEF Stop, Idle
  <2>3. ASSUME NEW r \in Requests, Request(r) PROVE Vetted'
    <3> USE DEF others, Idle, TypeOK
    <3>1. ASSUME NEW op \in Ops, NEW s \in Asked, Ask(r, op, s) PROVE Vetted'
      BY <3>1 DEF Ask
    <3>2. CASE CheckResult(r)
      <4>1. UNCHANGED <<status, results>> /\ request[r].op = "promote"
        BY <3>2 DEF CheckResult, At
      <4>2. CASE HasPassing(Of(r)) /\ GoOn(r, "passing")
        BY <4>1, <4>2, RequestKept
      <4>3. CASE Reply(r)
        BY <4>1, <4>3, RequestKept
      <4> QED BY <3>2, <4>2, <4>3 DEF CheckResult
    <3>3. CASE CheckStatus(r)
      <4>1. UNCHANGED <<status, results>>
        BY <3>3 DEF CheckStatus
      <4>2. \A q \in Requests :
              request'[q].op = "promote" /\ request'[q].pc \in {"passing", "granted"}
                => /\ request[q].op = "promote" /\ request[q].pc \in {"passing", "granted"}
                   /\ request'[q].strategy = request[q].strategy
        BY <3>3, RequestKept DEF CheckStatus, At
      <4> QED BY <4>1, <4>2
    <3>4. CASE SetLive(r)
      BY <3>4, RequestKept DEF SetLive, At
    <3>5. CASE SetPaper(r)
      BY <3>5, RequestKept DEF SetPaper, At
    <3>6. CASE Backtested(r)
      <4>1. UNCHANGED <<status, results>>
        BY <3>6 DEF Backtested
      <4> QED BY <3>6, <4>1, RequestKept
    <3>7. CASE SaveResult(r)
      BY <3>7, RequestKept DEF SaveResult, At
    <3>8. CASE RequestFails(r)
      BY <3>8, RequestKept DEF RequestFails
    <3> QED BY <2>3, <3>1, <3>2, <3>3, <3>4, <3>5, <3>6, <3>7, <3>8 DEF Request
  <2>4. CASE Calibrate
    <3>1. UNCHANGED <<status, results, request>>
      BY <2>4 DEF Calibrate, Wake, Skip, Tune, Raises, Apply, Tuned, Save, SaveFails, unrelated
    <3> QED BY <3>1
  <2>5. CASE UNCHANGED vars
    BY <2>5 DEF vars
  <2> QED BY <2>1, <2>2, <2>3, <2>4, <2>5 DEF Next
<1>3. Vetted => LiveWasValidated
  BY DEF Vetted
<1> QED BY <1>1, <1>2, <1>3, LifecycleType, PTL DEF Spec

\* What DemotionHolds needs: nobody is promoting a strategy demoted for good.
StaysOff == \A s \in stopped : status[s] # "live" /\ ~Promoting(s)

\* A demotion keeps a strategy off until somebody asks for a promotion again.
THEOREM DemotionStays == Spec => []DemotionHolds
<1>1. Init => StaysOff
  BY DEF Init, StaysOff
<1>2. TypeOK /\ StaysOff /\ [Next]_vars => StaysOff'
  <2> SUFFICES ASSUME TypeOK, StaysOff, [Next]_vars PROVE StaysOff'
    OBVIOUS
  <2> USE DEF StaysOff, Promoting, Of
  <2>1. CASE Startup
    BY <2>1 DEF Startup, Registered, TypeOK
  <2>2. CASE Stop
    BY <2>2 DEF Stop, Idle
  <2>3. ASSUME NEW r \in Requests, Request(r) PROVE StaysOff'
    <3> USE DEF others, Idle, TypeOK
    <3>1. ASSUME NEW op \in Ops, NEW s \in Asked, Ask(r, op, s) PROVE StaysOff'
      BY <3>1 DEF Ask
    <3>2. CASE CheckResult(r)
      <4>1. UNCHANGED <<status, stopped>>
        BY <3>2 DEF CheckResult
      <4>2. \A q \in Requests : request'[q].op = "promote"
              => request[q].op = "promote" /\ request'[q].strategy = request[q].strategy
        BY <3>2, RequestKept DEF CheckResult
      <4> QED BY <4>1, <4>2
    <3>3. CASE CheckStatus(r)
      <4>1. UNCHANGED <<status, stopped>>
        BY <3>3 DEF CheckStatus
      <4>2. \A q \in Requests : request'[q].op = "promote"
              => request[q].op = "promote" /\ request'[q].strategy = request[q].strategy
        BY <3>3, RequestKept DEF CheckStatus
      <4> QED BY <4>1, <4>2
    <3>4. CASE SetLive(r)
      BY <3>4, RequestKept DEF SetLive, At
    <3>5. CASE SetPaper(r)
      <4>1. \A q \in Requests : request'[q].op = "promote"
              => request[q].op = "promote" /\ request'[q].strategy = request[q].strategy
        BY <3>5, RequestKept DEF SetPaper
      <4>2. ~Promoting(Of(r)) \/ stopped' = stopped
        BY <3>5 DEF SetPaper
      <4>3. \A s \in Strategies : s # Of(r) => status'[s] = status[s]
        BY <3>5 DEF SetPaper
      <4>4. Of(r) \in Strategies
        BY <3>5, RequestFacts DEF SetPaper, Ops
      <4>5. stopped' \subseteq stopped \cup {Of(r)} /\ status'[Of(r)] = "paper"
        BY <3>5, <4>4 DEF SetPaper
      <4>6. ASSUME NEW s \in stopped' PROVE status'[s] # "live" /\ ~Promoting(s)'
        <5>1. CASE s = Of(r) /\ s \notin stopped
          BY <4>1, <4>2, <4>5, <5>1
        <5>2. CASE s = Of(r) /\ s \in stopped
          BY <4>1, <4>5, <5>2
        <5>3. CASE s # Of(r)
          BY <4>1, <4>3, <4>5, <5>3
        <5> QED BY <5>1, <5>2, <5>3
      <4> QED BY <4>6
    <3>6. CASE Backtested(r)
      <4>1. UNCHANGED <<status, stopped>>
        BY <3>6 DEF Backtested
      <4>2. \A q \in Requests : request'[q].op = "promote"
              => request[q].op = "promote" /\ request'[q].strategy = request[q].strategy
        BY <3>6, RequestKept DEF Idle
      <4> QED BY <4>1, <4>2
    <3>7. CASE SaveResult(r)
      BY <3>7, RequestKept DEF SaveResult
    <3>8. CASE RequestFails(r)
      BY <3>8, RequestKept DEF RequestFails
    <3> QED BY <2>3, <3>1, <3>2, <3>3, <3>4, <3>5, <3>6, <3>7, <3>8 DEF Request
  <2>4. CASE Calibrate
    <3>1. UNCHANGED <<status, stopped, request>>
      BY <2>4 DEF Calibrate, Wake, Skip, Tune, Raises, Apply, Tuned, Save, SaveFails, unrelated
    <3> QED BY <3>1
  <2>5. CASE UNCHANGED vars
    BY <2>5 DEF vars
  <2> QED BY <2>1, <2>2, <2>3, <2>4, <2>5 DEF Next
<1>3. StaysOff => DemotionHolds
  BY DEF StaysOff, DemotionHolds
<1> QED BY <1>1, <1>2, <1>3, LifecycleType, PTL DEF Spec

\* Only a granted promotion starts live trading, only a granted demotion ends it.
THEOREM StatusByRequest == Spec => StatusMovesByRequest
<1> DEFINE Granted == \A s \in Strategies :
        (status[s] = "live") # (status'[s] = "live") =>
            \E r \in Requests : Of(r) = s /\ request[r].pc = "granted"
                /\ request[r].op = (IF status'[s] = "live" THEN "promote" ELSE "demote")
<1>1. TypeOK /\ [Next]_vars => [Granted]_vars
  <2> SUFFICES ASSUME TypeOK, Next PROVE Granted
    OBVIOUS
  <2>1. CASE Startup
    BY <2>1 DEF Startup, Registered, TypeOK
  <2>2. CASE Stop
    BY <2>2 DEF Stop
  <2>3. ASSUME NEW r \in Requests, Request(r) PROVE Granted
    <3>1. CASE SetLive(r)
      BY <3>1 DEF SetLive, At, TypeOK
    <3>2. CASE SetPaper(r)
      BY <3>2 DEF SetPaper, At, TypeOK
    <3>3. CASE UNCHANGED status
      BY <3>3
    <3> QED BY <2>3, <3>1, <3>2, <3>3
            DEF Request, Ask, CheckResult, CheckStatus, Backtested, SaveResult, RequestFails
  <2>4. CASE Calibrate
    <3>1. UNCHANGED status
      BY <2>4 DEF Calibrate, Wake, Skip, Tune, Raises, Apply, Tuned, Save, SaveFails, unrelated
    <3> QED BY <3>1
  <2> QED BY <2>1, <2>2, <2>3, <2>4 DEF Next
<1>2. []TypeOK /\ [][Next]_vars => [][Granted]_vars
  BY <1>1, PTL
<1> QED BY <1>2, LifecycleType, PTL DEF Spec, StatusMovesByRequest

----------------------------------------------------------------------------
\* Calibration.

\* What SettledParams needs: the fields that are set already have the values of
\* the best combination, and nothing is calibrated while the process is down.
Settling ==
    /\ SettledParams
    /\ calib.pc # "ended" => up
    /\ calib.pc = "applying" =>
        /\ calib.best \in Grid \cup {Default}
        /\ \A f \in Fields \ calib.left : params[Current][f] = calib.best[f]

\* When the last field is set, the strategy runs with the whole combination.
LEMMA LastField ==
    ASSUME NEW p \in Combos, NEW best \in Combos, NEW f \in Fields,
           \A g \in Fields \ {f} : p[g] = best[g]
    PROVE  [p EXCEPT ![f] = best[f]] = best
BY DEF Combos

\* A strategy runs with its own parameters or with a whole calibrated combination.
THEOREM ParamsSettle == Spec => []SettledParams
<1>1. Init => Settling
  <2> SUFFICES ASSUME Init PROVE Settling
    OBVIOUS
  <2>1. calib.pc = "ended" /\ \A s \in Strategies : params[s] = Default
    BY DEF Init, Ended, Asleep
  <2> QED BY <2>1 DEF Settling, SettledParams
<1>2. TypeOK /\ Settling /\ [Next]_vars => Settling'
  <2> SUFFICES ASSUME TypeOK, Settling, [Next]_vars PROVE Settling'
    OBVIOUS
  <2>0. /\ Asleep.pc = "asleep" /\ Ended.pc = "ended"
        /\ [Asleep EXCEPT !.pc = "tuning"].pc = "tuning"
    BY DEF Asleep, Ended
  <2> USE DEF Settling, SettledParams
  <2>1. CASE Startup
    <3>1. calib.pc = "ended"
      BY <2>1 DEF Startup
    <3> QED BY <2>0, <2>1, <3>1 DEF Startup
  <2>2. CASE Stop
    BY <2>0, <2>2 DEF Stop
  <2>3. ASSUME NEW r \in Requests, Request(r) PROVE Settling'
    <3>1. UNCHANGED <<up, params, calib>>
      BY <2>3 DEF Request, Ask, CheckResult, CheckStatus, SetLive, SetPaper, Backtested,
                  SaveResult, RequestFails, others
    <3> QED BY <3>1 DEF Current
  <2>4. CASE Calibrate
    <3> USE DEF unrelated
    <3>1. CASE Wake \/ Skip \/ Raises \/ Tuned \/ Save \/ SaveFails
      <4>1. calib.pc \notin {"ended", "applying"} \/ Wake
        BY <3>1 DEF Skip, Raises, Tuned, Save, SaveFails
      <4>2. up' = up /\ params' = params /\ calib'.pc # "applying"
        BY <2>0, <3>1 DEF Wake, Skip, Raises, Tuned, Save, SaveFails, TypeOK, CalibType
      <4>3. up
        BY <3>1, <4>1 DEF Wake
      <4>4. \A s \in Strategies : params[s] \in Grid \cup {Default}
        BY <3>1 DEF Wake, Skip, Raises, Tuned, Save, SaveFails
      <4> QED BY <4>2, <4>3, <4>4
    <3>2. CASE Tune
      <4>1. Current \in Strategies /\ params[Current] \in Grid \cup {Default}
        BY <3>2, OrderType DEF Tune, Current, TypeOK, CalibType
      <4>2. /\ calib'.pc = "applying" /\ calib'.left = Fields /\ calib'.at = calib.at
            /\ calib'.best \in Grid \cup {Default}
        BY <3>2, <4>1 DEF Tune, TypeOK, CalibType
      <4>3. up /\ up' = up /\ params' = params
        BY <3>2 DEF Tune
      <4>4. \A s \in Strategies : params[s] \in Grid \cup {Default}
        BY <3>2 DEF Tune
      <4> QED BY <4>2, <4>3, <4>4
    <3>3. CASE Apply
      <4>1. PICK f \in calib.left :
              /\ params' = [params EXCEPT ![Current][f] = calib.best[f]]
              /\ calib' = IF calib.left = {f}
                          THEN [calib EXCEPT !.pc = "tuning", !.at = @ + 1, !.left = {},
                                             !.done = @ \cup {Row(Current, calib.best)}]
                          ELSE [calib EXCEPT !.left = @ \ {f}]
        BY <3>3 DEF Apply
      <4>2. /\ Current \in Strategies /\ calib.pc = "applying"
            /\ params[Current] \in Combos /\ calib.best \in Combos /\ f \in Fields
        BY <3>3, <4>1, OrderType DEF Apply, Current, TypeOK, CalibType
      <4>3. params'[Current] = [params[Current] EXCEPT ![f] = calib.best[f]]
        BY <4>1, <4>2 DEF TypeOK
      <4>4. \A s \in Strategies : s # Current => params'[s] = params[s]
        BY <4>1, <4>2 DEF TypeOK
      <4>5. up /\ up' = up
        BY <3>3, <4>2 DEF Apply
      <4>6. CASE calib.left = {f}
        <5>1. calib'.pc = "tuning"
          BY <4>1, <4>6 DEF TypeOK, CalibType
        <5>2. params'[Current] = calib.best
          BY <4>2, <4>3, <4>6, LastField
        <5> QED BY <4>2, <4>4, <4>5, <5>1, <5>2
      <4>7. CASE calib.left # {f}
        <5>1. /\ calib'.pc = "applying" /\ calib'.at = calib.at /\ calib'.best = calib.best
              /\ calib'.left = calib.left \ {f}
          BY <4>1, <4>2, <4>7 DEF TypeOK, CalibType
        <5>2. Current' = Current
          BY <5>1 DEF Current
        <5>3. \A g \in Fields \ calib'.left : params'[Current][g] = calib.best[g]
          BY <4>2, <4>3, <5>1 DEF Combos
        <5> QED BY <4>2, <4>4, <4>5, <5>1, <5>2, <5>3
      <4> QED BY <4>6, <4>7
    <3> QED BY <2>4, <3>1, <3>2, <3>3 DEF Calibrate
  <2>5. CASE UNCHANGED vars
    BY <2>5 DEF vars, Current
  <2> QED BY <2>1, <2>2, <2>3, <2>4, <2>5 DEF Next
<1>3. Settling => SettledParams
  BY DEF Settling
<1> QED BY <1>1, <1>2, <1>3, LifecycleType, PTL DEF Spec

\* What UnsavedIsInForce needs: the round never comes back to a strategy, as no
\* id is registered twice.
Behind ==
    /\ UnsavedIsInForce
    /\ calib.pc = "applying" =>
        \A f \in Fields \ calib.left : params[Current][f] = calib.best[f]
    /\ calib.pc \in {"tuning", "applying"} =>
        \A row \in calib.done : \E i \in 1 .. Len(Order) : i < calib.at /\ row.strategy = Order[i]

\* A calibration about to be saved says what is in force.
THEOREM UnsavedInForce == Spec => []UnsavedIsInForce
<1>1. Init => Behind
  <2> SUFFICES ASSUME Init PROVE Behind
    OBVIOUS
  <2>1. calib.pc = "ended" /\ calib.done = {}
    BY DEF Init, Ended, Asleep
  <2> QED BY <2>1 DEF Behind, UnsavedIsInForce
<1>2. TypeOK /\ Behind /\ [Next]_vars => Behind'
  <2> SUFFICES ASSUME TypeOK, Behind, [Next]_vars PROVE Behind'
    OBVIOUS
  <2>0. /\ Asleep.pc = "asleep" /\ Ended.pc = "ended" /\ Asleep.done = {} /\ Ended.done = {}
        /\ [Asleep EXCEPT !.pc = "tuning"].pc = "tuning"
        /\ [Asleep EXCEPT !.pc = "tuning"].done = {}
    BY DEF Asleep, Ended
  <2> USE DEF Behind, UnsavedIsInForce
  <2>1. CASE Startup
    BY <2>0, <2>1 DEF Startup
  <2>2. CASE Stop
    BY <2>0, <2>2 DEF Stop
  <2>3. ASSUME NEW r \in Requests, Request(r) PROVE Behind'
    <3>1. UNCHANGED <<params, calib>>
      BY <2>3 DEF Request, Ask, CheckResult, CheckStatus, SetLive, SetPaper, Backtested,
                  SaveResult, RequestFails, others
    <3> QED BY <3>1 DEF Current
  <2>4. CASE Calibrate
    <3> USE DEF unrelated
    <3>0. calib.at \in Nat \ {0} /\ Len(Order) \in Nat
      BY OrderType DEF TypeOK, CalibType
    <3>1. CASE Wake \/ Raises \/ SaveFails
      <4>1. calib'.done = {} /\ calib'.pc # "applying"
        BY <2>0, <3>1 DEF Wake, Raises, SaveFails
      <4> QED BY <4>1
    <3>2. CASE Skip
      <4>1. /\ calib'.done = calib.done /\ calib'.pc = "tuning" /\ calib'.at = calib.at + 1
            /\ calib.pc = "tuning" /\ params' = params
        BY <3>2 DEF Skip, TypeOK, CalibType
      <4> QED BY <3>0, <4>1
    <3>3. CASE Tune
      <4>1. /\ calib'.done = calib.done /\ calib'.at = calib.at /\ calib'.left = Fields
            /\ calib.pc = "tuning" /\ params' = params
        BY <3>3 DEF Tune, TypeOK, CalibType
      <4> QED BY <4>1
    <3>4. CASE Apply
      <4>1. PICK f \in calib.left :
              /\ params' = [params EXCEPT ![Current][f] = calib.best[f]]
              /\ calib' = IF calib.left = {f}
                          THEN [calib EXCEPT !.pc = "tuning", !.at = @ + 1, !.left = {},
                                             !.done = @ \cup {Row(Current, calib.best)}]
                          ELSE [calib EXCEPT !.left = @ \ {f}]
        BY <3>4 DEF Apply
      <4>2. /\ calib.at \in 1 .. Len(Order) /\ calib.pc = "applying"
            /\ Current \in Strategies
            /\ params[Current] \in Combos /\ calib.best \in Combos /\ f \in Fields
        BY <3>0, <3>4, <4>1, OrderType DEF Apply, Current, TypeOK, CalibType
      <4>3. params'[Current] = [params[Current] EXCEPT ![f] = calib.best[f]]
        BY <4>1, <4>2 DEF TypeOK
      <4>4. \A s \in Strategies : s # Current => params'[s] = params[s]
        BY <4>1, <4>2 DEF TypeOK
      <4>5. \A row \in calib.done : row.strategy \in Strategies /\ row.strategy # Current
        BY <4>2, LifecycleAssumption DEF Current, TypeOK, CalibType
      <4>6. \A row \in calib.done : params'[row.strategy] = row.best
        BY <4>4, <4>5
      <4>7. CASE calib.left = {f}
        <5>1. /\ calib'.pc = "tuning" /\ calib'.at = calib.at + 1
              /\ calib'.done = calib.done \cup {Row(Current, calib.best)}
          BY <4>1, <4>7 DEF TypeOK, CalibType
        <5>2. params'[Current] = calib.best
          BY <4>2, <4>3, <4>7, LastField
        <5>3. Row(Current, calib.best).strategy = Current /\ Row(Current, calib.best).best = calib.best
          BY DEF Row
        <5>4. \A row \in calib'.done : params'[row.strategy] = row.best
          BY <4>6, <5>1, <5>2, <5>3
        <5>5. \A row \in calib'.done :
                \E i \in 1 .. Len(Order) : i < calib'.at /\ row.strategy = Order[i]
          <6> SUFFICES ASSUME NEW row \in calib'.done
                       PROVE  \E i \in 1 .. Len(Order) : i < calib.at + 1 /\ row.strategy = Order[i]
            BY <5>1
          <6>1. CASE row \in calib.done
            <7>1. PICK i \in 1 .. Len(Order) : i < calib.at /\ row.strategy = Order[i]
              BY <4>2, <6>1
            <7>2. i < calib.at + 1
              BY <3>0, <7>1
            <7> QED BY <7>1, <7>2
          <6>2. CASE row = Row(Current, calib.best)
            <7>1. row.strategy = Order[calib.at]
              BY <5>3, <6>2 DEF Current
            <7>2. calib.at < calib.at + 1
              BY <3>0
            <7> QED BY <4>2, <7>1, <7>2
          <6> QED BY <5>1, <6>1, <6>2
        <5> QED BY <5>1, <5>4, <5>5
      <4>8. CASE calib.left # {f}
        <5>1. /\ calib'.pc = "applying" /\ calib'.at = calib.at /\ calib'.best = calib.best
              /\ calib'.left = calib.left \ {f} /\ calib'.done = calib.done
          BY <4>1, <4>2, <4>8 DEF TypeOK, CalibType
        <5>2. Current' = Current
          BY <5>1 DEF Current
        <5>3. \A g \in Fields \ calib'.left : params'[Current][g] = calib.best[g]
          BY <4>2, <4>3, <5>1 DEF Combos
        <5> QED BY <4>2, <4>6, <5>1, <5>2, <5>3
      <4> QED BY <4>7, <4>8
    <3>5. CASE Tuned
      <4>1. /\ calib'.done = calib.done /\ calib'.pc = "saving" /\ params' = params
        BY <3>5 DEF Tuned, TypeOK, CalibType
      <4> QED BY <4>1
    <3>6. CASE Save
      <4>1. /\ calib'.done \subseteq calib.done /\ calib'.pc \in {"asleep", "saving"}
            /\ params' = params
        BY <2>0, <3>6 DEF Save, TypeOK, CalibType
      <4> QED BY <4>1
    <3> QED BY <2>4, <3>1, <3>2, <3>3, <3>4, <3>5, <3>6 DEF Calibrate
  <2>5. CASE UNCHANGED vars
    BY <2>5 DEF vars, Current
  <2> QED BY <2>1, <2>2, <2>3, <2>4, <2>5 DEF Next
<1>3. Behind => UnsavedIsInForce
  BY DEF Behind
<1> QED BY <1>1, <1>2, <1>3, LifecycleType, PTL DEF Spec
=============================================================================
