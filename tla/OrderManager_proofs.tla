------------------------- MODULE OrderManager_proofs -------------------------
(***************************************************************************)
(* Proofs about OrderManager, for every set of callers, symbols, signals   *)
(* and accounts: types, how many orders a halt or a demotion lets by, and  *)
(* how many orders of the broker the tables may miss.                      *)
(***************************************************************************)
EXTENDS OrderManager, FiniteSetTheorems, TLAPS

----------------------------------------------------------------------------
\* Type correctness.

\* _compute_quantity yields a whole number of the smallest units.
LEMMA QuantityType ==
    ASSUME NEW sig \in Signals, NEW a \in Accounts
    PROVE  Quantity(sig, a) \in Int
<1>1. sig.price \in Nat /\ sig.strength \in Int
  BY ManagerAssumption
<1>2. CASE sig.price = 0
  BY <1>2, GuardAssumption DEF Quantity
<1>3. CASE sig.price # 0 /\ PositionSize > 0
  <2>1. PositionSize * QuantaPerShare \in Int
    BY GuardAssumption, ManagerAssumption
  <2>2. (PositionSize * QuantaPerShare) \div sig.price \in Int
    BY <1>1, <1>3, <2>1
  <2> QED BY <1>3, <2>2 DEF Quantity
<1>4. CASE sig.price # 0 /\ ~(PositionSize > 0)
  <2> DEFINE strength == IF sig.strength < 0 THEN -sig.strength ELSE sig.strength
             money == a.nav * MaxPositionPct * strength * QuantaPerShare
  <2>1. strength \in Int
    BY <1>1
  <2>2. money \in Int
    BY <2>1, GuardAssumption
  <2>3. 10000 * sig.price \in Nat /\ 10000 * sig.price > 0
    BY <1>1, <1>4
  <2>4. money \div (10000 * sig.price) \in Int
    BY <2>2, <2>3
  <2> QED BY <1>4, <2>4 DEF Quantity
<1> QED BY <1>2, <1>3, <1>4, <1>1

\* _compute_delta never asks for a negative quantity.
LEMMA DeltaType ==
    ASSUME NEW target \in Int, NEW holding \in Int, NEW inFlight \in Nat
    PROVE  Delta(target, holding, inFlight) \in Nat
BY DEF Delta

\* check_daily_loss leaves a well-formed latch.
LEMMA GuardType ==
    ASSUME GuardTypeOK, NEW a \in Accounts
    PROVE  AfterDailyLoss(a) \in [halted : BOOLEAN, haltDate : Days \cup {NoDate}]
BY GuardAssumption DEF GuardTypeOK, AfterDailyLoss, AfterReset, Unhalted, Days, NoDate

\* A caller between two calls is a call.
LEMMA IdleType == Idle \in CallType
BY DEF Idle, CallType, Steps, Flat

\* An early return keeps the calls well-formed.
LEMMA ReturnType ==
    ASSUME CallTypeOK, NEW c \in Callers, Return(c)
    PROVE  CallTypeOK'
BY IdleType DEF CallTypeOK, Return, Idle

\* Writing a well-formed call that is under way keeps the calls well-formed.
LEMMA AdvanceType ==
    ASSUME CallTypeOK, NEW c \in Callers, NEW new \in CallType,
           new.pc # "idle", new.sig \in Signals,
           new.pc # "account" => new.account \in Accounts,
           call' = [call EXCEPT ![c] = new]
    PROVE  CallTypeOK'
BY DEF CallTypeOK

\* Changing one working quantity keeps the table of them.
LEMMA WorkingType ==
    ASSUME NEW w \in [Symbols -> [Sides -> Nat]], NEW s \in Symbols, NEW d \in Sides,
           NEW n \in Nat
    PROVE  [w EXCEPT ![s][d] = n] \in [Symbols -> [Sides -> Nat]]
OBVIOUS

\* Every variable keeps its type in every reachable state.
THEOREM TypeCorrect == Spec => []TypeOK
<1>1. Init => TypeOK
  BY IdleType, GuardAssumption
  DEF Init, TypeOK, CallTypeOK, GuardInit, GuardTypeOK, Unhalted, Days, NoDate, NoneLate, Flat, Idle, Sides
<1>2. TypeOK /\ [Next]_vars => TypeOK'
  <2> SUFFICES ASSUME TypeOK, [Next]_vars PROVE TypeOK'
    OBVIOUS
  <2> USE DEF TypeOK, broker, database, history, counters, guardVars
  <2>0. ASSUME UNCHANGED call PROVE CallTypeOK'
    BY <2>0 DEF CallTypeOK
  <2>1. ASSUME NEW c \in Callers, CheckStatus(c) PROVE TypeOK'
    <3>1. CallTypeOK'
      BY <2>1, IdleType, AdvanceType DEF CheckStatus, CallType, Idle, Steps
    <3> QED BY <2>1, <3>1 DEF CheckStatus, GuardTypeOK
  <2>2. ASSUME NEW c \in Callers, GetAccount(c) PROVE TypeOK'
    <3>1. PICK a \in {cache, account} \ {NoAccount} :
             /\ call' = [call EXCEPT ![c].pc = "positions", ![c].account = a]
             /\ cache' = a
      BY <2>2 DEF GetAccount
    <3>2. a \in Accounts
      BY <3>1
    <3> DEFINE new == [call[c] EXCEPT !.pc = "positions", !.account = a]
    <3>3. call' = [call EXCEPT ![c] = new]
      BY <3>1
    <3>4. new \in CallType /\ new.pc = "positions" /\ new.sig = call[c].sig /\ new.account = a
      BY <3>2 DEF CallTypeOK, CallType, Steps
    <3>5. CallTypeOK'
      BY <2>2, <3>2, <3>3, <3>4, AdvanceType DEF GetAccount, CallTypeOK, At
    <3> QED BY <2>2, <3>1, <3>2, <3>5 DEF GetAccount, GuardTypeOK
  <2>3. ASSUME NEW c \in Callers, GetPositions(c) PROVE TypeOK'
    <3> DEFINE new == [call[c] EXCEPT !.pc = "evaluate", !.positions = held]
    <3>a. call' = [call EXCEPT ![c] = new]
      BY <2>3 DEF GetPositions
    <3>b. new \in CallType /\ new.pc = "evaluate" /\ new.sig = call[c].sig /\ new.account = call[c].account
      BY DEF CallTypeOK, CallType, Steps
    <3>1. CallTypeOK'
      BY <2>3, <3>a, <3>b, AdvanceType DEF GetPositions, CallTypeOK, At
    <3> QED BY <2>3, <3>1 DEF GetPositions, GuardTypeOK
  <2>4. ASSUME NEW c \in Callers, Evaluate(c) PROVE TypeOK'
    <3> DEFINE sig == call[c].sig
               a == call[c].account
               delta == Delta(Quantity(sig, a), call[c].positions[sig.symbol], pending'[sig.symbol])
    <3>1. sig \in Signals /\ sig.symbol \in Symbols /\ a \in Accounts
      BY <2>4, ManagerAssumption DEF Evaluate, At, CallTypeOK
    <3>2. pending' \in [Symbols -> Nat]
      BY <2>4 DEF Evaluate, Reconciled
    <3>3. call[c].positions \in [Symbols -> Int]
      BY DEF CallTypeOK, CallType
    <3>4. delta \in Nat
      BY <3>1, <3>2, <3>3, QuantityType, DeltaType
    <3>5. call' = [call EXCEPT ![c].pc = "submit", ![c].delta = delta] \/ Return(c)
      BY <2>4 DEF Evaluate
    <3>6. ASSUME call' = [call EXCEPT ![c].pc = "submit", ![c].delta = delta]
          PROVE  CallTypeOK'
      <4> DEFINE new == [call[c] EXCEPT !.pc = "submit", !.delta = delta]
      <4> HIDE DEF delta
      <4>1. call' = [call EXCEPT ![c] = new]
        BY <3>6
      <4>2. new \in CallType /\ new.pc = "submit" /\ new.sig = call[c].sig /\ new.account = a
        BY <3>4 DEF CallTypeOK, CallType, Steps
      <4> QED BY <3>1, <4>1, <4>2, AdvanceType
    <3>7. CallTypeOK'
      BY <3>5, <3>6, ReturnType
    <3>8. guard' \in [halted : BOOLEAN, haltDate : Days \cup {NoDate}]
      BY <2>4, <3>1, GuardType DEF Evaluate
    <3>9. haltDay' \in Days \cup {NoDate} /\ late' \in [Callers -> Nat]
      BY <2>4 DEF Evaluate, GuardTypeOK, NoneLate
    <3> QED BY <2>4, <3>2, <3>7, <3>8, <3>9 DEF Evaluate, GuardTypeOK
  <2>5. ASSUME NEW c \in Callers, Accept(c)
        PROVE  /\ call[c].sig \in Signals
               /\ (TypeOK' <=> CallTypeOK' /\ faults' \in Nat)
    <3>1. /\ call[c].sig \in Signals /\ call[c].sig.symbol \in Symbols
          /\ call[c].sig.strategy \in Strategies /\ call[c].delta \in Nat
      BY <2>5, ManagerAssumption DEF Accept, At, CallTypeOK, CallType
    <3>2. working' \in [Symbols -> [Sides -> Nat]]
      BY <2>5, <3>1, WorkingType DEF Accept, Side, Sides
    <3>3. late' \in [Callers -> Nat] /\ stray' \in [Strategies -> [Callers -> Nat]]
      BY <2>5, <3>1 DEF Accept
    <3>4. issued' \in Nat /\ atBroker' \subseteq Nat
      BY <2>5 DEF Accept
    <3> QED BY <2>5, <3>1, <3>2, <3>3, <3>4 DEF Accept, GuardTypeOK
  <2>6. ASSUME NEW c \in Callers, Submit(c) PROVE TypeOK'
    <3>0. issued + 1 \in Nat
      OBVIOUS
    <3> DEFINE new == [call[c] EXCEPT !.pc = "record", !.order = issued + 1]
    <3>a. call' = [call EXCEPT ![c] = new]
      BY <2>6 DEF Submit, Accept
    <3>b. new \in CallType /\ new.pc = "record" /\ new.sig = call[c].sig /\ new.account = call[c].account
      BY <3>0 DEF CallTypeOK, CallType, Steps
    <3>1. CallTypeOK'
      BY <2>6, <3>a, <3>b, AdvanceType DEF Submit, Accept, CallTypeOK, At
    <3> QED BY <2>6, <2>5, <3>1 DEF Submit
  <2>7. ASSUME NEW c \in Callers, SubmitTimesOut(c) PROVE TypeOK'
    BY <2>7, <2>5, ReturnType DEF SubmitTimesOut
  <2>8. ASSUME NEW c \in Callers, SubmitRefused(c) PROVE TypeOK'
    <3>0. issued + 1 \in Nat
      OBVIOUS
    <3> DEFINE new == [call[c] EXCEPT !.pc = "record", !.order = issued + 1]
    <3>a. call' = [call EXCEPT ![c] = new]
      BY <2>8 DEF SubmitRefused
    <3>b. new \in CallType /\ new.pc = "record" /\ new.sig = call[c].sig /\ new.account = call[c].account
      BY <3>0 DEF CallTypeOK, CallType, Steps
    <3>1. CallTypeOK'
      BY <2>8, <3>a, <3>b, AdvanceType DEF SubmitRefused, CallTypeOK, At
    <3> QED BY <2>8, <3>1 DEF SubmitRefused, GuardTypeOK
  <2>9. ASSUME NEW c \in Callers, NEW p \in {"signal", "count"},
                call' = [call EXCEPT ![c].pc = p], ~At(c, "idle"), ~At(c, "account")
        PROVE  CallTypeOK' /\ call[c].order \in Nat
    <3> DEFINE new == [call[c] EXCEPT !.pc = p]
    <3>1. call' = [call EXCEPT ![c] = new]
      BY <2>9
    <3>2. new \in CallType /\ new.pc = p /\ new.sig = call[c].sig /\ new.account = call[c].account
      BY DEF CallTypeOK, CallType, Steps
    <3> QED BY <2>9, <3>1, <3>2, AdvanceType DEF CallTypeOK, CallType, At
  <2>9a. ASSUME NEW c \in Callers, RecordOrder(c) PROVE TypeOK'
    <3>1. CallTypeOK' /\ call[c].order \in Nat
      BY <2>9, <2>9a DEF RecordOrder, At
    <3> QED BY <2>9a, <3>1 DEF RecordOrder, GuardTypeOK
  <2>9b. ASSUME NEW c \in Callers, RecordSignal(c) PROVE TypeOK'
    <3>1. CallTypeOK' /\ call[c].order \in Nat
      BY <2>9, <2>9b DEF RecordSignal, At
    <3> QED BY <2>9b, <3>1 DEF RecordSignal, GuardTypeOK
  <2>10. ASSUME NEW c \in Callers, CountPending(c) PROVE TypeOK'
    <3>1. /\ call[c].sig.symbol \in Symbols /\ call[c].delta \in Nat
      BY <2>10, ManagerAssumption DEF CountPending, At, CallTypeOK, CallType
    <3>2. pending' \in [Symbols -> Nat]
      BY <2>10, <3>1 DEF CountPending
    <3> QED BY <2>10, <3>2, ReturnType DEF CountPending, GuardTypeOK
  <2>11. ASSUME NEW c \in Callers, Abort(c) PROVE TypeOK'
    BY <2>11, ReturnType DEF Abort, GuardTypeOK
  <2>11a. ASSUME NEW c \in Callers, WriteFails(c) PROVE TypeOK'
    BY <2>11a, ReturnType DEF WriteFails, GuardTypeOK
  <2>12. ASSUME NEW s \in Symbols, NEW d \in Sides, NEW q \in 1 .. working[s][d]
         PROVE  /\ [working EXCEPT ![s][d] = @ - q] \in [Symbols -> [Sides -> Nat]]
                /\ [held EXCEPT ![s] = @ + Signed(d, q)] \in [Symbols -> Int]
    <3>1. working[s][d] \in Nat /\ q \in Nat /\ working[s][d] - q \in Nat
      OBVIOUS
    <3>2. held[s] + Signed(d, q) \in Int
      BY <3>1 DEF Signed
    <3> QED BY <3>1, <3>2, WorkingType
  <2>12a. ASSUME NEW s \in Symbols, NEW d \in Sides, Fill(s, d) PROVE TypeOK'
    BY <2>0, <2>12, <2>12a DEF Fill, GuardTypeOK
  <2>12b. ASSUME NEW s \in Symbols, NEW d \in Sides, Die(s, d) PROVE TypeOK'
    BY <2>0, <2>12, <2>12b DEF Die, GuardTypeOK
  <2>13. ASSUME NEW s \in Symbols, Close(s) PROVE TypeOK'
    <3>1. held' \in [Symbols -> Int]
      BY <2>13 DEF Close
    <3> QED BY <2>0, <2>13, <3>1 DEF Close, GuardTypeOK
  <2>14. ASSUME NEW k \in Strategies, SetStatus(k) PROVE TypeOK'
    BY <2>0, <2>14 DEF SetStatus, NoneLate, GuardTypeOK
  <2>15. CASE MoveAccount \/ RefreshCache
    BY <2>0, <2>15 DEF MoveAccount, RefreshCache, GuardTypeOK
  <2>15a. CASE Midnight
    <3>1. today' \in Days
      BY <2>15a, GuardAssumption DEF Midnight, NextDay, Days, GuardTypeOK
    <3> QED BY <2>0, <2>15a, <3>1 DEF Midnight, NoneLate, GuardTypeOK
  <2>16. CASE Restart
    <3>1. CallTypeOK'
      BY <2>16, IdleType DEF Restart, CallTypeOK, Idle
    <3> QED BY <2>16, <3>1 DEF Restart, NoneLate, Flat, Unhalted, NoDate, GuardTypeOK
  <2>17. CASE UNCHANGED vars
    BY <2>0, <2>17 DEF vars, GuardTypeOK
  <2> QED
    BY <2>1, <2>2, <2>3, <2>4, <2>6, <2>7, <2>8, <2>9a, <2>9b, <2>10, <2>11, <2>11a, <2>12a, <2>12b, <2>13, <2>14,
       <2>15, <2>15a, <2>16, <2>17
    DEF Next, Environment, Process
<1> QED BY <1>1, <1>2, PTL DEF Spec

----------------------------------------------------------------------------
\* The halt.

\* On the day of a halt the latch stays down, a caller has either sent its one
\* late order or may still send it, and one caller has done neither.
HaltInv ==
    /\ haltDay <= today
    /\ today = haltDay =>
          /\ guard.halted /\ guard.haltDate = today
          /\ \A c \in Callers : late[c] <= 1 /\ (At(c, "submit") => late[c] = 0)
          /\ \E c \in Callers : late[c] = 0 /\ ~At(c, "submit")

\* A step that leaves the latch, the day and the counts alone and brings no
\* caller to the point of submitting.
HaltQuiet ==
    /\ UNCHANGED <<guardVars, haltDay, late>>
    /\ \A c \in Callers : At(c, "submit")' => At(c, "submit")

\* Such a step keeps the bound.
LEMMA HaltQuietStep ==
    ASSUME HaltInv, HaltQuiet
    PROVE  HaltInv'
BY DEF HaltInv, HaltQuiet, At, guardVars

\* The risk checks: the caller that finds the loss returns, and none passes
\* while the latch is down.
LEMMA EvaluateHalt ==
    ASSUME TypeOK, HaltInv, NEW c \in Callers, Evaluate(c)
    PROVE  HaltInv'
<1> DEFINE a == call[c].account
           halts == guard' # guard /\ guard'.halted
<1>1. /\ guard' = AfterDailyLoss(a) /\ today' = today
      /\ haltDay' = IF halts THEN today ELSE haltDay
      /\ late' = IF halts THEN NoneLate ELSE late
  BY DEF Evaluate
<1>2. \/ Return(c)
      \/ ~DailyLossRaises(a) /\ \E n : call' = [call EXCEPT ![c].pc = "submit", ![c].delta = n]
  BY DEF Evaluate
<1>3. call \in [Callers -> CallType]
  BY DEF TypeOK, CallTypeOK
<1>4. \A e \in Callers \ {c} : At(e, "submit")' <=> At(e, "submit")
  BY <1>2, <1>3 DEF At, Return
<1>5. CASE halts
  <2>1. guard'.haltDate = today /\ DailyLossRaises(a)
    BY <1>1, <1>5 DEF AfterDailyLoss, AfterReset, DailyLossRaises, Unhalted
  <2>2. ~At(c, "submit")'
    BY <1>2, <1>3, <2>1 DEF Return, At, Idle
  <2>3. \A e \in Callers : late'[e] = 0
    BY <1>1, <1>5 DEF NoneLate
  <2> QED BY <1>1, <1>5, <2>1, <2>2, <2>3 DEF HaltInv, TypeOK, GuardTypeOK, Days
<1>6. CASE ~halts /\ today = haltDay
  <2>1. guard.halted /\ guard.haltDate = today
    BY <1>6 DEF HaltInv
  <2>2. AfterReset = guard /\ DailyLossRaises(a) /\ guard' = guard
    BY <1>1, <2>1 DEF AfterReset, AfterDailyLoss, DailyLossRaises, TypeOK, GuardTypeOK, Days
  <2>3. ~At(c, "submit")'
    BY <1>2, <1>3, <2>2 DEF Return, At, Idle
  <2> QED BY <1>1, <1>4, <1>6, <2>1, <2>2, <2>3 DEF HaltInv
<1>7. CASE ~halts /\ today # haltDay
  BY <1>1, <1>7 DEF HaltInv
<1> QED BY <1>5, <1>6, <1>7

\* An order sent after the halt was checked before it, and is its caller's first.
LEMMA AcceptHalt ==
    ASSUME TypeOK, HaltInv, NEW c \in Callers, Accept(c),
           \A e \in Callers : At(e, "submit")' <=> At(e, "submit") /\ e # c
    PROVE  HaltInv'
<1>1. /\ At(c, "submit") /\ UNCHANGED <<guard, today, haltDay>>
      /\ late' = IF today = haltDay THEN [late EXCEPT ![c] = @ + 1] ELSE late
  BY DEF Accept, guardVars
<1>2. late \in [Callers -> Nat]
  BY DEF TypeOK
<1> QED BY <1>1, <1>2 DEF HaltInv

\* While a halt lasts, a caller sends at most one order that was checked before
\* it, and some caller sends none.
THEOREM HaltBound == Spec => []HaltBoundsLateOrders
<1>1. Init => HaltInv
  BY DEF Init, HaltInv, GuardInit, NoDate
<1>2. TypeOK /\ HaltInv /\ [Next]_vars => HaltInv'
  <2> SUFFICES ASSUME TypeOK, HaltInv, [Next]_vars PROVE HaltInv'
    OBVIOUS
  <2>0. call \in [Callers -> CallType]
    BY DEF TypeOK, CallTypeOK
  <2>1. ASSUME NEW c \in Callers, CheckStatus(c) PROVE HaltInv'
    BY <2>0, <2>1, HaltQuietStep DEF CheckStatus, HaltQuiet, At, history, Idle
  <2>2. ASSUME NEW c \in Callers, GetAccount(c) PROVE HaltInv'
    BY <2>0, <2>2, HaltQuietStep DEF GetAccount, HaltQuiet, At, history
  <2>3. ASSUME NEW c \in Callers, GetPositions(c) PROVE HaltInv'
    BY <2>0, <2>3, HaltQuietStep DEF GetPositions, HaltQuiet, At, history
  <2>4. ASSUME NEW c \in Callers, Evaluate(c) PROVE HaltInv'
    BY <2>4, EvaluateHalt
  <2>5. ASSUME NEW c \in Callers, Submit(c) PROVE HaltInv'
    <3>1. At(c, "submit") /\ Accept(c)
      BY <2>5 DEF Submit, Accept
    <3>2. \A e \in Callers : At(e, "submit")' <=> At(e, "submit") /\ e # c
      BY <2>0, <2>5 DEF Submit, At, CallType
    <3> QED BY <3>1, <3>2, AcceptHalt
  <2>6. ASSUME NEW c \in Callers, SubmitTimesOut(c) PROVE HaltInv'
    BY <2>0, <2>6, AcceptHalt DEF SubmitTimesOut, Accept, At, Return, Idle
  <2>7. ASSUME NEW c \in Callers, SubmitRefused(c) PROVE HaltInv'
    BY <2>0, <2>7, HaltQuietStep DEF SubmitRefused, HaltQuiet, At, history
  <2>8. ASSUME NEW c \in Callers, RecordOrder(c) PROVE HaltInv'
    BY <2>0, <2>8, HaltQuietStep DEF RecordOrder, HaltQuiet, At, history
  <2>9. ASSUME NEW c \in Callers, RecordSignal(c) PROVE HaltInv'
    BY <2>0, <2>9, HaltQuietStep DEF RecordSignal, HaltQuiet, At, history
  <2>10. ASSUME NEW c \in Callers, CountPending(c) PROVE HaltInv'
    BY <2>0, <2>10, HaltQuietStep DEF CountPending, HaltQuiet, At, history, Return, Idle
  <2>11. ASSUME NEW c \in Callers, Abort(c) PROVE HaltInv'
    BY <2>0, <2>11, HaltQuietStep DEF Abort, HaltQuiet, At, history, Return, Idle
  <2>12. ASSUME NEW c \in Callers, WriteFails(c) PROVE HaltInv'
    BY <2>0, <2>12, HaltQuietStep DEF WriteFails, HaltQuiet, At, history, Return, Idle
  <2>13. ASSUME NEW s \in Symbols, NEW d \in Sides, Fill(s, d) \/ Die(s, d) PROVE HaltInv'
    BY <2>13, HaltQuietStep DEF Fill, Die, HaltQuiet, At, history
  <2>14. ASSUME NEW s \in Symbols, Close(s) PROVE HaltInv'
    BY <2>14, HaltQuietStep DEF Close, HaltQuiet, At, history
  <2>15. ASSUME NEW k \in Strategies, SetStatus(k) PROVE HaltInv'
    BY <2>15, HaltQuietStep DEF SetStatus, HaltQuiet, At
  <2>16. CASE MoveAccount \/ RefreshCache
    BY <2>16, HaltQuietStep DEF MoveAccount, RefreshCache, HaltQuiet, At, history
  <2>17. CASE Midnight
    <3>1. today \in Nat /\ haltDay \in Nat
      BY GuardAssumption DEF TypeOK, GuardTypeOK, Days, NoDate
    <3> QED BY <2>17, <3>1 DEF Midnight, NextDay, HaltInv
  <2>18. CASE Restart
    BY <2>18, GuardAssumption DEF Restart, HaltInv, TypeOK, GuardTypeOK, Days, NoDate
  <2>19. CASE UNCHANGED vars
    BY <2>19, HaltQuietStep DEF vars, HaltQuiet, At, history
  <2> QED
    BY <2>1, <2>2, <2>3, <2>4, <2>5, <2>6, <2>7, <2>8, <2>9, <2>10, <2>11, <2>12, <2>13, <2>14,
       <2>15, <2>16, <2>17, <2>18, <2>19
    DEF Next, Environment, Process
<1>3. HaltInv => HaltBoundsLateOrders
  BY DEF HaltInv, HaltBoundsLateOrders
<1> QED BY <1>1, <1>2, <1>3, TypeCorrect, PTL DEF Spec

----------------------------------------------------------------------------
\* A demotion.

\* The broker has not yet answered the call of c, made for strategy k.
OnItsWay(c, k) ==
    /\ call[c].pc \in {"account", "positions", "evaluate", "submit"}
    /\ call[c].sig.strategy = k

\* After a demotion a caller has either sent its one late order for the
\* strategy or may still be on its way to it.
DemotionInv ==
    \A k \in Strategies : ~status[k] =>
        \A c \in Callers : stray[k][c] <= 1 /\ (OnItsWay(c, k) => stray[k][c] = 0)

DemotionQuiet ==
    /\ UNCHANGED <<status, stray>>
    /\ \A c \in Callers : \A k \in Strategies : OnItsWay(c, k)' => OnItsWay(c, k)

\* A step that leaves the statuses alone and sets no call on its way keeps the
\* bound.
LEMMA DemotionQuietStep ==
    ASSUME DemotionInv, DemotionQuiet
    PROVE  DemotionInv'
BY DEF DemotionInv, DemotionQuiet

\* An order sent after the demotion was begun before it, and is its caller's
\* first.
LEMMA AcceptDemotion ==
    ASSUME TypeOK, DemotionInv, NEW c \in Callers, Accept(c),
           \A e \in Callers : \A k \in Strategies : OnItsWay(e, k)' => OnItsWay(e, k) /\ e # c
    PROVE  DemotionInv'
<1>1. call[c].sig.strategy \in Strategies /\ OnItsWay(c, call[c].sig.strategy)
  BY ManagerAssumption DEF Accept, At, TypeOK, CallTypeOK, OnItsWay
<1>2. /\ UNCHANGED status
      /\ stray' = IF status[call[c].sig.strategy] THEN stray
                  ELSE [stray EXCEPT ![call[c].sig.strategy][c] = @ + 1]
  BY DEF Accept, database
<1>3. stray \in [Strategies -> [Callers -> Nat]]
  BY DEF TypeOK
<1>4. CASE status[call[c].sig.strategy]
  BY <1>2, <1>4 DEF DemotionInv
<1>5. CASE ~status[call[c].sig.strategy]
  <2>1. stray[call[c].sig.strategy][c] = 0
    BY <1>1, <1>5 DEF DemotionInv
  <2>2. \A k \in Strategies, e \in Callers :
           stray'[k][e] = IF k = call[c].sig.strategy /\ e = c THEN 1 ELSE stray[k][e]
    BY <1>1, <1>2, <1>3, <1>5, <2>1
  <2> QED BY <1>1, <1>2, <2>1, <2>2 DEF DemotionInv
<1> QED BY <1>4, <1>5

\* A demoted strategy gets at most one more order from each caller: the one
\* whose call had read 'live' before.
THEOREM DemotionBound == Spec => []DemotionBoundsLateOrders
<1>1. Init => DemotionInv
  BY DEF Init, DemotionInv, NoneLate, OnItsWay, Idle
<1>2. TypeOK /\ DemotionInv /\ [Next]_vars => DemotionInv'
  <2> SUFFICES ASSUME TypeOK, DemotionInv, [Next]_vars PROVE DemotionInv'
    OBVIOUS
  <2>0. call \in [Callers -> CallType]
    BY DEF TypeOK, CallTypeOK
  <2>1. ASSUME NEW c \in Callers, CheckStatus(c) PROVE DemotionInv'
    <3>1. PICK sig \in Signals :
             /\ status[sig.strategy]
             /\ call' = [call EXCEPT ![c] = [Idle EXCEPT !.pc = "account", !.sig = sig]]
      BY <2>1 DEF CheckStatus, MayTrade
    <3>2. \A e \in Callers, k \in Strategies :
             OnItsWay(e, k)' => OnItsWay(e, k) \/ k = sig.strategy
      BY <2>0, <3>1 DEF OnItsWay, Idle
    <3> QED BY <2>1, <3>1, <3>2 DEF CheckStatus, DemotionInv, database, history
  <2>2. ASSUME NEW c \in Callers, GetAccount(c) PROVE DemotionInv'
    BY <2>0, <2>2, DemotionQuietStep
    DEF GetAccount, DemotionQuiet, OnItsWay, At, database, history, CallType
  <2>3. ASSUME NEW c \in Callers, GetPositions(c) PROVE DemotionInv'
    BY <2>0, <2>3, DemotionQuietStep
    DEF GetPositions, DemotionQuiet, OnItsWay, At, database, history, CallType
  <2>4. ASSUME NEW c \in Callers, Evaluate(c) PROVE DemotionInv'
    <3>1. UNCHANGED <<status, stray>> /\ At(c, "evaluate")
      BY <2>4 DEF Evaluate, database
    <3>2. Return(c) \/ \E n : call' = [call EXCEPT ![c].pc = "submit", ![c].delta = n]
      BY <2>4 DEF Evaluate
    <3>3. \A e \in Callers, k \in Strategies : OnItsWay(e, k)' => OnItsWay(e, k)
      BY <2>0, <3>1, <3>2 DEF OnItsWay, At, Return, Idle, CallType
    <3> QED BY <3>1, <3>3, DemotionQuietStep DEF DemotionQuiet
  <2>5. ASSUME NEW c \in Callers, Submit(c) PROVE DemotionInv'
    <3>1. \A e \in Callers, k \in Strategies : OnItsWay(e, k)' => OnItsWay(e, k) /\ e # c
      BY <2>0, <2>5 DEF Submit, OnItsWay, CallType
    <3> QED BY <2>5, <3>1, AcceptDemotion DEF Submit
  <2>6. ASSUME NEW c \in Callers, SubmitTimesOut(c) PROVE DemotionInv'
    <3>1. \A e \in Callers, k \in Strategies : OnItsWay(e, k)' => OnItsWay(e, k) /\ e # c
      BY <2>0, <2>6 DEF SubmitTimesOut, OnItsWay, Return, Idle
    <3> QED BY <2>6, <3>1, AcceptDemotion DEF SubmitTimesOut
  <2>7. ASSUME NEW c \in Callers, SubmitRefused(c) PROVE DemotionInv'
    BY <2>0, <2>7, DemotionQuietStep
    DEF SubmitRefused, DemotionQuiet, OnItsWay, database, history, CallType
  <2>8. ASSUME NEW c \in Callers, RecordOrder(c) PROVE DemotionInv'
    BY <2>0, <2>8, DemotionQuietStep
    DEF RecordOrder, DemotionQuiet, OnItsWay, history, CallType
  <2>9. ASSUME NEW c \in Callers, RecordSignal(c) PROVE DemotionInv'
    BY <2>0, <2>9, DemotionQuietStep
    DEF RecordSignal, DemotionQuiet, OnItsWay, history, CallType
  <2>10. ASSUME NEW c \in Callers, CountPending(c) PROVE DemotionInv'
    BY <2>0, <2>10, DemotionQuietStep
    DEF CountPending, DemotionQuiet, OnItsWay, database, history, Return, Idle
  <2>11. ASSUME NEW c \in Callers, Abort(c) PROVE DemotionInv'
    BY <2>0, <2>11, DemotionQuietStep
    DEF Abort, DemotionQuiet, OnItsWay, database, history, Return, Idle
  <2>12. ASSUME NEW c \in Callers, WriteFails(c) PROVE DemotionInv'
    BY <2>0, <2>12, DemotionQuietStep
    DEF WriteFails, DemotionQuiet, OnItsWay, database, history, Return, Idle
  <2>13. ASSUME NEW s \in Symbols, NEW d \in Sides, Fill(s, d) \/ Die(s, d) PROVE DemotionInv'
    BY <2>13, DemotionQuietStep DEF Fill, Die, DemotionQuiet, OnItsWay, database, history
  <2>14. ASSUME NEW s \in Symbols, Close(s) PROVE DemotionInv'
    BY <2>14, DemotionQuietStep DEF Close, DemotionQuiet, OnItsWay, database, history
  <2>15. ASSUME NEW k \in Strategies, SetStatus(k) PROVE DemotionInv'
    <3>1. /\ \A j \in Strategies \ {k} : status'[j] = status[j] /\ stray'[j] = stray[j]
          /\ stray'[k] = NoneLate /\ UNCHANGED call
      BY <2>15 DEF SetStatus, TypeOK
    <3> QED BY <3>1 DEF DemotionInv, NoneLate, OnItsWay
  <2>16. CASE MoveAccount \/ RefreshCache \/ Midnight
    BY <2>16, DemotionQuietStep
    DEF MoveAccount, RefreshCache, Midnight, DemotionQuiet, OnItsWay, database, history
  <2>17. CASE Restart
    BY <2>17, DemotionQuietStep DEF Restart, DemotionQuiet, OnItsWay, database, Idle
  <2>18. CASE UNCHANGED vars
    BY <2>18, DemotionQuietStep DEF vars, DemotionQuiet, OnItsWay, database, history
  <2> QED
    BY <2>1, <2>2, <2>3, <2>4, <2>5, <2>6, <2>7, <2>8, <2>9, <2>10, <2>11, <2>12, <2>13, <2>14,
       <2>15, <2>16, <2>17, <2>18
    DEF Next, Environment, Process
<1>3. DemotionInv => DemotionBoundsLateOrders
  BY DEF DemotionInv, DemotionBoundsLateOrders
<1> QED BY <1>1, <1>2, <1>3, TypeCorrect, PTL DEF Spec

----------------------------------------------------------------------------
\* The audit trail.

\* Ids the broker has, the tables lack and no call still carries.
Lost == atBroker \ (rows \cup {call[c].order : c \in Callers})

\* A call has no id before its order is sent, and an id with a row after the
\* orders row is committed.
OrderIdInv ==
    /\ 0 \notin atBroker
    /\ \A c \in Callers :
          /\ call[c].pc \notin {"record", "signal", "count"} => call[c].order = 0
          /\ call[c].pc \in {"signal", "count"} => call[c].order \in rows

AuditInv ==
    /\ OrderIdInv
    /\ signalRows \subseteq rows
    /\ IsFiniteSet(Lost)
    /\ Cardinality(Lost) <= faults + restarts * Cardinality(Callers)

\* How a step moves the lost ids: none is lost, one is lost to a failure, or
\* those of the calls are lost to a restart.
NoneLost == Lost' \subseteq Lost /\ faults' >= faults /\ restarts' = restarts
OneLost == \E id : Lost' \subseteq Lost \cup {id} /\ faults' = faults + 1 /\ restarts' = restarts
CallsLost ==
    /\ Lost' \subseteq Lost \cup {call[c].order : c \in Callers}
    /\ faults' = faults /\ restarts' = restarts + 1

\* The ids of the calls are no more than the callers.
LEMMA CallIds ==
    LET ids == {call[c].order : c \in Callers}
    IN  IsFiniteSet(ids) /\ Cardinality(ids) <= Cardinality(Callers)
<1> DEFINE ids == {call[c].order : c \in Callers}
           carried == [c \in Callers |-> call[c].order]
<1>1. carried \in Surjection(Callers, ids)
  BY DEF Surjection
<1> QED BY <1>1, FS_Surjection, ManagerAssumption

\* Each such step keeps the count.
LEMMA LostCount ==
    ASSUME TypeOK, TypeOK', AuditInv, NoneLost \/ OneLost \/ CallsLost
    PROVE  /\ IsFiniteSet(Lost)'
           /\ Cardinality(Lost)' <= (faults + restarts * Cardinality(Callers))'
<1> DEFINE n == Cardinality(Callers)
<1>1. n \in Nat
  BY FS_CardinalityType, ManagerAssumption
<1>2. faults \in Nat /\ restarts \in Nat /\ faults' \in Nat /\ restarts * n \in Nat
  BY <1>1 DEF TypeOK
<1>3. IsFiniteSet(Lost) /\ Cardinality(Lost) \in Nat /\ Cardinality(Lost) <= faults + restarts * n
  BY FS_CardinalityType DEF AuditInv
<1>4. CASE NoneLost
  <2>1. IsFiniteSet(Lost') /\ Cardinality(Lost') <= Cardinality(Lost) /\ Cardinality(Lost') \in Nat
    BY <1>3, <1>4, FS_Subset, FS_CardinalityType DEF NoneLost
  <2> QED BY <1>2, <1>3, <1>4, <2>1 DEF NoneLost
<1>5. CASE OneLost
  <2>1. PICK id : Lost' \subseteq Lost \cup {id} /\ faults' = faults + 1 /\ restarts' = restarts
    BY <1>5 DEF OneLost
  <2>2. IsFiniteSet(Lost \cup {id}) /\ Cardinality(Lost \cup {id}) <= Cardinality(Lost) + 1
    BY <1>3, FS_AddElement
  <2>3. /\ IsFiniteSet(Lost') /\ Cardinality(Lost') \in Nat
        /\ Cardinality(Lost') <= Cardinality(Lost \cup {id})
        /\ Cardinality(Lost \cup {id}) \in Nat
    BY <2>1, <2>2, FS_Subset, FS_CardinalityType
  <2> QED BY <1>2, <1>3, <2>1, <2>2, <2>3
<1>6. CASE CallsLost
  <2> DEFINE ids == {call[c].order : c \in Callers}
  <2>1. IsFiniteSet(ids) /\ Cardinality(ids) <= n /\ Cardinality(ids) \in Nat
    BY CallIds, FS_CardinalityType
  <2>2. Cardinality(Lost \cap ids) \in Nat
    BY <1>3, FS_Intersection, FS_CardinalityType
  <2>3. /\ IsFiniteSet(Lost \cup ids) /\ Cardinality(Lost \cup ids) \in Nat
        /\ Cardinality(Lost \cup ids) <= Cardinality(Lost) + Cardinality(ids)
    <3>1. /\ IsFiniteSet(Lost \cup ids)
          /\ Cardinality(Lost \cup ids) = Cardinality(Lost) + Cardinality(ids) - Cardinality(Lost \cap ids)
      BY <1>3, <2>1, FS_Union
    <3>2. Cardinality(Lost \cup ids) \in Nat
      BY <3>1, FS_CardinalityType
    <3> QED BY <1>3, <2>1, <2>2, <3>1, <3>2
  <2>4. /\ IsFiniteSet(Lost') /\ Cardinality(Lost') \in Nat
        /\ Cardinality(Lost') <= Cardinality(Lost \cup ids)
    BY <1>6, <2>3, FS_Subset, FS_CardinalityType DEF CallsLost
  <2>5. (restarts + 1) * n = restarts * n + n
    BY <1>1, <1>2 DEF TypeOK
  <2> QED BY <1>1, <1>2, <1>3, <1>6, <2>1, <2>3, <2>4, <2>5 DEF CallsLost
<1> QED BY <1>4, <1>5, <1>6

\* A step that sends and writes nothing, and ends or carries on the calls
\* whose order is recorded or not yet sent.
AuditQuiet ==
    /\ UNCHANGED <<atBroker, rows, signalRows, faults, restarts>>
    /\ \A c \in Callers :
          \/ call'[c].order = call[c].order /\ call'[c].pc = call[c].pc
          \/ /\ call[c].pc # "record" /\ call'[c].order = 0
             /\ call'[c].pc \notin {"record", "signal", "count"}

\* Such a step loses no id.
LEMMA AuditQuietStep ==
    ASSUME TypeOK, TypeOK', AuditInv, AuditQuiet
    PROVE  AuditInv'
<1>1. OrderIdInv' /\ (signalRows \subseteq rows)'
  BY DEF AuditInv, AuditQuiet, OrderIdInv
<1>2. NoneLost
  <2>1. ASSUME NEW c \in Callers, call[c].order \in atBroker \ rows
        PROVE  call'[c].order = call[c].order
    <3>1. call[c].pc \in Steps /\ call[c].pc = "record"
      BY <2>1 DEF AuditInv, OrderIdInv, TypeOK, CallTypeOK, CallType, Steps
    <3> QED BY <3>1 DEF AuditQuiet
  <2> QED BY <2>1 DEF NoneLost, Lost, AuditQuiet, TypeOK
<1> QED BY <1>1, <1>2, LostCount DEF AuditInv

\* The broker's orders are in the tables, on their way there, or were lost to
\* one of the failures or, at most one per caller, to one of the restarts.
THEOREM AuditBound == Spec => []AuditTrail
<1>1. Init => AuditInv
  <2> SUFFICES ASSUME Init PROVE AuditInv
    OBVIOUS
  <2>1. Lost = {}
    BY DEF Init, Lost
  <2>2. IsFiniteSet(Lost) /\ Cardinality(Lost) = 0
    BY <2>1, FS_EmptySet
  <2>3. faults + restarts * Cardinality(Callers) = 0
    BY FS_CardinalityType, ManagerAssumption DEF Init
  <2> QED BY <2>2, <2>3 DEF Init, AuditInv, OrderIdInv, Idle
<1>2. TypeOK /\ TypeOK' /\ AuditInv /\ [Next]_vars => AuditInv'
  <2> SUFFICES ASSUME TypeOK, TypeOK', AuditInv, [Next]_vars PROVE AuditInv'
    OBVIOUS
  <2>0. call \in [Callers -> CallType]
    BY DEF TypeOK, CallTypeOK
  <2>a. OrderIdInv /\ signalRows \subseteq rows
    BY DEF AuditInv
  <2>1. ASSUME NEW c \in Callers, CheckStatus(c) \/ GetAccount(c) \/ GetPositions(c) \/ Abort(c)
        PROVE  AuditInv'
    <3>1. /\ UNCHANGED <<atBroker, rows, signalRows, faults, restarts>>
          /\ call[c].pc \notin {"record", "signal", "count"}
      BY <2>1 DEF CheckStatus, GetAccount, GetPositions, Abort, At, broker, database, counters
    <3>2. call[c].order = 0
      BY <2>a, <3>1 DEF OrderIdInv
    <3>3. /\ call'[c].order = 0 /\ call'[c].pc \notin {"record", "signal", "count"}
          /\ \A e \in Callers \ {c} : call'[e] = call[e]
      <4>1. CASE CheckStatus(c)
        BY <2>0, <4>1 DEF CheckStatus, Idle
      <4>2. CASE GetAccount(c)
        BY <2>0, <3>2, <4>2 DEF GetAccount, CallType
      <4>3. CASE GetPositions(c)
        BY <2>0, <3>2, <4>3 DEF GetPositions, CallType
      <4>4. CASE Abort(c)
        BY <2>0, <4>4 DEF Abort, Return, Idle
      <4> QED BY <2>1, <4>1, <4>2, <4>3, <4>4
    <3> QED BY <3>1, <3>3, AuditQuietStep DEF AuditQuiet
  <2>2. ASSUME NEW c \in Callers, Evaluate(c) PROVE AuditInv'
    <3>1. /\ UNCHANGED <<atBroker, rows, signalRows, faults, restarts>>
          /\ call[c].pc = "evaluate"
          /\ Return(c) \/ \E n : call' = [call EXCEPT ![c].pc = "submit", ![c].delta = n]
      BY <2>2 DEF Evaluate, At, broker, database, counters
    <3>2. call[c].order = 0
      BY <2>a, <3>1 DEF OrderIdInv
    <3>3. /\ call'[c].order = 0 /\ call'[c].pc \notin {"record", "signal", "count"}
          /\ \A e \in Callers \ {c} : call'[e] = call[e]
      BY <2>0, <3>1, <3>2 DEF Return, Idle, CallType
    <3> QED BY <3>1, <3>3, AuditQuietStep DEF AuditQuiet
  <2>3. ASSUME NEW c \in Callers, Submit(c) PROVE AuditInv'
    <3>1. /\ UNCHANGED <<rows, signalRows, faults, restarts>>
          /\ atBroker' = atBroker \cup {issued + 1} /\ issued \in Nat
          /\ call[c].pc = "submit" /\ call[c].order = 0
          /\ call' = [call EXCEPT ![c].pc = "record", ![c].order = issued + 1]
      BY <2>3, <2>a DEF Submit, Accept, At, database, OrderIdInv, TypeOK
    <3>2. call'[c].order = issued + 1 /\ \A e \in Callers \ {c} : call'[e] = call[e]
      BY <2>0, <3>1 DEF CallType
    <3>3. OrderIdInv'
      BY <2>0, <2>a, <3>1 DEF OrderIdInv, CallType
    <3>4. NoneLost
      <4>1. 0 \notin atBroker /\ faults \in Nat
        BY <2>a DEF OrderIdInv, TypeOK
      <4>2. ASSUME NEW id \in Lost' PROVE id \in Lost
        <5>1. id \in atBroker' \ rows /\ \A e \in Callers : id # call'[e].order
          BY <3>1, <4>2 DEF Lost
        <5>2. id \in atBroker /\ \A e \in Callers : id # call[e].order
          BY <3>1, <3>2, <4>1, <5>1
        <5> QED BY <5>1, <5>2 DEF Lost
      <4> QED BY <3>1, <4>1, <4>2 DEF NoneLost
    <3> QED BY <2>a, <3>1, <3>3, <3>4, LostCount DEF AuditInv
  <2>4. ASSUME NEW c \in Callers, SubmitTimesOut(c) PROVE AuditInv'
    <3>1. /\ UNCHANGED <<rows, signalRows, restarts>> /\ faults' = faults + 1
          /\ atBroker' = atBroker \cup {issued + 1} /\ issued \in Nat
          /\ call[c].pc = "submit" /\ call[c].order = 0
          /\ call' = [call EXCEPT ![c] = Idle]
      BY <2>4, <2>a DEF SubmitTimesOut, Accept, Return, At, database, OrderIdInv, TypeOK
    <3>2. call'[c].order = call[c].order /\ \A e \in Callers \ {c} : call'[e] = call[e]
      BY <2>0, <3>1 DEF Idle
    <3>3. OrderIdInv'
      BY <2>0, <2>a, <3>1 DEF OrderIdInv, Idle
    <3>4. Lost' \subseteq Lost \cup {issued + 1}
      BY <3>1, <3>2 DEF Lost
    <3>5. OneLost
      BY <3>1, <3>4 DEF OneLost
    <3> QED BY <2>a, <3>1, <3>3, <3>5, LostCount DEF AuditInv
  <2>5. ASSUME NEW c \in Callers, SubmitRefused(c) PROVE AuditInv'
    <3>1. /\ UNCHANGED <<atBroker, rows, signalRows, restarts>> /\ faults' = faults + 1
          /\ call[c].pc = "submit" /\ call[c].order = 0 /\ issued \in Nat
          /\ call' = [call EXCEPT ![c].pc = "record", ![c].order = issued + 1]
      BY <2>5, <2>a DEF SubmitRefused, At, broker, database, OrderIdInv, TypeOK
    <3>2. \A e \in Callers \ {c} : call'[e] = call[e]
      BY <2>0, <3>1
    <3>3. OrderIdInv'
      BY <2>0, <2>a, <3>1 DEF OrderIdInv, CallType
    <3>4. NoneLost
      <4>1. 0 \notin atBroker /\ faults \in Nat
        BY <2>a DEF OrderIdInv, TypeOK
      <4>2. ASSUME NEW id \in Lost' PROVE id \in Lost
        <5>1. id \in atBroker' \ rows /\ \A e \in Callers : id # call'[e].order
          BY <3>1, <4>2 DEF Lost
        <5>2. id \in atBroker /\ \A e \in Callers : id # call[e].order
          BY <3>1, <3>2, <4>1, <5>1
        <5> QED BY <5>1, <5>2 DEF Lost
      <4> QED BY <3>1, <4>1, <4>2 DEF NoneLost
    <3> QED BY <2>a, <3>1, <3>3, <3>4, LostCount DEF AuditInv
  <2>6. ASSUME NEW c \in Callers, RecordOrder(c) PROVE AuditInv'
    <3>1. /\ UNCHANGED <<atBroker, signalRows, faults, restarts>>
          /\ rows' = rows \cup {call[c].order} /\ call[c].pc = "record"
          /\ call' = [call EXCEPT ![c].pc = "signal"]
      BY <2>6 DEF RecordOrder, At, broker, counters
    <3>2. \A e \in Callers : call'[e].order = call[e].order
      BY <2>0, <3>1 DEF CallType
    <3>3. OrderIdInv'
      BY <2>0, <2>a, <3>1, <3>2 DEF OrderIdInv, CallType
    <3>4. NoneLost
      BY <3>1, <3>2 DEF NoneLost, Lost, TypeOK
    <3> QED BY <2>a, <3>1, <3>3, <3>4, LostCount DEF AuditInv
  <2>7. ASSUME NEW c \in Callers, RecordSignal(c) PROVE AuditInv'
    <3>1. /\ UNCHANGED <<atBroker, rows, faults, restarts>>
          /\ signalRows' = signalRows \cup {call[c].order} /\ call[c].pc = "signal"
          /\ call' = [call EXCEPT ![c].pc = "count"]
      BY <2>7 DEF RecordSignal, At, broker, counters
    <3>2. \A e \in Callers : call'[e].order = call[e].order
      BY <2>0, <3>1 DEF CallType
    <3>3. OrderIdInv' /\ (signalRows \subseteq rows)'
      BY <2>0, <2>a, <3>1, <3>2 DEF OrderIdInv, CallType
    <3>4. NoneLost
      BY <3>1, <3>2 DEF NoneLost, Lost, TypeOK
    <3> QED BY <3>3, <3>4, LostCount DEF AuditInv
  <2>8. ASSUME NEW c \in Callers, CountPending(c) PROVE AuditInv'
    <3>1. /\ UNCHANGED <<atBroker, rows, signalRows, faults, restarts>>
          /\ call[c].pc = "count" /\ call' = [call EXCEPT ![c] = Idle]
      BY <2>8 DEF CountPending, At, Return, broker, database, counters
    <3> QED BY <2>0, <3>1, AuditQuietStep DEF AuditQuiet, Idle
  <2>9. ASSUME NEW c \in Callers, WriteFails(c) PROVE AuditInv'
    <3>1. /\ UNCHANGED <<atBroker, rows, signalRows, restarts>> /\ faults' = faults + 1
          /\ call' = [call EXCEPT ![c] = Idle]
      BY <2>9 DEF WriteFails, Return, broker, database
    <3>2. OrderIdInv'
      BY <2>0, <2>a, <3>1 DEF OrderIdInv, Idle
    <3>3. Lost' \subseteq Lost \cup {call[c].order}
      BY <2>0, <3>1 DEF Lost
    <3>4. OneLost
      BY <3>1, <3>3 DEF OneLost
    <3> QED BY <2>a, <3>1, <3>2, <3>4, LostCount DEF AuditInv
  <2>10. CASE \/ \E s \in Symbols : Close(s) \/ \E d \in Sides : Fill(s, d) \/ Die(s, d)
              \/ \E k \in Strategies : SetStatus(k)
              \/ MoveAccount \/ RefreshCache \/ Midnight \/ UNCHANGED vars
    BY <2>10, AuditQuietStep
    DEF Close, Fill, Die, SetStatus, MoveAccount, RefreshCache, Midnight, vars, AuditQuiet,
        broker, database, counters
  <2>11. CASE Restart
    <3>1. /\ UNCHANGED <<atBroker, rows, signalRows, faults>> /\ restarts' = restarts + 1
          /\ call' = [c \in Callers |-> Idle]
      BY <2>11 DEF Restart, broker, database
    <3>2. OrderIdInv'
      BY <2>a, <3>1 DEF OrderIdInv, Idle
    <3>3. CallsLost
      BY <3>1 DEF CallsLost, Lost
    <3> QED BY <2>a, <3>1, <3>2, <3>3, LostCount DEF AuditInv
  <2> QED
    BY <2>1, <2>2, <2>3, <2>4, <2>5, <2>6, <2>7, <2>8, <2>9, <2>10, <2>11
    DEF Next, Environment, Process
<1>3. AuditInv => AuditTrail
  BY DEF AuditInv, AuditTrail, Lost
<1> QED BY <1>1, <1>2, <1>3, TypeCorrect, PTL DEF Spec
=============================================================================
