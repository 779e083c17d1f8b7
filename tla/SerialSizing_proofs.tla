------------------------ MODULE SerialSizing_proofs --------------------------
(***************************************************************************)
(* Delta sizing keeps its promise when process_signal is called by one     *)
(* task, every order gets an answer and is recorded, the target of a       *)
(* symbol does not move, and a position is closed whole.  None of these    *)
(* assumptions can go: two callers both find nothing pending, a lost       *)
(* answer or a restart loses a pending entry, a rising target or a partial *)
(* exit leaves an entry no larger than what is held, and it is deleted     *)
(* while its order works.                                                  *)
(***************************************************************************)
EXTENDS OrderManager_proofs

SerialEnvironment ==
    /\ \A c, d \in Callers : c = d
    /\ MaxFaults = 0 /\ MaxRestarts = 0
    /\ WholeExits
    /\ \A sig \in Signals, a \in Accounts : Quantity(sig, a) = Target[sig.symbol]

\* The call has sent an order that _pending does not have yet.
Sent(c) == call[c].pc \in {"record", "signal", "count"}

For(c, s) == call[c].sig # NoSignal /\ call[c].sig.symbol = s

\* Nothing is in flight and the symbol is held whole or not at all.
Settled(s) == working[s]["buy"] = 0 /\ held[s] \in {0, Target[s]}

Untouched(s) == working[s]["buy"] = 0 /\ held[s] = 0

\* The symbol on its own: only bought, within its target, and settled unless
\* its whole target is pending or about to be.
SymbolInv(s) ==
    /\ working[s]["sell"] = 0
    /\ held[s] >= 0
    /\ held[s] + working[s]["buy"] <= Target[s]
    /\ pending[s] \in {0, Target[s]}
    /\ pending[s] = 0 /\ (\A c \in Callers : ~(Sent(c) /\ For(c, s))) => Settled(s)

\* What the positions that a call has read still say of the symbol.
SnapshotInv(c, s) ==
    At(c, "evaluate") =>
        /\ call[c].positions[s] \in 0 .. Target[s]
        /\ call[c].positions[s] = Target[s] => Settled(s)
        /\ pending[s] = 0 => call[c].positions[s] \in {0, Target[s]}
        /\ pending[s] = 0 /\ call[c].positions[s] = 0 => Untouched(s)

\* A call sends, or has sent, the whole target, of which nothing is pending.
OrderInv(c, s) ==
    (At(c, "submit") \/ Sent(c)) /\ For(c, s) =>
        /\ pending[s] = 0
        /\ call[c].delta = Target[s] /\ Target[s] > 0
        /\ At(c, "submit") => Untouched(s)

SizingInv ==
    \A s \in BuySymbols :
        /\ SymbolInv(s)
        /\ \A c \in Callers : SnapshotInv(c, s) /\ OrderInv(c, s)

\* The environment of a step and the types it keeps.
Setting == SerialEnvironment /\ TypeOK

\* In a step that moves no quantity, a call may only go back to the start or
\* on to a point from which it sends what it sent before.
SizingQuiet ==
    /\ UNCHANGED <<held, working, pending>>
    /\ \A c \in Callers :
          /\ At(c, "evaluate")' => At(c, "evaluate") /\ UNCHANGED call[c].positions
          /\ At(c, "submit")' => At(c, "submit")
          /\ (At(c, "submit") \/ Sent(c))' => UNCHANGED <<call[c].sig, call[c].delta>>
          /\ Sent(c)' <=> Sent(c)

\* Such a step keeps the invariant.
LEMMA SizingQuietStep ==
    ASSUME SizingInv, SizingQuiet
    PROVE  SizingInv'
<1> SUFFICES ASSUME NEW s \in BuySymbols
             PROVE  SymbolInv(s)' /\ \A c \in Callers : SnapshotInv(c, s)' /\ OrderInv(c, s)'
  BY DEF SizingInv
<1>1. SymbolInv(s) /\ \A c \in Callers : SnapshotInv(c, s) /\ OrderInv(c, s)
  BY DEF SizingInv
<1>2. UNCHANGED <<held[s], working[s]["buy"], working[s]["sell"], pending[s]>>
  BY DEF SizingQuiet
<1>3. ASSUME NEW c \in Callers, Sent(c)'
      PROVE  Sent(c) /\ (For(c, s)' <=> For(c, s))
  BY <1>3 DEF SizingQuiet, For
<1>4. SymbolInv(s)'
  <2>1. (\A c \in Callers : ~(Sent(c) /\ For(c, s)))' => \A c \in Callers : ~(Sent(c) /\ For(c, s))
    BY <1>3 DEF SizingQuiet
  <2> QED BY <1>1, <1>2, <2>1 DEF SymbolInv, Settled
<1>5. ASSUME NEW c \in Callers PROVE SnapshotInv(c, s)'
  BY <1>1, <1>2 DEF SizingQuiet, SnapshotInv, Settled, Untouched
<1>6. ASSUME NEW c \in Callers PROVE OrderInv(c, s)'
  BY <1>1, <1>2, <1>3 DEF SizingQuiet, OrderInv, Untouched, For
<1> QED BY <1>4, <1>5, <1>6

\* What a symbol that is only bought knows of the orders for it.
LEMMA BuyFacts ==
    ASSUME NEW s \in BuySymbols
    PROVE  /\ s \in Symbols /\ Target[s] \in Nat
           /\ \A sig \in Signals : sig.symbol = s => Side(sig) = "buy"
BY ManagerAssumption DEF BuySymbols

\* The positions read are the positions held, so they agree with _pending.
LEMMA GetPositionsSizing ==
    ASSUME Setting, SizingInv, NEW c \in Callers, GetPositions(c)
    PROVE  SizingInv'
<1> SUFFICES ASSUME NEW s \in BuySymbols
             PROVE  SymbolInv(s)' /\ \A d \in Callers : SnapshotInv(d, s)' /\ OrderInv(d, s)'
  BY DEF SizingInv
<1>1. SymbolInv(s) /\ s \in Symbols /\ Target[s] \in Nat
  BY BuyFacts DEF SizingInv
<1>2. \A d \in Callers : d = c
  BY DEF Setting, SerialEnvironment
<1>3. /\ UNCHANGED <<held, working, pending>>
      /\ At(c, "positions") /\ At(c, "evaluate")' /\ call'[c].positions = held
  BY DEF GetPositions, broker, At, Setting, TypeOK, CallTypeOK, CallType
<1>4. held[s] \in Int /\ working[s]["buy"] \in Nat
  BY <1>1 DEF Setting, TypeOK, Sides
<1>5. \A d \in Callers : ~Sent(d) /\ ~Sent(d)'
  BY <1>2, <1>3 DEF At, Sent
<1>6. SnapshotInv(c, s)'
  BY <1>1, <1>3, <1>4, <1>5 DEF SnapshotInv, SymbolInv, Settled, Untouched
<1>7. SymbolInv(s)'
  BY <1>1, <1>3, <1>5 DEF SymbolInv, Settled
<1>8. OrderInv(c, s)'
  BY <1>3, <1>5 DEF OrderInv, At, Sent
<1> QED BY <1>2, <1>6, <1>7, <1>8

\* An order is sized only for a symbol of which nothing is held or in flight.
LEMMA EvaluateSizing ==
    ASSUME Setting, SizingInv, NEW c \in Callers, Evaluate(c)
    PROVE  SizingInv'
<1> SUFFICES ASSUME NEW s \in BuySymbols
             PROVE  SymbolInv(s)' /\ \A d \in Callers : SnapshotInv(d, s)' /\ OrderInv(d, s)'
  BY DEF SizingInv
<1> DEFINE pos == call[c].positions[s]
           target == Quantity(call[c].sig, call[c].account)
<1>1. /\ SymbolInv(s) /\ SnapshotInv(c, s)
      /\ s \in Symbols /\ Target[s] \in Nat
  BY BuyFacts DEF SizingInv
<1>2. \A d \in Callers : d = c
  BY DEF Setting, SerialEnvironment
<1>3. /\ UNCHANGED <<held, working>> /\ At(c, "evaluate")
      /\ pending' = Reconciled(pending, call[c].positions)
  BY DEF Evaluate, broker
<1>4. /\ held[s] \in Int /\ working[s]["buy"] \in Nat /\ pending[s] \in Nat
      /\ pos \in 0 .. Target[s]
      /\ pending'[s] = IF pos >= pending[s] THEN 0 ELSE pending[s]
  BY <1>1, <1>3 DEF Setting, TypeOK, Sides, SnapshotInv, Reconciled
<1>5. /\ call \in [Callers -> CallType] /\ c \in Callers
      /\ call[c].pc = "evaluate" /\ call[c].sig \in Signals /\ call[c].account \in Accounts
  BY <1>3 DEF At, Setting, TypeOK, CallTypeOK
<1>a. \/ Return(c)
      \/ LET n == Delta(target, call[c].positions[call[c].sig.symbol], pending'[call[c].sig.symbol])
         IN  /\ call' = [call EXCEPT ![c].pc = "submit", ![c].delta = n]
             /\ n >= MinOrderQuantity
  BY DEF Evaluate
<1>b. ~Sent(c) /\ ~Sent(c)' /\ ~At(c, "evaluate")'
  BY <1>5, <1>a DEF Return, Idle, Sent, At, CallType
<1>6. ASSUME pending[s] > 0, pending'[s] = 0 PROVE Settled(s)
  <2>1. pos = Target[s]
    BY <1>1, <1>4, <1>6 DEF SymbolInv
  <2> QED BY <1>1, <1>3, <2>1 DEF SnapshotInv
<1>7. SymbolInv(s)'
  BY <1>1, <1>2, <1>3, <1>4, <1>b, <1>6 DEF SymbolInv, Settled
<1>8. ASSUME At(c, "submit")', For(c, s)'
      PROVE  /\ pending'[s] = 0 /\ Untouched(s)
             /\ call'[c].delta = Target[s] /\ Target[s] > 0
  <2>1. /\ call'[c].sig = call[c].sig /\ call[c].sig.symbol = s
        /\ call'[c].delta = Delta(target, pos, pending'[s])
        /\ Delta(target, pos, pending'[s]) >= MinOrderQuantity
    BY <1>5, <1>8, <1>a DEF Return, Idle, At, For, CallType
  <2>2. target = Target[s]
    BY <1>5, <2>1 DEF Setting, SerialEnvironment
  <2>3. Target[s] - pos > pending'[s] /\ call'[c].delta = Target[s] - pos - pending'[s]
    BY <2>1, <2>2, ManagerAssumption DEF Delta
  <2>4. pending[s] = 0
    BY <1>1, <1>4, <2>3 DEF SymbolInv
  <2>5. pos = 0
    BY <1>1, <1>3, <1>4, <2>3, <2>4 DEF SnapshotInv
  <2> QED BY <1>1, <1>3, <1>4, <2>3, <2>4, <2>5 DEF SnapshotInv
<1>9. OrderInv(c, s)'
  BY <1>3, <1>b, <1>8 DEF OrderInv, Untouched
<1>10. SnapshotInv(c, s)'
  BY <1>b DEF SnapshotInv
<1> QED BY <1>2, <1>7, <1>9, <1>10

\* An accepted order puts the whole target to work.
LEMMA SubmitSizing ==
    ASSUME Setting, SizingInv, NEW c \in Callers, Submit(c)
    PROVE  SizingInv'
<1> SUFFICES ASSUME NEW s \in BuySymbols
             PROVE  SymbolInv(s)' /\ \A d \in Callers : SnapshotInv(d, s)' /\ OrderInv(d, s)'
  BY DEF SizingInv
<1>1. /\ SymbolInv(s) /\ OrderInv(c, s)
      /\ s \in Symbols /\ Target[s] \in Nat
      /\ \A sig \in Signals : sig.symbol = s => Side(sig) = "buy"
  BY BuyFacts DEF SizingInv
<1>2. \A d \in Callers : d = c
  BY DEF Setting, SerialEnvironment
<1>3. /\ UNCHANGED <<held, pending>> /\ At(c, "submit")
      /\ call[c].sig \in Signals /\ call[c].sig \in Signals \cup {NoSignal}
      /\ call[c].sig # NoSignal /\ call[c].delta \in Nat
      /\ working' = [working EXCEPT ![call[c].sig.symbol][Side(call[c].sig)] = @ + call[c].delta]
  BY ManagerAssumption DEF Submit, Accept, At, Setting, TypeOK, CallTypeOK, CallType
<1>4. /\ call \in [Callers -> CallType]
      /\ call' = [call EXCEPT ![c].pc = "record", ![c].order = issued + 1]
      /\ call'[c].pc = "record" /\ call'[c].sig = call[c].sig /\ call'[c].delta = call[c].delta
  BY DEF Submit, Setting, TypeOK, CallTypeOK, CallType
<1>5. held[s] \in Int /\ working \in [Symbols -> [Sides -> Nat]] /\ pending[s] \in Nat
  BY <1>1 DEF Setting, TypeOK
<1>6. SnapshotInv(c, s)'
  BY <1>4 DEF SnapshotInv, At
<1>7. CASE ~For(c, s)
  <2>1. working'[s] = working[s]
    BY <1>1, <1>3, <1>5, <1>7 DEF For
  <2>2. ~For(c, s)' /\ ~Sent(c)
    BY <1>3, <1>4, <1>7 DEF For, Sent, At
  <2> QED BY <1>1, <1>2, <1>3, <1>6, <2>1, <2>2 DEF SymbolInv, OrderInv, Settled
<1>8. CASE For(c, s)
  <2>1. Side(call[c].sig) = "buy"
    BY <1>1, <1>3, <1>8 DEF For
  <2>2. /\ working'[s]["buy"] = working[s]["buy"] + call[c].delta
        /\ working'[s]["sell"] = working[s]["sell"]
    BY <1>1, <1>3, <1>5, <1>8, <2>1 DEF For, Sides
  <2>3. pending[s] = 0 /\ call[c].delta = Target[s] /\ Target[s] > 0 /\ Untouched(s)
    BY <1>1, <1>3, <1>8 DEF OrderInv
  <2>4. Sent(c)' /\ For(c, s)' /\ ~At(c, "submit")'
    BY <1>4, <1>8 DEF Sent, For, At
  <2>5. SymbolInv(s)'
    BY <1>1, <1>3, <1>5, <2>2, <2>3, <2>4 DEF SymbolInv, Untouched
  <2>6. OrderInv(c, s)'
    BY <1>3, <1>4, <2>3, <2>4 DEF OrderInv
  <2> QED BY <1>2, <1>6, <2>5, <2>6
<1> QED BY <1>7, <1>8

\* The order becomes pending as the call that sent it ends.
LEMMA CountPendingSizing ==
    ASSUME Setting, SizingInv, NEW c \in Callers, CountPending(c)
    PROVE  SizingInv'
<1> SUFFICES ASSUME NEW s \in BuySymbols
             PROVE  SymbolInv(s)' /\ \A d \in Callers : SnapshotInv(d, s)' /\ OrderInv(d, s)'
  BY DEF SizingInv
<1>1. SymbolInv(s) /\ OrderInv(c, s) /\ s \in Symbols /\ Target[s] \in Nat
  BY BuyFacts DEF SizingInv
<1>2. \A d \in Callers : d = c
  BY DEF Setting, SerialEnvironment
<1>3. /\ UNCHANGED <<held, working>> /\ call[c].pc = "count"
      /\ call[c].sig # NoSignal
      /\ pending' = [pending EXCEPT ![call[c].sig.symbol] = @ + call[c].delta]
  BY ManagerAssumption DEF CountPending, broker, At, Setting, TypeOK, CallTypeOK
<1>4. call'[c] = Idle
  BY DEF CountPending, Return, Setting, TypeOK, CallTypeOK
<1>5. SnapshotInv(c, s)' /\ OrderInv(c, s)' /\ ~Sent(c)'
  BY <1>4 DEF SnapshotInv, OrderInv, Sent, At, Idle
<1>6. pending \in [Symbols -> Nat]
  BY DEF Setting, TypeOK
<1>7. CASE For(c, s)
  <2>1. pending'[s] = Target[s] /\ Target[s] > 0
    BY <1>1, <1>3, <1>6, <1>7 DEF For, OrderInv, Sent
  <2> QED BY <1>1, <1>2, <1>3, <1>5, <2>1 DEF SymbolInv
<1>8. CASE ~For(c, s)
  <2>1. pending'[s] = pending[s]
    BY <1>1, <1>3, <1>6, <1>8 DEF For
  <2> QED BY <1>1, <1>2, <1>3, <1>5, <1>8, <2>1 DEF SymbolInv, Settled
<1> QED BY <1>7, <1>8

\* What the broker does to a symbol can neither unsettle it nor pass its target.
LEMMA BrokerSizing ==
    ASSUME Setting, SizingInv, UNCHANGED <<pending, call>>,
           \E z \in Symbols : Close(z) \/ \E d \in Sides : Fill(z, d) \/ Die(z, d)
    PROVE  SizingInv'
<1> SUFFICES ASSUME NEW s \in BuySymbols
             PROVE  SymbolInv(s)' /\ \A d \in Callers : SnapshotInv(d, s)' /\ OrderInv(d, s)'
  BY DEF SizingInv
<1>1. /\ SymbolInv(s) /\ s \in Symbols /\ Target[s] \in Nat
      /\ \A c \in Callers : SnapshotInv(c, s) /\ OrderInv(c, s)
  BY BuyFacts DEF SizingInv
<1>2. held \in [Symbols -> Int] /\ working \in [Symbols -> [Sides -> Nat]]
  BY DEF Setting, TypeOK
<1>3. /\ working'[s]["sell"] = 0
      /\ held'[s] >= 0 /\ held'[s] + working'[s]["buy"] <= Target[s]
      /\ Settled(s) => Settled(s)'
      /\ Untouched(s) => Untouched(s)'
  <2>1. PICK z \in Symbols : Close(z) \/ \E d \in Sides : Fill(z, d) \/ Die(z, d)
    OBVIOUS
  <2>2. CASE z # s
    <3>1. held'[s] = held[s] /\ working'[s] = working[s]
      BY <1>1, <1>2, <2>1, <2>2 DEF Close, Fill, Die
    <3> QED BY <1>1, <3>1 DEF SymbolInv, Settled, Untouched
  <2>3. CASE z = s /\ Close(z)
    <3>1. held'[s] = 0 /\ working' = working
      BY <1>1, <1>2, <2>3 DEF Close, SymbolInv, Setting, SerialEnvironment
    <3> QED BY <1>1, <1>2, <3>1 DEF SymbolInv, Settled, Untouched, Sides
  <2>4. ASSUME NEW d \in Sides, z = s, Fill(z, d) \/ Die(z, d)
        PROVE  <1>3!1 /\ <1>3!2 /\ <1>3!3 /\ <1>3!4
    <3>1. PICK q \in 1 .. working[s][d] :
             /\ working' = [working EXCEPT ![s][d] = @ - q]
             /\ held' = [held EXCEPT ![s] = @ + Signed(d, q)] \/ held' = held
      BY <2>4 DEF Fill, Die
    <3>2. d = "buy"
      BY <1>1, <1>2, <3>1 DEF SymbolInv, Sides
    <3>3. /\ working'[s]["buy"] = working[s]["buy"] - q /\ working'[s]["sell"] = 0
          /\ held'[s] \in {held[s], held[s] + q}
      BY <1>1, <1>2, <3>1, <3>2 DEF SymbolInv, Sides, Signed
    <3> QED BY <1>1, <1>2, <3>1, <3>2, <3>3 DEF SymbolInv, Settled, Untouched, Sides
  <2> QED BY <2>1, <2>2, <2>3, <2>4
<1>4. \A c \in Callers : (Sent(c) /\ For(c, s))' <=> Sent(c) /\ For(c, s)
  BY DEF Sent, For
<1>5. SymbolInv(s)'
  BY <1>1, <1>3, <1>4 DEF SymbolInv
<1>6. ASSUME NEW c \in Callers PROVE SnapshotInv(c, s)' /\ OrderInv(c, s)'
  BY <1>1, <1>3 DEF SnapshotInv, OrderInv, At, Sent, For
<1> QED BY <1>5, <1>6

----------------------------------------------------------------------------
\* Nothing is held, working or pending at the start.
LEMMA SizingInit == SerialEnvironment /\ Init => SizingInv
BY BuyFacts
DEF Init, SizingInv, SymbolInv, SnapshotInv, OrderInv, Settled, Untouched, Sent, At, Idle, Flat, Sides

\* Without failures and restarts the remaining steps move no quantity.
LEMMA SizingStep ==
    ASSUME Setting, SizingInv, [Next]_vars
    PROVE  SizingInv'
<1>0. /\ call \in [Callers -> CallType]
      /\ ~(faults < MaxFaults) /\ ~(restarts < MaxRestarts)
  BY DEF Setting, SerialEnvironment, TypeOK, CallTypeOK
<1>1. ASSUME NEW c \in Callers, CheckStatus(c) PROVE SizingInv'
  BY <1>0, <1>1, SizingQuietStep
  DEF CheckStatus, SizingQuiet, broker, At, Sent, Idle, CallType
<1>2. ASSUME NEW c \in Callers, GetAccount(c) PROVE SizingInv'
  BY <1>0, <1>2, SizingQuietStep DEF GetAccount, SizingQuiet, broker, At, Sent, CallType
<1>3. ASSUME NEW c \in Callers, GetPositions(c) PROVE SizingInv'
  BY <1>3, GetPositionsSizing
<1>4. ASSUME NEW c \in Callers, Evaluate(c) PROVE SizingInv'
  BY <1>4, EvaluateSizing
<1>5. ASSUME NEW c \in Callers, Submit(c) PROVE SizingInv'
  BY <1>5, SubmitSizing
<1>6. ASSUME NEW c \in Callers, SubmitTimesOut(c) \/ SubmitRefused(c) \/ WriteFails(c) PROVE FALSE
  BY <1>0, <1>6 DEF SubmitTimesOut, SubmitRefused, WriteFails
<1>7. ASSUME NEW c \in Callers, RecordOrder(c) \/ RecordSignal(c) PROVE SizingInv'
  <2>1. PICK step \in {"signal", "count"} :
           /\ UNCHANGED <<held, working, pending>>
           /\ call[c].pc \in {"record", "signal"}
           /\ call' = [call EXCEPT ![c].pc = step]
    BY <1>7 DEF RecordOrder, RecordSignal, broker, At
  <2> QED BY <1>0, <2>1, SizingQuietStep DEF SizingQuiet, At, Sent, CallType
<1>8. ASSUME NEW c \in Callers, CountPending(c) PROVE SizingInv'
  BY <1>8, CountPendingSizing
<1>9. ASSUME NEW c \in Callers, Abort(c) PROVE SizingInv'
  BY <1>0, <1>9, SizingQuietStep DEF Abort, Return, SizingQuiet, broker, At, Sent, Idle
<1>10. ASSUME \E s \in Symbols : Close(s) \/ \E d \in Sides : Fill(s, d) \/ Die(s, d)
       PROVE  SizingInv'
  <2>1. UNCHANGED <<pending, call>>
    BY <1>10 DEF Close, Fill, Die
  <2> QED BY <1>10, <2>1, BrokerSizing
<1>11. CASE (\E k \in Strategies : SetStatus(k)) \/ MoveAccount \/ RefreshCache \/ Midnight
  BY <1>11, SizingQuietStep
  DEF SetStatus, MoveAccount, RefreshCache, Midnight, SizingQuiet, broker, At, Sent
<1>12. CASE Restart
  BY <1>0, <1>12 DEF Restart
<1>13. CASE UNCHANGED vars
  BY <1>13, SizingQuietStep DEF vars, SizingQuiet, broker, At, Sent
<1> QED
  BY <1>1, <1>2, <1>3, <1>4, <1>5, <1>6, <1>7, <1>8, <1>9, <1>10, <1>11, <1>12, <1>13
  DEF Next, Environment, Process

\* With one caller, no failure, fixed targets and whole exits, what is held
\* and working of a symbol that is only bought never exceeds its target.
THEOREM SerialSizing ==
    ASSUME SerialEnvironment
    PROVE  Spec => []SizingBound
<1>1. Init => SizingInv
  BY SizingInit
<1>2. TypeOK /\ SizingInv /\ [Next]_vars => SizingInv'
  BY SizingStep DEF Setting
<1>3. SizingInv => SizingBound
  BY DEF SizingInv, SymbolInv, SizingBound
<1> QED BY <1>1, <1>2, <1>3, TypeCorrect, PTL DEF Spec

----------------------------------------------------------------------------
\* Under the same assumptions the OrderManager implements PositionSizing: an
\* accepted order is the abstract Order of the whole target, what the broker
\* does is the abstract step of the same name, and all else is a stutter.

sizes == <<[s \in BuySymbols |-> held[s]], [s \in BuySymbols |-> working[s]["buy"]]>>

\* An accepted order is for what is missing.
LEMMA SubmitRefines ==
    ASSUME Setting, SizingInv, NEW c \in Callers, Submit(c)
    PROVE  [Sizing!Next]_sizes
<1>0. PICK z \in Symbols : z = call[c].sig.symbol
  BY ManagerAssumption DEF Submit, Accept, At, Setting, TypeOK, CallTypeOK
<1>1. /\ held' = held /\ At(c, "submit")
      /\ call[c].sig \in Signals /\ call[c].sig # NoSignal
      /\ working' = [working EXCEPT ![z][Side(call[c].sig)] = @ + call[c].delta]
  BY <1>0, ManagerAssumption DEF Submit, Accept, At, Setting, TypeOK, CallTypeOK
<1>2. held \in [Symbols -> Int] /\ working \in [Symbols -> [Sides -> Nat]]
  BY DEF Setting, TypeOK
<1>3. \A s \in BuySymbols : s \in Symbols
  BY BuyFacts
<1>4. CASE z \notin BuySymbols
  <2>1. \A s \in BuySymbols : working'[s]["buy"] = working[s]["buy"]
    BY <1>1, <1>2, <1>3, <1>4
  <2> QED BY <1>1, <2>1 DEF sizes
<1>5. CASE z \in BuySymbols
  <2>1. /\ Side(call[c].sig) = "buy"
        /\ call[c].delta = Target[z] /\ Target[z] > 0 /\ Target[z] \in Nat
        /\ held[z] = 0 /\ working[z]["buy"] = 0
    BY <1>0, <1>1, <1>5, BuyFacts DEF SizingInv, OrderInv, Untouched, For
  <2>2. \A s \in BuySymbols :
           working'[s]["buy"] = IF s = z THEN working[s]["buy"] + call[c].delta ELSE working[s]["buy"]
    BY <1>1, <1>2, <1>3, <2>1 DEF Sides
  <2>3. [s \in BuySymbols |-> working[s]["buy"]]'
           = [[s \in BuySymbols |-> working[s]["buy"]] EXCEPT ![z] = @ + call[c].delta]
    BY <1>5, <2>2
  <2>4. call[c].delta \in 1 .. Target[z] - held[z] - working[z]["buy"]
    BY <2>1
  <2>5. Sizing!Order(z)
    BY <1>1, <1>5, <2>3, <2>4 DEF Sizing!Order
  <2> QED BY <1>5, <2>5 DEF Sizing!Next
<1> QED BY <1>4, <1>5

\* A fill, a death or an exit of a symbol that is only bought is the abstract
\* step of the same name; of any other symbol, a stutter.
LEMMA BrokerRefines ==
    ASSUME Setting, SizingInv,
           \E z \in Symbols : Close(z) \/ \E d \in Sides : Fill(z, d) \/ Die(z, d)
    PROVE  [Sizing!Next]_sizes
<1>1. PICK z \in Symbols : Close(z) \/ \E d \in Sides : Fill(z, d) \/ Die(z, d)
  OBVIOUS
<1>2. held \in [Symbols -> Int] /\ working \in [Symbols -> [Sides -> Nat]]
  BY DEF Setting, TypeOK
<1>3. \A s \in BuySymbols : s \in Symbols
  BY BuyFacts
<1> DEFINE h == [s \in BuySymbols |-> held[s]]
           w == [s \in BuySymbols |-> working[s]["buy"]]
<1>4. CASE z \notin BuySymbols
  <2>1. \A s \in BuySymbols : held'[s] = held[s] /\ working'[s] = working[s]
    BY <1>1, <1>2, <1>3, <1>4 DEF Close, Fill, Die
  <2> QED BY <2>1 DEF sizes
<1>5. ASSUME z \in BuySymbols, Close(z) PROVE Sizing!Next
  <2>1. held[z] \in Int /\ ~(held[z] < 0)
    BY <1>2, <1>5 DEF SizingInv, SymbolInv
  <2>2. PICK q \in 1 .. (IF held[z] < 0 THEN -held[z] ELSE held[z]) :
           /\ held' = [held EXCEPT ![z] = IF @ < 0 THEN @ + q ELSE @ - q]
           /\ working' = working
    BY <1>5 DEF Close
  <2>3. q \in 1 .. held[z] /\ held' = [held EXCEPT ![z] = @ - q]
    BY <2>1, <2>2
  <2>4. h' = [h EXCEPT ![z] = @ - q] /\ w' = w
    BY <1>2, <1>3, <1>5, <2>2, <2>3
  <2>5. Sizing!Close(z)
    BY <1>5, <2>3, <2>4 DEF Sizing!Close
  <2> QED BY <1>5, <2>5 DEF Sizing!Next
<1>6. ASSUME z \in BuySymbols, NEW d \in Sides, Fill(z, d) \/ Die(z, d) PROVE Sizing!Next
  <2>1. PICK q \in 1 .. working[z][d] :
           /\ working' = [working EXCEPT ![z][d] = @ - q]
           /\ \/ Fill(z, d) /\ held' = [held EXCEPT ![z] = @ + Signed(d, q)]
              \/ Die(z, d) /\ held' = held
    BY <1>6 DEF Fill, Die
  <2>2. d = "buy" /\ q \in 1 .. working[z]["buy"]
    BY <1>2, <1>6, <2>1 DEF SizingInv, SymbolInv, Sides
  <2>3. w' = [w EXCEPT ![z] = @ - q]
    BY <1>2, <1>3, <1>6, <2>1, <2>2 DEF Sides
  <2>4. h' = [h EXCEPT ![z] = @ + q] \/ h' = h
    BY <1>2, <1>3, <1>6, <2>1, <2>2 DEF Signed
  <2>5. Sizing!Fill(z) \/ Sizing!Die(z)
    BY <1>6, <2>2, <2>3, <2>4 DEF Sizing!Fill, Sizing!Die
  <2> QED BY <1>6, <2>5 DEF Sizing!Next
<1> QED BY <1>1, <1>4, <1>5, <1>6

\* Every other step leaves the sizes alone.
LEMMA StepRefines ==
    ASSUME Setting, SizingInv, [Next]_vars
    PROVE  [Sizing!Next]_sizes
<1>1. ASSUME NEW c \in Callers, Submit(c) PROVE [Sizing!Next]_sizes
  BY <1>1, SubmitRefines
<1>2. ASSUME NEW c \in Callers, SubmitTimesOut(c) PROVE FALSE
  BY <1>2 DEF SubmitTimesOut, Setting, SerialEnvironment, TypeOK
<1>3. ASSUME \E s \in Symbols : Close(s) \/ \E d \in Sides : Fill(s, d) \/ Die(s, d)
      PROVE  [Sizing!Next]_sizes
  BY <1>3, BrokerRefines
<1>4. ASSUME NEW c \in Callers, Process(c) PROVE Submit(c) \/ UNCHANGED <<held, working>>
  BY <1>2, <1>4
  DEF Process, CheckStatus, GetAccount, GetPositions, Evaluate, SubmitRefused, RecordOrder,
      RecordSignal, CountPending, Abort, WriteFails, broker
<1>5. ASSUME UNCHANGED <<held, working>> PROVE [Sizing!Next]_sizes
  BY <1>5 DEF sizes
<1>6. CASE (\E k \in Strategies : SetStatus(k)) \/ MoveAccount \/ RefreshCache \/ Midnight \/ Restart
  BY <1>5, <1>6 DEF SetStatus, MoveAccount, RefreshCache, Midnight, Restart, broker
<1>7. CASE UNCHANGED vars
  BY <1>5, <1>7 DEF vars, broker
<1> QED BY <1>1, <1>3, <1>4, <1>5, <1>6, <1>7 DEF Next, Environment

\* With one caller, no failure, fixed targets and whole exits, process_signal
\* implements the promise of delta sizing.
THEOREM SerialRefinement ==
    ASSUME SerialEnvironment
    PROVE  Spec => SizingSpec
<1>1. Init => Sizing!Init
  BY BuyFacts DEF Init, Sizing!Init, Flat, Sides
<1>2. Init => SizingInv
  BY SizingInit
<1>3. TypeOK /\ SizingInv /\ [Next]_vars => SizingInv'
  BY SizingStep DEF Setting
<1>4. TypeOK /\ SizingInv /\ [Next]_vars => [Sizing!Next]_sizes
  BY StepRefines DEF Setting
<1> QED BY <1>1, <1>2, <1>3, <1>4, TypeCorrect, PTL DEF Spec, SizingSpec, Sizing!Spec, sizes

----------------------------------------------------------------------------
\* What keeps a position bounded when buys and sells are sized by the same
\* formula.  With one task calling process_signal and no failure, every
\* order counts in _pending until a position of that size shows, so
\* _pending covers all that is held and working of a symbol; an order is
\* sized to make it a target beyond a position that passed the risk check.

\* The setting of delta sizing, with one caller and one NAV, so that there is
\* one limit on the position in each symbol.
ExposureEnvironment ==
    /\ SerialEnvironment
    /\ Callers # {}
    /\ \A s \in Symbols : AvgCost[s] > 0
    /\ \A a, b \in Accounts : a.nav > 0 /\ a.nav = b.nav

Magnitude(n) == IF n < 0 THEN -n ELSE n

\* All there is of a symbol: shares held, long or short, and orders working.
Gross(s) == Magnitude(held[s]) + working[s]["buy"] + working[s]["sell"]

\* What _pending has of the symbol, and what it is about to get.
Counted(c, s) == pending[s] + IF Sent(c) /\ For(c, s) THEN call[c].delta ELSE 0

\* No more than a target beyond the limit.
Within(n, s) == \A a \in Accounts : n <= PositionLimit(s, a.nav) + Target[s]

\* Either what is counted covers all there is, or nothing is counted and the
\* symbol is held whole or not at all.
CountedInv(c, s) ==
    /\ Within(Gross(s), s) /\ Within(Counted(c, s), s)
    /\ Counted(c, s) > 0 => Counted(c, s) >= Target[s] /\ Gross(s) <= Counted(c, s)
    /\ Counted(c, s) = 0 =>
          /\ working[s]["buy"] = 0 /\ working[s]["sell"] = 0
          /\ held[s] = 0 \/ held[s] >= Target[s]

\* What the positions read still say: no position read, nothing there, and a
\* position that covers what is pending is all there can be.
ReadInv(c, s) ==
    At(c, "evaluate") =>
        LET p == call[c].positions[s]
        IN  /\ pending[s] = 0 => p = 0 \/ p >= Target[s]
            /\ pending[s] = 0 /\ p = 0 => Gross(s) = 0
            /\ pending[s] > 0 /\ p >= pending[s] =>
                  /\ working[s]["buy"] = 0 /\ working[s]["sell"] = 0
                  /\ held[s] \in {0, p}

\* The order about to be sent brings what is counted to at least the target
\* and at most a target beyond the limit.
SizedInv(c, s) ==
    At(c, "submit") /\ For(c, s) =>
        /\ Gross(s) <= pending[s]
        /\ pending[s] + call[c].delta >= Target[s]
        /\ Within(pending[s] + call[c].delta, s)
        /\ call[c].delta > 0

ExposureInv ==
    \A s \in Symbols, c \in Callers : CountedInv(c, s) /\ ReadInv(c, s) /\ SizedInv(c, s)

----------------------------------------------------------------------------
\* The limit is a whole number.
LEMMA LimitType ==
    ASSUME ExposureEnvironment, NEW s \in Symbols, NEW a \in Accounts
    PROVE  PositionLimit(s, a.nav) \in Int
<1>1. 100 * AvgCost[s] \in Nat /\ 100 * AvgCost[s] > 0
  BY ManagerAssumption DEF ExposureEnvironment
<1>2. MaxPositionPct * a.nav * QuantaPerShare \in Int
  BY GuardAssumption
<1> QED BY <1>1, <1>2 DEF PositionLimit

\* The largest whole number of parts of size k in m is m \div k.
LEMMA Quotient ==
    ASSUME NEW n \in Int, NEW k \in Nat, k > 0, NEW m \in Int, n * k <= m
    PROVE  n <= m \div k
<1> DEFINE q == m \div k
<1>1. q \in Int /\ m < (q + 1) * k
  OBVIOUS
<1>2. SUFFICES ASSUME q + 1 <= n PROVE FALSE
  BY <1>1
<1>3. (q + 1) * k <= n * k
  BY <1>1, <1>2
<1> QED BY <1>1, <1>3

\* A position that passes check_position_size is within the limit.
LEMMA PassedIsWithin ==
    ASSUME ExposureEnvironment, NEW s \in Symbols, NEW a \in Accounts, NEW p \in Int,
           ~PositionRaises(p, AvgCost[s], a)
    PROVE  Magnitude(p) <= PositionLimit(s, a.nav)
<1> DEFINE k == 100 * AvgCost[s]
           m == MaxPositionPct * a.nav * QuantaPerShare
<1>1. AvgCost[s] \in Nat /\ k \in Nat /\ k > 0 /\ m \in Int /\ Magnitude(p) \in Int
  BY GuardAssumption, ManagerAssumption DEF ExposureEnvironment, Magnitude
<1>2. Magnitude(p) * AvgCost[s] * 100 <= m
  <2>1. a.nav > 0
    BY DEF ExposureEnvironment
  <2>2. ~(Magnitude(p) * AvgCost[s] * 100 > m)
    BY <2>1 DEF PositionRaises, Magnitude
  <2>3. Magnitude(p) * AvgCost[s] * 100 \in Int
    BY <1>1
  <2> QED BY <1>1, <2>2, <2>3
<1>3. Magnitude(p) * k = Magnitude(p) * AvgCost[s] * 100
  BY <1>1
<1>4. Magnitude(p) <= m \div k
  BY <1>1, <1>2, <1>3, Quotient
<1> QED BY <1>4 DEF PositionLimit

\* What is no more than something within the bound is within it.
LEMMA WithinSmaller ==
    ASSUME ExposureEnvironment, NEW s \in Symbols, NEW m \in Int, Within(m, s),
           NEW n \in Int, n <= m
    PROVE  Within(n, s)
<1> SUFFICES ASSUME NEW a \in Accounts PROVE n <= PositionLimit(s, a.nav) + Target[s]
  BY DEF Within
<1>1. PositionLimit(s, a.nav) \in Int /\ Target[s] \in Nat
  BY LimitType, ManagerAssumption
<1>2. m <= PositionLimit(s, a.nav) + Target[s]
  BY DEF Within
<1> QED BY <1>1, <1>2

\* Quantities are integers and what is counted is not negative.
LEMMA QuantityTypes ==
    ASSUME TypeOK, NEW s \in Symbols, NEW c \in Callers
    PROVE  /\ Target[s] \in Nat
           /\ held[s] \in Int /\ working[s]["buy"] \in Nat /\ working[s]["sell"] \in Nat
           /\ pending[s] \in Nat /\ call[c].delta \in Nat
           /\ Gross(s) \in Nat /\ Counted(c, s) \in Nat
           /\ call[c].positions[s] \in Int
BY ManagerAssumption
DEF TypeOK, CallTypeOK, CallType, Sides, Gross, Counted, Magnitude

Scene == ExposureEnvironment /\ TypeOK /\ TypeOK'

\* There is one caller.
LEMMA OneCaller ==
    ASSUME ExposureEnvironment, NEW c \in Callers
    PROVE  \A d \in Callers : d = c
BY DEF ExposureEnvironment, SerialEnvironment

\* A step that moves no quantity keeps the invariant.
LEMMA ExposureQuietStep ==
    ASSUME Scene, ExposureInv, SizingQuiet
    PROVE  ExposureInv'
<1> SUFFICES ASSUME NEW s \in Symbols, NEW c \in Callers
             PROVE  CountedInv(c, s)' /\ ReadInv(c, s)' /\ SizedInv(c, s)'
  BY DEF ExposureInv
<1>1. CountedInv(c, s) /\ ReadInv(c, s) /\ SizedInv(c, s)
  BY DEF ExposureInv
<1>2. UNCHANGED <<held[s], working[s], pending[s], Gross(s)>>
  BY DEF SizingQuiet, Gross
<1>3. Sent(c)' <=> Sent(c)
  BY DEF SizingQuiet
<1>4. Sent(c)' => UNCHANGED call[c].delta /\ (For(c, s)' <=> For(c, s))
  BY DEF SizingQuiet, For
<1>5. Counted(c, s)' = Counted(c, s)
  BY <1>2, <1>3, <1>4 DEF Counted
<1>6. CountedInv(c, s)'
  BY <1>1, <1>2, <1>5 DEF CountedInv, Within
<1>7. ReadInv(c, s)'
  BY <1>1, <1>2 DEF ReadInv, SizingQuiet
<1>8. SizedInv(c, s)'
  BY <1>1, <1>2 DEF SizedInv, SizingQuiet, For, Within
<1> QED BY <1>6, <1>7, <1>8

\* The positions read are the positions held.
LEMMA GetPositionsExposure ==
    ASSUME Scene, ExposureInv, NEW c \in Callers, GetPositions(c)
    PROVE  ExposureInv'
<1> SUFFICES ASSUME NEW s \in Symbols
             PROVE  CountedInv(c, s)' /\ ReadInv(c, s)' /\ SizedInv(c, s)'
  BY OneCaller DEF ExposureInv, Scene
<1>1. CountedInv(c, s)
  BY DEF ExposureInv
<1>2. /\ UNCHANGED <<held, working, pending>>
      /\ call[c].pc = "positions" /\ call'[c].pc = "evaluate" /\ call'[c].positions = held
  BY DEF GetPositions, broker, At, Scene, TypeOK, CallTypeOK, CallType
<1>3. /\ UNCHANGED Gross(s)
      /\ Counted(c, s) = pending[s] /\ Counted(c, s)' = pending[s]
  BY <1>2, QuantityTypes DEF Gross, Counted, Sent, Scene
<1>4. CountedInv(c, s)'
  BY <1>1, <1>2, <1>3 DEF CountedInv, Within
<1>5. ReadInv(c, s)'
  BY <1>1, <1>2, <1>3, QuantityTypes DEF ReadInv, CountedInv, Scene, Gross, Magnitude
<1>6. SizedInv(c, s)'
  BY <1>2 DEF SizedInv, At
<1> QED BY <1>4, <1>5, <1>6

\* A pending entry is deleted only when the position read covers it, and then
\* no order for the symbol works.
LEMMA ReconcileExposure ==
    ASSUME Scene, ExposureInv, NEW c \in Callers, Evaluate(c), NEW s \in Symbols
    PROVE  CountedInv(c, s)'
<1> DEFINE p == call[c].positions[s]
<1>1. CountedInv(c, s) /\ ReadInv(c, s)
  BY DEF ExposureInv
<1>2. /\ UNCHANGED <<held, working>> /\ At(c, "evaluate")
      /\ pending'[s] = IF p >= pending[s] THEN 0 ELSE pending[s]
  BY DEF Evaluate, broker, Reconciled
<1>3. ~Sent(c) /\ ~Sent(c)'
  <2>1. Return(c) \/ \E n : call' = [call EXCEPT ![c].pc = "submit", ![c].delta = n]
    BY DEF Evaluate
  <2> QED BY <1>2, <2>1 DEF At, Sent, Return, Idle, Scene, TypeOK, CallTypeOK, CallType
<1>4. /\ UNCHANGED Gross(s)
      /\ Counted(c, s) = pending[s] /\ Counted(c, s)' = pending'[s]
  BY <1>2, <1>3, QuantityTypes DEF Gross, Counted, Scene
<1>5. CASE pending'[s] = pending[s]
  BY <1>1, <1>2, <1>4, <1>5 DEF CountedInv, Within
<1>6. CASE pending'[s] = 0 /\ pending[s] > 0
  <2>1. /\ p >= pending[s] /\ pending[s] >= Target[s]
        /\ working[s]["buy"] = 0 /\ working[s]["sell"] = 0 /\ held[s] \in {0, p}
    BY <1>1, <1>2, <1>4, <1>6, QuantityTypes DEF CountedInv, ReadInv, Scene
  <2>2. Within(0, s)
    BY <1>1, <1>4, <1>6, QuantityTypes, WithinSmaller DEF CountedInv, Scene
  <2>3. held[s] = 0 \/ held[s] >= Target[s]
    BY <2>1, QuantityTypes DEF Scene
  <2> QED BY <1>1, <1>2, <1>4, <1>6, <2>1, <2>2, <2>3 DEF CountedInv, Within
<1> QED BY <1>2, <1>5, <1>6, QuantityTypes DEF Scene

\* The order that results reaches a target beyond the position read.
LEMMA SizeExposure ==
    ASSUME Scene, ExposureInv, NEW c \in Callers, Evaluate(c), NEW s \in Symbols
    PROVE  SizedInv(c, s)'
<1> DEFINE p == call[c].positions[s]
           a == call[c].account
           target == Quantity(call[c].sig, a)
           n == Delta(target, p, pending'[s])
<1> SUFFICES ASSUME At(c, "submit")', For(c, s)'
             PROVE  /\ Gross(s)' <= pending'[s]
                    /\ pending'[s] + call'[c].delta >= Target[s]
                    /\ Within(pending'[s] + call'[c].delta, s)
                    /\ call'[c].delta > 0
  BY DEF SizedInv, Within
<1>1. CountedInv(c, s) /\ ReadInv(c, s)
  BY DEF ExposureInv
<1>2. /\ UNCHANGED <<held, working>> /\ At(c, "evaluate")
      /\ pending'[s] = IF p >= pending[s] THEN 0 ELSE pending[s]
  BY DEF Evaluate, broker, Reconciled
<1>3. /\ call \in [Callers -> CallType]
      /\ call[c].pc = "evaluate" /\ call[c].sig \in Signals /\ a \in Accounts
  BY <1>2 DEF At, Scene, TypeOK, CallTypeOK
<1>4. ~Return(c)
  BY <1>3 DEF Return, Idle, At
<1>5. /\ call[c].sig.symbol = s /\ call'[c].delta = n /\ n >= MinOrderQuantity
      /\ ~PositionRaises(p, AvgCost[s], a)
  <2> DEFINE z == call[c].sig.symbol
             m == Delta(target, call[c].positions[z], pending'[z])
  <2>1. /\ call' = [call EXCEPT ![c].pc = "submit", ![c].delta = m]
        /\ m >= MinOrderQuantity
        /\ ~PositionRaises(call[c].positions[z], AvgCost[z], a)
    BY <1>4 DEF Evaluate
  <2>2. call'[c].sig = call[c].sig /\ call'[c].delta = m
    BY <1>3, <2>1 DEF CallType
  <2>3. z = s
    BY <2>2 DEF For
  <2> QED BY <2>1, <2>2, <2>3
<1>6. target = Target[s]
  BY <1>3, <1>5 DEF Scene, ExposureEnvironment, SerialEnvironment
<1>7. /\ p \in Int /\ Target[s] \in Nat /\ pending[s] \in Nat /\ pending'[s] \in Nat
      /\ Gross(s) \in Nat /\ Gross(s)' = Gross(s) /\ Counted(c, s) = pending[s]
  BY <1>2, <1>3, QuantityTypes DEF Scene, Gross, Counted, Sent
<1>8. call'[c].delta = Target[s] - p - pending'[s] /\ call'[c].delta > 0
  BY <1>5, <1>6, <1>7, ManagerAssumption DEF Delta
<1>9. p <= 0 /\ pending'[s] = pending[s]
  BY <1>1, <1>2, <1>7, <1>8 DEF CountedInv, ReadInv, At
<1>10. Gross(s)' <= pending'[s]
  BY <1>1, <1>2, <1>7, <1>8, <1>9 DEF CountedInv, ReadInv
<1>11. pending'[s] + call'[c].delta = Target[s] + Magnitude(p)
  BY <1>7, <1>8, <1>9 DEF Magnitude
<1>12. Within(Target[s] + Magnitude(p), s)
  <2>1. Magnitude(p) \in Nat /\ Magnitude(p) <= PositionLimit(s, a.nav)
    BY <1>3, <1>5, <1>7, PassedIsWithin DEF Scene, Magnitude
  <2>2. \A b \in Accounts : PositionLimit(s, b.nav) = PositionLimit(s, a.nav)
    BY <1>3 DEF Scene, ExposureEnvironment
  <2>3. PositionLimit(s, a.nav) \in Int
    BY <1>3, LimitType DEF Scene
  <2> QED BY <1>7, <2>1, <2>2, <2>3 DEF Within
<1> QED BY <1>7, <1>8, <1>10, <1>11, <1>12, QuantityTypes DEF Magnitude

\* The risk checks and the sizing, put together.
LEMMA EvaluateExposure ==
    ASSUME Scene, ExposureInv, NEW c \in Callers, Evaluate(c)
    PROVE  ExposureInv'
<1> SUFFICES ASSUME NEW s \in Symbols
             PROVE  CountedInv(c, s)' /\ ReadInv(c, s)' /\ SizedInv(c, s)'
  BY OneCaller DEF ExposureInv, Scene
<1>1. ReadInv(c, s)'
  <2>1. Return(c) \/ \E n : call' = [call EXCEPT ![c].pc = "submit", ![c].delta = n]
    BY DEF Evaluate
  <2> QED BY <2>1 DEF ReadInv, At, Return, Idle, Scene, TypeOK, CallTypeOK, CallType
<1> QED BY <1>1, ReconcileExposure, SizeExposure

\* An accepted order counts from then on.
LEMMA SubmitExposure ==
    ASSUME Scene, ExposureInv, NEW c \in Callers, Submit(c)
    PROVE  ExposureInv'
<1> SUFFICES ASSUME NEW s \in Symbols
             PROVE  CountedInv(c, s)' /\ ReadInv(c, s)' /\ SizedInv(c, s)'
  BY OneCaller DEF ExposureInv, Scene
<1> DEFINE sig == call[c].sig
<1>1. CountedInv(c, s) /\ SizedInv(c, s)
  BY DEF ExposureInv
<1>2. /\ UNCHANGED <<held, pending>> /\ At(c, "submit")
      /\ sig \in Signals /\ sig # NoSignal /\ sig.symbol \in Symbols
      /\ working' = [working EXCEPT ![sig.symbol][Side(sig)] = @ + call[c].delta]
  BY ManagerAssumption DEF Submit, Accept, At, Scene, TypeOK, CallTypeOK
<1>3. /\ call'[c].pc = "record" /\ call'[c].sig = sig /\ call'[c].delta = call[c].delta
      /\ call[c].pc = "submit"
  BY <1>2 DEF Submit, At, Scene, TypeOK, CallTypeOK, CallType
<1>4. ReadInv(c, s)' /\ SizedInv(c, s)'
  BY <1>3 DEF ReadInv, SizedInv, At
<1>5. working \in [Symbols -> [Sides -> Nat]]
  BY DEF Scene, TypeOK
<1>6. Counted(c, s) = pending[s]
  BY <1>3, QuantityTypes DEF Counted, Sent, Scene
<1>7. CASE ~For(c, s)
  <2>1. working'[s] = working[s]
    BY <1>2, <1>5, <1>7 DEF For
  <2>2. Gross(s)' = Gross(s) /\ Counted(c, s)' = Counted(c, s)
    BY <1>2, <1>3, <1>6, <1>7, <2>1, QuantityTypes DEF Gross, Counted, For, Scene
  <2> QED BY <1>1, <1>2, <1>4, <2>1, <2>2 DEF CountedInv, Within
<1>8. CASE For(c, s)
  <2>1. Side(sig) \in Sides /\ sig.symbol = s
    BY <1>8 DEF Side, Sides, For
  <2>2. Gross(s)' = Gross(s) + call[c].delta
    <3>1. working'[s] = [working[s] EXCEPT ![Side(sig)] = @ + call[c].delta]
      BY <1>2, <1>5, <2>1
    <3>2. working[s] \in [Sides -> Nat]
      BY <1>5
    <3> QED BY <1>2, <2>1, <3>1, <3>2, QuantityTypes DEF Gross, Sides, Magnitude, Scene
  <2>3. Counted(c, s)' = pending[s] + call[c].delta
    BY <1>2, <1>3, <1>8 DEF Counted, Sent, For
  <2>4. /\ Gross(s) <= pending[s] /\ pending[s] + call[c].delta >= Target[s]
        /\ Within(pending[s] + call[c].delta, s) /\ call[c].delta > 0
    BY <1>1, <1>2, <1>8 DEF SizedInv
  <2>5. Within(Gross(s) + call[c].delta, s)
    BY <2>4, QuantityTypes, WithinSmaller DEF Scene
  <2>6. /\ Counted(c, s)' > 0 /\ Counted(c, s)' >= Target[s]
        /\ Gross(s)' <= Counted(c, s)'
    BY <2>2, <2>3, <2>4, QuantityTypes DEF Scene
  <2> QED BY <1>4, <2>2, <2>3, <2>4, <2>5, <2>6, QuantityTypes DEF CountedInv, Within, Scene
<1> QED BY <1>7, <1>8

\* The order goes from the call to _pending.
LEMMA CountPendingExposure ==
    ASSUME Scene, ExposureInv, NEW c \in Callers, CountPending(c)
    PROVE  ExposureInv'
<1> SUFFICES ASSUME NEW s \in Symbols
             PROVE  CountedInv(c, s)' /\ ReadInv(c, s)' /\ SizedInv(c, s)'
  BY OneCaller DEF ExposureInv, Scene
<1>1. CountedInv(c, s)
  BY DEF ExposureInv
<1>2. /\ UNCHANGED <<held, working>> /\ call[c].pc = "count"
      /\ call[c].sig # NoSignal /\ call[c].sig.symbol \in Symbols
      /\ pending' = [pending EXCEPT ![call[c].sig.symbol] = @ + call[c].delta]
      /\ call'[c] = Idle
  BY ManagerAssumption DEF CountPending, Return, broker, At, Scene, TypeOK, CallTypeOK
<1>3. pending \in [Symbols -> Nat]
  BY DEF Scene, TypeOK
<1>4. Gross(s)' = Gross(s) /\ Counted(c, s)' = Counted(c, s)
  BY <1>2, <1>3, QuantityTypes DEF Gross, Counted, Sent, For, Idle, Scene
<1>5. CountedInv(c, s)'
  BY <1>1, <1>2, <1>4 DEF CountedInv, Within
<1> QED BY <1>2, <1>5 DEF ReadInv, SizedInv, At, Idle

\* What the broker does to a symbol never adds to what there is of it, and
\* when no order works it can only close the position.
LEMMA BrokerExposure ==
    ASSUME Scene, ExposureInv, UNCHANGED <<pending, call>>,
           \E z \in Symbols : Close(z) \/ \E d \in Sides : Fill(z, d) \/ Die(z, d)
    PROVE  ExposureInv'
<1> SUFFICES ASSUME NEW s \in Symbols, NEW c \in Callers
             PROVE  CountedInv(c, s)' /\ ReadInv(c, s)' /\ SizedInv(c, s)'
  BY DEF ExposureInv
<1>1. CountedInv(c, s) /\ ReadInv(c, s) /\ SizedInv(c, s)
  BY DEF ExposureInv
<1>2. held \in [Symbols -> Int] /\ working \in [Symbols -> [Sides -> Nat]]
  BY DEF Scene, TypeOK
<1> DEFINE none == working[s]["buy"] = 0 /\ working[s]["sell"] = 0
<1>3. /\ Gross(s)' <= Gross(s)
      /\ none => none' /\ held'[s] \in {0, held[s]}
  <2>1. PICK z \in Symbols : Close(z) \/ \E d \in Sides : Fill(z, d) \/ Die(z, d)
    OBVIOUS
  <2>2. CASE z # s
    <3>1. held'[s] = held[s] /\ working'[s] = working[s]
      BY <1>2, <2>1, <2>2 DEF Close, Fill, Die
    <3> QED BY <3>1, QuantityTypes DEF Gross, Scene
  <2>3. CASE z = s /\ Close(z)
    <3>1. held'[s] = 0 /\ working' = working
      BY <1>2, <2>3 DEF Close, Scene, ExposureEnvironment, SerialEnvironment
    <3> QED BY <3>1, QuantityTypes DEF Gross, Magnitude, Scene
  <2>4. ASSUME NEW d \in Sides, z = s, Fill(z, d) \/ Die(z, d)
        PROVE  <1>3
    <3>1. PICK q \in 1 .. working[s][d] :
             /\ working' = [working EXCEPT ![s][d] = @ - q]
             /\ held' = [held EXCEPT ![s] = @ + Signed(d, q)] \/ held' = held
      BY <2>4 DEF Fill, Die
    <3>2. /\ held'[s] \in {held[s], held[s] + q, held[s] - q}
          /\ working'[s][d] = working[s][d] - q
          /\ \A e \in Sides \ {d} : working'[s][e] = working[s][e]
      BY <1>2, <3>1 DEF Signed
    <3>3. d = "buy" \/ d = "sell"
      BY DEF Sides
    <3> QED BY <1>2, <3>1, <3>2, <3>3, QuantityTypes DEF Gross, Magnitude, Sides, Scene
  <2> QED BY <2>1, <2>2, <2>3, <2>4
<1>4. Counted(c, s)' = Counted(c, s) /\ Gross(s)' \in Nat
  <2>1. held'[s] \in Int /\ working'[s]["buy"] \in Nat /\ working'[s]["sell"] \in Nat
    BY DEF Scene, TypeOK, Sides
  <2> QED BY <2>1 DEF Counted, Sent, For, Gross, Magnitude
<1>5. CountedInv(c, s)'
  <2>1. Within(Gross(s)', s)
    BY <1>1, <1>3, <1>4, QuantityTypes, WithinSmaller DEF CountedInv, Scene
  <2> QED BY <1>1, <1>3, <1>4, <2>1, QuantityTypes DEF CountedInv, Within, Scene
<1>6. ReadInv(c, s)'
  <2>1. /\ UNCHANGED <<pending[s], call[c].positions[s]>>
        /\ At(c, "evaluate")' <=> At(c, "evaluate")
    BY DEF At
  <2> QED BY <1>1, <1>3, <1>4, <2>1, QuantityTypes DEF ReadInv, Scene
<1>7. SizedInv(c, s)'
  BY <1>1, <1>3, <1>4, QuantityTypes DEF SizedInv, At, For, Within, Scene
<1> QED BY <1>5, <1>6, <1>7

----------------------------------------------------------------------------
\* Without failures and restarts the remaining steps move no quantity.
LEMMA ExposureStep ==
    ASSUME Scene, ExposureInv, [Next]_vars
    PROVE  ExposureInv'
<1>0. /\ call \in [Callers -> CallType]
      /\ ~(faults < MaxFaults) /\ ~(restarts < MaxRestarts)
  BY DEF Scene, ExposureEnvironment, SerialEnvironment, TypeOK, CallTypeOK
<1>1. ASSUME NEW c \in Callers, CheckStatus(c) PROVE ExposureInv'
  BY <1>0, <1>1, ExposureQuietStep
  DEF CheckStatus, SizingQuiet, broker, At, Sent, Idle, CallType
<1>2. ASSUME NEW c \in Callers, GetAccount(c) PROVE ExposureInv'
  BY <1>0, <1>2, ExposureQuietStep DEF GetAccount, SizingQuiet, broker, At, Sent, CallType
<1>3. ASSUME NEW c \in Callers, GetPositions(c) PROVE ExposureInv'
  BY <1>3, GetPositionsExposure
<1>4. ASSUME NEW c \in Callers, Evaluate(c) PROVE ExposureInv'
  BY <1>4, EvaluateExposure
<1>5. ASSUME NEW c \in Callers, Submit(c) PROVE ExposureInv'
  BY <1>5, SubmitExposure
<1>6. ASSUME NEW c \in Callers, SubmitTimesOut(c) \/ SubmitRefused(c) \/ WriteFails(c) PROVE FALSE
  BY <1>0, <1>6 DEF SubmitTimesOut, SubmitRefused, WriteFails
<1>7. ASSUME NEW c \in Callers, RecordOrder(c) \/ RecordSignal(c) PROVE ExposureInv'
  <2>1. PICK step \in {"signal", "count"} :
           /\ UNCHANGED <<held, working, pending>>
           /\ call[c].pc \in {"record", "signal"}
           /\ call' = [call EXCEPT ![c].pc = step]
    BY <1>7 DEF RecordOrder, RecordSignal, broker, At
  <2> QED BY <1>0, <2>1, ExposureQuietStep DEF SizingQuiet, At, Sent, CallType
<1>8. ASSUME NEW c \in Callers, CountPending(c) PROVE ExposureInv'
  BY <1>8, CountPendingExposure
<1>9. ASSUME NEW c \in Callers, Abort(c) PROVE ExposureInv'
  BY <1>0, <1>9, ExposureQuietStep DEF Abort, Return, SizingQuiet, broker, At, Sent, Idle
<1>10. ASSUME \E s \in Symbols : Close(s) \/ \E d \in Sides : Fill(s, d) \/ Die(s, d)
       PROVE  ExposureInv'
  <2>1. UNCHANGED <<pending, call>>
    BY <1>10 DEF Close, Fill, Die
  <2> QED BY <1>10, <2>1, BrokerExposure
<1>11. CASE (\E k \in Strategies : SetStatus(k)) \/ MoveAccount \/ RefreshCache \/ Midnight
  BY <1>11, ExposureQuietStep
  DEF SetStatus, MoveAccount, RefreshCache, Midnight, SizingQuiet, broker, At, Sent
<1>12. CASE Restart
  BY <1>0, <1>12 DEF Restart
<1>13. CASE UNCHANGED vars
  BY <1>13, ExposureQuietStep DEF vars, SizingQuiet, broker, At, Sent
<1> QED
  BY <1>1, <1>2, <1>3, <1>4, <1>5, <1>6, <1>7, <1>8, <1>9, <1>10, <1>11, <1>12, <1>13
  DEF Next, Environment, Process

\* With one caller, one NAV, no failure, fixed targets and whole exits, no
\* position, long or short, and its working orders go past the position limit
\* by more than one target, although sells are sized as if they were buys.
THEOREM SerialExposure ==
    ASSUME ExposureEnvironment
    PROVE  Spec => []ExposureBound
<1>1. Init => ExposureInv
  <2> SUFFICES ASSUME Init, NEW s \in Symbols, NEW c \in Callers
               PROVE  CountedInv(c, s) /\ ReadInv(c, s) /\ SizedInv(c, s)
    BY DEF ExposureInv
  <2>1. /\ held[s] = 0 /\ pending[s] = 0 /\ call[c].pc = "idle"
        /\ working[s]["buy"] = 0 /\ working[s]["sell"] = 0
    BY DEF Init, Flat, Sides, Idle
  <2>2. Gross(s) = 0 /\ Counted(c, s) = 0
    BY <2>1 DEF Gross, Magnitude, Counted, Sent
  <2>3. Within(0, s)
    <3> SUFFICES ASSUME NEW a \in Accounts PROVE 0 <= PositionLimit(s, a.nav) + Target[s]
      BY DEF Within
    <3>1. a.nav \in Int /\ a.nav > 0 /\ MaxPositionPct \in Nat /\ QuantaPerShare \in Nat
      BY GuardAssumption DEF ExposureEnvironment
    <3>2. MaxPositionPct * a.nav * QuantaPerShare >= 0
      BY <3>1
    <3>3. ~PositionRaises(0, AvgCost[s], a)
      BY <3>1, <3>2, ManagerAssumption DEF PositionRaises
    <3>4. 0 <= PositionLimit(s, a.nav)
      BY <3>3, PassedIsWithin DEF Magnitude
    <3> QED BY <3>4, LimitType, ManagerAssumption
  <2> QED BY <2>1, <2>2, <2>3 DEF CountedInv, ReadInv, SizedInv, At
<1>2. TypeOK /\ TypeOK' /\ ExposureInv /\ [Next]_vars => ExposureInv'
  BY ExposureStep DEF Scene
<1>3. TypeOK /\ ExposureInv => ExposureBound
  <2> SUFFICES ASSUME TypeOK, ExposureInv, NEW s \in Symbols, NEW a \in Accounts
               PROVE  /\ held[s] + working[s]["buy"] <= PositionLimit(s, a.nav) + Target[s]
                      /\ working[s]["sell"] - held[s] <= PositionLimit(s, a.nav) + Target[s]
    BY DEF ExposureBound
  <2>1. PICK c \in Callers : TRUE
    BY DEF ExposureEnvironment
  <2>2. Gross(s) <= PositionLimit(s, a.nav) + Target[s]
    BY <2>1 DEF ExposureInv, CountedInv, Within
  <2> QED BY <2>1, <2>2, LimitType, QuantityTypes DEF Gross, Magnitude
<1> QED BY <1>1, <1>2, <1>3, TypeCorrect, PTL DEF Spec
=============================================================================
