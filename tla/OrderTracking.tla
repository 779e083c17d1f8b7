---------------------------- MODULE OrderTracking ----------------------------
(***************************************************************************)
(* How the tables follow the orders at the broker: BrokerAdapter places    *)
(* and cancels orders, polls their status and records fills               *)
(* (src/src/polara/broker/adapter.py), and TradeService opens and closes   *)
(* trades (src/src/polara/dashboard/trade_service.py).  The poll, the      *)
(* placing calls and the cancelling calls are tasks of one event loop,     *)
(* each with a database session of its own; a step ends at an await.       *)
(*                                                                         *)
(* An order has an entry leg and, when it is a bracket, an exit leg (the   *)
(* stop or take-profit child, whichever fills).  The broker knows each     *)
(* leg by an id of its own; a leg stands for its id here.                  *)
(***************************************************************************)
EXTENDS Integers, FiniteSets

CONSTANTS
    Orders,
    Brackets,       \* the orders placed by place_bracket_order
    WriteLock,      \* TRUE: one writer at a time (SQLite); FALSE: row locks
    MaxFaults, MaxRestarts    \* bounds

ASSUME TrackingAssumption ==
    /\ Brackets \subseteq Orders
    /\ WriteLock \in BOOLEAN
    /\ MaxFaults \in Nat /\ MaxRestarts \in Nat

Entry(o) == [order |-> o, leg |-> "entry"]
Exit(o) == [order |-> o, leg |-> "exit"]
Legs == {Entry(o) : o \in Orders} \cup {Exit(o) : o \in Brackets}
None == [order |-> "none", leg |-> "none"]

\* What the broker says of a leg, and what the orders table says of an order.
\* "pending" stands for the answers _STATUS_MAP does not know.
BrokerStates == {"unknown", "pending", "working", "filled", "cancelled", "inactive"}
RowStates == {"none", "submitted", "filled", "cancelled", "error"}
Dead == {"filled", "cancelled", "inactive"}

VARIABLES
    live,       \* the state of each leg at the broker
    listed,     \* the legs in the answer of cp.list_orders
    row,        \* the status column of orders, "none" without a row
    hasId,      \* the orders whose ib_order_id is not NULL
    opened,     \* number of trades rows made for each order
    closed,     \* number of those that are closed
    known,      \* BrokerAdapter._known_filled
    place,      \* where the call that places each order is
    cancel,     \* where the call that cancels each order is
    poll,       \* the local variables and the open transaction of the poll
    faults, restarts

broker == <<live, listed>>
trades == <<opened, closed>>
vars == <<broker, row, hasId, trades, known, place, cancel, poll, faults, restarts>>

\* wrote: the poll's session has run an UPDATE and not committed.
Asleep == [pc |-> "asleep", todo |-> {}, seen |-> [l \in Legs |-> "unknown"],
           writes |-> [o \in Orders |-> "none"], wrote |-> FALSE, fill |-> None]

PollType == [pc : {"asleep", "sync"}, todo : SUBSET Legs, seen : [Legs -> BrokerStates],
             writes : [Orders -> RowStates], wrote : BOOLEAN, fill : Legs \cup {None}]

TypeOK ==
    /\ live \in [Legs -> BrokerStates]
    /\ listed \subseteq Legs
    /\ row \in [Orders -> RowStates]
    /\ hasId \subseteq Orders
    /\ opened \in [Orders -> Nat] /\ closed \in [Orders -> Nat]
    /\ known \subseteq Legs
    /\ place \in [Orders -> {"new", "taken", "refused", "done"}]
    /\ cancel \in [Orders -> {"idle", "asked", "answered"}]
    /\ poll \in PollType
    /\ faults \in 0 .. MaxFaults /\ restarts \in 0 .. MaxRestarts

Init ==
    /\ live = [l \in Legs |-> "unknown"]
    /\ listed = {}
    /\ row = [o \in Orders |-> "none"]
    /\ hasId = {}
    /\ opened = [o \in Orders |-> 0] /\ closed = [o \in Orders |-> 0]
    /\ known = {}
    /\ place = [o \in Orders |-> "new"]
    /\ cancel = [o \in Orders |-> "idle"]
    /\ poll = Asleep
    /\ faults = 0 /\ restarts = 0

Fault == faults < MaxFaults /\ faults' = faults + 1

\* The poll's transaction keeps other sessions from writing the row of an
\* order: any row when there is one writer, those it has updated otherwise.
Locked(o) == IF WriteLock THEN poll.wrote ELSE poll.writes[o] # "none"

----------------------------------------------------------------------------
\* place_order and place_bracket_order.

LegsOf(o) == {l \in Legs : l.order = o}

\* The broker takes the order with its children.
Taken(o) ==
    /\ place[o] = "new"
    /\ live' = [l \in Legs |-> IF l \in LegsOf(o) THEN "pending" ELSE live[l]]
    /\ listed' = listed \cup LegsOf(o)

PlaceTaken(o) ==
    /\ Taken(o)
    /\ place' = [place EXCEPT ![o] = "taken"]
    /\ UNCHANGED <<row, hasId, trades, known, cancel, poll, faults, restarts>>

\* The answer is lost: the call raises.
PlaceTimesOut(o) ==
    /\ Taken(o) /\ Fault
    /\ place' = [place EXCEPT ![o] = "done"]
    /\ UNCHANGED <<row, hasId, trades, known, cancel, poll, restarts>>

\* The answer holds no order_id: the row is written all the same.
PlaceRefused(o) ==
    /\ place[o] = "new"
    /\ place' = [place EXCEPT ![o] = "refused"]
    /\ UNCHANGED <<broker, row, hasId, trades, known, cancel, poll, faults, restarts>>

\* INSERT INTO orders and commit; a second row for bracket_orders with the
\* ids of the children, which get no row in orders.
Insert(o) ==
    /\ place[o] \in {"taken", "refused"}
    /\ ~(WriteLock /\ poll.wrote)
    /\ row' = [row EXCEPT ![o] = "submitted"]
    /\ hasId' = IF place[o] = "taken" THEN hasId \cup {o} ELSE hasId
    /\ place' = [place EXCEPT ![o] = "done"]
    /\ UNCHANGED <<broker, trades, known, cancel, poll, faults, restarts>>

InsertFails(o) ==
    /\ place[o] \in {"taken", "refused"}
    /\ Fault
    /\ place' = [place EXCEPT ![o] = "done"]
    /\ UNCHANGED <<broker, row, hasId, trades, known, cancel, poll, restarts>>

----------------------------------------------------------------------------
\* cancel_order.

\* The row is read; an order without an id is not asked of the broker.
CancelRead(o) ==
    /\ cancel[o] = "idle"
    /\ row[o] = "submitted"
    /\ cancel' = [cancel EXCEPT ![o] = IF o \in hasId THEN "asked" ELSE "answered"]
    /\ UNCHANGED <<broker, row, hasId, trades, known, place, poll, faults, restarts>>

\* The broker takes the request; the order dies later, or fills.
CancelAnswered(o) ==
    /\ cancel[o] = "asked"
    /\ cancel' = [cancel EXCEPT ![o] = "answered"]
    /\ UNCHANGED <<broker, row, hasId, trades, known, place, poll, faults, restarts>>

\* UPDATE orders SET status = 'cancelled', whatever the status is by now.
CancelWrite(o) ==
    /\ cancel[o] = "answered"
    /\ ~Locked(o)
    /\ row' = [row EXCEPT ![o] = "cancelled"]
    /\ cancel' = [cancel EXCEPT ![o] = "idle"]
    /\ UNCHANGED <<broker, hasId, trades, known, place, poll, faults, restarts>>

\* The request or the write raises.
CancelRaises(o) ==
    /\ cancel[o] # "idle"
    /\ cancel' = [cancel EXCEPT ![o] = "idle"]
    /\ UNCHANGED <<broker, row, hasId, trades, known, place, poll, faults, restarts>>

----------------------------------------------------------------------------
\* _sync_open_orders, run every five seconds.

\* Faulty variants of the next definition: the broker's own word is stored, an
\* inactive order counts as done, and inactive orders are not in the map.
RawStatus(state) == IF state = "unknown" THEN "none" ELSE state
InactiveIsFilled(state) ==
    CASE state = "working" -> "submitted"
      [] state \in {"filled", "inactive"} -> "filled"
      [] state = "cancelled" -> "cancelled"
      [] OTHER -> "none"
InactiveIsUnmapped(state) ==
    CASE state = "working" -> "submitted"
      [] state = "filled" -> "filled"
      [] state = "cancelled" -> "cancelled"
      [] OTHER -> "none"

\* _STATUS_MAP
OurStatus(state) ==
    CASE state = "working" -> "submitted"
      [] state = "filled" -> "filled"
      [] state = "cancelled" -> "cancelled"
      [] state = "inactive" -> "error"
      [] OTHER -> "none"

\* A faulty variant of the next definition: a child finds its parent's row.
HasRowOfOrder(l) == row[l.order] # "none" /\ l.order \in hasId

\* An UPDATE or SELECT by ib_order_id finds a row.
HasRow(l) == l.leg = "entry" /\ row[l.order] # "none" /\ l.order \in hasId

\* A faulty variant of the next definition: not only fills.
IsNew(l) == l \notin known

\* is_new_fill
IsNewFill(l) == poll.seen[l] = "filled" /\ l \notin known

\* list_orders answers, and a session is opened.
PollList ==
    /\ poll.pc = "asleep"
    /\ poll' = [Asleep EXCEPT
                  !.pc = "sync",
                  !.todo = {l \in listed : OurStatus(live[l]) # "none"},
                  !.seen = [l \in Legs |-> IF l \in listed THEN live[l] ELSE "unknown"]]
    /\ UNCHANGED <<broker, row, hasId, trades, known, place, cancel, faults, restarts>>

\* One leg of the answer: its row is updated, and a new fill is looked into.
PollUpdate(l) ==
    /\ poll.pc = "sync" /\ poll.fill = None
    /\ l \in poll.todo
    /\ poll' = [poll EXCEPT
                  !.todo = @ \ {l},
                  !.seen[l] = "unknown",
                  !.wrote = TRUE,
                  !.writes[l.order] = IF HasRow(l) THEN OurStatus(poll.seen[l]) ELSE @,
                  !.fill = IF IsNewFill(l) THEN l ELSE None]
    /\ UNCHANGED <<broker, row, hasId, trades, known, place, cancel, faults, restarts>>

\* Faulty variants of the next definition: nothing is remembered, or all legs
\* of the order are.
RememberNothing(l) == known' = known /\ poll' = [poll EXCEPT !.fill = None]
RememberOrder(l) ==
    /\ known' = known \cup LegsOf(l.order)
    /\ poll' = [poll EXCEPT !.fill = None]

\* _record_fill found nothing to record, or the trade service committed: the
\* leg is remembered either way.
Remember(l) ==
    /\ known' = known \cup {l}
    /\ poll' = [poll EXCEPT !.fill = None]

\* open_trade: one more row of trades, since no key conflicts.
OpenTrade(o) == opened' = [opened EXCEPT ![o] = @ + 1] /\ UNCHANGED closed

\* close_trade: the open trades of the order are closed.
CloseTrade(o) == closed' = [closed EXCEPT ![o] = opened[o]] /\ UNCHANGED opened

\* _record_fill: without a row it returns; an exit leg with a row would close
\* the trade, an entry leg opens one in a session of the trade service.
PollRecord ==
    LET l == poll.fill
    IN  /\ l # None
        /\ HasRow(l) => ~WriteLock
        /\ IF ~HasRow(l) THEN UNCHANGED trades
           ELSE IF l.leg = "entry" THEN OpenTrade(l.order) ELSE CloseTrade(l.order)
        /\ Remember(l)
        /\ UNCHANGED <<broker, row, hasId, place, cancel, faults, restarts>>

\* The answer gives no price or quantity yet: _record_fill returns.
PollUnpriced ==
    /\ poll.fill # None
    /\ Fault
    /\ Remember(poll.fill)
    /\ UNCHANGED <<broker, row, hasId, trades, place, cancel, restarts>>

\* The trade service raises: the leg is tried again at the next poll.  With
\* one writer it always does, since the poll's own session holds the lock.
PollRecordRaises ==
    /\ poll.fill # None
    /\ IF WriteLock /\ HasRow(poll.fill) THEN UNCHANGED faults ELSE Fault
    /\ poll' = [poll EXCEPT !.fill = None]
    /\ UNCHANGED <<broker, row, hasId, trades, known, place, cancel, restarts>>

PollCommit ==
    /\ poll.pc = "sync" /\ poll.fill = None /\ poll.todo = {}
    /\ row' = [o \in Orders |-> IF poll.writes[o] # "none" THEN poll.writes[o] ELSE row[o]]
    /\ poll' = Asleep
    /\ UNCHANGED <<broker, hasId, trades, known, place, cancel, faults, restarts>>

\* A statement or the commit raises: the session rolls back.
PollFails ==
    /\ poll.pc = "sync"
    /\ Fault
    /\ poll' = Asleep
    /\ UNCHANGED <<broker, row, hasId, trades, known, place, cancel, restarts>>

Poll ==
    \/ PollList \/ (\E l \in Legs : PollUpdate(l)) \/ PollRecord \/ PollUnpriced
    \/ PollRecordRaises \/ PollCommit \/ PollFails

----------------------------------------------------------------------------
\* The broker and the process.

\* A leg changes state; a child can fill only after its parent.
BrokerMoves(l) == \E state \in BrokerStates \ {"unknown", "pending"} :
    /\ live[l] \in {"pending", "working"} /\ live[l] # state
    /\ state = "filled" /\ l.leg = "exit" => live[Entry(l.order)] = "filled"
    /\ live' = [live EXCEPT ![l] = state]
    /\ UNCHANGED <<listed, row, hasId, trades, known, place, cancel, poll, faults, restarts>>

\* A dead order leaves the list (the broker lists the orders of the session).
Delist(l) ==
    /\ l \in listed /\ live[l] \in Dead
    /\ listed' = listed \ {l}
    /\ UNCHANGED <<live, row, hasId, trades, known, place, cancel, poll, faults, restarts>>

\* Calls under way are lost, and so is the transaction of the poll.
Restart ==
    /\ restarts < MaxRestarts
    /\ restarts' = restarts + 1
    /\ known' = {}
    /\ place' = [o \in Orders |-> IF place[o] = "new" THEN "new" ELSE "done"]
    /\ cancel' = [o \in Orders |-> "idle"]
    /\ poll' = Asleep
    /\ UNCHANGED <<broker, row, hasId, trades, faults>>

Call(o) ==
    \/ PlaceTaken(o) \/ PlaceTimesOut(o) \/ PlaceRefused(o) \/ Insert(o) \/ InsertFails(o)
    \/ CancelRead(o) \/ CancelAnswered(o) \/ CancelWrite(o) \/ CancelRaises(o)

Next ==
    \/ Poll
    \/ \E o \in Orders : Call(o)
    \/ \E l \in Legs : BrokerMoves(l) \/ Delist(l)
    \/ Restart

\* The polling task never ends and its gateway is connected again and again.
Fairness == WF_vars(Poll)

Spec == Init /\ [][Next]_vars /\ Fairness

----------------------------------------------------------------------------
\* Properties

\* _known_filled keeps a fill from being recorded twice; it is in memory, and
\* no key of trades says that a trade exists, so each restart may add one more
\* (adapter.py _known_filled, trade_service.py ON CONFLICT DO NOTHING).
TradesBounded == \A o \in Orders : opened[o] <= 1 + restarts

\* A trade is opened only for an order the broker filled, and only for an
\* order that has a row.
TradeForFill == \A o \in Orders :
    opened[o] > 0 => live[Entry(o)] = "filled" /\ row[o] # "none"

\* The table never claims a fill that did not happen, however the poll, the
\* cancelling calls, failures and restarts interleave.
FilledRowIsTrue == \A o \in Orders : row[o] = "filled" => live[Entry(o)] = "filled"

\* A row that says filled never says submitted or error again: no answer of
\* list_orders is applied after a later one.  (A cancelling call that read the
\* row before the fill may still write 'cancelled'.)
FillNotReopened ==
    [][\A o \in Orders : row[o] = "filled" => row'[o] \in {"filled", "cancelled"}]_vars

\* The table ends up with the status of every dead order that stays listed,
\* whatever cancel_order wrote into it.
StatusConverges == \A o \in Orders :
    (o \in hasId /\ live[Entry(o)] \in Dead)
        ~> [](row[o] = OurStatus(live[Entry(o)]) \/ Entry(o) \notin listed)

\* A fill of an order that has its row, and that was not looked into before,
\* becomes a trade, unless there is a fault, before the fill or after it, or the
\* order leaves the list first.
FillsRecorded == \A o \in Orders :
    (HasRow(Entry(o)) /\ live[Entry(o)] = "filled" /\ Entry(o) \notin known)
        ~> (opened[o] > 0 \/ faults > 0 \/ Entry(o) \notin listed)

\* What the comment above is_new_fill says: a leg is in _known_filled only
\* after its trade was inserted.
KnownIsRecorded == \A o \in Orders : Entry(o) \in known => opened[o] > 0

\* What the docstring of _record_fill says: the fill of an exit leg closes the
\* trade of its parent.
ExitsClose == \A o \in Brackets :
    (opened[o] > 0 /\ live[Exit(o)] = "filled")
        ~> (closed[o] = opened[o] \/ Exit(o) \notin listed)
=============================================================================
