------------------------ MODULE OrderTracking_proofs -------------------------
(***************************************************************************)
(* Safety of the order tables for every set of orders, with row locks or   *)
(* one writer, and any number of faults and restarts.                      *)
(***************************************************************************)
EXTENDS OrderTracking, TLAPS

\* A leg is told from None and from the other legs by its two fields.
LEMMA LegFacts ==
    /\ \A o \in Orders : Entry(o) \in Legs /\ Entry(o).order = o /\ Entry(o).leg = "entry"
    /\ \A l \in Legs : l.order \in Orders /\ (l.leg = "entry" => l = Entry(l.order))
    /\ \A l \in Legs : l.leg \in {"entry", "exit"} /\ l # None
BY TrackingAssumption DEF Legs, Entry, Exit, None

\* The status the table has for a state of the broker.
LEMMA StatusFacts ==
    ASSUME NEW state \in BrokerStates
    PROVE  /\ OurStatus(state) \in RowStates
           /\ OurStatus(state) = "filled" => state = "filled"
BY DEF OurStatus, RowStates, BrokerStates

\* Between two polls there is nothing to do.
LEMMA AsleepType == Asleep \in PollType
BY DEF Asleep, PollType, BrokerStates, RowStates

\* Every variable keeps its type.
THEOREM TrackingType == Spec => []TypeOK
<1>1. Init => TypeOK
  BY AsleepType, TrackingAssumption DEF Init, TypeOK, BrokerStates, RowStates
<1>2. TypeOK /\ [Next]_vars => TypeOK'
  <2> SUFFICES ASSUME TypeOK, [Next]_vars PROVE TypeOK'
    OBVIOUS
  <2> USE DEF TypeOK, broker, trades
  <2>1. ASSUME NEW o \in Orders, Call(o) PROVE TypeOK'
    <3>1. CASE PlaceTaken(o) \/ PlaceTimesOut(o)
      BY <3>1, TrackingAssumption DEF PlaceTaken, PlaceTimesOut, Taken, LegsOf, BrokerStates, Fault
    <3>2. CASE PlaceRefused(o) \/ InsertFails(o)
      BY <3>2, TrackingAssumption DEF PlaceRefused, InsertFails, Fault
    <3>3. CASE Insert(o)
      BY <3>3 DEF Insert, RowStates
    <3>4. CASE CancelRead(o) \/ CancelAnswered(o) \/ CancelRaises(o)
      BY <3>4 DEF CancelRead, CancelAnswered, CancelRaises
    <3>5. CASE CancelWrite(o)
      BY <3>5 DEF CancelWrite, RowStates
    <3> QED BY <2>1, <3>1, <3>2, <3>3, <3>4, <3>5 DEF Call
  <2>2. CASE Poll
    <3>1. CASE PollList
      <4>1. poll' \in PollType
        BY <3>1 DEF PollList, PollType, Asleep, BrokerStates, RowStates
      <4> QED BY <3>1, <4>1 DEF PollList
    <3>2. ASSUME NEW l \in Legs, PollUpdate(l) PROVE TypeOK'
      <4>1. /\ l.order \in Orders /\ poll.seen[l] \in BrokerStates
            /\ OurStatus(poll.seen[l]) \in RowStates /\ "unknown" \in BrokerStates
        BY LegFacts, StatusFacts DEF PollType, BrokerStates
      <4>2. poll' \in PollType
        BY <3>2, <4>1 DEF PollUpdate, PollType
      <4> QED BY <3>2, <4>2 DEF PollUpdate
    <3>3. CASE PollRecord
      <4>1. poll.fill \in Legs /\ poll.fill.order \in Orders
        BY <3>3, LegFacts DEF PollRecord, PollType
      <4>2. poll' \in PollType /\ known' \subseteq Legs
        BY <3>3, <4>1 DEF PollRecord, Remember, PollType
      <4>3. opened' \in [Orders -> Nat] /\ closed' \in [Orders -> Nat]
        BY <3>3, <4>1 DEF PollRecord, OpenTrade, CloseTrade, trades
      <4> QED BY <3>3, <4>2, <4>3 DEF PollRecord
    <3>4. CASE PollUnpriced \/ PollRecordRaises
      <4>1. poll' \in PollType /\ known' \subseteq Legs
        BY <3>4 DEF PollUnpriced, PollRecordRaises, Remember, PollType
      <4> QED BY <3>4, <4>1, TrackingAssumption DEF PollUnpriced, PollRecordRaises, Remember, Fault
    <3>5. CASE PollCommit
      <4>1. row' \in [Orders -> RowStates]
        BY <3>5 DEF PollCommit, PollType
      <4> QED BY <3>5, <4>1, AsleepType DEF PollCommit
    <3>6. CASE PollFails
      BY <3>6, AsleepType, TrackingAssumption DEF PollFails, Fault
    <3> QED BY <2>2, <3>1, <3>2, <3>3, <3>4, <3>5, <3>6 DEF Poll
  <2>3. ASSUME NEW l \in Legs, BrokerMoves(l) \/ Delist(l) PROVE TypeOK'
    BY <2>3 DEF BrokerMoves, Delist
  <2>4. CASE Restart
    BY <2>4, AsleepType, TrackingAssumption DEF Restart
  <2>5. CASE UNCHANGED vars
    BY <2>5 DEF vars
  <2> QED BY <2>1, <2>2, <2>3, <2>4, <2>5 DEF Next
<1> QED BY <1>1, <1>2, PTL DEF Spec

----------------------------------------------------------------------------
\* What the poll has seen filled is filled; what it will write over a row that
\* says filled says filled; a trade is counted once for the run of the process
\* that remembers it and once for each run before.

SeenInv ==
    /\ \A l \in Legs : poll.seen[l] = "filled" => live[l] = "filled"
    /\ poll.fill # None => live[poll.fill] = "filled" /\ poll.fill \notin known

PlaceInv(o) ==
    /\ place[o] = "new" => \A l \in LegsOf(o) : live[l] = "unknown"
    /\ row[o] # "none" => place[o] = "done"
    /\ cancel[o] # "idle" => row[o] # "none"

WriteInv(o) ==
    /\ poll.writes[o] # "none" => row[o] # "none"
    /\ poll.writes[o] = "filled" => live[Entry(o)] = "filled"
    /\ row[o] = "filled" => /\ live[Entry(o)] = "filled"
                            /\ poll.seen[Entry(o)] \in {"unknown", "filled"}
                            /\ poll.writes[o] \in {"none", "filled"}

TradeInv(o) ==
    /\ opened[o] > 0 => live[Entry(o)] = "filled" /\ row[o] # "none"
    /\ opened[o] <= 1 + restarts
    /\ Entry(o) \notin known => opened[o] <= restarts

TrackInv ==
    /\ SeenInv
    /\ \A o \in Orders : PlaceInv(o) /\ WriteInv(o) /\ TradeInv(o)

\* The facts about types that the steps need.
LEMMA TrackTypes ==
    ASSUME TypeOK, NEW o \in Orders
    PROVE  /\ live[Entry(o)] \in BrokerStates /\ row[o] \in RowStates
           /\ opened[o] \in Nat /\ restarts \in Nat
           /\ poll.seen \in [Legs -> BrokerStates] /\ poll.writes \in [Orders -> RowStates]
BY LegFacts, TrackingAssumption DEF TypeOK, PollType

\* A step of a call: only an order that is being placed changes at the broker,
\* only one without a filled row gets a row, and no row says filled for it.
LEMMA CallTracks ==
    ASSUME TypeOK, TrackInv, NEW z \in Orders, Call(z)
    PROVE  TrackInv'
<1>1. /\ UNCHANGED <<opened, closed, known, poll, restarts>>
      /\ live' \in [Legs -> BrokerStates]
      /\ \A l \in Legs : l.order # z \/ place[z] # "new" => live'[l] = live[l]
  BY DEF Call, PlaceTaken, PlaceTimesOut, Taken, LegsOf, PlaceRefused, Insert, InsertFails,
         CancelRead, CancelAnswered, CancelWrite, CancelRaises, broker, trades, TypeOK, BrokerStates
<1>2. /\ \A o \in Orders \ {z} : row'[o] = row[o] /\ place'[o] = place[o]
      /\ row'[z] \in {row[z], "submitted", "cancelled"}
      /\ row[z] # "none" => row'[z] # "none"
      /\ row'[z] # row[z] => row[z] # "none" \/ place[z] # "new"
      /\ row'[z] # "none" => place'[z] = "done" \/ row[z] # "none"
      /\ row[z] # "none" => place'[z] = "done"
      /\ place'[z] = "new" => place[z] = "new" /\ live' = live
      /\ \A o \in Orders : cancel'[o] # "idle" => cancel[o] # "idle" \/ row[o] # "none"
  <2>1. (row[z] # "none" => place[z] = "done") /\ (cancel[z] # "idle" => row[z] # "none")
    BY DEF TrackInv, PlaceInv
  <2>2. CASE PlaceTaken(z) \/ PlaceTimesOut(z) \/ PlaceRefused(z)
    BY <2>1, <2>2 DEF PlaceTaken, PlaceTimesOut, Taken, PlaceRefused, TypeOK
  <2>3. CASE Insert(z) \/ InsertFails(z)
    BY <2>1, <2>3 DEF Insert, InsertFails, TypeOK
  <2>4. CASE CancelRead(z) \/ CancelAnswered(z) \/ CancelRaises(z)
    BY <2>1, <2>4 DEF CancelRead, CancelAnswered, CancelRaises, broker, TypeOK
  <2>5. CASE CancelWrite(z)
    BY <2>1, <2>5 DEF CancelWrite, TypeOK, broker
  <2> QED BY <2>2, <2>3, <2>4, <2>5 DEF Call
<1>3. \A l \in Legs : live[l] = "filled" => live'[l] = "filled"
  BY <1>1, LegFacts DEF TrackInv, PlaceInv, LegsOf
<1>4. SeenInv'
  BY <1>1, <1>3, LegFacts DEF TrackInv, SeenInv, TypeOK, PollType
<1>5. ASSUME NEW o \in Orders PROVE PlaceInv(o)' /\ WriteInv(o)' /\ TradeInv(o)'
  <2>1. PlaceInv(o) /\ WriteInv(o) /\ TradeInv(o) /\ Entry(o) \in Legs
    BY LegFacts DEF TrackInv
  <2>2. row'[o] = "filled" => row[o] = "filled"
    BY <1>2
  <2>3. PlaceInv(o)'
    BY <1>1, <1>2, <2>1 DEF PlaceInv, LegsOf
  <2>4. WriteInv(o)'
    BY <1>1, <1>2, <1>3, <2>1, <2>2 DEF WriteInv
  <2>5. TradeInv(o)'
    BY <1>1, <1>2, <1>3, <2>1 DEF TradeInv
  <2> QED BY <2>3, <2>4, <2>5
<1> QED BY <1>4, <1>5 DEF TrackInv

\* A step of the broker: what is filled stays filled.
LEMMA BrokerTracks ==
    ASSUME TypeOK, TrackInv, NEW l \in Legs, BrokerMoves(l) \/ Delist(l)
    PROVE  TrackInv'
<1>1. /\ UNCHANGED <<row, opened, known, place, cancel, poll, restarts>>
      /\ \A k \in Legs : live[k] \in {"unknown", "filled"} => live'[k] = live[k]
  BY DEF BrokerMoves, Delist, trades, TypeOK
<1>2. SeenInv'
  BY <1>1, LegFacts DEF TrackInv, SeenInv, TypeOK, PollType
<1>3. ASSUME NEW o \in Orders PROVE PlaceInv(o)' /\ WriteInv(o)' /\ TradeInv(o)'
  BY <1>1, LegFacts DEF TrackInv, PlaceInv, WriteInv, TradeInv, LegsOf
<1> QED BY <1>2, <1>3 DEF TrackInv

\* A step of the poll: it reads the broker after every row it may overwrite
\* was written, and remembers each fill it turns into a trade.
LEMMA PollTracks ==
    ASSUME TypeOK, TrackInv, Poll
    PROVE  TrackInv'
<1>1. /\ UNCHANGED <<live, place, cancel, restarts>>
      /\ poll \in PollType /\ known \subseteq Legs
  BY DEF Poll, PollList, PollUpdate, PollRecord, PollUnpriced, PollRecordRaises, PollCommit,
         PollFails, Remember, broker, TypeOK
<1>2. CASE PollList
  <2>1. /\ UNCHANGED <<row, opened, known>>
        /\ \A l \in Legs : poll'.seen[l] \in {live[l], "unknown"}
        /\ poll'.fill = None /\ poll'.writes = [o \in Orders |-> "none"]
    BY <1>2 DEF PollList, Asleep, trades
  <2>2. SeenInv'
    BY <1>1, <2>1 DEF TrackInv, SeenInv
  <2>3. ASSUME NEW o \in Orders PROVE PlaceInv(o)' /\ WriteInv(o)' /\ TradeInv(o)'
    BY <1>1, <2>1, LegFacts DEF TrackInv, PlaceInv, WriteInv, TradeInv
  <2> QED BY <2>2, <2>3 DEF TrackInv
<1>3. ASSUME NEW l \in Legs, PollUpdate(l) PROVE TrackInv'
  <2>1. /\ UNCHANGED <<row, opened, known>>
        /\ poll'.seen = [poll.seen EXCEPT ![l] = "unknown"]
        /\ poll'.fill = IF IsNewFill(l) THEN l ELSE None
        /\ poll'.writes = [poll.writes EXCEPT
                             ![l.order] = IF HasRow(l) THEN OurStatus(poll.seen[l]) ELSE @]
    BY <1>1, <1>3 DEF PollUpdate, trades, PollType
  <2>2. SeenInv'
    BY <1>1, <2>1 DEF TrackInv, SeenInv, IsNewFill, PollType
  <2>3. ASSUME NEW o \in Orders PROVE PlaceInv(o)' /\ WriteInv(o)' /\ TradeInv(o)'
    <3>1. PlaceInv(o) /\ WriteInv(o) /\ TradeInv(o)
      BY DEF TrackInv
    <3>2. CASE o = l.order /\ HasRow(l)
      <4>1. /\ l = Entry(o) /\ row[o] # "none"
            /\ poll'.writes[o] = OurStatus(poll.seen[l]) /\ poll.seen[l] \in BrokerStates
        BY <1>1, <2>1, <3>2, LegFacts DEF HasRow, PollType
      <4>2. poll'.writes[o] = "filled" => live[Entry(o)] = "filled"
        BY <4>1, StatusFacts DEF TrackInv, SeenInv
      <4>3. row[o] = "filled" => poll'.writes[o] \in {"none", "filled"}
        BY <3>1, <4>1 DEF WriteInv, OurStatus
      <4> QED BY <1>1, <2>1, <3>1, <4>1, <4>2, <4>3 DEF PlaceInv, WriteInv, TradeInv, PollType
    <3>3. CASE ~(o = l.order /\ HasRow(l))
      <4>1. poll'.writes[o] = poll.writes[o]
        BY <1>1, <2>1, <3>3 DEF PollType
      <4> QED BY <1>1, <2>1, <3>1, <4>1, LegFacts DEF PlaceInv, WriteInv, TradeInv, PollType
    <3> QED BY <3>2, <3>3
  <2> QED BY <2>2, <2>3 DEF TrackInv
<1>4. CASE PollRecord
  <2>1. /\ poll.fill \in Legs /\ poll.fill \notin known /\ live[poll.fill] = "filled"
        /\ row' = row /\ known' = known \cup {poll.fill}
        /\ poll'.seen = poll.seen /\ poll'.writes = poll.writes /\ poll'.fill = None
    BY <1>1, <1>4 DEF PollRecord, Remember, TrackInv, SeenInv, PollType
  <2>2. SeenInv'
    BY <1>1, <2>1 DEF TrackInv, SeenInv
  <2>3. ASSUME NEW o \in Orders PROVE PlaceInv(o)' /\ WriteInv(o)' /\ TradeInv(o)'
    <3>1. PlaceInv(o) /\ WriteInv(o) /\ TradeInv(o) /\ opened[o] \in Nat /\ restarts \in Nat
      BY TrackTypes DEF TrackInv
    <3>2. \/ opened'[o] = opened[o]
          \/ poll.fill = Entry(o) /\ row[o] # "none" /\ opened'[o] = opened[o] + 1
      BY <1>4, <2>1, LegFacts DEF PollRecord, OpenTrade, CloseTrade, trades, HasRow, TypeOK
    <3>3. TradeInv(o)'
      BY <1>1, <2>1, <3>1, <3>2 DEF TradeInv
    <3> QED BY <1>1, <2>1, <3>1, <3>3 DEF PlaceInv, WriteInv
  <2> QED BY <2>2, <2>3 DEF TrackInv
<1>5. CASE PollUnpriced \/ PollRecordRaises
  <2>1. /\ UNCHANGED <<row, opened>>
        /\ known \subseteq known'
        /\ poll'.seen = poll.seen /\ poll'.writes = poll.writes /\ poll'.fill = None
    BY <1>1, <1>5 DEF PollUnpriced, PollRecordRaises, Remember, trades, PollType
  <2>2. SeenInv'
    BY <1>1, <2>1 DEF TrackInv, SeenInv
  <2>3. ASSUME NEW o \in Orders PROVE PlaceInv(o)' /\ WriteInv(o)' /\ TradeInv(o)'
    BY <1>1, <2>1, LegFacts DEF TrackInv, PlaceInv, WriteInv, TradeInv
  <2> QED BY <2>2, <2>3 DEF TrackInv
<1>6. CASE PollCommit \/ PollFails
  <2>1. /\ UNCHANGED <<opened, known>> /\ poll' = Asleep
        /\ \A o \in Orders : \/ row'[o] = row[o]
                             \/ poll.writes[o] # "none" /\ row'[o] = poll.writes[o]
    BY <1>6 DEF PollCommit, PollFails, trades
  <2>2. SeenInv'
    BY <1>1, <2>1 DEF TrackInv, SeenInv, Asleep
  <2>3. ASSUME NEW o \in Orders PROVE PlaceInv(o)' /\ WriteInv(o)' /\ TradeInv(o)'
    BY <1>1, <2>1, LegFacts DEF TrackInv, PlaceInv, WriteInv, TradeInv, Asleep
  <2> QED BY <2>2, <2>3 DEF TrackInv
<1> QED BY <1>2, <1>3, <1>4, <1>5, <1>6 DEF Poll

\* A restart forgets what was recorded, and counts for one more trade.
LEMMA RestartTracks ==
    ASSUME TypeOK, TrackInv, Restart
    PROVE  TrackInv'
<1>1. /\ UNCHANGED <<live, row, opened>> /\ restarts' = restarts + 1
      /\ known' = {} /\ poll' = Asleep
      /\ place' = [o \in Orders |-> IF place[o] = "new" THEN "new" ELSE "done"]
      /\ cancel' = [o \in Orders |-> "idle"]
  BY DEF Restart, broker, trades
<1>2. SeenInv'
  BY <1>1 DEF SeenInv, Asleep
<1>3. ASSUME NEW o \in Orders PROVE PlaceInv(o)' /\ WriteInv(o)' /\ TradeInv(o)'
  <2>1. PlaceInv(o) /\ WriteInv(o) /\ TradeInv(o) /\ opened[o] \in Nat /\ restarts \in Nat
    BY TrackTypes DEF TrackInv
  <2> QED BY <1>1, <2>1, LegFacts DEF PlaceInv, WriteInv, TradeInv, Asleep
<1> QED BY <1>2, <1>3 DEF TrackInv

\* The strengthened invariant holds in every reachable state.
LEMMA TrackInvariant == Spec => []TrackInv
<1>1. Init => TrackInv
  BY LegFacts
  DEF Init, TrackInv, SeenInv, PlaceInv, WriteInv, TradeInv, Asleep, LegsOf
<1>2. TypeOK /\ TrackInv /\ [Next]_vars => TrackInv'
  <2> SUFFICES ASSUME TypeOK, TrackInv, [Next]_vars PROVE TrackInv'
    OBVIOUS
  <2>1. CASE UNCHANGED vars
    BY <2>1 DEF vars, broker, trades, TrackInv, SeenInv, PlaceInv, WriteInv, TradeInv
  <2> QED BY <2>1, CallTracks, BrokerTracks, PollTracks, RestartTracks DEF Next
<1> QED BY <1>1, <1>2, TrackingType, PTL DEF Spec

\* No order gets more trades than the process has had runs.
THEOREM TradesBound == Spec => []TradesBounded
<1>1. TrackInv => TradesBounded
  BY DEF TrackInv, TradeInv, TradesBounded
<1> QED BY <1>1, TrackInvariant, PTL

\* Every trade is of a filled order that has a row.
THEOREM TradeSound == Spec => []TradeForFill
<1>1. TrackInv => TradeForFill
  BY DEF TrackInv, TradeInv, TradeForFill
<1> QED BY <1>1, TrackInvariant, PTL

\* A row that says filled is right.
THEOREM FilledSound == Spec => []FilledRowIsTrue
<1>1. TrackInv => FilledRowIsTrue
  BY DEF TrackInv, WriteInv, FilledRowIsTrue
<1> QED BY <1>1, TrackInvariant, PTL

\* A row that says filled is never taken back by the poll.
THEOREM FillStays == Spec => FillNotReopened
<1>1. TypeOK /\ TrackInv /\ [Next]_vars
         => [\A o \in Orders : row[o] = "filled" => row'[o] \in {"filled", "cancelled"}]_vars
  <2> SUFFICES ASSUME TypeOK, TrackInv, [Next]_vars, NEW o \in Orders, row[o] = "filled"
               PROVE  row'[o] \in {"filled", "cancelled"}
    OBVIOUS
  <2>0. place[o] = "done" /\ poll.writes[o] \in {"none", "filled"}
    BY DEF TrackInv, PlaceInv, WriteInv
  <2>1. ASSUME NEW z \in Orders, Call(z) PROVE row'[o] \in {"filled", "cancelled"}
    BY <2>0, <2>1
    DEF Call, PlaceTaken, PlaceTimesOut, PlaceRefused, Insert, InsertFails, CancelRead,
        CancelAnswered, CancelWrite, CancelRaises, TypeOK
  <2>2. CASE Poll
    BY <2>0, <2>2
    DEF Poll, PollList, PollUpdate, PollRecord, PollUnpriced, PollRecordRaises, PollCommit, PollFails
  <2>3. CASE Restart \/ \E l \in Legs : BrokerMoves(l) \/ Delist(l)
    BY <2>3 DEF Restart, BrokerMoves, Delist
  <2>4. CASE UNCHANGED vars
    BY <2>4 DEF vars
  <2> QED BY <2>1, <2>2, <2>3, <2>4 DEF Next
<1> QED BY <1>1, TrackInvariant, TrackingType, PTL DEF Spec, FillNotReopened
=============================================================================
