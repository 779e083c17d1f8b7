------------------------------ MODULE CPSession ------------------------------
(***************************************************************************)
(* The session with the Client Portal Gateway: start, stop and the tickle  *)
(* task of src/src/polara/broker/cp_client.py, as IBClient uses them       *)
(* (src/src/polara/broker/client.py).  The rest of the program asks only   *)
(* whether the account id is set, and stops trading while it is not.       *)
(*                                                                         *)
(* The task stands at the request it makes next; the sleep before a        *)
(* request is not told from waiting for its answer:                        *)
(*                                                                         *)
(*   tickle -> status -> (tickle | reauth -> accounts -> tickle)           *)
(*   any failure -> reauthAgain -> accountsAgain -> tickle                 *)
(***************************************************************************)
EXTENDS Integers

CONSTANTS FirstDelay, MaxDelay      \* of the reconnect loop, in seconds

ASSUME DelayAssumption ==
    FirstDelay \in Nat /\ MaxDelay \in Nat /\ FirstDelay <= MaxDelay

VARIABLES
    gateway,    \* the gateway: reachable, logged in, its session authenticated
    phase,      \* how far the life of the client has come
    connected,  \* CPClient._account_id is not None
    task,       \* the request the tickle task makes next, "none" without a task
    delay       \* seconds the reconnect loop waits before its next attempt

vars == <<gateway, phase, connected, task, delay>>

\* lapsed: logged in, but the brokerage session is not authenticated.
GatewayStates == {"ready", "lapsed", "loggedOut", "down"}
Phases == {"new", "starting", "failed", "running", "stopping", "stopped"}
Keepalive == {"tickle", "status", "reauth", "accounts"}
Reconnecting == {"reauthAgain", "accountsAgain"}

TypeOK ==
    /\ gateway \in GatewayStates
    /\ phase \in Phases
    /\ connected \in BOOLEAN
    /\ task \in Keepalive \cup Reconnecting \cup {"none"}
    /\ delay \in FirstDelay .. MaxDelay

Init ==
    /\ gateway \in GatewayStates
    /\ phase = "new"
    /\ connected = FALSE
    /\ task = "none"
    /\ delay = FirstDelay

----------------------------------------------------------------------------
\* What the gateway may answer.  A request is answered by a gateway that is
\* reachable, and may raise (an error status, a timeout, no accounts) unless
\* the gateway is ready.

Answers == gateway # "down"
Raises == gateway # "ready"

\* The accounts are listed for whoever is logged in.
ListsAccounts == gateway \in {"ready", "lapsed"}

----------------------------------------------------------------------------
\* start, called by IBClient.connect.

Start ==
    /\ phase = "new"
    /\ phase' = "starting"
    /\ UNCHANGED <<gateway, connected, task, delay>>

\* _fetch_account_id answers, and only then is the task created.
Started ==
    /\ phase = "starting" /\ ListsAccounts
    /\ phase' = "running"
    /\ connected' = TRUE
    /\ task' = "tickle"
    /\ UNCHANGED <<gateway, delay>>

\* It raises: connect logs a warning, and there is no task.
StartFails ==
    /\ phase = "starting" /\ Raises
    /\ phase' = "failed"
    /\ UNCHANGED <<gateway, connected, task, delay>>

----------------------------------------------------------------------------
\* _tickle_loop.

Tickle ==
    /\ task = "tickle" /\ Answers
    /\ task' = "status"
    /\ UNCHANGED <<gateway, phase, connected, delay>>

\* The session is authenticated, or the task asks for it to be.
Status ==
    /\ task = "status" /\ Answers
    /\ task' = IF gateway = "ready" THEN "tickle" ELSE "reauth"
    /\ UNCHANGED <<gateway, phase, connected, delay>>

\* The answer to reauthenticate is not looked at.
Reauthenticate ==
    /\ task = "reauth" /\ Answers
    /\ task' = "accounts"
    /\ UNCHANGED <<gateway, phase, connected, delay>>

Reauthenticated ==
    /\ task = "accounts" /\ ListsAccounts
    /\ connected' = TRUE
    /\ task' = "tickle"
    /\ UNCHANGED <<gateway, phase, delay>>

\* A faulty variant of the next definition: the account id stays.
LostUnnoticed ==
    /\ task \in Keepalive /\ Raises
    /\ task' = "reauthAgain"
    /\ delay' = FirstDelay
    /\ UNCHANGED <<gateway, phase, connected>>

\* A request raises.
Lost ==
    /\ task \in Keepalive /\ Raises
    /\ connected' = FALSE
    /\ task' = "reauthAgain"
    /\ delay' = FirstDelay
    /\ UNCHANGED <<gateway, phase>>

----------------------------------------------------------------------------
\* _reconnect_loop.

ReauthenticateAgain ==
    /\ task = "reauthAgain" /\ Answers
    /\ task' = "accountsAgain"
    /\ UNCHANGED <<gateway, phase, connected, delay>>

Reconnected ==
    /\ task = "accountsAgain" /\ ListsAccounts
    /\ connected' = TRUE
    /\ task' = "tickle"
    /\ UNCHANGED <<gateway, phase, delay>>

\* A faulty variant of the next definition: the cap is forgotten.
Doubled(d) == d * 2

NextDelay(d) == IF d * 2 < MaxDelay THEN d * 2 ELSE MaxDelay

\* A faulty variant of the next definition: the exception ends the task.
AttemptKillsTask ==
    /\ task \in Reconnecting /\ Raises
    /\ task' = "none"
    /\ delay' = NextDelay(delay)
    /\ UNCHANGED <<gateway, phase, connected>>

\* An attempt raises: the next one comes later.
AttemptFails ==
    /\ task \in Reconnecting /\ Raises
    /\ task' = "reauthAgain"
    /\ delay' = NextDelay(delay)
    /\ UNCHANGED <<gateway, phase, connected>>

----------------------------------------------------------------------------
\* stop, called by IBClient.disconnect: the task is cancelled at its await and
\* waited for, the HTTP client closed, the account id forgotten.

StopTask ==
    /\ phase \in {"running", "failed"}
    /\ phase' = "stopping"
    /\ task' = "none"
    /\ UNCHANGED <<gateway, connected, delay>>

\* A faulty variant of the next definition: the account id is not forgotten.
ClosedConnected ==
    /\ phase = "stopping"
    /\ phase' = "stopped"
    /\ UNCHANGED <<gateway, connected, task, delay>>

Closed ==
    /\ phase = "stopping"
    /\ phase' = "stopped"
    /\ connected' = FALSE
    /\ UNCHANGED <<gateway, task, delay>>

\* The gateway is restarted, loses its login or its session, or is logged in.
GatewayMoves ==
    /\ gateway' \in GatewayStates \ {gateway}
    /\ UNCHANGED <<phase, connected, task, delay>>

TaskStep ==
    \/ Tickle \/ Status \/ Reauthenticate \/ Reauthenticated \/ Lost
    \/ ReauthenticateAgain \/ Reconnected \/ AttemptFails

Next == Start \/ Started \/ StartFails \/ TaskStep \/ StopTask \/ Closed \/ GatewayMoves

\* Every sleep ends, and every request is answered or times out.
Fairness == WF_vars(TaskStep)

Spec == Init /\ [][Next]_vars /\ Fairness

----------------------------------------------------------------------------
\* Properties

\* Whoever finds the client connected can rely on a task that will notice when
\* it is not: the account id is set only between two keepalives, never while
\* the reconnect loop runs, after a failed start or after stop.  (While stop
\* closes the HTTP client it is still set, and requests raise.)
ConnectedIsWatched ==
    connected => (phase = "running" /\ task \in Keepalive) \/ phase = "stopping"

\* A started client connects again, however the session was lost and however
\* often attempts failed, once the gateway stays ready.
Reconnects == <>[](phase = "running" /\ gateway = "ready") => <>[]connected

\* A started client does not stay connected to a gateway that stays down, so
\* _require_connected ends up refusing every order.
NoticesOutage == <>[](phase = "running" /\ gateway = "down") => <>[]~connected
=============================================================================
