--------------------------- MODULE DydxOrderClient ---------------------------
(***************************************************************************)
(* src/backend/dydx/orderClient.ts: orders are placed at the exchange with *)
(* retries, followed by a status monitor and cancelled, over requests that *)
(* may be lost, answered late or applied after the client gave them up.    *)
(* The exchange itself is external: it is modelled by what the client's    *)
(* requests and its reading of the answers suppose.  "OPEN" stands for the *)
(* statuses OPEN, UNTRIGGERED and PARTIALLY_FILLED, "CANCELED" for that    *)
(* and BEST_EFFORT_CANCELED.  Listeners are assumed not to throw.          *)
(***************************************************************************)
EXTENDS Naturals, FiniteSets

CONSTANTS
  Clients,      \* order ids of the bot: the clientOrderIds
  Invalid,      \* the clients whose order validateOrder() refuses
  Ids,          \* dYdX order ids: a bound on the orders the exchange accepts
  Passes,       \* passes of the status monitor that may overlap
  Cancels,      \* cancelOrder() calls that send a request: a bound on them
  None,         \* undefined
  MaxRetries,   \* config.maxRetries
  MaxCalls,     \* bound: placeOrder() calls per client
  MaxFaults     \* bound: requests whose answer the client does not get

ASSUME ClientAssumption ==
  /\ IsFiniteSet(Clients) /\ IsFiniteSet(Ids)
  /\ Invalid \subseteq Clients
  /\ None \notin Ids \cup Clients \cup {"OPEN", "FILLED", "CANCELED"}
  /\ MaxRetries \in Nat /\ MaxCalls \in Nat /\ MaxFaults \in Nat

VARIABLES
  \* the exchange
  owner,          \* the client of an accepted order, None: no such order
  venue,          \* its status
  late,           \* POSTs of a client that were given up and may still arrive
  \* the client
  placing,        \* where the pending placeOrder() of a client is
  placingId,      \* the order its POST was accepted as
  retries,        \* its retryCount
  fetched,        \* the status its getOrderStatus() has read
  activeOrders,   \* dydx order id -> the stored status, None: not in the map
  orderMappings,  \* client -> dydx order id, None: not in the map
  cancelling,     \* where a cancelOrder() call is
  cancelOf,       \* its clientOrderId
  cancelId,       \* the order the client was mapped to when it began
  todo,           \* the orders a monitor pass has still to ask for
  askedFor,       \* the order whose answer is under way to a pass
  answer,         \* the status this answer carries
  monitoring,     \* "off", "on", "stopped": the status interval
  succeeded,      \* metrics.ordersSucceeded
  failed,         \* metrics.ordersFailed
  \* history and bounds
  calls,          \* placeOrder() calls of a client
  placed,         \* orders whose placement was reported as successful
  faults

exchangeVars == <<owner, venue, late>>
cancelVars == <<cancelling, cancelOf, cancelId>>
placingVars == <<placing, placingId, retries>>
placementVars == <<placingVars, fetched, calls, placed, succeeded, failed>>
monitorVars == <<todo, askedFor, answer, monitoring>>
trackingVars == <<activeOrders, orderMappings>>
vars == <<exchangeVars, placementVars, monitorVars, trackingVars, cancelVars, faults>>

-----------------------------------------------------------------------------
VenueStatuses == {"OPEN", "FILLED", "CANCELED"}
Closed == {"FILLED", "CANCELED"}

\* "posting": waiting for the rate limit, backing off, or a POST is under way;
\* "accepted": the exchange has the order, its answer is under way; "fetching"
\* and "fetched": getOrderStatus() before and after the exchange read it.
PlacementStages == {"idle", "posting", "accepted", "fetching", "fetched"}

\* "lost": the client gave the DELETE up, it may still arrive.
CancelStages == {"unused", "sent", "done", "refused", "ok", "failed", "lost"}

Pending(c) == placing[c] # "idle"

Init ==
  /\ owner = [id \in Ids |-> None] /\ venue = [id \in Ids |-> None]
  /\ late = [c \in Clients |-> 0]
  /\ placing = [c \in Clients |-> "idle"] /\ placingId = [c \in Clients |-> None]
  /\ retries = [c \in Clients |-> 0]
  /\ fetched = [c \in Clients |-> None]
  /\ activeOrders = [id \in Ids |-> None]
  /\ orderMappings = [c \in Clients |-> None]
  /\ cancelling = [k \in Cancels |-> "unused"]
  /\ cancelOf = [k \in Cancels |-> None] /\ cancelId = [k \in Cancels |-> None]
  /\ todo = [m \in Passes |-> {}]
  /\ askedFor = [m \in Passes |-> None] /\ answer = [m \in Passes |-> None]
  /\ monitoring = "off"
  /\ succeeded = 0 /\ failed = 0
  /\ calls = [c \in Clients |-> 0] /\ placed = {}
  /\ faults = 0

-----------------------------------------------------------------------------
\* A request is not answered in time (AbortSignal.timeout) or at all.
Fault ==
  /\ faults < MaxFaults
  /\ faults' = faults + 1

\* The exchange accepts a POST of c under a fresh id.
Accept(c, id) ==
  /\ owner[id] = None
  /\ owner' = [owner EXCEPT ![id] = c]
  /\ venue' = [venue EXCEPT ![id] = "OPEN"]

\* A POST that the client has given up arrives after all.
LatePostArrives(c, id) ==
  /\ late[c] > 0
  /\ late' = [late EXCEPT ![c] = @ - 1]
  /\ Accept(c, id)
  /\ UNCHANGED <<placementVars, monitorVars, trackingVars, cancelVars, faults>>

\* The order trades, or its good-til-time is over.
VenueCloses(id) ==
  /\ venue[id] = "OPEN"
  /\ \E s \in Closed : venue' = [venue EXCEPT ![id] = s]
  /\ UNCHANGED <<owner, late, placementVars, monitorVars, trackingVars, cancelVars, faults>>

-----------------------------------------------------------------------------
\* placeOrder: a second call for a pending client waits for the same promise
\* and changes nothing.
PlaceOrder(c) ==
  /\ ~Pending(c) /\ calls[c] < MaxCalls
  /\ calls' = [calls EXCEPT ![c] = @ + 1]
  /\ placing' = [placing EXCEPT ![c] = "posting"]
  /\ UNCHANGED <<exchangeVars, placingId, retries, fetched, placed, succeeded, failed, monitorVars, trackingVars,
                 cancelVars, faults>>

\* placeOrder() of c is over.
PlacementEnds(c) ==
  /\ placing' = [placing EXCEPT ![c] = "idle"]
  /\ placingId' = [placingId EXCEPT ![c] = None]
  /\ retries' = [retries EXCEPT ![c] = 0]

Retry(c) ==
  /\ placing' = [placing EXCEPT ![c] = "posting"]
  /\ placingId' = [placingId EXCEPT ![c] = None]
  /\ retries' = [retries EXCEPT ![c] = @ + 1]
  /\ UNCHANGED failed

\* Mutant: the attempts start over instead of ending.
AttemptFails_StartsOver(c, retry) ==
  \/ /\ retry
     /\ placing' = [placing EXCEPT ![c] = "posting"]
     /\ placingId' = [placingId EXCEPT ![c] = None]
     /\ retries' = [retries EXCEPT ![c] = IF @ < MaxRetries THEN @ + 1 ELSE 0]
     /\ UNCHANGED failed
  \/ /\ ~retry
     /\ PlacementEnds(c)
     /\ failed' = failed + 1

\* The catch clause of executePlaceOrder: one more attempt, or placeOrder returns.
AttemptFails(c, retry) ==
  \/ /\ retry /\ retries[c] < MaxRetries
     /\ Retry(c)
  \/ /\ ~retry \/ retries[c] = MaxRetries
     /\ PlacementEnds(c)
     /\ failed' = failed + 1

\* validateOrder() throws before the request, and shouldRetry() judges its text: a
\* message it does not know is retried, one that names a size of 400 is not.
ValidationFails(c) ==
  /\ placing[c] = "posting" /\ c \in Invalid
  /\ \E retry \in BOOLEAN : AttemptFails(c, retry)
  /\ UNCHANGED <<exchangeVars, fetched, calls, placed, succeeded, monitorVars, trackingVars,
                 cancelVars, faults>>

Posting(c) == placing[c] = "posting" /\ c \notin Invalid

PostArrives(c, id) ==
  /\ Posting(c)
  /\ Accept(c, id)
  /\ placing' = [placing EXCEPT ![c] = "accepted"]
  /\ placingId' = [placingId EXCEPT ![c] = id]
  /\ UNCHANGED <<late, retries, fetched, calls, placed, succeeded, failed, monitorVars, trackingVars,
                 cancelVars, faults>>

\* An error answer: shouldRetry() looks for numbers and words in its text.
PostRefused(c) ==
  /\ Posting(c)
  /\ \E retry \in BOOLEAN : AttemptFails(c, retry)
  /\ UNCHANGED <<exchangeVars, fetched, calls, placed, succeeded, monitorVars, trackingVars,
                 cancelVars, faults>>

\* No answer, though the exchange may have the order or get it later: retried.
PostLost(c) ==
  /\ Posting(c) \/ placing[c] = "accepted"
  /\ Fault
  /\ late' = IF placing[c] = "posting" THEN [late EXCEPT ![c] = @ + 1] ELSE late
  /\ AttemptFails(c, TRUE)
  /\ UNCHANGED <<owner, venue, fetched, calls, placed, succeeded, monitorVars, trackingVars, cancelVars>>

\* The answer: the order is mapped and its details are asked for.
PostAnswered(c) ==
  /\ placing[c] = "accepted"
  /\ orderMappings' = [orderMappings EXCEPT ![c] = placingId[c]]
  /\ placed' = placed \cup {placingId[c]}
  /\ placing' = [placing EXCEPT ![c] = "fetching"]
  /\ UNCHANGED <<exchangeVars, placingId, retries, fetched, calls, succeeded, failed, monitorVars, activeOrders,
                 cancelVars, faults>>

FetchRead(c) ==
  /\ placing[c] = "fetching"
  /\ fetched' = [fetched EXCEPT ![c] = venue[placingId[c]]]
  /\ placing' = [placing EXCEPT ![c] = "fetched"]
  /\ UNCHANGED <<exchangeVars, placingId, retries, calls, placed, succeeded, failed, monitorVars, trackingVars,
                 cancelVars, faults>>

\* placeOrder returns successfully.
PlacementReturns(c) ==
  /\ PlacementEnds(c)
  /\ fetched' = [fetched EXCEPT ![c] = None]
  /\ succeeded' = succeeded + 1
  /\ UNCHANGED <<exchangeVars, calls, placed, failed, monitorVars, orderMappings, cancelVars>>

FetchAnswered(c) ==
  /\ placing[c] = "fetched"
  /\ activeOrders' = [activeOrders EXCEPT ![placingId[c]] = fetched[c]]
  /\ PlacementReturns(c)
  /\ UNCHANGED faults

\* A failure to fetch the details is only logged: the order is not monitored.
FetchFails(c) ==
  /\ placing[c] \in {"fetching", "fetched"}
  /\ Fault
  /\ PlacementReturns(c)
  /\ UNCHANGED activeOrders

-----------------------------------------------------------------------------
\* Mutant: the mapping goes before the exchange has confirmed.
CancelOrder_ForgetsFirst(c, k) ==
  /\ orderMappings[c] # None
  /\ cancelling[k] = "unused"
  /\ cancelling' = [cancelling EXCEPT ![k] = "sent"]
  /\ cancelOf' = [cancelOf EXCEPT ![k] = c]
  /\ cancelId' = [cancelId EXCEPT ![k] = orderMappings[c]]
  /\ orderMappings' = [orderMappings EXCEPT ![c] = None]
  /\ UNCHANGED <<exchangeVars, placementVars, monitorVars, activeOrders, faults>>

\* Mutant: the order is stored as cancelled before the exchange has confirmed.
CancelOrder_MarksFirst(c, k) ==
  /\ orderMappings[c] # None
  /\ cancelling[k] = "unused"
  /\ cancelling' = [cancelling EXCEPT ![k] = "sent"]
  /\ cancelOf' = [cancelOf EXCEPT ![k] = c]
  /\ cancelId' = [cancelId EXCEPT ![k] = orderMappings[c]]
  /\ activeOrders' = [activeOrders EXCEPT ![orderMappings[c]] = "CANCELED"]
  /\ UNCHANGED <<exchangeVars, placementVars, monitorVars, orderMappings, faults>>

\* cancelOrder, past its check of the mapping: without one nothing happens.
CancelOrder(c, k) ==
  /\ orderMappings[c] # None
  /\ cancelling[k] = "unused"
  /\ cancelling' = [cancelling EXCEPT ![k] = "sent"]
  /\ cancelOf' = [cancelOf EXCEPT ![k] = c]
  /\ cancelId' = [cancelId EXCEPT ![k] = orderMappings[c]]
  /\ UNCHANGED <<exchangeVars, placementVars, monitorVars, trackingVars, faults>>

CancelMoves(k, at) ==
  /\ cancelling' = [cancelling EXCEPT ![k] = at]
  /\ UNCHANGED <<cancelOf, cancelId>>

\* The exchange cancels an open order and refuses any other.
CancelArrives(k) ==
  /\ cancelling[k] \in {"sent", "lost"}
  /\ IF venue[cancelId[k]] = "OPEN"
     THEN /\ venue' = [venue EXCEPT ![cancelId[k]] = "CANCELED"]
          /\ CancelMoves(k, IF cancelling[k] = "sent" THEN "done" ELSE "failed")
     ELSE /\ CancelMoves(k, IF cancelling[k] = "sent" THEN "refused" ELSE "failed")
          /\ UNCHANGED venue
  /\ UNCHANGED <<owner, late, placementVars, monitorVars, trackingVars, faults>>

\* Mutant: an error answer counts as a cancellation.
Confirmed_Anyway(k) == cancelling[k] \in {"done", "refused"}

Confirmed(k) == cancelling[k] = "done"

\* A confirmed cancellation ends the tracking of what the client maps to now.
CancelAnswered(k) ==
  /\ Confirmed(k)
  /\ CancelMoves(k, "ok")
  /\ activeOrders' = [activeOrders EXCEPT ![cancelId[k]] = None]
  /\ orderMappings' = [orderMappings EXCEPT ![cancelOf[k]] = None]
  /\ UNCHANGED <<exchangeVars, placementVars, monitorVars, faults>>

CancelRefused(k) ==
  /\ cancelling[k] = "refused"
  /\ CancelMoves(k, "failed")
  /\ UNCHANGED <<exchangeVars, placementVars, monitorVars, trackingVars, faults>>

CancelLost(k) ==
  /\ cancelling[k] \in {"sent", "done", "refused"}
  /\ Fault
  /\ CancelMoves(k, IF cancelling[k] = "sent" THEN "lost" ELSE "failed")
  /\ UNCHANGED <<exchangeVars, placementVars, monitorVars, trackingVars>>

-----------------------------------------------------------------------------
Initialize ==
  /\ monitoring = "off"
  /\ monitoring' = "on"
  /\ UNCHANGED <<exchangeVars, placementVars, trackingVars, todo, askedFor, answer, cancelVars, faults>>

\* The interval fires: a pass over the orders tracked now starts, whether or
\* not the previous one is through.
MonitorOrderStatuses(m) ==
  /\ monitoring = "on"
  /\ todo[m] = {}
  /\ todo' = [todo EXCEPT ![m] = {id \in Ids : activeOrders[id] # None}]
  /\ todo'[m] # {}
  /\ UNCHANGED <<exchangeVars, placementVars, trackingVars, askedFor, answer, monitoring, cancelVars, faults>>

\* The exchange answers the request of the pass for its next order; the passes
\* follow the order of the map, which no property tells from any other.
MonitorReads(m, id) ==
  /\ askedFor[m] = None /\ id \in todo[m]
  /\ askedFor' = [askedFor EXCEPT ![m] = id]
  /\ answer' = [answer EXCEPT ![m] = venue[id]]
  /\ UNCHANGED <<exchangeVars, placementVars, trackingVars, todo, monitoring, cancelVars, faults>>

AskedNext(m) ==
  /\ askedFor' = [askedFor EXCEPT ![m] = None]
  /\ answer' = [answer EXCEPT ![m] = None]

MonitorFails(m) ==
  /\ Fault
  /\ \E id \in todo[m] :
       /\ askedFor[m] \in {None, id}
       /\ todo' = [todo EXCEPT ![m] = @ \ {id}]
  /\ AskedNext(m)
  /\ UNCHANGED <<exchangeVars, placementVars, trackingVars, monitoring, cancelVars>>

\* Mutant: a closed order is announced but stays as it was stored.
StatusApplied_KeepsOld(id, status) ==
  IF activeOrders[id] = status
  THEN UNCHANGED trackingVars
  ELSE IF status \in Closed
  THEN /\ UNCHANGED trackingVars
  ELSE /\ activeOrders' = [activeOrders EXCEPT ![id] = status]
       /\ UNCHANGED orderMappings

\* The client applies the answer to what it tracks by then: an order whose
\* status differs, or that is not tracked any more, is stored and announced;
\* if it is closed both its entries go.
StatusApplied(id, status) ==
  IF activeOrders[id] = status
  THEN UNCHANGED trackingVars
  ELSE IF status \in Closed
  THEN /\ activeOrders' = [activeOrders EXCEPT ![id] = None]
       /\ orderMappings' = [c \in Clients |-> IF orderMappings[c] = id THEN None ELSE orderMappings[c]]
  ELSE /\ activeOrders' = [activeOrders EXCEPT ![id] = status]
       /\ UNCHANGED orderMappings

MonitorApplies(m) ==
  /\ askedFor[m] # None
  /\ StatusApplied(askedFor[m], answer[m])
  /\ todo' = [todo EXCEPT ![m] = @ \ {askedFor[m]}]
  /\ AskedNext(m)
  /\ UNCHANGED <<exchangeVars, placementVars, monitoring, cancelVars, faults>>

\* cleanup: the interval ends and every mapped order is cancelled; a pass and a
\* placement that are under way go on.
Cleanup ==
  LET mapped == {c \in Clients : orderMappings[c] # None}
  IN /\ monitoring = "on"
     /\ monitoring' = "stopped"
     /\ \E call \in [Cancels -> mapped \cup {None}] :
          /\ \A k \in Cancels : call[k] # None => cancelling[k] = "unused"
          /\ \A c \in mapped : Cardinality({k \in Cancels : call[k] = c}) = 1
          /\ cancelling' = [k \in Cancels |-> IF call[k] = None THEN cancelling[k] ELSE "sent"]
          /\ cancelOf' = [k \in Cancels |-> IF call[k] = None THEN cancelOf[k] ELSE call[k]]
          /\ cancelId' = [k \in Cancels |->
               IF call[k] = None THEN cancelId[k] ELSE orderMappings[call[k]]]
     /\ UNCHANGED <<exchangeVars, placementVars, trackingVars, todo, askedFor, answer, faults>>

-----------------------------------------------------------------------------
Next ==
  \/ Initialize \/ Cleanup
  \/ \E id \in Ids : VenueCloses(id)
  \/ \E c \in Clients :
       \/ PlaceOrder(c) \/ ValidationFails(c) \/ PostRefused(c) \/ PostLost(c) \/ PostAnswered(c)
       \/ FetchRead(c) \/ FetchAnswered(c) \/ FetchFails(c)
       \/ \E id \in Ids : LatePostArrives(c, id) \/ PostArrives(c, id)
       \/ \E k \in Cancels : CancelOrder(c, k)
  \/ \E k \in Cancels : CancelArrives(k) \/ CancelAnswered(k) \/ CancelRefused(k) \/ CancelLost(k)
  \/ \E m \in Passes :
       \/ MonitorOrderStatuses(m) \/ MonitorFails(m) \/ MonitorApplies(m)
       \/ \E id \in Ids : MonitorReads(m, id)

Spec == Init /\ [][Next]_vars

\* Requests are answered (the faults are bounded), the interval fires while it
\* is on, and continuations of settled promises run.
Fairness ==
  /\ \A c \in Clients :
       WF_vars(\/ ValidationFails(c) \/ PostRefused(c) \/ PostAnswered(c) \/ FetchRead(c)
               \/ FetchAnswered(c) \/ \E id \in Ids : PostArrives(c, id))
  /\ \A k \in Cancels : WF_vars(CancelArrives(k) \/ CancelAnswered(k) \/ CancelRefused(k))
  /\ \A m \in Passes :
       WF_vars(MonitorOrderStatuses(m) \/ MonitorApplies(m) \/ \E id \in Ids : MonitorReads(m, id))

FairSpec == Spec /\ Fairness

-----------------------------------------------------------------------------
\* Types of the exchange's and the client's state.
TypeOK ==
  /\ owner \in [Ids -> Clients \cup {None}]
  /\ venue \in [Ids -> VenueStatuses \cup {None}]
  /\ late \in [Clients -> 0..MaxFaults]
  /\ placing \in [Clients -> PlacementStages]
  /\ placingId \in [Clients -> Ids \cup {None}]
  /\ retries \in [Clients -> 0..MaxRetries]
  /\ fetched \in [Clients -> VenueStatuses \cup {None}]
  /\ activeOrders \in [Ids -> VenueStatuses \cup {None}]
  /\ orderMappings \in [Clients -> Ids \cup {None}]
  /\ cancelling \in [Cancels -> CancelStages]
  /\ cancelOf \in [Cancels -> Clients \cup {None}]
  /\ cancelId \in [Cancels -> Ids \cup {None}]
  /\ todo \in [Passes -> SUBSET Ids]
  /\ askedFor \in [Passes -> Ids \cup {None}]
  /\ answer \in [Passes -> VenueStatuses \cup {None}]
  /\ monitoring \in {"off", "on", "stopped"}
  /\ succeeded \in Nat /\ failed \in Nat
  /\ calls \in [Clients -> 0..MaxCalls]
  /\ placed \subseteq Ids
  /\ faults \in 0..MaxFaults

\* An order whose placement was reported can be cancelled for as long as it is
\* open: whatever stale answer the monitor applies, and whatever cancellation
\* fails, its mapping stays.  (For clients that are placed once: see README.)
OpenOrdersCancellable ==
  \A id \in placed : venue[id] = "OPEN" => orderMappings[owner[id]] = id

\* A cancellation that is reported as successful happened at the exchange.
CancelledAtVenue ==
  \A k \in Cancels : cancelling[k] = "ok" => venue[cancelId[k]] = "CANCELED"

\* What is tracked as closed is closed: the client may lag behind the exchange,
\* but never runs ahead of it or confuses two orders.
TrackingLags ==
  \A id \in Ids : activeOrders[id] \notin {None, "OPEN"} => venue[id] = activeOrders[id]

\* Every placeOrder() and cancelOrder() returns, however many attempts it takes.
CallsReturn ==
  /\ \A c \in Clients : Pending(c) ~> ~Pending(c)
  /\ \A k \in Cancels : cancelling[k] = "sent" ~> cancelling[k] \in {"ok", "failed", "lost"}

\* An order that is tracked as open and closes leaves the tracking while the
\* monitor is on, whatever passes overlap.
OpenTrackingEnds ==
  \A id \in Ids :
    activeOrders[id] = "OPEN" /\ venue[id] \in Closed
      ~> activeOrders[id] # "OPEN" \/ monitoring # "on"

\* "Remove from active tracking if filled or cancelled".
ClosedOrdersLeaveTracking ==
  \A id \in Ids :
    activeOrders[id] # None /\ venue[id] \in Closed
      ~> activeOrders[id] = None \/ monitoring # "on"
=============================================================================
