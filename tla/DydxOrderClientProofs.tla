------------------------ MODULE DydxOrderClientProofs ------------------------
(***************************************************************************)
(* Proofs about DydxOrderClient for any number of clients, orders, monitor *)
(* passes, cancellations, retries and faults.                              *)
(***************************************************************************)
EXTENDS DydxOrderClient, TLAPS

\* The parts of TypeOK.
ExchangeType ==
  /\ owner \in [Ids -> Clients \cup {None}]
  /\ venue \in [Ids -> VenueStatuses \cup {None}]
  /\ late \in [Clients -> Nat]

PlacementType ==
  /\ placing \in [Clients -> PlacementStages]
  /\ placingId \in [Clients -> Ids \cup {None}]
  /\ retries \in [Clients -> 0..MaxRetries]

CountersType ==
  /\ fetched \in [Clients -> VenueStatuses \cup {None}]
  /\ succeeded \in Nat /\ failed \in Nat
  /\ calls \in [Clients -> 0..MaxCalls]
  /\ placed \subseteq Ids

TrackingType ==
  /\ activeOrders \in [Ids -> VenueStatuses \cup {None}]
  /\ orderMappings \in [Clients -> Ids \cup {None}]

CancelType ==
  /\ cancelling \in [Cancels -> CancelStages]
  /\ cancelOf \in [Cancels -> Clients \cup {None}]
  /\ cancelId \in [Cancels -> Ids \cup {None}]

MonitorType ==
  /\ todo \in [Passes -> SUBSET Ids]
  /\ askedFor \in [Passes -> Ids \cup {None}]
  /\ answer \in [Passes -> VenueStatuses \cup {None}]
  /\ monitoring \in {"off", "on", "stopped"}

FaultType == faults \in 0..MaxFaults

\* No more POSTs are given up than faults happened.
LateInv == \A c \in Clients : late[c] <= faults

TypeInv ==
  /\ ExchangeType /\ PlacementType /\ CountersType /\ TrackingType
  /\ CancelType /\ MonitorType /\ FaultType /\ LateInv

\* Exactly the accepted orders have a status.
VenueInv == \A id \in Ids : owner[id] = None <=> venue[id] = None

\* What a client has read of an order may be out of date, but a closed order
\* is closed for good.
Lags(id, status) == status \in Closed => venue[id] = status

\* A placement works on an order of its client.
PlacementInvOf(c) ==
  /\ placing[c] \in {"accepted", "fetching", "fetched"} =>
       placingId[c] \in Ids /\ owner[placingId[c]] = c
  /\ placing[c] \in {"fetching", "fetched"} => placingId[c] \in placed
  /\ placing[c] = "fetched" => Lags(placingId[c], fetched[c])

PlacementInv == \A c \in Clients : PlacementInvOf(c)

\* What was placed was accepted, and a client maps to an order of its own.
MappingInv ==
  /\ \A id \in placed : owner[id] \in Clients
  /\ \A c \in Clients :
       orderMappings[c] # None => orderMappings[c] \in placed /\ owner[orderMappings[c]] = c

\* A cancellation is of a placed order of its client.
CancelInvOf(k) ==
  cancelling[k] # "unused" =>
    /\ cancelId[k] \in placed
    /\ owner[cancelId[k]] = cancelOf[k]
    /\ cancelling[k] \in {"done", "ok"} => venue[cancelId[k]] = "CANCELED"

CancelInv == \A k \in Cancels : CancelInvOf(k)

\* The stored statuses and the answers under way lag behind the exchange.
LagInv ==
  /\ \A id \in Ids : Lags(id, activeOrders[id])
  /\ \A m \in Passes : askedFor[m] # None => Lags(askedFor[m], answer[m])

IInv == TypeInv /\ VenueInv /\ PlacementInv /\ MappingInv /\ CancelInv /\ LagInv

\* A client that is placed at most once has one order, and a second placement
\* never begins.
OnceInv ==
  /\ \A c \in Clients : Pending(c) => calls[c] # 0
  /\ \A id \in placed :
       /\ calls[owner[id]] # 0
       /\ Pending(owner[id]) => /\ placing[owner[id]] \in {"fetching", "fetched"}
                                /\ placingId[owner[id]] = id
  /\ \A id, other \in placed : owner[id] = owner[other] => id = other

-----------------------------------------------------------------------------
\* The initial state satisfies the invariant.
LEMMA InitIInv == Init => IInv
<1> SUFFICES ASSUME Init PROVE IInv
  OBVIOUS
<1>1. TypeInv
  BY ClientAssumption DEF Init, TypeInv, ExchangeType, PlacementType, CountersType, TrackingType, CancelType,
     MonitorType, FaultType, LateInv, PlacementStages, CancelStages, VenueStatuses
<1>2. VenueInv /\ PlacementInv /\ MappingInv /\ CancelInv /\ LagInv
  BY ClientAssumption DEF Init, VenueInv, PlacementInv, PlacementInvOf, MappingInv, CancelInv, CancelInvOf,
     LagInv, Lags, Closed
<1> QED BY <1>1, <1>2 DEF IInv

-----------------------------------------------------------------------------
\* Every step keeps the types.
LEMMA TypeStep ==
  ASSUME TypeInv, PlacementInv, [Next]_vars
  PROVE  TypeInv'
<1> USE ClientAssumption DEF TypeInv, exchangeVars, placementVars, monitorVars,
           trackingVars, cancelVars, placingVars
<1>1. CASE Initialize
  <2>1. MonitorType'
    BY <1>1 DEF Initialize, MonitorType
  <2>2. ExchangeType' /\ PlacementType' /\ CountersType' /\ TrackingType' /\ CancelType'
       /\ FaultType' /\ LateInv'
    BY <1>1 DEF Initialize, ExchangeType, PlacementType, CountersType, TrackingType,
       CancelType, FaultType, LateInv
  <2> QED BY <2>1, <2>2
<1>2. CASE Cleanup
  <2>1. CancelType'
    BY <1>2 DEF Cleanup, CancelType, TrackingType, CancelStages
  <2>2. MonitorType'
    BY <1>2 DEF Cleanup, MonitorType
  <2>3. ExchangeType' /\ PlacementType' /\ CountersType' /\ TrackingType' /\ FaultType'
       /\ LateInv'
    BY <1>2 DEF Cleanup, ExchangeType, PlacementType, CountersType, TrackingType,
       FaultType, LateInv
  <2> QED BY <2>1, <2>2, <2>3
<1>3. ASSUME NEW id \in Ids, VenueCloses(id)
       PROVE  TypeInv'
  <2>1. ExchangeType'
    BY <1>3 DEF VenueCloses, ExchangeType, VenueStatuses, Closed, VenueStatuses, Closed
  <2>2. PlacementType' /\ CountersType' /\ TrackingType' /\ CancelType' /\ MonitorType'
       /\ FaultType' /\ LateInv'
    BY <1>3 DEF VenueCloses, PlacementType, CountersType, TrackingType, CancelType,
       MonitorType, FaultType, LateInv
  <2> QED BY <2>1, <2>2
<1>4. ASSUME NEW c \in Clients, PlaceOrder(c)
       PROVE  TypeInv'
  <2>1. PlacementType'
    BY <1>4 DEF PlaceOrder, PlacementType, PlacementStages
  <2>2. CountersType'
    BY <1>4 DEF PlaceOrder, CountersType
  <2>3. ExchangeType' /\ TrackingType' /\ CancelType' /\ MonitorType' /\ FaultType' /\
       LateInv'
    BY <1>4 DEF PlaceOrder, ExchangeType, TrackingType, CancelType, MonitorType,
       FaultType, LateInv
  <2> QED BY <2>1, <2>2, <2>3
<1>5. ASSUME NEW c \in Clients, ValidationFails(c)
       PROVE  TypeInv'
  <2>1. PlacementType'
    BY <1>5 DEF ValidationFails, AttemptFails, Retry, PlacementEnds, PlacementType,
       PlacementStages
  <2>2. CountersType'
    BY <1>5 DEF ValidationFails, AttemptFails, Retry, PlacementEnds, CountersType
  <2>3. ExchangeType' /\ TrackingType' /\ CancelType' /\ MonitorType' /\ FaultType' /\
       LateInv'
    BY <1>5 DEF ValidationFails, AttemptFails, Retry, PlacementEnds, ExchangeType,
       TrackingType, CancelType, MonitorType, FaultType, LateInv
  <2> QED BY <2>1, <2>2, <2>3
<1>6. ASSUME NEW c \in Clients, PostRefused(c)
       PROVE  TypeInv'
  <2>1. PlacementType'
    BY <1>6 DEF PostRefused, AttemptFails, Retry, PlacementEnds, PlacementType,
       PlacementStages
  <2>2. CountersType'
    BY <1>6 DEF PostRefused, AttemptFails, Retry, PlacementEnds, CountersType
  <2>3. ExchangeType' /\ TrackingType' /\ CancelType' /\ MonitorType' /\ FaultType' /\
       LateInv'
    BY <1>6 DEF PostRefused, AttemptFails, Retry, PlacementEnds, ExchangeType,
       TrackingType, CancelType, MonitorType, FaultType, LateInv
  <2> QED BY <2>1, <2>2, <2>3
<1>7. ASSUME NEW c \in Clients, PostLost(c)
       PROVE  TypeInv'
  <2>1. ExchangeType'
    BY <1>7 DEF PostLost, AttemptFails, Retry, PlacementEnds, Fault, Posting,
       ExchangeType, FaultType, LateInv, VenueStatuses, Closed
  <2>2. PlacementType'
    BY <1>7 DEF PostLost, AttemptFails, Retry, PlacementEnds, Fault, Posting,
       PlacementType, PlacementStages
  <2>3. CountersType'
    BY <1>7 DEF PostLost, AttemptFails, Retry, PlacementEnds, Fault, Posting,
       CountersType
  <2>4. FaultType'
    BY <1>7 DEF PostLost, AttemptFails, Retry, PlacementEnds, Fault, Posting, FaultType
  <2>5. LateInv'
    BY <1>7 DEF PostLost, AttemptFails, Retry, PlacementEnds, Fault, Posting, LateInv,
       ExchangeType, FaultType
  <2>6. TrackingType' /\ CancelType' /\ MonitorType'
    BY <1>7 DEF PostLost, AttemptFails, Retry, PlacementEnds, Fault, Posting,
       TrackingType, CancelType, MonitorType
  <2> QED BY <2>1, <2>2, <2>3, <2>4, <2>5, <2>6
<1>8. ASSUME NEW c \in Clients, PostAnswered(c)
       PROVE  TypeInv'
  <2>1. PlacementType'
    BY <1>8 DEF PostAnswered, PlacementType, PlacementStages
  <2>2. CountersType'
    BY <1>8 DEF PostAnswered, PlacementInv, PlacementInvOf, CountersType, PlacementType
  <2>3. TrackingType'
    BY <1>8 DEF PostAnswered, TrackingType, PlacementType, VenueStatuses, Closed
  <2>4. ExchangeType' /\ CancelType' /\ MonitorType' /\ FaultType' /\ LateInv'
    BY <1>8 DEF PostAnswered, ExchangeType, CancelType, MonitorType, FaultType, LateInv
  <2> QED BY <2>1, <2>2, <2>3, <2>4
<1>9. ASSUME NEW c \in Clients, FetchRead(c)
       PROVE  TypeInv'
  <2>1. PlacementType'
    BY <1>9 DEF FetchRead, PlacementType, PlacementStages
  <2>2. CountersType'
    BY <1>9 DEF FetchRead, PlacementInv, PlacementInvOf, CountersType, ExchangeType
  <2>3. ExchangeType' /\ TrackingType' /\ CancelType' /\ MonitorType' /\ FaultType' /\
       LateInv'
    BY <1>9 DEF FetchRead, ExchangeType, TrackingType, CancelType, MonitorType,
       FaultType, LateInv
  <2> QED BY <2>1, <2>2, <2>3
<1>10. ASSUME NEW c \in Clients, FetchAnswered(c)
       PROVE  TypeInv'
  <2>1. PlacementType'
    BY <1>10 DEF FetchAnswered, PlacementReturns, PlacementEnds, PlacementType,
       PlacementStages
  <2>2. CountersType'
    BY <1>10 DEF FetchAnswered, PlacementReturns, PlacementEnds, CountersType
  <2>3. TrackingType'
    BY <1>10 DEF FetchAnswered, PlacementReturns, PlacementEnds, TrackingType,
       CountersType, PlacementType, VenueStatuses, Closed
  <2>4. ExchangeType' /\ CancelType' /\ MonitorType' /\ FaultType' /\ LateInv'
    BY <1>10 DEF FetchAnswered, PlacementReturns, PlacementEnds, ExchangeType,
       CancelType, MonitorType, FaultType, LateInv
  <2> QED BY <2>1, <2>2, <2>3, <2>4
<1>11. ASSUME NEW c \in Clients, FetchFails(c)
       PROVE  TypeInv'
  <2>1. PlacementType'
    BY <1>11 DEF FetchFails, PlacementReturns, PlacementEnds, Fault, PlacementType,
       PlacementStages
  <2>2. CountersType'
    BY <1>11 DEF FetchFails, PlacementReturns, PlacementEnds, Fault, CountersType
  <2>3. FaultType'
    BY <1>11 DEF FetchFails, PlacementReturns, PlacementEnds, Fault, FaultType
  <2>4. LateInv'
    BY <1>11 DEF FetchFails, PlacementReturns, PlacementEnds, Fault, LateInv,
       ExchangeType, FaultType
  <2>5. ExchangeType' /\ TrackingType' /\ CancelType' /\ MonitorType'
    BY <1>11 DEF FetchFails, PlacementReturns, PlacementEnds, Fault, ExchangeType,
       TrackingType, CancelType, MonitorType
  <2> QED BY <2>1, <2>2, <2>3, <2>4, <2>5
<1>12. ASSUME NEW c \in Clients, NEW id \in Ids, LatePostArrives(c, id)
       PROVE  TypeInv'
  <2>1. ExchangeType'
    BY <1>12 DEF LatePostArrives, Accept, ExchangeType, VenueStatuses, Closed
  <2>2. LateInv'
    BY <1>12 DEF LatePostArrives, Accept, LateInv, ExchangeType, FaultType
  <2>3. PlacementType' /\ CountersType' /\ TrackingType' /\ CancelType' /\ MonitorType'
       /\ FaultType'
    BY <1>12 DEF LatePostArrives, Accept, PlacementType, CountersType, TrackingType,
       CancelType, MonitorType, FaultType
  <2> QED BY <2>1, <2>2, <2>3
<1>13. ASSUME NEW c \in Clients, NEW id \in Ids, PostArrives(c, id)
       PROVE  TypeInv'
  <2>1. ExchangeType'
    BY <1>13 DEF PostArrives, Accept, Posting, ExchangeType, VenueStatuses, Closed
  <2>2. PlacementType'
    BY <1>13 DEF PostArrives, Accept, Posting, PlacementType, ExchangeType,
       PlacementStages
  <2>3. CountersType' /\ TrackingType' /\ CancelType' /\ MonitorType' /\ FaultType' /\
       LateInv'
    BY <1>13 DEF PostArrives, Accept, Posting, CountersType, TrackingType, CancelType,
       MonitorType, FaultType, LateInv
  <2> QED BY <2>1, <2>2, <2>3
<1>14. ASSUME NEW c \in Clients, NEW k \in Cancels, CancelOrder(c, k)
       PROVE  TypeInv'
  <2>1. CancelType'
    BY <1>14 DEF CancelOrder, CancelType, TrackingType, CancelStages
  <2>2. ExchangeType' /\ PlacementType' /\ CountersType' /\ TrackingType' /\
       MonitorType' /\ FaultType' /\ LateInv'
    BY <1>14 DEF CancelOrder, ExchangeType, PlacementType, CountersType, TrackingType,
       MonitorType, FaultType, LateInv
  <2> QED BY <2>1, <2>2
<1>15. ASSUME NEW k \in Cancels, CancelArrives(k)
       PROVE  TypeInv'
  <2>1. ExchangeType'
    BY <1>15 DEF CancelArrives, CancelMoves, ExchangeType, VenueStatuses, Closed
  <2>2. CancelType'
    BY <1>15 DEF CancelArrives, CancelMoves, CancelType, CancelStages
  <2>3. PlacementType' /\ CountersType' /\ TrackingType' /\ MonitorType' /\ FaultType'
       /\ LateInv'
    BY <1>15 DEF CancelArrives, CancelMoves, PlacementType, CountersType, TrackingType,
       MonitorType, FaultType, LateInv
  <2> QED BY <2>1, <2>2, <2>3
<1>16. ASSUME NEW k \in Cancels, CancelAnswered(k)
       PROVE  TypeInv'
  <2>1. CancelType'
    BY <1>16 DEF CancelAnswered, CancelMoves, Confirmed, CancelType, CancelStages
  <2>2. TrackingType'
    BY <1>16 DEF CancelAnswered, CancelMoves, Confirmed, TrackingType, VenueStatuses,
       Closed
  <2>3. ExchangeType' /\ PlacementType' /\ CountersType' /\ MonitorType' /\ FaultType'
       /\ LateInv'
    BY <1>16 DEF CancelAnswered, CancelMoves, Confirmed, ExchangeType, PlacementType,
       CountersType, MonitorType, FaultType, LateInv
  <2> QED BY <2>1, <2>2, <2>3
<1>17. ASSUME NEW k \in Cancels, CancelRefused(k)
       PROVE  TypeInv'
  <2>1. CancelType'
    BY <1>17 DEF CancelRefused, CancelMoves, CancelType, CancelStages
  <2>2. ExchangeType' /\ PlacementType' /\ CountersType' /\ TrackingType' /\
       MonitorType' /\ FaultType' /\ LateInv'
    BY <1>17 DEF CancelRefused, CancelMoves, ExchangeType, PlacementType, CountersType,
       TrackingType, MonitorType, FaultType, LateInv
  <2> QED BY <2>1, <2>2
<1>18. ASSUME NEW k \in Cancels, CancelLost(k)
       PROVE  TypeInv'
  <2>1. CancelType'
    BY <1>18 DEF CancelLost, CancelMoves, Fault, CancelType, CancelStages
  <2>2. FaultType'
    BY <1>18 DEF CancelLost, CancelMoves, Fault, FaultType
  <2>3. LateInv'
    BY <1>18 DEF CancelLost, CancelMoves, Fault, LateInv, ExchangeType, FaultType
  <2>4. ExchangeType' /\ PlacementType' /\ CountersType' /\ TrackingType' /\
       MonitorType'
    BY <1>18 DEF CancelLost, CancelMoves, Fault, ExchangeType, PlacementType,
       CountersType, TrackingType, MonitorType
  <2> QED BY <2>1, <2>2, <2>3, <2>4
<1>19. ASSUME NEW m \in Passes, MonitorOrderStatuses(m)
       PROVE  TypeInv'
  <2>1. MonitorType'
    BY <1>19 DEF MonitorOrderStatuses, MonitorType
  <2>2. ExchangeType' /\ PlacementType' /\ CountersType' /\ TrackingType' /\ CancelType'
       /\ FaultType' /\ LateInv'
    BY <1>19 DEF MonitorOrderStatuses, ExchangeType, PlacementType, CountersType,
       TrackingType, CancelType, FaultType, LateInv
  <2> QED BY <2>1, <2>2
<1>20. ASSUME NEW m \in Passes, MonitorFails(m)
       PROVE  TypeInv'
  <2>1. MonitorType'
    BY <1>20 DEF MonitorFails, AskedNext, Fault, MonitorType
  <2>2. FaultType'
    BY <1>20 DEF MonitorFails, AskedNext, Fault, FaultType
  <2>3. LateInv'
    BY <1>20 DEF MonitorFails, AskedNext, Fault, LateInv, ExchangeType, FaultType
  <2>4. ExchangeType' /\ PlacementType' /\ CountersType' /\ TrackingType' /\ CancelType'
    BY <1>20 DEF MonitorFails, AskedNext, Fault, ExchangeType, PlacementType,
       CountersType, TrackingType, CancelType
  <2> QED BY <2>1, <2>2, <2>3, <2>4
<1>21. ASSUME NEW m \in Passes, MonitorApplies(m)
       PROVE  TypeInv'
  <2>1. MonitorType'
    BY <1>21 DEF MonitorApplies, AskedNext, StatusApplied, MonitorType
  <2>2. TrackingType'
    BY <1>21 DEF MonitorApplies, AskedNext, StatusApplied, TrackingType, MonitorType,
       VenueStatuses, Closed
  <2>3. ExchangeType' /\ PlacementType' /\ CountersType' /\ CancelType' /\ FaultType' /\
       LateInv'
    BY <1>21 DEF MonitorApplies, AskedNext, StatusApplied, ExchangeType, PlacementType,
       CountersType, CancelType, FaultType, LateInv
  <2> QED BY <2>1, <2>2, <2>3
<1>22. ASSUME NEW m \in Passes, NEW id \in Ids, MonitorReads(m, id)
       PROVE  TypeInv'
  <2>1. MonitorType'
    BY <1>22 DEF MonitorReads, MonitorType, ExchangeType
  <2>2. ExchangeType' /\ PlacementType' /\ CountersType' /\ TrackingType' /\ CancelType'
       /\ FaultType' /\ LateInv'
    BY <1>22 DEF MonitorReads, ExchangeType, PlacementType, CountersType, TrackingType,
       CancelType, FaultType, LateInv
  <2> QED BY <2>1, <2>2
<1>23. CASE UNCHANGED vars
  BY <1>23 DEF vars, ExchangeType, PlacementType, CountersType, TrackingType,
     CancelType, MonitorType, FaultType, LateInv
<1> QED BY <1>1, <1>2, <1>3, <1>4, <1>5, <1>6, <1>7, <1>8, <1>9, <1>10, <1>11, <1>12,
           <1>13, <1>14, <1>15, <1>16, <1>17, <1>18, <1>19, <1>20, <1>21, <1>22, <1>23
           DEF Next

\* An order gets its owner and its status in one step and loses neither.
LEMMA VenueStep ==
  ASSUME IInv, [Next]_vars
  PROVE  VenueInv'
<1> USE ClientAssumption DEF VenueInv, IInv, TypeInv, ExchangeType, exchangeVars,
           placementVars, monitorVars, trackingVars, cancelVars, placingVars
<1>1. CASE Initialize
  BY <1>1 DEF Initialize
<1>2. CASE Cleanup
  BY <1>2 DEF Cleanup
<1>3. ASSUME NEW id \in Ids, VenueCloses(id)
       PROVE  VenueInv'
  BY <1>3 DEF VenueCloses, VenueStatuses, Closed
<1>4. ASSUME NEW c \in Clients, PlaceOrder(c)
       PROVE  VenueInv'
  BY <1>4 DEF PlaceOrder
<1>5. ASSUME NEW c \in Clients, ValidationFails(c)
       PROVE  VenueInv'
  BY <1>5 DEF ValidationFails, AttemptFails, Retry, PlacementEnds
<1>6. ASSUME NEW c \in Clients, PostRefused(c)
       PROVE  VenueInv'
  BY <1>6 DEF PostRefused, AttemptFails, Retry, PlacementEnds
<1>7. ASSUME NEW c \in Clients, PostLost(c)
       PROVE  VenueInv'
  BY <1>7 DEF PostLost, AttemptFails, Retry, PlacementEnds, Fault, Posting
<1>8. ASSUME NEW c \in Clients, PostAnswered(c)
       PROVE  VenueInv'
  BY <1>8 DEF PostAnswered
<1>9. ASSUME NEW c \in Clients, FetchRead(c)
       PROVE  VenueInv'
  BY <1>9 DEF FetchRead
<1>10. ASSUME NEW c \in Clients, FetchAnswered(c)
       PROVE  VenueInv'
  BY <1>10 DEF FetchAnswered, PlacementReturns, PlacementEnds
<1>11. ASSUME NEW c \in Clients, FetchFails(c)
       PROVE  VenueInv'
  BY <1>11 DEF FetchFails, PlacementReturns, PlacementEnds, Fault
<1>12. ASSUME NEW c \in Clients, NEW id \in Ids, LatePostArrives(c, id)
       PROVE  VenueInv'
  BY <1>12 DEF LatePostArrives, Accept
<1>13. ASSUME NEW c \in Clients, NEW id \in Ids, PostArrives(c, id)
       PROVE  VenueInv'
  BY <1>13 DEF PostArrives, Accept, Posting
<1>14. ASSUME NEW c \in Clients, NEW k \in Cancels, CancelOrder(c, k)
       PROVE  VenueInv'
  BY <1>14 DEF CancelOrder
<1>15. ASSUME NEW k \in Cancels, CancelArrives(k)
       PROVE  VenueInv'
  BY <1>15 DEF CancelArrives, CancelMoves
<1>16. ASSUME NEW k \in Cancels, CancelAnswered(k)
       PROVE  VenueInv'
  BY <1>16 DEF CancelAnswered, CancelMoves, Confirmed
<1>17. ASSUME NEW k \in Cancels, CancelRefused(k)
       PROVE  VenueInv'
  BY <1>17 DEF CancelRefused, CancelMoves
<1>18. ASSUME NEW k \in Cancels, CancelLost(k)
       PROVE  VenueInv'
  BY <1>18 DEF CancelLost, CancelMoves, Fault
<1>19. ASSUME NEW m \in Passes, MonitorOrderStatuses(m)
       PROVE  VenueInv'
  BY <1>19 DEF MonitorOrderStatuses
<1>20. ASSUME NEW m \in Passes, MonitorFails(m)
       PROVE  VenueInv'
  BY <1>20 DEF MonitorFails, AskedNext, Fault
<1>21. ASSUME NEW m \in Passes, MonitorApplies(m)
       PROVE  VenueInv'
  BY <1>21 DEF MonitorApplies, AskedNext, StatusApplied
<1>22. ASSUME NEW m \in Passes, NEW id \in Ids, MonitorReads(m, id)
       PROVE  VenueInv'
  BY <1>22 DEF MonitorReads
<1>23. CASE UNCHANGED vars
  BY <1>23 DEF vars
<1> QED BY <1>1, <1>2, <1>3, <1>4, <1>5, <1>6, <1>7, <1>8, <1>9, <1>10, <1>11, <1>12,
           <1>13, <1>14, <1>15, <1>16, <1>17, <1>18, <1>19, <1>20, <1>21, <1>22, <1>23
           DEF Next

\* A placement keeps working on the order its POST was accepted as.
LEMMA PlacementStep ==
  ASSUME IInv, [Next]_vars
  PROVE  PlacementInv'
<1> USE ClientAssumption DEF PlacementInv, PlacementInvOf, Lags, IInv, TypeInv,
           PlacementType, ExchangeType, CountersType, exchangeVars, placementVars,
           monitorVars, trackingVars, cancelVars, placingVars
<1>1. CASE Initialize
  BY <1>1 DEF Initialize
<1>2. CASE Cleanup
  BY <1>2 DEF Cleanup
<1>3. ASSUME NEW id \in Ids, VenueCloses(id)
       PROVE  PlacementInv'
  BY <1>3 DEF VenueCloses, VenueStatuses, Closed
<1>4. ASSUME NEW c \in Clients, PlaceOrder(c)
       PROVE  PlacementInv'
  BY <1>4 DEF PlaceOrder
<1>5. ASSUME NEW c \in Clients, ValidationFails(c)
       PROVE  PlacementInv'
  BY <1>5 DEF ValidationFails, AttemptFails, Retry, PlacementEnds
<1>6. ASSUME NEW c \in Clients, PostRefused(c)
       PROVE  PlacementInv'
  BY <1>6 DEF PostRefused, AttemptFails, Retry, PlacementEnds
<1>7. ASSUME NEW c \in Clients, PostLost(c)
       PROVE  PlacementInv'
  BY <1>7 DEF PostLost, AttemptFails, Retry, PlacementEnds, Fault, Posting
<1>8. ASSUME NEW c \in Clients, PostAnswered(c)
       PROVE  PlacementInv'
  BY <1>8 DEF PostAnswered
<1>9. ASSUME NEW c \in Clients, FetchRead(c)
       PROVE  PlacementInv'
  BY <1>9 DEF FetchRead, VenueStatuses, Closed
<1>10. ASSUME NEW c \in Clients, FetchAnswered(c)
       PROVE  PlacementInv'
  BY <1>10 DEF FetchAnswered, PlacementReturns, PlacementEnds, VenueStatuses, Closed
<1>11. ASSUME NEW c \in Clients, FetchFails(c)
       PROVE  PlacementInv'
  BY <1>11 DEF FetchFails, PlacementReturns, PlacementEnds, Fault
<1>12. ASSUME NEW c \in Clients, NEW id \in Ids, LatePostArrives(c, id)
       PROVE  PlacementInv'
  BY <1>12 DEF LatePostArrives, Accept, VenueInv
<1>13. ASSUME NEW c \in Clients, NEW id \in Ids, PostArrives(c, id)
       PROVE  PlacementInv'
  BY <1>13 DEF PostArrives, Accept, Posting, VenueInv
<1>14. ASSUME NEW c \in Clients, NEW k \in Cancels, CancelOrder(c, k)
       PROVE  PlacementInv'
  BY <1>14 DEF CancelOrder
<1>15. ASSUME NEW k \in Cancels, CancelArrives(k)
       PROVE  PlacementInv'
  BY <1>15 DEF CancelArrives, CancelMoves, VenueStatuses, Closed
<1>16. ASSUME NEW k \in Cancels, CancelAnswered(k)
       PROVE  PlacementInv'
  BY <1>16 DEF CancelAnswered, CancelMoves, Confirmed
<1>17. ASSUME NEW k \in Cancels, CancelRefused(k)
       PROVE  PlacementInv'
  BY <1>17 DEF CancelRefused, CancelMoves
<1>18. ASSUME NEW k \in Cancels, CancelLost(k)
       PROVE  PlacementInv'
  BY <1>18 DEF CancelLost, CancelMoves, Fault
<1>19. ASSUME NEW m \in Passes, MonitorOrderStatuses(m)
       PROVE  PlacementInv'
  BY <1>19 DEF MonitorOrderStatuses
<1>20. ASSUME NEW m \in Passes, MonitorFails(m)
       PROVE  PlacementInv'
  BY <1>20 DEF MonitorFails, AskedNext, Fault
<1>21. ASSUME NEW m \in Passes, MonitorApplies(m)
       PROVE  PlacementInv'
  BY <1>21 DEF MonitorApplies, AskedNext, StatusApplied
<1>22. ASSUME NEW m \in Passes, NEW id \in Ids, MonitorReads(m, id)
       PROVE  PlacementInv'
  BY <1>22 DEF MonitorReads
<1>23. CASE UNCHANGED vars
  BY <1>23 DEF vars
<1> QED BY <1>1, <1>2, <1>3, <1>4, <1>5, <1>6, <1>7, <1>8, <1>9, <1>10, <1>11, <1>12,
           <1>13, <1>14, <1>15, <1>16, <1>17, <1>18, <1>19, <1>20, <1>21, <1>22, <1>23
           DEF Next

\* Only a reported placement maps a client, to an order of its own.
LEMMA MappingStep ==
  ASSUME IInv, [Next]_vars
  PROVE  MappingInv'
<1> USE ClientAssumption DEF MappingInv, IInv, TypeInv, TrackingType, ExchangeType,
           CountersType, exchangeVars, placementVars, monitorVars, trackingVars,
           cancelVars, placingVars
<1>1. CASE Initialize
  BY <1>1 DEF Initialize
<1>2. CASE Cleanup
  BY <1>2 DEF Cleanup
<1>3. ASSUME NEW id \in Ids, VenueCloses(id)
       PROVE  MappingInv'
  BY <1>3 DEF VenueCloses
<1>4. ASSUME NEW c \in Clients, PlaceOrder(c)
       PROVE  MappingInv'
  BY <1>4 DEF PlaceOrder
<1>5. ASSUME NEW c \in Clients, ValidationFails(c)
       PROVE  MappingInv'
  BY <1>5 DEF ValidationFails, AttemptFails, Retry, PlacementEnds
<1>6. ASSUME NEW c \in Clients, PostRefused(c)
       PROVE  MappingInv'
  BY <1>6 DEF PostRefused, AttemptFails, Retry, PlacementEnds
<1>7. ASSUME NEW c \in Clients, PostLost(c)
       PROVE  MappingInv'
  BY <1>7 DEF PostLost, AttemptFails, Retry, PlacementEnds, Fault, Posting
<1>8. ASSUME NEW c \in Clients, PostAnswered(c)
       PROVE  MappingInv'
  BY <1>8 DEF PostAnswered, PlacementInv, PlacementInvOf, PlacementType
<1>9. ASSUME NEW c \in Clients, FetchRead(c)
       PROVE  MappingInv'
  BY <1>9 DEF FetchRead
<1>10. ASSUME NEW c \in Clients, FetchAnswered(c)
       PROVE  MappingInv'
  BY <1>10 DEF FetchAnswered, PlacementReturns, PlacementEnds
<1>11. ASSUME NEW c \in Clients, FetchFails(c)
       PROVE  MappingInv'
  BY <1>11 DEF FetchFails, PlacementReturns, PlacementEnds, Fault
<1>12. ASSUME NEW c \in Clients, NEW id \in Ids, LatePostArrives(c, id)
       PROVE  MappingInv'
  BY <1>12 DEF LatePostArrives, Accept
<1>13. ASSUME NEW c \in Clients, NEW id \in Ids, PostArrives(c, id)
       PROVE  MappingInv'
  BY <1>13 DEF PostArrives, Accept, Posting, VenueInv
<1>14. ASSUME NEW c \in Clients, NEW k \in Cancels, CancelOrder(c, k)
       PROVE  MappingInv'
  BY <1>14 DEF CancelOrder
<1>15. ASSUME NEW k \in Cancels, CancelArrives(k)
       PROVE  MappingInv'
  BY <1>15 DEF CancelArrives, CancelMoves
<1>16. ASSUME NEW k \in Cancels, CancelAnswered(k)
       PROVE  MappingInv'
  BY <1>16 DEF CancelAnswered, CancelMoves, Confirmed
<1>17. ASSUME NEW k \in Cancels, CancelRefused(k)
       PROVE  MappingInv'
  BY <1>17 DEF CancelRefused, CancelMoves
<1>18. ASSUME NEW k \in Cancels, CancelLost(k)
       PROVE  MappingInv'
  BY <1>18 DEF CancelLost, CancelMoves, Fault
<1>19. ASSUME NEW m \in Passes, MonitorOrderStatuses(m)
       PROVE  MappingInv'
  BY <1>19 DEF MonitorOrderStatuses
<1>20. ASSUME NEW m \in Passes, MonitorFails(m)
       PROVE  MappingInv'
  BY <1>20 DEF MonitorFails, AskedNext, Fault
<1>21. ASSUME NEW m \in Passes, MonitorApplies(m)
       PROVE  MappingInv'
  BY <1>21 DEF MonitorApplies, AskedNext, StatusApplied
<1>22. ASSUME NEW m \in Passes, NEW id \in Ids, MonitorReads(m, id)
       PROVE  MappingInv'
  BY <1>22 DEF MonitorReads
<1>23. CASE UNCHANGED vars
  BY <1>23 DEF vars
<1> QED BY <1>1, <1>2, <1>3, <1>4, <1>5, <1>6, <1>7, <1>8, <1>9, <1>10, <1>11, <1>12,
           <1>13, <1>14, <1>15, <1>16, <1>17, <1>18, <1>19, <1>20, <1>21, <1>22, <1>23
           DEF Next

\* A cancellation is confirmed only when the exchange has cancelled its order.
LEMMA CancelStep ==
  ASSUME IInv, [Next]_vars
  PROVE  CancelInv'
<1> USE ClientAssumption DEF CancelInv, CancelInvOf, IInv, TypeInv, CancelType,
           ExchangeType, CountersType, exchangeVars, placementVars, monitorVars,
           trackingVars, cancelVars, placingVars
<1>1. CASE Initialize
  BY <1>1 DEF Initialize
<1>2. CASE Cleanup
  BY <1>2 DEF Cleanup, MappingInv, TrackingType
<1>3. ASSUME NEW id \in Ids, VenueCloses(id)
       PROVE  CancelInv'
  BY <1>3 DEF VenueCloses, MappingInv
<1>4. ASSUME NEW c \in Clients, PlaceOrder(c)
       PROVE  CancelInv'
  BY <1>4 DEF PlaceOrder
<1>5. ASSUME NEW c \in Clients, ValidationFails(c)
       PROVE  CancelInv'
  BY <1>5 DEF ValidationFails, AttemptFails, Retry, PlacementEnds
<1>6. ASSUME NEW c \in Clients, PostRefused(c)
       PROVE  CancelInv'
  BY <1>6 DEF PostRefused, AttemptFails, Retry, PlacementEnds
<1>7. ASSUME NEW c \in Clients, PostLost(c)
       PROVE  CancelInv'
  BY <1>7 DEF PostLost, AttemptFails, Retry, PlacementEnds, Fault, Posting
<1>8. ASSUME NEW c \in Clients, PostAnswered(c)
       PROVE  CancelInv'
  BY <1>8 DEF PostAnswered
<1>9. ASSUME NEW c \in Clients, FetchRead(c)
       PROVE  CancelInv'
  BY <1>9 DEF FetchRead
<1>10. ASSUME NEW c \in Clients, FetchAnswered(c)
       PROVE  CancelInv'
  BY <1>10 DEF FetchAnswered, PlacementReturns, PlacementEnds
<1>11. ASSUME NEW c \in Clients, FetchFails(c)
       PROVE  CancelInv'
  BY <1>11 DEF FetchFails, PlacementReturns, PlacementEnds, Fault
<1>12. ASSUME NEW c \in Clients, NEW id \in Ids, LatePostArrives(c, id)
       PROVE  CancelInv'
  BY <1>12 DEF LatePostArrives, Accept, MappingInv
<1>13. ASSUME NEW c \in Clients, NEW id \in Ids, PostArrives(c, id)
       PROVE  CancelInv'
  BY <1>13 DEF PostArrives, Accept, Posting, MappingInv
<1>14. ASSUME NEW c \in Clients, NEW k \in Cancels, CancelOrder(c, k)
       PROVE  CancelInv'
  BY <1>14 DEF CancelOrder, MappingInv, TrackingType
<1>15. ASSUME NEW k \in Cancels, CancelArrives(k)
       PROVE  CancelInv'
  BY <1>15 DEF CancelArrives, CancelMoves, MappingInv
<1>16. ASSUME NEW k \in Cancels, CancelAnswered(k)
       PROVE  CancelInv'
  BY <1>16 DEF CancelAnswered, CancelMoves, Confirmed
<1>17. ASSUME NEW k \in Cancels, CancelRefused(k)
       PROVE  CancelInv'
  BY <1>17 DEF CancelRefused, CancelMoves
<1>18. ASSUME NEW k \in Cancels, CancelLost(k)
       PROVE  CancelInv'
  BY <1>18 DEF CancelLost, CancelMoves, Fault
<1>19. ASSUME NEW m \in Passes, MonitorOrderStatuses(m)
       PROVE  CancelInv'
  BY <1>19 DEF MonitorOrderStatuses
<1>20. ASSUME NEW m \in Passes, MonitorFails(m)
       PROVE  CancelInv'
  BY <1>20 DEF MonitorFails, AskedNext, Fault
<1>21. ASSUME NEW m \in Passes, MonitorApplies(m)
       PROVE  CancelInv'
  BY <1>21 DEF MonitorApplies, AskedNext, StatusApplied
<1>22. ASSUME NEW m \in Passes, NEW id \in Ids, MonitorReads(m, id)
       PROVE  CancelInv'
  BY <1>22 DEF MonitorReads
<1>23. CASE UNCHANGED vars
  BY <1>23 DEF vars
<1> QED BY <1>1, <1>2, <1>3, <1>4, <1>5, <1>6, <1>7, <1>8, <1>9, <1>10, <1>11, <1>12,
           <1>13, <1>14, <1>15, <1>16, <1>17, <1>18, <1>19, <1>20, <1>21, <1>22, <1>23
           DEF Next

\* A closed status in the tracking or on its way to it is that of the exchange.
LEMMA LagStep ==
  ASSUME IInv, [Next]_vars
  PROVE  LagInv'
<1> USE ClientAssumption DEF LagInv, Lags, IInv, TypeInv, MonitorType, TrackingType,
           ExchangeType, Closed, exchangeVars, placementVars, monitorVars, trackingVars,
           cancelVars, placingVars
<1>1. CASE Initialize
  BY <1>1 DEF Initialize
<1>2. CASE Cleanup
  BY <1>2 DEF Cleanup
<1>3. ASSUME NEW id \in Ids, VenueCloses(id)
       PROVE  LagInv'
  BY <1>3 DEF VenueCloses
<1>4. ASSUME NEW c \in Clients, PlaceOrder(c)
       PROVE  LagInv'
  BY <1>4 DEF PlaceOrder
<1>5. ASSUME NEW c \in Clients, ValidationFails(c)
       PROVE  LagInv'
  BY <1>5 DEF ValidationFails, AttemptFails, Retry, PlacementEnds
<1>6. ASSUME NEW c \in Clients, PostRefused(c)
       PROVE  LagInv'
  BY <1>6 DEF PostRefused, AttemptFails, Retry, PlacementEnds
<1>7. ASSUME NEW c \in Clients, PostLost(c)
       PROVE  LagInv'
  BY <1>7 DEF PostLost, AttemptFails, Retry, PlacementEnds, Fault, Posting
<1>8. ASSUME NEW c \in Clients, PostAnswered(c)
       PROVE  LagInv'
  BY <1>8 DEF PostAnswered
<1>9. ASSUME NEW c \in Clients, FetchRead(c)
       PROVE  LagInv'
  BY <1>9 DEF FetchRead
<1>10. ASSUME NEW c \in Clients, FetchAnswered(c)
       PROVE  LagInv'
  BY <1>10 DEF FetchAnswered, PlacementReturns, PlacementEnds, PlacementInv,
     PlacementInvOf
<1>11. ASSUME NEW c \in Clients, FetchFails(c)
       PROVE  LagInv'
  BY <1>11 DEF FetchFails, PlacementReturns, PlacementEnds, Fault
<1>12. ASSUME NEW c \in Clients, NEW id \in Ids, LatePostArrives(c, id)
       PROVE  LagInv'
  BY <1>12 DEF LatePostArrives, Accept, VenueInv
<1>13. ASSUME NEW c \in Clients, NEW id \in Ids, PostArrives(c, id)
       PROVE  LagInv'
  BY <1>13 DEF PostArrives, Accept, Posting, VenueInv
<1>14. ASSUME NEW c \in Clients, NEW k \in Cancels, CancelOrder(c, k)
       PROVE  LagInv'
  BY <1>14 DEF CancelOrder
<1>15. ASSUME NEW k \in Cancels, CancelArrives(k)
       PROVE  LagInv'
  BY <1>15 DEF CancelArrives, CancelMoves
<1>16. ASSUME NEW k \in Cancels, CancelAnswered(k)
       PROVE  LagInv'
  BY <1>16 DEF CancelAnswered, CancelMoves, Confirmed
<1>17. ASSUME NEW k \in Cancels, CancelRefused(k)
       PROVE  LagInv'
  BY <1>17 DEF CancelRefused, CancelMoves
<1>18. ASSUME NEW k \in Cancels, CancelLost(k)
       PROVE  LagInv'
  BY <1>18 DEF CancelLost, CancelMoves, Fault
<1>19. ASSUME NEW m \in Passes, MonitorOrderStatuses(m)
       PROVE  LagInv'
  BY <1>19 DEF MonitorOrderStatuses
<1>20. ASSUME NEW m \in Passes, MonitorFails(m)
       PROVE  LagInv'
  BY <1>20 DEF MonitorFails, AskedNext, Fault
<1>21. ASSUME NEW m \in Passes, MonitorApplies(m)
       PROVE  LagInv'
  BY <1>21 DEF MonitorApplies, AskedNext, StatusApplied
<1>22. ASSUME NEW m \in Passes, NEW id \in Ids, MonitorReads(m, id)
       PROVE  LagInv'
  BY <1>22 DEF MonitorReads
<1>23. CASE UNCHANGED vars
  BY <1>23 DEF vars
<1> QED BY <1>1, <1>2, <1>3, <1>4, <1>5, <1>6, <1>7, <1>8, <1>9, <1>10, <1>11, <1>12,
           <1>13, <1>14, <1>15, <1>16, <1>17, <1>18, <1>19, <1>20, <1>21, <1>22, <1>23
           DEF Next

\* With one call per client no second order of it is reported.
LEMMA OnceStep ==
  ASSUME MaxCalls = 1, IInv, OnceInv, [Next]_vars
  PROVE  OnceInv'
<1> USE ClientAssumption DEF OnceInv, Pending, IInv, MappingInv, TypeInv, PlacementType,
           PlacementStages, ExchangeType, CountersType, exchangeVars, placementVars,
           monitorVars, trackingVars, cancelVars, placingVars
<1>1. CASE Initialize
  BY <1>1 DEF Initialize
<1>2. CASE Cleanup
  BY <1>2 DEF Cleanup
<1>3. ASSUME NEW id \in Ids, VenueCloses(id)
       PROVE  OnceInv'
  BY <1>3 DEF VenueCloses
<1>4. ASSUME NEW c \in Clients, PlaceOrder(c)
       PROVE  OnceInv'
  BY <1>4 DEF PlaceOrder
<1>5. ASSUME NEW c \in Clients, ValidationFails(c)
       PROVE  OnceInv'
  BY <1>5 DEF ValidationFails, AttemptFails, Retry, PlacementEnds
<1>6. ASSUME NEW c \in Clients, PostRefused(c)
       PROVE  OnceInv'
  <2>1. Posting(c) /\ UNCHANGED <<owner, calls, placed>>
    BY <1>6 DEF PostRefused
  <2>2. Retry(c) \/ PlacementEnds(c)
    BY <1>6 DEF PostRefused, AttemptFails
  <2> QED BY <2>1, <2>2 DEF Posting, Retry, PlacementEnds
<1>7. ASSUME NEW c \in Clients, PostLost(c)
       PROVE  OnceInv'
  BY <1>7 DEF PostLost, AttemptFails, Retry, PlacementEnds, Fault, Posting
<1>8. ASSUME NEW c \in Clients, PostAnswered(c)
       PROVE  OnceInv'
  BY <1>8 DEF PostAnswered, PlacementInv, PlacementInvOf, VenueInv
<1>9. ASSUME NEW c \in Clients, FetchRead(c)
       PROVE  OnceInv'
  BY <1>9 DEF FetchRead
<1>10. ASSUME NEW c \in Clients, FetchAnswered(c)
       PROVE  OnceInv'
  BY <1>10 DEF FetchAnswered, PlacementReturns, PlacementEnds
<1>11. ASSUME NEW c \in Clients, FetchFails(c)
       PROVE  OnceInv'
  BY <1>11 DEF FetchFails, PlacementReturns, PlacementEnds, Fault
<1>12. ASSUME NEW c \in Clients, NEW id \in Ids, LatePostArrives(c, id)
       PROVE  OnceInv'
  BY <1>12 DEF LatePostArrives, Accept, PlacementInv, PlacementInvOf, VenueInv
<1>13. ASSUME NEW c \in Clients, NEW id \in Ids, PostArrives(c, id)
       PROVE  OnceInv'
  BY <1>13 DEF PostArrives, Accept, Posting, PlacementInv, PlacementInvOf, VenueInv
<1>14. ASSUME NEW c \in Clients, NEW k \in Cancels, CancelOrder(c, k)
       PROVE  OnceInv'
  BY <1>14 DEF CancelOrder
<1>15. ASSUME NEW k \in Cancels, CancelArrives(k)
       PROVE  OnceInv'
  BY <1>15 DEF CancelArrives, CancelMoves
<1>16. ASSUME NEW k \in Cancels, CancelAnswered(k)
       PROVE  OnceInv'
  BY <1>16 DEF CancelAnswered, CancelMoves, Confirmed
<1>17. ASSUME NEW k \in Cancels, CancelRefused(k)
       PROVE  OnceInv'
  BY <1>17 DEF CancelRefused, CancelMoves
<1>18. ASSUME NEW k \in Cancels, CancelLost(k)
       PROVE  OnceInv'
  BY <1>18 DEF CancelLost, CancelMoves, Fault
<1>19. ASSUME NEW m \in Passes, MonitorOrderStatuses(m)
       PROVE  OnceInv'
  BY <1>19 DEF MonitorOrderStatuses
<1>20. ASSUME NEW m \in Passes, MonitorFails(m)
       PROVE  OnceInv'
  BY <1>20 DEF MonitorFails, AskedNext, Fault
<1>21. ASSUME NEW m \in Passes, MonitorApplies(m)
       PROVE  OnceInv'
  BY <1>21 DEF MonitorApplies, AskedNext, StatusApplied
<1>22. ASSUME NEW m \in Passes, NEW id \in Ids, MonitorReads(m, id)
       PROVE  OnceInv'
  BY <1>22 DEF MonitorReads
<1>23. CASE UNCHANGED vars
  BY <1>23 DEF vars
<1> QED BY <1>1, <1>2, <1>3, <1>4, <1>5, <1>6, <1>7, <1>8, <1>9, <1>10, <1>11, <1>12,
           <1>13, <1>14, <1>15, <1>16, <1>17, <1>18, <1>19, <1>20, <1>21, <1>22, <1>23
           DEF Next

\* A mapping is given up only for an order that is closed.
LEMMA CancellableStep ==
  ASSUME MaxCalls = 1, IInv, OnceInv, OpenOrdersCancellable, [Next]_vars
  PROVE  OpenOrdersCancellable'
<1> USE ClientAssumption DEF OpenOrdersCancellable, OnceInv, IInv, MappingInv, TypeInv,
           TrackingType, ExchangeType, CountersType, exchangeVars, placementVars,
           monitorVars, trackingVars, cancelVars, placingVars
<1>1. CASE Initialize
  BY <1>1 DEF Initialize
<1>2. CASE Cleanup
  BY <1>2 DEF Cleanup
<1>3. ASSUME NEW id \in Ids, VenueCloses(id)
       PROVE  OpenOrdersCancellable'
  BY <1>3 DEF VenueCloses, VenueStatuses, Closed
<1>4. ASSUME NEW c \in Clients, PlaceOrder(c)
       PROVE  OpenOrdersCancellable'
  BY <1>4 DEF PlaceOrder
<1>5. ASSUME NEW c \in Clients, ValidationFails(c)
       PROVE  OpenOrdersCancellable'
  BY <1>5 DEF ValidationFails, AttemptFails, Retry, PlacementEnds
<1>6. ASSUME NEW c \in Clients, PostRefused(c)
       PROVE  OpenOrdersCancellable'
  BY <1>6 DEF PostRefused, AttemptFails, Retry, PlacementEnds
<1>7. ASSUME NEW c \in Clients, PostLost(c)
       PROVE  OpenOrdersCancellable'
  BY <1>7 DEF PostLost, AttemptFails, Retry, PlacementEnds, Fault, Posting
<1>8. ASSUME NEW c \in Clients, PostAnswered(c)
       PROVE  OpenOrdersCancellable'
  BY <1>8 DEF PostAnswered, PlacementInv, PlacementInvOf, Pending
<1>9. ASSUME NEW c \in Clients, FetchRead(c)
       PROVE  OpenOrdersCancellable'
  BY <1>9 DEF FetchRead
<1>10. ASSUME NEW c \in Clients, FetchAnswered(c)
       PROVE  OpenOrdersCancellable'
  BY <1>10 DEF FetchAnswered, PlacementReturns, PlacementEnds
<1>11. ASSUME NEW c \in Clients, FetchFails(c)
       PROVE  OpenOrdersCancellable'
  BY <1>11 DEF FetchFails, PlacementReturns, PlacementEnds, Fault
<1>12. ASSUME NEW c \in Clients, NEW id \in Ids, LatePostArrives(c, id)
       PROVE  OpenOrdersCancellable'
  BY <1>12 DEF LatePostArrives, Accept, VenueInv
<1>13. ASSUME NEW c \in Clients, NEW id \in Ids, PostArrives(c, id)
       PROVE  OpenOrdersCancellable'
  BY <1>13 DEF PostArrives, Accept, Posting, VenueInv
<1>14. ASSUME NEW c \in Clients, NEW k \in Cancels, CancelOrder(c, k)
       PROVE  OpenOrdersCancellable'
  BY <1>14 DEF CancelOrder
<1>15. ASSUME NEW k \in Cancels, CancelArrives(k)
       PROVE  OpenOrdersCancellable'
  BY <1>15 DEF CancelArrives, CancelMoves, VenueStatuses, Closed
<1>16. ASSUME NEW k \in Cancels, CancelAnswered(k)
       PROVE  OpenOrdersCancellable'
  BY <1>16 DEF CancelAnswered, CancelMoves, Confirmed, CancelInv, CancelInvOf
<1>17. ASSUME NEW k \in Cancels, CancelRefused(k)
       PROVE  OpenOrdersCancellable'
  BY <1>17 DEF CancelRefused, CancelMoves
<1>18. ASSUME NEW k \in Cancels, CancelLost(k)
       PROVE  OpenOrdersCancellable'
  BY <1>18 DEF CancelLost, CancelMoves, Fault
<1>19. ASSUME NEW m \in Passes, MonitorOrderStatuses(m)
       PROVE  OpenOrdersCancellable'
  BY <1>19 DEF MonitorOrderStatuses
<1>20. ASSUME NEW m \in Passes, MonitorFails(m)
       PROVE  OpenOrdersCancellable'
  BY <1>20 DEF MonitorFails, AskedNext, Fault
<1>21. ASSUME NEW m \in Passes, MonitorApplies(m)
       PROVE  OpenOrdersCancellable'
  BY <1>21 DEF MonitorApplies, AskedNext, StatusApplied, LagInv, Lags, Closed,
     MonitorType
<1>22. ASSUME NEW m \in Passes, NEW id \in Ids, MonitorReads(m, id)
       PROVE  OpenOrdersCancellable'
  BY <1>22 DEF MonitorReads
<1>23. CASE UNCHANGED vars
  BY <1>23 DEF vars
<1> QED BY <1>1, <1>2, <1>3, <1>4, <1>5, <1>6, <1>7, <1>8, <1>9, <1>10, <1>11, <1>12,
           <1>13, <1>14, <1>15, <1>16, <1>17, <1>18, <1>19, <1>20, <1>21, <1>22, <1>23
           DEF Next

-----------------------------------------------------------------------------
\* The invariant of the client and the exchange, for every value of the constants.
THEOREM Invariance == Spec => []IInv
<1>1. Init => IInv
  BY InitIInv
<1>2. IInv /\ [Next]_vars => IInv'
  BY TypeStep, VenueStep, PlacementStep, MappingStep, CancelStep, LagStep DEF IInv
<1> QED BY <1>1, <1>2, PTL DEF Spec

\* The state has its types.
THEOREM TypeCorrectness == Spec => []TypeOK
<1>1. IInv => TypeOK
  <2> SUFFICES ASSUME IInv PROVE TypeOK
    OBVIOUS
  <2>1. late \in [Clients -> 0..MaxFaults]
    BY ClientAssumption DEF IInv, TypeInv, ExchangeType, FaultType, LateInv
  <2> QED BY <2>1 DEF IInv, TypeInv, TypeOK, ExchangeType, PlacementType, CountersType, TrackingType,
        CancelType, MonitorType, FaultType
<1> QED BY <1>1, Invariance, PTL

\* A cancellation that cancelOrder() reports as successful happened.
THEOREM CancelledAtVenueAlways == Spec => []CancelledAtVenue
<1>1. IInv => CancelledAtVenue
  BY DEF IInv, CancelInv, CancelInvOf, CancelledAtVenue
<1> QED BY <1>1, Invariance, PTL

\* No order is tracked as closed that is not closed that way.
THEOREM TrackingLagsAlways == Spec => []TrackingLags
<1>1. IInv => TrackingLags
  BY DEF IInv, LagInv, Lags, TypeInv, TrackingType, TrackingLags, VenueStatuses, Closed
<1> QED BY <1>1, Invariance, PTL

\* An order whose placement succeeded stays cancellable while it is open, when
\* no client is placed twice.
THEOREM OpenOrdersCancellableAlways ==
  ASSUME MaxCalls = 1
  PROVE  Spec => []OpenOrdersCancellable
<1>1. Init => OnceInv /\ OpenOrdersCancellable
  BY DEF Init, OnceInv, Pending, OpenOrdersCancellable
<1>2. IInv /\ OnceInv /\ OpenOrdersCancellable /\ [Next]_vars => OnceInv' /\ OpenOrdersCancellable'
  BY OnceStep, CancellableStep
<1> QED BY <1>1, <1>2, Invariance, PTL DEF Spec
=============================================================================
