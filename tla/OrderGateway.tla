----------------------------- MODULE OrderGateway -----------------------------
(***************************************************************************)
(* OrderGateway (include/matching/order_gateway.h, src/order_gateway.cpp): *)
(* numbers the orders of the ingress thread on their way into the queue.   *)
(***************************************************************************)
EXTENDS Events

CONSTANTS
  ClientOrders,    \* what clients want to submit, not numbered yet
  MaxSubmissions   \* bound of the model: numbers the gateway gives out

ASSUME GatewayAssumption == ClientOrders \subseteq IncomingOrder /\ MaxSubmissions \in Nat

VARIABLES
  nextSequence,    \* next_sequence_
  inFlight         \* submit's local copy between its two steps, or NoOrder

gatewayVars == <<nextSequence, inFlight>>

GatewayInit == nextSequence = 1 /\ inFlight = NoOrder

\* A numbered copy of the order.
Stamp(o, number) == [o EXCEPT !.timestamp = number]

ValidateQuantityOnly(o) == o.quantity > 0

Validate(o) ==
  /\ o.id # 0
  /\ o.quantity > 0
  /\ o.type = "Limit" => o.price > 0
  /\ o.type = "Market" => o.price = 0

\* next_sequence_.fetch_add(1): a number is used up whatever comes of the order.
ReuseNumber == nextSequence <= MaxSubmissions /\ UNCHANGED nextSequence

FetchAdd ==
  /\ nextSequence <= MaxSubmissions
  /\ nextSequence' = nextSequence + 1

\* submit up to the call of try_push; its caller has validated the order.
BeginSubmit(o) ==
  /\ inFlight = NoOrder
  /\ Validate(o)
  /\ FetchAdd
  /\ inFlight' = Stamp(o, nextSequence)

\* try_push has returned.
EndSubmit ==
  /\ inFlight # NoOrder
  /\ inFlight' = NoOrder
  /\ UNCHANGED nextSequence
=============================================================================
