--------------------------- MODULE LogoutEndpoints ---------------------------
(***************************************************************************)
(* The logout endpoints behind the rate limiter, as their docs ask for     *)
(* (backchannel_logout.rs, frontchannel_logout.rs): a request for them is  *)
(* one the limiter let through.  Without the layer it arrives by itself.   *)
(* The limiter's other requests are for other routes.                      *)
(***************************************************************************)
EXTENDS FederatedLogout, RateLimit

Layered == scene.rate.calls > 0

EndpointsInit == Init /\ RateInit(scene.rate)

Unlimited == ~Layered /\ Arrival /\ UNCHANGED rateVars
Admitted == \E c \in Threads : forward(c) /\ Arrival
OtherRoute == \E c \in Threads : forward(c) /\ UNCHANGED vars
Limiting == RateNext /\ UNCHANGED vars
Handling == Work /\ UNCHANGED rateVars

EndpointsNext == Unlimited \/ Admitted \/ OtherRoute \/ Limiting \/ Handling

EndpointsSpec == EndpointsInit /\ [][EndpointsNext]_<<vars, rateVars>>
=============================================================================
