------------------------------ MODULE Accounts ------------------------------
(***************************************************************************)
(* The logins of an account together with the devices they are made from.  *)
(* The application calls promote_if_authenticated with the outcome of      *)
(* verify_factor (device/lifecycle.rs): only a login that is answered      *)
(* Authenticated promotes its device.  The other calls on devices are made *)
(* at any time.                                                            *)
(***************************************************************************)
EXTENDS LoginFlow, Devices

CONSTANT PlansOf(_)   \* what happens to devices in each scene

ASSUME PlansAssumption == \A s \in Scenes : \A p \in PlansOf(s) : IsPlan(p)

AccountsInit == Init /\ \E p \in PlansOf(scene) : DevicesInit(p)

Authenticated == \E l \in Logins : At(l, "done") /\ login[l].answer = "Authenticated"

promote_if_authenticated(c) ==
    \E r \in plan.roles[c] : r.kind = "promote" /\ r.on_login /\ Authenticated /\ Start(c, r)
OtherCall(c) ==
    \E r \in plan.roles[c] : (r.kind = "promote" => ~r.on_login) /\ Start(c, r)

Logging == Next /\ UNCHANGED deviceVars
Calling == \E c \in Callers : (promote_if_authenticated(c) \/ OtherCall(c)) /\ UNCHANGED vars
OnDevices == DevicesStep /\ UNCHANGED vars

AccountsNext == Logging \/ Calling \/ OnDevices

AccountsSpec == AccountsInit /\ [][AccountsNext]_<<vars, deviceVars>>
=============================================================================
