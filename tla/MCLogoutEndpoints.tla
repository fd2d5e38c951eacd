------------------------- MODULE MCLogoutEndpoints -------------------------
(* Instances of LogoutEndpoints for TLC. *)
EXTENDS LogoutEndpoints

MCClaims == <<[iss |-> "p", sub |-> "a", sid |-> "x", user |-> "u"],
              [iss |-> "p", sub |-> "b", sid |-> "x", user |-> "v"],
              [iss |-> "p", sub |-> "a", sid |-> "x", user |-> "u"],
              [iss |-> "p", sub |-> "a", sid |-> "y", user |-> "u"],
              [iss |-> "q", sub |-> "a", sid |-> "none", user |-> "w"]>>

Address(k) == [key |-> k, group |-> "g", fold_into |-> "g:ovf", fold_near_cap |-> TRUE]
User(k) == [key |-> k, group |-> "none", fold_into |-> "none", fold_near_cap |-> FALSE]
LoginName == [key |-> "n", group |-> "none", fold_into |-> "n:ovf", fold_near_cap |-> TRUE]
MCTargets == {Address(k) : k \in {"a1", "a2", "a3"}} \cup {User(k) : k \in {"u1", "u2", "u3", "u4", "u5"}} \cup {LoginName}

NoLayer == [threads |-> {}, keys |-> {}, times |-> {0}, stall |-> 0, back |-> FALSE, calls |-> 0]
OneByOne == [NoLayer EXCEPT !.threads = {1}, !.keys = {"u1"}]
Parallel == [OneByOne EXCEPT !.threads = {1, 2}]

Quiet == [rate |-> NoLayer, logins |-> {}, tokens |-> {}, deliveries |-> {1, 2}, fronts |-> {}, faults |-> 0, drops |-> 0, ends |-> 0, time |-> 0]
Token(iss, sub, sid, jti) == [iss |-> iss, sub |-> sub, sid |-> sid, jti |-> jti, iat |-> 1]
BySid == Token("p", "nosub", "x", "j")
BySub == Token("p", "a", "none", "j")
ByBoth == Token("p", "a", "x", "j")

(* Logins that displace each other; a logout among them, by sid and by     *)
(* subject; mappings that age and that capacity drops; tokens resent over  *)
(* time and past the log's capacity; the front channel.                    *)
MCScenes ==
    {[Quiet EXCEPT !.logins = {1, 2, 3}, !.faults = 2],
     [Quiet EXCEPT !.logins = {1, 2}, !.faults = 1, !.drops = 1, !.tokens = {BySid}],
     [Quiet EXCEPT !.logins = {1, 4}, !.faults = 1, !.ends = 1, !.tokens = {ByBoth}],
     [Quiet EXCEPT !.logins = {1, 4}, !.faults = 1, !.tokens = {BySub}],
     [Quiet EXCEPT !.logins = {4, 5}, !.tokens = {BySub}, !.deliveries = {1}],
     [Quiet EXCEPT !.logins = {1, 2, 4}, !.time = 2],
     [Quiet EXCEPT !.logins = {1, 2}, !.time = 2, !.drops = 1],
     [Quiet EXCEPT !.logins = {1, 2, 4}, !.faults = 1],
     [Quiet EXCEPT !.logins = {1}, !.time = 2, !.faults = 1, !.tokens = {ByBoth, Token("q", "a", "none", "j2")}],
     [Quiet EXCEPT !.logins = {1, 2}, !.fronts = {1}, !.faults = 1],
     [Quiet EXCEPT !.logins = {1}, !.fronts = {1}, !.tokens = {BySid}, !.time = 3, !.faults = 1, !.rate = [OneByOne EXCEPT !.calls = 2]]}

(* The limiter by itself: bursts over several windows; requests late by up *)
(* to half a window; a clock that steps back; a group at its budget; the   *)
(* table at its cap.                                                       *)
MCLimits ==
    {[Quiet EXCEPT !.rate = p] : p \in
        {[OneByOne EXCEPT !.times = 0 .. 10, !.calls = 6],
         [Parallel EXCEPT !.times = 0 .. 6, !.calls = 4, !.stall = 2],
         [OneByOne EXCEPT !.times = 0 .. 5, !.calls = 4, !.stall = 5, !.back = TRUE],
         [Parallel EXCEPT !.keys = {"a1", "a2", "a3"}, !.times = {0, 8}, !.calls = 4],
         [OneByOne EXCEPT !.keys = {"u1", "u2", "u3", "a1", "n"}, !.times = {0, 8}, !.calls = 5],
         [Parallel EXCEPT !.keys = {"u1", "u2", "u3", "u4", "u5", "a1"}, !.calls = 5]}}

(* Tokens resent over the whole of their acceptance window. *)
MCEdge == {[Quiet EXCEPT !.time = 6, !.faults = 1,
                         !.tokens = {ByBoth, Token("p", "a", "none", "k"), Token("q", "a", "none", "j2")}]}

MCAll == MCScenes \cup MCLimits \cup MCEdge

MCRotated == {[Quiet EXCEPT !.logins = {1}, !.ends = 1]}
MCBurst == {[Quiet EXCEPT !.rate = [OneByOne EXCEPT !.times = {0, 15, 21}, !.calls = 5]]}
=============================================================================
