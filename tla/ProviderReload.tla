--------------------------- MODULE ProviderReload ---------------------------
(***************************************************************************)
(* Live provider reload (authn/service/provider_reload.rs and below): the  *)
(* operator's reload_* and remove_* calls and the follower of the provider *)
(* source, on one service.  A configuration is a revision; the provider    *)
(* built from it is the same number, and 0 is none.  No lock serialises    *)
(* reloads: a slot is replaced by rcu, which reads, decides and swaps if   *)
(* nothing else did.  The global OAuth registry is one slot of all names.  *)
(***************************************************************************)
EXTENDS Coordinator

CONSTANTS OAuthKeys, Fido2, Ldap,   \* the keys a service reloads, by category
          Revs,                     \* revisions, 1 .. some maximum
          Rp,                       \* the relying-party id a revision carries
          Acknowledged,             \* revisions built as Fido2AllowingRpIdChange
          NoKey, ChannelSize

Keys == OAuthKeys \cup {Fido2, Ldap}

ASSUME KeysAssumption == Fido2 # Ldap /\ NoKey \notin Keys /\ {Fido2, Ldap} \cap OAuthKeys = {}
ASSUME RevsAssumption ==
    Revs \subseteq Nat \ {0} /\ Acknowledged \subseteq Revs /\ ChannelSize \in Nat

VARIABLES desired,    \* the source: per key the revision it lists, or 0
          provider,   \* per key the provider in force, or 0
          applied,    \* the follower's own record of what it applied
          job,        \* the follower and the caller
          receiver,   \* the follower's receiver
          history,    \* ghost: keys ever listed, their last revision, providers not the follower's
          still       \* what may still happen, a bound of the model
svars == <<desired, provider, applied, job, receiver, history, still>>

(* The providers behind one swap slot. *)
Slot(k) == IF k \in OAuthKeys THEN OAuthKeys ELSE {k}
Seen(k) == [x \in Slot(k) |-> provider[x]]

NoJob == [pc |-> "off", key |-> NoKey, rev |-> 0, ack |-> FALSE, seen |-> << >>, want |-> << >>, todo |-> {}]
Listening == [NoJob EXCEPT !.pc = "wait"]

ProviderInit(scene) ==
    /\ desired = [k \in Keys |-> 0]
    /\ provider = scene.attached
    /\ applied = [k \in {} |-> 0]
    /\ job = [follower |-> IF scene.follows THEN Listening ELSE NoJob, caller |-> NoJob]
    /\ receiver = subscribe
    /\ history = [listed |-> {}, outside |-> Keys, top |-> [k \in Keys |-> 0]]
    /\ still = scene.provider

Use(what) == still[what] > 0 /\ still' = [still EXCEPT ![what] = @ - 1]
Refused == Use("faults")
Done == UNCHANGED still

(* The application changes what the source lists.  A revision is a version *)
(* number, used once, or a content hash, which a rollback brings back.     *)
Configure(touched, hashed) ==
    /\ Use("edits")
    /\ \E k \in touched, r \in Revs \cup {0} :
          /\ r # desired[k]
          /\ r # 0 /\ ~hashed => r > history.top[k]
          /\ desired' = [desired EXCEPT ![k] = r]
          /\ history' = [history EXCEPT !.listed = @ \cup {k}, !.top[k] = IF r > @ THEN r ELSE @]
    /\ UNCHANGED <<provider, applied, job, receiver>>

---------------------------------------------------------------------------
(* install_*: rcu reads the slot, decides on what it read, and swaps only  *)
(* if the slot still is what it read; otherwise it reads and decides anew. *)
decide(j) ==
    IF j.key = Fido2 /\ j.seen[Fido2] # 0 /\ Rp[j.seen[Fido2]] # Rp[j.rev] /\ ~j.ack
    THEN "RpIdChanged" ELSE "ok"

(* settle: the follower notes what is in force, a caller announces it. *)
Settle(t, ok) ==
    /\ job' = [job EXCEPT ![t] = IF t = "follower"
                                 THEN [@ EXCEPT !.pc = "entries", !.key = NoKey, !.rev = 0, !.ack = FALSE, !.seen = << >>]
                                 ELSE IF ok THEN [NoJob EXCEPT !.pc = "announce"] ELSE NoJob]
    /\ applied' = IF t = "follower" /\ ok
                  THEN [k \in DOMAIN applied \cup {job[t].key} |-> IF k = job[t].key THEN job[t].want[k] ELSE applied[k]]
                  ELSE applied

(* The slot becomes a copy of what was read with this key set in it. *)
Install(t, seen) ==
    /\ provider' = [k \in Keys |-> IF k = job[t].key THEN job[t].rev ELSE IF k \in DOMAIN seen THEN seen[k] ELSE provider[k]]
    /\ history' = [history EXCEPT !.outside = IF t = "follower" THEN @ \ {job[t].key} ELSE @ \cup {job[t].key}]
    /\ Settle(t, TRUE)

read_slot(t) ==
    /\ job[t].pc = "install"
    /\ IF job[t].key = Ldap
       THEN Install(t, Seen(Ldap))   \* install_ldap: a plain swap
       ELSE job' = [job EXCEPT ![t].pc = "swap", ![t].seen = Seen(job[t].key)] /\ UNCHANGED <<provider, applied, history>>
    /\ UNCHANGED <<desired, receiver, still>>

(* Bug: a swap that lost writes what was decided on the first read. *)
swap_first_verdict(t) ==
    /\ job[t].pc = "swap"
    /\ IF decide(job[t]) = "ok" THEN Install(t, job[t].seen) ELSE Settle(t, FALSE) /\ UNCHANGED <<provider, history>>
    /\ UNCHANGED <<desired, receiver, still>>

swap_slot(t) ==
    /\ job[t].pc = "swap"
    /\ IF Seen(job[t].key) # job[t].seen
       THEN job' = [job EXCEPT ![t].seen = Seen(job[t].key)] /\ UNCHANGED <<provider, applied, history>>
       ELSE IF decide(job[t]) = "ok" THEN Install(t, job[t].seen)
       ELSE Settle(t, FALSE) /\ UNCHANGED <<provider, history>>
    /\ UNCHANGED <<desired, receiver, still>>

---------------------------------------------------------------------------
(* The operator's calls.  A candidate is built from a configuration the    *)
(* caller has, under the validation deadline.                              *)
reload(k) ==
    /\ job.caller = NoJob
    /\ Use("calls")
    /\ \E r \in Revs, ack \in BOOLEAN :
          /\ ack => k = Fido2
          /\ job' = [job EXCEPT !.caller = [NoJob EXCEPT !.pc = "build", !.key = k, !.rev = r, !.ack = ack]]
    /\ UNCHANGED <<desired, provider, applied, receiver, history>>

(* candidate, and check_ldap: built and checked, refused, or out of time. *)
candidate ==
    /\ job.caller.pc = "build"
    /\ \/ Done /\ job' = [job EXCEPT !.caller.pc = "install"]
       \/ Refused /\ job' = [job EXCEPT !.caller = NoJob]
    /\ UNCHANGED <<desired, provider, applied, receiver, history>>

(* remove_*: a provider that is not there is NotFound. *)
remove(k) ==
    /\ job.caller = NoJob /\ provider[k] # 0
    /\ Use("calls")
    /\ provider' = [provider EXCEPT ![k] = 0]
    /\ history' = [history EXCEPT !.outside = @ \cup {k}]
    /\ job' = [job EXCEPT !.caller.pc = "announce"]
    /\ UNCHANGED <<desired, applied, receiver>>

(* announce_provider: delivered, lost, or refused. *)
announce_provider ==
    /\ job.caller.pc = "announce"
    /\ receiver' \in {receiver, announced([x \in {1} |-> receiver], {1}, ChannelSize)[1]}
    /\ job' = [job EXCEPT !.caller = NoJob]
    /\ UNCHANGED <<desired, provider, applied, history, still>>

(* Another instance announces a change of its own. *)
hear ==
    /\ Use("notices")
    /\ receiver' = announced([x \in {1} |-> receiver], {1}, ChannelSize)[1]
    /\ UNCHANGED <<desired, provider, applied, job, history>>

---------------------------------------------------------------------------
(* The follower. *)
follow_provider_reloads ==
    /\ job.follower = NoJob
    /\ Use("starts")
    /\ job' = [job EXCEPT !.follower = Listening]
    /\ applied' = [k \in {} |-> 0]
    /\ receiver' = subscribe
    /\ UNCHANGED <<desired, provider, history>>

(* The ProviderFollower is dropped: the task ends where it awaits. *)
stop ==
    /\ job.follower.pc \in {"wait", "desired", "build", "check"}
    /\ Use("drops")
    /\ job' = [job EXCEPT !.follower = NoJob]
    /\ history' = [history EXCEPT !.outside = Keys]
    /\ UNCHANGED <<desired, provider, applied, receiver>>

tick ==
    /\ job.follower.pc = "wait"
    /\ job' = [job EXCEPT !.follower.pc = "desired"]
    /\ UNCHANGED <<desired, provider, applied, receiver, history, still>>

provider_notice ==
    /\ job.follower.pc = "wait" /\ waiting(receiver)
    /\ receiver' = received(receiver)
    /\ job' = [job EXCEPT !.follower.pc = "desired"]
    /\ UNCHANGED <<desired, provider, applied, history, still>>

(* reconcile: desired() answers, or the previous providers stay. *)
read_desired ==
    /\ job.follower.pc = "desired"
    /\ \/ /\ Done
          /\ LET want == [k \in {x \in Keys : desired[x] # 0} |-> desired[k]]
             IN  job' = [job EXCEPT !.follower =
                           [NoJob EXCEPT !.pc = "entries", !.want = want,
                                         !.todo = {k \in DOMAIN want : k \notin DOMAIN applied \/ applied[k] # want[k]}]]
       \/ Refused /\ job' = [job EXCEPT !.follower = Listening]
    /\ UNCHANGED <<desired, provider, applied, receiver, history>>

(* The next entry whose revision moved. *)
next_entry ==
    /\ job.follower.pc = "entries"
    /\ \E k \in job.follower.todo :
          job' = [job EXCEPT !.follower.pc = "build", !.follower.key = k, !.follower.todo = @ \ {k}]
    /\ UNCHANGED <<desired, provider, applied, receiver, history, still>>

(* Bug: an entry that did not build counts as applied. *)
build_noted ==
    /\ job.follower.pc = "build"
    /\ LET k == job.follower.key
       IN  \/ /\ desired[k] # 0 /\ Done /\ UNCHANGED applied
             /\ job' = [job EXCEPT !.follower.pc = IF k = Ldap THEN "check" ELSE "install", !.follower.rev = desired[k],
                                   !.follower.ack = k = Fido2 /\ desired[k] \in Acknowledged]
          \/ /\ IF desired[k] = 0 THEN Done ELSE Refused
             /\ Settle("follower", TRUE)
    /\ UNCHANGED <<desired, provider, receiver, history>>

(* apply_entry: ProviderSource::build builds what the source lists by now, *)
(* and fails for a key it no longer lists.                                 *)
build ==
    /\ job.follower.pc = "build"
    /\ LET k == job.follower.key
       IN  \/ /\ desired[k] # 0 /\ Done /\ UNCHANGED applied
             /\ job' = [job EXCEPT !.follower.pc = IF k = Ldap THEN "check" ELSE "install", !.follower.rev = desired[k],
                                   !.follower.ack = k = Fido2 /\ desired[k] \in Acknowledged]
          \/ /\ IF desired[k] = 0 THEN Done ELSE Refused
             /\ Settle("follower", FALSE)
    /\ UNCHANGED <<desired, provider, receiver, history>>

check_ldap ==
    /\ job.follower.pc = "check"
    /\ \/ Done /\ job' = [job EXCEPT !.follower.pc = "install"] /\ UNCHANGED applied
       \/ Refused /\ Settle("follower", FALSE)
    /\ UNCHANGED <<desired, provider, receiver, history>>

(* Bug: what is in force and not listed is withdrawn, whoever installed it. *)
withdrawn_all == {k \in Keys : provider[k] # 0} \ DOMAIN job.follower.want

(* What the follower applied and the source no longer lists. *)
withdrawn == DOMAIN applied \ DOMAIN job.follower.want

collect_withdrawn ==
    /\ job.follower.pc = "entries" /\ job.follower.todo = {}
    /\ job' = [job EXCEPT !.follower = IF withdrawn = {} THEN Listening
                                       ELSE [@ EXCEPT !.pc = "withdraw", !.todo = withdrawn]]
    /\ UNCHANGED <<desired, provider, applied, receiver, history, still>>

(* They go one after the other, and the pass ends with the last. *)
withdraw ==
    /\ job.follower.pc = "withdraw"
    /\ \E k \in job.follower.todo :
          /\ provider' = [provider EXCEPT ![k] = 0]
          /\ applied' = [x \in DOMAIN applied \ {k} |-> applied[x]]
          /\ job' = [job EXCEPT !.follower = IF job.follower.todo = {k} THEN Listening
                                             ELSE [job.follower EXCEPT !.todo = @ \ {k}]]
    /\ UNCHANGED <<desired, receiver, history, still>>

install_step(t) == read_slot(t) \/ swap_slot(t)
reconcile == read_desired \/ next_entry \/ build \/ check_ldap \/ collect_withdrawn \/ withdraw

ProviderNext(touched, hashed) ==
    \/ Configure(touched, hashed)
    \/ \E k \in touched : reload(k) \/ remove(k)
    \/ candidate \/ announce_provider \/ hear
    \/ follow_provider_reloads \/ stop \/ tick \/ provider_notice \/ reconcile
    \/ \E t \in {"follower", "caller"} : install_step(t)

(* The runtime runs a task that can go on, and the poll interval ends. *)
ProviderFairness ==
    /\ WF_svars(tick) /\ WF_svars(reconcile)
    /\ WF_svars(candidate) /\ WF_svars(announce_provider)
    /\ \A t \in {"follower", "caller"} : WF_svars(install_step(t))

---------------------------------------------------------------------------
ProviderTypeOK ==
    /\ desired \in [Keys -> Revs \cup {0}]
    /\ provider \in [Keys -> Revs \cup {0}]
    /\ DOMAIN applied \subseteq Keys /\ \A k \in DOMAIN applied : applied[k] \in Revs
    /\ \A t \in {"follower", "caller"} :
          /\ job[t].pc \in {"off", "wait", "desired", "entries", "build", "check", "install", "swap", "withdraw", "announce"}
          /\ job[t].key \in Keys \cup {NoKey} /\ job[t].rev \in Revs \cup {0}
          /\ job[t].pc \in {"install", "swap"} => job[t].key \in Keys /\ job[t].rev \in Revs
    /\ receiver \in Receivers(ChannelSize)

Changed(k) == provider'[k] # provider[k]
By(t, k) == job[t].pc \in {"install", "swap"} /\ job[t].key = k

(* A provider that takes the place of one with another relying-party id,   *)
(* and so orphans its passkeys, was acknowledged by whoever installed it,  *)
(* whatever other reloads landed since it first looked at the slot.        *)
RpIdKept ==
    [][LET was == provider[Fido2]  now == provider'[Fido2]
       IN  was # 0 /\ now # 0 /\ Rp[was] # Rp[now]
           => \E t \in {"follower", "caller"} : By(t, Fido2) /\ job[t].rev = now /\ job[t].ack]_svars

(* A reload changes the one key it is about: of two reloads of different   *)
(* names that share a slot, neither undoes the other.                      *)
OthersUntouched ==
    [][\A t \in {"follower", "caller"}, k \in Keys :
          job[t].pc \in {"install", "swap"} /\ job[t]' # job[t] /\ Changed(k) => k = job[t].key]_svars

(* A provider the source never named changes only when the operator        *)
(* changes it: the follower, whatever it reads or fails to read, leaves it *)
(* alone.                                                                  *)
NeverNamedStays ==
    [][\A k \in Keys : Changed(k) /\ k \notin history.listed => job.follower' = job.follower]_svars

(* Reloads of one provider leave the others, and the relying party's id,   *)
(* alone. (swap_slot, withdrawn)                                           *)
ReloadsKeepApart == RpIdKept /\ OthersUntouched /\ NeverNamedStays

(* A service that follows comes to run what the source lists, whatever     *)
(* notices were lost or late, reads or builds failed, and configurations   *)
(* moved while they were read; short of a passkey provider it must refuse, *)
(* and of a key the operator changed behind its back.                      *)
Follows(k) ==
    \/ provider[k] = desired[k]
    \/ k \in history.outside /\ (desired[k] = 0 \/ (k \in DOMAIN applied /\ applied[k] = desired[k]))
    \/ k = Fido2 /\ Rp[provider[k]] # Rp[desired[k]] /\ desired[k] \notin Acknowledged
ProvidersConverge == <>[](job.follower # NoJob => \A k \in Keys : Follows(k))
=============================================================================
