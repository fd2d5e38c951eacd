--------------------------- MODULE LoginInvariant ---------------------------
(***************************************************************************)
(* The inductive invariants of LoginFlow: LoginInv, from which all but one *)
(* of its properties follow, and CapInv, about the session limit.          *)
(***************************************************************************)
EXTENDS LoginFlow

Places == {"idle", "epoch", "current", "status", "config", "reserve", "verify", "fail", "fail_swap",
           "fail_reload", "pass", "count", "release", "rehash", "list", "evict", "register", "relist",
           "trim", "flow", "recheck", "undo", "clear", "audit", "done"}

Verdicts == {"none", "lost", "kept", "NoFlow", "Locked", "Err"}
LoginAnswers == Verdicts \cup {"InvalidCredentials", "InvalidCredential", "NotActive", "Authenticated"}

LoginType ==
    [at : Places, known : BOOLEAN, stamp : {0} \cup Resets, since : {0, 1}, now : {0, 1},
     config : Configs \cup Passwords \cup {NoConfig}, guess : Int, reserved : Nat, round : Nat,
     next : Configs \cup Passwords \cup {NoConfig}, tries : Nat, victims : SUBSET Logins,
     verdict : Verdicts, answer : LoginAnswers]

ResetType ==
    [at : {"idle", "peek", "replaced", "readmit", "spend", "record_replaced", "record", "install",
           "sessions", "counter", "done"},
     token : Nat, replaced : {<<>>} \cup {<<p>> : p \in Passwords}, failed : BOOLEAN,
     answer : {"none", "refused", "error", "reset"}]

BookType ==
    [tokens : Nat, round : Nat, wrong : Nat, late : Nat, installed : {0} \cup Resets, used : Seq(Nat),
     fails : Nat, newest : Seq(Logins)]

AdminType ==
    [op : {"none", "suspend", "delete", "activate"}, at : {"idle", "sessions", "erase", "done"},
     failed : BOOLEAN]

Types ==
    /\ scene \in Scene /\ clock \in {0, 1} /\ status \in {"active", "suspended", "gone"}
    /\ attempts \in [count : Nat, last : {0, 1}]
    /\ password \in Passwords
    /\ history \in Seq(Passwords)
    /\ resetToken \in [id : Nat, at : {0, 1}]
    /\ registry \in Seq(Logins)
    /\ login \in [Logins -> LoginType]
    /\ reset \in [Resets -> ResetType]
    /\ admin \in AdminType
    /\ faults \in Nat /\ guesses \in Nat
    /\ book \in BookType

-----------------------------------------------------------------------------
(* Reset tokens: the ones that were spent are not the one in the table. *)
Committed(q) ==
    q.answer = "reset" \/ q.at \in {"record_replaced", "record", "install", "sessions", "counter"}

TokenFits(q, current, issued) ==
    /\ q.at \in {"peek", "replaced", "readmit", "spend"} => q.token \in 1 .. issued
    /\ Committed(q) => q.token \in 1 .. issued /\ q.token # current

TokensOK ==
    /\ resetToken.id <= book.tokens
    /\ \A r \in Resets : TokenFits(reset[r], resetToken.id, book.tokens)
    /\ TokenSpentOnce

(* Passwords: the one a reset is about to replace is on record, or the     *)
(* reset holds it in its hand.                                             *)
OnRecord(p) == \E i \in 1 .. Len(history) : history[i].id = p

HandsOver(q) ==
    q.at \in {"readmit", "spend", "record_replaced"} /\ q.replaced # <<>> /\ q.replaced[1].id = 0

HistoryFits(r, q) ==
    status # "gone" =>
        /\ q.at \in {"readmit", "spend", "record_replaced", "record", "install"} =>
               HandsOver(q) \/ OnRecord(0)
        /\ q.at \in {"install", "sessions", "counter"} \/ q.answer = "reset" => OnRecord(r)

InForceOnRecord ==
    status # "gone" /\ book.installed # 0 => OnRecord(0) /\ OnRecord(password.id)

ResetFits(q) ==
    /\ q.at = "record_replaced" => q.replaced # <<>>
    /\ q.answer = "reset" => q.at = "done"

HistoryOK == InForceOnRecord /\ \A r \in Resets : HistoryFits(r, reset[r]) /\ ResetFits(reset[r])

PasswordsOK == LastInstalledInForce /\ HistoryOK

(* One-time codes: every code used is below the counter of the row, and    *)
(* what a login holds of a row leads on from it.                           *)
Failed(c, n) ==
    /\ n \in Configs /\ n.counter = c.counter
    /\ \/ n = c
       \/ n.row = "own" /\ n.until > c.until /\ n.fails = 0
       \/ n.row = "own" /\ n.until = c.until /\ n.fails = c.fails + 1

OtpLocal(x, row) ==
    /\ x.at \in {"fail", "fail_swap", "fail_reload", "pass"} => scene.method = "hotp"
    /\ x.at = "rehash" => scene.method = "password"
    /\ x.at \in {"reserve", "verify", "fail", "pass"} /\ scene.method = "hotp" =>
           x.config = Template \/ (x.config \in Configs /\ x.config.row = "own" /\ row # NoRow)
    /\ x.at \in {"reserve", "verify", "release", "rehash"} /\ scene.method = "password" =>
           x.config \in Passwords
    /\ x.at \in {"fail_swap", "fail_reload"} => row # NoRow /\ x.config \in Configs /\ x.config.row = "own"
    /\ x.at \in {"fail", "fail_swap"} => Failed(x.config, x.next) /\ x.next.row = "own"
    /\ x.at = "pass" => /\ x.next \in Configs /\ x.next.row = "own" /\ x.next.fails = 0
                        /\ x.guess >= x.config.counter /\ x.next.counter = x.guess + 1 /\ x.guess \in Nat

OtpOK ==
    /\ otp # NoRow => otp \in Configs /\ otp.row = "own" /\ otp.fails = book.fails
    /\ otp = NoRow => book.used = <<>> /\ book.fails = 0
    /\ \A i \in 1 .. Len(book.used) : book.used[i] < otp.counter
    /\ CodeUsedOnce
    /\ \A l \in Logins : OtpLocal(login[l], otp)

(* The lockout: what is reserved and not yet decided, and what was wrong,  *)
(* is within the count.                                                    *)
Reserving(x, round) == x.at \in {"verify", "pass", "release"} /\ x.reserved > 0 /\ x.round = round
Outstanding == {l \in Logins : Reserving(login[l], book.round)}

RoundLocal(x, round) ==
    /\ x.round <= round
    /\ x.at \in {"idle", "epoch", "current", "status", "config", "reserve"} => x.reserved = 0

LockoutOK ==
    /\ \A l \in Logins : RoundLocal(login[l], book.round)
    /\ book.wrong + Cardinality(Outstanding) <= attempts.count + book.late
    /\ book.wrong + Cardinality(Outstanding) <= MaxAttempts + book.late

(* Sessions: a login is registered once, and what it must have done or     *)
(* still has to do while it is.                                            *)
Registered == {"relist", "trim", "flow", "recheck", "undo", "clear", "audit", "done"}

SuspensionDone == status = "suspended" /\ admin.at = "done" /\ ~admin.failed /\ faults = 0
NoResetEnding == faults = 0 /\ \A r \in Resets : ~InReset(r, "sessions")

Fits(l, x) ==
    Held(l) =>
        /\ x.at \in Registered
        /\ x.at = "trim" /\ x.verdict = "lost" /\ faults = 0 => l \in x.victims
        /\ SuspensionDone => x.at \in Unchecked \cup {"recheck"}
        /\ NoResetEnding /\ x.stamp # password.id => x.at \in Unchecked

Once == \A i, j \in 1 .. Len(registry) : registry[i] = registry[j] => i = j

SessionsOK == Once /\ \A l \in Logins : Fits(l, login[l])

LoginInv == Types /\ TokensOK /\ PasswordsOK /\ OtpOK /\ LockoutOK /\ SessionsOK

-----------------------------------------------------------------------------
(* The session limit: parallel logins leave at most the limit and at least *)
(* the newest.                                                             *)
HeldSet == {l \in Logins : Held(l)}

(* Logins that count towards the limit, and those still making room. *)
Seated == {l \in Logins : Held(l) /\ login[l].at \notin {"relist", "trim"}}
Trimming == {l \in Logins : login[l].at = "trim"}

Comparable(A, B) == A \subseteq B \/ B \subseteq A

(* Each login that makes room remembers, in W, who was registered when it  *)
(* looked; what it leaves of them is within the limit.  What one saw and   *)
(* another saw are one within the other, and so is C, what the last to     *)
(* settle saw, in which all that are settled are.                          *)
Room(t, C, W) ==
    /\ W[t] \subseteq HeldSet
    /\ Held(t) => t \in W[t]
    /\ Cardinality(W[t] \ login[t].victims) <= MaxSessions
    /\ Comparable(C, W[t])

Bounds(C, W) ==
    /\ Seated \subseteq C /\ C \subseteq HeldSet /\ Cardinality(C) <= MaxSessions
    /\ \A t \in Trimming : Room(t, C, W)
    /\ \A t, u \in Trimming : Comparable(W[t], W[u])

CapOK == faults = 0 => \E C \in SUBSET Logins, W \in [Logins -> SUBSET Logins] : Bounds(C, W)

(* While no call failed and no reset and no administrator has begun, the   *)
(* newest is last in the registry, unless a login that is about to         *)
(* register has made room for itself.                                      *)
Unstirred == faults = 0 /\ admin.at = "idle" /\ \A r \in Resets : reset[r].at = "idle"

CalmLogin(x) == x.stamp = 0 /\ x.at # "undo"

CalmOK ==
    Unstirred => status = "active" /\ password.id = 0 /\ \A l \in Logins : CalmLogin(login[l])

Last(l) == Len(registry) > 0 /\ registry[Len(registry)] = l
Pending == \E e \in Logins : login[e].at \in {"evict", "register"}

VictimsOK == \A t \in Trimming : \A v \in login[t].victims : login[v].at \in Registered

NewestFits(n) ==
    /\ login[n].at \in Registered
    /\ Pending \/ Last(n)
    /\ Held(n) => Last(n)
    /\ \A t \in Trimming : n \notin login[t].victims

NewestOK == VictimsOK /\ (Unstirred /\ book.newest # <<>> => NewestFits(book.newest[1]))

CapInv == CapOK /\ CalmOK /\ NewestOK
=============================================================================
