--------------------------- MODULE AccountsProofs ---------------------------
(***************************************************************************)
(* Proofs about Accounts, for every number of logins, resets, codes,       *)
(* sessions, devices and calls, every limit and every scene: first the     *)
(* logins and resets (LoginFlow), then the devices.  Of the devices there  *)
(* is a lemma for each step of a call (LoadKeeps, ..., EachKeeps);         *)
(* DevicesSteps puts them together.                                        *)
(***************************************************************************)
EXTENDS Accounts, LoginInvariant, DevicesInvariant, FiniteSetTheorems, WellFoundedInduction, TLAPS

-----------------------------------------------------------------------------
(* What the invariant is made of says what the runs check. *)
LEMMA SessionsEnd == SessionsOK => EndedStayOut
BY DEF SessionsOK, Fits, EndedStayOut, SuspendedStayOut, ResetEndsSessions, SuspensionDone,
       NoResetEnding

LEMMA NewLoginType == NewLogin \in LoginType
BY DEF NewLogin, LoginType, Places, Verdicts, LoginAnswers, Wrong

LEMMA InitInv == Init => LoginInv
<1> SUFFICES ASSUME Init PROVE LoginInv
  OBVIOUS
<1>1. Types
  <2>1. login \in [Logins -> LoginType]
    BY NewLoginType DEF Init
  <2>2. reset \in [Resets -> ResetType]
    BY DEF Init, ResetType, NewReset
  <2>3. book \in BookType
    BY DEF Init, BookType
  <2>4. admin \in AdminType /\ password \in Passwords /\ attempts \in [count : Nat, last : {0, 1}]
    BY DEF Init, AdminType, Passwords
  <2>5. resetToken \in [id : Nat, at : {0, 1}]
    BY DEF Init, NoToken
  <2> QED
    BY <2>1, <2>2, <2>3, <2>4, <2>5, LoginFlowAssumption DEF Init, Types
<1>2. TokensOK
  BY DEF Init, TokensOK, TokenFits, TokenSpentOnce, Committed, NewReset, NoToken
<1>3. PasswordsOK
  BY DEF Init, PasswordsOK, LastInstalledInForce, HistoryOK, InForceOnRecord, HistoryFits, ResetFits,
         NewReset
<1>4. OtpOK
  BY DEF Init, OtpOK, CodeUsedOnce, OtpLocal, NewLogin
<1>5. LockoutOK
  <2>1. Outstanding = {}
    BY DEF Init, Outstanding, Reserving, NewLogin
  <2>2. \A l \in Logins : RoundLocal(login[l], book.round)
    BY DEF Init, RoundLocal, NewLogin
  <2>3. book.wrong = 0 /\ book.late = 0 /\ attempts.count = 0
    BY DEF Init
  <2>4. Cardinality(Outstanding) = 0
    BY <2>1, FS_EmptySet
  <2> QED
    BY <2>2, <2>3, <2>4, LoginFlowAssumption DEF LockoutOK
<1>6. SessionsOK
  BY DEF Init, SessionsOK, Once, Fits, Held
<1> QED
  BY <1>1, <1>2, <1>3, <1>4, <1>5, <1>6 DEF LoginInv

-----------------------------------------------------------------------------
(* Steps of a login l, which becomes x. *)
Moves(l, x) == x \in LoginType /\ login' = [login EXCEPT ![l] = x]

LEMMA GoMoves ==
    ASSUME Types, NEW l \in Logins, NEW place \in Places, Go(l, place)
    PROVE  \E x \in LoginType : /\ Moves(l, x)
                                /\ x = [login[l] EXCEPT !.at = place]
                                /\ x.at = place
<1> DEFINE x == [login[l] EXCEPT !.at = place]
<1>1. login[l] \in LoginType
  BY DEF Types
<1>2. x \in LoginType /\ x.at = place
  BY <1>1 DEF LoginType
<1>3. login' = [login EXCEPT ![l] = x]
  BY DEF Go, Types
<1> QED
  BY <1>2, <1>3 DEF Moves

LEMMA AnswerMoves ==
    ASSUME Types, NEW l \in Logins, NEW answer \in LoginAnswers, Answer(l, answer)
    PROVE  \E x \in LoginType : /\ Moves(l, x)
                                /\ x.at = "done" /\ x.stamp = login[l].stamp
                                /\ x.reserved = 0 /\ x.round = 0
<1> DEFINE x == [NewLogin EXCEPT !.at = "done", !.stamp = login[l].stamp, !.answer = answer]
<1>1. login[l] \in LoginType /\ login[l].stamp \in {0} \cup Resets
  BY DEF Types, LoginType
<1>2. x \in LoginType /\ x.at = "done" /\ x.stamp = login[l].stamp /\ x.reserved = 0 /\ x.round = 0
  BY <1>1, NewLoginType DEF LoginType, NewLogin, Places, Wrong
<1>3. login' = [login EXCEPT ![l] = x]
  BY DEF Answer, Types
<1> QED
  BY <1>2, <1>3 DEF Moves

LEMMA AgainMoves ==
    ASSUME Types, NEW l \in Logins, NEW answer \in LoginAnswers, Again(l, answer)
    PROVE  \E x \in LoginType : /\ Moves(l, x)
                                /\ x.at \in {"done", "current"}
                                /\ x.reserved = 0 /\ x.round = 0
<1> DEFINE x == [NewLogin EXCEPT !.at = IF answer = "Locked" THEN "done" ELSE "current",
                                 !.known = login[l].known, !.stamp = login[l].stamp,
                                 !.since = login[l].since, !.answer = answer]
<1>1. /\ login[l].stamp \in {0} \cup Resets /\ login[l].known \in BOOLEAN
      /\ login[l].since \in {0, 1}
  BY DEF Types, LoginType
<1>2. x \in LoginType /\ x.at \in {"done", "current"} /\ x.reserved = 0 /\ x.round = 0
  BY <1>1, NewLoginType DEF LoginType, NewLogin, Places, Wrong
<1>3. login' = [login EXCEPT ![l] = x]
  BY DEF Again, Types
<1> QED
  BY <1>2, <1>3 DEF Moves

-----------------------------------------------------------------------------
(* What each part of the invariant reads. *)
LEMMA TokensKept ==
    ASSUME TokensOK, UNCHANGED <<reset, resetToken>>, book'.tokens = book.tokens
    PROVE  TokensOK'
BY DEF TokensOK, TokenSpentOnce

LEMMA PasswordsKept ==
    ASSUME PasswordsOK, UNCHANGED <<reset, history, status>>, password'.id = password.id,
           book'.installed = book.installed
    PROVE  PasswordsOK'
BY DEF PasswordsOK, LastInstalledInForce, HistoryOK, InForceOnRecord, HistoryFits, OnRecord

LEMMA OtpKept ==
    ASSUME Types, OtpOK, NEW l \in Logins, NEW x, Moves(l, x), UNCHANGED <<scene, otp>>,
           book'.used = book.used, book'.fails = book.fails, OtpLocal(x, otp)
    PROVE  OtpOK'
<1>1. ASSUME NEW k \in Logins PROVE OtpLocal(login[k], otp)'
  <2>1. OtpLocal(login'[k], otp)
    BY DEF OtpOK, Moves, Types
  <2> QED
    BY <2>1 DEF OtpLocal
<1> QED
  BY <1>1 DEF OtpOK, CodeUsedOnce

LEMMA LockoutKept ==
    ASSUME Types, LockoutOK, NEW l \in Logins, NEW x, Moves(l, x), RoundLocal(x, book.round),
           Reserving(x, book.round) => Reserving(login[l], book.round),
           attempts' = attempts \/ (attempts'.count \in Nat /\ attempts'.count >= attempts.count),
           book'.round = book.round, book'.wrong = book.wrong, book'.late = book.late
    PROVE  LockoutOK'
<1>1. \A k \in Logins : RoundLocal(login'[k], book'.round)
  BY DEF LockoutOK, Moves, Types
<1>2. Outstanding' \subseteq Outstanding
  BY DEF Outstanding, Moves, Types
<1>3. IsFiniteSet(Outstanding) /\ Cardinality(Outstanding) \in Nat
  BY LoginFlowAssumption, FS_Subset, FS_CardinalityType DEF Outstanding
<1>4. Cardinality(Outstanding') <= Cardinality(Outstanding) /\ Cardinality(Outstanding') \in Nat
  BY <1>2, <1>3, FS_Subset, FS_CardinalityType
<1>5. /\ book.wrong \in Nat /\ book.late \in Nat /\ attempts.count \in Nat /\ MaxAttempts \in Nat
  BY LoginFlowAssumption DEF Types, BookType
<1>6. attempts'.count \in Nat /\ attempts'.count >= attempts.count
  BY <1>5
<1> QED
  BY <1>1, <1>3, <1>4, <1>5, <1>6 DEF LockoutOK

LEMMA FitsKept ==
    ASSUME NEW k \in Logins, NEW y, Fits(k, y), UNCHANGED <<registry, status, admin, reset>>,
           password'.id = password.id, faults' = 0 => faults = 0
    PROVE  Fits(k, y)'
BY DEF Fits, Held, SuspensionDone, NoResetEnding, InReset

LEMMA SessionsKept ==
    ASSUME Types, SessionsOK, NEW l \in Logins, NEW x, Moves(l, x),
           UNCHANGED <<registry, status, admin, reset>>,
           password'.id = password.id, faults' = 0 => faults = 0, Fits(l, x)
    PROVE  SessionsOK'
<1>1. ASSUME NEW k \in Logins PROVE Fits(k, login[k])'
  <2>1. PICK y : y = login'[k]
    OBVIOUS
  <2>2. Fits(k, y)
    BY <2>1 DEF SessionsOK, Moves, Types
  <2>3. Fits(k, y)'
    BY <2>2, FitsKept
  <2> QED
    BY <2>1, <2>3 DEF Fits
<1> QED
  BY <1>1 DEF SessionsOK, Once

-----------------------------------------------------------------------------
(* Steps of a login that change nothing else that the invariant reads. *)
Still ==
    /\ UNCHANGED <<scene, clock, reset, admin, status, history, resetToken, attempts, otp, registry, book>>
    /\ password' \in Passwords /\ password'.id = password.id
    /\ guesses' \in Nat /\ faults' \in Nat /\ (faults' = 0 => faults = 0)

LoginLocal(l, x) ==
    /\ OtpLocal(x, otp)
    /\ RoundLocal(x, book.round)
    /\ Reserving(x, book.round) => Reserving(login[l], book.round)

LEMMA StillLogin ==
    ASSUME LoginInv, NEW l \in Logins, NEW x, Moves(l, x), Still, LoginLocal(l, x), Fits(l, x)
    PROVE  LoginInv'
<1> USE DEF Still
<1>1. Types'
  <2>1. login' \in [Logins -> LoginType]
    BY DEF LoginInv, Types, Moves
  <2> QED
    BY <2>1 DEF LoginInv, Types
<1>2. TokensOK'
  BY TokensKept DEF LoginInv
<1>3. PasswordsOK'
  BY PasswordsKept DEF LoginInv
<1>4. OtpOK'
  BY OtpKept DEF LoginInv, LoginLocal
<1>5. LockoutOK'
  <2>1. attempts' = attempts /\ book'.round = book.round /\ book'.wrong = book.wrong /\ book'.late = book.late
    OBVIOUS
  <2>2. /\ Types /\ LockoutOK /\ RoundLocal(x, book.round)
        /\ Reserving(x, book.round) => Reserving(login[l], book.round)
    BY DEF LoginInv, LoginLocal
  <2> QED
    BY <2>1, <2>2, LockoutKept
<1>6. SessionsOK'
  BY SessionsKept DEF LoginInv
<1> QED
  BY <1>1, <1>2, <1>3, <1>4, <1>5, <1>6 DEF LoginInv

LEMMA Unregistered ==
    ASSUME LoginInv, NEW l \in Logins, login[l].at \notin Registered
    PROVE  ~Held(l) /\ \A x : Fits(l, x)
BY DEF LoginInv, SessionsOK, Fits

LEMMA Faults ==
    ASSUME LoginInv, Fault
    PROVE  faults' \in Nat /\ faults' # 0
BY DEF LoginInv, Types, Fault

(* A login that is over, or back where it may guess again, asks for        *)
(* nothing.                                                                *)
LEMMA OverLocal ==
    ASSUME LoginInv, NEW l \in Logins, NEW x \in LoginType, x.at \in {"done", "current"},
           x.reserved = 0, x.round = 0
    PROVE  LoginLocal(l, x)
BY DEF LoginLocal, OtpLocal, RoundLocal, Reserving, LoginInv, Types, BookType

LEMMA AnswerEarly ==
    ASSUME LoginInv, NEW l \in Logins, NEW answer \in LoginAnswers, Answer(l, answer), Still,
           login[l].at \notin Registered
    PROVE  LoginInv'
<1>1. PICK x \in LoginType : /\ Moves(l, x) /\ x.at = "done" /\ x.reserved = 0 /\ x.round = 0
  BY AnswerMoves DEF LoginInv
<1>2. LoginLocal(l, x)
  BY <1>1, OverLocal
<1> QED
  BY <1>1, <1>2, StillLogin, Unregistered

LEMMA AgainStill ==
    ASSUME LoginInv, NEW l \in Logins, NEW answer \in LoginAnswers, Again(l, answer), Still,
           login[l].at \notin Registered
    PROVE  LoginInv'
<1>1. PICK x \in LoginType : /\ Moves(l, x) /\ x.at \in {"done", "current"}
                             /\ x.reserved = 0 /\ x.round = 0
  BY AgainMoves DEF LoginInv
<1>2. LoginLocal(l, x)
  BY <1>1, OverLocal
<1> QED
  BY <1>1, <1>2, StillLogin, Unregistered

(* Places before the guess, between which a login carries nothing on. *)
LEMMA GoEarly ==
    ASSUME LoginInv, NEW l \in Logins, NEW place \in {"status", "config", "list"}, Go(l, place), Still,
           login[l].at \notin Registered,
           place # "list" => login[l].at \in {"current", "status"}
    PROVE  LoginInv'
<1>1. PICK x \in LoginType : Moves(l, x) /\ x = [login[l] EXCEPT !.at = place] /\ x.at = place
  BY GoMoves DEF LoginInv, Places
<1>2. login[l] \in LoginType
  BY DEF LoginInv, Types
<1>3. x.reserved = login[l].reserved /\ x.round = login[l].round
  BY <1>1, <1>2 DEF LoginType
<1>4. RoundLocal(login[l], book.round)
  BY DEF LoginInv, LockoutOK
<1>5. LoginLocal(l, x)
  BY <1>1, <1>3, <1>4 DEF LoginLocal, OtpLocal, RoundLocal, Reserving
<1> QED
  BY <1>1, <1>5, StillLogin, Unregistered

LEMMA BeginLogin ==
    ASSUME LoginInv, NEW l \in Logins, NEW known \in BOOLEAN, begin_login(l, known),
           UNCHANGED <<scene, clock, reset, admin>>
    PROVE  LoginInv'
<1>1. Still /\ login[l].at = "idle" /\ login[l].at \notin Registered
  BY DEF begin_login, Still, At, Registered, accountVars, LoginInv, Types
<1>2. CASE allows_login /\ (derived_lockout => known)
  <2> DEFINE x == [login[l] EXCEPT !.at = "epoch", !.known = known]
  <2>1. login[l] \in LoginType
    BY DEF LoginInv, Types
  <2>2. x \in LoginType /\ x.at = "epoch" /\ x.reserved = login[l].reserved /\ x.round = login[l].round
    BY <2>1 DEF LoginType, Places
  <2>3. Moves(l, x)
    BY <1>2, <2>2 DEF begin_login, Moves, LoginInv, Types
  <2>4. RoundLocal(login[l], book.round)
    BY DEF LoginInv, LockoutOK
  <2> HIDE DEF x
  <2>5. LoginLocal(l, x)
    BY <1>1, <2>2, <2>4 DEF LoginLocal, OtpLocal, RoundLocal, Reserving
  <2> QED
    BY <1>1, <2>3, <2>5, StillLogin, Unregistered
<1>3. CASE ~(allows_login /\ (derived_lockout => known))
  BY <1>1, <1>3, AnswerEarly DEF begin_login, LoginAnswers
<1> QED
  BY <1>2, <1>3

LEMMA StampFlow ==
    ASSUME LoginInv, NEW l \in Logins, stamp_flow(l), UNCHANGED <<scene, clock, reset, admin>>
    PROVE  LoginInv'
<1>1. Still /\ login[l].at = "epoch" /\ login[l].at \notin Registered
  BY DEF stamp_flow, Still, At, Registered, accountVars, LoginInv, Types
<1> DEFINE x == [login[l] EXCEPT !.at = "current", !.stamp = password.id, !.since = clock]
<1>2. login[l] \in LoginType /\ password.id \in {0} \cup Resets /\ clock \in {0, 1}
  BY DEF LoginInv, Types, Passwords
<1>3. x \in LoginType /\ x.at = "current" /\ x.reserved = login[l].reserved /\ x.round = login[l].round
  BY <1>2 DEF LoginType, Places
<1>4. Moves(l, x)
  BY <1>3 DEF stamp_flow, Moves, LoginInv, Types
<1>5. RoundLocal(login[l], book.round)
  BY DEF LoginInv, LockoutOK
<1> HIDE DEF x
<1>6. LoginLocal(l, x)
  BY <1>1, <1>3, <1>5 DEF LoginLocal, OtpLocal, RoundLocal, Reserving
<1> QED
  BY <1>1, <1>4, <1>6, StillLogin, Unregistered

LEMMA RequireCurrent ==
    ASSUME LoginInv, NEW l \in Logins, require_current_flow(l), UNCHANGED <<scene, clock, reset, admin>>
    PROVE  LoginInv'
<1>1. Still /\ login[l].at = "current" /\ login[l].at \notin Registered
  BY DEF require_current_flow, Still, At, Registered, accountVars, LoginInv, Types
<1>2. Answer(l, "NoFlow") \/ Go(l, "status")
  BY DEF require_current_flow
<1>3. "NoFlow" \in LoginAnswers
  BY DEF LoginAnswers, Verdicts
<1> QED
  BY <1>1, <1>2, <1>3, AnswerEarly, GoEarly

LEMMA EnforceStatus ==
    ASSUME LoginInv, NEW l \in Logins, enforce_account_status(l), UNCHANGED <<scene, clock, reset, admin>>
    PROVE  LoginInv'
<1>1. Still /\ login[l].at = "status" /\ login[l].at \notin Registered
  BY DEF enforce_account_status, Still, At, Registered, accountVars, LoginInv, Types
<1>2. Answer(l, "Locked") \/ Answer(l, "NotActive") \/ Go(l, "config")
  BY DEF enforce_account_status
<1>3. "Locked" \in LoginAnswers /\ "NotActive" \in LoginAnswers
  BY DEF LoginAnswers, Verdicts
<1> QED
  BY <1>1, <1>2, <1>3, AnswerEarly, GoEarly

LEMMA ResolveFactor ==
    ASSUME LoginInv, NEW l \in Logins, resolve_factor(l), UNCHANGED <<scene, clock, reset, admin>>
    PROVE  LoginInv'
<1>1. Still /\ login[l].at = "config" /\ login[l].at \notin Registered
  BY DEF resolve_factor, Still, At, Registered, accountVars, LoginInv, Types
<1>2. CASE status = "gone"
  BY <1>1, <1>2, AnswerEarly DEF resolve_factor, LoginAnswers, Verdicts
<1>3. CASE status # "gone"
  <2>1. PICK c : c = (IF scene.method = "password" THEN password ELSE IF otp = NoRow THEN Template ELSE otp)
    OBVIOUS
  <2>2. Template \in Configs
    BY DEF Template, Configs
  <2>3. /\ scene.method = "password" => c \in Passwords
        /\ scene.method # "password" => c \in Configs /\ (c = Template \/ (c.row = "own" /\ otp # NoRow))
    <3>1. password \in Passwords /\ (otp # NoRow => otp \in Configs /\ otp.row = "own")
      BY DEF LoginInv, Types, OtpOK
    <3>2. scene.method = "password" => c \in Passwords
      BY <2>1, <3>1
    <3>3. scene.method # "password" /\ otp = NoRow => c = Template
      BY <2>1
    <3>4. scene.method # "password" /\ otp # NoRow => c = otp
      BY <2>1
    <3> QED
      BY <2>2, <3>1, <3>2, <3>3, <3>4
  <2> DEFINE x == [login[l] EXCEPT !.at = "reserve", !.config = c]
  <2>4. login[l] \in LoginType
    BY DEF LoginInv, Types
  <2>5. /\ x \in LoginType /\ x.at = "reserve" /\ x.config = c
        /\ x.reserved = login[l].reserved /\ x.round = login[l].round
    BY <2>3, <2>4 DEF LoginType, Places
  <2>6. Moves(l, x)
    BY <1>3, <2>1, <2>5 DEF resolve_factor, Moves, LoginInv, Types
  <2>7. RoundLocal(login[l], book.round)
    BY DEF LoginInv, LockoutOK
  <2> HIDE DEF x
  <2>8. OtpLocal(x, otp)
    BY <2>3, <2>5 DEF OtpLocal
  <2>9. LoginLocal(l, x)
    BY <1>1, <2>5, <2>7, <2>8 DEF LoginLocal, RoundLocal, Reserving
  <2> QED
    BY <1>1, <2>6, <2>9, StillLogin, Unregistered
<1> QED
  BY <1>2, <1>3

-----------------------------------------------------------------------------
(* Steps of a login that has not registered, which are counted. *)
Metered ==
    /\ UNCHANGED <<scene, clock, reset, admin, status, password, history, resetToken, otp, registry>>
    /\ attempts' \in [count : Nat, last : {0, 1}]
    /\ book' \in BookType
    /\ book'.tokens = book.tokens /\ book'.installed = book.installed
    /\ book'.used = book.used /\ book'.fails = book.fails
    /\ guesses' \in Nat /\ faults' \in Nat /\ (faults' = 0 => faults = 0)

LEMMA MeteredLogin ==
    ASSUME LoginInv, NEW l \in Logins, NEW x, Moves(l, x), Metered, OtpLocal(x, otp), LockoutOK',
           Fits(l, x)
    PROVE  LoginInv'
<1> USE DEF Metered
<1>1. Types'
  <2>1. login' \in [Logins -> LoginType]
    BY DEF LoginInv, Types, Moves
  <2> QED
    BY <2>1 DEF LoginInv, Types
<1>2. TokensOK'
  BY TokensKept DEF LoginInv
<1>3. PasswordsOK'
  BY PasswordsKept DEF LoginInv
<1>4. OtpOK'
  BY OtpKept DEF LoginInv
<1>5. SessionsOK'
  BY SessionsKept DEF LoginInv
<1> QED
  BY <1>1, <1>2, <1>3, <1>4, <1>5 DEF LoginInv

LEMMA OutstandingFinite ==
    ASSUME Types
    PROVE  /\ IsFiniteSet(Outstanding) /\ Cardinality(Outstanding) \in Nat
           /\ book.wrong \in Nat /\ book.late \in Nat /\ book.round \in Nat
           /\ attempts.count \in Nat /\ MaxAttempts \in Nat /\ MaxAttempts >= 1
<1>1. Outstanding \in SUBSET Logins
  BY DEF Outstanding
<1>2. IsFiniteSet(Outstanding) /\ Cardinality(Outstanding) \in Nat
  BY <1>1, LoginFlowAssumption, FS_Subset, FS_CardinalityType
<1> QED
  BY <1>2, LoginFlowAssumption DEF Types, BookType

LEMMA NewRoundBook ==
    ASSUME Types, NewRound
    PROVE  /\ book' \in BookType
           /\ book'.round = book.round + 1 /\ book'.wrong = 0 /\ book'.late = 0
           /\ book'.tokens = book.tokens /\ book'.installed = book.installed
           /\ book'.used = book.used /\ book'.fails = book.fails /\ book'.newest = book.newest
<1>1. book' = [book EXCEPT !.round = book.round + 1, !.wrong = 0, !.late = 0]
  BY DEF NewRound
<1>2. book \in BookType /\ book.round + 1 \in Nat
  BY DEF Types, BookType
<1>3. book' \in BookType
  BY <1>1, <1>2 DEF BookType
<1> QED
  BY <1>1, <1>2, <1>3 DEF BookType

(* A count that starts over leaves behind what was reserved before it. *)
LEMMA LockoutStartsOver ==
    ASSUME Types, LockoutOK, NewRound, NEW l \in Logins, NEW x, Moves(l, x),
           RoundLocal(x, book'.round), attempts'.count \in Nat,
           Reserving(x, book'.round) => attempts'.count >= 1
    PROVE  LockoutOK'
<1>1. book'.round = book.round + 1 /\ book'.wrong = 0 /\ book'.late = 0
  BY DEF NewRound, Types, BookType
<1>2. ASSUME NEW k \in Logins, k # l
      PROVE  RoundLocal(login'[k], book'.round) /\ ~Reserving(login'[k], book'.round)
  <2>1. login'[k] = login[k] /\ login[k].round \in Nat /\ book.round \in Nat
    BY <1>2 DEF Moves, Types, LoginType, BookType
  <2>2. RoundLocal(login[k], book.round)
    BY DEF LockoutOK
  <2> QED
    BY <1>1, <2>1, <2>2 DEF RoundLocal, Reserving
<1>3. login'[l] = x
  BY DEF Moves, Types
<1>4. \A k \in Logins : RoundLocal(login'[k], book'.round)
  BY <1>2, <1>3
<1>5. Outstanding' \subseteq {l}
  BY <1>2 DEF Outstanding
<1>6. CASE l \in Outstanding'
  <2>1. Outstanding' = {l} /\ attempts'.count >= 1
    BY <1>3, <1>5, <1>6 DEF Outstanding
  <2>2. Cardinality(Outstanding') = 1
    BY <2>1, FS_Singleton
  <2> QED
    BY <1>1, <1>4, <2>1, <2>2, LoginFlowAssumption DEF LockoutOK
<1>7. CASE l \notin Outstanding'
  <2>1. Cardinality(Outstanding') = 0
    BY <1>5, <1>7, FS_EmptySet
  <2> QED
    BY <1>1, <1>4, <2>1, LoginFlowAssumption DEF LockoutOK
<1> QED
  BY <1>6, <1>7

(* A reservation below the limit. *)
LEMMA LockoutReserves ==
    ASSUME Types, LockoutOK, book' = book, NEW l \in Logins, NEW x, Moves(l, x),
           RoundLocal(x, book.round), ~Reserving(login[l], book.round),
           attempts'.count = attempts.count + 1, attempts.count < MaxAttempts
    PROVE  LockoutOK'
<1>1. Outstanding' \subseteq Outstanding \cup {l}
  BY DEF Outstanding, Moves, Types
<1>2. l \notin Outstanding
  BY DEF Outstanding
<1>3. IsFiniteSet(Outstanding \cup {l}) /\ Cardinality(Outstanding \cup {l}) = Cardinality(Outstanding) + 1
  BY <1>2, OutstandingFinite, FS_AddElement
<1>4. Cardinality(Outstanding') \in Nat /\ Cardinality(Outstanding') <= Cardinality(Outstanding) + 1
  BY <1>1, <1>3, FS_Subset, FS_CardinalityType
<1>5. \A k \in Logins : RoundLocal(login'[k], book.round)
  BY DEF Moves, Types, LockoutOK
<1> QED
  BY <1>4, <1>5, OutstandingFinite DEF LockoutOK

LEMMA ReserveAttempt ==
    ASSUME LoginInv, NEW l \in Logins, At(l, "reserve"), reserve_attempt(l),
           UNCHANGED <<scene, clock, reset, admin, accountVars, otp, registry, guesses, faults>>
    PROVE  LoginInv'
<1> DEFINE x == [login[l] EXCEPT !.at = "verify", !.reserved = attempts'.count, !.round = book'.round]
<1>1. login[l] \in LoginType /\ login[l].at = "reserve" /\ login[l].at \notin Registered
  BY DEF LoginInv, Types, At, Registered
<1>2. /\ attempts' \in [count : Nat, last : {0, 1}] /\ attempts'.count >= 1
      /\ clock \in {0, 1} /\ attempts.count \in Nat
  BY DEF reserve_attempt, LoginInv, Types
<1>3. NewRound \/ book' = book
  BY DEF reserve_attempt
<1>4. /\ book' \in BookType /\ book'.round \in Nat /\ book.round \in Nat /\ book'.round >= book.round
      /\ book'.tokens = book.tokens /\ book'.installed = book.installed
      /\ book'.used = book.used /\ book'.fails = book.fails
  <2>1. Types /\ book \in BookType /\ book.round \in Nat
    BY DEF LoginInv, Types, BookType
  <2>2. CASE NewRound
    BY <2>1, <2>2, NewRoundBook
  <2>3. CASE book' = book
    BY <2>1, <2>3
  <2> QED
    BY <1>3, <2>2, <2>3
<1>5. Metered
  BY <1>2, <1>4 DEF Metered, accountVars, LoginInv, Types
<1>6. PICK y : y = x
  OBVIOUS
<1>7. /\ y \in LoginType /\ y.at = "verify" /\ y.reserved = attempts'.count /\ y.round = book'.round
      /\ y.config = login[l].config
  BY <1>1, <1>2, <1>4, <1>6 DEF LoginType, Places
<1>8. Moves(l, y)
  BY <1>6, <1>7 DEF reserve_attempt, Moves, LoginInv, Types
<1> HIDE DEF x
<1>9. RoundLocal(y, book'.round)
  BY <1>4, <1>7 DEF RoundLocal
<1>10. OtpLocal(login[l], otp)
  BY DEF LoginInv, OtpOK
<1>11. OtpLocal(y, otp)
  BY <1>1, <1>7, <1>10 DEF OtpLocal
<1>12. LockoutOK'
  <2>1. CASE fresh_count /\ attempts.count > 0
    <3>1. NewRound
      BY <2>1 DEF reserve_attempt
    <3> QED
      BY <1>2, <1>8, <1>9, <3>1, LockoutStartsOver DEF LoginInv
  <2>2. CASE ~(fresh_count /\ attempts.count > 0)
    <3>1. book' = book /\ attempts'.count = attempts.count + 1 /\ attempts.count < MaxAttempts
      BY <1>2, <2>2, LoginFlowAssumption DEF reserve_attempt, fresh_count
    <3>2. ~Reserving(login[l], book.round)
      BY <1>1 DEF Reserving
    <3>3. RoundLocal(y, book.round)
      BY <1>9, <3>1
    <3> QED
      BY <1>8, <3>1, <3>2, <3>3, LockoutReserves DEF LoginInv
  <2> QED
    BY <2>1, <2>2
<1> QED
  BY <1>1, <1>5, <1>8, <1>11, <1>12, MeteredLogin, Unregistered

LEMMA GoVerify ==
    ASSUME LoginInv, NEW l \in Logins, At(l, "reserve"), Go(l, "verify"), Still
    PROVE  LoginInv'
<1>1. PICK x \in LoginType : Moves(l, x) /\ x = [login[l] EXCEPT !.at = "verify"] /\ x.at = "verify"
  BY GoMoves DEF LoginInv, Places
<1>2. login[l] \in LoginType /\ login[l].at = "reserve" /\ login[l].at \notin Registered
  BY DEF LoginInv, Types, At, Registered
<1>3. x.reserved = login[l].reserved /\ x.round = login[l].round /\ x.config = login[l].config
  BY <1>1, <1>2 DEF LoginType
<1>4. RoundLocal(login[l], book.round) /\ OtpLocal(login[l], otp)
  BY DEF LoginInv, LockoutOK, OtpOK
<1>5. x.reserved = 0 /\ RoundLocal(x, book.round)
  BY <1>1, <1>2, <1>3, <1>4 DEF RoundLocal
<1>6. OtpLocal(x, otp)
  BY <1>1, <1>2, <1>3, <1>4 DEF OtpLocal
<1>7. LoginLocal(l, x)
  BY <1>5, <1>6 DEF LoginLocal, Reserving
<1> QED
  BY <1>1, <1>2, <1>7, StillLogin, Unregistered

LEMMA ReserveGuess ==
    ASSUME LoginInv, NEW l \in Logins, reserve_guess(l), UNCHANGED <<scene, clock, reset, admin>>
    PROVE  LoginInv'
<1>1. At(l, "reserve") /\ login[l].at \notin Registered /\ "Locked" \in LoginAnswers
  BY DEF reserve_guess, At, Registered, LoginAnswers, Verdicts
<1>2. CASE reserve_attempt(l) /\ UNCHANGED faults
  BY <1>1, <1>2, ReserveAttempt DEF reserve_guess
<1>3. CASE ~(reserve_attempt(l) /\ UNCHANGED faults)
  <2>1. (Go(l, "verify") \/ Answer(l, "Locked")) /\ UNCHANGED <<attempts, book>>
    BY <1>3 DEF reserve_guess
  <2>2. faults' \in Nat /\ (faults' = 0 => faults = 0)
    BY <1>3, Faults DEF reserve_guess, LoginInv, Types
  <2>3. Still
    BY <2>1, <2>2 DEF reserve_guess, Still, accountVars, LoginInv, Types
  <2> QED
    BY <1>1, <2>1, <2>3, GoVerify, AnswerEarly
<1> QED
  BY <1>2, <1>3

-----------------------------------------------------------------------------
LEMMA ApplyFailure ==
    ASSUME NEW c \in Configs, NEW now \in {0, 1}
    PROVE  /\ Failed(c, apply_hotp_failure(c, now))
           /\ (c.row = "own" \/ ~is_locked_at(c, now)) => apply_hotp_failure(c, now).row = "own"
<1>1. c.fails \in Nat /\ c.until \in Nat /\ c.counter \in Nat
  BY DEF Configs
<1>2. CASE is_locked_at(c, now)
  BY <1>2 DEF apply_hotp_failure, Failed
<1>3. CASE ~is_locked_at(c, now) /\ c.fails + 1 >= OtpAttempts
  <2>1. PICK n : n = [c EXCEPT !.row = "own", !.fails = 0, !.until = now + 1]
    OBVIOUS
  <2>2. n \in Configs /\ n.row = "own" /\ n.fails = 0 /\ n.until = now + 1 /\ n.counter = c.counter
    <3>1. now + 1 \in Nat
      OBVIOUS
    <3>2. n \in Configs
      BY <2>1, <3>1 DEF Configs
    <3> QED
      BY <2>1, <3>2 DEF Configs
  <2>3. n.until > c.until
    BY <1>1, <1>3, <2>2 DEF is_locked_at
  <2>4. apply_hotp_failure(c, now) = n
    BY <1>3, <2>1 DEF apply_hotp_failure
  <2> QED
    BY <2>2, <2>3, <2>4 DEF Failed
<1>4. CASE ~is_locked_at(c, now) /\ ~(c.fails + 1 >= OtpAttempts)
  <2>1. PICK n : n = [c EXCEPT !.row = "own", !.fails = c.fails + 1]
    OBVIOUS
  <2>2. n \in Configs /\ n.row = "own" /\ n.fails = c.fails + 1 /\ n.until = c.until /\ n.counter = c.counter
    <3>1. c.fails + 1 \in Nat
      BY <1>1
    <3>2. n \in Configs
      BY <2>1, <3>1 DEF Configs
    <3> QED
      BY <2>1, <3>2 DEF Configs
  <2>3. apply_hotp_failure(c, now) = n
    BY <1>4, <2>1 DEF apply_hotp_failure
  <2> QED
    BY <2>2, <2>3 DEF Failed
<1> QED
  BY <1>2, <1>3, <1>4

(* A wrong guess uses up what was reserved for it. *)
LEMMA LockoutWrong ==
    ASSUME Types, LockoutOK, NEW l \in Logins, NEW x, Moves(l, x), RoundLocal(x, book.round),
           Reserving(login[l], book.round), ~Reserving(x, book.round),
           book'.wrong = book.wrong + 1, book'.round = book.round, book'.late = book.late,
           attempts' = attempts
    PROVE  LockoutOK'
<1>1. Outstanding' = Outstanding \ {l}
  BY DEF Outstanding, Moves, Types
<1>2. l \in Outstanding
  BY DEF Outstanding
<1>3. Cardinality(Outstanding') = Cardinality(Outstanding) - 1
  BY <1>1, <1>2, OutstandingFinite, FS_RemoveElement
<1>4. \A k \in Logins : RoundLocal(login'[k], book'.round)
  BY DEF Moves, Types, LockoutOK
<1> QED
  BY <1>3, <1>4, OutstandingFinite DEF LockoutOK

LEMMA VerifyCredential ==
    ASSUME LoginInv, NEW l \in Logins,
           NEW guess \in (IF scene.method = "password" THEN {0} \cup Resets ELSE Codes) \cup {Wrong},
           verify_credential(l, guess), UNCHANGED <<scene, clock, reset, admin>>
    PROVE  LoginInv'
<1>1. PICK c : c = login[l].config
  OBVIOUS
<1>2. PICK n : n = (IF scene.method = "password" THEN c
                    ELSE IF Matches(c, guess)
                         THEN [c EXCEPT !.row = "own", !.counter = guess + 1, !.fails = 0, !.until = 0]
                         ELSE apply_hotp_failure(c, clock))
  OBVIOUS
<1>3. PICK place : place = (IF Matches(c, guess) THEN IF scene.method = "password" THEN "release" ELSE "pass"
                            ELSE IF scene.method = "hotp" /\ ~is_locked_at(c, clock) THEN "fail" ELSE "count")
  OBVIOUS
<1>4. PICK x : x = [login[l] EXCEPT !.guess = guess, !.next = n, !.at = place]
  OBVIOUS
<1>5. login' = [login EXCEPT ![l] = x]
  BY <1>1, <1>2, <1>3, <1>4 DEF verify_credential, LoginInv, Types
<1>6. /\ login[l] \in LoginType /\ login[l].at = "verify" /\ login[l].at \notin Registered
      /\ scene.method \in {"password", "hotp"} /\ clock \in {0, 1}
  BY DEF verify_credential, LoginInv, Types, At, Registered, Scene
<1>7. OtpLocal(login[l], otp) /\ RoundLocal(login[l], book.round)
  BY DEF LoginInv, OtpOK, LockoutOK
<1>8. /\ scene.method = "password" => c \in Passwords
      /\ scene.method = "hotp" => c \in Configs
      /\ scene.method = "hotp" => c = Template \/ (c.row = "own" /\ otp # NoRow)
  <2>1. Template \in Configs
    BY DEF Template, Configs
  <2> QED
    BY <1>1, <1>6, <1>7, <2>1 DEF OtpLocal
<1>9. guess \in Int
  BY LoginFlowAssumption DEF Wrong
<1>10. ASSUME scene.method = "hotp", Matches(c, guess)
       PROVE  /\ guess \in Nat /\ guess >= c.counter
              /\ n \in Configs /\ n.row = "own" /\ n.fails = 0 /\ n.counter = guess + 1
  <2>1. guess \in Nat /\ guess >= c.counter
    BY <1>10, LoginFlowAssumption DEF Matches
  <2>2. n = [c EXCEPT !.row = "own", !.counter = guess + 1, !.fails = 0, !.until = 0]
    BY <1>2, <1>10
  <2>3. guess + 1 \in Nat /\ c \in Configs
    BY <1>8, <1>10, <2>1
  <2>4. n \in Configs
    BY <2>2, <2>3 DEF Configs
  <2>5. n.row = "own" /\ n.fails = 0 /\ n.counter = guess + 1
    BY <2>2, <2>3, <2>4 DEF Configs
  <2> QED
    BY <2>1, <2>4, <2>5
<1>11. ASSUME scene.method = "hotp", ~Matches(c, guess)
       PROVE  /\ n \in Configs /\ Failed(c, n)
              /\ ~is_locked_at(c, clock) => n.row = "own"
  <2>1. n = apply_hotp_failure(c, clock)
    BY <1>2, <1>11
  <2>2. Failed(c, n) /\ (~is_locked_at(c, clock) => n.row = "own")
    BY <1>6, <1>8, <1>11, <2>1, ApplyFailure
  <2> QED
    BY <2>2 DEF Failed
<1>12. n \in Configs \cup Passwords
  BY <1>2, <1>6, <1>8, <1>10, <1>11
<1>13. place \in {"release", "pass", "fail", "count"}
  BY <1>3
<1>14. /\ x \in LoginType /\ x.at = place /\ x.next = n /\ x.guess = guess /\ x.config = c
       /\ x.reserved = login[l].reserved /\ x.round = login[l].round
  BY <1>1, <1>4, <1>6, <1>9, <1>12, <1>13 DEF LoginType, Places
<1>15. Moves(l, x)
  BY <1>5, <1>14 DEF Moves
<1>16. OtpLocal(x, otp)
  <2>1. CASE scene.method = "password"
    <3>1. place \in {"release", "count"}
      BY <1>3, <2>1
    <3> QED
      BY <1>8, <1>14, <2>1, <3>1 DEF OtpLocal
  <2>2. CASE scene.method = "hotp" /\ Matches(c, guess)
    <3>1. place = "pass"
      BY <1>3, <2>2
    <3> QED
      BY <1>8, <1>10, <1>14, <2>2, <3>1 DEF OtpLocal
  <2>3. CASE scene.method = "hotp" /\ ~Matches(c, guess)
    <3>1. place = "count" \/ (place = "fail" /\ ~is_locked_at(c, clock))
      BY <1>3, <2>3
    <3> QED
      BY <1>8, <1>11, <1>14, <2>3, <3>1 DEF OtpLocal
  <2> QED
    BY <1>6, <2>1, <2>2, <2>3
<1>17. RoundLocal(x, book.round)
  BY <1>7, <1>13, <1>14 DEF RoundLocal
<1>18. book' = IF ~Matches(c, guess) /\ login[l].reserved > 0 /\ login[l].round = book.round
               THEN [book EXCEPT !.wrong = book.wrong + 1] ELSE book
  BY <1>1 DEF verify_credential
<1>19. /\ book' \in BookType /\ book'.tokens = book.tokens /\ book'.installed = book.installed
       /\ book'.used = book.used /\ book'.fails = book.fails
       /\ book'.round = book.round /\ book'.late = book.late
  <2>1. book \in BookType /\ book.wrong + 1 \in Nat
    BY DEF LoginInv, Types, BookType
  <2>2. PICK b : b = [book EXCEPT !.wrong = book.wrong + 1]
    OBVIOUS
  <2>3. /\ b \in BookType /\ b.tokens = book.tokens /\ b.installed = book.installed
        /\ b.used = book.used /\ b.fails = book.fails
        /\ b.round = book.round /\ b.late = book.late
    BY <2>1, <2>2 DEF BookType
  <2>4. book' = b \/ book' = book
    BY <1>18, <2>2
  <2> QED
    BY <2>1, <2>3, <2>4
<1>20. Metered
  BY <1>19 DEF Metered, verify_credential, accountVars, LoginInv, Types
<1>21. LockoutOK'
  <2>1. CASE ~Matches(c, guess) /\ login[l].reserved > 0 /\ login[l].round = book.round
    <3>1. book'.wrong = book.wrong + 1
      BY <1>18, <2>1 DEF LoginInv, Types, BookType
    <3>2. Reserving(login[l], book.round) /\ ~Reserving(x, book.round)
      BY <1>3, <1>6, <1>14, <2>1 DEF Reserving
    <3>3. attempts' = attempts /\ Types /\ LockoutOK
      BY DEF verify_credential, LoginInv
    <3> QED
      BY <1>15, <1>17, <1>19, <3>1, <3>2, <3>3, LockoutWrong
  <2>2. CASE ~(~Matches(c, guess) /\ login[l].reserved > 0 /\ login[l].round = book.round)
    <3>1. book' = book
      BY <1>18, <2>2
    <3>2. Reserving(x, book.round) => Reserving(login[l], book.round)
      BY <1>6, <1>14 DEF Reserving
    <3>3. attempts' = attempts /\ Types /\ LockoutOK
      BY DEF verify_credential, LoginInv
    <3> QED
      BY <1>15, <1>17, <3>1, <3>2, <3>3, LockoutKept
  <2> QED
    BY <2>1, <2>2
<1> QED
  BY <1>6, <1>15, <1>16, <1>20, <1>21, MeteredLogin, Unregistered

-----------------------------------------------------------------------------
(* Steps of a login that change the row of its one-time codes. *)
Stored ==
    /\ UNCHANGED <<scene, clock, reset, admin, status, password, history, resetToken, registry, attempts,
                   guesses, faults>>
    /\ book' \in BookType
    /\ book'.tokens = book.tokens /\ book'.installed = book.installed
    /\ book'.round = book.round /\ book'.wrong = book.wrong /\ book'.late = book.late

LEMMA StoredLogin ==
    ASSUME LoginInv, NEW l \in Logins, NEW x, Moves(l, x), Stored, OtpOK',
           RoundLocal(x, book.round), Reserving(x, book.round) => Reserving(login[l], book.round),
           Fits(l, x)
    PROVE  LoginInv'
<1> USE DEF Stored
<1>1. Types'
  <2>1. login' \in [Logins -> LoginType]
    BY DEF LoginInv, Types, Moves
  <2> QED
    BY <2>1 DEF LoginInv, Types
<1>2. TokensOK'
  BY TokensKept DEF LoginInv
<1>3. PasswordsOK'
  BY PasswordsKept DEF LoginInv
<1>4. LockoutOK'
  BY LockoutKept DEF LoginInv
<1>5. SessionsOK'
  BY SessionsKept DEF LoginInv
<1> QED
  BY <1>1, <1>2, <1>3, <1>4, <1>5 DEF LoginInv

LEMMA RowStored ==
    ASSUME Types, OtpOK, NEW l \in Logins, NEW x, Moves(l, x), x.at \in {"count", "release"},
           scene.method = "hotp", scene' = scene, otp' \in Configs, otp'.row = "own"
    PROVE  \A k \in Logins : OtpLocal(login[k], otp)'
<1> SUFFICES ASSUME NEW k \in Logins PROVE OtpLocal(login[k], otp)'
  OBVIOUS
<1>1. otp' # NoRow
  BY DEF NoRow
<1>2. CASE k = l
  <2>1. login'[k] = x
    BY <1>2 DEF Moves, Types
  <2> QED
    BY <1>1, <2>1 DEF OtpLocal
<1>3. CASE k # l
  <2>1. login'[k] = login[k]
    BY <1>3 DEF Moves, Types
  <2>2. OtpLocal(login[k], otp)
    BY DEF OtpOK
  <2> QED
    BY <1>1, <2>1, <2>2 DEF OtpLocal
<1> QED
  BY <1>2, <1>3

(* The row a failure is counted on, whether the user has one or not. *)
Prior == IF otp = NoRow THEN Template ELSE otp

LEMMA PriorRow ==
    ASSUME OtpOK
    PROVE  /\ Prior \in Configs /\ Prior.fails = book.fails
           /\ \A i \in 1 .. Len(book.used) : book.used[i] < Prior.counter
<1>1. Template \in Configs /\ Template.fails = 0
  BY DEF Template, Configs
<1>2. CASE otp = NoRow
  <2>1. Prior = Template /\ book.used = <<>> /\ book.fails = 0
    BY <1>2 DEF Prior, OtpOK
  <2> QED
    BY <1>1, <2>1
<1>3. CASE otp # NoRow
  BY <1>3 DEF Prior, OtpOK
<1> QED
  BY <1>2, <1>3

LEMMA FailureOnRow ==
    ASSUME Types, OtpOK, NEW l \in Logins, NEW x, Moves(l, x), x.at = "count",
           scene.method = "hotp", scene' = scene,
           Failed(Prior, otp'), otp'.row = "own", FailureStored(Prior, otp')
    PROVE  /\ OtpOK' /\ book' \in BookType
           /\ book'.tokens = book.tokens /\ book'.installed = book.installed
           /\ book'.round = book.round /\ book'.wrong = book.wrong /\ book'.late = book.late
<1>1. PICK prior : prior = Prior
  OBVIOUS
<1>2. PICK n : n = otp'
  OBVIOUS
<1>3. /\ prior \in Configs /\ prior.fails = book.fails /\ prior.until \in Nat /\ prior.counter \in Nat
      /\ \A i \in 1 .. Len(book.used) : book.used[i] < prior.counter
  BY <1>1, PriorRow DEF Configs
<1>4. n \in Configs /\ n.row = "own" /\ n.counter = prior.counter /\ n.until \in Nat /\ Failed(prior, n)
  BY <1>1, <1>2 DEF Failed, Configs
<1>5. PICK f : f = IF n.until > prior.until THEN 0 ELSE book.fails + 1
  OBVIOUS
<1>6. book \in BookType /\ book.fails \in Nat /\ f \in Nat
  BY <1>5 DEF Types, BookType
<1>7. PICK b : b = [book EXCEPT !.fails = f]
  OBVIOUS
<1>8. book' = IF n = prior THEN book ELSE b
  BY <1>1, <1>2, <1>5, <1>7 DEF FailureStored
<1>9. /\ b \in BookType /\ b.fails = f /\ b.used = book.used
      /\ b.tokens = book.tokens /\ b.installed = book.installed
      /\ b.round = book.round /\ b.wrong = book.wrong /\ b.late = book.late
  BY <1>6, <1>7 DEF BookType
<1>10. /\ book' \in BookType /\ book'.used = book.used
       /\ book'.tokens = book.tokens /\ book'.installed = book.installed
       /\ book'.round = book.round /\ book'.wrong = book.wrong /\ book'.late = book.late
  BY <1>6, <1>8, <1>9
<1>11. n.fails = book'.fails
  <2>1. CASE n = prior
    BY <1>3, <1>8, <2>1
  <2>2. CASE n # prior
    <3>1. \/ n.until > prior.until /\ n.fails = 0
          \/ n.until = prior.until /\ n.fails = prior.fails + 1
      BY <1>4, <2>2 DEF Failed
    <3>2. n.fails = f
      BY <1>3, <1>4, <1>5, <3>1
    <3> QED
      BY <1>8, <1>9, <2>2, <3>2
  <2> QED
    BY <2>1, <2>2
<1>12. \A i \in 1 .. Len(book'.used) : book'.used[i] < otp'.counter
  BY <1>2, <1>3, <1>4, <1>10
<1>13. CodeUsedOnce'
  BY <1>10 DEF OtpOK, CodeUsedOnce
<1>14. \A k \in Logins : OtpLocal(login[k], otp)'
  BY <1>2, <1>4, RowStored
<1>15. otp' # NoRow
  BY <1>2, <1>4 DEF NoRow
<1>16. OtpOK'
  BY <1>2, <1>4, <1>11, <1>12, <1>13, <1>14, <1>15 DEF OtpOK
<1> QED
  BY <1>10, <1>16

LEMMA CountFailure ==
    ASSUME LoginInv, NEW l \in Logins, login[l].at \in {"fail", "fail_swap"}, Go(l, "count"),
           UNCHANGED <<scene, clock, reset, admin, accountVars, registry, attempts, guesses, faults>>,
           otp = NoRow => login[l].at = "fail", otp # NoRow => otp = login[l].config,
           otp' = login[l].next, FailureStored(Prior, login[l].next)
    PROVE  LoginInv'
<1>1. PICK x \in LoginType : Moves(l, x) /\ x = [login[l] EXCEPT !.at = "count"] /\ x.at = "count"
  BY GoMoves DEF LoginInv, Places
<1>2. login[l] \in LoginType /\ login[l].at \notin Registered
  BY DEF LoginInv, Types, Registered
<1>3. x.reserved = login[l].reserved /\ x.round = login[l].round
  BY <1>1, <1>2 DEF LoginType
<1>4. RoundLocal(login[l], book.round) /\ OtpLocal(login[l], otp)
  BY DEF LoginInv, LockoutOK, OtpOK
<1>5. scene.method = "hotp" /\ Failed(login[l].config, login[l].next) /\ login[l].next.row = "own"
  BY <1>4 DEF OtpLocal
<1>6. login[l].config = Prior
  BY <1>4, <1>5 DEF OtpLocal, Prior
<1>7. /\ OtpOK' /\ book' \in BookType
      /\ book'.tokens = book.tokens /\ book'.installed = book.installed
      /\ book'.round = book.round /\ book'.wrong = book.wrong /\ book'.late = book.late
  BY <1>1, <1>5, <1>6, FailureOnRow DEF LoginInv
<1>8. Stored
  BY <1>7 DEF Stored, accountVars
<1>9. RoundLocal(x, book.round) /\ (Reserving(x, book.round) => Reserving(login[l], book.round))
  BY <1>1, <1>3, <1>4 DEF RoundLocal, Reserving
<1> QED
  BY <1>1, <1>2, <1>7, <1>8, <1>9, StoredLogin, Unregistered

LEMMA PersistFailLoad ==
    ASSUME LoginInv, NEW l \in Logins, persist_fail_load(l), UNCHANGED <<scene, clock, reset, admin>>
    PROVE  LoginInv'
<1>1. login[l].at = "fail" /\ login[l].at \notin Registered /\ login[l] \in LoginType
  BY DEF persist_fail_load, At, Registered, LoginInv, Types
<1>2. CASE otp = NoRow
  <2>1. Prior = Template
    BY <1>2 DEF Prior
  <2> QED
    BY <1>1, <1>2, <2>1, CountFailure DEF persist_fail_load
<1>3. CASE otp # NoRow
  <2>1. Still
    BY <1>3 DEF persist_fail_load, Still, accountVars, LoginInv, Types
  <2>2. PICK n : n = apply_hotp_failure(otp, clock)
    OBVIOUS
  <2>3. PICK x : x = [login[l] EXCEPT !.at = "fail_swap", !.config = otp, !.now = clock, !.next = n]
    OBVIOUS
  <2>4. otp \in Configs /\ otp.row = "own" /\ clock \in {0, 1}
    BY <1>3 DEF LoginInv, OtpOK, Types
  <2>5. Failed(otp, n) /\ n.row = "own" /\ n \in Configs
    BY <2>2, <2>4, ApplyFailure DEF Failed
  <2>6. /\ x \in LoginType /\ x.at = "fail_swap" /\ x.config = otp /\ x.next = n
        /\ x.reserved = login[l].reserved /\ x.round = login[l].round
    BY <1>1, <2>3, <2>4, <2>5 DEF LoginType, Places
  <2>7. Moves(l, x)
    BY <1>3, <2>2, <2>3, <2>6 DEF persist_fail_load, Moves, LoginInv, Types
  <2>8. RoundLocal(login[l], book.round) /\ OtpLocal(login[l], otp)
    BY DEF LoginInv, LockoutOK, OtpOK
  <2>9. OtpLocal(x, otp)
    BY <1>1, <1>3, <2>4, <2>5, <2>6, <2>8 DEF OtpLocal
  <2>10. LoginLocal(l, x)
    BY <2>6, <2>8, <2>9 DEF LoginLocal, RoundLocal, Reserving
  <2> QED
    BY <1>1, <2>1, <2>7, <2>10, StillLogin, Unregistered
<1> QED
  BY <1>2, <1>3

LEMMA PersistFailSwap ==
    ASSUME LoginInv, NEW l \in Logins, persist_fail_swap(l), UNCHANGED <<scene, clock, reset, admin>>
    PROVE  LoginInv'
<1>1. login[l].at = "fail_swap" /\ login[l].at \notin Registered /\ login[l] \in LoginType
  BY DEF persist_fail_swap, At, Registered, LoginInv, Types
<1>2. RoundLocal(login[l], book.round) /\ OtpLocal(login[l], otp)
  BY DEF LoginInv, LockoutOK, OtpOK
<1>3. otp # NoRow
  BY <1>1, <1>2 DEF OtpLocal
<1>4. CASE otp = login[l].config
  <2>1. Prior = otp
    BY <1>3 DEF Prior
  <2> QED
    BY <1>1, <1>3, <1>4, <2>1, CountFailure DEF persist_fail_swap
<1>5. CASE otp # login[l].config
  <2>1. Still
    BY <1>5 DEF persist_fail_swap, Still, accountVars, LoginInv, Types
  <2>2. PICK x : x = [login[l] EXCEPT !.at = "fail_reload"]
    OBVIOUS
  <2>3. /\ x \in LoginType /\ x.at = "fail_reload" /\ x.config = login[l].config
        /\ x.reserved = login[l].reserved /\ x.round = login[l].round
    BY <1>1, <2>2 DEF LoginType, Places
  <2>4. Moves(l, x)
    BY <1>5, <2>2, <2>3 DEF persist_fail_swap, Moves, LoginInv, Types
  <2>5. LoginLocal(l, x)
    BY <1>1, <1>2, <2>3 DEF LoginLocal, OtpLocal, RoundLocal, Reserving
  <2> QED
    BY <1>1, <2>1, <2>4, <2>5, StillLogin, Unregistered
<1> QED
  BY <1>4, <1>5

LEMMA PersistFailReload ==
    ASSUME LoginInv, NEW l \in Logins, persist_fail_reload(l), UNCHANGED <<scene, clock, reset, admin>>
    PROVE  LoginInv'
<1>1. login[l].at = "fail_reload" /\ login[l].at \notin Registered /\ login[l] \in LoginType
  BY DEF persist_fail_reload, At, Registered, LoginInv, Types
<1>2. RoundLocal(login[l], book.round) /\ OtpLocal(login[l], otp)
  BY DEF LoginInv, LockoutOK, OtpOK
<1>3. Still
  BY DEF persist_fail_reload, Still, accountVars, LoginInv, Types
<1>4. otp # NoRow /\ scene.method = "hotp"
  BY <1>1, <1>2 DEF OtpLocal
<1>5. otp \in Configs /\ otp.row = "own" /\ login[l].now \in {0, 1} /\ login[l].tries + 1 \in Nat
  BY <1>1, <1>4 DEF LoginInv, OtpOK, LoginType
<1>6. PICK n : n = apply_hotp_failure(otp, login[l].now)
  OBVIOUS
<1>7. Failed(otp, n) /\ n.row = "own" /\ n \in Configs
  BY <1>5, <1>6, ApplyFailure DEF Failed
<1>8. PICK place : place = IF login[l].tries + 1 < FailRetries THEN "fail_swap" ELSE "count"
  OBVIOUS
<1>9. PICK x : x = [login[l] EXCEPT !.at = place, !.tries = login[l].tries + 1, !.config = otp, !.next = n]
  OBVIOUS
<1>10. place \in {"fail_swap", "count"}
  BY <1>8
<1>11. /\ x \in LoginType /\ x.at = place /\ x.config = otp /\ x.next = n
       /\ x.reserved = login[l].reserved /\ x.round = login[l].round
  BY <1>1, <1>5, <1>7, <1>9, <1>10 DEF LoginType, Places
<1>12. Moves(l, x)
  BY <1>6, <1>8, <1>9, <1>11 DEF persist_fail_reload, Moves, LoginInv, Types
<1>13. OtpLocal(x, otp)
  BY <1>4, <1>5, <1>7, <1>10, <1>11 DEF OtpLocal
<1>14. LoginLocal(l, x)
  BY <1>2, <1>10, <1>11, <1>13 DEF LoginLocal, RoundLocal, Reserving
<1> QED
  BY <1>1, <1>3, <1>12, <1>14, StillLogin, Unregistered

(* A code that is accepted is at or above the counter, so it is not one of *)
(* those used, and below the new counter.                                  *)
LEMMA CodeOnRow ==
    ASSUME Types, OtpOK, NEW l \in Logins, NEW x, Moves(l, x), x.at = "release",
           scene.method = "hotp", scene' = scene, otp' \in Configs, otp'.row = "own", otp'.fails = 0,
           NEW guess \in Nat, guess >= Prior.counter, otp'.counter = guess + 1,
           book' = [book EXCEPT !.fails = 0, !.used = Append(book.used, guess)]
    PROVE  /\ OtpOK' /\ book' \in BookType
           /\ book'.tokens = book.tokens /\ book'.installed = book.installed
           /\ book'.round = book.round /\ book'.wrong = book.wrong /\ book'.late = book.late
<1>1. PICK used : used = book.used
  OBVIOUS
<1>2. book \in BookType /\ used \in Seq(Nat)
  BY <1>1 DEF Types, BookType
<1>3. Prior.counter \in Nat /\ \A i \in 1 .. Len(used) : used[i] < Prior.counter
  BY <1>1, PriorRow DEF Configs
<1>4. Append(used, guess) \in Seq(Nat)
  BY <1>2
<1>5. book' \in BookType
  BY <1>1, <1>2, <1>4 DEF BookType
<1>6. /\ book'.used = Append(used, guess) /\ book'.fails = 0
      /\ book'.tokens = book.tokens /\ book'.installed = book.installed
      /\ book'.round = book.round /\ book'.wrong = book.wrong /\ book'.late = book.late
  BY <1>1, <1>2, <1>5 DEF BookType
<1>7. PICK next : next = Append(used, guess)
  OBVIOUS
<1>8. /\ Len(next) = Len(used) + 1 /\ next[Len(used) + 1] = guess
      /\ \A i \in 1 .. Len(used) : next[i] = used[i] /\ used[i] \in Nat
  BY <1>2, <1>7
<1>9. Len(used) \in Nat
  BY <1>2
<1>10. \A i \in 1 .. Len(next) : next[i] < guess + 1
  <2> SUFFICES ASSUME NEW i \in 1 .. Len(next) PROVE next[i] < guess + 1
    OBVIOUS
  <2>1. CASE i \in 1 .. Len(used)
    BY <1>3, <1>8, <2>1
  <2>2. CASE i = Len(used) + 1
    BY <1>8, <2>2
  <2> QED
    BY <1>8, <1>9, <2>1, <2>2
<1>11. \A i \in 1 .. Len(used) : next[i] # guess
  BY <1>3, <1>8
<1>12. \A i, j \in 1 .. Len(used) : next[i] = next[j] => i = j
  BY <1>1, <1>8 DEF OtpOK, CodeUsedOnce
<1>13. \A i, j \in 1 .. Len(next) : next[i] = next[j] => i = j
  <2> SUFFICES ASSUME NEW i \in 1 .. Len(next), NEW j \in 1 .. Len(next), next[i] = next[j]
               PROVE  i = j
    OBVIOUS
  <2>1. /\ i \in 1 .. Len(used) \/ i = Len(used) + 1
        /\ j \in 1 .. Len(used) \/ j = Len(used) + 1
    BY <1>8, <1>9
  <2>2. CASE i \in 1 .. Len(used) /\ j \in 1 .. Len(used)
    BY <1>12, <2>2
  <2>3. CASE i = Len(used) + 1 /\ j = Len(used) + 1
    BY <2>3
  <2>4. CASE i \in 1 .. Len(used) /\ j = Len(used) + 1
    BY <1>8, <1>11, <2>4
  <2>5. CASE i = Len(used) + 1 /\ j \in 1 .. Len(used)
    BY <1>8, <1>11, <2>5
  <2> QED
    BY <2>1, <2>2, <2>3, <2>4, <2>5
<1>14. CodeUsedOnce'
  BY <1>6, <1>7, <1>13 DEF CodeUsedOnce
<1>15. \A i \in 1 .. Len(book'.used) : book'.used[i] < otp'.counter
  BY <1>6, <1>7, <1>10
<1>16. \A k \in Logins : OtpLocal(login[k], otp)'
  BY RowStored
<1>17. otp' # NoRow
  BY DEF NoRow
<1>18. OtpOK'
  BY <1>6, <1>14, <1>15, <1>16, <1>17 DEF OtpOK
<1> QED
  BY <1>5, <1>6, <1>18

LEMMA PersistPass ==
    ASSUME LoginInv, NEW l \in Logins, persist_pass_with_update(l), UNCHANGED <<scene, clock, reset, admin>>
    PROVE  LoginInv'
<1>1. login[l].at = "pass" /\ login[l].at \notin Registered /\ login[l] \in LoginType
  BY DEF persist_pass_with_update, At, Registered, LoginInv, Types
<1>2. RoundLocal(login[l], book.round) /\ OtpLocal(login[l], otp)
  BY DEF LoginInv, LockoutOK, OtpOK
<1>3. PICK c : c = login[l].config
  OBVIOUS
<1>4. CASE IF c = Template THEN otp = NoRow ELSE otp = c
  <2>1. PICK x \in LoginType : Moves(l, x) /\ x = [login[l] EXCEPT !.at = "release"] /\ x.at = "release"
    BY <1>3, <1>4, GoMoves DEF LoginInv, Places, persist_pass_with_update
  <2>2. x.reserved = login[l].reserved /\ x.round = login[l].round
    BY <1>1, <2>1 DEF LoginType
  <2>3. PICK guess : guess = login[l].guess
    OBVIOUS
  <2>4. /\ scene.method = "hotp" /\ guess \in Nat /\ guess >= c.counter
        /\ login[l].next \in Configs /\ login[l].next.row = "own" /\ login[l].next.fails = 0
        /\ login[l].next.counter = guess + 1
        /\ c = Template \/ (c \in Configs /\ c.row = "own" /\ otp # NoRow)
    BY <1>1, <1>2, <1>3, <2>3 DEF OtpLocal
  <2>5. c = Prior
    BY <1>4, <2>4 DEF Prior
  <2>6. otp' = login[l].next /\ book' = [book EXCEPT !.fails = 0, !.used = Append(book.used, guess)]
    BY <1>3, <1>4, <2>3 DEF persist_pass_with_update
  <2>7. Types /\ OtpOK /\ scene' = scene
    BY DEF LoginInv
  <2>8. /\ OtpOK' /\ book' \in BookType
        /\ book'.tokens = book.tokens /\ book'.installed = book.installed
        /\ book'.round = book.round /\ book'.wrong = book.wrong /\ book'.late = book.late
    BY <2>1, <2>4, <2>5, <2>6, <2>7, CodeOnRow
  <2>9. Stored
    BY <2>8 DEF Stored, persist_pass_with_update, accountVars
  <2>10. RoundLocal(x, book.round) /\ (Reserving(x, book.round) => Reserving(login[l], book.round))
    BY <1>1, <1>2, <2>1, <2>2 DEF RoundLocal, Reserving
  <2> QED
    BY <1>1, <2>1, <2>8, <2>9, <2>10, StoredLogin, Unregistered
<1>5. CASE ~(IF c = Template THEN otp = NoRow ELSE otp = c)
  <2>1. Go(l, "count") /\ Still
    BY <1>3, <1>5 DEF persist_pass_with_update, Still, accountVars, LoginInv, Types
  <2>2. PICK x \in LoginType : Moves(l, x) /\ x = [login[l] EXCEPT !.at = "count"] /\ x.at = "count"
    BY <2>1, GoMoves DEF LoginInv, Places
  <2>3. x.reserved = login[l].reserved /\ x.round = login[l].round
    BY <1>1, <2>2 DEF LoginType
  <2>4. LoginLocal(l, x)
    BY <1>1, <1>2, <2>2, <2>3 DEF LoginLocal, OtpLocal, RoundLocal, Reserving
  <2> QED
    BY <1>1, <2>1, <2>2, <2>4, StillLogin, Unregistered
<1> QED
  BY <1>4, <1>5

-----------------------------------------------------------------------------
LEMMA RecordFailure ==
    ASSUME LoginInv, NEW l \in Logins, record_factor_failure_after(l), UNCHANGED <<scene, clock, reset, admin>>
    PROVE  LoginInv'
<1>1. login[l].at = "count" /\ login[l].at \notin Registered /\ login[l] \in LoginType
  BY DEF record_factor_failure_after, At, Registered, LoginInv, Types
<1>2. ASSUME NEW n PROVE LockedFrom(n) \in LoginAnswers
  BY DEF LockedFrom, LoginAnswers, Verdicts
<1>3. "Locked" \in LoginAnswers /\ "InvalidCredential" \in LoginAnswers
  BY DEF LoginAnswers, Verdicts
<1>4. CASE login[l].reserved > 0 /\ Again(l, LockedFrom(login[l].reserved)) /\ UNCHANGED <<attempts, book, faults>>
  <2>1. Still
    BY <1>4 DEF record_factor_failure_after, Still, accountVars, LoginInv, Types
  <2> QED
    BY <1>1, <1>2, <1>4, <2>1, AgainStill
<1>5. CASE Fault /\ UNCHANGED <<attempts, book>>
           /\ Again(l, IF scene.outage = "Lock" THEN "Locked" ELSE "InvalidCredential")
  <2>1. Still
    BY <1>5, Faults DEF record_factor_failure_after, Still, accountVars, LoginInv, Types
  <2> QED
    BY <1>1, <1>3, <1>5, <2>1, AgainStill
<1>6. CASE /\ attempts' = [count |-> IF fresh_count THEN 1 ELSE attempts.count + 1, last |-> clock]
           /\ IF fresh_count /\ attempts.count > 0 THEN NewRound ELSE UNCHANGED book
           /\ Again(l, LockedFrom(attempts'.count))
           /\ UNCHANGED faults
  <2>1. PICK answer \in LoginAnswers : Again(l, answer)
    <3>1. LockedFrom(attempts'.count) \in LoginAnswers
      BY <1>2
    <3> QED
      BY <1>6, <3>1
  <2>2. PICK x \in LoginType : /\ Moves(l, x) /\ x.at \in {"done", "current"}
                               /\ x.reserved = 0 /\ x.round = 0
    BY <2>1, AgainMoves DEF LoginInv
  <2>3. /\ attempts' \in [count : Nat, last : {0, 1}] /\ attempts'.count \in Nat
        /\ attempts.count \in Nat /\ book \in BookType /\ book.round \in Nat
    BY <1>6 DEF LoginInv, Types, BookType
  <2>4. OtpLocal(x, otp)
    BY <2>2, OverLocal DEF LoginLocal
  <2>5. CASE fresh_count /\ attempts.count > 0
    <3>1. NewRound /\ Types /\ LockoutOK
      BY <1>6, <2>5 DEF LoginInv
    <3>2. Metered
      BY <1>6, <2>3, <3>1, NewRoundBook
         DEF record_factor_failure_after, Metered, accountVars, LoginInv, Types
    <3>3. RoundLocal(x, book'.round) /\ ~Reserving(x, book'.round)
      BY <2>2, <2>3, <3>1, NewRoundBook DEF RoundLocal, Reserving
    <3>4. LockoutOK'
      BY <2>2, <2>3, <3>1, <3>3, LockoutStartsOver
    <3> QED
      BY <1>1, <2>2, <2>4, <3>2, <3>4, MeteredLogin, Unregistered
  <2>6. CASE ~(fresh_count /\ attempts.count > 0)
    <3>1. book' = book /\ attempts'.count = attempts.count + 1
      BY <1>6, <2>3, <2>6 DEF fresh_count
    <3>2. Metered
      BY <1>6, <2>3, <3>1 DEF record_factor_failure_after, Metered, accountVars, LoginInv, Types
    <3>3. RoundLocal(x, book.round) /\ ~Reserving(x, book.round)
      BY <2>2, <2>3 DEF RoundLocal, Reserving
    <3>4. Types /\ LockoutOK /\ attempts'.count >= attempts.count
      BY <2>3, <3>1 DEF LoginInv
    <3>5. LockoutOK'
      BY <2>2, <2>3, <3>1, <3>3, <3>4, LockoutKept
    <3> QED
      BY <1>1, <2>2, <2>4, <3>2, <3>5, MeteredLogin, Unregistered
  <2> QED
    BY <2>5, <2>6
<1> QED
  BY <1>4, <1>5, <1>6 DEF record_factor_failure_after

(* What a right guess had reserved is given back, to the round it was      *)
(* reserved in or to a later one.                                          *)
LEMMA LockoutReleases ==
    ASSUME Types, LockoutOK, NEW l \in Logins, NEW x, Moves(l, x), RoundLocal(x, book.round),
           login[l].at = "release", login[l].reserved > 0, ~Reserving(x, book.round),
           attempts'.count = (IF attempts.count > 0 THEN attempts.count - 1 ELSE 0),
           book'.wrong = book.wrong, book'.round = book.round,
           book'.late = (IF login[l].round # book.round THEN book.late + 1 ELSE book.late)
    PROVE  LockoutOK'
<1>1. Outstanding' = Outstanding \ {l}
  BY DEF Outstanding, Moves, Types
<1>2. \A k \in Logins : RoundLocal(login'[k], book'.round)
  BY DEF Moves, Types, LockoutOK
<1>3. CASE login[l].round = book.round
  <2>1. l \in Outstanding
    BY <1>3 DEF Outstanding, Reserving
  <2>2. Cardinality(Outstanding') = Cardinality(Outstanding) - 1
    BY <1>1, <2>1, OutstandingFinite, FS_RemoveElement
  <2>3. Cardinality(Outstanding') \in Nat
    BY <1>1, OutstandingFinite, FS_RemoveElement, FS_CardinalityType
  <2>4. attempts'.count \in Nat /\ attempts'.count + 1 >= attempts.count /\ book'.late = book.late
    BY <1>3, OutstandingFinite
  <2> QED
    BY <1>2, <2>2, <2>3, <2>4, OutstandingFinite DEF LockoutOK
<1>4. CASE login[l].round # book.round
  <2>1. l \notin Outstanding
    BY <1>4 DEF Outstanding, Reserving
  <2>2. Cardinality(Outstanding') = Cardinality(Outstanding)
    BY <1>1, <2>1, OutstandingFinite, FS_RemoveElement
  <2>3. attempts'.count \in Nat /\ attempts'.count + 1 >= attempts.count /\ book'.late = book.late + 1
    BY <1>4, OutstandingFinite
  <2> QED
    BY <1>2, <2>2, <2>3, OutstandingFinite DEF LockoutOK
<1> QED
  BY <1>3, <1>4

LEMMA ReleaseGuess ==
    ASSUME LoginInv, NEW l \in Logins, release_guess(l), UNCHANGED <<scene, clock, reset, admin>>
    PROVE  LoginInv'
<1>1. login[l].at = "release" /\ login[l].at \notin Registered /\ login[l] \in LoginType
  BY DEF release_guess, At, Registered, LoginInv, Types
<1>2. PICK place : place = IF scene.method = "password" THEN "rehash" ELSE "list"
  OBVIOUS
<1>3. place \in Places /\ place \in {"rehash", "list"} /\ Go(l, place)
  BY <1>2 DEF Places, release_guess
<1>4. PICK x \in LoginType : Moves(l, x) /\ x = [login[l] EXCEPT !.at = place] /\ x.at = place
  BY <1>3, GoMoves DEF LoginInv
<1>5. x.reserved = login[l].reserved /\ x.round = login[l].round /\ x.config = login[l].config
  BY <1>1, <1>4 DEF LoginType
<1>6. RoundLocal(login[l], book.round) /\ OtpLocal(login[l], otp)
  BY DEF LoginInv, LockoutOK, OtpOK
<1>7. OtpLocal(x, otp)
  <2>1. x.at = "rehash" => scene.method = "password"
    BY <1>2, <1>4
  <2>2. x.at = "rehash" => x.config \in Passwords
    BY <1>1, <1>5, <1>6, <2>1 DEF OtpLocal
  <2>3. x.at \in {"rehash", "list"}
    BY <1>3, <1>4
  <2> QED
    BY <2>1, <2>2, <2>3 DEF OtpLocal
<1>8. RoundLocal(x, book.round) /\ ~Reserving(x, book.round)
  BY <1>3, <1>4, <1>5, <1>6 DEF RoundLocal, Reserving
<1>9. CASE UNCHANGED <<attempts, book>> /\ (UNCHANGED faults \/ Fault)
  <2>1. Still
    BY <1>9, Faults DEF release_guess, Still, accountVars, LoginInv, Types
  <2> QED
    BY <1>1, <1>4, <1>7, <1>8, <2>1, StillLogin, Unregistered DEF LoginLocal
<1>10. CASE /\ login[l].reserved > 0
            /\ attempts' = [attempts EXCEPT !.count = IF @ > 0 THEN @ - 1 ELSE 0]
            /\ book' = IF login[l].round # book.round THEN [book EXCEPT !.late = @ + 1] ELSE book
            /\ UNCHANGED faults
  <2>1. attempts \in [count : Nat, last : {0, 1}] /\ book \in BookType /\ book.late + 1 \in Nat
    BY DEF LoginInv, Types, BookType
  <2>2. PICK n : n = IF attempts.count > 0 THEN attempts.count - 1 ELSE 0
    OBVIOUS
  <2>3. n \in Nat /\ attempts' = [attempts EXCEPT !.count = n]
    BY <1>10, <2>1, <2>2
  <2>4. attempts' \in [count : Nat, last : {0, 1}] /\ attempts'.count = n
    BY <2>1, <2>3
  <2>5. PICK b : b = [book EXCEPT !.late = book.late + 1]
    OBVIOUS
  <2>6. /\ b \in BookType /\ b.tokens = book.tokens /\ b.installed = book.installed
        /\ b.used = book.used /\ b.fails = book.fails
        /\ b.round = book.round /\ b.wrong = book.wrong /\ b.late = book.late + 1
    BY <2>1, <2>5 DEF BookType
  <2>7. book' = IF login[l].round # book.round THEN b ELSE book
    BY <1>10, <2>5
  <2>8. /\ book' \in BookType /\ book'.tokens = book.tokens /\ book'.installed = book.installed
        /\ book'.used = book.used /\ book'.fails = book.fails
        /\ book'.round = book.round /\ book'.wrong = book.wrong
        /\ book'.late = IF login[l].round # book.round THEN book.late + 1 ELSE book.late
    BY <2>1, <2>6, <2>7
  <2>9. Metered
    BY <1>10, <2>4, <2>8 DEF release_guess, Metered, accountVars, LoginInv, Types
  <2>10. Types /\ LockoutOK
    BY DEF LoginInv
  <2>11. LockoutOK'
    BY <1>1, <1>4, <1>8, <1>10, <2>2, <2>4, <2>8, <2>10, LockoutReleases
  <2> QED
    BY <1>1, <1>4, <1>7, <2>9, <2>11, MeteredLogin, Unregistered
<1> QED
  BY <1>9, <1>10 DEF release_guess

LEMMA Rehash ==
    ASSUME LoginInv, NEW l \in Logins, rehash_outdated_password(l), UNCHANGED <<scene, clock, reset, admin>>
    PROVE  LoginInv'
<1>1. login[l].at = "rehash" /\ login[l].at \notin Registered /\ login[l] \in LoginType
  BY DEF rehash_outdated_password, At, Registered, LoginInv, Types
<1>2. OtpLocal(login[l], otp) /\ password \in Passwords
  BY DEF LoginInv, OtpOK, Types
<1>3. PICK c : c = login[l].config
  OBVIOUS
<1>4. c \in Passwords
  BY <1>1, <1>2, <1>3 DEF OtpLocal
<1>5. PICK q : q = [c EXCEPT !.outdated = FALSE]
  OBVIOUS
<1>6. q \in Passwords /\ q.id = c.id
  BY <1>4, <1>5 DEF Passwords
<1>7. password' = IF c.outdated /\ password = c THEN q ELSE password
  BY <1>3, <1>5 DEF rehash_outdated_password
<1>8. password' \in Passwords /\ password'.id = password.id
  BY <1>2, <1>6, <1>7
<1>9. Still /\ Go(l, "list")
  BY <1>8 DEF rehash_outdated_password, Still, LoginInv, Types
<1> QED
  BY <1>1, <1>9, GoEarly

-----------------------------------------------------------------------------
(* Steps of a login that change the registry. *)
LEMMA WithoutDrops ==
    ASSUME Types, Once, NEW v \in Logins, registry' = Without(v)
    PROVE  /\ registry' \in Seq(Logins) /\ Once'
           /\ \A k \in Logins : Held(k)' <=> Held(k) /\ k # v
<1>1. PICK s : s = registry
  OBVIOUS
<1>2. s \in Seq(Logins) /\ Len(s) \in Nat
  BY <1>1 DEF Types
<1>3. CASE ~Held(v)
  <2>1. registry' = s
    BY <1>1, <1>3 DEF Without
  <2> QED
    BY <1>1, <1>2, <1>3, <2>1 DEF Once, Held
<1>4. CASE Held(v)
  <2>1. PICK p : p = CHOOSE i \in 1 .. Len(s) : s[i] = v
    OBVIOUS
  <2>2. p \in 1 .. Len(s) /\ s[p] = v
    BY <1>1, <1>4, <2>1 DEF Held
  <2>3. PICK t : t = [i \in 1 .. Len(s) - 1 |-> s[IF i < p THEN i ELSE i + 1]]
    OBVIOUS
  <2>4. registry' = t
    BY <1>1, <1>4, <2>1, <2>3 DEF Without
  <2>5. Len(s) - 1 \in Nat
    BY <1>2, <2>2
  <2>6. t \in Seq(Logins) /\ Len(t) = Len(s) - 1
    <3>1. \A i \in 1 .. Len(s) - 1 : s[IF i < p THEN i ELSE i + 1] \in Logins
      BY <1>2, <2>2
    <3>2. t \in [1 .. Len(s) - 1 -> Logins]
      BY <2>3, <3>1
    <3> QED
      BY <2>5, <3>2
  <2>7. \A i, j \in 1 .. Len(s) : s[i] = s[j] => i = j
    BY <1>1 DEF Once
  <2>8. ASSUME NEW i \in 1 .. Len(t)
        PROVE  /\ i < p => t[i] = s[i] /\ i \in 1 .. Len(s)
               /\ i >= p => t[i] = s[i + 1] /\ i + 1 \in 1 .. Len(s)
    BY <1>2, <2>2, <2>3, <2>5, <2>6
  <2>9. ASSUME NEW i \in 1 .. Len(t), NEW j \in 1 .. Len(t), t[i] = t[j] PROVE i = j
    <3>1. i \in Nat /\ j \in Nat /\ p \in Nat
      BY <2>2, <2>5, <2>6
    <3>2. CASE i < p /\ j < p
      BY <2>7, <2>8, <2>9, <3>2
    <3>3. CASE i < p /\ j >= p
      <4>1. t[i] = s[i] /\ t[j] = s[j + 1] /\ i \in 1 .. Len(s) /\ j + 1 \in 1 .. Len(s)
        BY <2>8, <3>3
      <4>2. i = j + 1
        BY <2>7, <2>9, <4>1
      <4> QED
        BY <3>1, <3>3, <4>2
    <3>4. CASE i >= p /\ j < p
      <4>1. t[j] = s[j] /\ t[i] = s[i + 1] /\ j \in 1 .. Len(s) /\ i + 1 \in 1 .. Len(s)
        BY <2>8, <3>4
      <4>2. j = i + 1
        BY <2>7, <2>9, <4>1
      <4> QED
        BY <3>1, <3>4, <4>2
    <3>5. CASE i >= p /\ j >= p
      <4>1. t[i] = s[i + 1] /\ t[j] = s[j + 1] /\ i + 1 \in 1 .. Len(s) /\ j + 1 \in 1 .. Len(s)
        BY <2>8, <3>5
      <4>2. i + 1 = j + 1
        BY <2>7, <2>9, <4>1
      <4> QED
        BY <3>1, <4>2
    <3> QED
      BY <3>1, <3>2, <3>3, <3>4, <3>5
  <2>10. Once'
    BY <2>4, <2>9 DEF Once
  <2>11. ASSUME NEW k \in Logins, NEW i \in 1 .. Len(t), t[i] = k
         PROVE  Held(k) /\ k # v
    <3>1. PICK j \in 1 .. Len(s) : s[j] = k /\ j # p
      <4>1. CASE i < p
        BY <2>8, <2>11, <4>1
      <4>2. CASE i >= p
        <5>1. i + 1 # p /\ i + 1 \in 1 .. Len(s) /\ s[i + 1] = k
          BY <2>2, <2>8, <2>11, <4>2
        <5> QED
          BY <5>1
      <4> QED
        BY <2>2, <2>6, <4>1, <4>2
    <3> QED
      BY <1>1, <2>2, <2>7, <3>1 DEF Held
  <2>12. ASSUME NEW k \in Logins, Held(k), k # v
         PROVE  \E i \in 1 .. Len(t) : t[i] = k
    <3>1. PICK j \in 1 .. Len(s) : s[j] = k
      BY <1>1, <2>12 DEF Held
    <3>2. j # p /\ j \in Nat /\ p \in Nat
      BY <2>2, <2>12, <3>1
    <3>3. CASE j < p
      <4>1. j \in 1 .. Len(t)
        BY <1>2, <2>2, <2>6, <3>2, <3>3
      <4> QED
        BY <2>8, <3>1, <3>3, <4>1
    <3>4. CASE j > p
      <4>1. j - 1 \in 1 .. Len(t) /\ j - 1 >= p /\ (j - 1) + 1 = j
        BY <1>2, <2>2, <2>6, <3>2, <3>4
      <4>2. t[j - 1] = s[(j - 1) + 1]
        BY <2>8, <4>1
      <4> QED
        BY <3>1, <4>1, <4>2
    <3> QED
      BY <3>2, <3>3, <3>4
  <2> QED
    BY <2>4, <2>6, <2>10, <2>11, <2>12 DEF Held
<1> QED
  BY <1>3, <1>4

LEMMA FitsHeld ==
    ASSUME NEW k \in Logins, NEW y, Fits(k, y), Held(k)' => Held(k), UNCHANGED <<status, admin, reset>>,
           password'.id = password.id, faults' = 0 => faults = 0
    PROVE  Fits(k, y)'
BY DEF Fits, SuspensionDone, NoResetEnding, InReset

Registers ==
    /\ UNCHANGED <<scene, clock, reset, admin, status, password, history, resetToken, otp, attempts, guesses>>
    /\ faults' \in Nat /\ (faults' = 0 => faults = 0)
    /\ book' \in BookType
    /\ book'.tokens = book.tokens /\ book'.installed = book.installed
    /\ book'.round = book.round /\ book'.wrong = book.wrong /\ book'.late = book.late
    /\ book'.used = book.used /\ book'.fails = book.fails

LEMMA RegistryLogin ==
    ASSUME LoginInv, NEW l \in Logins, NEW x, Moves(l, x), Registers, LoginLocal(l, x),
           registry' \in Seq(Logins), Once', \A k \in Logins \ {l} : Held(k)' => Held(k), Fits(l, x)'
    PROVE  LoginInv'
<1> USE DEF Registers
<1>1. Types'
  <2>1. login' \in [Logins -> LoginType]
    BY DEF LoginInv, Types, Moves
  <2> QED
    BY <2>1 DEF LoginInv, Types
<1>2. TokensOK'
  BY TokensKept DEF LoginInv
<1>3. PasswordsOK'
  BY PasswordsKept DEF LoginInv
<1>4. OtpOK'
  BY OtpKept DEF LoginInv, LoginLocal
<1>5. LockoutOK'
  <2>1. attempts' = attempts \/ (attempts'.count \in Nat /\ attempts'.count >= attempts.count)
    OBVIOUS
  <2>2. /\ Types /\ LockoutOK /\ RoundLocal(x, book.round)
        /\ Reserving(x, book.round) => Reserving(login[l], book.round)
    BY DEF LoginInv, LoginLocal
  <2>3. book'.round = book.round /\ book'.wrong = book.wrong /\ book'.late = book.late
    OBVIOUS
  <2> QED
    BY <2>1, <2>2, <2>3, LockoutKept
<1>6. SessionsOK'
  <2>1. ASSUME NEW k \in Logins PROVE Fits(k, login[k])'
    <3>1. PICK y : y = login'[k]
      OBVIOUS
    <3>2. CASE k = l
      <4>1. y = x
        BY <3>1, <3>2 DEF Moves, LoginInv, Types
      <4> QED
        BY <3>1, <3>2, <4>1 DEF Fits
    <3>3. CASE k # l
      <4>1. y = login[k]
        BY <3>1, <3>3 DEF Moves, LoginInv, Types
      <4>2. Fits(k, y) /\ (Held(k)' => Held(k))
        BY <3>3, <4>1 DEF LoginInv, SessionsOK
      <4>3. Fits(k, y)'
        BY <4>2, FitsHeld
      <4> QED
        BY <3>1, <4>3 DEF Fits
    <3> QED
      BY <3>2, <3>3
  <2> QED
    BY <2>1 DEF SessionsOK
<1> QED
  BY <1>1, <1>2, <1>3, <1>4, <1>5, <1>6 DEF LoginInv

LEMMA LateLocal ==
    ASSUME LoginInv, NEW l \in Logins, NEW x \in LoginType,
           x.at \in {"list", "evict", "register", "relist", "trim", "flow", "recheck", "undo", "clear",
                     "audit", "done"},
           x.round = login[l].round \/ x.round = 0
    PROVE  LoginLocal(l, x)
<1>1. RoundLocal(login[l], book.round) /\ book.round \in Nat
  BY DEF LoginInv, LockoutOK, Types, BookType
<1>2. x.round <= book.round
  BY <1>1 DEF RoundLocal
<1> QED
  BY <1>2 DEF LoginLocal, OtpLocal, RoundLocal, Reserving

LEMMA OldestAreLogins ==
    ASSUME Types
    PROVE  victims_before_register \subseteq Logins /\ victims_after_register \subseteq Logins
<1>1. registry \in Seq(Logins) /\ Len(registry) \in Nat /\ MaxSessions \in Nat \ {0}
  BY LoginFlowAssumption DEF Types
<1>2. ASSUME NEW n \in 0 .. Len(registry) PROVE OldestFirst(n) \subseteq Logins
  BY <1>1, <1>2 DEF OldestFirst
<1>3. Excess(Len(registry)) \in 0 .. Len(registry) /\ Excess(Len(registry) + 1) \in Nat
  BY <1>1 DEF Excess
<1>4. (IF Excess(Len(registry) + 1) > Len(registry) THEN Len(registry) ELSE Excess(Len(registry) + 1))
          \in 0 .. Len(registry)
  BY <1>1, <1>3
<1> QED
  BY <1>2, <1>3, <1>4 DEF victims_before_register, victims_after_register

LEMMA HeldSessions ==
    ASSUME LoginInv, NEW l \in Logins, held_sessions(l), UNCHANGED <<scene, clock, reset, admin>>
    PROVE  LoginInv'
<1>1. login[l].at = "list" /\ login[l].at \notin Registered /\ login[l] \in LoginType
  BY DEF held_sessions, At, Registered, LoginInv, Types
<1>2. CASE Fault /\ Answer(l, "NoFlow")
  <2>1. Still
    BY <1>2, Faults DEF held_sessions, Still, accountVars, LoginInv, Types
  <2> QED
    BY <1>1, <1>2, <2>1, AnswerEarly DEF LoginAnswers, Verdicts
<1>3. CASE ~(Fault /\ Answer(l, "NoFlow"))
  <2>1. PICK v : v = victims_before_register
    OBVIOUS
  <2>2. PICK x : x = [login[l] EXCEPT !.at = IF v = {} THEN "register" ELSE "evict", !.victims = v]
    OBVIOUS
  <2>3. v \in SUBSET Logins
    BY <2>1, OldestAreLogins DEF LoginInv
  <2>4. x \in LoginType /\ x.at \in {"register", "evict"} /\ x.round = login[l].round
    BY <1>1, <2>2, <2>3 DEF LoginType, Places
  <2>5. Moves(l, x) /\ Still
    BY <1>3, <2>1, <2>2, <2>4 DEF held_sessions, Moves, Still, accountVars, LoginInv, Types
  <2> QED
    BY <1>1, <2>4, <2>5, LateLocal, StillLogin, Unregistered
<1> QED
  BY <1>2, <1>3

LEMMA EvictSessions ==
    ASSUME LoginInv, NEW l \in Logins, NEW v \in Logins, evict_sessions(l, v),
           UNCHANGED <<scene, clock, reset, admin>>
    PROVE  LoginInv'
<1>1. login[l].at \in {"evict", "trim"} /\ login[l] \in LoginType /\ v \in login[l].victims
  BY DEF evict_sessions, LoginInv, Types
<1>2. PICK remains : remains = login[l].victims \ {v}
  OBVIOUS
<1>3. remains \in SUBSET Logins
  BY <1>1, <1>2 DEF LoginType
<1>4. Registers
  BY Faults DEF evict_sessions, Registers, accountVars, LoginInv, Types
<1>5. /\ registry' \in Seq(Logins) /\ Once' /\ \A k \in Logins : Held(k)' => Held(k)
      /\ faults' = 0 => \A k \in Logins : Held(k)' => k # v
  <2>1. CASE registry' = Without(v)
    BY <2>1, WithoutDrops DEF LoginInv, SessionsOK
  <2>2. CASE Fault /\ UNCHANGED registry
    BY <2>2, Faults DEF LoginInv, SessionsOK, Types, Once, Held
  <2> QED
    BY <2>1, <2>2 DEF evict_sessions
<1>6. Fits(l, login[l]) /\ (faults' = 0 => faults = 0)
  BY <1>4 DEF LoginInv, SessionsOK, Registers
<1>7. PICK x : /\ Moves(l, x) /\ (x.round = login[l].round \/ x.round = 0)
               /\ \/ x.at = login[l].at /\ x.verdict = login[l].verdict /\ x.victims = remains
                  \/ x.at = "register" /\ login[l].at = "evict"
                  \/ x.at = "done" /\ login[l].at = "trim" /\ login[l].verdict = "lost" /\ remains = {}
                  \/ x.at = "flow"
  <2>1. CASE remains # {}
    <3>1. PICK x : x = [login[l] EXCEPT !.victims = remains]
      OBVIOUS
    <3>2. /\ x \in LoginType /\ x.at = login[l].at /\ x.verdict = login[l].verdict /\ x.victims = remains
          /\ x.round = login[l].round
      BY <1>1, <1>3, <3>1 DEF LoginType
    <3>3. Moves(l, x)
      BY <1>2, <2>1, <3>1, <3>2 DEF evict_sessions, Moves, LoginInv, Types
    <3> QED
      BY <3>2, <3>3
  <2>2. CASE remains = {} /\ At(l, "evict")
    <3>1. PICK x : x = [login[l] EXCEPT !.victims = {}, !.at = "register"]
      OBVIOUS
    <3>2. x \in LoginType /\ x.at = "register" /\ x.round = login[l].round /\ login[l].at = "evict"
      BY <1>1, <2>2, <3>1 DEF LoginType, Places, At
    <3>3. Moves(l, x)
      BY <1>2, <2>2, <3>1, <3>2 DEF evict_sessions, Moves, LoginInv, Types
    <3> QED
      BY <3>2, <3>3
  <2>3. CASE remains = {} /\ ~At(l, "evict") /\ login[l].verdict = "lost"
    <3>1. Answer(l, "NoFlow") /\ "NoFlow" \in LoginAnswers
      BY <1>2, <2>3 DEF evict_sessions, LoginAnswers, Verdicts
    <3>2. PICK x \in LoginType : Moves(l, x) /\ x.at = "done" /\ x.round = 0
      BY <3>1, AnswerMoves DEF LoginInv
    <3> QED
      BY <1>1, <2>3, <3>2 DEF At
  <2>4. CASE remains = {} /\ ~At(l, "evict") /\ login[l].verdict # "lost"
    <3>1. PICK x : x = [login[l] EXCEPT !.victims = {}, !.at = "flow"]
      OBVIOUS
    <3>2. x \in LoginType /\ x.at = "flow" /\ x.round = login[l].round
      BY <1>1, <3>1 DEF LoginType, Places
    <3>3. Moves(l, x)
      BY <1>2, <2>4, <3>1, <3>2 DEF evict_sessions, Moves, LoginInv, Types
    <3> QED
      BY <3>2, <3>3
  <2> QED
    BY <2>1, <2>2, <2>3, <2>4
<1>8. LoginLocal(l, x)
  BY <1>1, <1>7, LateLocal DEF Moves
<1>9. Fits(l, x)'
  <2> SUFFICES ASSUME Held(l)'
               PROVE  /\ x.at \in Registered
                      /\ x.at = "trim" /\ x.verdict = "lost" /\ faults' = 0 => l \in x.victims
                      /\ faults' = 0 => x.at \in Unchecked
    BY DEF Fits, SuspensionDone, NoResetEnding
  <2>1. Held(l) /\ (faults' = 0 => l # v)
    BY <1>5
  <2>2. login[l].at = "trim"
    BY <1>1, <1>6, <2>1 DEF Fits, Registered
  <2>3. login[l].verdict = "lost" /\ faults' = 0 => l \in remains
    BY <1>2, <1>6, <2>1, <2>2 DEF Fits
  <2> QED
    BY <1>7, <2>2, <2>3 DEF Registered, Unchecked
<1> QED
  BY <1>4, <1>5, <1>7, <1>8, <1>9, RegistryLogin

LEMMA Register ==
    ASSUME LoginInv, NEW l \in Logins, register(l), UNCHANGED <<scene, clock, reset, admin>>
    PROVE  LoginInv'
<1>1. login[l].at = "register" /\ login[l].at \notin Registered /\ login[l] \in LoginType
  BY DEF register, At, Registered, LoginInv, Types
<1>2. CASE Fault /\ Answer(l, "NoFlow") /\ UNCHANGED <<registry, book>>
  <2>1. Still
    BY <1>2, Faults DEF register, Still, accountVars, LoginInv, Types
  <2> QED
    BY <1>1, <1>2, <2>1, AnswerEarly DEF LoginAnswers, Verdicts
<1>3. CASE /\ registry' = Append(registry, l)
           /\ Go(l, "relist")
           /\ book' = [book EXCEPT !.newest = <<l>>]
           /\ UNCHANGED faults
  <2>1. PICK x \in LoginType : Moves(l, x) /\ x = [login[l] EXCEPT !.at = "relist"] /\ x.at = "relist"
    BY <1>3, GoMoves DEF LoginInv, Places
  <2>2. x.round = login[l].round
    BY <1>1, <2>1 DEF LoginType
  <2>3. <<l>> \in Seq(Logins) /\ book \in BookType
    BY DEF LoginInv, Types
  <2>4. /\ book' \in BookType /\ book'.tokens = book.tokens /\ book'.installed = book.installed
        /\ book'.round = book.round /\ book'.wrong = book.wrong /\ book'.late = book.late
        /\ book'.used = book.used /\ book'.fails = book.fails
    BY <1>3, <2>3 DEF BookType
  <2>5. Registers
    BY <1>3, <2>4 DEF register, Registers, accountVars, LoginInv, Types
  <2>6. PICK s : s = registry
    OBVIOUS
  <2>7. PICK t : t = Append(s, l)
    OBVIOUS
  <2>8. s \in Seq(Logins) /\ Len(s) \in Nat /\ t \in Seq(Logins)
    BY <2>6, <2>7 DEF LoginInv, Types
  <2>9. Len(t) = Len(s) + 1 /\ t[Len(s) + 1] = l /\ \A i \in 1 .. Len(s) : t[i] = s[i]
    BY <2>7, <2>8
  <2>10. ~Held(l) /\ Once
    BY <1>1, Unregistered DEF LoginInv, SessionsOK
  <2>11. \A i \in 1 .. Len(s) : s[i] # l
    BY <2>6, <2>10 DEF Held
  <2>12. \A i \in 1 .. Len(t) : i \in 1 .. Len(s) \/ i = Len(s) + 1
    BY <2>8, <2>9
  <2>13. registry' = t
    BY <1>3, <2>6, <2>7
  <2>14. Once'
    <3>1. \A i, j \in 1 .. Len(s) : s[i] = s[j] => i = j
      BY <2>6, <2>10 DEF Once
    <3>2. \A i, j \in 1 .. Len(t) : t[i] = t[j] => i = j
      BY <2>9, <2>11, <2>12, <3>1
    <3> QED
      BY <2>13, <3>2 DEF Once
  <2>15. \A k \in Logins \ {l} : Held(k)' => Held(k)
    BY <2>6, <2>9, <2>12, <2>13 DEF Held
  <2>16. Fits(l, x)'
    BY <2>1 DEF Fits, Registered, Unchecked
  <2>17. LoginLocal(l, x)
    BY <2>1, <2>2, LateLocal
  <2> QED
    BY <2>1, <2>5, <2>8, <2>13, <2>14, <2>15, <2>16, <2>17, RegistryLogin
<1> QED
  BY <1>2, <1>3 DEF register

(* A registered login that goes on to x without touching the registry. *)
LEMMA CheckedLogin ==
    ASSUME LoginInv, NEW l \in Logins, NEW x, Moves(l, x), Still, Fits(l, x),
           x.at \in {"trim", "flow", "recheck", "undo", "clear", "audit", "done"},
           x.round = login[l].round \/ x.round = 0
    PROVE  LoginInv'
<1>1. x \in LoginType
  BY DEF Moves
<1>2. LoginLocal(l, x)
  BY <1>1, LateLocal
<1> QED
  BY <1>2, StillLogin

(* Refused after it registered: its session is still to be dropped. *)
LEMMA Refused ==
    ASSUME LoginInv, NEW l \in Logins, NEW verdict \in Verdicts, Still,
           login' = [login EXCEPT ![l].at = "undo", ![l].verdict = verdict]
    PROVE  LoginInv'
<1>1. PICK x : x = [login[l] EXCEPT !.at = "undo", !.verdict = verdict]
  OBVIOUS
<1>2. login[l] \in LoginType
  BY DEF LoginInv, Types
<1>3. x \in LoginType /\ x.at = "undo" /\ x.round = login[l].round
  BY <1>1, <1>2 DEF LoginType, Places
<1>4. Moves(l, x)
  BY <1>1, <1>3 DEF Moves, LoginInv, Types
<1>5. Fits(l, x)
  BY <1>3 DEF Fits, Registered, Unchecked
<1> QED
  BY <1>3, <1>4, <1>5, CheckedLogin

LEMMA HeldAgain ==
    ASSUME LoginInv, NEW l \in Logins, held_sessions_again(l), UNCHANGED <<scene, clock, reset, admin>>
    PROVE  LoginInv'
<1>1. login[l].at = "relist" /\ login[l] \in LoginType /\ Still
  BY Faults DEF held_sessions_again, At, LoginInv, Types, Still, accountVars
<1>2. CASE login' = [login EXCEPT ![l].at = "undo", ![l].verdict = "NoFlow"]
  BY <1>1, <1>2, Refused DEF Verdicts
<1>3. CASE login' # [login EXCEPT ![l].at = "undo", ![l].verdict = "NoFlow"]
  <2>1. PICK v : v = victims_after_register
    OBVIOUS
  <2> DEFINE place == IF v = {} THEN "flow" ELSE "trim"
             verdict == IF l \in v THEN "lost" ELSE "kept"
  <2>2. PICK x : x = [login[l] EXCEPT !.at = place, !.victims = v, !.verdict = verdict]
    OBVIOUS
  <2>3. v \in SUBSET Logins /\ place \in {"flow", "trim"} /\ verdict \in {"lost", "kept"}
        /\ (verdict = "lost" => l \in v)
    BY <2>1, OldestAreLogins DEF LoginInv
  <2>4. /\ x \in LoginType /\ x.at \in {"flow", "trim"} /\ x.round = login[l].round
        /\ x.verdict = "lost" => l \in x.victims
    <3> HIDE DEF place, verdict
    <3>1. x \in LoginType
      BY <1>1, <2>2, <2>3 DEF LoginType, Places, Verdicts
    <3>2. x.at = place /\ x.round = login[l].round /\ x.verdict = verdict /\ x.victims = v
      BY <1>1, <2>2, <3>1 DEF LoginType
    <3> QED
      BY <2>3, <3>1, <3>2
  <2>5. Moves(l, x)
    BY <1>3, <2>1, <2>2, <2>4 DEF held_sessions_again, Moves, LoginInv, Types
  <2>6. Fits(l, x)
    BY <2>4 DEF Fits, Registered, Unchecked
  <2> QED
    BY <1>1, <2>4, <2>5, <2>6, CheckedLogin
<1> QED
  BY <1>2, <1>3

LEMMA FlowCurrent ==
    ASSUME LoginInv, NEW l \in Logins, flow_still_current(l), UNCHANGED <<scene, clock, reset, admin>>
    PROVE  LoginInv'
<1>1. login[l].at = "flow" /\ login[l] \in LoginType /\ Still
  BY Faults DEF flow_still_current, At, LoginInv, Types, Still, accountVars
<1>2. \/ password.id = login[l].stamp /\ Go(l, "recheck")
      \/ login' = [login EXCEPT ![l].at = "undo", ![l].verdict = "NoFlow"]
      \/ login' = [login EXCEPT ![l].at = "undo", ![l].verdict = "Err"]
  BY DEF flow_still_current
<1>3. CASE password.id = login[l].stamp /\ Go(l, "recheck")
  <2>1. PICK x \in LoginType : Moves(l, x) /\ x = [login[l] EXCEPT !.at = "recheck"] /\ x.at = "recheck"
    BY <1>3, GoMoves DEF LoginInv, Places
  <2>2. x.round = login[l].round /\ x.stamp = login[l].stamp
    BY <1>1, <2>1 DEF LoginType
  <2>3. Fits(l, x)
    BY <1>3, <2>1, <2>2 DEF Fits, Registered, Unchecked
  <2> QED
    BY <1>1, <2>1, <2>2, <2>3, CheckedLogin
<1> QED
  BY <1>1, <1>2, <1>3, Refused DEF Verdicts

LEMMA RecheckStatus ==
    ASSUME LoginInv, NEW l \in Logins, recheck_status_after_register(l), UNCHANGED <<scene, clock, reset, admin>>
    PROVE  LoginInv'
<1>1. login[l].at = "recheck" /\ login[l] \in LoginType /\ Still
  BY Faults DEF recheck_status_after_register, At, LoginInv, Types, Still, accountVars
<1>2. \/ status = "active" /\ Go(l, "clear")
      \/ login' = [login EXCEPT ![l].at = "undo", ![l].verdict = "Locked"]
      \/ login' = [login EXCEPT ![l].at = "undo", ![l].verdict = "Err"]
  BY DEF recheck_status_after_register, allows_login
<1>3. CASE status = "active" /\ Go(l, "clear")
  <2>1. PICK x \in LoginType : Moves(l, x) /\ x = [login[l] EXCEPT !.at = "clear"] /\ x.at = "clear"
    BY <1>3, GoMoves DEF LoginInv, Places
  <2>2. x.round = login[l].round /\ x.stamp = login[l].stamp
    BY <1>1, <2>1 DEF LoginType
  <2>3. Fits(l, login[l])
    BY DEF LoginInv, SessionsOK
  <2>4. Fits(l, x)
    BY <1>1, <1>3, <2>1, <2>2, <2>3 DEF Fits, Registered, Unchecked, SuspensionDone
  <2> QED
    BY <1>1, <2>1, <2>2, <2>4, CheckedLogin
<1> QED
  BY <1>1, <1>2, <1>3, Refused DEF Verdicts

LEMMA UndoRegister ==
    ASSUME LoginInv, NEW l \in Logins, undo_register(l), UNCHANGED <<scene, clock, reset, admin>>
    PROVE  LoginInv'
<1>1. login[l].at = "undo" /\ login[l] \in LoginType /\ Registers
  BY Faults DEF undo_register, At, LoginInv, Types, Registers, accountVars
<1>2. login[l].verdict \in LoginAnswers /\ Answer(l, login[l].verdict)
  BY <1>1 DEF undo_register, LoginType, LoginAnswers
<1>3. PICK x \in LoginType : Moves(l, x) /\ x.at = "done" /\ x.round = 0
  BY <1>2, AnswerMoves DEF LoginInv
<1>4. /\ registry' \in Seq(Logins) /\ Once' /\ \A k \in Logins : Held(k)' => Held(k)
      /\ Held(l)' => faults' # 0
  <2>1. CASE registry' = Without(l)
    BY <2>1, WithoutDrops DEF LoginInv, SessionsOK
  <2>2. CASE Fault /\ UNCHANGED registry
    BY <2>2, Faults DEF LoginInv, SessionsOK, Types, Once, Held
  <2> QED
    BY <2>1, <2>2 DEF undo_register
<1>5. Fits(l, x)'
  BY <1>3, <1>4 DEF Fits, Registered, SuspensionDone, NoResetEnding
<1> QED
  BY <1>1, <1>3, <1>4, <1>5, LateLocal, RegistryLogin

LEMMA ResetFailedAttempts ==
    ASSUME LoginInv, NEW l \in Logins, reset_failed_attempts(l), UNCHANGED <<scene, clock, reset, admin>>
    PROVE  LoginInv'
<1>1. login[l].at = "clear" /\ login[l] \in LoginType
  BY DEF reset_failed_attempts, At, LoginInv, Types
<1>2. PICK x \in LoginType : Moves(l, x) /\ x = [login[l] EXCEPT !.at = "audit"] /\ x.at = "audit"
  BY GoMoves DEF reset_failed_attempts, LoginInv, Places
<1>3. x.round = login[l].round /\ x.stamp = login[l].stamp
  BY <1>1, <1>2 DEF LoginType
<1>4. Fits(l, login[l]) /\ RoundLocal(login[l], book.round) /\ book.round \in Nat /\ login[l].round \in Nat
  BY <1>1 DEF LoginInv, SessionsOK, LockoutOK, Types, BookType, LoginType
<1>5. Fits(l, x)
  BY <1>1, <1>2, <1>3, <1>4 DEF Fits, Registered, Unchecked
<1>6. CASE Fault /\ UNCHANGED <<attempts, book>>
  <2>1. Still
    BY <1>6, Faults DEF reset_failed_attempts, Still, accountVars, LoginInv, Types
  <2> QED
    BY <1>2, <1>3, <1>5, <2>1, CheckedLogin
<1>7. CASE attempts' = [count |-> 0, last |-> 0] /\ NewRound /\ UNCHANGED faults
  <2>1. Types /\ LockoutOK /\ attempts' \in [count : Nat, last : {0, 1}] /\ attempts'.count \in Nat
    BY <1>7 DEF LoginInv
  <2>2. Metered
    BY <1>7, <2>1, NewRoundBook DEF reset_failed_attempts, Metered, accountVars, LoginInv, Types
  <2>3. RoundLocal(x, book'.round) /\ ~Reserving(x, book'.round)
    BY <1>2, <1>3, <1>4, <1>7, <2>1, NewRoundBook DEF RoundLocal, Reserving
  <2>4. LockoutOK'
    BY <1>2, <1>7, <2>1, <2>3, LockoutStartsOver
  <2>5. OtpLocal(x, otp)
    BY <1>2 DEF OtpLocal
  <2> QED
    BY <1>2, <1>5, <2>2, <2>4, <2>5, MeteredLogin
<1> QED
  BY <1>6, <1>7 DEF reset_failed_attempts

LEMMA EmitAudit ==
    ASSUME LoginInv, NEW l \in Logins, emit_audit(l), UNCHANGED <<scene, clock, reset, admin>>
    PROVE  LoginInv'
<1>1. login[l].at = "audit" /\ login[l] \in LoginType /\ Still
  BY Faults DEF emit_audit, At, LoginInv, Types, Still, accountVars
<1>2. CASE Answer(l, "Authenticated")
  <2>1. PICK x \in LoginType : Moves(l, x) /\ x.at = "done" /\ x.round = 0 /\ x.stamp = login[l].stamp
    BY <1>2, AnswerMoves DEF LoginInv, LoginAnswers
  <2>2. Fits(l, login[l])
    BY DEF LoginInv, SessionsOK
  <2>3. Fits(l, x)
    BY <1>1, <2>1, <2>2 DEF Fits, Registered, Unchecked
  <2> QED
    BY <1>1, <2>1, <2>3, CheckedLogin
<1>3. CASE login' = [login EXCEPT ![l].at = "undo", ![l].verdict = "Err"]
  BY <1>1, <1>3, Refused DEF Verdicts
<1> QED
  BY <1>2, <1>3 DEF emit_audit

LEMMA LoginSteps ==
    ASSUME LoginInv, NEW l \in Logins, LoginStep(l), UNCHANGED <<scene, clock, reset, admin>>
    PROVE  LoginInv'
BY BeginLogin, StampFlow, RequireCurrent, EnforceStatus, ResolveFactor, ReserveGuess, VerifyCredential,
   PersistFailLoad, PersistFailSwap, PersistFailReload, PersistPass, RecordFailure, ReleaseGuess, Rehash,
   HeldSessions, EvictSessions, Register, HeldAgain, FlowCurrent, RecheckStatus, UndoRegister,
   ResetFailedAttempts, EmitAudit DEF LoginStep

-----------------------------------------------------------------------------
(* Steps of a reset r, which becomes q. *)
Turns(r, q) == q \in ResetType /\ reset' = [reset EXCEPT ![r] = q]

LEMMA GoTurns ==
    ASSUME Types, NEW r \in Resets,
           NEW place \in {"replaced", "spend", "record_replaced", "record", "install", "sessions", "counter"},
           GoReset(r, place)
    PROVE  \E q \in ResetType : /\ Turns(r, q) /\ q.at = place
                                /\ q.token = reset[r].token /\ q.replaced = reset[r].replaced
                                /\ q.answer = reset[r].answer
<1>1. PICK q : q = [reset[r] EXCEPT !.at = place]
  OBVIOUS
<1>2. reset[r] \in ResetType
  BY DEF Types
<1>3. q \in ResetType
  BY <1>1, <1>2 DEF ResetType
<1>4. /\ q.at = place /\ q.token = reset[r].token /\ q.replaced = reset[r].replaced
      /\ q.answer = reset[r].answer
  BY <1>1, <1>2 DEF ResetType
<1>5. reset' = [reset EXCEPT ![r] = q]
  BY <1>1 DEF GoReset, Types
<1> QED
  BY <1>3, <1>4, <1>5 DEF Turns

LEMMA RefuseTurns ==
    ASSUME Types, NEW r \in Resets, NEW answer \in {"refused", "error"}, Refuse(r, answer)
    PROVE  \E q \in ResetType : Turns(r, q) /\ q.at = "done" /\ q.answer = answer
<1>1. PICK q : q = [NewReset EXCEPT !.at = "done", !.answer = answer]
  OBVIOUS
<1>2. q \in ResetType /\ q.at = "done" /\ q.answer = answer
  BY <1>1 DEF ResetType, NewReset
<1>3. reset' = [reset EXCEPT ![r] = q]
  BY <1>1 DEF Refuse, Types
<1> QED
  BY <1>2, <1>3 DEF Turns

LEMMA TokensTurned ==
    ASSUME Types, TokensOK, NEW r \in Resets, NEW q, Turns(r, q), book'.tokens = book.tokens,
           resetToken'.id = 0 \/ resetToken' = resetToken,
           TokenFits(q, resetToken'.id, book.tokens),
           Committed(q) => \A p \in Resets \ {r} : Committed(reset[p]) => reset[p].token # q.token
    PROVE  TokensOK'
<1>1. resetToken'.id <= book'.tokens
  BY DEF TokensOK, Types, BookType
<1>2. \A p \in Resets : reset'[p] = IF p = r THEN q ELSE reset[p]
  BY DEF Turns, Types
<1>3. \A p \in Resets : TokenFits(reset'[p], resetToken'.id, book'.tokens)
  <2> SUFFICES ASSUME NEW p \in Resets PROVE TokenFits(reset'[p], resetToken'.id, book.tokens)
    OBVIOUS
  <2>1. CASE p = r
    BY <1>2, <2>1
  <2>2. CASE p # r
    <3>1. reset'[p] = reset[p] /\ TokenFits(reset[p], resetToken.id, book.tokens)
      BY <1>2, <2>2 DEF TokensOK
    <3> QED
      BY <3>1 DEF TokenFits
  <2> QED
    BY <2>1, <2>2
<1>4. \A p, o \in Resets : Committed(reset[p]) /\ Committed(reset[o]) /\ reset[p].token = reset[o].token => p = o
  BY DEF TokensOK, TokenSpentOnce, Committed
<1>5. \A p, o \in Resets : Committed(reset'[p]) /\ Committed(reset'[o]) /\ reset'[p].token = reset'[o].token => p = o
  BY <1>2, <1>4
<1>6. TokenSpentOnce'
  BY <1>5 DEF TokenSpentOnce, Committed
<1> QED
  BY <1>1, <1>3, <1>6 DEF TokensOK

(* A reset that does not commit in this step. *)
LEMMA TokensGoOn ==
    ASSUME Types, TokensOK, NEW r \in Resets, NEW q, Turns(r, q), book'.tokens = book.tokens,
           resetToken' = resetToken,
           q.at \in {"peek", "replaced", "readmit", "spend"} => q.token \in 1 .. book.tokens,
           Committed(q) => Committed(reset[r]) /\ q.token = reset[r].token
    PROVE  TokensOK'
<1>1. TokenFits(reset[r], resetToken.id, book.tokens)
  BY DEF TokensOK
<1>2. TokenFits(q, resetToken'.id, book.tokens)
  BY <1>1 DEF TokenFits
<1>3. Committed(q) => \A p \in Resets \ {r} : Committed(reset[p]) => reset[p].token # q.token
  BY DEF TokensOK, TokenSpentOnce, Committed
<1> QED
  BY <1>2, <1>3, TokensTurned

LEMMA PasswordsTurned ==
    ASSUME Types, PasswordsOK, NEW r \in Resets, NEW q, Turns(r, q), status' = status,
           LastInstalledInForce', \A p : OnRecord(p) => OnRecord(p)', InForceOnRecord',
           HistoryFits(r, q)', ResetFits(q)
    PROVE  PasswordsOK'
<1>1. \A p \in Resets : reset'[p] = IF p = r THEN q ELSE reset[p]
  BY DEF Turns, Types
<1>2. ASSUME NEW p \in Resets PROVE HistoryFits(p, reset[p])' /\ ResetFits(reset[p])'
  <2>1. CASE p = r
    <3>1. reset'[p] = q
      BY <1>1, <2>1
    <3> QED
      BY <2>1, <3>1 DEF HistoryFits, ResetFits, HandsOver
  <2>2. CASE p # r
    <3>1. reset'[p] = reset[p] /\ HistoryFits(p, reset[p]) /\ ResetFits(reset[p])
      BY <1>1, <2>2 DEF PasswordsOK, HistoryOK
    <3> QED
      BY <3>1 DEF HistoryFits, ResetFits, HandsOver
  <2> QED
    BY <2>1, <2>2
<1> QED
  BY <1>2 DEF PasswordsOK, HistoryOK

(* The same while neither the password nor the history changes. *)
LEMMA PasswordsGoOn ==
    ASSUME Types, PasswordsOK, NEW r \in Resets, NEW q, Turns(r, q),
           UNCHANGED <<status, history, password>>, book'.installed = book.installed,
           HistoryFits(r, q), ResetFits(q)
    PROVE  PasswordsOK'
<1>1. LastInstalledInForce' /\ InForceOnRecord'
  BY DEF PasswordsOK, LastInstalledInForce, HistoryOK, InForceOnRecord, OnRecord
<1>2. \A p : OnRecord(p) => OnRecord(p)'
  BY DEF OnRecord
<1>3. HistoryFits(r, q)'
  BY DEF HistoryFits, OnRecord
<1> QED
  BY <1>1, <1>2, <1>3, PasswordsTurned

LEMMA OtpSame ==
    ASSUME OtpOK, UNCHANGED <<otp, login, scene>>, book'.used = book.used, book'.fails = book.fails
    PROVE  OtpOK'
BY DEF OtpOK, OtpLocal, CodeUsedOnce

LEMMA LockoutSame ==
    ASSUME LockoutOK, UNCHANGED <<attempts, login>>, book'.round = book.round, book'.wrong = book.wrong,
           book'.late = book.late
    PROVE  LockoutOK'
<1>1. Outstanding' = Outstanding
  BY DEF Outstanding
<1> QED
  BY <1>1 DEF LockoutOK

LEMMA SessionsSame ==
    ASSUME SessionsOK, UNCHANGED <<login, registry, status>>, faults' = 0 => faults = 0,
           SuspensionDone' => SuspensionDone,
           NoResetEnding' => NoResetEnding /\ password'.id = password.id
    PROVE  SessionsOK'
BY DEF SessionsOK, Once, Fits, Held

LEMMA SessionsEnded ==
    ASSUME registry' = <<>>
    PROVE  SessionsOK'
BY DEF SessionsOK, Once, Fits, Held

(* A reset that goes on or is refused, before it installs its password. *)
LEMMA QuietReset ==
    ASSUME LoginInv, NEW r \in Resets, NEW q, Turns(r, q),
           UNCHANGED <<scene, clock, admin, accountVars, sessionVars, registry, book>>,
           faults' \in Nat, faults' = 0 => faults = 0, reset[r].at # "sessions",
           q.at \in {"peek", "replaced", "readmit", "spend"} => q.token \in 1 .. book.tokens,
           Committed(q) => Committed(reset[r]) /\ q.token = reset[r].token,
           HistoryFits(r, q), ResetFits(q)
    PROVE  LoginInv'
<1> USE DEF accountVars, sessionVars
<1>1. Types'
  <2>1. reset' \in [Resets -> ResetType]
    BY DEF LoginInv, Types, Turns
  <2> QED
    BY <2>1 DEF LoginInv, Types
<1>2. TokensOK'
  BY TokensGoOn DEF LoginInv
<1>3. PasswordsOK'
  BY PasswordsGoOn DEF LoginInv
<1>4. OtpOK' /\ LockoutOK'
  BY OtpSame, LockoutSame DEF LoginInv
<1>5. SessionsOK'
  <2>1. SuspensionDone' => SuspensionDone
    BY DEF SuspensionDone
  <2>2. \A p \in Resets : reset'[p].at # "sessions" => reset[p].at # "sessions"
    BY DEF Turns, LoginInv, Types
  <2>3. NoResetEnding' => NoResetEnding /\ password'.id = password.id
    BY <2>2 DEF NoResetEnding, InReset
  <2> QED
    BY <2>1, <2>3, SessionsSame DEF LoginInv
<1> QED
  BY <1>1, <1>2, <1>3, <1>4, <1>5 DEF LoginInv

LEMMA RefusedReset ==
    ASSUME LoginInv, NEW r \in Resets, NEW answer \in {"refused", "error"}, Refuse(r, answer),
           UNCHANGED <<scene, clock, admin, accountVars, sessionVars, registry, book>>,
           faults' \in Nat, faults' = 0 => faults = 0, reset[r].at # "sessions"
    PROVE  LoginInv'
<1>1. PICK q \in ResetType : Turns(r, q) /\ q.at = "done" /\ q.answer = answer
  BY RefuseTurns DEF LoginInv
<1>2. ~Committed(q) /\ HistoryFits(r, q) /\ ResetFits(q)
  BY <1>1 DEF Committed, HistoryFits, ResetFits
<1> QED
  BY <1>1, <1>2, QuietReset

LEMMA ResetFacts ==
    ASSUME LoginInv, NEW r \in Resets
    PROVE  /\ reset[r] \in ResetType /\ TokenFits(reset[r], resetToken.id, book.tokens)
           /\ HistoryFits(r, reset[r]) /\ ResetFits(reset[r]) /\ faults \in Nat
BY DEF LoginInv, Types, TokensOK, PasswordsOK, HistoryOK

LEMMA ResetAdmitted ==
    ASSUME LoginInv, NEW r \in Resets, NEW t, reset_refusal_reason(r, t), UNCHANGED <<scene, clock, admin>>
    PROVE  LoginInv'
<1>1. reset[r].at = "idle" /\ t \in 1 .. book.tokens /\ book.tokens \in Nat
  BY DEF reset_refusal_reason, InReset, LoginInv, Types, BookType
<1>2. /\ UNCHANGED <<scene, clock, admin, accountVars, sessionVars, registry, book>>
      /\ faults' = faults
  BY DEF reset_refusal_reason
<1>3. CASE allows_login
  <2>1. PICK q : q = [reset[r] EXCEPT !.at = "peek", !.token = t]
    OBVIOUS
  <2>2. t \in Nat
    BY <1>1
  <2>3. q \in ResetType /\ q.at = "peek" /\ q.token = t /\ q.answer = reset[r].answer
    BY <2>1, <2>2, ResetFacts DEF ResetType
  <2>4. Turns(r, q)
    BY <1>3, <2>1, <2>3 DEF reset_refusal_reason, Turns, LoginInv, Types
  <2>5. ~Committed(q) /\ HistoryFits(r, q) /\ ResetFits(q)
    BY <1>1, <2>3, ResetFacts DEF Committed, HistoryFits, ResetFits
  <2> QED
    BY <1>1, <1>2, <2>3, <2>4, <2>5, QuietReset, ResetFacts
<1>4. CASE ~allows_login
  BY <1>1, <1>2, <1>4, RefusedReset, ResetFacts DEF reset_refusal_reason
<1> QED
  BY <1>3, <1>4

LEMMA ResetPeeks ==
    ASSUME LoginInv, NEW r \in Resets, peek_reset_token(r), UNCHANGED <<scene, clock, admin>>
    PROVE  LoginInv'
<1>1. reset[r].at = "peek"
  BY DEF peek_reset_token, InReset
<1>2. /\ UNCHANGED <<scene, clock, admin, accountVars, sessionVars, registry, book>>
      /\ faults' = faults
  BY DEF peek_reset_token
<1>3. CASE GoReset(r, "replaced")
  <2>1. PICK q \in ResetType : /\ Turns(r, q) /\ q.at = "replaced"
                               /\ q.token = reset[r].token /\ q.answer = reset[r].answer
    BY <1>3, GoTurns DEF LoginInv
  <2>2. ~Committed(q) /\ HistoryFits(r, q) /\ ResetFits(q) /\ q.token \in 1 .. book.tokens
    BY <1>1, <2>1, ResetFacts DEF Committed, HistoryFits, ResetFits, TokenFits
  <2> QED
    BY <1>1, <1>2, <2>1, <2>2, QuietReset, ResetFacts
<1>4. CASE Refuse(r, "refused")
  BY <1>1, <1>2, <1>4, RefusedReset, ResetFacts
<1> QED
  BY <1>3, <1>4 DEF peek_reset_token

LEMMA ResetReadmits ==
    ASSUME LoginInv, NEW r \in Resets, readmit(r), UNCHANGED <<scene, clock, admin>>
    PROVE  LoginInv'
<1>1. reset[r].at = "readmit"
  BY DEF readmit, InReset
<1>2. /\ UNCHANGED <<scene, clock, admin, accountVars, sessionVars, registry, book>>
      /\ faults' = faults
  BY DEF readmit
<1>3. CASE GoReset(r, "spend")
  <2>1. PICK q \in ResetType : /\ Turns(r, q) /\ q.at = "spend" /\ q.replaced = reset[r].replaced
                               /\ q.token = reset[r].token /\ q.answer = reset[r].answer
    BY <1>3, GoTurns DEF LoginInv
  <2>2. ~Committed(q) /\ ResetFits(q) /\ q.token \in 1 .. book.tokens
    BY <1>1, <2>1, ResetFacts DEF Committed, ResetFits, TokenFits
  <2>3. HistoryFits(r, q)
    BY <1>1, <2>1, ResetFacts DEF HistoryFits, HandsOver, ResetFits
  <2> QED
    BY <1>1, <1>2, <2>1, <2>2, <2>3, QuietReset, ResetFacts
<1>4. CASE Refuse(r, "refused")
  BY <1>1, <1>2, <1>4, RefusedReset, ResetFacts
<1> QED
  BY <1>3, <1>4 DEF readmit

(* What is to be replaced is the first password, on record or in hand, or  *)
(* one that a reset installed.                                             *)
LEMMA ResetReads ==
    ASSUME LoginInv, NEW r \in Resets, replaced_hash_to_record(r), UNCHANGED <<scene, clock, admin>>
    PROVE  LoginInv'
<1>1. reset[r].at = "replaced"
  BY DEF replaced_hash_to_record, InReset
<1>2. /\ UNCHANGED <<scene, clock, admin, accountVars, sessionVars, registry, book>>
      /\ faults' = faults
  BY DEF replaced_hash_to_record
<1>3. PICK hashes : hashes = (IF status = "gone" THEN <<>>
                              ELSE IF history # <<>> /\ history[Len(history)] = password THEN <<>>
                              ELSE <<password>>)
  OBVIOUS
<1>4. password \in Passwords /\ history \in Seq(Passwords)
  BY DEF LoginInv, Types
<1>5. hashes \in {<<>>} \cup {<<p>> : p \in Passwords}
  BY <1>3, <1>4
<1>6. PICK q : q = [reset[r] EXCEPT !.at = "readmit", !.replaced = hashes]
  OBVIOUS
<1>7. q \in ResetType
  BY <1>5, <1>6, ResetFacts DEF ResetType
<1>8. q.at = "readmit" /\ q.replaced = hashes /\ q.token = reset[r].token /\ q.answer = reset[r].answer
  BY <1>6, ResetFacts DEF ResetType
<1>9. Turns(r, q)
  BY <1>3, <1>6, <1>7 DEF replaced_hash_to_record, Turns, LoginInv, Types
<1>10. ~Committed(q) /\ ResetFits(q) /\ q.token \in 1 .. book.tokens
  BY <1>1, <1>8, ResetFacts DEF Committed, ResetFits, TokenFits
<1>11. HistoryFits(r, q)
  <2> SUFFICES ASSUME status # "gone" PROVE HandsOver(q) \/ OnRecord(0)
    BY <1>1, <1>8, ResetFacts DEF HistoryFits, ResetFits
  <2>1. password.id = book.installed /\ (book.installed # 0 => OnRecord(0))
    BY DEF LoginInv, PasswordsOK, LastInstalledInForce, HistoryOK, InForceOnRecord
  <2>2. CASE book.installed # 0
    BY <2>1, <2>2
  <2>3. CASE book.installed = 0 /\ hashes = <<password>>
    <3>1. q.replaced # <<>> /\ q.replaced[1] = password
      BY <1>8, <2>3
    <3> QED
      BY <1>8, <2>1, <2>3, <3>1 DEF HandsOver
  <2>4. CASE book.installed = 0 /\ history # <<>> /\ history[Len(history)] = password
    <3>1. Len(history) \in 1 .. Len(history)
      BY <1>4, <2>4
    <3> QED
      BY <2>1, <2>4, <3>1 DEF OnRecord
  <2> QED
    BY <1>3, <2>2, <2>3, <2>4
<1> QED
  BY <1>1, <1>2, <1>8, <1>9, <1>10, <1>11, QuietReset, ResetFacts

(* The token is compared and deleted at once, so the reset that spends it  *)
(* is the only one that commits with it.                                   *)
LEMMA ResetSpends ==
    ASSUME LoginInv, NEW r \in Resets, spend_reset_token(r), UNCHANGED <<scene, clock, admin>>
    PROVE  LoginInv'
<1>1. reset[r].at = "spend"
  BY DEF spend_reset_token, InReset
<1>2. UNCHANGED <<scene, clock, admin, status, password, history, sessionVars, registry, faults, book>>
  BY DEF spend_reset_token
<1>3. CASE token_valid(reset[r].token)
  <2>1. PICK place : place = IF reset[r].replaced = <<>> THEN "record" ELSE "record_replaced"
    OBVIOUS
  <2>2. GoReset(r, place) /\ resetToken' = NoToken /\ place \in {"record", "record_replaced"}
    BY <1>3, <2>1 DEF spend_reset_token
  <2>3. PICK q \in ResetType : /\ Turns(r, q) /\ q.at = place /\ q.replaced = reset[r].replaced
                               /\ q.token = reset[r].token /\ q.answer = reset[r].answer
    BY <2>2, GoTurns DEF LoginInv
  <2>4. reset[r].token = resetToken.id /\ reset[r].token \in 1 .. book.tokens /\ book.tokens \in Nat
    BY <1>1, <1>3, ResetFacts DEF token_valid, TokenFits, LoginInv, Types, BookType
  <2>5. resetToken'.id = 0 /\ resetToken' \in [id : Nat, at : {0, 1}]
    BY <2>2 DEF NoToken
  <2>6. Types'
    <3>1. reset' \in [Resets -> ResetType]
      BY <2>3 DEF LoginInv, Types, Turns
    <3> QED
      BY <1>2, <2>5, <3>1 DEF LoginInv, Types, sessionVars
  <2>7. TokensOK'
    <3>1. TokenFits(q, resetToken'.id, book.tokens)
      BY <2>2, <2>3, <2>4, <2>5 DEF TokenFits
    <3>2. \A p \in Resets : Committed(reset[p]) => reset[p].token # q.token
      BY <2>3, <2>4 DEF LoginInv, TokensOK, TokenFits
    <3>3. Types /\ TokensOK /\ book'.tokens = book.tokens
      BY <1>2 DEF LoginInv
    <3> QED
      BY <2>3, <2>5, <3>1, <3>2, <3>3, TokensTurned
  <2>8. PasswordsOK'
    <3>1. ResetFits(q)
      BY <1>1, <2>1, <2>3, ResetFacts DEF ResetFits
    <3>2. HistoryFits(r, q)
      BY <1>1, <2>1, <2>2, <2>3, ResetFacts DEF HistoryFits, HandsOver, ResetFits
    <3> QED
      BY <1>2, <2>3, <3>1, <3>2, PasswordsGoOn DEF LoginInv
  <2>9. OtpOK' /\ LockoutOK'
    BY <1>2, OtpSame, LockoutSame DEF LoginInv, sessionVars
  <2>10. SessionsOK'
    <3>1. \A p \in Resets : reset'[p].at # "sessions" => reset[p].at # "sessions"
      BY <1>1, <2>2, <2>3 DEF Turns, LoginInv, Types
    <3>2. (SuspensionDone' => SuspensionDone) /\ (NoResetEnding' => NoResetEnding)
      BY <1>2, <3>1 DEF SuspensionDone, NoResetEnding, InReset
    <3> QED
      BY <1>2, <3>2, SessionsSame DEF LoginInv, sessionVars
  <2> QED
    BY <2>6, <2>7, <2>8, <2>9, <2>10 DEF LoginInv
<1>4. CASE ~token_valid(reset[r].token)
  BY <1>1, <1>2, <1>4, RefusedReset, ResetFacts DEF spend_reset_token, accountVars
<1> QED
  BY <1>3, <1>4

LEMMA RecordedHash ==
    ASSUME Types, NEW hash \in Passwords, history' = Recorded(hash)
    PROVE  /\ history' \in Seq(Passwords)
           /\ \A p : OnRecord(p) => OnRecord(p)'
           /\ OnRecord(hash.id)'
<1>1. PICK h : h = history
  OBVIOUS
<1>2. h \in Seq(Passwords) /\ Len(h) \in Nat
  BY <1>1 DEF Types
<1>3. CASE \E i \in 1 .. Len(h) : h[i] = hash
  <2>1. history' = h
    BY <1>1, <1>3 DEF Recorded
  <2> QED
    BY <1>1, <1>2, <1>3, <2>1 DEF OnRecord
<1>4. CASE ~\E i \in 1 .. Len(h) : h[i] = hash
  <2>1. PICK t : t = Append(h, hash)
    OBVIOUS
  <2>2. history' = t /\ t \in Seq(Passwords)
    BY <1>1, <1>2, <1>4, <2>1 DEF Recorded
  <2>3. Len(t) = Len(h) + 1 /\ t[Len(h) + 1] = hash /\ \A i \in 1 .. Len(h) : t[i] = h[i] /\ i \in 1 .. Len(t)
    BY <1>2, <2>1
  <2>4. Len(h) + 1 \in 1 .. Len(t)
    BY <1>2, <2>3
  <2>5. \A p : OnRecord(p) => OnRecord(p)'
    BY <1>1, <2>2, <2>3 DEF OnRecord
  <2>6. OnRecord(hash.id)'
    BY <2>2, <2>3, <2>4 DEF OnRecord
  <2> QED
    BY <2>2, <2>5, <2>6
<1> QED
  BY <1>3, <1>4

LEMMA HistoryWritten ==
    ASSUME LoginInv, NEW r \in Resets, NEW q, Turns(r, q), NEW hash \in Passwords, history' = Recorded(hash),
           UNCHANGED <<scene, clock, admin, status, password, resetToken, sessionVars, registry, faults, book>>,
           reset[r].at \in {"record_replaced", "record"}, q.at \in {"record", "install"},
           q.token = reset[r].token, q.answer = reset[r].answer,
           HistoryFits(r, q)', ResetFits(q)
    PROVE  LoginInv'
<1>1. Types'
  <2>1. reset' \in [Resets -> ResetType]
    BY DEF LoginInv, Types, Turns
  <2>2. history' \in Seq(Passwords)
    BY RecordedHash DEF LoginInv
  <2> QED
    BY <2>1, <2>2 DEF LoginInv, Types, sessionVars
<1>2. TokensOK'
  BY TokensGoOn DEF LoginInv, Committed
<1>3. PasswordsOK'
  <2>1. \A p : OnRecord(p) => OnRecord(p)'
    BY RecordedHash DEF LoginInv
  <2>2. LastInstalledInForce' /\ InForceOnRecord'
    BY <2>1 DEF LoginInv, PasswordsOK, LastInstalledInForce, HistoryOK, InForceOnRecord
  <2> QED
    BY <2>1, <2>2, PasswordsTurned DEF LoginInv
<1>4. OtpOK' /\ LockoutOK'
  BY OtpSame, LockoutSame DEF LoginInv, sessionVars
<1>5. SessionsOK'
  <2>1. \A p \in Resets : reset'[p].at # "sessions" => reset[p].at # "sessions"
    BY DEF Turns, LoginInv, Types
  <2>2. (SuspensionDone' => SuspensionDone) /\ (NoResetEnding' => NoResetEnding)
    BY <2>1 DEF SuspensionDone, NoResetEnding, InReset
  <2> QED
    BY <2>2, SessionsSame DEF LoginInv, sessionVars
<1> QED
  BY <1>1, <1>2, <1>3, <1>4, <1>5 DEF LoginInv

LEMMA ResetRecordsReplaced ==
    ASSUME LoginInv, NEW r \in Resets, record_replaced(r), UNCHANGED <<scene, clock, admin>>
    PROVE  LoginInv'
<1>1. reset[r].at = "record_replaced"
  BY DEF record_replaced, InReset
<1>2. UNCHANGED <<scene, clock, admin, status, password, resetToken, sessionVars, registry, book>>
  BY DEF record_replaced
<1>3. CASE history' = Recorded(reset[r].replaced[1]) /\ GoReset(r, "record") /\ UNCHANGED faults
  <2>1. PICK q \in ResetType : /\ Turns(r, q) /\ q.at = "record" /\ q.replaced = reset[r].replaced
                               /\ q.token = reset[r].token /\ q.answer = reset[r].answer
    BY <1>3, GoTurns DEF LoginInv
  <2>2. PICK hash \in Passwords : reset[r].replaced = <<hash>>
    BY <1>1, ResetFacts DEF ResetType, ResetFits
  <2>3. reset[r].replaced[1] = hash /\ reset[r].answer # "reset"
    BY <1>1, <2>2, ResetFacts DEF ResetFits
  <2>4. (\A p : OnRecord(p) => OnRecord(p)') /\ OnRecord(hash.id)'
    BY <1>3, <2>3, RecordedHash DEF LoginInv
  <2>5. status # "gone" => OnRecord(0)'
    BY <1>1, <2>3, <2>4, ResetFacts DEF HistoryFits, HandsOver
  <2>6. HistoryFits(r, q)' /\ ResetFits(q)
    BY <1>2, <2>1, <2>3, <2>5 DEF HistoryFits, ResetFits
  <2> QED
    BY <1>1, <1>2, <1>3, <2>1, <2>3, <2>6, HistoryWritten
<1>4. CASE Fault /\ Refuse(r, "error") /\ UNCHANGED history
  BY <1>1, <1>2, <1>4, Faults, RefusedReset DEF accountVars
<1> QED
  BY <1>3, <1>4 DEF record_replaced

LEMMA ResetRecords ==
    ASSUME LoginInv, NEW r \in Resets, record_password_hash(r), UNCHANGED <<scene, clock, admin>>
    PROVE  LoginInv'
<1>1. reset[r].at = "record"
  BY DEF record_password_hash, InReset
<1>2. UNCHANGED <<scene, clock, admin, status, password, resetToken, sessionVars, registry, book>>
  BY DEF record_password_hash
<1>3. CASE history' = Recorded([id |-> r, outdated |-> FALSE]) /\ GoReset(r, "install") /\ UNCHANGED faults
  <2>1. PICK q \in ResetType : /\ Turns(r, q) /\ q.at = "install" /\ q.replaced = reset[r].replaced
                               /\ q.token = reset[r].token /\ q.answer = reset[r].answer
    BY <1>3, GoTurns DEF LoginInv
  <2>2. PICK hash : hash = [id |-> r, outdated |-> FALSE]
    OBVIOUS
  <2>3. hash \in Passwords /\ hash.id = r
    BY <2>2 DEF Passwords
  <2>4. (\A p : OnRecord(p) => OnRecord(p)') /\ OnRecord(r)'
    BY <1>3, <2>2, <2>3, RecordedHash DEF LoginInv
  <2>5. status # "gone" => OnRecord(0)'
    BY <1>1, <2>4, ResetFacts DEF HistoryFits, HandsOver
  <2>6. HistoryFits(r, q)' /\ ResetFits(q)
    BY <1>1, <1>2, <2>1, <2>4, <2>5, ResetFacts DEF HistoryFits, ResetFits
  <2> QED
    BY <1>1, <1>2, <1>3, <2>1, <2>2, <2>3, <2>6, HistoryWritten
<1>4. CASE Fault /\ Refuse(r, "error") /\ UNCHANGED history
  BY <1>1, <1>2, <1>4, Faults, RefusedReset DEF accountVars
<1> QED
  BY <1>3, <1>4 DEF record_password_hash

LEMMA ResetInstalls ==
    ASSUME LoginInv, NEW r \in Resets, save_factor(r), UNCHANGED <<scene, clock, admin>>
    PROVE  LoginInv'
<1>1. reset[r].at = "install"
  BY DEF save_factor, InReset
<1>2. UNCHANGED <<scene, clock, admin, status, history, resetToken, sessionVars, registry>>
  BY DEF save_factor
<1>3. CASE /\ status # "gone"
           /\ password' = [id |-> r, outdated |-> FALSE]
           /\ book' = [book EXCEPT !.installed = r]
           /\ GoReset(r, "sessions")
           /\ UNCHANGED faults
  <2>1. PICK q \in ResetType : /\ Turns(r, q) /\ q.at = "sessions"
                               /\ q.token = reset[r].token /\ q.answer = reset[r].answer
    BY <1>3, GoTurns DEF LoginInv
  <2>2. book \in BookType
    BY DEF LoginInv, Types
  <2>3. book' \in BookType
    BY <1>3, <2>2 DEF BookType
  <2>4. /\ book'.tokens = book.tokens /\ book'.installed = r
        /\ book'.round = book.round /\ book'.wrong = book.wrong /\ book'.late = book.late
        /\ book'.used = book.used /\ book'.fails = book.fails
    BY <1>3, <2>2 DEF BookType
  <2>5. password' \in Passwords /\ password'.id = r
    BY <1>3 DEF Passwords
  <2>6. Types'
    <3>1. reset' \in [Resets -> ResetType]
      BY <2>1 DEF LoginInv, Types, Turns
    <3> QED
      BY <1>2, <1>3, <2>3, <2>5, <3>1 DEF LoginInv, Types, sessionVars
  <2>7. TokensOK'
    BY <1>1, <1>2, <2>1, <2>4, TokensGoOn DEF LoginInv, Committed
  <2>8. PasswordsOK'
    <3>1. OnRecord(0) /\ OnRecord(r) /\ reset[r].answer # "reset"
      BY <1>1, <1>3, ResetFacts DEF HistoryFits, HandsOver, ResetFits
    <3>2. \A p : OnRecord(p) => OnRecord(p)'
      BY <1>2 DEF OnRecord
    <3>3. LastInstalledInForce' /\ InForceOnRecord'
      BY <2>4, <2>5, <3>1, <3>2 DEF LastInstalledInForce, InForceOnRecord
    <3>4. HistoryFits(r, q)' /\ ResetFits(q)
      BY <2>1, <3>1, <3>2 DEF HistoryFits, ResetFits
    <3> QED
      BY <1>2, <2>1, <3>2, <3>3, <3>4, PasswordsTurned DEF LoginInv
  <2>9. OtpOK' /\ LockoutOK'
    BY <1>2, <2>4, OtpSame, LockoutSame DEF LoginInv, sessionVars
  <2>10. SessionsOK'
    <3>1. reset'[r].at = "sessions"
      BY <2>1 DEF Turns, LoginInv, Types
    <3>2. ~NoResetEnding' /\ (SuspensionDone' => SuspensionDone)
      BY <1>2, <1>3, <3>1 DEF NoResetEnding, InReset, SuspensionDone
    <3> QED
      BY <1>2, <1>3, <3>2, SessionsSame DEF LoginInv, sessionVars
  <2> QED
    BY <2>6, <2>7, <2>8, <2>9, <2>10 DEF LoginInv
<1>4. CASE Refuse(r, "error") /\ UNCHANGED <<password, book>> /\ (UNCHANGED faults \/ Fault)
  BY <1>1, <1>2, <1>4, Faults, RefusedReset, ResetFacts DEF accountVars
<1> QED
  BY <1>3, <1>4 DEF save_factor

LEMMA ResetEnds ==
    ASSUME LoginInv, NEW r \in Resets, end_sessions_of_reset(r), UNCHANGED <<scene, clock, admin>>
    PROVE  LoginInv'
<1>1. reset[r].at = "sessions"
  BY DEF end_sessions_of_reset, InReset
<1>2. UNCHANGED <<scene, clock, admin, accountVars, sessionVars, book>>
  BY DEF end_sessions_of_reset
<1>3. PICK q \in ResetType : /\ Turns(r, q) /\ q.at = "counter"
                             /\ q.token = reset[r].token /\ q.answer = reset[r].answer
  <2>1. CASE GoReset(r, "counter")
    BY <2>1, GoTurns DEF LoginInv
  <2>2. CASE reset' = [reset EXCEPT ![r].at = "counter", ![r].failed = TRUE]
    <3>1. PICK q : q = [reset[r] EXCEPT !.at = "counter", !.failed = TRUE]
      OBVIOUS
    <3>2. q \in ResetType
      BY <3>1, ResetFacts DEF ResetType
    <3>3. q.at = "counter" /\ q.token = reset[r].token /\ q.answer = reset[r].answer
      BY <3>1, ResetFacts DEF ResetType
    <3> QED
      BY <2>2, <3>1, <3>2, <3>3 DEF Turns, LoginInv, Types
  <2> QED
    BY <2>1, <2>2 DEF end_sessions_of_reset
<1>4. /\ registry' = <<>> \/ registry' = registry
      /\ faults' \in Nat /\ (faults' = 0 => faults = 0)
      /\ registry' # <<>> => faults' # 0
  BY Faults DEF end_sessions_of_reset, LoginInv, Types
<1>5. Types'
  <2>1. reset' \in [Resets -> ResetType]
    BY <1>3 DEF LoginInv, Types, Turns
  <2>2. registry' \in Seq(Logins)
    <3>1. <<>> \in Seq(Logins) /\ registry \in Seq(Logins)
      BY DEF LoginInv, Types
    <3> QED
      BY <1>4, <3>1
  <2> QED
    BY <1>2, <1>4, <2>1, <2>2 DEF LoginInv, Types, accountVars, sessionVars
<1>6. TokensOK'
  BY <1>1, <1>2, <1>3, TokensGoOn DEF LoginInv, Committed, accountVars
<1>7. PasswordsOK'
  <2>1. HistoryFits(r, q) /\ ResetFits(q)
    BY <1>1, <1>3, ResetFacts DEF HistoryFits, ResetFits
  <2> QED
    BY <1>2, <1>3, <2>1, PasswordsGoOn DEF LoginInv, accountVars
<1>8. OtpOK' /\ LockoutOK'
  BY <1>2, OtpSame, LockoutSame DEF LoginInv, sessionVars
<1>9. SessionsOK'
  <2>1. CASE registry' = <<>>
    BY <2>1, SessionsEnded
  <2>2. CASE registry' = registry /\ faults' # 0
    <3>1. ~NoResetEnding' /\ ~SuspensionDone'
      BY <2>2 DEF NoResetEnding, SuspensionDone
    <3> QED
      BY <1>2, <2>2, <3>1, SessionsSame DEF LoginInv, sessionVars, accountVars
  <2> QED
    BY <1>4, <2>1, <2>2
<1> QED
  BY <1>5, <1>6, <1>7, <1>8, <1>9 DEF LoginInv

LEMMA LockoutCleared ==
    ASSUME Types, LockoutOK, NewRound, login' = login, attempts'.count \in Nat
    PROVE  LockoutOK'
<1>1. book'.round = book.round + 1 /\ book'.wrong = 0 /\ book'.late = 0
  BY NewRoundBook
<1>2. ASSUME NEW k \in Logins
      PROVE  RoundLocal(login'[k], book'.round) /\ ~Reserving(login'[k], book'.round)
  <2>1. login[k].round \in Nat /\ book.round \in Nat
    BY DEF Types, LoginType, BookType
  <2>2. RoundLocal(login[k], book.round)
    BY DEF LockoutOK
  <2> QED
    BY <1>1, <2>1, <2>2 DEF RoundLocal, Reserving
<1>3. Outstanding' = {}
  BY <1>2 DEF Outstanding
<1>4. Cardinality(Outstanding') = 0
  BY <1>3, FS_EmptySet
<1> QED
  BY <1>1, <1>2, <1>4, LoginFlowAssumption DEF LockoutOK

LEMMA ResetFinishes ==
    ASSUME LoginInv, NEW r \in Resets, finish_password_reset(r), UNCHANGED <<scene, clock, admin>>
    PROVE  LoginInv'
<1>1. reset[r].at = "counter"
  BY DEF finish_password_reset, InReset
<1>2. UNCHANGED <<scene, clock, admin, accountVars, otp, login, guesses, registry>>
  BY DEF finish_password_reset
<1>3. PICK answer : answer = IF reset[r].failed THEN "error" ELSE "reset"
  OBVIOUS
<1>4. PICK q : q = [NewReset EXCEPT !.at = "done", !.token = reset[r].token, !.answer = answer]
  OBVIOUS
<1>5. reset[r].token \in Nat /\ answer \in {"error", "reset"}
  BY <1>3, ResetFacts DEF ResetType
<1>6. q \in ResetType /\ q.at = "done" /\ q.token = reset[r].token /\ q.answer = answer
  BY <1>4, <1>5 DEF ResetType, NewReset
<1>7. Turns(r, q)
  BY <1>3, <1>4, <1>6 DEF finish_password_reset, Turns, LoginInv, Types
<1>8. CASE attempts' = [count |-> 0, last |-> 0] /\ NewRound /\ UNCHANGED faults
  <2>1. attempts' \in [count : Nat, last : {0, 1}] /\ attempts'.count \in Nat
    BY <1>8
  <2>2. LockoutOK'
    BY <1>2, <1>8, <2>1, LockoutCleared DEF LoginInv
  <2>3. /\ book' \in BookType /\ book'.tokens = book.tokens /\ book'.installed = book.installed
        /\ book'.used = book.used /\ book'.fails = book.fails
    BY <1>8, NewRoundBook DEF LoginInv
  <2>4. UNCHANGED faults
    BY <1>8
  <2>5. Types'
    <3>1. reset' \in [Resets -> ResetType]
      BY <1>7 DEF LoginInv, Types, Turns
    <3> QED
      BY <1>2, <2>1, <2>3, <2>4, <3>1 DEF LoginInv, Types, accountVars
  <2> HIDE <1>8
  <2>6. TokensOK'
    BY <1>1, <1>2, <1>6, <1>7, <2>3, TokensGoOn DEF LoginInv, Committed, accountVars
  <2>7. PasswordsOK'
    <3>1. HistoryFits(r, q) /\ ResetFits(q)
      BY <1>1, <1>6, ResetFacts DEF HistoryFits, ResetFits
    <3> QED
      BY <1>2, <1>7, <2>3, <3>1, PasswordsGoOn DEF LoginInv, accountVars
  <2>8. OtpOK'
    BY <1>2, <2>3, OtpSame DEF LoginInv
  <2>9. SessionsOK'
    <3>1. \A p \in Resets : reset'[p].at # "sessions" => reset[p].at # "sessions"
      BY <1>1, <1>7 DEF Turns, LoginInv, Types
    <3>2. (SuspensionDone' => SuspensionDone) /\ (NoResetEnding' => NoResetEnding)
      BY <1>2, <2>4, <3>1 DEF SuspensionDone, NoResetEnding, InReset, accountVars
    <3> QED
      BY <1>2, <2>4, <3>2, SessionsSame DEF LoginInv, accountVars
  <2> QED
    BY <2>2, <2>5, <2>6, <2>7, <2>8, <2>9 DEF LoginInv
<1>9. CASE Fault /\ UNCHANGED <<attempts, book>>
  <2>1. Committed(q) => Committed(reset[r])
    BY <1>1 DEF Committed
  <2>2. HistoryFits(r, q) /\ ResetFits(q)
    BY <1>1, <1>6, ResetFacts DEF HistoryFits, ResetFits
  <2> QED
    BY <1>1, <1>2, <1>6, <1>7, <1>9, <2>1, <2>2, Faults, QuietReset DEF sessionVars
<1> QED
  BY <1>8, <1>9 DEF finish_password_reset

LEMMA ResetSteps ==
    ASSUME LoginInv, NEW r \in Resets, ResetStep(r), UNCHANGED <<scene, clock, admin>>
    PROVE  LoginInv'
BY ResetAdmitted, ResetPeeks, ResetReads, ResetReadmits, ResetSpends, ResetRecordsReplaced, ResetRecords,
   ResetInstalls, ResetEnds, ResetFinishes DEF ResetStep

LEMMA BeginReset ==
    ASSUME LoginInv, begin_password_reset, UNCHANGED <<scene, clock, admin>>
    PROVE  LoginInv'
<1>1. /\ UNCHANGED <<scene, clock, admin, status, password, history, sessionVars, registry, reset, faults>>
      /\ resetToken' = [id |-> book.tokens + 1, at |-> clock]
      /\ book' = [book EXCEPT !.tokens = book.tokens + 1]
  BY DEF begin_password_reset
<1>2. book \in BookType /\ book.tokens \in Nat /\ book.tokens + 1 \in Nat /\ clock \in {0, 1}
  BY DEF LoginInv, Types, BookType
<1>3. book' \in BookType
  BY <1>1, <1>2 DEF BookType
<1>4. /\ book'.tokens = book.tokens + 1 /\ book'.installed = book.installed
      /\ book'.round = book.round /\ book'.wrong = book.wrong /\ book'.late = book.late
      /\ book'.used = book.used /\ book'.fails = book.fails
  BY <1>1, <1>2 DEF BookType
<1>5. resetToken' \in [id : Nat, at : {0, 1}] /\ resetToken'.id = book.tokens + 1
  BY <1>1, <1>2
<1>6. Types'
  BY <1>1, <1>3, <1>5 DEF LoginInv, Types, sessionVars
<1>7. TokensOK'
  <2>1. \A r \in Resets : TokenFits(reset[r], resetToken'.id, book'.tokens)
    <3> SUFFICES ASSUME NEW r \in Resets PROVE TokenFits(reset[r], resetToken'.id, book'.tokens)
      OBVIOUS
    <3>1. TokenFits(reset[r], resetToken.id, book.tokens)
      BY ResetFacts
    <3> QED
      BY <1>2, <1>4, <1>5, <3>1 DEF TokenFits
  <2>2. TokenSpentOnce'
    BY <1>1 DEF LoginInv, TokensOK, TokenSpentOnce
  <2>3. resetToken'.id <= book'.tokens
    BY <1>2, <1>4, <1>5
  <2> QED
    BY <1>1, <2>1, <2>2, <2>3 DEF TokensOK
<1>8. PasswordsOK'
  BY <1>1, <1>4, PasswordsKept DEF LoginInv
<1>9. OtpOK' /\ LockoutOK'
  BY <1>1, <1>4, OtpSame, LockoutSame DEF LoginInv, sessionVars
<1>10. SessionsOK'
  <2>1. (SuspensionDone' => SuspensionDone) /\ (NoResetEnding' => NoResetEnding)
    BY <1>1 DEF SuspensionDone, NoResetEnding, InReset
  <2> QED
    BY <1>1, <2>1, SessionsSame DEF LoginInv, sessionVars
<1> QED
  BY <1>6, <1>7, <1>8, <1>9, <1>10 DEF LoginInv

-----------------------------------------------------------------------------
LEMMA Activates ==
    ASSUME LoginInv, activate_user, UNCHANGED <<scene, clock, otp, login, guesses, reset>>
    PROVE  LoginInv'
<1>1. /\ UNCHANGED <<password, history, resetToken, registry, faults>> /\ status = "suspended" /\ status' = "active"
      /\ NewRound /\ attempts' = [count |-> 0, last |-> 0] /\ admin' = [admin EXCEPT !.op = "activate"]
  BY DEF activate_user
<1>2. /\ book' \in BookType /\ book'.tokens = book.tokens /\ book'.installed = book.installed
      /\ book'.used = book.used /\ book'.fails = book.fails
  BY <1>1, NewRoundBook DEF LoginInv
<1>3. admin' \in AdminType
  BY <1>1 DEF LoginInv, Types, AdminType
<1>4. attempts' \in [count : Nat, last : {0, 1}] /\ attempts'.count \in Nat
  BY <1>1
<1>5. Types'
  BY <1>1, <1>2, <1>3, <1>4 DEF LoginInv, Types
<1>6. OtpOK' /\ LockoutOK'
  BY <1>1, <1>2, <1>4, OtpSame, LockoutCleared DEF LoginInv
<1>7. TokensOK'
  BY <1>1, <1>2, TokensKept DEF LoginInv
<1>8. PasswordsOK'
  BY <1>1, <1>2 DEF LoginInv, PasswordsOK, LastInstalledInForce, HistoryOK, InForceOnRecord, HistoryFits, OnRecord
<1>9. SessionsOK'
  <2>1. ~SuspensionDone' /\ (NoResetEnding' => NoResetEnding)
    BY <1>1 DEF SuspensionDone, NoResetEnding, InReset
  <2> QED
    BY <1>1, <2>1 DEF LoginInv, SessionsOK, Once, Fits, Held
<1> QED
  BY <1>5, <1>6, <1>7, <1>8, <1>9 DEF LoginInv

LEMMA AdminSteps ==
    ASSUME LoginInv, AdminStep, UNCHANGED <<scene, clock>>
    PROVE  LoginInv'
<1>0. SUFFICES ASSUME ~activate_user PROVE LoginInv'
  BY Activates DEF AdminStep
<1>1. UNCHANGED <<scene, clock, attempts, otp, login, guesses, reset, book, password>>
  BY <1>0 DEF AdminStep, suspend_user, delete_user, end_user_sessions, erase_user, accountVars
<1>2. OtpOK' /\ LockoutOK'
  BY <1>1, OtpSame, LockoutSame DEF LoginInv
<1>3. admin \in AdminType /\ faults \in Nat
  BY DEF LoginInv, Types
<1>4. CASE suspend_user \/ delete_user
  <2>1. UNCHANGED <<history, resetToken, registry, faults>>
    BY <1>4 DEF suspend_user, delete_user, accountVars
  <2>2. admin' \in AdminType /\ status' \in {"active", "suspended", "gone"}
    <3>1. CASE suspend_user
      BY <3>1 DEF suspend_user, AdminType
    <3>2. CASE delete_user
      BY <3>2 DEF delete_user, accountVars, AdminType, LoginInv, Types
    <3> QED
      BY <1>4, <3>1, <3>2
  <2>3. status' = "gone" <=> status = "gone"
    BY <1>4 DEF suspend_user, delete_user, accountVars
  <2>4. ~SuspensionDone'
    BY <1>4 DEF suspend_user, delete_user, SuspensionDone
  <2>5. Types'
    BY <1>1, <2>1, <2>2 DEF LoginInv, Types
  <2>6. TokensOK'
    BY <1>1, <2>1, TokensKept DEF LoginInv
  <2>7. PasswordsOK'
    BY <1>1, <2>1, <2>3 DEF LoginInv, PasswordsOK, LastInstalledInForce, HistoryOK, InForceOnRecord,
       HistoryFits, OnRecord
  <2>8. SessionsOK'
    <3>1. NoResetEnding' => NoResetEnding
      BY <1>1, <2>1 DEF NoResetEnding, InReset
    <3> QED
      BY <1>1, <2>1, <2>4, <3>1 DEF LoginInv, SessionsOK, Once, Fits, Held
  <2> QED
    BY <1>2, <2>5, <2>6, <2>7, <2>8 DEF LoginInv
<1>5. CASE end_user_sessions \/ (admin.at = "erase" /\ Fault /\ UNCHANGED <<status, history, resetToken, registry>>
                                 /\ admin' = [admin EXCEPT !.at = "done", !.failed = TRUE])
  <2>1. UNCHANGED <<status, history, resetToken>>
    BY <1>5 DEF end_user_sessions, accountVars
  <2>2. faults' \in Nat /\ (faults' = 0 => faults = 0)
    BY <1>3, <1>5, Faults DEF end_user_sessions
  <2>3. registry' = <<>> \/ (registry' = registry /\ faults' # 0)
    BY <1>5, Faults DEF end_user_sessions
  <2>4. admin' \in AdminType
    <3>1. CASE \E place \in {"erase", "done"} : admin' = [admin EXCEPT !.at = place]
      BY <1>3, <3>1 DEF AdminType
    <3>2. CASE admin' = [admin EXCEPT !.at = "done", !.failed = TRUE]
      BY <1>3, <3>2 DEF AdminType
    <3> QED
      BY <1>5, <3>1, <3>2 DEF end_user_sessions, GoAdmin
  <2>5. Types'
    <3>1. registry' \in Seq(Logins)
      <4>1. <<>> \in Seq(Logins) /\ registry \in Seq(Logins)
        BY DEF LoginInv, Types
      <4> QED
        BY <2>3, <4>1
    <3> QED
      BY <1>1, <2>1, <2>2, <2>4, <3>1 DEF LoginInv, Types
  <2>6. TokensOK' /\ PasswordsOK'
    BY <1>1, <2>1, TokensKept, PasswordsKept DEF LoginInv
  <2>7. SessionsOK'
    <3>1. CASE registry' = <<>>
      BY <3>1, SessionsEnded
    <3>2. CASE registry' = registry /\ faults' # 0
      <4>1. ~NoResetEnding' /\ ~SuspensionDone'
        BY <3>2 DEF NoResetEnding, SuspensionDone
      <4> QED
        BY <1>1, <2>1, <3>2, <4>1, SessionsSame DEF LoginInv
    <3> QED
      BY <2>3, <3>1, <3>2
  <2> QED
    BY <1>2, <2>5, <2>6, <2>7 DEF LoginInv
<1>6. CASE /\ admin.at = "erase" /\ status' = "gone" /\ history' = <<>> /\ resetToken' = NoToken
           /\ GoAdmin("done") /\ UNCHANGED <<faults, registry>>
  <2>1. admin' \in AdminType
    BY <1>3, <1>6 DEF GoAdmin, AdminType
  <2>2. resetToken' \in [id : Nat, at : {0, 1}] /\ resetToken'.id = 0
    BY <1>6 DEF NoToken
  <2>3. Types'
    BY <1>1, <1>6, <2>1, <2>2 DEF LoginInv, Types
  <2>4. TokensOK'
    <3>1. \A r \in Resets : TokenFits(reset[r], resetToken'.id, book.tokens)
      BY <2>2, ResetFacts DEF TokenFits
    <3>2. TokenSpentOnce' /\ resetToken'.id <= book.tokens
      BY <1>1, <2>2 DEF LoginInv, TokensOK, TokenSpentOnce, Types, BookType
    <3> QED
      BY <1>1, <3>1, <3>2 DEF TokensOK
  <2>5. PasswordsOK'
    BY <1>1, <1>6 DEF LoginInv, PasswordsOK, LastInstalledInForce, HistoryOK, InForceOnRecord, HistoryFits
  <2>6. SessionsOK'
    <3>1. ~SuspensionDone' /\ (NoResetEnding' => NoResetEnding)
      BY <1>1, <1>6 DEF SuspensionDone, NoResetEnding, InReset
    <3> QED
      BY <1>1, <1>6, <3>1 DEF LoginInv, SessionsOK, Once, Fits, Held
  <2> QED
    BY <1>2, <2>3, <2>4, <2>5, <2>6 DEF LoginInv
<1> QED
  BY <1>0, <1>4, <1>5, <1>6 DEF AdminStep, erase_user

LEMMA Ticks ==
    ASSUME LoginInv, Tick, UNCHANGED scene
    PROVE  LoginInv'
<1>1. /\ UNCHANGED <<scene, accountVars, sessionVars, registry, reset, admin, faults, book>>
      /\ clock' = 1
  BY DEF Tick
<1> USE DEF accountVars, sessionVars
<1>2. Types'
  BY <1>1 DEF LoginInv, Types
<1>3. TokensOK' /\ PasswordsOK'
  BY <1>1, TokensKept, PasswordsKept DEF LoginInv
<1>4. OtpOK' /\ LockoutOK'
  BY <1>1, OtpSame, LockoutSame DEF LoginInv
<1>5. SessionsOK'
  <2>1. (SuspensionDone' => SuspensionDone) /\ (NoResetEnding' => NoResetEnding)
    BY <1>1 DEF SuspensionDone, NoResetEnding, InReset
  <2> QED
    BY <1>1, <2>1, SessionsSame DEF LoginInv
<1> QED
  BY <1>2, <1>3, <1>4, <1>5 DEF LoginInv

LEMMA Stutters ==
    ASSUME LoginInv, UNCHANGED vars
    PROVE  LoginInv'
<1>1. Types'
  BY DEF LoginInv, Types, vars
<1>2. TokensOK' /\ PasswordsOK'
  BY TokensKept, PasswordsKept DEF LoginInv, vars
<1>3. OtpOK' /\ LockoutOK'
  BY OtpSame, LockoutSame DEF LoginInv, vars
<1>4. SessionsOK'
  <2>1. (SuspensionDone' => SuspensionDone) /\ (NoResetEnding' => NoResetEnding)
    BY DEF SuspensionDone, NoResetEnding, InReset, vars
  <2> QED
    BY <2>1, SessionsSame DEF LoginInv, vars
<1> QED
  BY <1>1, <1>2, <1>3, <1>4 DEF LoginInv

LEMMA NextInv ==
    ASSUME LoginInv, [Next]_vars
    PROVE  LoginInv'
BY LoginSteps, ResetSteps, BeginReset, AdminSteps, Ticks, Stutters DEF Next

LEMMA Inductive == Spec => []LoginInv
<1>1. LoginInv /\ [Next]_vars => LoginInv'
  BY NextInv
<1> QED
  BY <1>1, InitInv, PTL DEF Spec

-----------------------------------------------------------------------------
(* No one-time code opens two logins and no reset token two resets,        *)
(* however many present it at once: persist_pass_with_update swaps the row *)
(* it verified against and spend_reset_token compares and deletes in one   *)
(* transaction.                                                            *)
THEOREM OneUse == Spec => []SpentOnce
<1>1. LoginInv => SpentOnce
  BY DEF LoginInv, OtpOK, TokensOK, SpentOnce
<1> QED
  BY <1>1, Inductive, PTL

(* The password in force is the one installed last, and every password     *)
(* that was replaced is in the history: a late rehash                      *)
(* (rehash_outdated_password) puts nothing back, and install_new_password  *)
(* records before it installs, whichever of its store calls fail.          *)
THEOREM InOrder == Spec => []PasswordsInOrder
<1>1. LoginInv => PasswordsInOrder
  <2> SUFFICES ASSUME LoginInv PROVE PasswordsInOrder
    OBVIOUS
  <2>1. LastInstalledInForce /\ InForceOnRecord
    BY DEF LoginInv, PasswordsOK, HistoryOK
  <2>2. \A r \in Resets : status # "gone" /\ reset[r].answer = "reset" => OnRecord(r)
    BY DEF LoginInv, PasswordsOK, HistoryOK, HistoryFits
  <2>3. HistoryCovers
    BY <2>1, <2>2 DEF HistoryCovers, InForceOnRecord, OnRecord
  <2> QED
    BY <2>1, <2>3 DEF PasswordsInOrder
<1> QED
  BY <1>1, Inductive, PTL

(* Wrong guesses made in parallel are each counted: reserve_attempt lets   *)
(* no more of a round through than the limit, and persist_fail_with_update *)
(* loses none of the failures it stores.                                   *)
THEOREM Counted == Spec => []GuessesCounted
<1>1. LoginInv => GuessesCounted
  <2> SUFFICES ASSUME LoginInv PROVE GuessesCounted
    OBVIOUS
  <2>1. LockoutHolds
    <3>1. book.wrong + Cardinality(Outstanding) <= MaxAttempts + book.late
      BY DEF LoginInv, LockoutOK
    <3>2. Types
      BY DEF LoginInv
    <3> QED
      BY <3>1, <3>2, OutstandingFinite DEF LockoutHolds
  <2>2. FailuresCounted
    BY DEF LoginInv, OtpOK, FailuresCounted
  <2> QED
    BY <2>1, <2>2 DEF GuessesCounted
<1> QED
  BY <1>1, Inductive, PTL

(* Once a suspension or a reset has reported success, no login that raced  *)
(* it keeps a session: register_authenticated_session looks at the         *)
(* password and the status after it has registered, so that whoever ends   *)
(* the sessions sees this one or is seen by it.                            *)
THEOREM EndedOut == Spec => []EndedStayOut
<1>1. LoginInv => EndedStayOut
  BY SessionsEnd DEF LoginInv
<1> QED
  BY <1>1, Inductive, PTL

-----------------------------------------------------------------------------
LEMMA FiniteLogins ==
    ASSUME NEW S \in SUBSET Logins
    PROVE  IsFiniteSet(S) /\ Cardinality(S) \in Nat
BY LoginFlowAssumption, FS_Subset, FS_CardinalityType

LEMMA SmallerSet ==
    ASSUME NEW S \in SUBSET Logins, NEW T \in SUBSET S, Cardinality(S) <= MaxSessions
    PROVE  Cardinality(T) <= MaxSessions
<1>1. IsFiniteSet(S) /\ Cardinality(S) \in Nat /\ Cardinality(T) \in Nat /\ MaxSessions \in Nat
  BY FiniteLogins, LoginFlowAssumption
<1>2. Cardinality(T) <= Cardinality(S)
  BY <1>1, FS_Subset
<1> QED
  BY <1>1, <1>2

LEMMA CapInit == Init => CapInv
<1> SUFFICES ASSUME Init PROVE CapInv
  OBVIOUS
<1>1. \A l \in Logins : ~Held(l) /\ login[l].at = "idle" /\ login[l].stamp = 0
  BY DEF Init, Held, NewLogin
<1>2. CapOK
  <2>1. PICK W : W = [l \in Logins |-> {}]
    OBVIOUS
  <2>2. Seated = {} /\ Trimming = {}
    BY <1>1 DEF Seated, Trimming
  <2>3. Cardinality({}) <= MaxSessions
    BY FS_EmptySet, LoginFlowAssumption
  <2>4. Bounds({}, W)
    BY <2>2, <2>3 DEF Bounds
  <2>5. W \in [Logins -> SUBSET Logins] /\ {} \in SUBSET Logins
    BY <2>1
  <2> QED
    BY <2>4, <2>5 DEF CapOK
<1>3. CalmOK
  BY <1>1 DEF Init, CalmOK, CalmLogin
<1>4. NewestOK
  BY <1>1 DEF Init, NewestOK, VictimsOK, Trimming
<1> QED
  BY <1>2, <1>3, <1>4 DEF CapInv

-----------------------------------------------------------------------------
(* A step after which nobody else is settled or makes room: what was seen  *)
(* is cut down to who is still registered.                                 *)
LEMMA CapCut ==
    ASSUME CapOK, faults' = 0 => faults = 0, Seated' \subseteq Seated, Trimming' \subseteq Trimming,
           \A t \in Trimming' : /\ Held(t)' => Held(t)
                                /\ \A v \in login[t].victims : v \in login'[t].victims \/ ~(v \in HeldSet')
    PROVE  CapOK'
<1> SUFFICES ASSUME faults' = 0
             PROVE  \E C \in SUBSET Logins, W \in [Logins -> SUBSET Logins] : Bounds(C, W)'
  BY DEF CapOK
<1>1. PICK C \in SUBSET Logins, W \in [Logins -> SUBSET Logins] : Bounds(C, W)
  BY DEF CapOK
<1>2. PICK H : H = HeldSet'
  OBVIOUS
<1>3. PICK D : D = C \cap H
  OBVIOUS
<1>4. PICK V : V = [t \in Logins |-> W[t] \cap H]
  OBVIOUS
<1>5. D \in SUBSET Logins /\ V \in [Logins -> SUBSET Logins] /\ \A t \in Logins : V[t] = W[t] \cap H
  BY <1>3, <1>4
<1>6. Seated' \subseteq D /\ D \subseteq HeldSet' /\ Cardinality(D) <= MaxSessions
  <2>1. Seated' \subseteq H
    BY <1>2 DEF Seated, HeldSet
  <2>2. Cardinality(C) <= MaxSessions /\ Seated \subseteq C
    BY <1>1 DEF Bounds
  <2> QED
    BY <1>2, <1>3, <2>1, <2>2, SmallerSet
<1>7. ASSUME NEW t \in Trimming' PROVE Room(t, D, V)'
  <2>1. t \in Logins /\ t \in Trimming /\ Room(t, C, W) /\ V[t] = W[t] \cap H
    BY <1>1, <1>5 DEF Trimming, Bounds
  <2>2. V[t] \subseteq H
    BY <2>1
  <2>3. Held(t)' => t \in V[t]
    BY <1>2, <2>1 DEF Room, HeldSet
  <2>4. Cardinality(V[t] \ login'[t].victims) <= MaxSessions
    <3>1. V[t] \ login'[t].victims \subseteq W[t] \ login[t].victims
      BY <1>2, <2>1
    <3>2. W[t] \ login[t].victims \in SUBSET Logins /\ Cardinality(W[t] \ login[t].victims) <= MaxSessions
      BY <2>1 DEF Room
    <3> QED
      BY <3>1, <3>2, SmallerSet
  <2>5. Comparable(D, V[t])
    BY <1>3, <2>1 DEF Room, Comparable
  <2> QED
    BY <1>2, <2>2, <2>3, <2>4, <2>5 DEF Room
<1>8. ASSUME NEW t \in Trimming', NEW u \in Trimming' PROVE Comparable(V[t], V[u])
  <2>1. t \in Logins /\ u \in Logins /\ t \in Trimming /\ u \in Trimming
    BY DEF Trimming
  <2>2. Comparable(W[t], W[u])
    BY <1>1, <2>1 DEF Bounds
  <2> QED
    BY <1>5, <2>1, <2>2 DEF Comparable
<1>9. Bounds(D, V)'
  BY <1>6, <1>7, <1>8 DEF Bounds
<1> QED
  BY <1>5, <1>9

(* A step by which l, whose victims are all gone, settles. *)
LEMMA CapSettles ==
    ASSUME CapOK, faults' = 0 => faults = 0, NEW l \in Logins, l \in Trimming, Held(l)' => Held(l),
           Seated' \subseteq Seated \cup {l}, Trimming' \subseteq Trimming \ {l},
           \A v \in login[l].victims : ~(v \in HeldSet'),
           \A t \in Trimming' : /\ Held(t)' => Held(t)
                                /\ \A v \in login[t].victims : v \in login'[t].victims \/ ~(v \in HeldSet')
    PROVE  CapOK'
<1> SUFFICES ASSUME faults' = 0
             PROVE  \E C \in SUBSET Logins, W \in [Logins -> SUBSET Logins] : Bounds(C, W)'
  BY DEF CapOK
<1>1. PICK C \in SUBSET Logins, W \in [Logins -> SUBSET Logins] : Bounds(C, W)
  BY DEF CapOK
<1>2. PICK H : H = HeldSet'
  OBVIOUS
<1>3. Room(l, C, W)
  BY <1>1 DEF Bounds
<1>4. PICK B : B = IF C \subseteq W[l] THEN W[l] ELSE C
  OBVIOUS
<1>5. B \in SUBSET Logins /\ C \subseteq B /\ W[l] \subseteq B /\ (B = C \/ B = W[l])
  BY <1>3, <1>4 DEF Room, Comparable
<1>6. PICK D : D = B \cap H
  OBVIOUS
<1>7. PICK V : V = [t \in Logins |-> W[t] \cap H]
  OBVIOUS
<1>8. D \in SUBSET Logins /\ V \in [Logins -> SUBSET Logins] /\ \A t \in Logins : V[t] = W[t] \cap H
  BY <1>5, <1>6, <1>7
<1>9. Cardinality(D) <= MaxSessions
  <2>1. CASE B = C
    <3>1. Cardinality(C) <= MaxSessions
      BY <1>1 DEF Bounds
    <3> QED
      BY <1>6, <2>1, <3>1, SmallerSet
  <2>2. CASE B = W[l]
    <3>1. Cardinality(W[l] \ login[l].victims) <= MaxSessions /\ W[l] \ login[l].victims \in SUBSET Logins
      BY <1>3 DEF Room
    <3>2. D \subseteq W[l] \ login[l].victims
      BY <1>2, <1>6, <2>2
    <3> QED
      BY <3>1, <3>2, SmallerSet
  <2> QED
    BY <1>5, <2>1, <2>2
<1>10. Seated' \subseteq D /\ D \subseteq HeldSet'
  <2>1. Seated' \subseteq H
    BY <1>2 DEF Seated, HeldSet
  <2>2. Seated \subseteq C
    BY <1>1 DEF Bounds
  <2>3. l \in H => l \in W[l]
    BY <1>2, <1>3 DEF Room, HeldSet
  <2> QED
    BY <1>2, <1>5, <1>6, <2>1, <2>2, <2>3
<1>11. ASSUME NEW t \in Trimming' PROVE Room(t, D, V)'
  <2>1. t \in Logins /\ t \in Trimming /\ Room(t, C, W) /\ V[t] = W[t] \cap H
    BY <1>1, <1>8 DEF Trimming, Bounds
  <2>2. V[t] \subseteq H
    BY <2>1
  <2>3. Held(t)' => t \in V[t]
    BY <1>2, <2>1 DEF Room, HeldSet
  <2>4. Cardinality(V[t] \ login'[t].victims) <= MaxSessions
    <3>1. V[t] \ login'[t].victims \subseteq W[t] \ login[t].victims
      BY <1>2, <2>1
    <3>2. W[t] \ login[t].victims \in SUBSET Logins /\ Cardinality(W[t] \ login[t].victims) <= MaxSessions
      BY <2>1 DEF Room
    <3> QED
      BY <3>1, <3>2, SmallerSet
  <2>5. Comparable(B, W[t])
    BY <1>1, <1>5, <2>1 DEF Room, Bounds
  <2>6. Comparable(D, V[t])
    BY <1>6, <2>1, <2>5 DEF Comparable
  <2> QED
    BY <1>2, <2>2, <2>3, <2>4, <2>6 DEF Room
<1>12. ASSUME NEW t \in Trimming', NEW u \in Trimming' PROVE Comparable(V[t], V[u])
  <2>1. t \in Logins /\ u \in Logins /\ t \in Trimming /\ u \in Trimming
    BY DEF Trimming
  <2>2. Comparable(W[t], W[u])
    BY <1>1, <2>1 DEF Bounds
  <2> QED
    BY <1>8, <2>1, <2>2 DEF Comparable
<1>13. Bounds(D, V)'
  BY <1>9, <1>10, <1>11, <1>12 DEF Bounds
<1> QED
  BY <1>8, <1>13

(* What the oldest leave is within the limit. *)
LEMMA NewestAreFew ==
    ASSUME Types
    PROVE  /\ Cardinality(HeldSet \ victims_after_register) <= MaxSessions
           /\ victims_after_register \subseteq HeldSet
<1>1. PICK s : s = registry
  OBVIOUS
<1>2. PICK n : n = Len(s)
  OBVIOUS
<1>3. PICK M : M = MaxSessions
  OBVIOUS
<1>4. s \in Seq(Logins) /\ n \in Nat /\ M \in Nat \ {0}
  BY <1>1, <1>2, <1>3, LoginFlowAssumption DEF Types
<1>5. PICK e : e = IF n > M THEN n - M ELSE 0
  OBVIOUS
<1>6. e \in 0 .. n /\ n - e <= M /\ n - e \in Nat
  BY <1>4, <1>5
<1>7. victims_after_register = {s[i] : i \in 1 .. e}
  BY <1>1, <1>2, <1>3, <1>5 DEF victims_after_register, OldestFirst, Excess
<1>8. HeldSet = {s[i] : i \in 1 .. n}
  <2>1. \A i \in 1 .. n : s[i] \in Logins
    BY <1>2, <1>4
  <2> QED
    BY <1>1, <1>2, <2>1 DEF HeldSet, Held
<1>9. victims_after_register \subseteq HeldSet
  BY <1>4, <1>6, <1>7, <1>8
<1>10. PICK S : S = HeldSet \ victims_after_register
  OBVIOUS
<1>11. CASE n = e
  <2>1. S = {}
    BY <1>7, <1>8, <1>10, <1>11
  <2>2. Cardinality(S) = 0 /\ 0 <= MaxSessions
    BY <1>3, <1>4, <2>1, FS_EmptySet
  <2> QED
    BY <1>9, <1>10, <2>2
<1>12. CASE n # e
  <2>1. PICK T : T = {s[e + i] : i \in 1 .. n - e}
    OBVIOUS
  <2>2. PICK f : f = [i \in 1 .. n - e |-> s[e + i]]
    OBVIOUS
  <2>3. ExistsSurjection(1 .. n - e, T)
    <3>1. f \in [1 .. n - e -> T] /\ \A y \in T : \E i \in 1 .. n - e : f[i] = y
      BY <2>1, <2>2
    <3> QED
      BY <3>1 DEF ExistsSurjection, Surjection
  <2>4. Cardinality(T) <= n - e
    BY <1>6, <2>3, FS_SurjCardinalityBound
  <2>5. T \in SUBSET Logins
    <3>1. \A i \in 1 .. n - e : e + i \in 1 .. n
      BY <1>4, <1>6
    <3> QED
      BY <1>2, <1>4, <2>1, <3>1
  <2>6. S \subseteq T
    <3> SUFFICES ASSUME NEW x \in S PROVE x \in T
      OBVIOUS
    <3>1. PICK i \in 1 .. n : x = s[i]
      BY <1>8, <1>10
    <3>2. i \notin 1 .. e
      BY <1>7, <1>10, <3>1
    <3>3. i - e \in 1 .. n - e /\ e + (i - e) = i
      BY <1>4, <1>6, <3>2
    <3> QED
      BY <2>1, <3>1, <3>3
  <2>7. Cardinality(T) <= MaxSessions
    <3>1. Cardinality(T) \in Nat
      BY <2>5, FiniteLogins
    <3> QED
      BY <1>3, <1>4, <1>6, <2>4, <3>1
  <2> QED
    BY <1>9, <1>10, <2>5, <2>6, <2>7, SmallerSet
<1> QED
  BY <1>11, <1>12

-----------------------------------------------------------------------------
(* Steps of a login that neither registers nor makes room. *)
Passes(l) ==
    /\ \A k \in Logins \ {l} : login'[k] = login[k]
    /\ login[l].at \notin {"relist", "trim", "evict", "register"}
    /\ login'[l].at # "trim"
    /\ login[l].at \in Registered => login'[l].at \in Registered
    /\ registry' = registry \/ (registry' = Without(l) /\ login[l].at = "undo")
    /\ faults' = 0 => faults = 0

LEMMA CapPasses ==
    ASSUME LoginInv, CapOK, NEW l \in Logins, Passes(l)
    PROVE  CapOK'
<1>1. \A k \in Logins : Held(k)' => Held(k)
  <2>1. CASE registry' = registry
    BY <2>1 DEF Held
  <2>2. CASE registry' = Without(l)
    BY <2>2, WithoutDrops DEF LoginInv, SessionsOK
  <2> QED
    BY <2>1, <2>2 DEF Passes
<1>2. Seated' \subseteq Seated
  BY <1>1 DEF Seated, Passes
<1>3. Trimming' \subseteq Trimming /\ \A t \in Trimming' : login'[t] = login[t] /\ t \in Logins
  BY DEF Trimming, Passes
<1> QED
  BY <1>1, <1>2, <1>3, CapCut DEF Passes

LEMMA VictimsPass ==
    ASSUME Types, VictimsOK, NEW l \in Logins, \A k \in Logins \ {l} : login'[k] = login[k],
           login[l].at \in Registered => login'[l].at \in Registered,
           login'[l].at = "trim" =>
               \A v \in login'[l].victims : v \in Logins /\ login[v].at \in Registered
    PROVE  VictimsOK'
<1>1. \A k \in Logins : login[k].at \in Registered => login'[k].at \in Registered
  OBVIOUS
<1>2. \A t \in Logins : login[t].victims \subseteq Logins
  BY DEF Types, LoginType
<1> QED
  BY <1>1, <1>2 DEF VictimsOK, Trimming

LEMMA NewestIsLogin ==
    ASSUME Types, book.newest # <<>>
    PROVE  book.newest[1] \in Logins
<1>1. book.newest \in Seq(Logins)
  BY DEF Types, BookType
<1> QED
  BY <1>1

LEMMA NewestPasses ==
    ASSUME LoginInv, CalmOK, NewestOK, NEW l \in Logins, Passes(l), Unstirred' => Unstirred,
           book'.newest = book.newest
    PROVE  NewestOK'
<1>1. VictimsOK'
  BY VictimsPass DEF LoginInv, NewestOK, Passes
<1>2. ASSUME Unstirred', book.newest # <<>> PROVE NewestFits(book.newest[1])'
  <2>1. PICK n : n = book.newest[1]
    OBVIOUS
  <2>2. n \in Logins /\ NewestFits(n)
    BY <1>2, <2>1, NewestIsLogin DEF LoginInv, NewestOK
  <2>3. login[l].at # "undo" /\ registry' = registry
    BY <1>2 DEF CalmOK, CalmLogin, Passes
  <2>4. login'[n].at \in Registered
    BY <2>2 DEF Passes, NewestFits
  <2>5. Pending => Pending'
    BY DEF Pending, Passes
  <2>6. \A t \in Trimming' : n \notin login'[t].victims
    BY <2>2 DEF Trimming, Passes, NewestFits
  <2>7. NewestFits(n)'
    BY <2>2, <2>3, <2>4, <2>5, <2>6 DEF NewestFits, Last, Held
  <2> QED
    BY <2>1, <2>7
<1> QED
  BY <1>1, <1>2 DEF NewestOK

(* What a calm login must show of a step. *)
CalmStep(l) ==
    /\ \A k \in Logins \ {l} : login'[k] = login[k]
    /\ UNCHANGED <<reset, admin, status>>
    /\ faults' = 0 => faults = 0
    /\ password'.id = password.id
    /\ Unstirred' => CalmLogin(login'[l])

LEMMA CalmPasses ==
    ASSUME CalmOK, NEW l \in Logins, CalmStep(l)
    PROVE  CalmOK' /\ (Unstirred' => Unstirred)
<1>1. Unstirred' => Unstirred
  BY DEF Unstirred, CalmStep
<1> QED
  BY <1>1 DEF CalmOK, CalmStep

LEMMA PassingLogin ==
    ASSUME LoginInv, CapInv, NEW l \in Logins, Passes(l), CalmStep(l), book'.newest = book.newest
    PROVE  CapInv'
BY CapPasses, CalmPasses, NewestPasses DEF CapInv

-----------------------------------------------------------------------------
(* A login that goes on to one of the places P, with the stamp it has. *)
Leads(l, P) ==
    /\ \A k \in Logins \ {l} : login'[k] = login[k]
    /\ login'[l].at \in P
    /\ login'[l].stamp = login[l].stamp

LEMMA AnswerLeads ==
    ASSUME Types, NEW l \in Logins, NEW answer, Answer(l, answer)
    PROVE  Leads(l, {"done"})
BY DEF Answer, Leads, NewLogin, Types

LEMMA GoLeads ==
    ASSUME Types, NEW l \in Logins, NEW place, Go(l, place)
    PROVE  Leads(l, {place})
<1>1. login[l] \in LoginType
  BY DEF Types
<1> QED
  BY <1>1 DEF Go, Leads, Types, LoginType

LEMMA AgainLeads ==
    ASSUME Types, NEW l \in Logins, NEW answer, Again(l, answer)
    PROVE  Leads(l, {"done", "current"})
<1>1. PICK place \in {"done", "current"} : place = IF answer = "Locked" THEN "done" ELSE "current"
  OBVIOUS
<1> QED
  BY <1>1 DEF Again, Leads, NewLogin, Types

(* Steps of a login before it registers or after it is settled, which      *)
(* leave the registry and the account alone.                               *)
LEMMA LeadingLogin ==
    ASSUME LoginInv, CapInv, NEW l \in Logins, NEW P, Leads(l, P),
           "trim" \notin P, "undo" \notin P,
           login[l].at \notin {"relist", "trim", "evict", "register"},
           login[l].at \in Registered => P \subseteq Registered,
           UNCHANGED <<registry, reset, admin, status, password>>,
           faults' = 0 => faults = 0, book'.newest = book.newest
    PROVE  CapInv'
<1>1. Passes(l)
  BY DEF Passes, Leads
<1>2. CalmStep(l)
  <2>1. Unstirred' => Unstirred
    BY DEF Unstirred
  <2>2. Unstirred => login[l].stamp = 0
    BY DEF CapInv, CalmOK, CalmLogin
  <2> QED
    BY <2>1, <2>2 DEF CalmStep, Leads, CalmLogin
<1> QED
  BY <1>1, <1>2, PassingLogin

LEMMA CapBegin ==
    ASSUME LoginInv, CapInv, NEW l \in Logins, NEW known \in BOOLEAN, begin_login(l, known),
           UNCHANGED <<scene, clock, reset, admin>>
    PROVE  CapInv'
<1>1. Types /\ login[l] \in LoginType /\ login \in [Logins -> LoginType] /\ book \in BookType
  BY DEF LoginInv, Types
<1>2. Leads(l, {"done", "epoch"})
  <2>1. CASE Answer(l, "InvalidCredentials")
    BY <1>1, <2>1, AnswerLeads DEF Leads
  <2>2. CASE login' = [login EXCEPT ![l].at = "epoch", ![l].known = known]
    BY <1>1, <2>2 DEF Leads, LoginType
  <2> QED
    BY <2>1, <2>2 DEF begin_login
<1> QED
  BY <1>1, <1>2, Faults, LeadingLogin DEF begin_login, At, accountVars, Registered
LEMMA CapStamp ==
    ASSUME LoginInv, CapInv, NEW l \in Logins, stamp_flow(l),
           UNCHANGED <<scene, clock, reset, admin>>
    PROVE  CapInv'
<1>1. login[l] \in LoginType /\ login \in [Logins -> LoginType] /\ book \in BookType
  BY DEF LoginInv, Types
<1>2. Passes(l)
  BY <1>1, Faults DEF stamp_flow, Passes, Go, Answer, At, NewLogin, Registered, LoginType
<1>3. CalmStep(l)
  BY <1>1, Faults DEF stamp_flow, CalmStep, CalmLogin, Unstirred, CapInv, CalmOK, Go, Answer, At,
     NewLogin, LoginType, accountVars
<1>4. book'.newest = book.newest
  BY <1>1 DEF stamp_flow, BookType
<1> QED
  BY <1>2, <1>3, <1>4, PassingLogin

LEMMA CapCurrent ==
    ASSUME LoginInv, CapInv, NEW l \in Logins, require_current_flow(l),
           UNCHANGED <<scene, clock, reset, admin>>
    PROVE  CapInv'
<1>1. Types /\ login[l] \in LoginType /\ login \in [Logins -> LoginType] /\ book \in BookType
  BY DEF LoginInv, Types
<1>2. Leads(l, {"done", "status"})
  <2>1. CASE Answer(l, "NoFlow")
    BY <1>1, <2>1, AnswerLeads DEF Leads
  <2>2. CASE Go(l, "status")
    BY <1>1, <2>2, GoLeads DEF Leads
  <2> QED
    BY <2>1, <2>2 DEF require_current_flow
<1> QED
  BY <1>1, <1>2, Faults, LeadingLogin DEF require_current_flow, At, accountVars, Registered
LEMMA CapStatus ==
    ASSUME LoginInv, CapInv, NEW l \in Logins, enforce_account_status(l),
           UNCHANGED <<scene, clock, reset, admin>>
    PROVE  CapInv'
<1>1. Types /\ login[l] \in LoginType /\ login \in [Logins -> LoginType] /\ book \in BookType
  BY DEF LoginInv, Types
<1>2. Leads(l, {"done", "config"})
  <2>1. CASE \E answer \in {"Locked", "NotActive"} : Answer(l, answer)
    BY <1>1, <2>1, AnswerLeads DEF Leads
  <2>2. CASE Go(l, "config")
    BY <1>1, <2>2, GoLeads DEF Leads
  <2> QED
    BY <2>1, <2>2 DEF enforce_account_status
<1> QED
  BY <1>1, <1>2, Faults, LeadingLogin DEF enforce_account_status, At, accountVars, Registered
LEMMA CapResolve ==
    ASSUME LoginInv, CapInv, NEW l \in Logins, resolve_factor(l),
           UNCHANGED <<scene, clock, reset, admin>>
    PROVE  CapInv'
<1>1. Types /\ login[l] \in LoginType /\ login \in [Logins -> LoginType] /\ book \in BookType
  BY DEF LoginInv, Types
<1>2. Leads(l, {"done", "reserve"})
  <2>1. CASE Answer(l, "NoFlow")
    BY <1>1, <2>1, AnswerLeads DEF Leads
  <2>2. CASE ~Answer(l, "NoFlow")
    <3>1. PICK c : login' = [login EXCEPT ![l].at = "reserve", ![l].config = c]
      BY <2>2 DEF resolve_factor
    <3> QED
      BY <1>1, <3>1 DEF Leads, LoginType
  <2> QED
    BY <2>1, <2>2
<1> QED
  BY <1>1, <1>2, Faults, LeadingLogin DEF resolve_factor, At, accountVars, Registered
LEMMA CapReserve ==
    ASSUME LoginInv, CapInv, NEW l \in Logins, reserve_guess(l),
           UNCHANGED <<scene, clock, reset, admin>>
    PROVE  CapInv'
<1>1. Types /\ login[l] \in LoginType /\ login \in [Logins -> LoginType] /\ book \in BookType
  BY DEF LoginInv, Types
<1>2. Leads(l, {"done", "verify"}) /\ (faults' = 0 => faults = 0) /\ book'.newest = book.newest
  <2>1. CASE reserve_attempt(l) /\ UNCHANGED faults
    <3>1. PICK n, m : login' = [login EXCEPT ![l].at = "verify", ![l].reserved = n, ![l].round = m]
      BY <2>1 DEF reserve_attempt
    <3>2. book'.newest = book.newest
      BY <1>1, <2>1 DEF reserve_attempt, NewRound, BookType
    <3> QED
      BY <1>1, <2>1, <3>1, <3>2 DEF Leads, LoginType
  <2>2. CASE ~(reserve_attempt(l) /\ UNCHANGED faults)
    <3>1. Go(l, "verify") \/ Answer(l, "Locked")
      BY <2>2 DEF reserve_guess
    <3>2. book' = book /\ (Fault \/ UNCHANGED faults)
      BY <2>2 DEF reserve_guess
    <3> QED
      BY <1>1, <3>1, <3>2, GoLeads, AnswerLeads, Faults DEF Leads, LoginInv
  <2> QED
    BY <2>1, <2>2 DEF reserve_guess
<1> QED
  BY <1>1, <1>2, Faults, LeadingLogin DEF reserve_guess, At, accountVars, Registered
LEMMA CapVerify ==
    ASSUME LoginInv, CapInv, NEW l \in Logins, NEW guess, verify_credential(l, guess),
           UNCHANGED <<scene, clock, reset, admin>>
    PROVE  CapInv'
<1>1. login[l] \in LoginType /\ login \in [Logins -> LoginType] /\ book \in BookType
  BY DEF LoginInv, Types
<1>2. Passes(l)
  BY <1>1, Faults DEF verify_credential, Passes, Go, Answer, At, NewLogin, Registered, LoginType
<1>3. CalmStep(l)
  BY <1>1, Faults DEF verify_credential, CalmStep, CalmLogin, Unstirred, CapInv, CalmOK, Go, Answer, At,
     NewLogin, LoginType, accountVars
<1>4. book'.newest = book.newest
  BY <1>1 DEF verify_credential, BookType
<1> QED
  BY <1>2, <1>3, <1>4, PassingLogin

LEMMA CapFailLoad ==
    ASSUME LoginInv, CapInv, NEW l \in Logins, persist_fail_load(l),
           UNCHANGED <<scene, clock, reset, admin>>
    PROVE  CapInv'
<1>1. login[l] \in LoginType /\ login \in [Logins -> LoginType] /\ book \in BookType
  BY DEF LoginInv, Types
<1>2. Passes(l)
  BY <1>1, Faults DEF persist_fail_load, FailureStored, Passes, Go, Answer, At, NewLogin, Registered, LoginType
<1>3. CalmStep(l)
  BY <1>1, Faults DEF persist_fail_load, FailureStored, CalmStep, CalmLogin, Unstirred, CapInv, CalmOK, Go, Answer, At,
     NewLogin, LoginType, accountVars
<1>4. book'.newest = book.newest
  BY <1>1 DEF persist_fail_load, FailureStored, BookType
<1> QED
  BY <1>2, <1>3, <1>4, PassingLogin

LEMMA CapFailSwap ==
    ASSUME LoginInv, CapInv, NEW l \in Logins, persist_fail_swap(l),
           UNCHANGED <<scene, clock, reset, admin>>
    PROVE  CapInv'
<1>1. login[l] \in LoginType /\ login \in [Logins -> LoginType] /\ book \in BookType
  BY DEF LoginInv, Types
<1>2. Passes(l)
  BY <1>1, Faults DEF persist_fail_swap, FailureStored, Passes, Go, Answer, At, NewLogin, Registered, LoginType
<1>3. CalmStep(l)
  BY <1>1, Faults DEF persist_fail_swap, FailureStored, CalmStep, CalmLogin, Unstirred, CapInv, CalmOK, Go, Answer, At,
     NewLogin, LoginType, accountVars
<1>4. book'.newest = book.newest
  BY <1>1 DEF persist_fail_swap, FailureStored, BookType
<1> QED
  BY <1>2, <1>3, <1>4, PassingLogin

LEMMA CapFailReload ==
    ASSUME LoginInv, CapInv, NEW l \in Logins, persist_fail_reload(l),
           UNCHANGED <<scene, clock, reset, admin>>
    PROVE  CapInv'
<1>1. login[l] \in LoginType /\ login \in [Logins -> LoginType] /\ book \in BookType
  BY DEF LoginInv, Types
<1>2. Passes(l)
  BY <1>1, Faults DEF persist_fail_reload, Passes, Go, Answer, At, NewLogin, Registered, LoginType
<1>3. CalmStep(l)
  BY <1>1, Faults DEF persist_fail_reload, CalmStep, CalmLogin, Unstirred, CapInv, CalmOK, Go, Answer, At,
     NewLogin, LoginType, accountVars
<1>4. book'.newest = book.newest
  BY <1>1 DEF persist_fail_reload, BookType
<1> QED
  BY <1>2, <1>3, <1>4, PassingLogin

LEMMA CapPass ==
    ASSUME LoginInv, CapInv, NEW l \in Logins, persist_pass_with_update(l),
           UNCHANGED <<scene, clock, reset, admin>>
    PROVE  CapInv'
<1>1. login[l] \in LoginType /\ login \in [Logins -> LoginType] /\ book \in BookType
  BY DEF LoginInv, Types
<1>2. Passes(l)
  BY <1>1, Faults DEF persist_pass_with_update, Passes, Go, Answer, At, NewLogin, Registered, LoginType
<1>3. CalmStep(l)
  BY <1>1, Faults DEF persist_pass_with_update, CalmStep, CalmLogin, Unstirred, CapInv, CalmOK, Go, Answer, At,
     NewLogin, LoginType, accountVars
<1>4. book'.newest = book.newest
  BY <1>1 DEF persist_pass_with_update, BookType
<1> QED
  BY <1>2, <1>3, <1>4, PassingLogin

LEMMA CapFailure ==
    ASSUME LoginInv, CapInv, NEW l \in Logins, record_factor_failure_after(l),
           UNCHANGED <<scene, clock, reset, admin>>
    PROVE  CapInv'
<1>1. Types /\ login[l] \in LoginType /\ login \in [Logins -> LoginType] /\ book \in BookType
  BY DEF LoginInv, Types
<1>2. Leads(l, {"done", "current"})
  <2>1. PICK answer : Again(l, answer)
    BY DEF record_factor_failure_after
  <2> QED
    BY <1>1, <2>1, AgainLeads
<1>3. (faults' = 0 => faults = 0) /\ book'.newest = book.newest
  BY <1>1, Faults DEF record_factor_failure_after, NewRound, BookType, LoginInv
<1> QED
  BY <1>1, <1>2, <1>3, LeadingLogin DEF record_factor_failure_after, At, accountVars, Registered
LEMMA CapRelease ==
    ASSUME LoginInv, CapInv, NEW l \in Logins, release_guess(l),
           UNCHANGED <<scene, clock, reset, admin>>
    PROVE  CapInv'
<1>1. login[l] \in LoginType /\ login \in [Logins -> LoginType] /\ book \in BookType
  BY DEF LoginInv, Types
<1>2. Passes(l)
  BY <1>1, Faults DEF release_guess, Passes, Go, Answer, At, NewLogin, Registered, LoginType
<1>3. CalmStep(l)
  BY <1>1, Faults DEF release_guess, CalmStep, CalmLogin, Unstirred, CapInv, CalmOK, Go, Answer, At,
     NewLogin, LoginType, accountVars
<1>4. book'.newest = book.newest
  BY <1>1 DEF release_guess, BookType
<1> QED
  BY <1>2, <1>3, <1>4, PassingLogin

LEMMA CapHeld ==
    ASSUME LoginInv, CapInv, NEW l \in Logins, held_sessions(l),
           UNCHANGED <<scene, clock, reset, admin>>
    PROVE  CapInv'
<1>1. Types /\ login[l] \in LoginType /\ login \in [Logins -> LoginType] /\ book \in BookType
  BY DEF LoginInv, Types
<1>2. Leads(l, {"done", "register", "evict"}) /\ (faults' = 0 => faults = 0)
  <2>1. CASE Fault /\ Answer(l, "NoFlow")
    BY <1>1, <2>1, AnswerLeads, Faults DEF Leads, LoginInv
  <2>2. CASE ~(Fault /\ Answer(l, "NoFlow"))
    <3>1. PICK place, V : /\ place \in {"register", "evict"}
                          /\ login' = [login EXCEPT ![l].at = place, ![l].victims = V]
      BY <2>2 DEF held_sessions
    <3> QED
      BY <1>1, <2>2, <3>1 DEF Leads, LoginType, held_sessions
  <2> QED
    BY <2>1, <2>2
<1> QED
  BY <1>1, <1>2, Faults, LeadingLogin DEF held_sessions, At, accountVars, Registered
LEMMA CapFlow ==
    ASSUME LoginInv, CapInv, NEW l \in Logins, flow_still_current(l),
           UNCHANGED <<scene, clock, reset, admin>>
    PROVE  CapInv'
<1>1. login[l] \in LoginType /\ login \in [Logins -> LoginType] /\ book \in BookType
  BY DEF LoginInv, Types
<1>2. Passes(l)
  BY <1>1, Faults DEF flow_still_current, Passes, Go, Answer, At, NewLogin, Registered, LoginType
<1>3. CalmStep(l)
  BY <1>1, Faults DEF flow_still_current, CalmStep, CalmLogin, Unstirred, CapInv, CalmOK, Go, Answer, At,
     NewLogin, LoginType, accountVars
<1>4. book'.newest = book.newest
  BY <1>1 DEF flow_still_current, BookType
<1> QED
  BY <1>2, <1>3, <1>4, PassingLogin

LEMMA CapRecheck ==
    ASSUME LoginInv, CapInv, NEW l \in Logins, recheck_status_after_register(l),
           UNCHANGED <<scene, clock, reset, admin>>
    PROVE  CapInv'
<1>1. login[l] \in LoginType /\ login \in [Logins -> LoginType] /\ book \in BookType
  BY DEF LoginInv, Types
<1>2. Passes(l)
  BY <1>1, Faults DEF recheck_status_after_register, allows_login, Passes, Go, Answer, At, NewLogin, Registered, LoginType
<1>3. CalmStep(l)
  BY <1>1, Faults DEF recheck_status_after_register, allows_login, CalmStep, CalmLogin, Unstirred, CapInv, CalmOK, Go, Answer, At,
     NewLogin, LoginType, accountVars
<1>4. book'.newest = book.newest
  BY <1>1 DEF recheck_status_after_register, allows_login, BookType
<1> QED
  BY <1>2, <1>3, <1>4, PassingLogin

LEMMA CapUndo ==
    ASSUME LoginInv, CapInv, NEW l \in Logins, undo_register(l),
           UNCHANGED <<scene, clock, reset, admin>>
    PROVE  CapInv'
<1>1. login[l] \in LoginType /\ login \in [Logins -> LoginType] /\ book \in BookType
  BY DEF LoginInv, Types
<1>2. Passes(l)
  BY <1>1, Faults DEF undo_register, Passes, Go, Answer, At, NewLogin, Registered, LoginType
<1>3. CalmStep(l)
  BY <1>1, Faults DEF undo_register, CalmStep, CalmLogin, Unstirred, CapInv, CalmOK, Go, Answer, At,
     NewLogin, LoginType, accountVars
<1>4. book'.newest = book.newest
  BY <1>1 DEF undo_register, BookType
<1> QED
  BY <1>2, <1>3, <1>4, PassingLogin

LEMMA CapClear ==
    ASSUME LoginInv, CapInv, NEW l \in Logins, reset_failed_attempts(l),
           UNCHANGED <<scene, clock, reset, admin>>
    PROVE  CapInv'
<1>1. login[l] \in LoginType /\ login \in [Logins -> LoginType] /\ book \in BookType
  BY DEF LoginInv, Types
<1>2. Passes(l)
  BY <1>1, Faults DEF reset_failed_attempts, NewRound, Passes, Go, Answer, At, NewLogin, Registered, LoginType
<1>3. CalmStep(l)
  BY <1>1, Faults DEF reset_failed_attempts, NewRound, CalmStep, CalmLogin, Unstirred, CapInv, CalmOK, Go, Answer, At,
     NewLogin, LoginType, accountVars
<1>4. book'.newest = book.newest
  BY <1>1 DEF reset_failed_attempts, NewRound, BookType
<1> QED
  BY <1>2, <1>3, <1>4, PassingLogin

LEMMA CapAudit ==
    ASSUME LoginInv, CapInv, NEW l \in Logins, emit_audit(l),
           UNCHANGED <<scene, clock, reset, admin>>
    PROVE  CapInv'
<1>1. Types /\ login[l] \in LoginType /\ login \in [Logins -> LoginType] /\ login[l].at = "audit"
  BY DEF LoginInv, Types, emit_audit, At
<1>2. /\ UNCHANGED <<registry, reset, admin, status, password>> /\ book'.newest = book.newest
      /\ login[l].at \notin {"relist", "trim", "evict", "register"}
  BY <1>1 DEF emit_audit, accountVars
<1>3. CASE Answer(l, "Authenticated") /\ UNCHANGED faults
  <2>1. Leads(l, {"done"})
    BY <1>1, <1>3, AnswerLeads
  <2> QED
    BY <1>2, <1>3, <2>1, LeadingLogin DEF Registered
<1>4. CASE Fault /\ login' = [login EXCEPT ![l].at = "undo", ![l].verdict = "Err"]
  <2>1. faults' # 0
    BY <1>4, Faults
  <2>2. Leads(l, {"undo"})
    BY <1>1, <1>4 DEF Leads, LoginType
  <2>3. Passes(l)
    BY <1>1, <1>2, <2>1, <2>2 DEF Passes, Leads, Registered
  <2>4. CalmStep(l)
    BY <1>2, <2>1, <2>2 DEF CalmStep, Leads, Unstirred
  <2> QED
    BY <1>2, <2>3, <2>4, PassingLogin
<1> QED
  BY <1>3, <1>4 DEF emit_audit

LEMMA CapRehash ==
    ASSUME LoginInv, CapInv, NEW l \in Logins, rehash_outdated_password(l),
           UNCHANGED <<scene, clock, reset, admin>>
    PROVE  CapInv'
<1>1. Types /\ login[l] \in LoginType /\ login \in [Logins -> LoginType] /\ login[l].at = "rehash"
  BY DEF LoginInv, Types, rehash_outdated_password, At
<1>2. login[l].config \in Passwords
  BY <1>1 DEF LoginInv, OtpOK, OtpLocal
<1>3. password'.id = password.id
  BY <1>2 DEF rehash_outdated_password, Passwords
<1>4. Leads(l, {"list"})
  BY <1>1, GoLeads DEF rehash_outdated_password
<1>5. UNCHANGED <<registry, status, faults, book>>
  BY DEF rehash_outdated_password
<1>6. Passes(l)
  BY <1>1, <1>4, <1>5 DEF Passes, Leads, Registered
<1>7. CalmStep(l)
  <2>1. Unstirred' => Unstirred
    BY <1>5 DEF Unstirred
  <2>2. Unstirred => login[l].stamp = 0
    BY DEF CapInv, CalmOK, CalmLogin
  <2> QED
    BY <1>3, <1>4, <1>5, <2>1, <2>2 DEF CalmStep, Leads, CalmLogin
<1> QED
  BY <1>5, <1>6, <1>7, PassingLogin

-----------------------------------------------------------------------------
(* A step that a failing call is part of. *)
LEMMA FaultPasses ==
    ASSUME LoginInv, CapInv, NEW l \in Logins, faults' # 0,
           \A k \in Logins \ {l} : login'[k] = login[k],
           login[l].at \in Registered => login'[l].at \in Registered,
           login'[l].at = "trim" => login[l].at = "trim" /\ login'[l].victims \subseteq login[l].victims
    PROVE  CapInv'
<1>1. CapOK' /\ CalmOK' /\ ~Unstirred'
  BY DEF CapOK, CalmOK, Unstirred
<1>2. login[l].victims \subseteq Logins
  BY DEF LoginInv, Types, LoginType
<1>3. login'[l].at = "trim" => \A v \in login'[l].victims : v \in Logins /\ login[v].at \in Registered
  BY <1>2 DEF CapInv, NewestOK, VictimsOK, Trimming
<1>4. VictimsOK'
  BY <1>3, VictimsPass DEF LoginInv, CapInv, NewestOK
<1> QED
  BY <1>1, <1>4 DEF CapInv, NewestOK

(* A step that leaves a login calm. *)
LEMMA CalmLeads ==
    ASSUME CalmOK, NEW l \in Logins, NEW P, Leads(l, P), "undo" \notin P,
           UNCHANGED <<reset, admin, status, password>>, faults' = 0 => faults = 0
    PROVE  CalmOK' /\ (Unstirred' => Unstirred)
<1>1. Unstirred' => Unstirred
  BY DEF Unstirred
<1>2. Unstirred => login[l].stamp = 0
  BY DEF CalmOK, CalmLogin
<1>3. CalmStep(l)
  BY <1>1, <1>2 DEF CalmStep, Leads, CalmLogin
<1> QED
  BY <1>3, CalmPasses

LEMMA CapRegister ==
    ASSUME LoginInv, CapInv, NEW l \in Logins, register(l),
           UNCHANGED <<scene, clock, reset, admin>>
    PROVE  CapInv'
<1>1. Types /\ login[l] \in LoginType /\ login[l].at = "register" /\ login[l].at \notin Registered
  BY DEF LoginInv, Types, register, At, Registered
<1>2. CASE Fault /\ Answer(l, "NoFlow")
  <2>1. faults' # 0 /\ Leads(l, {"done"})
    BY <1>1, <1>2, Faults, AnswerLeads
  <2> QED
    BY <1>1, <2>1, FaultPasses DEF Leads
<1>3. CASE /\ registry' = Append(registry, l)
           /\ Go(l, "relist")
           /\ book' = [book EXCEPT !.newest = <<l>>]
           /\ UNCHANGED faults
  <2>1. Leads(l, {"relist"})
    BY <1>1, <1>3, GoLeads
  <2>2. PICK s : s = registry
    OBVIOUS
  <2>3. s \in Seq(Logins) /\ Len(s) \in Nat
    BY <1>1, <2>2 DEF Types
  <2>4. PICK t : t = Append(s, l)
    OBVIOUS
  <2>5. Len(t) = Len(s) + 1 /\ t[Len(s) + 1] = l /\ \A i \in 1 .. Len(s) : t[i] = s[i]
    BY <2>3, <2>4
  <2>6. registry' = t
    BY <1>3, <2>2, <2>4
  <2>7. Last(l)'
    BY <2>3, <2>5, <2>6 DEF Last
  <2>8. \A k \in Logins \ {l} : Held(k)' => Held(k)
    <3>1. \A i \in 1 .. Len(t) : i \in 1 .. Len(s) \/ i = Len(s) + 1
      BY <2>3, <2>5
    <3> QED
      BY <2>2, <2>5, <2>6, <3>1 DEF Held
  <2>9. CapOK'
    <3>1. Seated' \subseteq Seated
      BY <2>1, <2>8 DEF Seated, Leads
    <3>2. \A t1 \in Trimming' : t1 \in Logins \ {l} /\ login'[t1] = login[t1] /\ t1 \in Trimming
      BY <2>1 DEF Trimming, Leads
    <3> QED
      BY <1>3, <2>8, <3>1, <3>2, CapCut DEF CapInv
  <2>10. CalmOK'
    BY <1>3, <2>1, CalmLeads DEF CapInv, register, accountVars
  <2>11. NewestFits(l)'
    <3>1. \A u \in Trimming' : l \notin login'[u].victims
      <4> SUFFICES ASSUME NEW u \in Trimming' PROVE l \notin login'[u].victims
        OBVIOUS
      <4>1. u \in Trimming /\ login'[u] = login[u]
        BY <2>1 DEF Trimming, Leads
      <4> QED
        BY <1>1, <4>1 DEF CapInv, NewestOK, VictimsOK
    <3> QED
      BY <2>1, <2>7, <3>1 DEF NewestFits, Leads, Registered
  <2>12. book'.newest = <<l>>
    BY <1>3 DEF LoginInv, Types, BookType
  <2>13. book'.newest[1] = l
    BY <2>12
  <2>14. VictimsOK'
    BY <1>1, <2>1, VictimsPass DEF Leads, CapInv, NewestOK
  <2>15. NewestFits(book.newest[1])'
    BY <2>11, <2>13 DEF NewestFits, Last, Held
  <2> QED
    BY <2>9, <2>10, <2>14, <2>15 DEF CapInv, NewestOK
<1> QED
  BY <1>2, <1>3 DEF register

-----------------------------------------------------------------------------
(* Who is last stays last when another goes, and is not among the oldest.  *)
LEMMA WithoutLast ==
    ASSUME Types, NEW v \in Logins, NEW k \in Logins, k # v, Last(k), registry' = Without(v)
    PROVE  Last(k)'
<1>1. PICK s : s = registry
  OBVIOUS
<1>2. s \in Seq(Logins) /\ Len(s) \in Nat /\ Len(s) > 0 /\ s[Len(s)] = k
  BY <1>1 DEF Types, Last
<1>3. CASE ~Held(v)
  BY <1>3 DEF Without, Last
<1>4. CASE Held(v)
  <2>1. PICK p : p = CHOOSE i \in 1 .. Len(s) : s[i] = v
    OBVIOUS
  <2>2. p \in 1 .. Len(s) /\ s[p] = v
    BY <1>1, <1>4, <2>1 DEF Held
  <2>3. PICK t : t = [i \in 1 .. Len(s) - 1 |-> s[IF i < p THEN i ELSE i + 1]]
    OBVIOUS
  <2>4. registry' = t
    BY <1>1, <1>4, <2>1, <2>3 DEF Without
  <2>5. p # Len(s)
    BY <1>2, <2>2
  <2>6. Len(s) - 1 \in Nat /\ Len(s) - 1 > 0 /\ Len(s) - 1 >= p /\ p \in Nat
    BY <1>2, <2>2, <2>5
  <2>7. Len(t) = Len(s) - 1
    <3>1. \A i \in 1 .. Len(s) - 1 : s[IF i < p THEN i ELSE i + 1] \in Logins
      BY <1>2, <2>2
    <3>2. t \in [1 .. Len(s) - 1 -> Logins]
      BY <2>3, <3>1
    <3> QED
      BY <2>6, <3>2
  <2>8. t[Len(s) - 1] = s[(Len(s) - 1) + 1]
    BY <2>3, <2>6
  <2>9. (Len(s) - 1) + 1 = Len(s)
    BY <1>2
  <2> QED
    BY <1>2, <2>4, <2>6, <2>7, <2>8, <2>9 DEF Last
<1> QED
  BY <1>3, <1>4

LEMMA LastStays ==
    ASSUME Types, Once, NEW n \in Logins, Held(n) => Last(n)
    PROVE  n \notin victims_after_register
<1> SUFFICES ASSUME n \in victims_after_register PROVE FALSE
  OBVIOUS
<1>1. PICK s : s = registry
  OBVIOUS
<1>2. s \in Seq(Logins) /\ Len(s) \in Nat /\ MaxSessions \in Nat \ {0}
  BY <1>1, LoginFlowAssumption DEF Types
<1>3. PICK e : e = Excess(Len(s))
  OBVIOUS
<1>4. e \in Nat /\ e <= Len(s) /\ (e = 0 \/ e < Len(s))
  BY <1>2, <1>3 DEF Excess
<1>5. PICK i \in 1 .. e : s[i] = n
  BY <1>1, <1>3 DEF victims_after_register, OldestFirst
<1>6. i \in 1 .. Len(s) /\ i # Len(s) /\ Len(s) \in 1 .. Len(s)
  BY <1>2, <1>4, <1>5
<1>7. s[Len(s)] = n
  BY <1>1, <1>5, <1>6 DEF Held, Last
<1> QED
  BY <1>1, <1>5, <1>6, <1>7 DEF Once

(* The second count: who is over the limit is known, and the newest is not *)
(* among them.                                                             *)
LEMMA CapLooks ==
    ASSUME LoginInv, CapOK, NEW l \in Logins, login[l].at = "relist", UNCHANGED <<registry, faults>>,
           NEW place, Leads(l, {place}), login'[l].victims = victims_after_register,
           place = IF victims_after_register = {} THEN "flow" ELSE "trim"
    PROVE  CapOK'
<1> SUFFICES ASSUME faults' = 0
             PROVE  \E C \in SUBSET Logins, W \in [Logins -> SUBSET Logins] : Bounds(C, W)'
  BY DEF CapOK
<1>1. PICK C \in SUBSET Logins, W \in [Logins -> SUBSET Logins] : Bounds(C, W)
  BY DEF CapOK
<1>2. PICK H : H = HeldSet
  OBVIOUS
<1>3. H \in SUBSET Logins /\ HeldSet' = H /\ \A k \in Logins : Held(k)' <=> k \in H
  BY <1>2 DEF HeldSet, Held
<1>4. PICK V : V = victims_after_register
  OBVIOUS
<1>5. Cardinality(H \ V) <= MaxSessions
  BY <1>2, <1>4, NewestAreFew DEF LoginInv
<1>6. \A t \in Trimming : /\ t \in Logins /\ W[t] \subseteq H /\ (t \in H => t \in W[t])
                          /\ Cardinality(W[t] \ login[t].victims) <= MaxSessions
                          /\ Comparable(C, W[t])
  BY <1>1, <1>2 DEF Bounds, Room, Trimming, HeldSet
<1>7. /\ Seated \subseteq C /\ C \subseteq H /\ Cardinality(C) <= MaxSessions
      /\ \A t, u \in Trimming : Comparable(W[t], W[u])
  BY <1>1, <1>2 DEF Bounds
<1>8. CASE V = {}
  <2>1. \A t \in Trimming' : t \in Trimming /\ login'[t] = login[t]
    BY <1>4, <1>8 DEF Leads, Trimming
  <2>2. Seated' \subseteq H
    BY <1>3 DEF Seated
  <2>3. H \ V = H
    BY <1>8
  <2>4. \A t \in Trimming' : Room(t, H, W)'
    BY <1>3, <1>6, <2>1 DEF Room, Comparable
  <2>5. Bounds(H, W)'
    BY <1>3, <1>5, <1>7, <2>1, <2>2, <2>3, <2>4 DEF Bounds
  <2> QED
    BY <1>3, <2>5
<1>9. CASE V # {}
  <2>1. PICK U : U = [W EXCEPT ![l] = H]
    OBVIOUS
  <2>2. U \in [Logins -> SUBSET Logins] /\ U[l] = H /\ \A t \in Logins \ {l} : U[t] = W[t]
    BY <1>3, <2>1
  <2>3. login'[l].at = "trim" /\ login'[l].victims = V
    BY <1>4, <1>9 DEF Leads
  <2>4. \A t \in Trimming' : t = l \/ (t \in Logins \ {l} /\ t \in Trimming /\ login'[t] = login[t])
    BY DEF Leads, Trimming
  <2>5. Seated' \subseteq C
    <3>1. Seated' \subseteq Seated
      BY <2>3 DEF Seated, Leads, Held
    <3> QED
      BY <1>7, <3>1
  <2>6. ASSUME NEW t \in Trimming' PROVE Room(t, C, U)'
    <3>1. CASE t = l
      BY <1>3, <1>5, <1>7, <2>2, <2>3, <3>1 DEF Room, Comparable
    <3>2. CASE t # l
      <4>1. t \in Logins \ {l} /\ t \in Trimming /\ login'[t] = login[t] /\ U[t] = W[t]
        BY <2>2, <2>4, <2>6, <3>2
      <4> QED
        BY <1>3, <1>6, <4>1 DEF Room
    <3> QED
      BY <3>1, <3>2
  <2>7. ASSUME NEW t \in Trimming', NEW u \in Trimming' PROVE Comparable(U[t], U[u])
    BY <1>6, <1>7, <2>2, <2>4 DEF Comparable
  <2>8. Bounds(C, U)'
    BY <1>3, <1>7, <2>5, <2>6, <2>7 DEF Bounds
  <2> QED
    BY <2>2, <2>8
<1> QED
  BY <1>8, <1>9

LEMMA CapHeldAgain ==
    ASSUME LoginInv, CapInv, NEW l \in Logins, held_sessions_again(l),
           UNCHANGED <<scene, clock, reset, admin>>
    PROVE  CapInv'
<1>1. Types /\ login[l] \in LoginType /\ login \in [Logins -> LoginType] /\ login[l].at = "relist"
  BY DEF LoginInv, Types, held_sessions_again, At
<1>2. CASE Fault /\ login' = [login EXCEPT ![l].at = "undo", ![l].verdict = "NoFlow"]
  <2>1. Leads(l, {"undo"}) /\ faults' # 0
    BY <1>1, <1>2, Faults DEF Leads, LoginType
  <2> QED
    BY <1>1, <2>1, FaultPasses DEF Leads, Registered
<1>3. CASE ~(Fault /\ login' = [login EXCEPT ![l].at = "undo", ![l].verdict = "NoFlow"])
  <2>1. PICK V : V = victims_after_register
    OBVIOUS
  <2>2. PICK place : place = IF V = {} THEN "flow" ELSE "trim"
    OBVIOUS
  <2>3. PICK verdict : verdict = IF l \in V THEN "lost" ELSE "kept"
    OBVIOUS
  <2>4. /\ login' = [login EXCEPT ![l].at = place, ![l].victims = V, ![l].verdict = verdict]
        /\ UNCHANGED faults
    BY <1>3, <2>1, <2>2, <2>3 DEF held_sessions_again
  <2>5. UNCHANGED <<registry, book, status, password>>
    BY DEF held_sessions_again, accountVars
  <2>6. Leads(l, {place}) /\ login'[l].victims = V
    BY <1>1, <2>4 DEF Leads, LoginType
  <2>7. CapOK'
    BY <1>1, <2>1, <2>2, <2>4, <2>5, <2>6, CapLooks DEF CapInv
  <2>8. CalmOK' /\ (Unstirred' => Unstirred)
    BY <2>2, <2>4, <2>5, <2>6, CalmLeads DEF CapInv
  <2>9. \A v \in V : v \in Logins /\ login[v].at \in Registered
    <3>1. V \subseteq HeldSet
      BY <2>1, NewestAreFew DEF LoginInv
    <3> QED
      BY <3>1 DEF HeldSet, LoginInv, SessionsOK, Fits
  <2>10. VictimsOK'
    BY <1>1, <2>2, <2>6, <2>9, VictimsPass DEF CapInv, NewestOK, Leads, Registered
  <2>11. ASSUME Unstirred', book.newest # <<>> PROVE NewestFits(book.newest[1])'
    <3>1. PICK n : n = book.newest[1]
      OBVIOUS
    <3>2. n \in Logins /\ NewestFits(n)
      BY <2>8, <2>11, <3>1, NewestIsLogin DEF CapInv, NewestOK, LoginInv
    <3>3. n \notin V
      BY <1>1, <2>1, <3>2, LastStays DEF NewestFits, LoginInv, SessionsOK
    <3>4. \A t \in Trimming' : n \notin login'[t].victims
      BY <2>6, <3>2, <3>3 DEF Trimming, Leads, NewestFits
    <3>5. login'[n].at \in Registered
      BY <2>2, <2>6, <3>2 DEF Leads, NewestFits, Registered
    <3>6. Pending => Pending'
      BY <1>1, <2>6 DEF Pending, Leads
    <3>7. NewestFits(n)'
      BY <2>5, <3>2, <3>4, <3>5, <3>6 DEF NewestFits, Last, Held
    <3> QED
      BY <2>5, <3>1, <3>7
  <2> QED
    BY <2>5, <2>7, <2>8, <2>10, <2>11 DEF CapInv, NewestOK
<1> QED
  BY <1>2, <1>3

-----------------------------------------------------------------------------
(* What a login's eviction of v makes of the login. *)
Evicts(l, v) ==
    LET remains == login[l].victims \ {v}
    IN  /\ remains # {} => Leads(l, {login[l].at}) /\ login'[l].victims = remains
        /\ remains = {} /\ login[l].at = "evict" => Leads(l, {"register"})
        /\ remains = {} /\ login[l].at = "trim" => Leads(l, {"flow", "done"})

LEMMA EvictLeads ==
    ASSUME LoginInv, NEW l \in Logins, NEW v \in Logins, evict_sessions(l, v)
    PROVE  Evicts(l, v)
<1>1. Types /\ login[l] \in LoginType /\ login \in [Logins -> LoginType]
  BY DEF LoginInv, Types
<1>2. PICK remains : remains = login[l].victims \ {v}
  OBVIOUS
<1>3. ASSUME remains # {} PROVE Leads(l, {login[l].at}) /\ login'[l].victims = remains
  <2>1. login' = [login EXCEPT ![l].victims = remains]
    BY <1>2, <1>3 DEF evict_sessions
  <2> QED
    BY <1>1, <2>1 DEF Leads, LoginType
<1>4. ASSUME remains = {}, login[l].at = "evict" PROVE Leads(l, {"register"})
  <2>1. login' = [login EXCEPT ![l].victims = {}, ![l].at = "register"]
    BY <1>2, <1>4 DEF evict_sessions, At
  <2> QED
    BY <1>1, <2>1 DEF Leads, LoginType
<1>5. ASSUME remains = {}, login[l].at = "trim" PROVE Leads(l, {"flow", "done"})
  <2>1. CASE login[l].verdict = "lost"
    <3>1. Answer(l, "NoFlow")
      BY <1>2, <1>5, <2>1 DEF evict_sessions, At
    <3> QED
      BY <1>1, <3>1, AnswerLeads DEF Leads
  <2>2. CASE login[l].verdict # "lost"
    <3>1. login' = [login EXCEPT ![l].victims = {}, ![l].at = "flow"]
      BY <1>2, <1>5, <2>2 DEF evict_sessions, At
    <3> QED
      BY <1>1, <3>1 DEF Leads, LoginType
  <2> QED
    BY <2>1, <2>2
<1> QED
  BY <1>2, <1>3, <1>4, <1>5 DEF Evicts

LEMMA CapEvict ==
    ASSUME LoginInv, CapInv, NEW l \in Logins, NEW v \in Logins, evict_sessions(l, v),
           UNCHANGED <<scene, clock, reset, admin>>
    PROVE  CapInv'
<1>1. /\ Types /\ Once /\ login[l].at \in {"evict", "trim"} /\ v \in login[l].victims
      /\ Evicts(l, v) /\ UNCHANGED <<book, status, password>>
  BY EvictLeads DEF LoginInv, SessionsOK, evict_sessions, accountVars
<1>2. PICK remains : remains = login[l].victims \ {v}
  OBVIOUS
<1>3. PICK P : P = IF remains # {} THEN {login[l].at} ELSE IF login[l].at = "evict" THEN {"register"} ELSE {"flow", "done"}
  OBVIOUS
<1>4. Leads(l, P) /\ P \subseteq {"evict", "trim", "register", "flow", "done"}
      /\ (login[l].at = "evict" => P \subseteq {"evict", "register"})
      /\ (login[l].at = "trim" => P \subseteq {"trim", "flow", "done"})
      /\ (login'[l].at = "trim" => remains # {} /\ login[l].at = "trim" /\ login'[l].victims = remains)
      /\ (login'[l].at # "trim" /\ login[l].at = "trim" => remains = {})
  <2>1. CASE remains # {}
    BY <1>1, <1>2, <1>3, <2>1 DEF Evicts, Leads
  <2>2. CASE remains = {}
    BY <1>1, <1>2, <1>3, <2>2 DEF Evicts, Leads
  <2> QED
    BY <2>1, <2>2
<1>5. CASE Fault
  <2>1. faults' # 0
    BY <1>5, Faults
  <2> QED
    BY <1>1, <1>2, <1>4, <2>1, FaultPasses DEF Leads, Registered
<1>6. CASE registry' = Without(v) /\ UNCHANGED faults
  <2>1. \A k \in Logins : Held(k)' <=> Held(k) /\ k # v
    BY <1>1, <1>6, WithoutDrops
  <2>2. CalmOK' /\ (Unstirred' => Unstirred)
    BY <1>1, <1>4, <1>6, CalmLeads DEF CapInv
  <2>3. VictimsOK'
    <3>1. login'[l].at = "trim" => \A w \in login'[l].victims : w \in Logins /\ login[w].at \in Registered
      <4>1. login[l].victims \subseteq Logins
        BY <1>1 DEF Types, LoginType
      <4> QED
        BY <1>2, <1>4, <4>1 DEF CapInv, NewestOK, VictimsOK, Trimming
    <3> QED
      BY <1>1, <1>4, <3>1, VictimsPass DEF CapInv, NewestOK, Leads, Registered
  <2>4. CapOK'
    <3>1. Trimming' \subseteq Trimming
      BY <1>4 DEF Trimming, Leads
    <3>2. ASSUME NEW t \in Trimming'
          PROVE  /\ Held(t)' => Held(t)
                 /\ \A w \in login[t].victims : w \in login'[t].victims \/ ~(w \in HeldSet')
      <4>1. t \in Logins
        BY DEF Trimming
      <4>2. CASE t # l
        BY <1>4, <2>1, <4>1, <4>2 DEF Leads
      <4>3. CASE t = l
        <5>1. login'[l].victims = login[l].victims \ {v}
          BY <1>2, <1>4, <3>2, <4>3 DEF Trimming
        <5>2. ~(v \in HeldSet')
          BY <2>1 DEF HeldSet
        <5> QED
          BY <2>1, <4>3, <5>1, <5>2
      <4> QED
        BY <4>2, <4>3
    <3>3. CASE login[l].at = "evict" \/ login'[l].at = "trim"
      <4>1. Seated' \subseteq Seated
        <5>1. login[l].at = "evict" => ~Held(l)
          BY Unregistered DEF Registered
        <5> QED
          BY <1>1, <1>4, <2>1, <3>3, <5>1 DEF Seated, Leads
      <4> QED
        BY <1>6, <3>1, <3>2, <4>1, CapCut DEF CapInv
    <3>4. CASE login[l].at = "trim" /\ login'[l].at # "trim"
      <4>1. Seated' \subseteq Seated \cup {l}
        BY <1>4, <2>1 DEF Seated, Leads
      <4>2. Trimming' \subseteq Trimming \ {l} /\ l \in Trimming
        BY <3>1, <3>4 DEF Trimming
      <4>3. \A w \in login[l].victims : ~(w \in HeldSet')
        BY <1>2, <1>4, <2>1, <3>4 DEF HeldSet
      <4> QED
        BY <1>6, <2>1, <3>2, <4>1, <4>2, <4>3, CapSettles DEF CapInv
    <3> QED
      BY <1>1, <3>3, <3>4
  <2>5. ASSUME Unstirred', book.newest # <<>> PROVE NewestFits(book.newest[1])'
    <3>1. PICK n : n = book.newest[1]
      OBVIOUS
    <3>2. n \in Logins /\ NewestFits(n)
      BY <1>1, <2>2, <2>5, <3>1, NewestIsLogin DEF CapInv, NewestOK
    <3>3. login'[n].at \in Registered
      BY <1>1, <1>4, <3>2 DEF Leads, NewestFits, Registered
    <3>4. Held(n)' => Last(n)'
      BY <1>1, <1>6, <2>1, <3>2, WithoutLast DEF NewestFits
    <3>5. Pending' \/ Last(n)'
      <4>1. CASE login[l].at = "evict"
        BY <1>4, <4>1 DEF Pending, Leads
      <4>2. CASE login[l].at = "trim"
        <5>1. n # v
          BY <1>1, <3>2, <4>2 DEF NewestFits, Trimming
        <5>2. Pending => Pending'
          BY <1>4, <4>2 DEF Pending, Leads
        <5> QED
          BY <1>1, <1>6, <3>2, <5>1, <5>2, WithoutLast DEF NewestFits
      <4> QED
        BY <1>1, <4>1, <4>2
    <3>6. \A t \in Trimming' : n \notin login'[t].victims
      BY <1>2, <1>4, <3>2 DEF Trimming, Leads, NewestFits
    <3>7. NewestFits(n)'
      BY <3>3, <3>4, <3>5, <3>6 DEF NewestFits
    <3> QED
      BY <1>1, <3>1, <3>7
  <2> QED
    BY <1>1, <2>2, <2>3, <2>4, <2>5 DEF CapInv, NewestOK
<1> QED
  BY <1>5, <1>6 DEF evict_sessions

LEMMA CapLogins ==
    ASSUME LoginInv, CapInv, NEW l \in Logins, LoginStep(l), UNCHANGED <<scene, clock, reset, admin>>
    PROVE  CapInv'
BY CapBegin, CapStamp, CapCurrent, CapStatus, CapResolve, CapReserve, CapVerify, CapFailLoad, CapFailSwap,
   CapFailReload, CapPass, CapFailure, CapRelease, CapRehash, CapHeld, CapEvict, CapRegister, CapHeldAgain,
   CapFlow, CapRecheck, CapUndo, CapClear, CapAudit DEF LoginStep

-----------------------------------------------------------------------------
(* Steps of a reset and of the administrator, who end every session or     *)
(* none.                                                                   *)
LEMMA CapOthers ==
    ASSUME CapInv, UNCHANGED login, registry' = registry \/ registry' = <<>>,
           faults' = 0 => faults = 0, ~Unstirred'
    PROVE  CapInv'
<1>1. \A k \in Logins : Held(k)' => Held(k)
  BY DEF Held
<1>2. Seated' \subseteq Seated /\ Trimming' = Trimming
  BY <1>1 DEF Seated, Trimming
<1>3. \A t \in Trimming' : t \in Logins
  BY DEF Trimming
<1>4. CapOK'
  BY <1>1, <1>2, <1>3, CapCut DEF CapInv
<1>5. VictimsOK'
  BY <1>2 DEF CapInv, NewestOK, VictimsOK
<1> QED
  BY <1>4, <1>5 DEF CapInv, CalmOK, NewestOK

LEMMA CapGoes ==
    ASSUME LoginInv, CapInv, NEW r \in Resets, NEW place, place # "idle", GoReset(r, place),
           UNCHANGED login, registry' = registry \/ registry' = <<>>, faults' = 0 => faults = 0
    PROVE  CapInv'
<1>1. reset'[r].at = place
  BY DEF GoReset, LoginInv, Types, ResetType
<1>2. ~Unstirred'
  BY <1>1 DEF Unstirred
<1> QED
  BY <1>2, CapOthers

LEMMA CapRefuses ==
    ASSUME LoginInv, CapInv, NEW r \in Resets, NEW answer, Refuse(r, answer),
           UNCHANGED <<login, registry>>, faults' = 0 => faults = 0
    PROVE  CapInv'
<1>1. reset'[r].at = "done"
  BY DEF Refuse, NewReset, LoginInv, Types
<1>2. ~Unstirred'
  BY <1>1 DEF Unstirred
<1> QED
  BY <1>2, CapOthers

LEMMA CapResets ==
    ASSUME LoginInv, CapInv, NEW r \in Resets, ResetStep(r), UNCHANGED <<scene, clock, admin>>
    PROVE  CapInv'
<1>1. reset \in [Resets -> ResetType] /\ reset[r] \in ResetType
  BY DEF LoginInv, Types
<1> USE DEF sessionVars
<1>2. ASSUME NEW t, reset_refusal_reason(r, t) PROVE CapInv'
  <2>1. CASE reset' = [reset EXCEPT ![r].at = "peek", ![r].token = t]
    <3>1. reset'[r].at = "peek"
      BY <1>1, <2>1 DEF ResetType
    <3> QED
      BY <1>2, <3>1, CapOthers DEF reset_refusal_reason, Unstirred
  <2>2. CASE Refuse(r, "refused")
    BY <1>2, <2>2, CapRefuses DEF reset_refusal_reason
  <2> QED
    BY <1>2, <2>1, <2>2 DEF reset_refusal_reason
<1>3. CASE peek_reset_token(r)
  BY <1>3, CapGoes, CapRefuses DEF peek_reset_token
<1>4. CASE replaced_hash_to_record(r)
  <2>1. PICK x : reset' = [reset EXCEPT ![r].at = "readmit", ![r].replaced = x]
    BY <1>4 DEF replaced_hash_to_record
  <2>2. reset'[r].at = "readmit"
    BY <1>1, <2>1 DEF ResetType
  <2> QED
    BY <1>4, <2>2, CapOthers DEF replaced_hash_to_record, Unstirred
<1>5. CASE readmit(r)
  BY <1>5, CapGoes, CapRefuses DEF readmit
<1>6. CASE spend_reset_token(r)
  <2>1. CASE Refuse(r, "refused")
    BY <1>6, <2>1, CapRefuses DEF spend_reset_token
  <2>2. CASE ~Refuse(r, "refused")
    <3>1. PICK place \in {"record", "record_replaced"} : GoReset(r, place)
      BY <1>6, <2>2 DEF spend_reset_token
    <3> QED
      BY <1>6, <3>1, CapGoes DEF spend_reset_token
  <2> QED
    BY <2>1, <2>2
<1>7. CASE record_replaced(r)
  BY <1>7, CapGoes, CapRefuses, Faults DEF record_replaced
<1>8. CASE record_password_hash(r)
  BY <1>8, CapGoes, CapRefuses, Faults DEF record_password_hash
<1>9. CASE save_factor(r)
  BY <1>9, CapGoes, CapRefuses, Faults DEF save_factor
<1>10. CASE end_sessions_of_reset(r)
  <2>1. CASE GoReset(r, "counter")
    BY <1>10, <2>1, CapGoes, Faults DEF end_sessions_of_reset
  <2>2. CASE Fault /\ reset' = [reset EXCEPT ![r].at = "counter", ![r].failed = TRUE] /\ UNCHANGED registry
    <3>1. faults' # 0
      BY <2>2, Faults
    <3> QED
      BY <1>10, <2>2, <3>1, CapOthers DEF end_sessions_of_reset, Unstirred
  <2> QED
    BY <1>10, <2>1, <2>2 DEF end_sessions_of_reset
<1>11. CASE finish_password_reset(r)
  <2>1. reset'[r].at = "done"
    BY <1>1, <1>11 DEF finish_password_reset, NewReset
  <2>2. UNCHANGED <<login, registry>> /\ (faults' = 0 => faults = 0)
    BY <1>11, Faults DEF finish_password_reset
  <2> QED
    BY <2>1, <2>2, CapOthers DEF Unstirred
<1> QED
  BY <1>2, <1>3, <1>4, <1>5, <1>6, <1>7, <1>8, <1>9, <1>10, <1>11 DEF ResetStep

LEMMA CapAdmin ==
    ASSUME LoginInv, CapInv, AdminStep
    PROVE  CapInv'
<1>1. admin \in AdminType
  BY DEF LoginInv, Types
<1>2. UNCHANGED login
  BY DEF AdminStep
<1>3. CASE suspend_user
  BY <1>2, <1>3, CapOthers DEF suspend_user, Unstirred
<1>4. CASE delete_user
  BY <1>2, <1>4, CapOthers DEF delete_user, Unstirred
<1>5. CASE end_user_sessions
  <2>1. CASE Fault
    BY <1>2, <1>5, <2>1, Faults, CapOthers DEF end_user_sessions, Unstirred
  <2>2. CASE ~Fault
    <3>1. PICK place \in {"erase", "done"} : GoAdmin(place)
      BY <1>5, <2>2 DEF end_user_sessions
    <3>2. admin'.at = place
      BY <1>1, <3>1 DEF GoAdmin, AdminType
    <3> QED
      BY <1>2, <1>5, <2>2, <3>2, CapOthers DEF end_user_sessions, Unstirred
  <2> QED
    BY <2>1, <2>2
<1>6. CASE erase_user
  <2>1. admin'.at = "done"
    BY <1>1, <1>6 DEF erase_user, GoAdmin, AdminType
  <2> QED
    BY <1>2, <1>6, <2>1, Faults, CapOthers DEF erase_user, Unstirred
<1>7. CASE activate_user
  <2>1. admin'.at = "done"
    BY <1>1, <1>7 DEF activate_user, AdminType
  <2> QED
    BY <1>2, <1>7, <2>1, CapOthers DEF activate_user, Unstirred
<1> QED
  BY <1>3, <1>4, <1>5, <1>6, <1>7 DEF AdminStep

(* Steps that touch nothing the invariant reads. *)
LEMMA CapStays ==
    ASSUME CapInv, UNCHANGED <<login, registry, faults, admin, reset, status, password>>,
           book'.newest = book.newest
    PROVE  CapInv'
<1>1. CapOK'
  <2>1. Seated' = Seated /\ Trimming' = Trimming /\ \A t \in Trimming' : Held(t)' => Held(t)
    BY DEF Seated, Trimming, Held
  <2> QED
    BY <2>1, CapCut DEF CapInv
<1>2. CalmOK' /\ (Unstirred' => Unstirred)
  BY DEF CapInv, CalmOK, Unstirred
<1>3. NewestOK'
  BY <1>2 DEF CapInv, NewestOK, VictimsOK, Trimming, NewestFits, Pending, Last, Held
<1> QED
  BY <1>1, <1>2, <1>3 DEF CapInv

LEMMA CapNext ==
    ASSUME LoginInv, CapInv, [Next]_vars
    PROVE  CapInv'
<1>1. CASE begin_password_reset /\ UNCHANGED admin
  <2>1. book'.newest = book.newest
    BY <1>1 DEF begin_password_reset, LoginInv, Types, BookType
  <2> QED
    BY <1>1, <2>1, CapStays DEF begin_password_reset, sessionVars
<1>2. CASE Tick
  BY <1>2, CapStays DEF Tick, accountVars, sessionVars
<1>3. CASE UNCHANGED vars
  BY <1>3, CapStays DEF vars
<1> QED
  BY <1>1, <1>2, <1>3, CapLogins, CapResets, CapAdmin DEF Next

(* However the logins at the session limit interleave, no more sessions    *)
(* than the limit outlive their logins, and the one that registered last   *)
(* is among them: register_authenticated_session counts again after it has *)
(* registered, and evicts the oldest of what it then sees.                 *)
THEOREM CapKept == Spec => []CapKeepsNewest
<1>1. LoginInv /\ CapInv /\ [Next]_vars => CapInv'
  BY CapNext
<1>2. CapInv /\ LoginInv => CapKeepsNewest
  <2> SUFFICES ASSUME CapInv, LoginInv PROVE CapKeepsNewest
    OBVIOUS
  <2>1. CapHolds
    <3> SUFFICES ASSUME faults = 0
                 PROVE  Cardinality({l \in Logins : Held(l) /\ login[l].at \notin {"relist", "trim"}}) <= MaxSessions
      BY DEF CapHolds
    <3>1. PICK C \in SUBSET Logins, W \in [Logins -> SUBSET Logins] : Bounds(C, W)
      BY DEF CapInv, CapOK
    <3>2. Seated \in SUBSET C /\ Cardinality(C) <= MaxSessions
      BY <3>1 DEF Bounds
    <3>3. Cardinality(Seated) <= MaxSessions
      BY <3>2, SmallerSet
    <3> QED
      BY <3>3 DEF Seated
  <2>2. NewestSurvives
    <3> SUFFICES ASSUME book.newest # <<>>, Unstirred, \A l \in Logins : login[l].at \in {"idle", "done"}
                 PROVE  Held(book.newest[1])
      BY DEF NewestSurvives, Unstirred, InReset
    <3>1. ~Pending
      BY DEF Pending
    <3>2. Last(book.newest[1])
      BY <3>1 DEF CapInv, NewestOK, NewestFits
    <3>3. Len(registry) \in Nat /\ Len(registry) > 0
      BY <3>2 DEF Last, LoginInv, Types
    <3> QED
      BY <3>2, <3>3 DEF Last, Held
  <2> QED
    BY <2>1, <2>2 DEF CapKeepsNewest
<1> QED
  BY <1>1, <1>2, CapInit, Inductive, PTL DEF Spec

-----------------------------------------------------------------------------
(* Devices. *)

(* Where the steps that only look at locals may leave a call. *)
Calm == {"members", "mint", "load", "get", "done", "each", "unlist"}
(* m goes on from l, on no device of its own making. *)
Steady(l, m, t, K, B, D, V) ==
    Sound(m, t, K, B, D, V) /\ ~Making(m) /\ m.role = l.role /\ m.now \in {0, l.now} /\ m.pc \in Calm

-----------------------------------------------------------------------------
LEMMA RoleIs ==
    ASSUME NEW r \in Role
    PROVE  /\ r.kind \in {"ensure", "resolve", "promote", "bind", "use", "set", "save", "delete", "sweep"}
           /\ r.kind \in {"ensure", "resolve"} => r.user \in Owners
           /\ r.kind = "resolve" => r.id \in Ids \cup {NoId} /\ r.session \in Ids \cup {NoId}
           /\ r.kind \in {"promote", "bind", "use", "set", "save", "delete"} => r.id \in Ids
           /\ r.kind \in {"bind", "use"} => r.cred \in Credential
           /\ r.kind = "set" => r.level \in Levels
BY DEF Role

LEMMA PlainOp ==
    ASSUME NEW t, NEW k \in {"none", "sight", "claim", "promote", "set", "sweep", "delete"}
    PROVE  [kind |-> k] \in Op(t)
BY DEF Op

LEMMA NothingFound == ASSUME NEW t PROVE {} \in Finds(t)
BY DEF Finds

LEMMA GoesIs ==
    ASSUME NEW t, NEW l \in Call(t), NEW p \in Pcs
    PROVE  /\ Goes(l, p) \in Call(t) /\ Goes(l, p).pc = p
           /\ Goes(l, p).role = l.role /\ Goes(l, p).now = l.now /\ Goes(l, p).id = l.id /\ Goes(l, p).stage = l.stage /\ Goes(l, p).op = l.op
           /\ Goes(l, p).held = l.held /\ Goes(l, p).at = l.at /\ Goes(l, p).row = l.row /\ Goes(l, p).found = l.found
           /\ Goes(l, p).listed = l.listed /\ Goes(l, p).out = l.out
BY DEF Goes, Call, Locals

LEMMA AnswersIs ==
    ASSUME NEW t \in Nat, NEW l \in Call(t),
           NEW o \in {"none", "served", "error", "bound", "ok", "contended"} \cup Levels
    PROVE  /\ Answers(l, o) \in Call(t) /\ Answers(l, o).pc = "done" /\ Answers(l, o).out = o
           /\ Answers(l, o).role = l.role /\ Answers(l, o).now = 0 /\ Answers(l, o).id = l.id /\ Answers(l, o).stage = "none"
           /\ Answers(l, o).op = [kind |-> "none"] /\ Answers(l, o).held = NoGuard
<1>1. {"done", "none"} \subseteq Pcs /\ Skip \in [step : {"skip", "remove", "write"}, row : Rows(t) \cup {Absent}]
  BY DEF Pcs, Skip, Writing
<1>2. [kind |-> "none"] \in Op(t) BY PlainOp
<1>3. NewCall \in Locals(t, {[kind |-> "none", user |-> NoUser]})
  <2>1. "new" \in Pcs BY DEF Pcs
  <2> QED BY <1>1, <1>2, <2>1, NothingFound DEF NewCall, Locals
<1>4. l.role \in Role /\ l.id \in Ids \cup {NoId} BY DEF Call, Locals
<1>5. NewCall.stage = "none" /\ NewCall.op = [kind |-> "none"] /\ NewCall.held = NoGuard /\ NewCall.now = 0 BY DEF NewCall
<1>6. ASSUME NEW R, NEW n \in Locals(t, R), n.stage = "none", n.op = [kind |-> "none"], n.held = NoGuard, n.now = 0,
             NEW m, m = [n EXCEPT !.pc = "done", !.role = l.role, !.id = l.id, !.out = o]
      PROVE  /\ m \in Call(t) /\ m.pc = "done" /\ m.out = o /\ m.role = l.role /\ m.now = 0 /\ m.id = l.id /\ m.stage = "none"
             /\ m.op = [kind |-> "none"] /\ m.held = NoGuard
  BY <1>1, <1>4, <1>6 DEF Call, Locals
<1> QED BY <1>3, <1>5, <1>6 DEF Answers

LEMMA AppliesIs ==
    ASSUME NEW t, NEW l \in Call(t), NEW op \in Op(t)
    PROVE  /\ Applies(l, op) \in Call(t) /\ Applies(l, op).pc = "get" /\ Applies(l, op).op = op
           /\ Applies(l, op).role = l.role /\ Applies(l, op).now = l.now /\ Applies(l, op).id = l.id /\ Applies(l, op).stage = l.stage
           /\ Applies(l, op).held = l.held /\ Applies(l, op).found = l.found
<1>1. "get" \in Pcs /\ Skip \in [step : {"skip", "remove", "write"}, row : Rows(t) \cup {Absent}]
  BY DEF Pcs, Skip, Writing
<1> QED BY <1>1 DEF Applies, Call, Locals

LEMMA LooksIs ==
    ASSUME NEW t, NEW l \in Call(t), NEW s \in {"own", "fp", "tenant"}
    PROVE  /\ Looks(l, s) \in Call(t) /\ Looks(l, s).pc = "members" /\ Looks(l, s).stage = s
           /\ Looks(l, s).role = l.role /\ Looks(l, s).now = l.now /\ Looks(l, s).id = l.id /\ Looks(l, s).held = l.held
           /\ Looks(l, s).op = l.op
<1>1. "members" \in Pcs BY DEF Pcs, Makings, Lookups
<1> QED BY <1>1 DEF Looks, Call, Locals

LEMMA LoadsIs ==
    ASSUME NEW t, NEW l \in Call(t), NEW s \in {"presented", "session", "none"}, NEW d \in Ids
    PROVE  /\ Loads(l, s, d) \in Call(t) /\ Loads(l, s, d).pc = "load" /\ Loads(l, s, d).stage = s
           /\ Loads(l, s, d).role = l.role /\ Loads(l, s, d).now = l.now /\ Loads(l, s, d).id = d /\ Loads(l, s, d).held = l.held
           /\ Loads(l, s, d).op = l.op
<1>1. "load" \in Pcs BY DEF Pcs, Loading
<1> QED BY <1>1 DEF Loads, Call, Locals

-----------------------------------------------------------------------------
LEMMA AnswersSteady ==
    ASSUME NEW t \in Nat, NEW K, NEW B, NEW D, NEW V, NEW l \in Call(t),
           NEW o \in {"none", "served", "error", "bound", "ok", "contended"} \cup Levels,
           o = "served" => /\ l.role.kind \in {"ensure", "resolve"} /\ l.id \in K
                           /\ l.role.user # NoUser => OwnerIs(l.id, l.role.user, D, V),
           o \in ServedOuts => l.id \notin B
    PROVE  Steady(l, Answers(l, o), t, K, B, D, V)
<1> DEFINE m == Answers(l, o)
<1>1. /\ m \in Call(t) /\ m.pc = "done" /\ m.role = l.role /\ m.now = 0 /\ m.id = l.id /\ m.out = o /\ m.held = NoGuard
      /\ m.stage = "none" /\ m.op = [kind |-> "none"]
  BY AnswersIs
<1> HIDE DEF m
<1>2. Staged(m) /\ Place(m) = "done" /\ Calm = Calm /\ m.pc \in Calm BY <1>1 DEF Staged, Place, Calm
<1> QED
  BY <1>1, <1>2 DEF Steady, Sound, Placed, Decided, Binds, Knowing, Holds, Clear, Owning, Making, Makings,
                    Lookups, Writing, Loading, m

LEMMA SightingSteady ==
    ASSUME NEW t \in Nat, NEW K, NEW B, NEW D, NEW V, NEW l \in Call(t), Staged(l), Holds(l, K),
           l.role.kind \in {"ensure", "resolve"}, l.id \in K, l.id \notin B, l.id \in Ids,
           l.role.user # NoUser => OwnerIs(l.id, l.role.user, D, V)
    PROVE  Steady(l, note_sighting(l), t, K, B, D, V)
<1> DEFINE m == Applies(l, [kind |-> "sight"])
<1>1. /\ m \in Call(t) /\ m.pc = "get" /\ m.role = l.role /\ m.now = l.now /\ m.id = l.id /\ m.held = l.held
      /\ m.stage = l.stage /\ m.op = [kind |-> "sight"]
  BY AppliesIs, PlainOp
<1> HIDE DEF m
<1>2. Staged(m) /\ Place(m) = "get" /\ m.pc \in Calm /\ Writers(m.op) = {"ensure", "resolve", "promote"}
  BY <1>1 DEF Staged, Place, Calm, Writers
<1>3. Steady(l, m, t, K, B, D, V)
  BY <1>1, <1>2 DEF Steady, Sound, Placed, Decided, Binds, Knowing, Holds, Clear, Owning, Making, Makings,
                    Lookups, Writing, Loading
<1>4. Steady(l, Serves(l), t, K, B, D, V) BY AnswersSteady DEF Serves
<1> QED
  BY <1>3, <1>4 DEF note_sighting, m

LEMMA NextStageSteady ==
    ASSUME NEW t \in Nat, NEW K, NEW B, NEW D, NEW V, NEW l \in Call(t), Staged(l), Holds(l, K),
           l.role.kind \in {"ensure", "resolve"}
    PROVE  Steady(l, NextStage(l), t, K, B, D, V)
<1>1. CASE l.stage = "own"
  <2> DEFINE m == Looks(l, "fp")
  <2>1. /\ m \in Call(t) /\ m.pc = "members" /\ m.stage = "fp" /\ m.role = l.role /\ m.now = l.now /\ m.held = l.held /\ m.op = l.op
    BY LooksIs
  <2>2. m = NextStage(l) BY <1>1 DEF NextStage
  <2>3. l.role.kind = "ensure" BY <1>1 DEF Staged
  <2> HIDE DEF m
  <2>4. Staged(m) /\ Place(m) = "members" /\ m.pc \in Calm BY <2>1, <2>3 DEF Staged, Place, Calm
  <2> QED
    BY <2>1, <2>2, <2>3, <2>4 DEF Steady, Sound, Placed, Decided, Binds, Knowing, Holds, Clear, Owning, Making,
                                  Makings, Lookups, Writing, Loading
<1>2. CASE l.stage = "presented" /\ l.role.user = NoUser
  <2> DEFINE n == [l EXCEPT !.id = NoId]
  <2>1. n \in Call(t) /\ n.role = l.role /\ n.now = l.now BY DEF Call, Locals
  <2>2. NextStage(l) = Answers(n, "none") BY <1>2 DEF NextStage
  <2> HIDE DEF n
  <2>3. Steady(n, Answers(n, "none"), t, K, B, D, V) BY <2>1, AnswersSteady DEF ServedOuts
  <2> QED BY <2>1, <2>2, <2>3 DEF Steady
<1>3. CASE l.stage = "presented" /\ l.role.user # NoUser /\ l.role.session # NoId
  <2> DEFINE m == Loads(l, "session", l.role.session)
  <2>1. l.role.kind = "resolve" /\ l.role \in Role BY <1>3 DEF Staged, Call, Locals
  <2>2. l.role.session \in Ids BY <2>1, <1>3, RoleIs
  <2>3. /\ m \in Call(t) /\ m.pc = "load" /\ m.stage = "session" /\ m.role = l.role /\ m.now = l.now /\ m.held = l.held /\ m.id \in Ids /\ m.op = l.op
    BY <2>2, LoadsIs
  <2>4. m = NextStage(l) BY <1>3 DEF NextStage
  <2> HIDE DEF m
  <2>5. Staged(m) /\ Place(m) = "load" /\ m.pc \in Calm BY <2>1, <2>3 DEF Staged, Place, Calm
  <2> QED
    BY <2>1, <2>3, <2>4, <2>5 DEF Steady, Sound, Placed, Decided, Binds, Knowing, Holds, Clear, Owning, Making,
                                  Makings, Lookups, Writing, Loading
<1>4. CASE \/ l.stage = "presented" /\ l.role.user # NoUser /\ l.role.session = NoId
           \/ l.stage \notin {"own", "presented"}
  <2> DEFINE m == Goes(l, "mint")
  <2>1. "mint" \in Pcs BY DEF Pcs
  <2>2. m \in Call(t) /\ m.pc = "mint" /\ m.stage = l.stage /\ m.role = l.role /\ m.now = l.now /\ m.held = l.held /\ m.op = l.op
    BY <2>1, GoesIs
  <2>3. m = NextStage(l) BY <1>4 DEF NextStage
  <2> HIDE DEF m
  <2>4. Staged(m) /\ Place(m) = "mint" /\ m.pc \in Calm BY <2>2 DEF Staged, Place, Calm
  <2> QED
    BY <2>2, <2>3, <2>4 DEF Steady, Sound, Placed, Decided, Binds, Knowing, Holds, Clear, Owning, Making,
                            Makings, Lookups, Writing, Loading
<1> QED BY <1>1, <1>2, <1>3, <1>4

LEMMA UsesSteady ==
    ASSUME NEW t \in Nat, NEW K, NEW B, NEW D, NEW V, NEW l \in Call(t), Staged(l), Holds(l, K),
           l.role.kind \in {"ensure", "resolve"}, l.id \in K, l.id \notin B, l.id \in Ids,
           l.row.user = l.role.user \/ NoUser \in {l.row.user, l.role.user}, Belongs(l.id, l.row, D, V)
    PROVE  Steady(l, Uses(l), t, K, B, D, V)
<1>1. CASE l.row.user = NoUser /\ l.role.user # NoUser
  <2> DEFINE m == Applies(l, [kind |-> "claim"])
  <2>1. /\ m \in Call(t) /\ m.pc = "get" /\ m.role = l.role /\ m.now = l.now /\ m.id = l.id /\ m.held = l.held
        /\ m.stage = l.stage /\ m.op = [kind |-> "claim"]
    BY AppliesIs, PlainOp
  <2>2. m = Uses(l) BY <1>1 DEF Uses
  <2> HIDE DEF m
  <2>3. Staged(m) /\ Place(m) = "get" /\ m.pc \in Calm /\ Writers(m.op) = {"ensure", "resolve"}
    BY <2>1 DEF Staged, Place, Calm, Writers
  <2> QED
    BY <1>1, <2>1, <2>2, <2>3 DEF Steady, Sound, Placed, Decided, Binds, Knowing, Holds, Clear, Owning, Making,
                                  Makings, Lookups, Writing, Loading
<1>2. CASE ~(l.row.user = NoUser /\ l.role.user # NoUser)
  <2>1. l.role.user # NoUser => OwnerIs(l.id, l.role.user, D, V) BY <1>2 DEF Belongs
  <2> QED BY <1>2, <2>1, SightingSteady DEF Uses
<1> QED BY <1>1, <1>2

(* A set of natural numbers has a least one. *)
LEMMA Least ==
    ASSUME NEW T, T \subseteq Nat, T # {}
    PROVE  \E a \in T : \A b \in T : a <= b
<1>1. PICK a \in T : \A b \in T : ~ (<<b, a>> \in OpToRel(<, Nat))
  BY NatLessThanWellFounded, WFMin
<1>2. ASSUME NEW b \in T, b < a PROVE FALSE
  <2>1. <<b, a>> \in Nat \X Nat /\ <<b, a>>[1] < <<b, a>>[2] BY <1>2
  <2>2. <<b, a>> \in OpToRel(<, Nat) BY <2>1 DEF OpToRel
  <2> QED BY <2>2, <1>1
<1> QED BY <1>2

(* There is a row seen last, of several the one with the lowest id. *)
LEMMA NewestIn ==
    ASSUME NEW t \in Nat, NEW R, R \subseteq Ids \X Rows(t), R # {}
    PROVE  newest(R) \in R
<1>0. \A x \in R : x[1] \in Nat /\ x[2].seen \in Nat /\ x[2].seen <= t
  BY DevicesAssumption DEF Rows, DeviceRow
<1> DEFINE T == {t - x[2].seen : x \in R}
<1>1. PICK a \in T : \A b \in T : a <= b
  <2>1. T \subseteq Nat /\ T # {} BY <1>0
  <2> HIDE DEF T
  <2> QED BY <2>1, Least
<1>2. PICK x \in R : a = t - x[2].seen BY <1>1
<1>3. \A y \in R : y[2].seen <= x[2].seen
  <2> SUFFICES ASSUME NEW y \in R PROVE y[2].seen <= x[2].seen OBVIOUS
  <2>1. t - y[2].seen \in T OBVIOUS
  <2>2. t - x[2].seen <= t - y[2].seen BY <2>1, <1>1, <1>2
  <2> QED BY <2>2, <1>0
<1> DEFINE U == {y[1] : y \in {z \in R : z[2].seen = x[2].seen}}
<1>4. PICK i \in U : \A j \in U : i <= j
  <2>1. U \subseteq Nat /\ U # {} BY <1>0
  <2> HIDE DEF U
  <2> QED BY <2>1, Least
<1>5. PICK y \in R : y[2].seen = x[2].seen /\ y[1] = i BY <1>4
<1>6. \A z \in R : order_newest_first(y, z)
  <2> SUFFICES ASSUME NEW z \in R PROVE order_newest_first(y, z) OBVIOUS
  <2>1. z[2].seen = x[2].seen => z[1] \in U OBVIOUS
  <2>2. z[2].seen <= x[2].seen BY <1>3
  <2> HIDE DEF U
  <2> QED BY <2>1, <2>2, <1>0, <1>4, <1>5 DEF order_newest_first
<1> QED BY <1>6 DEF newest

(* A sweep with the devices it goes through. *)
Left(l, F) == [l EXCEPT !.pc = "each", !.found = F]
LEMMA LeftIs ==
    ASSUME NEW t, NEW l \in Call(t), NEW F \in Finds(t)
    PROVE  /\ Left(l, F) \in Call(t) /\ Left(l, F).pc = "each" /\ Left(l, F).found = F
           /\ Left(l, F).role = l.role /\ Left(l, F).now = l.now /\ Left(l, F).stage = l.stage /\ Left(l, F).held = l.held
           /\ Left(l, F).op = l.op
<1>1. "each" \in Pcs BY DEF Pcs
<1> QED BY <1>1 DEF Left, Call, Locals

(* How a lookup goes on with the rows behind an index. *)
FoundAs(l, m, R, t, K, B, D, V) ==
    /\ Sound(m, t, K, B, D, V) /\ m.role = l.role /\ m.now \in {0, l.now}
    /\ m.pc = "insert" => /\ m.stage = "key" /\ l.stage = "key" /\ m.id = l.id /\ m.held = l.held
                          /\ m.at = l.at /\ \A x \in R : ~shares_create_key(x[2], l.role.user)
    /\ m.pc # "insert" => ~Making(m) /\ m.pc \in Calm
    /\ l.role.kind = "sweep" => m.pc = "each"

LEMMA FoundSound ==
    ASSUME NEW t \in Nat, NEW K, NEW B, NEW D, NEW V, NEW l \in Call(t), Staged(l), Holds(l, K),
           (l.role.kind = "ensure" /\ l.stage # "none") \/ (l.role.kind = "sweep" /\ l.stage = "tenant"),
           l.stage = "key" => l.id \in Ids,
           NEW R, R \subseteq Ids \X Rows(t),
           \A x \in R : x[1] \in K /\ (live(x[2]) => x[1] \notin B) /\ Belongs(x[1], x[2], D, V)
    PROVE  FoundAs(l, Found(l, R), R, t, K, B, D, V)
<1> USE DEF FoundAs
<1> DEFINE m == [l EXCEPT !.listed = {}, !.found = {}]
           kept == IF l.stage = "key" THEN {x \in R : shares_create_key(x[2], l.role.user)} ELSE R
           x == newest(kept)
           best == [m EXCEPT !.id = x[1], !.row = x[2]]
<1>1. /\ m \in Call(t) /\ m.role = l.role /\ m.now = l.now /\ m.stage = l.stage /\ m.id = l.id /\ m.held = l.held /\ m.at = l.at
      /\ m.found = {} /\ m.op = l.op
  BY NothingFound DEF Call, Locals
<1>2. Staged(m) /\ Holds(m, K) BY <1>1 DEF Staged, Holds
<1>3. kept # {} => x \in kept /\ x \in R /\ x[1] \in Ids /\ x[2] \in Rows(t)
  <2>1. kept \subseteq R OBVIOUS
  <2>2. kept # {} => newest(kept) \in kept
    <3> HIDE DEF kept
    <3> QED BY <2>1, NewestIn
  <2> QED BY <2>1, <2>2
<1>4. kept # {} => /\ best \in Call(t) /\ best.role = l.role /\ best.now = l.now /\ best.stage = l.stage /\ best.id = x[1]
                   /\ best.row = x[2] /\ best.held = l.held /\ best.op = l.op
  <2> HIDE DEF m, x
  <2> QED BY <1>1, <1>3 DEF Call, Locals
<1>5. CASE l.stage = "tenant"
  <2> DEFINE F == {z[1] : z \in {y \in R : sweep(y[2], l.now) # Skip}}
             n == Left(m, F)
  <2>1. F \subseteq Ids /\ F \in Finds(t) BY DEF Finds
  <2>3. /\ n \in Call(t) /\ n.pc = "each" /\ n.role = l.role /\ n.now = l.now /\ n.stage = l.stage /\ n.held = l.held /\ n.found \subseteq Ids
        /\ n.op = l.op
    <3> HIDE DEF m, F
    <3> QED BY <1>1, <2>1, LeftIs
  <2>4. n = Found(l, R) BY <1>5 DEF Found, Left
  <2>5. l.role.kind = "sweep" BY <1>5 DEF Staged
  <2> HIDE DEF n
  <2>6. Staged(n) /\ Place(n) = "each" /\ n.pc \in Calm BY <2>3, <2>5, <1>5 DEF Staged, Place, Calm
  <2> QED
    BY <2>3, <2>4, <2>5, <2>6 DEF Sound, Placed, Decided, Binds, Knowing, Holds, Clear, Owning, Making,
                                  Makings, Lookups, Writing, Loading
<1>6. CASE l.stage = "key" /\ kept = {}
  <2> DEFINE n == Goes(m, "insert")
  <2>1. "insert" \in Pcs BY DEF Pcs, Makings
  <2>2. /\ n \in Call(t) /\ n.pc = "insert" /\ n.role = l.role /\ n.now = l.now /\ n.stage = l.stage /\ n.id = l.id /\ n.held = l.held /\ n.at = l.at
        /\ n.op = l.op
    <3> HIDE DEF m
    <3> QED BY <1>1, <2>1, GoesIs
  <2>3. n = Found(l, R) BY <1>6 DEF Found
  <2>4. \A y \in R : ~shares_create_key(y[2], l.role.user) BY <1>6
  <2>5. l.role.kind = "ensure" BY <1>6 DEF Staged
  <2> HIDE DEF n
  <2>6. Staged(n) /\ Place(n) = "insert" BY <2>2, <2>5, <1>6 DEF Staged, Place
  <2> QED
    BY <1>6, <2>2, <2>3, <2>4, <2>5, <2>6 DEF Sound, Placed, Decided, Binds, Knowing, Holds, Clear, Owning, Making,
                                  Makings, Lookups, Writing, Loading
<1>7. CASE l.stage = "key" /\ kept # {}
  <2>1. Found(l, R) = Serves(best) BY <1>7 DEF Found
  <2>2. shares_create_key(x[2], l.role.user) BY <1>3, <1>7
  <2>3. l.role.kind = "ensure" BY <1>7 DEF Staged
  <2>4. x[1] \in K /\ x[1] \notin B /\ (l.role.user # NoUser => OwnerIs(x[1], l.role.user, D, V))
    BY <1>3, <1>7, <2>2 DEF shares_create_key, Belongs
  <2> HIDE DEF best, x
  <2>5. Steady(best, Serves(best), t, K, B, D, V)
    BY <1>4, <1>7, <2>3, <2>4, AnswersSteady DEF Serves
  <2>6. Serves(best).pc # "insert" BY <2>5 DEF Steady, Calm
  <2> QED BY <1>4, <1>7, <2>1, <2>3, <2>5, <2>6 DEF Steady
<1>8. CASE l.stage \notin {"tenant", "key"} /\ kept # {} /\ is_usable_by(x[2], l.role.user)
  <2>1. Found(l, R) = Uses(best) BY <1>8 DEF Found
  <2>2. l.role.kind = "ensure" BY <1>8
  <2>3. x[1] \in K /\ x[1] \notin B /\ Belongs(x[1], x[2], D, V)
    BY <1>3, <1>8 DEF is_usable_by
  <2>4. x[2].user = l.role.user \/ NoUser \in {x[2].user, l.role.user} BY <1>8 DEF is_usable_by
  <2> HIDE DEF best, x
  <2>5. Staged(best) /\ Holds(best, K) BY <1>4, <1>8 DEF Staged, Holds
  <2>6. Steady(best, Uses(best), t, K, B, D, V)
    BY <1>3, <1>4, <1>8, <2>2, <2>3, <2>4, <2>5, UsesSteady
  <2>7. Uses(best).pc # "insert" BY <2>6 DEF Steady, Calm
  <2> QED BY <1>4, <1>8, <2>1, <2>2, <2>6, <2>7 DEF Steady
<1>9. CASE l.stage \notin {"tenant", "key"} /\ ~(kept # {} /\ is_usable_by(x[2], l.role.user))
  <2>1. Found(l, R) = NextStage(m) BY <1>9 DEF Found
  <2>2. l.role.kind = "ensure" BY <1>9
  <2> HIDE DEF m
  <2>3. Steady(m, NextStage(m), t, K, B, D, V) BY <1>1, <1>2, <2>2, NextStageSteady
  <2>4. NextStage(m).pc # "insert" BY <2>3 DEF Steady, Calm
  <2> QED BY <1>1, <2>1, <2>2, <2>3, <2>4 DEF Steady
<1> QED BY <1>5, <1>6, <1>7, <1>8, <1>9

-----------------------------------------------------------------------------
(* What load hands to a call: of a known device, and nobody who was barred *)
(* from it gets it live.                                                   *)
Handed(l, K, B, D, V) ==
    l.row # Absent => l.id \in K /\ (live(l.row) => l.id \notin B) /\ Belongs(l.id, l.row, D, V)

LEMMA BindIs ==
    ASSUME NEW t \in Nat, NEW l \in Call(t), l.row \in Rows(t), l.role.kind \in {"bind", "use"}
    PROVE  /\ Bind(l) \in Op(t) /\ Bind(l).kind = "bindings"
           /\ \A b \in Bind(l).expected : \E x \in Bind(l).bindings : x.cred = b.cred
           /\ \E x \in Bind(l).bindings : x.cred = l.role.cred
<1> DEFINE b == [cred |-> l.role.cred, used |-> l.now]
           E == l.row.bindings
           N == {x \in E : x.cred # l.role.cred} \cup {b}
<1>1. l.role \in Role /\ l.now \in Nat BY DEF Call, Locals
<1>2. b \in Binding BY <1>1, RoleIs DEF Binding
<1>3. E \subseteq Binding BY DEF Rows, DeviceRow
<1>4. N \subseteq Binding BY <1>2, <1>3
<1>5. Bind(l) = [kind |-> "bindings", expected |-> E, bindings |-> N] BY DEF Bind
<1>6. b \in N /\ b.cred = l.role.cred OBVIOUS
<1>7. \A y \in E : \E x \in N : x.cred = y.cred BY <1>6
<1> HIDE DEF b, E, N
<1>8. Bind(l) \in Op(t) BY <1>3, <1>4, <1>5 DEF Op
<1> QED BY <1>5, <1>6, <1>7, <1>8

LEMMA LoadedSteady ==
    ASSUME NEW t \in Nat, NEW K, NEW B, NEW D, NEW V, NEW l \in Call(t), Staged(l), Holds(l, K), l.id \in Ids,
           \/ l.role.kind \in {"promote", "bind", "use", "save"}
           \/ l.role.kind = "resolve" /\ l.stage \in {"presented", "session"},
           Handed(l, K, B, D, V)
    PROVE  Steady(l, Loaded(l), t, K, B, D, V)
<1>0. l.row \in Rows(t) \cup {Absent} /\ l.role \in Role BY DEF Call, Locals
<1>1. \A o \in {"none", "Revoked"} : Steady(l, Answers(l, o), t, K, B, D, V)
  BY AnswersSteady DEF ServedOuts, Levels
<1> DEFINE Applied(op) == Applies(l, op)
<1>2. ASSUME NEW op \in Op(t), l.role.kind \in Writers(op), op.kind \in {"promote", "sight", "bindings", "save"},
             l.role.kind # "resolve", l.role.kind # "ensure",
             op.kind \in {"promote", "sight"} => l.id \notin B, op.kind \in {"sight", "promote", "save"} => l.id \in K,
             op.kind = "bindings" => /\ \A b \in op.expected : \E x \in op.bindings : x.cred = b.cred
                                     /\ \E x \in op.bindings : x.cred = l.role.cred
      PROVE  Steady(l, Applied(op), t, K, B, D, V)
  <2> DEFINE m == Applied(op)
  <2>1. /\ m \in Call(t) /\ m.pc = "get" /\ m.role = l.role /\ m.now = l.now /\ m.id = l.id /\ m.held = l.held
        /\ m.stage = l.stage /\ m.op = op
    BY AppliesIs
  <2> HIDE DEF m
  <2>2. Staged(m) /\ Place(m) = "get" /\ m.pc \in Calm BY <1>2, <2>1 DEF Staged, Place, Calm
  <2>3. m.role.kind # "sweep" BY <2>1
  <2> QED
    BY <1>2, <2>1, <2>2, <2>3 DEF Steady, Sound, Placed, Decided, Binds, Knowing, Holds, Clear, Owning, Making,
                                  Makings, Lookups, Writing, Loading, m
<1> HIDE DEF Applied
<1>3. CASE l.role.kind = "promote"
  <2>1. Loaded(l) = promote_on_authn(l) BY <1>3 DEF Loaded, Staged
  <2>2. CASE l.row = Absent \/ l.row.level = "Revoked"
    BY <1>1, <2>1, <2>2 DEF promote_on_authn
  <2>3. CASE l.row # Absent /\ l.row.level # "Revoked"
    <3>1. l.id \in K /\ l.id \notin B BY <2>3 DEF Handed, live
    <3>2. ASSUME NEW k \in {"promote", "sight"} PROVE Steady(l, Applied([kind |-> k]), t, K, B, D, V)
      <4> DEFINE op == [kind |-> k]
      <4>1. op \in Op(t) /\ op.kind = k BY PlainOp
      <4>2. l.role.kind \in Writers(op) BY <4>1, <1>3 DEF Writers
      <4> HIDE DEF op
      <4>3. Steady(l, Applied(op), t, K, B, D, V) BY <4>1, <4>2, <3>1, <1>3, <1>2
      <4> QED BY <4>3 DEF op
    <3>3. promote_on_authn(l) \in {Applied([kind |-> "promote"]), Applied([kind |-> "sight"])}
      BY <2>3 DEF promote_on_authn, Applied
    <3> QED BY <2>1, <3>2, <3>3
  <2> QED BY <2>2, <2>3
<1>4. CASE l.role.kind \in {"bind", "use"}
  <2>1. Loaded(l) = bind_webauthn_credential(l) \/ Loaded(l) = record_webauthn_usage(l) BY <1>4 DEF Loaded, Staged
  <2>2. Loaded(l) \in {Answers(l, "none")} \/ (l.row # Absent /\ Loaded(l) = Applied(Bind(l)))
    BY <2>1 DEF bind_webauthn_credential, record_webauthn_usage, Applied, live
  <2>3. CASE l.row # Absent
    <3>1. l.row \in Rows(t) BY <1>0, <2>3
    <3> DEFINE op == Bind(l)
    <3>2. /\ op \in Op(t) /\ op.kind = "bindings"
          /\ \A b \in op.expected : \E x \in op.bindings : x.cred = b.cred
          /\ \E x \in op.bindings : x.cred = l.role.cred
      BY <1>4, <3>1, BindIs
    <3> HIDE DEF op
    <3>3. l.role.kind \in Writers(op) BY <1>4, <3>2 DEF Writers
    <3>4. Steady(l, Applied(op), t, K, B, D, V) BY <1>2, <1>4, <3>2, <3>3
    <3> QED BY <1>1, <2>2, <3>4 DEF op
  <2> QED BY <1>1, <2>2, <2>3
<1>5. CASE l.role.kind = "save"
  <2>1. Loaded(l) = SaveAgain(l) BY <1>5 DEF Loaded, Staged
  <2>2. CASE l.row = Absent BY <1>1, <2>1, <2>2 DEF SaveAgain
  <2>3. CASE l.row # Absent
    <3> DEFINE op == [kind |-> "save", row |-> l.row]
    <3>1. op \in Op(t) /\ op.kind = "save" BY <1>0, <2>3 DEF Op
    <3>2. SaveAgain(l) = Applied(op) BY <2>3 DEF SaveAgain, Applied
    <3>3. l.id \in K BY <2>3 DEF Handed
    <3> HIDE DEF op
    <3>4. l.role.kind \in Writers(op) BY <1>5, <3>1 DEF Writers
    <3>5. Steady(l, Applied(op), t, K, B, D, V) BY <1>2, <1>5, <3>1, <3>3, <3>4
    <3> QED BY <2>1, <3>2, <3>5
  <2> QED BY <2>2, <2>3
<1>6. CASE l.role.kind = "resolve"
  <2>1. Steady(l, NextStage(l), t, K, B, D, V) BY <1>6, NextStageSteady
  <2>2. CASE l.stage = "presented"
    <3>1. Loaded(l) = resolve_presented(l) BY <1>6, <2>2 DEF Loaded
    <3>2. CASE ~(live(l.row) /\ HasBinding(l.row, "token") /\ is_usable_by(l.row, l.role.user))
      BY <2>1, <3>1, <3>2 DEF resolve_presented
    <3>3. CASE live(l.row) /\ is_usable_by(l.row, l.role.user)
      <4>1. l.id \in K /\ l.id \notin B /\ Belongs(l.id, l.row, D, V) BY <3>3 DEF Handed, live
      <4>2. l.row.user = l.role.user \/ NoUser \in {l.row.user, l.role.user} BY <3>3 DEF is_usable_by
      <4>3. Steady(l, Uses(l), t, K, B, D, V) BY <1>6, <4>1, <4>2, UsesSteady
      <4>4. l.role.user = NoUser => Steady(l, Serves(l), t, K, B, D, V)
        BY <1>6, <4>1, AnswersSteady DEF Serves
      <4> QED BY <2>1, <3>1, <4>3, <4>4 DEF resolve_presented
    <3> QED BY <3>2, <3>3
  <2>3. CASE l.stage = "session"
    <3>1. Loaded(l) = resolve_session(l) BY <1>6, <2>3 DEF Loaded
    <3>2. CASE live(l.row) /\ l.row.user = l.role.user
      <4>1. l.id \in K /\ l.id \notin B /\ (l.role.user # NoUser => OwnerIs(l.id, l.role.user, D, V))
        BY <3>2 DEF Handed, live, Belongs
      <4>2. Steady(l, note_sighting(l), t, K, B, D, V) BY <1>6, <4>1, SightingSteady
      <4> QED BY <3>1, <3>2, <4>2 DEF resolve_session
    <3>3. CASE ~(live(l.row) /\ l.row.user = l.role.user)
      BY <2>1, <3>1, <3>3 DEF resolve_session
    <3> QED BY <3>2, <3>3
  <2> QED BY <1>6, <2>2, <2>3
<1> QED BY <1>3, <1>4, <1>5, <1>6

-----------------------------------------------------------------------------
(* What a write makes of a row. *)
Decision(t) == [step : {"skip", "remove", "write"}, row : Rows(t) \cup {Absent}]

LEMMA MovedIs ==
    ASSUME NEW t \in Nat, NEW row \in Rows(t), NEW level \in Levels, NEW now \in 0 .. t
    PROVE  /\ Moved(row, level, now) \in Rows(t) /\ Moved(row, level, now).level = level
           /\ Moved(row, level, now).user = row.user /\ Moved(row, level, now).bindings = row.bindings
           /\ row.level = "Revoked" /\ level = "Revoked" => Moved(row, level, now) = row
<1> DEFINE a == demotion_stamp(row, level, now)
           b == revocation_stamp(row, level, now)
<1>1. a \in Nat \cup {Never} /\ (level # "Seen" => a = Never)
  BY DEF demotion_stamp, Rows, DeviceRow, Levels
<1>2. b \in Nat \cup {Never} BY DEF revocation_stamp, Rows, DeviceRow, Levels
<1>3. Moved(row, level, now) = [row EXCEPT !.level = level, !.demoted_at = a, !.revoked_at = b] BY DEF Moved
<1>4. row.level = "Revoked" /\ level = "Revoked" => a = row.demoted_at /\ b = row.revoked_at
  BY DEF demotion_stamp, revocation_stamp, Rows, DeviceRow
<1> HIDE DEF a, b
<1>5. Moved(row, level, now) \in Rows(t) /\ Moved(row, level, now).level = level
           /\ Moved(row, level, now).user = row.user /\ Moved(row, level, now).bindings = row.bindings
  BY <1>1, <1>2, <1>3 DEF Rows, DeviceRow
<1>6. row.level = "Revoked" /\ level = "Revoked" => Moved(row, level, now) = row
  BY <1>3, <1>4 DEF Rows, DeviceRow
<1> QED BY <1>5, <1>6

(* How the row that is written differs from the one that was read. *)
Edits(l, was, row) ==
    /\ was = Absent => l.op.kind = "save"
    /\ row = Absent => l.op.kind \in {"delete", "sweep"}
    /\ l.op.kind = "delete" => row = Absent
    /\ l.op.kind = "save" => row = l.op.row /\ (was = Absent \/ live(was))
    /\ l.op.kind # "save" /\ row # Absent =>
          /\ row.user = was.user \/ (l.op.kind = "claim" /\ was.user = NoUser)
          /\ IF l.op.kind = "bindings" THEN was.bindings = l.op.expected /\ row.bindings = l.op.bindings
             ELSE row.bindings = was.bindings
    /\ l.op.kind = "claim" => row.user = l.role.user
    /\ l.op.kind \in {"sight", "claim", "promote", "bindings"} => live(was) /\ live(row)
    /\ l.op.kind = "set" /\ ~live(was) /\ ~live(row) => row = was
    /\ l.op.kind = "sweep" /\ row # Absent => live(was) /\ (~live(row) => l.now - seen_clock(was) > SeenIdle)

LEMMA Decides ==
    ASSUME NEW t \in Nat, NEW l \in Call(t), l.role.kind \in Writers(l.op), NEW was \in Rows(t) \cup {Absent},
           was = Absent => l.op.kind = "save", decide(l, was) # Skip
    PROVE  decide(l, was) \in Decision(t) /\ Edits(l, was, decide(l, was).row)
<1>0. /\ l.now \in 0 .. t /\ l.role \in Role /\ l.op \in Op(t) /\ Absent \notin Rows(t)
  BY DevicesAssumption DEF Call, Locals, Rows
<1>1. ASSUME NEW row \in Rows(t) \cup {Absent} PROVE Write(row) \in Decision(t) /\ Write(row).row = row
  BY DEF Write, Decision
<1>2. CASE l.op.kind = "sight"
  <2>1. decide(l, was) = record_sighting(was, l.now) BY <1>2 DEF decide
  <2> DEFINE row == [was EXCEPT !.seen = l.now]
  <2>2. live(was) /\ decide(l, was) = Write(row) BY <2>1 DEF record_sighting
  <2>3. row \in Rows(t) /\ row.user = was.user /\ row.bindings = was.bindings /\ row.level = was.level
    BY <1>0, <1>2 DEF Rows, DeviceRow
  <2> HIDE DEF row
  <2>4. decide(l, was) \in Decision(t) /\ decide(l, was).row = row BY <1>1, <2>2, <2>3
  <2> QED BY <1>0, <1>2, <2>2, <2>3, <2>4 DEF Edits, live
<1>3. CASE l.op.kind = "claim"
  <2>1. decide(l, was) = claim_owner(was, l.role.user) BY <1>3 DEF decide
  <2> DEFINE row == [was EXCEPT !.user = l.role.user]
  <2>2. live(was) /\ was.user = NoUser /\ decide(l, was) = Write(row) BY <2>1 DEF claim_owner
  <2>3. l.role.user \in Owners BY <1>0, <1>3, RoleIs DEF Writers
  <2>4. row \in Rows(t) /\ row.user = l.role.user /\ row.bindings = was.bindings /\ row.level = was.level
    BY <1>0, <1>3, <2>3 DEF Rows, DeviceRow
  <2> HIDE DEF row
  <2>5. decide(l, was) \in Decision(t) /\ decide(l, was).row = row BY <1>1, <2>2, <2>4
  <2> QED BY <1>0, <1>3, <2>2, <2>4, <2>5 DEF Edits, live
<1>4. CASE l.op.kind = "promote"
  <2>1. decide(l, was) = set_trust_level_if(was, "Unknown", "Seen", l.now) BY <1>4 DEF decide
  <2> DEFINE row == Moved(was, "Seen", l.now)
  <2>2. was.level = "Unknown" /\ decide(l, was) = Write(row) BY <2>1 DEF set_trust_level_if
  <2>3. was \in Rows(t) /\ "Seen" \in Levels BY <1>4 DEF Levels
  <2>4. row \in Rows(t) /\ row.user = was.user /\ row.bindings = was.bindings /\ row.level = "Seen"
    BY <1>0, <2>3, MovedIs
  <2> HIDE DEF row
  <2>5. decide(l, was) \in Decision(t) /\ decide(l, was).row = row BY <1>1, <2>2, <2>4
  <2> QED BY <1>0, <1>4, <2>2, <2>3, <2>4, <2>5 DEF Edits, live
<1>5. CASE l.op.kind = "set"
  <2>1. decide(l, was) = set_trust_level(was, l.role.level, l.now) BY <1>5 DEF decide
  <2> DEFINE row == Moved(was, l.role.level, l.now)
  <2>2. decide(l, was) = Write(row) BY <2>1 DEF set_trust_level
  <2>3. was \in Rows(t) /\ l.role.level \in Levels BY <1>0, <1>5, RoleIs DEF Writers
  <2>4. /\ row \in Rows(t) /\ row.user = was.user /\ row.bindings = was.bindings /\ row.level = l.role.level
        /\ was.level = "Revoked" /\ l.role.level = "Revoked" => row = was
    BY <1>0, <2>3, MovedIs
  <2> HIDE DEF row
  <2>5. decide(l, was) \in Decision(t) /\ decide(l, was).row = row BY <1>1, <2>2, <2>4
  <2> QED BY <1>0, <1>5, <2>2, <2>3, <2>4, <2>5 DEF Edits, live
<1>6. CASE l.op.kind = "bindings"
  <2>1. decide(l, was) = replace_bindings(was, l.op.expected, l.op.bindings) BY <1>6 DEF decide
  <2> DEFINE row == [was EXCEPT !.bindings = l.op.bindings]
  <2>2. live(was) /\ was.bindings = l.op.expected /\ decide(l, was) = Write(row) BY <2>1 DEF replace_bindings
  <2>3. l.op.bindings \subseteq Binding BY <1>0, <1>6 DEF Op
  <2>4. row \in Rows(t) /\ row.user = was.user /\ row.bindings = l.op.bindings /\ row.level = was.level
    BY <1>0, <1>6, <2>3 DEF Rows, DeviceRow
  <2> HIDE DEF row
  <2>5. decide(l, was) \in Decision(t) /\ decide(l, was).row = row BY <1>1, <2>2, <2>4
  <2> QED BY <1>0, <1>6, <2>2, <2>4, <2>5 DEF Edits, live
<1>7. CASE l.op.kind = "save"
  <2>1. decide(l, was) = save(was, l.op.row) BY <1>7 DEF decide
  <2>2. (was = Absent \/ live(was)) /\ decide(l, was) = Write(l.op.row) BY <2>1 DEF save
  <2>3. l.op.row \in Rows(t) BY <1>0, <1>7 DEF Op
  <2>4. decide(l, was) \in Decision(t) /\ decide(l, was).row = l.op.row BY <1>1, <2>2, <2>3
  <2> QED BY <1>0, <1>7, <2>2, <2>3, <2>4 DEF Edits
<1>8. CASE l.op.kind = "sweep"
  <2>1. decide(l, was) = sweep(was, l.now) BY <1>8 DEF decide
  <2>2. CASE decide(l, was) = Remove
    <3>1. decide(l, was) \in Decision(t) /\ decide(l, was).row = Absent BY <2>2 DEF Remove, Decision
    <3> QED BY <1>8, <3>1 DEF Edits
  <2>3. CASE decide(l, was) # Remove
    <3> DEFINE level == level_after(was, l.now)
               row == Moved(was, level, l.now)
    <3>1. was.level # "Revoked" /\ level # was.level /\ decide(l, was) = Write(row)
      BY <2>1, <2>3 DEF sweep
    <3>2. was \in Rows(t) /\ was.level \in Levels BY <1>8 DEF Rows, DeviceRow
    <3>3. level \in Levels /\ (level = "Revoked" => l.now - seen_clock(was) > SeenIdle)
      BY <3>1, <3>2 DEF level_after, Levels
    <3> HIDE DEF level
    <3>4. row \in Rows(t) /\ row.user = was.user /\ row.bindings = was.bindings /\ row.level = level
      BY <1>0, <3>2, <3>3, MovedIs
    <3> HIDE DEF row
    <3>5. decide(l, was) \in Decision(t) /\ decide(l, was).row = row BY <1>1, <3>1, <3>4
    <3> QED BY <1>0, <1>8, <3>1, <3>2, <3>3, <3>4, <3>5 DEF Edits, live
  <2> QED BY <2>2, <2>3
<1>9. CASE l.op.kind = "delete"
  <2>1. decide(l, was) = Remove BY <1>9 DEF decide
  <2>2. decide(l, was) \in Decision(t) /\ decide(l, was).row = Absent BY <2>1 DEF Remove, Decision
  <2> QED BY <1>9, <2>2 DEF Edits
<1> QED BY <1>0, <1>2, <1>3, <1>4, <1>5, <1>6, <1>7, <1>8, <1>9 DEF Op, Writers

-----------------------------------------------------------------------------
(* What a call makes of the outcome of its write. *)
Concluded(l, applied, row, t, K, D, V) ==
    /\ applied \in {"Missing", "Skipped", "Written", "Removed"} /\ row \in Rows(t) \cup {Absent}
    /\ l.op.kind = "sight" /\ applied # "Missing" => row \in Rows(t)
    /\ l.op.kind = "claim" /\ (applied = "Written" \/ (applied = "Skipped" /\ row.user = l.role.user))
          => OwnerIs(l.id, l.role.user, D, V)
    /\ l.op.kind = "save" /\ l.role.kind = "resolve" =>
          l.id \in K /\ (l.role.user # NoUser => OwnerIs(l.id, l.role.user, D, V))

Reloads(l) == [l EXCEPT !.pc = "load", !.retries = @ + 1]
LEMMA ReloadsIs ==
    ASSUME NEW t, NEW l \in Call(t)
    PROVE  /\ Reloads(l) \in Call(t) /\ Reloads(l).pc = "load" /\ Reloads(l).role = l.role /\ Reloads(l).now = l.now
           /\ Reloads(l).id = l.id /\ Reloads(l).held = l.held /\ Reloads(l).stage = l.stage
           /\ Reloads(l).op = l.op
<1>1. "load" \in Pcs /\ l.retries + 1 \in Nat BY DEF Pcs, Loading, Call, Locals
<1> QED BY <1>1 DEF Reloads, Call, Locals

LEMMA ConcludesSteady ==
    ASSUME NEW t \in Nat, NEW K, NEW B, NEW D, NEW V, NEW l, Sound(l, t, K, B, D, V), l.pc \in Writing,
           NEW applied, NEW row, Concluded(l, applied, row, t, K, D, V)
    PROVE  LET m == Concludes(l, applied, row)
           IN  /\ Steady(l, m, t, K, B, D, V)
               /\ l.role.kind = "sweep" => m.pc \in {"each", "unlist"}
               /\ l.op.kind \in {"set", "delete", "save"} /\ applied \in {"Written", "Removed"} => m.pc = "done"
               /\ l.op.kind = "delete" /\ m.pc = "unlist" => applied = "Missing"
<1>0. /\ l \in Call(t) /\ Staged(l) /\ Holds(l, K) /\ l.id \in Ids /\ l.role.kind \in Writers(l.op)
      /\ l.role \in Role /\ l.op \in Op(t) /\ Place(l) = l.pc /\ l.retries \in Nat
      /\ l.op.kind = "claim" => l.role.user # NoUser
      /\ l.role.kind = "sweep" => l.found \in SUBSET Ids
  BY DEF Sound, Placed, Knowing, Place, Writing, Call, Locals
<1>1. /\ l.op.kind \in {"sight", "claim", "promote"} \/ l.role.kind = "resolve" => l.id \notin B
      /\ l.op.kind \in {"sight", "claim"} => l.id \in K
      /\ l.op.kind = "sight" /\ l.role.kind \in {"ensure", "resolve"} /\ l.role.user # NoUser
            => OwnerIs(l.id, l.role.user, D, V)
  BY <1>0 DEF Sound, Clear, Knowing, Owning
<1>2. \A o \in {"none", "error", "Revoked", "bound", "ok"} : Steady(l, Answers(l, o), t, K, B, D, V)
  BY <1>0, AnswersSteady DEF ServedOuts, Levels
<1>3. \A o : Answers(l, o).pc = "done"
  <2>1. \A o : NewCall.pc = "new" /\ DOMAIN NewCall = DOMAIN NewCall BY DEF NewCall
  <2> QED BY DEF Answers, NewCall
<1>4. l.role.kind \in {"ensure", "resolve"} => Steady(l, NextStage(l), t, K, B, D, V)
  BY <1>0, NextStageSteady
<1> DEFINE m == Concludes(l, applied, row)
<1>5. CASE l.op.kind = "sight"
  <2>1. l.role.kind \in {"ensure", "resolve", "promote"} BY <1>0, <1>5 DEF Writers
  <2>2. l.role.kind \in {"ensure", "resolve"} => Steady(l, Serves(l), t, K, B, D, V)
    BY <1>0, <1>1, <1>5, AnswersSteady DEF Serves
  <2>3. row \in Rows(t) => Steady(l, Answers(l, row.level), t, K, B, D, V)
    <3>1. row \in Rows(t) => row.level \in Levels /\ row.level # "served" BY DEF Rows, DeviceRow, Levels
    <3> QED BY <1>0, <1>1, <1>5, <3>1, AnswersSteady
  <2>4. Steady(l, m, t, K, B, D, V)
    BY <1>2, <1>4, <1>5, <2>1, <2>2, <2>3 DEF Concludes, Concluded
  <2> QED BY <1>5, <2>1, <2>4
<1>6. CASE l.op.kind = "claim"
  <2>1. l.role.kind \in {"ensure", "resolve"} BY <1>0, <1>6 DEF Writers
  <2>2. OwnerIs(l.id, l.role.user, D, V) => Steady(l, note_sighting(l), t, K, B, D, V)
    BY <1>0, <1>1, <1>6, <2>1, SightingSteady
  <2>3. Steady(l, m, t, K, B, D, V)
    BY <1>4, <1>6, <2>1, <2>2 DEF Concludes, Concluded
  <2> QED BY <1>6, <2>1, <2>3
<1>7. CASE l.op.kind = "promote"
  <2>1. l.role.kind = "promote" BY <1>0, <1>7 DEF Writers
  <2> DEFINE n == Applies(l, [kind |-> "sight"])
  <2>2. /\ n \in Call(t) /\ n.pc = "get" /\ n.role = l.role /\ n.now = l.now /\ n.id = l.id /\ n.held = l.held
        /\ n.stage = l.stage /\ n.op = [kind |-> "sight"]
    BY <1>0, AppliesIs, PlainOp
  <2> HIDE DEF n
  <2>3. Staged(n) /\ Place(n) = "get" /\ n.pc \in Calm /\ Writers(n.op) = {"ensure", "resolve", "promote"}
    BY <1>0, <2>2 DEF Staged, Place, Calm, Writers
  <2>4. l.id \in K => Steady(l, n, t, K, B, D, V)
    BY <1>0, <1>1, <1>7, <2>1, <2>2, <2>3 DEF Steady, Sound, Placed, Decided, Binds, Knowing, Holds, Clear, Owning,
                                Making, Makings, Lookups, Writing, Loading
  <2>5. l.id \in K BY <1>7, <1>0 DEF Sound, Knowing
  <2>6. Steady(l, m, t, K, B, D, V)
    BY <1>2, <1>7, <2>4, <2>5 DEF Concludes, n
  <2> QED BY <1>7, <2>1, <2>6
<1>8. CASE l.op.kind = "bindings"
  <2>1. l.role.kind \in {"bind", "use"} BY <1>0, <1>8 DEF Writers
  <2> DEFINE n == Reloads(l)
  <2>2. /\ n \in Call(t) /\ n.pc = "load" /\ n.role = l.role /\ n.now = l.now /\ n.id = l.id /\ n.held = l.held /\ n.stage = l.stage /\ n.op = l.op
    BY <1>0, ReloadsIs
  <2> HIDE DEF n
  <2>3. Staged(n) /\ Place(n) = "load" /\ n.pc \in Calm BY <1>0, <2>2 DEF Staged, Place, Calm
  <2>4. Steady(l, n, t, K, B, D, V)
    BY <1>0, <2>1, <2>2, <2>3 DEF Steady, Sound, Placed, Decided, Binds, Knowing, Holds, Clear, Owning,
                                Making, Makings, Lookups, Writing, Loading
  <2>5. Steady(l, m, t, K, B, D, V)
    BY <1>2, <1>8, <2>4 DEF Concludes, Reloads, n
  <2> QED BY <1>8, <2>1, <2>5
<1>9. CASE l.op.kind \in {"sweep", "delete"} /\ (l.op.kind = "sweep" \/ applied = "Missing")
  <2>1. l.role.kind = l.op.kind BY <1>0, <1>9 DEF Writers
  <2>2. ASSUME NEW p \in {"each", "unlist"}, p = "each" => l.role.kind = "sweep"
        PROVE  Steady(l, Goes(l, p), t, K, B, D, V)
    <3> DEFINE n == Goes(l, p)
    <3>1. p \in Pcs BY DEF Pcs
    <3>2. /\ n \in Call(t) /\ n.pc = p /\ n.role = l.role /\ n.now = l.now /\ n.id = l.id /\ n.held = l.held /\ n.stage = l.stage
          /\ n.op = l.op /\ n.found = l.found
      BY <1>0, <3>1, GoesIs
    <3> HIDE DEF n
    <3>3. Staged(n) /\ Place(n) = p /\ n.pc \in Calm BY <1>0, <3>2 DEF Staged, Place, Calm
    <3>4. Steady(l, n, t, K, B, D, V)
      BY <1>0, <1>9, <2>1, <2>2, <3>2, <3>3 DEF Steady, Sound, Placed, Decided, Binds, Knowing, Holds, Clear, Owning,
                                Making, Makings, Lookups, Writing, Loading
    <3> QED BY <3>4 DEF n
  <2>3. m = Goes(l, IF l.op.kind = "sweep" /\ applied # "Missing" THEN "each" ELSE "unlist")
    BY <1>9, <2>1 DEF Concludes
  <2>4. \A p \in Pcs : Goes(l, p).pc = p BY <1>0, GoesIs
  <2>5. {"each", "unlist"} \subseteq Pcs BY DEF Pcs
  <2> QED BY <1>9, <2>1, <2>2, <2>3, <2>4, <2>5
<1>10. CASE l.op.kind = "set" /\ applied = "Missing"
  <2>1. m = Answers(l, "error") /\ l.role.kind = "set" BY <1>0, <1>10 DEF Concludes, Writers
  <2> QED BY <1>2, <1>10, <2>1
<1>11. CASE l.op.kind = "save" /\ l.role.kind = "resolve"
  <2>1. m = Serves(l) BY <1>11 DEF Concludes
  <2>2. Steady(l, Serves(l), t, K, B, D, V)
    BY <1>0, <1>1, <1>11, AnswersSteady DEF Serves, Concluded
  <2> QED BY <1>3, <1>11, <2>1, <2>2 DEF Serves
<1>12. CASE \/ l.op.kind = "set" /\ applied # "Missing"
            \/ l.op.kind = "delete" /\ applied # "Missing"
            \/ l.op.kind = "save" /\ l.role.kind # "resolve"
  <2>1. m = Answers(l, "ok") BY <1>12 DEF Concludes
  <2>2. l.role.kind # "sweep" BY <1>0, <1>12 DEF Writers
  <2> QED BY <1>2, <1>3, <1>12, <2>1, <2>2
<1> QED BY <1>0, <1>5, <1>6, <1>7, <1>8, <1>9, <1>10, <1>11, <1>12 DEF Op, Writers

-----------------------------------------------------------------------------
(* The invalidation that a call owes after a write. *)
Owes(m, d) == [m EXCEPT !.pc = "drop", !.next = m.pc, !.stale = {d}]
LEMMA OwesIs ==
    ASSUME NEW t, NEW m \in Call(t), NEW d \in Ids
    PROVE  /\ Owes(m, d) \in Call(t) /\ Owes(m, d).pc = "drop" /\ Owes(m, d).next = m.pc /\ Owes(m, d).stale = {d}
           /\ Owes(m, d).role = m.role /\ Owes(m, d).now = m.now /\ Owes(m, d).id = m.id /\ Owes(m, d).stage = m.stage
           /\ Owes(m, d).op = m.op /\ Owes(m, d).held = m.held /\ Owes(m, d).out = m.out /\ Owes(m, d).found = m.found
<1>1. "drop" \in Pcs /\ {d} \subseteq Ids /\ m.pc \in Pcs BY DEF Pcs, Call, Locals
<1> QED BY <1>1 DEF Owes, Call, Locals

LEMMA OwesSound ==
    ASSUME NEW t \in Nat, NEW K, NEW B, NEW D, NEW V, NEW l, NEW m, Steady(l, m, t, K, B, D, V), NEW d \in Ids
    PROVE  /\ Sound(Owes(m, d), t, K, B, D, V) /\ ~Making(Owes(m, d)) /\ Owes(m, d).role = l.role /\ Owes(m, d).now \in {0, l.now}
           /\ Place(Owes(m, d)) = m.pc
<1> DEFINE n == Owes(m, d)
<1>0. m \in Call(t) BY DEF Steady, Sound
<1>1. /\ n \in Call(t) /\ n.pc = "drop" /\ n.next = m.pc /\ n.stale = {d} /\ n.role = m.role /\ n.now = m.now /\ n.id = m.id
      /\ n.stage = m.stage /\ n.op = m.op /\ n.held = m.held /\ n.out = m.out /\ n.found = m.found
  BY <1>0, OwesIs
<1> HIDE DEF n
<1>2. Place(n) = m.pc /\ Place(m) = m.pc /\ m.pc \in Calm BY <1>1 DEF Place, Steady, Calm
<1>3. Staged(n) BY <1>1 DEF Staged, Steady, Sound
<1>8. ~Making(n) /\ n.role = l.role /\ n.now \in {0, l.now} BY <1>1, <1>2 DEF Making, Steady
<1>4. Placed(n, t)
  <2>1. Placed(m, t) BY DEF Steady, Sound
  <2> QED BY <1>1, <1>2, <1>8, <2>1 DEF Placed, Calm, Loading, Writing, Lookups, Makings
<1>5. Decided(n) /\ Binds(n) BY <1>1, <1>2 DEF Decided, Binds, Steady, Sound
<1>6. Knowing(n, K) /\ Clear(n, B) BY <1>1, <1>2 DEF Knowing, Clear, Holds, Steady, Sound
<1>7. Owning(n, D, V) BY <1>1, <1>2 DEF Owning, Steady, Sound
<1> QED BY <1>1, <1>2, <1>3, <1>4, <1>5, <1>6, <1>7, <1>8 DEF Sound, n

LEMMA DropsSound ==
    ASSUME NEW t \in Nat, NEW K, NEW B, NEW D, NEW V, NEW l, NEW m, Steady(l, m, t, K, B, D, V), l.id \in Ids
    PROVE  LET n == Drops(l, m)
           IN  /\ Sound(n, t, K, B, D, V) /\ ~Making(n) /\ n.role = l.role /\ n.now \in {0, l.now} /\ Place(n) = m.pc
               /\ n.pc = "drop" => plan.cached /\ n.next = m.pc /\ n.stale = {l.id}
               /\ n.pc # "drop" => n.pc = m.pc
               /\ plan.cached /\ l.op.kind \notin {"sight", "sweep"} /\ ~(l.op.kind = "delete" /\ m.pc = "unlist")
                     => n.pc = "drop"
<1>1. CASE ~plan.cached \/ l.op.kind \in {"sight", "sweep"} \/ (l.op.kind = "delete" /\ m.pc = "unlist")
  <2>1. Drops(l, m) = m BY <1>1 DEF Drops
  <2>2. m.pc # "drop" /\ Place(m) = m.pc BY DEF Steady, Calm, Place
  <2> QED BY <1>1, <2>1, <2>2 DEF Steady
<1>2. CASE ~(~plan.cached \/ l.op.kind \in {"sight", "sweep"} \/ (l.op.kind = "delete" /\ m.pc = "unlist"))
  <2>1. Drops(l, m) = Owes(m, l.id) BY <1>2 DEF Drops, Owes
  <2>2. Owes(m, l.id).pc = "drop" /\ Owes(m, l.id).next = m.pc /\ Owes(m, l.id).stale = {l.id}
    BY OwesIs DEF Steady, Sound
  <2> QED BY <1>2, <2>1, <2>2, OwesSound
<1> QED BY <1>1, <1>2

Resumes(l, p) == [l EXCEPT !.pc = p, !.tries = @ + 1]
LEMMA ResumesIs ==
    ASSUME NEW t, NEW l \in Call(t), NEW p \in Pcs
    PROVE  /\ Resumes(l, p) \in Call(t) /\ Resumes(l, p).pc = p /\ Resumes(l, p).role = l.role /\ Resumes(l, p).now = l.now
           /\ Resumes(l, p).id = l.id /\ Resumes(l, p).held = l.held /\ Resumes(l, p).stage = l.stage
           /\ Resumes(l, p).op = l.op /\ Resumes(l, p).found = l.found
<1>1. l.tries + 1 \in Nat BY DEF Call, Locals
<1> QED BY <1>1 DEF Resumes, Call, Locals

(* A write or an insert that found something else begins again, or not. *)
LEMMA RetriesSound ==
    ASSUME NEW t \in Nat, NEW K, NEW B, NEW D, NEW V, NEW l, Sound(l, t, K, B, D, V),
           NEW p, (l.pc = "cas" /\ p = "get") \/ (l.pc = "insert" /\ p = "guard")
    PROVE  LET n == Retries(l, p)
           IN  /\ Sound(n, t, K, B, D, V) /\ n.role = l.role /\ n.now \in {0, l.now}
               /\ Making(n) => Making(l) /\ n.id = l.id
               /\ n.pc \in {"get", "guard", "each", "done", "drop"}
               /\ n.pc = "drop" => plan.cached /\ n.next = "done"
               /\ l.role.kind = "sweep" => n.pc \in {"get", "each"}
<1>0. /\ l \in Call(t) /\ Staged(l) /\ Holds(l, K) /\ l.id \in Ids /\ Place(l) = l.pc
      /\ l.op.kind = "sweep" /\ l.pc = "cas" => l.role.kind = "sweep"
      /\ l.role.kind = "sweep" => l.op.kind = "sweep" /\ l.found \in SUBSET Ids
      /\ l.pc = "insert" => l.role.kind = "ensure" /\ l.stage = "key"
  <2>1. Place(l) = l.pc BY DEF Place
  <2>2. l.pc = "cas" => l.role.kind \in Writers(l.op) BY <2>1 DEF Sound, Placed, Writing
  <2>3. l.role.kind = "sweep" => l.pc = "cas" BY <2>1 DEF Sound, Placed
  <2>4. l.op \in Op(t) BY DEF Sound, Call, Locals
  <2>5. l.op.kind = "sweep" /\ l.pc = "cas" => l.role.kind = "sweep" BY <2>2 DEF Writers
  <2>6. l.role.kind = "sweep" => l.op.kind = "sweep" BY <2>2, <2>3, <2>4 DEF Writers, Op
  <2> QED BY <2>1, <2>3, <2>5, <2>6 DEF Sound, Placed, Knowing, Writing, Makings
<1>1. CASE l.tries + 1 < MaxTries
  <2> DEFINE n == Resumes(l, p)
  <2>0. p \in Pcs BY DEF Pcs, Writing, Makings
  <2>1. /\ n \in Call(t) /\ n.pc = p /\ n.role = l.role /\ n.now = l.now /\ n.id = l.id /\ n.held = l.held /\ n.stage = l.stage
        /\ n.op = l.op /\ n.found = l.found
    BY <1>0, <2>0, ResumesIs
  <2>2. n = Retries(l, p) BY <1>1 DEF Retries, Resumes
  <2> HIDE DEF n
  <2>3. Staged(n) /\ Place(n) = p BY <1>0, <2>1 DEF Staged, Place
  <2>4. Sound(n, t, K, B, D, V)
    BY <1>0, <2>1, <2>3 DEF Sound, Placed, Decided, Binds, Knowing, Holds, Clear, Owning, Makings, Lookups, Writing, Loading
  <2>5. Making(n) => Making(l) BY <1>0, <2>1, <2>3 DEF Making, Makings, Lookups, Writing
  <2>6. l.role.kind = "sweep" => p = "get" BY <1>0
  <2> QED BY <2>1, <2>2, <2>4, <2>5, <2>6
<1>2. CASE l.tries + 1 >= MaxTries /\ l.op.kind = "sweep" /\ l.pc = "cas"
  <2> DEFINE n == Goes(l, "each")
  <2>0. "each" \in Pcs BY DEF Pcs
  <2>1. /\ n \in Call(t) /\ n.pc = "each" /\ n.role = l.role /\ n.now = l.now /\ n.id = l.id /\ n.held = l.held /\ n.stage = l.stage
        /\ n.op = l.op /\ n.found = l.found
    BY <1>0, <2>0, GoesIs
  <2>2. n = Retries(l, p)
    BY <1>0, <1>2, DevicesAssumption DEF Retries, Call, Locals
  <2> HIDE DEF n
  <2>3. Staged(n) /\ Place(n) = "each" BY <1>0, <2>1 DEF Staged, Place
  <2>4. Sound(n, t, K, B, D, V) /\ ~Making(n)
    BY <1>0, <1>2, <2>1, <2>3 DEF Sound, Placed, Decided, Binds, Knowing, Holds, Clear, Owning, Making, Makings, Lookups, Writing, Loading
  <2> QED BY <2>1, <2>2, <2>4
<1>3. CASE l.tries + 1 >= MaxTries /\ l.op.kind # "sweep"
  <2>1. Retries(l, p) = Drops(l, Answers(l, "contended"))
    BY <1>0, <1>3, DevicesAssumption DEF Retries, Call, Locals
  <2>2. Steady(l, Answers(l, "contended"), t, K, B, D, V) /\ Answers(l, "contended").pc = "done"
    BY <1>0, AnswersSteady, AnswersIs DEF ServedOuts
  <2> QED BY <1>0, <1>3, <2>1, <2>2, DropsSound
<1>4. ~(l.op.kind = "sweep" /\ l.pc = "insert") BY <1>0 DEF Staged
<1>5. l.tries + 1 \in Int /\ MaxTries \in Int BY <1>0, DevicesAssumption DEF Call, Locals
<1> QED BY <1>1, <1>2, <1>3, <1>4, <1>5

-----------------------------------------------------------------------------
(* A call goes on in a state where more is known, fewer are barred and     *)
(* owners are kept.                                                        *)
OwnersKept(K, D, V, D2, V2) ==
    \A d \in K : \A u \in Users : OwnerIs(d, u, D, V) => OwnerIs(d, u, D2, V2)

LEMMA SoundMoves ==
    ASSUME NEW t \in Nat, NEW K, NEW B, NEW D, NEW V, NEW K2, NEW B2, NEW D2, NEW V2,
           NEW l, Sound(l, t, K, B, D, V), K \subseteq K2, B2 \subseteq B, OwnersKept(K, D, V, D2, V2)
    PROVE  Sound(l, t, K2, B2, D2, V2)
<1>0. l \in Call(t) /\ l.role \in Role /\ l.row \in Rows(t) \cup {Absent} BY DEF Sound, Call, Locals
<1>1. Knowing(l, K2) BY DEF Sound, Knowing, Holds
<1>2. Clear(l, B2) BY DEF Sound, Clear
<1>3. \A r \in Rows(t) : r.user # NoUser => r.user \in Users BY DEF Rows, DeviceRow, Owners
<1>4. \A d \in K, r \in Rows(t) : Belongs(d, r, D, V) => Belongs(d, r, D2, V2)
  BY <1>3 DEF Belongs, OwnersKept
<1>5. l.role.kind \in {"ensure", "resolve"} /\ l.role.user # NoUser => l.role.user \in Users
  BY <1>0, RoleIs DEF Owners
<1>6. l.pc = "keep" => Belongs(l.id, l.row, D2, V2)
  <2> SUFFICES ASSUME l.pc = "keep" PROVE Belongs(l.id, l.row, D2, V2) OBVIOUS
  <2>1. l.row \in Rows(t) /\ l.id \in K /\ Belongs(l.id, l.row, D, V)
    BY DEF Sound, Placed, Place, Knowing, Owning
  <2> QED BY <2>1, <1>4
<1>7. l.pc \in {"prune", "stray"} => \A x \in l.found : Belongs(x[1], x[2], D2, V2)
  <2> SUFFICES ASSUME l.pc \in {"prune", "stray"}, NEW x \in l.found PROVE Belongs(x[1], x[2], D2, V2) OBVIOUS
  <2>1. l.found \in SUBSET (Ids \X Rows(t)) /\ x[1] \in K /\ Belongs(x[1], x[2], D, V)
    BY DEF Sound, Placed, Place, Knowing, Owning
  <2>2. x[2] \in Rows(t) BY <2>1
  <2> QED BY <2>1, <2>2, <1>4
<1>8. Place(l) \in Writing /\ l.op.kind = "sight" /\ l.role.kind \in {"ensure", "resolve"} /\ l.role.user # NoUser
            => OwnerIs(l.id, l.role.user, D2, V2)
  BY <1>5 DEF Sound, Owning, Knowing, OwnersKept
<1>9. Place(l) = "done" /\ l.out = "served" =>
            /\ l.role.kind \in {"ensure", "resolve"}
            /\ l.role.user # NoUser => OwnerIs(l.id, l.role.user, D2, V2)
  BY <1>5 DEF Sound, Owning, Knowing, OwnersKept
<1>10. Owning(l, D2, V2) BY <1>6, <1>7, <1>8, <1>9 DEF Owning, Sound
<1> QED BY <1>1, <1>2, <1>10 DEF Sound

-----------------------------------------------------------------------------
(* A step of call c that leaves it with locals m. *)
Turn(c, m) == c \in DOMAIN call /\ call' = [call EXCEPT ![c] = m] /\ plan' = plan

LEMMA TurnIs ==
    ASSUME Typed, NEW c, NEW m, Turn(c, m)
    PROVE  /\ DOMAIN call' = DOMAIN call /\ call'[c] = m /\ \A x \in DOMAIN call \ {c} : call'[x] = call[x]
           /\ call' = [x \in DOMAIN call' |-> call'[x]]
           /\ c \in DOMAIN call /\ c \in Callers
BY DEF Typed, Turn

LEMMA KnownGrows ==
    ASSUME Typed, NEW c, NEW m, Turn(c, m), minted \subseteq minted',
           Making(m) => (Making(call[c]) /\ m.id = call[c].id) \/ m.id \notin minted
    PROVE  Known \subseteq Known'
BY TurnIs DEF Known

LEMMA MadeKnown ==
    ASSUME Typed, Apart, NEW c, NEW m, Turn(c, m), minted \subseteq minted', Making(call[c]), ~Making(m)
    PROVE  call[c].id \in Known'
BY TurnIs DEF Known, Apart

LEMMA TurnCalls ==
    ASSUME Typed, Calls, NEW c, NEW m, Turn(c, m), Known \subseteq Known', time <= time', time' \in Nat,
           \A x \in Callers : record'.barred[x] \subseteq record.barred[x],
           OwnersKept(Known, device, record.saved, device', record'.saved),
           Sound(m, plan.time, Known', record'.barred[c], device', record'.saved), m.now <= time'
    PROVE  Calls'
<1> SUFFICES ASSUME NEW x \in DOMAIN call'
             PROVE  Sound(call'[x], plan'.time, Known', record'.barred[x], device', record'.saved) /\ call'[x].now <= time'
  BY DEF Calls
<1>0. plan' = plan /\ plan.time \in Nat /\ time \in Nat BY DEF Turn, Typed, IsPlan
<1>1. CASE x = c BY <1>0, <1>1, TurnIs
<1>2. CASE x # c
  <2>1. x \in DOMAIN call /\ call'[x] = call[x] /\ x \in Callers BY <1>2, TurnIs DEF Typed
  <2>2. Sound(call[x], plan.time, Known, record.barred[x], device, record.saved) /\ call[x].now <= time
    BY <2>1 DEF Calls
  <2>3. Sound(call[x], plan.time, Known', record'.barred[x], device', record'.saved)
    BY <1>0, <2>1, <2>2, SoundMoves
  <2>4. call[x].now \in Nat BY <2>2, <1>0 DEF Sound, Call, Locals
  <2> QED BY <1>0, <2>1, <2>2, <2>3, <2>4
<1> QED BY <1>1, <1>2

LEMMA TurnApart ==
    ASSUME Typed, Apart, NEW c, NEW m, Turn(c, m), minted \subseteq minted',
           Making(m) => (Making(call[c]) /\ m.id = call[c].id) \/ (m.id \notin minted /\ m.id \in minted')
    PROVE  Apart'
BY TurnIs DEF Apart

-----------------------------------------------------------------------------
(* What a step that writes no row makes of the history r. *)
Settled(c, m, r, e) ==
    /\ RecordOK(e)
    /\ e.ended = r.ended /\ e.barred = r.barred /\ e.born = r.born
    /\ e.bound = r.bound /\ e.saved = r.saved /\ e.sighted = r.sighted
    /\ e.early = r.early /\ r.unlisted \subseteq e.unlisted
    /\ m.pc = "done" => /\ e.gone = r.gone \cup r.ending[c] /\ e.ending[c] = {}
                        /\ \A x \in Callers \ {c} : e.ending[x] = r.ending[x]
    /\ m.pc # "done" => e.gone = r.gone /\ e.ending = r.ending
Settles(c, m) == Settled(c, m, record, record')

LEMMA EndedIs ==
    ASSUME NEW r, RecordOK(r), NEW c \in Callers, NEW m
    PROVE  Settled(c, m, r, Ended(c, m, r)) /\ Ended(c, m, r).unlisted = r.unlisted
<1>1. CASE m.pc = "done"
  <2> DEFINE G == r.gone \cup r.ending[c]
             N == [r.ending EXCEPT ![c] = {}]
             e == [r EXCEPT !.gone = G, !.ending = N]
  <2>1. Ended(c, m, r) = [r EXCEPT !.gone = @ \cup r.ending[c], !.ending[c] = {}] BY <1>1 DEF Ended
  <2>3. Ended(c, m, r) = e BY <2>1 DEF RecordOK, Shaped
  <2>4. e \in [ended : {r.ended}, gone : {G}, ending : {N}, barred : {r.barred}, born : {r.born},
               bound : {r.bound}, saved : {r.saved}, unlisted : {r.unlisted}, sighted : {r.sighted}, early : {r.early}]
    <3> HIDE DEF G, N
    <3> QED BY DEF RecordOK, Shaped
  <2>5. N \in [Callers -> SUBSET Ids] /\ N[c] = {} /\ \A x \in Callers \ {c} : N[x] = r.ending[x] BY DEF RecordOK
  <2> HIDE DEF e, N
  <2>6. RecordOK(e) BY <2>4, <2>5 DEF RecordOK, Shaped
  <2> QED BY <1>1, <2>3, <2>4, <2>5, <2>6 DEF Settled
<1>2. CASE m.pc # "done" BY <1>2 DEF Ended, Settled
<1> QED BY <1>1, <1>2

LEMMA EndedSettles ==
    ASSUME RecordOK(record), NEW c \in Callers, NEW m, record' = Ended(c, m, record)
    PROVE  Settles(c, m)
BY EndedIs DEF Settles

(* A step of call c that writes no row, and no guard. *)
Local(c, m) ==
    /\ Turn(c, m) /\ Settles(c, m)
    /\ UNCHANGED <<device, expiry, guard, time>> /\ minted \subseteq minted' /\ minted' \subseteq Ids

LEMMA LocalIs ==
    ASSUME Typed, NEW c \in DOMAIN call, NEW m, Locally(c, m)
    PROVE  Local(c, m) /\ index' = index
<1>1. c \in Callers /\ RecordOK(record) /\ minted \subseteq Ids BY DEF Typed
<1> QED BY <1>1, EndedSettles DEF Local, Locally, Turn, storeVars

LEMMA IndexingIs ==
    ASSUME Typed, NEW c \in DOMAIN call, NEW m, NEW idx, Indexing(c, m, idx)
    PROVE  Local(c, m) /\ index' = idx /\ UNCHANGED cacheVars
<1>1. c \in Callers /\ RecordOK(record) /\ minted \subseteq Ids BY DEF Typed
<1> QED BY <1>1, EndedSettles DEF Local, Indexing, Turn

(* How call c may go on in a step that writes no row. *)
GoesOn(c, m) ==
    /\ Sound(m, plan.time, Known, record.barred[c], device, record.saved)
    /\ m.now <= time
    /\ m.role = call[c].role
    /\ Making(m) => (Making(call[c]) /\ m.id = call[c].id) \/ m.id \in minted' \ minted
    /\ Keyed(m, guard, time, device, record.born)

LEMMA LocalSteps ==
    ASSUME DevicesInv, NEW c, NEW m, Local(c, m), GoesOn(c, m),
           index' \in [tenant : SUBSET Ids, fp : SUBSET Ids, own : [Users -> SUBSET Ids]], Listed', CacheInv',
           cached' \in [Ids -> Rows(plan.time) \cup {Absent}], loading' \in [Ids -> SUBSET Callers],
           \A d \in Ids : cached'[d] # Absent => d \in Known
    PROVE  DevicesInv'
<1> USE DEF DevicesInv
<1>0. /\ Typed /\ Calls /\ Apart /\ KnownRows /\ KnownHistory /\ RowsInv /\ KeyInv
      /\ Turn(c, m) /\ plan' = plan /\ device' = device /\ expiry' = expiry /\ guard' = guard
      /\ minted \subseteq minted' /\ minted' \subseteq Ids /\ time' = time
  BY DEF Local, Turn
<1>1. /\ DOMAIN call' = DOMAIN call /\ call'[c] = m /\ \A x \in DOMAIN call \ {c} : call'[x] = call[x]
      /\ call' = [x \in DOMAIN call' |-> call'[x]] /\ c \in DOMAIN call /\ c \in Callers
  BY <1>0, TurnIs
<1>2. Settles(c, m) BY DEF Local
<1>3. Known \subseteq Known' BY <1>0, KnownGrows DEF GoesOn
<1>4. Typed'
  <2>1. RecordOK(record') BY <1>2 DEF Settles, Settled
  <2> QED BY <1>0, <1>1, <2>1 DEF Typed
<1>5. Calls'
  <2>1. OwnersKept(Known, device, record.saved, device', record'.saved) BY <1>0, <1>2 DEF OwnersKept, Settles, Settled
  <2>2. time \in Nat /\ plan.time \in Nat BY <1>0 DEF Typed, IsPlan
  <2>3. Sound(m, plan.time, Known', record'.barred[c], device', record'.saved)
    <3>1. Sound(m, plan.time, Known, record.barred[c], device, record.saved) BY DEF GoesOn
    <3>2. record'.barred[c] \subseteq record.barred[c] BY <1>2 DEF Settles, Settled
    <3> QED BY <1>3, <2>1, <2>2, <3>1, <3>2, SoundMoves
  <2>4. \A x \in Callers : record'.barred[x] \subseteq record.barred[x] BY <1>2 DEF Settles, Settled
  <2> QED BY <1>0, <1>3, <2>1, <2>2, <2>3, <2>4, TurnCalls DEF GoesOn
<1>6. Apart' BY <1>0, TurnApart DEF GoesOn
<1>7. KnownRows' BY <1>0, <1>3 DEF KnownRows
<1>8. KnownHistory'
  <2>1. \A x \in Callers : record'.ending[x] \subseteq record.ending[x] /\ record'.barred[x] = record.barred[x]
    BY <1>2 DEF Settles, Settled
  <2>2. record'.gone \subseteq record.gone \cup record.ending[c] BY <1>2 DEF Settles, Settled
  <2> QED BY <1>0, <1>1, <1>2, <1>3, <2>1, <2>2 DEF KnownHistory, Settles, Settled
<1>9. RowsInv' BY <1>0, <1>2 DEF RowsInv, Settles, Settled, Frozen, Sighted, RetentionFair, BindingsKept
<1>10. KeyInv'
  <2>1. BornOwned' /\ OneLivePerKey' BY <1>0, <1>2 DEF KeyInv, Settles, Settled, BornOwned, OneLivePerKey
  <2>2. ASSUME NEW x \in DOMAIN call PROVE Keyed(call'[x], guard, time, device, record.born)
    BY <1>0, <1>1 DEF KeyInv, Searches, GoesOn
  <2>4. Searches' BY <1>0, <1>1, <1>2, <2>2 DEF Searches, Settles, Settled
  <2> QED BY <2>1, <2>4 DEF KeyInv, Searches
<1> QED BY <1>4, <1>5, <1>6, <1>7, <1>8, <1>9, <1>10

-----------------------------------------------------------------------------
(* The cache, in a step of call c that writes no row: what it keeps is the *)
(* row that c loaded, if no write struck that load.                        *)
Caching(c, m) ==
    /\ \A d \in Ids : \A y \in loading'[d] : y = c \/ y \in loading[d]
    /\ \A d \in Ids : c \in loading'[d] =>
            m.id = d /\ m.pc \in {"fetch", "keep"} /\ (m.pc = "keep" => m.row = device[d])
    /\ \A d \in Ids : \/ cached'[d] \in {cached[d], Absent}
                      \/ d = call[c].id /\ c \in loading[d] /\ call[c].pc = "keep" /\ cached'[d] = call[c].row
    /\ ~plan.cached => /\ m.pc \notin {"drop", "fetch", "keep"}
                       /\ \A d \in Ids : cached'[d] = Absent /\ loading'[d] = {}

LEMMA IdsOf ==
    ASSUME DevicesInv
    PROVE  /\ Known \subseteq Ids /\ record.gone \subseteq Ids
           /\ \A c \in Callers : record.ending[c] \subseteq Ids /\ record.barred[c] \subseteq Ids
<1>1. Known \subseteq Ids BY DEF DevicesInv, Typed, Known
<1>2. record.gone \subseteq Known BY DEF DevicesInv, KnownHistory
<1> QED BY <1>1, <1>2 DEF DevicesInv, KnownHistory

LEMMA CacheMoves ==
    ASSUME DevicesInv, NEW c, NEW m, Local(c, m), GoesOn(c, m), Caching(c, m),
           m.pc = "done" => \A d \in record.ending[c] : Out(d)',
           m.pc # "done" => \A d \in record.ending[c] : plan.cached =>
                IF m.pc = "drop" THEN m.next = "done" /\ d \in m.stale ELSE m.role.kind = "sweep"
    PROVE  CacheInv'
<1>0. /\ Typed /\ Calls /\ KnownRows /\ KnownHistory /\ CacheInv
      /\ Turn(c, m) /\ plan' = plan /\ device' = device
  BY DEF Local, Turn, DevicesInv
<1>1. /\ DOMAIN call' = DOMAIN call /\ call'[c] = m /\ \A x \in DOMAIN call \ {c} : call'[x] = call[x]
      /\ c \in DOMAIN call /\ c \in Callers
  BY <1>0, TurnIs
<1>2. Settles(c, m) BY DEF Local
<1>3. Loads1' BY <1>0, <1>1 DEF Caching, CacheInv, Loads1
<1>4. Uncached' BY <1>0, <1>1 DEF Caching, CacheInv, Uncached
<1>5. CachedOwn'
  <2> SUFFICES ASSUME NEW d \in Ids, cached'[d] # Absent
               PROVE  Belongs(d, cached'[d], device, record.saved)
    BY <1>0, <1>2 DEF CachedOwn, Settles, Settled
  <2>1. CASE cached'[d] = cached[d] BY <1>0, <2>1 DEF CacheInv, CachedOwn
  <2>2. CASE d = call[c].id /\ call[c].pc = "keep" /\ cached'[d] = call[c].row
    <3>1. Owning(call[c], device, record.saved) BY <1>0, <1>1 DEF Calls, Sound
    <3> QED BY <2>2, <3>1 DEF Owning
  <2> QED BY <2>1, <2>2 DEF Caching
<1>6. ASSUME NEW d \in Ids, Out(d) PROVE Out(d)'
  <2>1. ~live(cached'[d])
    <3>1. CASE cached'[d] = cached[d] BY <1>6, <3>1 DEF Out
    <3>2. CASE cached'[d] = Absent BY <3>2 DEF live
    <3>3. CASE d = call[c].id /\ c \in loading[d] /\ call[c].pc = "keep" /\ cached'[d] = call[c].row
      BY <1>6, <3>3 DEF Out
    <3> QED BY <3>1, <3>2, <3>3 DEF Caching
  <2>2. ~live(device[d]) BY <1>6 DEF Out
  <2>3. ASSUME NEW y \in loading'[d], call'[y].pc = "keep" PROVE ~live(call'[y].row)
    <3>1. CASE y = c BY <1>1, <2>2, <2>3, <3>1 DEF Caching
    <3>2. CASE y # c
      <4>1. y \in loading[d] /\ y \in DOMAIN call BY <1>0, <3>2, <2>3 DEF Caching, CacheInv, Loads1
      <4> QED BY <1>1, <1>6, <2>3, <3>2, <4>1 DEF Out
    <3> QED BY <3>1, <3>2
  <2> QED BY <1>0, <2>1, <2>2, <2>3 DEF Out
<1>7. OutHolds'
  <2>1. \A d \in record.gone : Out(d)' BY <1>0, <1>6, IdsOf DEF CacheInv, OutHolds
  <2>2. \A x \in Callers : \A d \in record'.barred[x] : Out(d)'
    BY <1>0, <1>2, <1>6, IdsOf DEF CacheInv, OutHolds, Settles, Settled
  <2>3. \A d \in record'.gone : Out(d)'
    <3>1. CASE m.pc = "done" BY <1>2, <2>1, <3>1 DEF Settles, Settled
    <3>2. CASE m.pc # "done" BY <1>2, <2>1, <3>2 DEF Settles, Settled
    <3> QED BY <3>1, <3>2
  <2> QED BY <2>2, <2>3 DEF OutHolds
<1>8. EndsHold'
  <2> SUFFICES ASSUME NEW x \in Callers, NEW d \in record'.ending[x] PROVE EndsOf(x, d)' BY DEF EndsHold
  <2>1. d \in record.ending[x] /\ (x = c => m.pc # "done") BY <1>2 DEF Settles, Settled
  <2>2. EndsOf(x, d) BY <1>0, <2>1 DEF CacheInv, EndsHold
  <2>3. CASE x = c BY <1>0, <1>1, <2>1, <2>2, <2>3 DEF EndsOf, GoesOn
  <2>4. CASE x # c BY <1>0, <1>1, <2>2, <2>4 DEF EndsOf
  <2> QED BY <2>3, <2>4
<1> QED BY <1>3, <1>4, <1>5, <1>7, <1>8 DEF CacheInv

(* A step that leaves the cache alone, of a call that owes it nothing. *)
LEMMA QuietStep ==
    ASSUME DevicesInv, NEW c, NEW m, Local(c, m), GoesOn(c, m), UNCHANGED cacheVars,
           index' \in [tenant : SUBSET Ids, fp : SUBSET Ids, own : [Users -> SUBSET Ids]], Listed',
           call[c].pc \notin {"drop", "fetch", "keep"}, m.pc \notin {"fetch", "keep"},
           m.pc = "drop" => plan.cached /\ (m.role.kind = "sweep" => m.next = "done" /\ m.stale = Ids),
           m.role.kind = "sweep" /\ plan.cached => m.pc # "done"
    PROVE  DevicesInv'
<1>0. /\ Typed /\ Calls /\ KnownRows /\ KnownHistory /\ CacheInv
      /\ Turn(c, m) /\ plan' = plan /\ device' = device /\ cached' = cached /\ loading' = loading
  BY DEF Local, Turn, DevicesInv, cacheVars
<1>1. /\ c \in DOMAIN call /\ c \in Callers /\ m.role = call[c].role
  BY <1>0, TurnIs DEF GoesOn
<1>2. \A d \in Ids : c \notin loading[d] BY <1>0 DEF CacheInv, Loads1
<1>3. Caching(c, m) BY <1>0, <1>2 DEF Caching, CacheInv, Uncached
<1>4. \A d \in record.ending[c] : EndsOf(c, d) /\ d \in Ids BY <1>0, <1>1, IdsOf DEF CacheInv, EndsHold
<1>5. ASSUME m.pc = "done", NEW d \in record.ending[c] PROVE Out(d)'
  <2>1. ~plan.cached BY <1>1, <1>4, <1>5 DEF EndsOf
  <2>2. ~live(device[d]) /\ cached[d] = Absent /\ loading[d] = {} BY <1>0, <1>4, <1>5, <2>1 DEF EndsOf, CacheInv, Uncached
  <2> QED BY <1>0, <2>2 DEF Out, live
<1>6. ASSUME m.pc # "done", NEW d \in record.ending[c], plan.cached
      PROVE  IF m.pc = "drop" THEN m.next = "done" /\ d \in m.stale ELSE m.role.kind = "sweep"
  BY <1>1, <1>4, <1>6 DEF EndsOf
<1>7. CacheInv' BY <1>3, <1>5, <1>6, CacheMoves
<1> QED BY <1>0, <1>7, LocalSteps DEF Typed, KnownRows

LEMMA SameIndex ==
    ASSUME DevicesInv, NEW c, NEW m, Local(c, m), index' = index
    PROVE  index' \in [tenant : SUBSET Ids, fp : SUBSET Ids, own : [Users -> SUBSET Ids]] /\ Listed'
BY DEF DevicesInv, RowsInv, Listed, Typed, Local, Settles, Settled

LEMMA StillStep ==
    ASSUME DevicesInv, NEW c \in DOMAIN call, NEW m, Locally(c, m), GoesOn(c, m), UNCHANGED cacheVars,
           call[c].pc \notin {"drop", "fetch", "keep"}, m.pc \notin {"fetch", "keep"},
           m.pc = "drop" => plan.cached /\ (m.role.kind = "sweep" => m.next = "done" /\ m.stale = Ids),
           m.role.kind = "sweep" /\ plan.cached => m.pc # "done"
    PROVE  DevicesInv'
<1>1. Local(c, m) /\ index' = index BY LocalIs DEF DevicesInv
<1> QED BY <1>1, SameIndex, QuietStep

LEMMA CallIs ==
    ASSUME DevicesInv, NEW c \in DOMAIN call
    PROVE  /\ c \in Callers /\ plan.time \in Nat /\ time \in Nat
           /\ Sound(call[c], plan.time, Known, record.barred[c], device, record.saved)
           /\ call[c] \in Call(plan.time) /\ call[c].role \in Role /\ Staged(call[c]) /\ Holds(call[c], Known)
           /\ call[c].now \in Nat /\ call[c].now <= time
           /\ Keyed(call[c], guard, time, device, record.born)
<1>1. c \in Callers /\ plan.time \in Nat /\ time \in Nat BY DEF DevicesInv, Typed, IsPlan
<1>2. Sound(call[c], plan.time, Known, record.barred[c], device, record.saved) /\ call[c].now <= time
  BY DEF DevicesInv, Calls
<1>3. call[c] \in Call(plan.time) /\ Staged(call[c]) /\ Holds(call[c], Known) BY <1>2 DEF Sound, Knowing
<1>4. call[c].role \in Role /\ call[c].now \in Nat BY <1>1, <1>3 DEF Call, Locals
<1>5. Keyed(call[c], guard, time, device, record.born) BY DEF DevicesInv, KeyInv, Searches
<1> QED BY <1>1, <1>2, <1>3, <1>4, <1>5

LEMMA NotSearching ==
    ASSUME NEW l, ~Making(l), NEW G, NEW t, NEW D, NEW N
    PROVE  Keyed(l, G, t, D, N)
BY DEF Making, Keyed, Searching, Place, Makings, Lookups

LEMMA SteadyGoesOn ==
    ASSUME DevicesInv, NEW c \in DOMAIN call, NEW l, l.role = call[c].role, l.now = call[c].now, NEW m,
           Steady(l, m, plan.time, Known, record.barred[c], device, record.saved)
    PROVE  GoesOn(c, m) /\ m.pc \in Calm /\ m.role = call[c].role
<1>1. ~Making(m) /\ m.role = l.role /\ m.now \in {0, l.now} /\ m.pc \in Calm BY DEF Steady
<1>2. m.now <= time BY <1>1, CallIs
<1>3. Keyed(m, guard, time, device, record.born) BY <1>1, NotSearching
<1> QED BY <1>1, <1>2, <1>3 DEF GoesOn, Steady

(* The locals with the row that was read. *)
ReadsAs(l, row) == [l EXCEPT !.row = row]
LEMMA ReadsIs ==
    ASSUME NEW t, NEW l \in Call(t), NEW row \in Rows(t) \cup {Absent}
    PROVE  /\ ReadsAs(l, row) \in Call(t) /\ ReadsAs(l, row).row = row /\ ReadsAs(l, row).role = l.role
           /\ ReadsAs(l, row).now = l.now /\ ReadsAs(l, row).id = l.id /\ ReadsAs(l, row).stage = l.stage
           /\ ReadsAs(l, row).op = l.op /\ ReadsAs(l, row).held = l.held
BY DEF ReadsAs, Call, Locals

LEMMA LoadedOn ==
    ASSUME DevicesInv, NEW c \in DOMAIN call, call[c].pc \in Loading,
           NEW row \in Rows(plan.time) \cup {Absent},
           row # Absent => /\ call[c].id \in Known /\ (live(row) => call[c].id \notin record.barred[c])
                           /\ Belongs(call[c].id, row, device, record.saved)
    PROVE  LET m == Loaded(ReadsAs(call[c], row))
           IN  /\ GoesOn(c, m) /\ m.role = call[c].role /\ m.role.kind # "sweep" /\ m.pc \in Calm
<1> DEFINE l == ReadsAs(call[c], row)
<1>1. /\ l \in Call(plan.time) /\ l.row = row /\ l.role = call[c].role /\ l.now = call[c].now
      /\ l.id = call[c].id /\ l.stage = call[c].stage /\ l.op = call[c].op /\ l.held = call[c].held
  BY CallIs, ReadsIs
<1> HIDE DEF l
<1>2. /\ call[c].id \in Ids
      /\ \/ call[c].role.kind \in {"promote", "bind", "use", "save"}
         \/ call[c].role.kind = "resolve" /\ call[c].stage \in {"presented", "session"}
  BY CallIs DEF Sound, Placed, Place, Loading
<1>3. Staged(l) /\ Holds(l, Known) BY <1>1, CallIs DEF Staged, Holds
<1>4. Handed(l, Known, record.barred[c], device, record.saved) BY <1>1 DEF Handed
<1>5. Steady(l, Loaded(l), plan.time, Known, record.barred[c], device, record.saved)
  BY <1>1, <1>2, <1>3, <1>4, CallIs, LoadedSteady
<1>6. GoesOn(c, Loaded(l)) /\ Loaded(l).pc \in Calm /\ Loaded(l).role = call[c].role BY <1>1, <1>5, SteadyGoesOn
<1> QED BY <1>2, <1>6 DEF l

(* The devices a loading call was given are there, and not barred. *)
LEMMA InStore ==
    ASSUME DevicesInv, NEW c \in DOMAIN call, NEW d \in Ids
    PROVE  /\ device[d] \in Rows(plan.time) \cup {Absent} /\ cached[d] \in Rows(plan.time) \cup {Absent}
           /\ device[d] # Absent => /\ d \in Known /\ (live(device[d]) => d \notin record.barred[c])
                                    /\ Belongs(d, device[d], device, record.saved)
           /\ cached[d] # Absent => /\ d \in Known /\ (live(cached[d]) => d \notin record.barred[c])
                                    /\ Belongs(d, cached[d], device, record.saved)
<1>1. device[d] \in Rows(plan.time) \cup {Absent} /\ cached[d] \in Rows(plan.time) \cup {Absent}
  BY DEF DevicesInv, Typed
<1>2. device[d] # Absent \/ cached[d] # Absent => d \in Known BY DEF DevicesInv, KnownRows
<1>3. live(device[d]) \/ live(cached[d]) => d \notin record.barred[c]
  BY CallIs DEF DevicesInv, CacheInv, OutHolds, Out
<1>4. Belongs(d, device[d], device, record.saved) BY DEF Belongs, OwnerIs
<1>5. cached[d] # Absent => Belongs(d, cached[d], device, record.saved) BY DEF DevicesInv, CacheInv, CachedOwn
<1> QED BY <1>1, <1>2, <1>3, <1>4, <1>5

LEMMA LoadKeeps ==
    ASSUME DevicesInv, NEW c \in DOMAIN call, load(c)
    PROVE  DevicesInv'
<1> DEFINE l == call[c]
<1>0. l.pc = "load" /\ l.pc \in Loading /\ l.id \in Ids /\ l.role.kind # "sweep"
  BY CallIs DEF load, Loading, Sound, Placed, Place
<1>1. ASSUME NEW row \in Rows(plan.time) \cup {Absent}, UNCHANGED cacheVars,
             row # Absent => /\ l.id \in Known /\ (live(row) => l.id \notin record.barred[c])
                             /\ Belongs(l.id, row, device, record.saved),
             Locally(c, Loaded([l EXCEPT !.row = row]))
      PROVE  DevicesInv'
  <2> DEFINE m == Loaded(ReadsAs(l, row))
  <2>1. Locally(c, m) BY <1>1 DEF ReadsAs
  <2>2. GoesOn(c, m) /\ m.role = l.role /\ m.role.kind # "sweep" /\ m.pc \in Calm BY <1>0, <1>1, LoadedOn
  <2> HIDE DEF m
  <2>3. m.pc \notin {"fetch", "keep", "drop"} BY <2>2 DEF Calm
  <2> QED BY <1>0, <1>1, <2>1, <2>2, <2>3, StillStep
<1>2. CASE ~plan.cached
  <2>1. Locally(c, Loaded([l EXCEPT !.row = device[l.id]])) /\ UNCHANGED cacheVars BY <1>2 DEF load
  <2> QED BY <1>0, <1>1, <2>1, InStore
<1>3. CASE plan.cached /\ cached[l.id] # Absent
  <2>1. Locally(c, Loaded([l EXCEPT !.row = cached[l.id]])) /\ UNCHANGED cacheVars BY <1>3 DEF load
  <2> QED BY <1>0, <1>1, <2>1, InStore
<1>4. CASE plan.cached /\ cached[l.id] = Absent /\ InFlight(l.id) # {}
  <2>1. UNCHANGED cacheVars /\ \E d \in InFlight(l.id) : Locally(c, Loaded([l EXCEPT !.row = call[d].row]))
    BY <1>4 DEF load
  <2>2. PICK d \in InFlight(l.id) : Locally(c, Loaded([l EXCEPT !.row = call[d].row])) BY <2>1
  <2>3. d \in loading[l.id] /\ call[d].pc = "keep" /\ d \in DOMAIN call /\ call[d].id = l.id
    BY <1>0 DEF InFlight, DevicesInv, CacheInv, Loads1
  <2>4. Sound(call[d], plan.time, Known, record.barred[d], device, record.saved) BY <2>3, CallIs
  <2>5. /\ call[d].row \in Rows(plan.time) /\ l.id \in Known /\ Belongs(l.id, call[d].row, device, record.saved)
    BY <2>3, <2>4 DEF Sound, Placed, Place, Knowing, Owning
  <2>6. live(call[d].row) => l.id \notin record.barred[c]
    BY <1>0, <2>3, CallIs DEF DevicesInv, CacheInv, OutHolds, Out
  <2>7. call[d].row \in Rows(plan.time) \cup {Absent} BY <2>5
  <2> HIDE DEF l
  <2> QED BY <1>1, <2>1, <2>2, <2>5, <2>6, <2>7
<1>5. CASE plan.cached /\ cached[l.id] = Absent /\ InFlight(l.id) = {}
  <2> DEFINE m == Goes(l, "fetch")
  <2>1. loading' = [loading EXCEPT ![l.id] = @ \cup {c}] /\ cached' = cached /\ Locally(c, m) BY <1>5 DEF load
  <2>2. Local(c, m) /\ index' = index BY <2>1, LocalIs DEF DevicesInv
  <2>3. "fetch" \in Pcs BY DEF Pcs, Loading
  <2>4. /\ m \in Call(plan.time) /\ m.pc = "fetch" /\ m.role = l.role /\ m.now = l.now /\ m.id = l.id
        /\ m.stage = l.stage /\ m.op = l.op /\ m.held = l.held
    BY <2>3, GoesIs, CallIs
  <2> HIDE DEF m
  <2>5. Place(m) = "fetch" /\ Staged(m) /\ Holds(m, Known) BY <2>4, CallIs DEF Place, Staged, Holds
  <2>6. Placed(m, plan.time)
    BY <1>0, <2>4, <2>5, CallIs DEF Sound, Placed, Place, Loading, Makings, Lookups, Writing
  <2>7. Sound(m, plan.time, Known, record.barred[c], device, record.saved) /\ ~Making(m)
    BY <2>4, <2>5, <2>6 DEF Sound, Decided, Binds, Knowing, Clear, Owning, Making, Makings, Lookups, Writing
  <2>8. GoesOn(c, m) BY <2>4, <2>7, NotSearching, CallIs DEF GoesOn
  <2>9. loading' \in [Ids -> SUBSET Callers] /\ cached' \in [Ids -> Rows(plan.time) \cup {Absent}]
    BY <2>1, CallIs DEF DevicesInv, Typed
  <2>10. /\ \A d \in Ids : \A y \in loading'[d] : y = c \/ y \in loading[d]
         /\ \A d \in Ids : c \in loading'[d] => d = l.id
    BY <1>0, <2>1 DEF DevicesInv, Typed, CacheInv, Loads1
  <2>11. Caching(c, m) BY <1>5, <2>1, <2>4, <2>10 DEF Caching
  <2>12. \A d \in record.ending[c] : FALSE
    BY <1>0, <1>5, CallIs DEF DevicesInv, CacheInv, EndsHold, EndsOf
  <2>13. CacheInv' BY <2>2, <2>4, <2>8, <2>11, <2>12, CacheMoves
  <2> QED BY <2>1, <2>2, <2>8, <2>9, <2>13, SameIndex, LocalSteps DEF DevicesInv, KnownRows
<1> QED BY <1>2, <1>3, <1>4, <1>5

LEMMA FetchKeeps ==
    ASSUME DevicesInv, NEW c \in DOMAIN call, fetch(c)
    PROVE  DevicesInv'
<1> DEFINE l == call[c]
           row == device[l.id]
           r == ReadsAs(l, row)
<1>0. l.pc = "fetch" /\ l.pc \in Loading /\ l.id \in Ids /\ l.role.kind # "sweep" /\ plan.cached
  BY CallIs DEF fetch, Loading, Sound, Placed, Place, DevicesInv, CacheInv, Uncached
<1>1. /\ row \in Rows(plan.time) \cup {Absent}
      /\ row # Absent => /\ l.id \in Known /\ (live(row) => l.id \notin record.barred[c])
                         /\ Belongs(l.id, row, device, record.saved)
  BY <1>0, InStore
<1>2. /\ r \in Call(plan.time) /\ r.row = row /\ r.role = l.role /\ r.now = l.now /\ r.id = l.id /\ r.stage = l.stage
      /\ r.op = l.op /\ r.held = l.held
  BY <1>1, CallIs, ReadsIs
<1>3. \A d \in record.ending[c] : FALSE
  BY <1>0, CallIs DEF DevicesInv, CacheInv, EndsHold, EndsOf
<1>4. \A d \in Ids : c \in loading[d] => d = l.id BY DEF DevicesInv, CacheInv, Loads1
<1>5. CASE row # Absent
  <2> DEFINE m == Goes(r, "keep")
  <2>1. Locally(c, m) /\ UNCHANGED cacheVars BY <1>2, <1>5 DEF fetch, ReadsAs
  <2>2. Local(c, m) /\ index' = index BY <2>1, LocalIs DEF DevicesInv
  <2>3. "keep" \in Pcs BY DEF Pcs, Loading
  <2> HIDE DEF r
  <2>4. /\ m \in Call(plan.time) /\ m.pc = "keep" /\ m.role = l.role /\ m.now = l.now /\ m.id = l.id
        /\ m.stage = l.stage /\ m.op = l.op /\ m.held = l.held /\ m.row = row
    BY <1>2, <2>3, GoesIs
  <2> HIDE DEF m
  <2>5. Place(m) = "keep" /\ Staged(m) /\ Holds(m, Known) BY <2>4, CallIs DEF Place, Staged, Holds
  <2>6. Placed(m, plan.time)
    BY <1>0, <1>1, <1>5, <2>4, <2>5, CallIs DEF Sound, Placed, Place, Loading, Makings, Lookups, Writing
  <2>7. Sound(m, plan.time, Known, record.barred[c], device, record.saved) /\ ~Making(m)
    BY <1>1, <1>5, <2>4, <2>5, <2>6 DEF Sound, Decided, Binds, Knowing, Clear, Owning, Making, Makings, Lookups, Writing
  <2>8. GoesOn(c, m) BY <2>4, <2>7, NotSearching, CallIs DEF GoesOn
  <2>9. loading' = loading /\ cached' = cached BY <2>1 DEF cacheVars
  <2>10. Caching(c, m) BY <1>0, <1>4, <2>4, <2>9 DEF Caching
  <2>11. CacheInv' BY <1>3, <2>2, <2>4, <2>8, <2>10, CacheMoves
  <2> QED BY <2>2, <2>8, <2>9, <2>11, SameIndex, LocalSteps DEF DevicesInv, KnownRows, Typed
<1>6. CASE row = Absent
  <2> DEFINE m == Loaded(r)
  <2>1. Locally(c, m) /\ loading' = [loading EXCEPT ![r.id] = @ \ {c}] /\ cached' = cached BY <1>2, <1>6 DEF fetch, ReadsAs
  <2>2. Local(c, m) /\ index' = index BY <2>1, LocalIs DEF DevicesInv
  <2>3. GoesOn(c, m) /\ m.pc \in Calm BY <1>0, <1>1, LoadedOn
  <2> HIDE DEF r, m
  <2>4. loading' \in [Ids -> SUBSET Callers] BY <1>0, <1>2, <2>1 DEF DevicesInv, Typed
  <2>5. /\ \A d \in Ids : \A y \in loading'[d] : y \in loading[d]
        /\ \A d \in Ids : c \notin loading'[d]
    BY <1>0, <1>2, <1>4, <2>1 DEF DevicesInv, Typed
  <2>6. Caching(c, m) BY <1>0, <2>1, <2>5 DEF Caching
  <2>7. CacheInv' BY <1>3, <2>2, <2>3, <2>6, CacheMoves
  <2> QED BY <2>1, <2>2, <2>3, <2>4, <2>7, SameIndex, LocalSteps DEF DevicesInv, KnownRows, Typed
<1> QED BY <1>5, <1>6

LEMMA KeepKeeps ==
    ASSUME DevicesInv, NEW c \in DOMAIN call, keep(c)
    PROVE  DevicesInv'
<1> DEFINE l == call[c]
           m == Loaded(ReadsAs(l, l.row))
<1>0. l.pc = "keep" /\ l.pc \in Loading /\ l.id \in Ids /\ l.role.kind # "sweep" /\ plan.cached
  BY CallIs DEF keep, Loading, Sound, Placed, Place, DevicesInv, CacheInv, Uncached
<1>1. l.row \in Rows(plan.time) /\ l.id \in Known /\ (live(l.row) => l.id \notin record.barred[c])
      /\ Belongs(l.id, l.row, device, record.saved)
  BY <1>0, CallIs DEF Sound, Placed, Place, Knowing, Clear, Owning
<1>2. GoesOn(c, m) /\ m.pc \in Calm BY <1>0, <1>1, LoadedOn
<1>3. \A d \in record.ending[c] : FALSE
  BY <1>0, CallIs DEF DevicesInv, CacheInv, EndsHold, EndsOf
<1>4. \A d \in Ids : c \in loading[d] => d = l.id BY DEF DevicesInv, CacheInv, Loads1
<1>5. ReadsAs(l, l.row) = l BY CallIs DEF ReadsAs, Call, Locals
<1>6. /\ cached' = IF c \in loading[l.id] THEN [cached EXCEPT ![l.id] = l.row] ELSE cached
      /\ loading' = [loading EXCEPT ![l.id] = @ \ {c}]
      /\ Locally(c, m)
  BY <1>5 DEF keep
<1> HIDE DEF m
<1>7. Local(c, m) /\ index' = index BY <1>6, LocalIs DEF DevicesInv
<1>8. loading' \in [Ids -> SUBSET Callers] BY <1>0, <1>6 DEF DevicesInv, Typed
<1>9. cached' \in [Ids -> Rows(plan.time) \cup {Absent}] BY <1>0, <1>1, <1>6 DEF DevicesInv, Typed
<1>10. /\ \A d \in Ids : \A y \in loading'[d] : y \in loading[d]
       /\ \A d \in Ids : c \notin loading'[d]
  BY <1>0, <1>4, <1>6 DEF DevicesInv, Typed
<1>11. \A d \in Ids : cached'[d] = cached[d] \/ (d = l.id /\ c \in loading[d] /\ cached'[d] = l.row)
  BY <1>0, <1>6 DEF DevicesInv, Typed
<1>12. Caching(c, m) BY <1>0, <1>10, <1>11 DEF Caching
<1>13. CacheInv' BY <1>2, <1>3, <1>7, <1>12, CacheMoves
<1>14. \A d \in Ids : cached'[d] # Absent => d \in Known BY <1>1, <1>11 DEF DevicesInv, KnownRows
<1> QED BY <1>2, <1>7, <1>8, <1>9, <1>13, <1>14, SameIndex, LocalSteps

(* The locals after the invalidation. *)
Rests(l) == [l EXCEPT !.pc = l.next, !.next = "none", !.stale = {}]
LEMMA RestsIs ==
    ASSUME NEW t, NEW l \in Call(t)
    PROVE  /\ Rests(l) \in Call(t) /\ Rests(l).pc = l.next /\ Rests(l).role = l.role /\ Rests(l).now = l.now
           /\ Rests(l).id = l.id /\ Rests(l).stage = l.stage /\ Rests(l).op = l.op /\ Rests(l).held = l.held
           /\ Rests(l).found = l.found /\ Rests(l).listed = l.listed /\ Rests(l).out = l.out /\ Rests(l).at = l.at
<1>1. "none" \in Pcs /\ l.next \in Pcs BY DEF Pcs, Call, Locals
<1> QED BY <1>1 DEF Rests, Call, Locals

LEMMA DropKeeps ==
    ASSUME DevicesInv, NEW c \in DOMAIN call, drop(c)
    PROVE  DevicesInv'
<1> DEFINE l == call[c]
           m == Rests(l)
<1>0. l.pc = "drop" /\ plan.cached BY DEF drop, DevicesInv, CacheInv, Uncached
<1>1. /\ m \in Call(plan.time) /\ m.pc = l.next /\ m.role = l.role /\ m.now = l.now /\ m.id = l.id
      /\ m.stage = l.stage /\ m.op = l.op /\ m.held = l.held /\ m.found = l.found /\ m.out = l.out
  BY RestsIs, CallIs
<1>2. /\ \A d \in Ids : cached'[d] = IF d \in l.stale THEN Absent ELSE cached[d]
      /\ \A d \in Ids : loading'[d] = IF d \in l.stale THEN {} ELSE loading[d]
      /\ cached' = [d \in Ids |-> IF d \in l.stale THEN Absent ELSE cached[d]]
      /\ loading' = [d \in Ids |-> IF d \in l.stale THEN {} ELSE loading[d]]
      /\ Locally(c, m)
  BY DEF drop, Rests
<1> HIDE DEF m
<1>3. Local(c, m) /\ index' = index BY <1>2, LocalIs DEF DevicesInv
<1>4. Place(l) = l.next /\ l.next \notin {"drop", "new", "none", "fetch", "keep", "cas", "rows", "prune", "stray"}
  BY <1>0, CallIs DEF Sound, Placed, Place
<1>5. Place(m) = Place(l) /\ Place(m) = m.pc BY <1>1, <1>4 DEF Place
<1>6. Sound(m, plan.time, Known, record.barred[c], device, record.saved)
  <2>1. Staged(m) /\ Holds(m, Known) BY <1>1, CallIs DEF Staged, Holds
  <2>2. Placed(m, plan.time) BY <1>1, <1>4, <1>5, CallIs DEF Sound, Placed
  <2>3. Decided(m) /\ Binds(m) BY <1>1, <1>4, <1>5, CallIs DEF Sound, Decided, Binds
  <2>4. Knowing(m, Known) /\ Clear(m, record.barred[c])
    BY <1>1, <1>4, <1>5, <2>1, CallIs DEF Sound, Knowing, Clear
  <2>5. Owning(m, device, record.saved) BY <1>1, <1>4, <1>5, CallIs DEF Sound, Owning
  <2> QED BY <1>1, <2>1, <2>2, <2>3, <2>4, <2>5 DEF Sound
<1>7. Making(m) => Making(l) BY <1>1, <1>5 DEF Making
<1>8. ~Making(m) /\ Keyed(m, guard, time, device, record.born)
  <2>1. ~Making(l) BY <1>0, CallIs DEF Sound, Placed
  <2> QED BY <1>7, <2>1, NotSearching
<1>9. GoesOn(c, m) BY <1>1, <1>6, <1>7, <1>8, CallIs DEF GoesOn
<1>10. Caching(c, m)
  <2>1. \A d \in Ids : c \notin loading[d] BY <1>0 DEF DevicesInv, CacheInv, Loads1
  <2> QED BY <1>0, <1>2, <2>1 DEF Caching
<1>11. \A d \in record.ending[c] : d \in Ids /\ ~live(device[d]) /\ l.next = "done" /\ d \in l.stale
  BY <1>0, IdsOf, CallIs DEF DevicesInv, CacheInv, EndsHold, EndsOf
<1>12. \A d \in record.ending[c] : Out(d)' BY <1>2, <1>3, <1>11 DEF Out, live, Local
<1>13. CacheInv' BY <1>1, <1>3, <1>9, <1>10, <1>11, <1>12, CacheMoves
<1>14. loading' \in [Ids -> SUBSET Callers] /\ cached' \in [Ids -> Rows(plan.time) \cup {Absent}]
  BY <1>2 DEF DevicesInv, Typed
<1>15. \A d \in Ids : cached'[d] # Absent => d \in Known BY <1>2 DEF DevicesInv, KnownRows
<1> QED BY <1>3, <1>9, <1>13, <1>14, <1>15, SameIndex, LocalSteps

-----------------------------------------------------------------------------
(* Rows a lookup of call c may have read: of known devices, none barred,   *)
(* and with each rival, unless the insert will not be made.                *)
Readable(c, R) ==
    LET l == call[c]
    IN  /\ R \subseteq Ids \X Rows(plan.time)
        /\ \A x \in R : /\ x[1] \in Known /\ (live(x[2]) => x[1] \notin record.barred[c])
                        /\ Belongs(x[1], x[2], device, record.saved)
        /\ l.stage = "key" =>
              \/ Passed(l, guard, time)
              \/ \A e \in Ids : Rival(l.role.user, e, device, record.born) =>
                     \E x \in R : x[1] = e /\ shares_create_key(x[2], l.role.user)

(* How a lookup goes on. *)
LooksOn(c, m) == GoesOn(c, m) /\ m.pc \notin {"fetch", "keep", "drop"} /\ (m.role.kind = "sweep" => m.pc # "done")

LEMMA LookupIs ==
    ASSUME DevicesInv, NEW c \in DOMAIN call, call[c].pc \in Lookups
    PROVE  LET l == call[c]
           IN  /\ Place(l) = l.pc
               /\ (l.role.kind = "ensure" /\ l.stage # "none") \/ (l.role.kind = "sweep" /\ l.stage = "tenant")
               /\ l.stage = "key" => l.role.kind = "ensure" /\ l.id \in Ids /\ Making(l) /\ Searching(l) /\ l.at <= time
<1> DEFINE l == call[c]
<1>1. Place(l) = l.pc BY DEF Place, Lookups
<1>2. (l.role.kind = "ensure" /\ l.stage # "none") \/ (l.role.kind = "sweep" /\ l.stage = "tenant")
  BY <1>1, CallIs DEF Sound, Placed
<1>3. l.stage = "key" => l.role.kind = "ensure" /\ l.id \in Ids /\ Making(l) /\ Searching(l)
  BY <1>1, <1>2, CallIs DEF Sound, Placed, Making, Makings, Searching
<1>4. Searching(l) => l.at <= time BY CallIs DEF Keyed
<1> QED BY <1>1, <1>2, <1>3, <1>4

LEMMA FoundOn ==
    ASSUME DevicesInv, NEW c \in DOMAIN call, call[c].pc \in Lookups, NEW R, Readable(c, R)
    PROVE  LooksOn(c, Found(call[c], R))
<1> DEFINE l == call[c]
           m == Found(l, R)
<1>1. /\ Sound(m, plan.time, Known, record.barred[c], device, record.saved)
      /\ m.role = l.role /\ m.now \in {0, l.now}
      /\ m.pc = "insert" => /\ m.stage = "key" /\ l.stage = "key" /\ m.id = l.id /\ m.held = l.held
                            /\ m.at = l.at /\ \A x \in R : ~shares_create_key(x[2], l.role.user)
      /\ m.pc # "insert" => ~Making(m) /\ m.pc \in Calm
      /\ l.role.kind = "sweep" => m.pc = "each"
  <2>1. /\ l \in Call(plan.time) /\ Staged(l) /\ Holds(l, Known) /\ plan.time \in Nat
        /\ (l.role.kind = "ensure" /\ l.stage # "none") \/ (l.role.kind = "sweep" /\ l.stage = "tenant")
        /\ l.stage = "key" => l.id \in Ids
    BY CallIs, LookupIs
  <2>2. /\ R \subseteq Ids \X Rows(plan.time)
        /\ \A x \in R : /\ x[1] \in Known /\ (live(x[2]) => x[1] \notin record.barred[c])
                        /\ Belongs(x[1], x[2], device, record.saved)
    BY DEF Readable
  <2>3. FoundAs(l, m, R, plan.time, Known, record.barred[c], device, record.saved) BY <2>1, <2>2, FoundSound
  <2> QED BY <2>3 DEF FoundAs
<1> HIDE DEF m
<1>2. m.now <= time BY <1>1, CallIs
<1>3. Making(m) => Making(l) /\ m.id = l.id BY <1>1, LookupIs
<1>4. Keyed(m, guard, time, device, record.born)
  <2>1. CASE m.pc # "insert" BY <1>1, <2>1, NotSearching
  <2>2. CASE m.pc = "insert"
    <3>1. l.stage = "key" /\ l.at <= time /\ m.at = l.at /\ m.held = l.held /\ m.role = l.role BY <1>1, <2>2, LookupIs
    <3>2. Passed(l, guard, time) => Passed(m, guard, time) BY <3>1 DEF Passed
    <3>3. Passed(l, guard, time) \/ \A e \in Ids : ~Rival(l.role.user, e, device, record.born)
      BY <1>1, <2>2, <3>1 DEF Readable
    <3> QED BY <3>1, <3>2, <3>3 DEF Keyed
  <2> QED BY <2>1, <2>2
<1>5. GoesOn(c, m) BY <1>1, <1>2, <1>3, <1>4 DEF GoesOn
<1> QED BY <1>1, <1>5 DEF LooksOn, Calm, m

(* The locals with the members of an index, or with rows behind it. *)
Reading(l, p, L, R) == [l EXCEPT !.pc = p, !.listed = L, !.found = R]
LEMMA ReadingIs ==
    ASSUME NEW t, NEW l \in Call(t), NEW p \in Lookups, NEW L \in SUBSET Ids, NEW R \in Finds(t)
    PROVE  LET m == Reading(l, p, L, R)
           IN  /\ m \in Call(t) /\ m.pc = p /\ m.listed = L /\ m.found = R /\ m.role = l.role /\ m.now = l.now
               /\ m.id = l.id /\ m.stage = l.stage /\ m.op = l.op /\ m.held = l.held /\ m.at = l.at
<1>1. p \in Pcs BY DEF Pcs, Makings
<1> QED BY <1>1 DEF Reading, Call, Locals

LEMMA ReadingOn ==
    ASSUME DevicesInv, NEW c \in DOMAIN call, call[c].pc \in Lookups,
           NEW p \in {"rows", "prune", "stray"}, NEW L \in SUBSET Ids, NEW R \in Finds(plan.time),
           p \in {"prune", "stray"} => Readable(c, R),
           p = "rows" /\ call[c].stage = "key" =>
              \/ Passed(call[c], guard, time)
              \/ \A e \in Ids : Rival(call[c].role.user, e, device, record.born) => e \in L
    PROVE  LooksOn(c, Reading(call[c], p, L, R))
<1> DEFINE l == call[c]
           m == Reading(l, p, L, R)
<1>0. p \in Lookups BY DEF Lookups
<1>1. /\ m \in Call(plan.time) /\ m.pc = p /\ m.listed = L /\ m.found = R /\ m.role = l.role /\ m.now = l.now
      /\ m.id = l.id /\ m.stage = l.stage /\ m.op = l.op /\ m.held = l.held /\ m.at = l.at
  BY <1>0, CallIs, ReadingIs
<1> HIDE DEF m
<1>2. Place(m) = p /\ Staged(m) /\ Holds(m, Known) BY <1>1, CallIs DEF Place, Staged, Holds
<1>3. p \in {"prune", "stray"} =>
        /\ R \in SUBSET (Ids \X Rows(plan.time))
        /\ \A x \in R : /\ x[1] \in Known /\ (live(x[2]) => x[1] \notin record.barred[c])
                        /\ Belongs(x[1], x[2], device, record.saved)
  BY DEF Readable
<1>4. Placed(m, plan.time)
  <2>1. (m.role.kind = "ensure" /\ m.stage # "none") \/ (m.role.kind = "sweep" /\ m.stage = "tenant")
    BY <1>1, LookupIs
  <2>2. m.stage = "key" => m.id \in Ids BY <1>1, LookupIs
  <2> QED BY <1>1, <1>2, <1>3, <2>1, <2>2 DEF Placed, Loading, Makings, Lookups, Writing
<1>5. Sound(m, plan.time, Known, record.barred[c], device, record.saved)
  BY <1>1, <1>2, <1>3, <1>4 DEF Sound, Decided, Binds, Knowing, Clear, Owning, Writing
<1>6. Making(m) => Making(l) /\ m.id = l.id
  BY <1>0, <1>1, <1>2, LookupIs DEF Making, Makings, Lookups, Writing
<1>7. Keyed(m, guard, time, device, record.born)
  <2> SUFFICES ASSUME Searching(m)
               PROVE  m.at <= time /\ (Passed(m, guard, time) \/ \A e \in Ids : Rival(m.role.user, e, device, record.born) => Ahead(m, e))
    BY DEF Keyed
  <2>1. l.stage = "key" /\ l.at <= time BY <1>1, LookupIs DEF Searching
  <2>2. Passed(l, guard, time) => Passed(m, guard, time) BY <1>1 DEF Passed
  <2>3. CASE p = "rows" BY <1>1, <2>1, <2>2, <2>3 DEF Ahead
  <2>4. CASE p \in {"prune", "stray"} BY <1>1, <2>1, <2>2, <2>4 DEF Ahead, Readable
  <2> QED BY <2>3, <2>4
<1>8. GoesOn(c, m) BY <1>1, <1>5, <1>6, <1>7, CallIs DEF GoesOn
<1> QED BY <1>1, <1>8 DEF LooksOn, m

LEMMA KeptOn ==
    ASSUME DevicesInv, NEW c \in DOMAIN call, call[c].pc \in Lookups, NEW R, Readable(c, R)
    PROVE  LooksOn(c, Kept(call[c], R))
<1> DEFINE l == call[c]
<1>1. CASE Stray(l, R) = {} BY <1>1, FoundOn DEF Kept
<1>2. CASE Stray(l, R) # {}
  <2>1. l.listed \in SUBSET Ids BY CallIs DEF Call, Locals
  <2>2. [l EXCEPT !.pc = "stray", !.found = R] = Reading(l, "stray", l.listed, R)
    BY CallIs DEF Reading, Call, Locals
  <2>3. R \in Finds(plan.time) BY DEF Readable, Finds
  <2>4. LooksOn(c, Reading(l, "stray", l.listed, R)) BY <2>1, <2>3, ReadingOn
  <2> QED BY <1>2, <2>2, <2>4 DEF Kept
<1> QED BY <1>1, <1>2

(* The owner of a lookup has an index. *)
LEMMA OwnerIndexed ==
    ASSUME DevicesInv, NEW c \in DOMAIN call, call[c].pc \in Lookups
    PROVE  /\ OfOwner(call[c]) => call[c].role.user \in Users
           /\ Listings(call[c]) \subseteq SUBSET Ids
<1>1. OfOwner(call[c]) => call[c].role.kind = "ensure" BY LookupIs DEF OfOwner
<1>2. OfOwner(call[c]) => call[c].role.user \in Users BY <1>1, CallIs, RoleIs DEF OfOwner, Owners
<1>3. index \in [tenant : SUBSET Ids, fp : SUBSET Ids, own : [Users -> SUBSET Ids]] BY DEF DevicesInv, Typed
<1>4. index.tenant \in SUBSET Ids /\ index.fp \in SUBSET Ids /\ \A u \in Users : index.own[u] \in SUBSET Ids BY <1>3
<1> QED BY <1>2, <1>4 DEF Listings, OfOwner, Newest

LEMMA MembersKeeps ==
    ASSUME DevicesInv, NEW c \in DOMAIN call, members(c)
    PROVE  DevicesInv'
<1> DEFINE l == call[c]
<1>00. PICK I \in Listings(l) :
         Locally(c, IF I = {} THEN Found(l, {}) ELSE [l EXCEPT !.pc = "rows", !.listed = I])
  BY Zenon DEF members
<1> DEFINE m == IF I = {} THEN Found(l, {}) ELSE [l EXCEPT !.pc = "rows", !.listed = I]
<1>0. l.pc = "members" /\ l.pc \in Lookups /\ Locally(c, m) /\ UNCHANGED cacheVars BY <1>00 DEF members, Lookups
<1>1. l.stage = "key" =>
        \/ Passed(l, guard, time)
        \/ \A e \in Ids : Rival(l.role.user, e, device, record.born) => e \in I
  <2> SUFFICES ASSUME l.stage = "key", NEW e \in Ids, Rival(l.role.user, e, device, record.born) PROVE e \in I OBVIOUS
  <2>1. device[e] # Absent /\ device[e].user = l.role.user BY DEF Rival, shares_create_key, live
  <2>2. e \in index.fp /\ (device[e].user # NoUser => e \in index.own[device[e].user])
    BY <2>1 DEF DevicesInv, RowsInv, Listed
  <2>3. CASE l.role.user = NoUser
    <3>1. IsFiniteSet(Ids) /\ Cardinality(Ids) <= ReadLimit /\ ReadLimit \in Nat
      BY <2>3, DevicesAssumption DEF Rival, AllRead
    <3>2. index.fp \subseteq Ids BY DEF DevicesInv, Typed
    <3>3. IsFiniteSet(index.fp) /\ Cardinality(index.fp) <= ReadLimit
      BY <3>1, <3>2, FS_Subset, FS_CardinalityType
    <3>4. I \in Newest(index.fp) BY <2>3 DEF Listings, OfOwner
    <3> QED BY <2>2, <3>3, <3>4 DEF Newest
  <2>4. CASE l.role.user # NoUser BY <2>1, <2>2, <2>4 DEF Listings, OfOwner
  <2> QED BY <2>3, <2>4
<1>2. I \in SUBSET Ids BY <1>0, OwnerIndexed
<1>3. LooksOn(c, m)
  <2>1. CASE I = {}
    <3>1. Readable(c, {}) BY <1>1, <2>1 DEF Readable
    <3> QED BY <1>0, <2>1, <3>1, FoundOn
  <2>2. CASE I # {}
    <3>1. l.found \in Finds(plan.time) /\ [l EXCEPT !.pc = "rows", !.listed = I] = Reading(l, "rows", I, l.found)
      BY CallIs DEF Reading, Call, Locals
    <3>2. LooksOn(c, Reading(l, "rows", I, l.found)) BY <1>0, <1>1, <1>2, <3>1, ReadingOn
    <3> QED BY <2>2, <3>1, <3>2
  <2> QED BY <2>1, <2>2
<1> HIDE DEF m
<1> QED BY <1>0, <1>3, StillStep DEF LooksOn

LEMMA RowsKeeps ==
    ASSUME DevicesInv, NEW c \in DOMAIN call, rows(c)
    PROVE  DevicesInv'
<1> DEFINE l == call[c]
           absent == {d \in l.listed : device[d] = Absent}
           read == {<<d, device[d]>> : d \in l.listed \ absent}
           m == IF absent = {} THEN Kept(l, read) ELSE [l EXCEPT !.pc = "prune", !.listed = absent, !.found = read]
<1>0. l.pc = "rows" /\ l.pc \in Lookups /\ Locally(c, m) /\ UNCHANGED cacheVars BY DEF rows, Lookups
<1>1. l.listed \in SUBSET Ids BY CallIs DEF Call, Locals
<1>2. Readable(c, read)
  <2>1. read \subseteq Ids \X Rows(plan.time) BY <1>1, InStore
  <2>2. \A x \in read : /\ x[1] \in Known /\ (live(x[2]) => x[1] \notin record.barred[c])
                        /\ Belongs(x[1], x[2], device, record.saved)
    BY <1>1, InStore
  <2>3. ASSUME l.stage = "key", ~Passed(l, guard, time), NEW e \in Ids, Rival(l.role.user, e, device, record.born)
        PROVE  \E x \in read : x[1] = e /\ shares_create_key(x[2], l.role.user)
    <3>1. Searching(l) BY <1>0, <2>3, LookupIs
    <3>2. e \in l.listed BY <1>0, <2>3, <3>1, CallIs DEF Keyed, Ahead
    <3>3. device[e] # Absent /\ shares_create_key(device[e], l.role.user) BY <2>3 DEF Rival, shares_create_key, live
    <3>4. <<e, device[e]>> \in read BY <3>2, <3>3
    <3> QED BY <3>3, <3>4
  <2> QED BY <2>1, <2>2, <2>3 DEF Readable
<1>3. LooksOn(c, m)
  <2>1. CASE absent = {} BY <1>0, <1>2, <2>1, KeptOn
  <2>2. CASE absent # {}
    <3>1. absent \in SUBSET Ids /\ read \in Finds(plan.time) BY <1>1, <1>2 DEF Readable, Finds
    <3>2. [l EXCEPT !.pc = "prune", !.listed = absent, !.found = read] = Reading(l, "prune", absent, read) BY DEF Reading
    <3>3. LooksOn(c, Reading(l, "prune", absent, read)) BY <1>0, <1>2, <3>1, ReadingOn
    <3> QED BY <2>2, <3>2, <3>3
  <2> QED BY <2>1, <2>2
<1> HIDE DEF m
<1> QED BY <1>0, <1>3, StillStep DEF LooksOn

LEMMA UnlistedIs ==
    ASSUME DevicesInv, NEW c \in DOMAIN call, call[c].pc \in Lookups, NEW E
    PROVE  LET l == call[c]
               i == Unlisted(l, E)
           IN  /\ i \in [tenant : SUBSET Ids, fp : SUBSET Ids, own : [Users -> SUBSET Ids]]
               /\ index.fp \subseteq i.fp \cup E /\ index.tenant \subseteq i.tenant \cup E
               /\ \A u \in Users : index.own[u] \subseteq i.own[u] \cup E
               /\ OfOwner(l) => /\ i.fp = index.fp /\ i.tenant = index.tenant
                                /\ \A u \in Users \ {l.role.user} : i.own[u] = index.own[u]
<1> DEFINE l == call[c]
           i == Unlisted(l, E)
<1>1. index \in [tenant : SUBSET Ids, fp : SUBSET Ids, own : [Users -> SUBSET Ids]] BY DEF DevicesInv, Typed
<1>2. CASE l.stage = "tenant"
  <2>1. i = [index EXCEPT !.tenant = @ \ E] /\ ~OfOwner(l) BY <1>2 DEF Unlisted, OfOwner
  <2> QED BY <1>1, <2>1
<1>3. CASE OfOwner(l)
  <2> DEFINE u == l.role.user
             O == [index.own EXCEPT ![u] = @ \ E]
  <2>1. i = [index EXCEPT !.own[u] = @ \ E] BY <1>3 DEF Unlisted, OfOwner
  <2>2. u \in Users BY <1>3, OwnerIndexed
  <2>3. i = [index EXCEPT !.own = O] BY <1>1, <2>1
  <2>4. O \in [Users -> SUBSET Ids] /\ \A v \in Users : O[v] = IF v = u THEN index.own[u] \ E ELSE index.own[v]
    BY <1>1, <2>2
  <2> HIDE DEF O, i
  <2>5. i.own = O /\ i.fp = index.fp /\ i.tenant = index.tenant /\ i \in [tenant : SUBSET Ids, fp : SUBSET Ids, own : [Users -> SUBSET Ids]]
    BY <1>1, <2>3, <2>4
  <2> QED BY <2>4, <2>5 DEF i
<1>4. CASE l.stage # "tenant" /\ ~OfOwner(l)
  <2>1. i = [index EXCEPT !.fp = @ \ E] BY <1>4 DEF Unlisted
  <2> QED BY <1>1, <1>4, <2>1
<1> QED BY <1>2, <1>3, <1>4

LEMMA PruneKeeps ==
    ASSUME DevicesInv, NEW c \in DOMAIN call, prune(c)
    PROVE  DevicesInv'
<1> DEFINE l == call[c]
           m == Kept(l, l.found)
           absent == {d \in l.listed : device[d] = Absent}
           i == Unlisted(l, absent)
<1>0. l.pc = "prune" /\ l.pc \in Lookups /\ Indexing(c, m, i) BY DEF prune, Lookups
<1>1. Local(c, m) /\ index' = i /\ UNCHANGED cacheVars BY <1>0, IndexingIs DEF DevicesInv
<1>2. Readable(c, l.found)
  <2>1. /\ l.found \subseteq Ids \X Rows(plan.time)
        /\ \A x \in l.found : /\ x[1] \in Known /\ (live(x[2]) => x[1] \notin record.barred[c])
                              /\ Belongs(x[1], x[2], device, record.saved)
    BY <1>0, CallIs DEF Sound, Placed, Place, Knowing, Clear, Owning
  <2>2. l.stage = "key" => Searching(l) BY <1>0, LookupIs
  <2> QED BY <1>0, <2>1, <2>2, CallIs DEF Readable, Keyed, Ahead
<1>3. LooksOn(c, m) BY <1>0, <1>2, KeptOn
<1>4. /\ index' \in [tenant : SUBSET Ids, fp : SUBSET Ids, own : [Users -> SUBSET Ids]]
      /\ index.fp \subseteq index'.fp \cup absent /\ index.tenant \subseteq index'.tenant \cup absent
      /\ \A u \in Users : index.own[u] \subseteq index'.own[u] \cup absent
  <2> HIDE DEF absent
  <2> QED BY <1>0, <1>1, UnlistedIs
<1>5. Listed'
  <2>0. \A d \in Ids : device[d] # Absent => device[d] \in Rows(plan.time) BY DEF DevicesInv, Typed
  <2>1. \A d \in Ids : device[d] # Absent /\ device[d].user # NoUser => device[d].user \in Users
    BY <2>0 DEF Rows, DeviceRow, Owners
  <2> QED BY <1>1, <1>4, <2>1 DEF DevicesInv, RowsInv, Listed, Local, Settles, Settled
<1> HIDE DEF m
<1> QED BY <1>0, <1>1, <1>3, <1>4, <1>5, QuietStep DEF LooksOn

LEMMA StrayKeeps ==
    ASSUME DevicesInv, NEW c \in DOMAIN call, prune_mismatched(c)
    PROVE  DevicesInv'
<1> DEFINE l == call[c]
           stray == Stray(l, l.found)
           m == Found(l, l.found \ stray)
           E == {x[1] : x \in {y \in stray : device[y[1]] = y[2]}}
           i == Unlisted(l, E)
<1>0. l.pc = "stray" /\ l.pc \in Lookups /\ Indexing(c, m, i) BY DEF prune_mismatched, Lookups
<1>1. Local(c, m) /\ index' = i /\ UNCHANGED cacheVars BY <1>0, IndexingIs DEF DevicesInv
<1>2. Readable(c, l.found \ stray)
  <2>1. /\ l.found \subseteq Ids \X Rows(plan.time)
        /\ \A x \in l.found : /\ x[1] \in Known /\ (live(x[2]) => x[1] \notin record.barred[c])
                              /\ Belongs(x[1], x[2], device, record.saved)
    BY <1>0, CallIs DEF Sound, Placed, Place, Knowing, Clear, Owning
  <2>2. l.stage = "key" => Searching(l) BY <1>0, LookupIs
  <2>3. \A x \in l.found : shares_create_key(x[2], l.role.user) => x \notin stray BY DEF Stray, shares_create_key
  <2> HIDE DEF stray
  <2> QED BY <1>0, <2>1, <2>2, <2>3, CallIs DEF Readable, Keyed, Ahead
<1>3. LooksOn(c, m) BY <1>0, <1>2, FoundOn
<1>4. /\ index' \in [tenant : SUBSET Ids, fp : SUBSET Ids, own : [Users -> SUBSET Ids]]
      /\ index.fp \subseteq index'.fp \cup E /\ index.tenant \subseteq index'.tenant \cup E
      /\ \A u \in Users : index.own[u] \subseteq index'.own[u] \cup E
      /\ OfOwner(l) => /\ index'.fp = index.fp /\ index'.tenant = index.tenant
                       /\ \A u \in Users \ {l.role.user} : index'.own[u] = index.own[u]
  <2> HIDE DEF E
  <2> QED BY <1>0, <1>1, UnlistedIs
<1>5. /\ ~OfOwner(l) => E = {}
      /\ \A d \in E : device[d].user # l.role.user
  BY DEF Stray
<1>6. Listed'
  <2>0. \A d \in Ids : device[d] # Absent => device[d] \in Rows(plan.time) BY DEF DevicesInv, Typed
  <2>1. \A d \in Ids : device[d] # Absent /\ device[d].user # NoUser => device[d].user \in Users
    BY <2>0 DEF Rows, DeviceRow, Owners
  <2> HIDE DEF E
  <2> QED BY <1>1, <1>4, <1>5, <2>1 DEF DevicesInv, RowsInv, Listed, Local, Settles, Settled
<1> HIDE DEF m
<1> QED BY <1>0, <1>1, <1>3, <1>4, <1>6, QuietStep DEF LooksOn

-----------------------------------------------------------------------------
(* The history with devices that delete took out of the tenant's index. *)
Logs(r, X) == [r EXCEPT !.unlisted = @ \cup X]
LEMMA LogsIs ==
    ASSUME NEW c, NEW m, NEW r, NEW e, NEW X, Settled(c, m, r, e)
    PROVE  Settled(c, m, r, Logs(e, X)) /\ X \subseteq Logs(e, X).unlisted /\ e.unlisted \subseteq Logs(e, X).unlisted
<1> DEFINE U == e.unlisted \cup X
           f == [e EXCEPT !.unlisted = U]
<1>0. RecordOK(e) BY DEF Settled
<1>1. Logs(e, X) = f BY <1>0 DEF Logs, RecordOK, Shaped
<1>2. f \in [ended : {e.ended}, gone : {e.gone}, ending : {e.ending}, barred : {e.barred}, born : {e.born},
             bound : {e.bound}, saved : {e.saved}, unlisted : {U}, sighted : {e.sighted}, early : {e.early}]
  <2> HIDE DEF U
  <2> QED BY <1>0 DEF RecordOK, Shaped
<1>3. X \subseteq U /\ e.unlisted \subseteq U OBVIOUS
<1> HIDE DEF f, U
<1>4. RecordOK(f) BY <1>0, <1>2 DEF RecordOK, Shaped
<1> QED BY <1>1, <1>2, <1>3, <1>4 DEF Settled

(* A sweep is a sweep's, and no row is written for a device in the making. *)
LEMMA WriterIs ==
    ASSUME DevicesInv, NEW c \in DOMAIN call, call[c].pc \in Writing
    PROVE  LET l == call[c]
           IN  /\ l.id \in Ids /\ l.role.kind \in Writers(l.op) /\ l.op \in Op(plan.time) /\ Place(l) = l.pc
               /\ (l.role.kind = "sweep") <=> (l.op.kind = "sweep")
               /\ l.op.kind = "save" /\ l.role.kind = "resolve" => Making(l) /\ device[l.id] = Absent
<1> DEFINE l == call[c]
<1>1. Place(l) = l.pc BY DEF Place, Writing
<1>2. l.id \in Ids /\ l.role.kind \in Writers(l.op) BY <1>1, CallIs DEF Sound, Placed
<1>3. l.op \in Op(plan.time) BY CallIs DEF Call, Locals
<1>4. (l.role.kind = "sweep") <=> (l.op.kind = "sweep") BY <1>2, <1>3 DEF Writers, Op
<1>5. l.op.kind = "save" /\ l.role.kind = "resolve" => Making(l) BY <1>1 DEF Making
<1>6. Making(l) => l.id \notin Known BY DEF Known
<1>7. l.id \notin Known => device[l.id] = Absent BY <1>2 DEF DevicesInv, KnownRows
<1> QED BY <1>1, <1>2, <1>3, <1>4, <1>5, <1>6, <1>7

LEMMA UnlistKeeps ==
    ASSUME DevicesInv, NEW c \in DOMAIN call, unlist(c)
    PROVE  DevicesInv'
<1> DEFINE l == call[c]
           gone == IF l.op.kind = "delete" \/ device[l.id] = Absent THEN {l.id} ELSE {}
           X == {d \in gone : device[d] # Absent}
           k == [l EXCEPT !.op = [kind |-> "deleted"]]
           a == Answers(l, "ok")
           m == IF l.op.kind = "delete" THEN Drops(k, a) ELSE Goes(l, "each")
<1>0. l.pc = "unlist" /\ l.id \in Ids /\ l.role.kind \in {"sweep", "delete"} /\ l.op.kind = l.role.kind
      /\ (l.role.kind = "sweep" => l.found \in SUBSET Ids)
  BY CallIs DEF unlist, Sound, Placed, Place
<1>1. /\ call' = [call EXCEPT ![c] = m]
      /\ index' = [index EXCEPT !.tenant = @ \ gone]
      /\ record' = [Ended(c, m, record) EXCEPT !.unlisted = @ \cup X]
      /\ UNCHANGED <<device, expiry, guard, cacheVars, minted, time, plan, left>>
  BY DEF unlist
<1>2. c \in Callers /\ RecordOK(record) /\ minted \subseteq Ids BY DEF DevicesInv, Typed
<1>3. Settles(c, m) /\ X \subseteq record'.unlisted
  <2>1. record' = Logs(Ended(c, m, record), X) BY <1>1 DEF Logs
  <2> HIDE DEF m, X
  <2>2. Settled(c, m, record, Ended(c, m, record)) BY <1>2, EndedIs
  <2> QED BY <2>1, <2>2, LogsIs DEF Settles
<1>4. Local(c, m) BY <1>1, <1>2, <1>3 DEF Local, Turn
<1>5. /\ GoesOn(c, m) /\ m.role = l.role /\ m.pc \in {"drop", "done", "each"}
      /\ m.pc = "drop" => plan.cached /\ l.role.kind # "sweep"
      /\ l.role.kind = "sweep" => m.pc = "each"
  <2>1. CASE l.op.kind = "delete"
    <3>1. k.id = l.id /\ k.role = l.role /\ k.now = l.now BY CallIs DEF Call, Locals
    <3>2. Steady(l, a, plan.time, Known, record.barred[c], device, record.saved) /\ a.pc = "done"
      BY CallIs, AnswersSteady, AnswersIs DEF ServedOuts
    <3> HIDE DEF k, a
    <3>3. Steady(k, a, plan.time, Known, record.barred[c], device, record.saved) BY <3>1, <3>2 DEF Steady
    <3> DEFINE n == Drops(k, a)
    <3>4. /\ Sound(n, plan.time, Known, record.barred[c], device, record.saved)
          /\ ~Making(n) /\ n.role = k.role /\ n.now \in {0, k.now} /\ Place(n) = "done"
          /\ n.pc = "drop" => plan.cached
      BY <1>0, <3>1, <3>2, <3>3, CallIs, DropsSound
    <3> HIDE DEF n
    <3>5. n.pc \in {"drop", "done"} BY <3>4 DEF Place
    <3>6. GoesOn(c, n) BY <3>1, <3>4, CallIs, NotSearching DEF GoesOn
    <3>7. m = n BY <2>1 DEF n
    <3> QED BY <1>0, <2>1, <3>1, <3>4, <3>5, <3>6, <3>7
  <2>2. CASE l.op.kind # "delete"
    <3> DEFINE n == Goes(l, "each")
    <3>1. "each" \in Pcs BY DEF Pcs
    <3>2. /\ n \in Call(plan.time) /\ n.pc = "each" /\ n.role = l.role /\ n.now = l.now /\ n.stage = l.stage
          /\ n.op = l.op /\ n.held = l.held /\ n.found = l.found
      BY <3>1, CallIs, GoesIs
    <3> HIDE DEF n
    <3>3. Place(n) = "each" /\ Staged(n) /\ Holds(n, Known) BY <3>2, CallIs DEF Place, Staged, Holds
    <3>4. Sound(n, plan.time, Known, record.barred[c], device, record.saved) /\ ~Making(n)
      BY <1>0, <2>2, <3>2, <3>3
         DEF Sound, Placed, Decided, Binds, Knowing, Clear, Owning, Making, Makings, Lookups, Writing, Loading
    <3>5. GoesOn(c, n) BY <3>2, <3>4, CallIs, NotSearching DEF GoesOn
    <3> QED BY <1>0, <2>2, <3>2, <3>5 DEF n
  <2> QED BY <2>1, <2>2
<1> HIDE DEF m
<1>6. index \in [tenant : SUBSET Ids, fp : SUBSET Ids, own : [Users -> SUBSET Ids]] BY DEF DevicesInv, Typed
<1>7. /\ index' \in [tenant : SUBSET Ids, fp : SUBSET Ids, own : [Users -> SUBSET Ids]]
      /\ index'.fp = index.fp /\ index'.own = index.own /\ index'.tenant = index.tenant \ gone
  <2> HIDE DEF gone
  <2> QED BY <1>1, <1>6
<1>8. Listed'
  <2>1. device' = device BY <1>1
  <2>2. record.unlisted \subseteq record'.unlisted BY <1>3 DEF Settles, Settled
  <2>3. \A d \in Ids : device[d] # Absent /\ d \in index.tenant => d \in index'.tenant \/ d \in record'.unlisted
    BY <1>3, <1>7
  <2> QED BY <1>7, <2>1, <2>2, <2>3 DEF DevicesInv, RowsInv, Listed
<1>9. UNCHANGED cacheVars BY <1>1
<1> QED BY <1>0, <1>4, <1>5, <1>7, <1>8, <1>9, QuietStep

(* The locals with the guard that was read. *)
Guarded(l, p, g, t) == [l EXCEPT !.pc = p, !.held = g, !.at = t]

(* A search that begins, or goes on behind the device the guard names. *)
LEMMA GuardedOn ==
    ASSUME DevicesInv, NEW c \in DOMAIN call, call[c].pc \in {"guard", "named"},
           NEW p \in {"named", "members"}, NEW g \in Guard \cup {NoGuard}, g # NoGuard => g.id \in Known,
           p = "named" => g # NoGuard, NEW a \in Nat, a <= time
    PROVE  LET m == Guarded(call[c], p, g, a) IN GoesOn(c, m) /\ m.pc = p /\ m.role.kind = "ensure"
<1> DEFINE l == call[c]
           m == Guarded(l, p, g, a)
<1>0. l \in Call(plan.time) BY CallIs
<1>1. /\ m \in Call(plan.time) /\ m.pc = p /\ m.held = g /\ m.at = a /\ m.role = l.role /\ m.now = l.now
      /\ m.id = l.id /\ m.stage = l.stage /\ m.op = l.op
  <2> HIDE DEF l
  <2>1. p \in Pcs BY DEF Pcs, Makings, Lookups
  <2> QED BY <1>0, <2>1 DEF Guarded, Call, Locals
<1> HIDE DEF m
<1>2. l.role.kind = "ensure" /\ l.stage = "key" /\ l.id \in Ids /\ Making(l)
  BY CallIs DEF Sound, Placed, Place, Making, Makings
<1>3. Place(m) = p /\ Staged(m) /\ Holds(m, Known) BY <1>1, CallIs DEF Place, Staged, Holds
<1>4. Sound(m, plan.time, Known, record.barred[c], device, record.saved)
  BY <1>1, <1>2, <1>3 DEF Sound, Placed, Decided, Binds, Knowing, Clear, Owning, Makings, Lookups, Writing, Loading
<1>5. Keyed(m, guard, time, device, record.born) BY <1>1 DEF Keyed, Ahead
<1>6. GoesOn(c, m) BY <1>1, <1>2, <1>4, <1>5, CallIs DEF GoesOn
<1> QED BY <1>1, <1>2, <1>6 DEF m

LEMMA ReadGuardKeeps ==
    ASSUME DevicesInv, NEW c \in DOMAIN call, read_guard(c)
    PROVE  DevicesInv'
<1> DEFINE l == call[c]
           g == guard[l.role.user]
           p == IF g = NoGuard THEN "members" ELSE "named"
           m == Guarded(l, p, g, time)
<1>0. l.pc = "guard" BY DEF read_guard
<1>1. l.role.kind = "ensure" BY <1>0, CallIs DEF Sound, Placed, Place
<1>2. l.role.user \in Owners BY <1>1, CallIs, RoleIs
<1>3. g \in Guard \cup {NoGuard} /\ (g # NoGuard => g.id \in Known) BY <1>2 DEF DevicesInv, Typed, KnownRows
<1>4. m = Goes([l EXCEPT !.held = g, !.at = time], p) BY CallIs DEF Guarded, Goes, Call, Locals
<1>5. [l EXCEPT !.held = g, !.at = time].held = g BY CallIs DEF Call, Locals
<1>6. Locally(c, m) /\ UNCHANGED cacheVars BY <1>4, <1>5 DEF read_guard
<1>7. GoesOn(c, m) /\ m.pc = p /\ m.role.kind = "ensure"
  <2> HIDE DEF g, m
  <2>1. p \in {"named", "members"} /\ (p = "named" => g # NoGuard) OBVIOUS
  <2> HIDE DEF p
  <2> QED BY <1>0, <1>3, <2>1, CallIs, GuardedOn DEF m
<1>8. p \in {"named", "members"} OBVIOUS
<1> HIDE DEF m, p
<1> QED BY <1>0, <1>6, <1>7, <1>8, StillStep

LEMMA NamedKeeps ==
    ASSUME DevicesInv, NEW c \in DOMAIN call, guarded_device(c)
    PROVE  DevicesInv'
<1> DEFINE l == call[c]
           d == l.held.id
<1>0. l.pc = "named" BY DEF guarded_device
<1>1. l.role.kind = "ensure" /\ l.stage = "key" /\ l.held # NoGuard /\ l.held \in Guard /\ l.at \in Nat
  BY <1>0, CallIs DEF Sound, Placed, Place, Call, Locals
<1>2. d \in Known /\ d \in Ids BY <1>1, CallIs DEF Holds, Guard
<1>3. CASE shares_create_key(device[d], l.role.user)
  <2> DEFINE k == [l EXCEPT !.id = d]
             m == Serves(k)
  <2>1. Locally(c, m) /\ UNCHANGED cacheVars BY <1>3 DEF guarded_device
  <2>2. k \in Call(plan.time) /\ k.role = l.role /\ k.now = l.now /\ k.id = d BY <1>2, CallIs DEF Call, Locals
  <2>3. d \notin record.barred[c] /\ OwnerIs(d, l.role.user, device, record.saved)
    BY <1>2, <1>3, InStore DEF shares_create_key, OwnerIs, live
  <2> HIDE DEF k
  <2>4. Steady(k, m, plan.time, Known, record.barred[c], device, record.saved)
    BY <1>1, <1>2, <2>2, <2>3, CallIs, AnswersSteady DEF Serves
  <2>5. GoesOn(c, m) /\ m.pc \in Calm /\ m.role = l.role BY <2>2, <2>4, SteadyGoesOn
  <2> HIDE DEF m
  <2> QED BY <1>0, <1>1, <2>1, <2>5, StillStep DEF Calm
<1>4. CASE ~shares_create_key(device[d], l.role.user)
  <2> DEFINE m == Guarded(l, "members", l.held, l.at)
  <2>1. m = Goes(l, "members") BY CallIs DEF Guarded, Goes, Call, Locals
  <2>2. Locally(c, m) /\ UNCHANGED cacheVars BY <1>4, <2>1 DEF guarded_device
  <2>3. l.at <= time BY <1>0, <1>1, CallIs DEF Keyed, Searching
  <2>4. GoesOn(c, m) /\ m.pc = "members" /\ m.role.kind = "ensure" BY <1>0, <1>1, <1>2, <2>3, GuardedOn
  <2> HIDE DEF m
  <2> QED BY <1>0, <2>2, <2>4, StillStep
<1> QED BY <1>3, <1>4

-----------------------------------------------------------------------------
(* The end of a write that was not made. *)
LEMMA UnwrittenOn ==
    ASSUME DevicesInv, NEW c \in DOMAIN call, call[c].pc \in Writing, NEW applied, NEW row,
           Concluded(call[c], applied, row, plan.time, Known, device, record.saved)
    PROVE  LET m == Drops(call[c], Concludes(call[c], applied, row))
           IN  /\ GoesOn(c, m) /\ m.role = call[c].role /\ m.pc \notin {"fetch", "keep"}
               /\ m.pc = "drop" => plan.cached /\ m.role.kind # "sweep"
               /\ m.role.kind = "sweep" => m.pc # "done"
<1> DEFINE l == call[c]
           k == Concludes(l, applied, row)
           m == Drops(l, k)
<1>1. /\ Steady(l, k, plan.time, Known, record.barred[c], device, record.saved)
      /\ l.role.kind = "sweep" => k.pc \in {"each", "unlist"}
  BY CallIs, ConcludesSteady
<1>2. l.id \in Ids /\ (l.role.kind = "sweep" => l.op.kind = "sweep") BY WriterIs
<1>3. l.op.kind = "sweep" => m = k BY DEF Drops
<1> HIDE DEF k
<1>4. /\ Sound(m, plan.time, Known, record.barred[c], device, record.saved) /\ ~Making(m)
      /\ m.role = l.role /\ m.now \in {0, l.now}
      /\ m.pc = "drop" => plan.cached
      /\ m.pc # "drop" => m.pc = k.pc
  BY <1>1, <1>2, CallIs, DropsSound
<1> HIDE DEF m
<1>5. GoesOn(c, m) BY <1>4, CallIs, NotSearching DEF GoesOn
<1>6. k.pc \in Calm BY <1>1 DEF Steady
<1> QED BY <1>1, <1>2, <1>3, <1>4, <1>5, <1>6 DEF Calm, m, k

(* The locals with the decision. *)
Deciding(l, row, step) == [l EXCEPT !.pc = "cas", !.was = row, !.new = step]
LEMMA DecidingIs ==
    ASSUME NEW t, NEW l \in Call(t), NEW row \in Rows(t) \cup {Absent}, NEW step \in Decision(t)
    PROVE  LET m == Deciding(l, row, step)
           IN  /\ m \in Call(t) /\ m.pc = "cas" /\ m.was = row /\ m.new = step /\ m.role = l.role /\ m.now = l.now
               /\ m.id = l.id /\ m.stage = l.stage /\ m.op = l.op /\ m.held = l.held /\ m.found = l.found
<1>1. "cas" \in Pcs BY DEF Pcs, Writing
<1>2. step \in [step : {"skip", "remove", "write"}, row : Rows(t) \cup {Absent}] BY DEF Decision
<1> QED BY <1>1, <1>2 DEF Deciding, Call, Locals

LEMMA GetKeeps ==
    ASSUME DevicesInv, NEW c \in DOMAIN call, get(c)
    PROVE  DevicesInv'
<1> DEFINE l == call[c]
           row == device[l.id]
           step == decide(l, row)
<1>0. l.pc = "get" /\ l.pc \in Writing /\ UNCHANGED cacheVars BY DEF get, Writing
<1>1. /\ l.id \in Ids /\ l.role.kind \in Writers(l.op) /\ l.op \in Op(plan.time) /\ Place(l) = l.pc
      /\ l.op.kind = "save" /\ l.role.kind = "resolve" => row = Absent
  BY <1>0, WriterIs
<1>2. row \in Rows(plan.time) \cup {Absent} BY <1>1, InStore
<1>3. ASSUME NEW applied \in {"Missing", "Skipped"},
             Locally(c, Drops(l, Concludes(l, applied, row))),
             applied = "Missing" => row = Absent /\ l.op.kind # "save",
             applied = "Skipped" => step = Skip /\ (row = Absent => l.op.kind = "save")
      PROVE  DevicesInv'
  <2> DEFINE m == Drops(l, Concludes(l, applied, row))
  <2>1. ~(l.op.kind = "save" /\ l.role.kind = "resolve")
    <3> SUFFICES ASSUME l.op.kind = "save", l.role.kind = "resolve" PROVE FALSE OBVIOUS
    <3>1. row = Absent /\ step = Skip BY <1>1, <1>3
    <3>2. step = Write(l.op.row) BY <3>1 DEF decide, save
    <3> QED BY <3>1, <3>2 DEF Skip, Write
  <2>2. l.op.kind = "claim" /\ applied = "Skipped" /\ row.user = l.role.user
           => OwnerIs(l.id, l.role.user, device, record.saved)
    BY DEF OwnerIs
  <2>3. Concluded(l, applied, row, plan.time, Known, device, record.saved)
    BY <1>2, <1>3, <2>1, <2>2 DEF Concluded
  <2>4. /\ GoesOn(c, m) /\ m.role = l.role /\ m.pc \notin {"fetch", "keep"}
        /\ m.pc = "drop" => plan.cached /\ m.role.kind # "sweep"
        /\ m.role.kind = "sweep" => m.pc # "done"
    BY <1>0, <2>3, UnwrittenOn
  <2>5. Locally(c, m) BY <1>3
  <2> HIDE DEF m
  <2> QED BY <1>0, <2>4, <2>5, StillStep
<1>4. CASE row = Absent /\ l.op.kind # "save"
  <2>1. Locally(c, Drops(l, Concludes(l, "Missing", row))) BY <1>4 DEF get
  <2> QED BY <1>3, <1>4, <2>1
<1>5. CASE ~(row = Absent /\ l.op.kind # "save") /\ step = Skip
  <2>1. Locally(c, Drops(l, Concludes(l, "Skipped", row))) BY <1>5 DEF get
  <2> QED BY <1>3, <1>5, <2>1
<1>6. CASE ~(row = Absent /\ l.op.kind # "save") /\ step # Skip
  <2> DEFINE m == Deciding(l, row, step)
  <2>1. Locally(c, m) BY <1>6 DEF get, Deciding
  <2>2. step \in Decision(plan.time) BY <1>1, <1>2, <1>6, CallIs, Decides
  <2>3. /\ m \in Call(plan.time) /\ m.pc = "cas" /\ m.was = row /\ m.new = step /\ m.role = l.role /\ m.now = l.now
        /\ m.id = l.id /\ m.stage = l.stage /\ m.op = l.op /\ m.held = l.held /\ m.found = l.found
    BY <1>2, <2>2, CallIs, DecidingIs
  <2> HIDE DEF m
  <2>4. Place(m) = "cas" /\ Staged(m) /\ Holds(m, Known) BY <2>3, CallIs DEF Place, Staged, Holds
  <2>5. decide(m, m.was) = step BY <2>3 DEF decide
  <2>6. Placed(m, plan.time) /\ Decided(m) /\ Binds(m)
    BY <1>0, <1>1, <1>6, <2>3, <2>4, <2>5, CallIs
       DEF Sound, Placed, Decided, Binds, Makings, Lookups, Writing, Loading
  <2>7. Knowing(m, Known) /\ Clear(m, record.barred[c]) BY <1>0, <1>1, <2>3, <2>4, CallIs DEF Sound, Knowing, Clear, Writing
  <2>8. Owning(m, device, record.saved) BY <1>0, <1>1, <2>3, <2>4, CallIs DEF Sound, Owning, Writing
  <2>9. Making(m) => Making(l) BY <1>0, <1>1, <2>3, <2>4 DEF Making, Writing, Makings, Lookups
  <2>10. Keyed(m, guard, time, device, record.born) BY <2>3 DEF Keyed, Searching, Lookups
  <2>11. GoesOn(c, m) BY <2>3, <2>4, <2>6, <2>7, <2>8, <2>9, <2>10, CallIs DEF GoesOn, Sound
  <2> QED BY <1>0, <2>1, <2>3, <2>11, StillStep
<1> QED BY <1>4, <1>5, <1>6

-----------------------------------------------------------------------------
LEMMA DelistedIs ==
    ASSUME Typed, NEW d \in Ids, NEW was
    PROVE  LET i == Delisted(d, was)
           IN  /\ i \in [tenant : SUBSET Ids, fp : SUBSET Ids, own : [Users -> SUBSET Ids]]
               /\ index.fp \ {d} \subseteq i.fp /\ index.tenant \ {d} \subseteq i.tenant
               /\ \A u \in Users : index.own[u] \ {d} \subseteq i.own[u]
<1> DEFINE i == Delisted(d, was)
           O == [u \in Users |-> IF Owned(u, was) THEN index.own[u] \ {d} ELSE index.own[u]]
<1>1. index \in [tenant : SUBSET Ids, fp : SUBSET Ids, own : [Users -> SUBSET Ids]] BY DEF Typed
<1>2. i = [tenant |-> index.tenant \ {d}, fp |-> index.fp \ {d}, own |-> O] BY DEF Delisted
<1>3. O \in [Users -> SUBSET Ids] /\ \A u \in Users : index.own[u] \ {d} \subseteq O[u] BY <1>1
<1> HIDE DEF O, i
<1>4. i.own = O /\ i.fp = index.fp \ {d} /\ i.tenant = index.tenant \ {d}
      /\ i \in [tenant : SUBSET Ids, fp : SUBSET Ids, own : [Users -> SUBSET Ids]]
  BY <1>1, <1>2, <1>3
<1> QED BY <1>3, <1>4 DEF i

LEMMA IndexedIs ==
    ASSUME Typed, NEW d \in Ids, NEW was, NEW row, row # Absent
    PROVE  LET i == Indexed(d, was, row)
           IN  /\ i \in [tenant : SUBSET Ids, fp : SUBSET Ids, own : [Users -> SUBSET Ids]]
               /\ index.fp \cup {d} \subseteq i.fp /\ index.tenant \cup {d} \subseteq i.tenant
               /\ \A u \in Users : index.own[u] \ {d} \subseteq i.own[u]
               /\ \A u \in Users : row.user = u => d \in i.own[u]
<1> DEFINE i == Indexed(d, was, row)
           O == [u \in Users |-> IF Owned(u, row) THEN index.own[u] \cup {d}
                                 ELSE IF Owned(u, was) THEN index.own[u] \ {d} ELSE index.own[u]]
<1>1. index \in [tenant : SUBSET Ids, fp : SUBSET Ids, own : [Users -> SUBSET Ids]] BY DEF Typed
<1>2. i = [tenant |-> index.tenant \cup {d}, fp |-> index.fp \cup {d}, own |-> O] BY DEF Indexed
<1>3. /\ O \in [Users -> SUBSET Ids] /\ \A u \in Users : index.own[u] \ {d} \subseteq O[u]
      /\ \A u \in Users : row.user = u => d \in O[u]
  BY <1>1 DEF Owned
<1> HIDE DEF O, i
<1>4. i.own = O /\ i.fp = index.fp \cup {d} /\ i.tenant = index.tenant \cup {d}
      /\ i \in [tenant : SUBSET Ids, fp : SUBSET Ids, own : [Users -> SUBSET Ids]]
  BY <1>1, <1>2, <1>3
<1> QED BY <1>3, <1>4 DEF i

LEMMA MissesKeeps ==
    ASSUME DevicesInv, NEW c \in DOMAIN call, call[c].pc = "cas", device[call[c].id] = Absent,
           call[c].op.kind # "save", Misses(c, call[c])
    PROVE  DevicesInv'
<1> DEFINE l == call[c]
           m == Drops(l, Concludes(l, "Missing", l.was))
           i == IF l.new = Remove THEN Delisted(l.id, l.was) ELSE index
<1>0. l.pc \in Writing /\ Indexing(c, m, i) BY DEF Misses, Writing
<1>1. Local(c, m) /\ index' = i /\ UNCHANGED cacheVars BY <1>0, IndexingIs DEF DevicesInv
<1>2. l.was \in Rows(plan.time) \cup {Absent} BY CallIs DEF Call, Locals
<1>3. Concluded(l, "Missing", l.was, plan.time, Known, device, record.saved) BY <1>2 DEF Concluded
<1>4. /\ GoesOn(c, m) /\ m.role = l.role /\ m.pc \notin {"fetch", "keep"}
      /\ m.pc = "drop" => plan.cached /\ m.role.kind # "sweep"
      /\ m.role.kind = "sweep" => m.pc # "done"
  BY <1>0, <1>3, UnwrittenOn
<1>5. l.id \in Ids BY <1>0, WriterIs
<1>6. /\ index' \in [tenant : SUBSET Ids, fp : SUBSET Ids, own : [Users -> SUBSET Ids]]
      /\ index.fp \ {l.id} \subseteq index'.fp /\ index.tenant \ {l.id} \subseteq index'.tenant
      /\ \A u \in Users : index.own[u] \ {l.id} \subseteq index'.own[u]
  <2>1. CASE l.new = Remove
    <3>1. index' = Delisted(l.id, l.was) BY <1>1, <2>1
    <3>2. Typed BY DEF DevicesInv
    <3> HIDE DEF l
    <3> QED BY <1>5, <3>1, <3>2, DelistedIs
  <2>2. CASE l.new # Remove BY <1>1, <2>2 DEF DevicesInv, Typed
  <2> QED BY <2>1, <2>2
<1>7. Listed'
  <2>0. \A d \in Ids : device[d] # Absent => device[d] \in Rows(plan.time) BY DEF DevicesInv, Typed
  <2>1. \A d \in Ids : device[d] # Absent /\ device[d].user # NoUser => device[d].user \in Users
    BY <2>0 DEF Rows, DeviceRow, Owners
  <2> QED BY <1>1, <1>6, <2>1 DEF DevicesInv, RowsInv, Listed, Local, Settles, Settled
<1> HIDE DEF m
<1> QED BY <1>1, <1>4, <1>6, <1>7, QuietStep

(* A write or an insert that is tried again. *)
LEMMA RetryKeeps ==
    ASSUME DevicesInv, NEW c \in DOMAIN call, NEW p,
           (call[c].pc = "cas" /\ p = "get") \/ (call[c].pc = "insert" /\ p = "guard"),
           Locally(c, Retries(call[c], p)), UNCHANGED cacheVars
    PROVE  DevicesInv'
<1> DEFINE l == call[c]
           m == Retries(l, p)
<1>1. /\ Sound(m, plan.time, Known, record.barred[c], device, record.saved)
      /\ m.role = l.role /\ m.now \in {0, l.now}
      /\ Making(m) => Making(l) /\ m.id = l.id
      /\ m.pc \in {"get", "guard", "each", "done", "drop"}
      /\ m.pc = "drop" => plan.cached /\ m.next = "done"
      /\ l.role.kind = "sweep" => m.pc \in {"get", "each"}
  BY CallIs, RetriesSound
<1>2. Locally(c, m) OBVIOUS
<1> HIDE DEF m
<1>3. Keyed(m, guard, time, device, record.born) BY <1>1 DEF Keyed, Searching, Lookups
<1>4. GoesOn(c, m) BY <1>1, <1>3, CallIs DEF GoesOn
<1> QED BY <1>1, <1>2, <1>4, StillStep

(* The end of a sweep behind a cache. *)
Closing(a) == [a EXCEPT !.pc = "drop", !.next = "done", !.stale = Ids]
LEMMA ClosingIs ==
    ASSUME NEW t, NEW a \in Call(t)
    PROVE  LET m == Closing(a)
           IN  /\ m \in Call(t) /\ m.pc = "drop" /\ m.next = "done" /\ m.stale = Ids /\ m.role = a.role
               /\ m.now = a.now /\ m.id = a.id /\ m.stage = a.stage /\ m.op = a.op /\ m.held = a.held /\ m.out = a.out
<1>1. {"drop", "done"} \subseteq Pcs BY DEF Pcs
<1> QED BY <1>1 DEF Closing, Call, Locals

(* The next device of a sweep. *)
Taking(l, d) == [l EXCEPT !.id = d, !.found = @ \ {d}]
LEMMA TakingIs ==
    ASSUME NEW t, NEW l \in Call(t), NEW d \in Ids
    PROVE  LET m == Taking(l, d)
           IN  /\ m \in Call(t) /\ m.role = l.role /\ m.now = l.now /\ m.id = d /\ m.found = l.found \ {d}
               /\ m.stage = l.stage /\ m.op = l.op /\ m.held = l.held
<1>1. l.found \ {d} \in Finds(t) BY DEF Finds, Call, Locals
<1> QED BY <1>1 DEF Taking, Call, Locals

LEMMA EachKeeps ==
    ASSUME DevicesInv, NEW c \in DOMAIN call, each(c)
    PROVE  DevicesInv'
<1> DEFINE l == call[c]
           a == Answers(l, "ok")
<1>0. l.pc = "each" /\ UNCHANGED cacheVars BY DEF each
<1>1. l.role.kind = "sweep" /\ l.found \in SUBSET Ids BY <1>0, CallIs DEF Sound, Placed, Place
<1>2. /\ Steady(l, a, plan.time, Known, record.barred[c], device, record.saved) /\ a.pc = "done" /\ a.out = "ok"
      /\ a \in Call(plan.time) /\ a.role = l.role
  BY CallIs, AnswersSteady, AnswersIs DEF ServedOuts
<1>3. CASE l.found = {} /\ plan.cached
  <2> DEFINE m == Closing(a)
  <2>1. Locally(c, m) BY <1>3 DEF each, Closing
  <2> HIDE DEF a
  <2>2. /\ m \in Call(plan.time) /\ m.pc = "drop" /\ m.next = "done" /\ m.stale = Ids /\ m.role = a.role
        /\ m.now = a.now /\ m.id = a.id /\ m.stage = a.stage /\ m.op = a.op /\ m.held = a.held /\ m.out = a.out
    BY <1>2, ClosingIs
  <2> HIDE DEF m
  <2>3. Place(m) = "done" /\ Staged(m) /\ Holds(m, Known) BY <1>2, <2>2 DEF Place, Staged, Holds, Steady, Sound, Knowing
  <2>4. Sound(m, plan.time, Known, record.barred[c], device, record.saved) /\ ~Making(m)
    BY <1>2, <2>2, <2>3 DEF Sound, Placed, Decided, Binds, Knowing, Clear, Owning, Making, Makings, Lookups, Writing, Loading, ServedOuts
  <2>5. m.now <= time BY <1>2, <2>2, CallIs DEF Steady
  <2>6. GoesOn(c, m) BY <1>2, <2>2, <2>4, <2>5, NotSearching DEF GoesOn
  <2> QED BY <1>0, <1>3, <2>1, <2>2, <2>6, StillStep
<1>4. CASE l.found = {} /\ ~plan.cached
  <2>1. Locally(c, a) BY <1>4 DEF each
  <2>2. GoesOn(c, a) BY <1>2, SteadyGoesOn
  <2> HIDE DEF a
  <2> QED BY <1>0, <1>2, <1>4, <2>1, <2>2, StillStep
<1>5. CASE l.found # {}
  <2>1. PICK d \in l.found : Locally(c, Applies([l EXCEPT !.id = d, !.found = @ \ {d}], [kind |-> "sweep"]))
    BY <1>5 DEF each
  <2> DEFINE k == Taking(l, d)
             m == Applies(k, [kind |-> "sweep"])
  <2>2. Locally(c, m) BY <2>1 DEF Taking
  <2>3. d \in Ids BY <1>1
  <2>4. /\ k \in Call(plan.time) /\ k.role = l.role /\ k.now = l.now /\ k.id = d /\ k.found = l.found \ {d}
        /\ k.stage = l.stage /\ k.op = l.op /\ k.held = l.held
    <3>1. l \in Call(plan.time) BY CallIs
    <3> HIDE DEF l
    <3> QED BY <2>3, <3>1, TakingIs
  <2> HIDE DEF k
  <2>5. /\ m \in Call(plan.time) /\ m.pc = "get" /\ m.op = [kind |-> "sweep"] /\ m.role = k.role /\ m.now = k.now
        /\ m.id = k.id /\ m.stage = k.stage /\ m.held = k.held /\ m.found = k.found
    BY <2>4, AppliesIs, PlainOp
  <2> HIDE DEF m
  <2>6. Place(m) = "get" /\ Staged(m) /\ Holds(m, Known) /\ Writers(m.op) = {"sweep"} /\ m.found \in SUBSET Ids
    BY <1>1, <2>4, <2>5, CallIs DEF Place, Staged, Holds, Writers
  <2>7. Sound(m, plan.time, Known, record.barred[c], device, record.saved) /\ ~Making(m)
    BY <1>1, <2>3, <2>4, <2>5, <2>6
       DEF Sound, Placed, Decided, Binds, Knowing, Clear, Owning, Making, Makings, Lookups, Writing, Loading
  <2>8. GoesOn(c, m) BY <2>4, <2>5, <2>7, NotSearching, CallIs DEF GoesOn
  <2> QED BY <1>0, <2>2, <2>5, <2>8, StillStep
<1> QED BY <1>3, <1>4, <1>5

LEMMA NewRowIs ==
    ASSUME NEW t, NEW u \in Owners, NEW n \in 0 .. t, t \in Nat, NEW b \in SUBSET Binding
    PROVE  /\ NewRow(u, n, b) \in Rows(t) /\ NewRow(u, n, b) # Absent /\ NewRow(u, n, b).user = u
           /\ NewRow(u, n, b).level = "Unknown" /\ NewRow(u, n, b).seen = n /\ NewRow(u, n, b).demoted_at = Never
<1> DEFINE r == NewRow(u, n, b)
<1>1. r = [user |-> u, level |-> "Unknown", seen |-> n, revoked_at |-> Never, demoted_at |-> Never, bindings |-> b] BY DEF NewRow
<1>2. r \in DeviceRow BY <1>1 DEF DeviceRow, Levels
<1> QED BY <1>1, <1>2, DevicesAssumption DEF Rows, r

(* The locals with a new id: for a device that is saved, or inserted. *)
Minting(l, d) == [l EXCEPT !.pc = "guard", !.id = d, !.stage = "key", !.tries = 0]
LEMMA MintKeeps ==
    ASSUME DevicesInv, NEW c \in DOMAIN call, mint(c)
    PROVE  DevicesInv'
<1> DEFINE l == call[c]
           b == {[cred |-> "token", used |-> l.now]}
           row == NewRow(l.role.user, l.now, b)
           op == [kind |-> "save", row |-> row]
<1>0. l.pc = "mint" BY DEF mint
<1>1. PICK d \in Ids \ minted :
        /\ minted' = minted \cup {d}
        /\ call' = [call EXCEPT ![c] =
              IF l.role.kind = "ensure" THEN [l EXCEPT !.pc = "guard", !.id = d, !.stage = "key", !.tries = 0]
              ELSE Applies([l EXCEPT !.id = d], op)]
  BY DEF mint
<1>2. UNCHANGED <<storeVars, cacheVars, time, plan, left, record>> BY DEF mint
<1>3. l.role.kind \in {"ensure", "resolve"} /\ l.role.user \in Owners
  <2>1. l.role.kind \in {"ensure", "resolve"} BY <1>0, CallIs DEF Sound, Placed, Place
  <2> QED BY <2>1, CallIs, RoleIs
<1>4. d \in Ids /\ d \notin Known /\ d \notin record.barred[c]
  BY CallIs DEF Known, DevicesInv, KnownHistory
<1>5. ASSUME NEW m, call' = [call EXCEPT ![c] = m], m.pc \in {"guard", "get"}, m.role = l.role, m.now = l.now, m.id = d,
             Sound(m, plan.time, Known, record.barred[c], device, record.saved)
      PROVE  DevicesInv'
  <2>1. Settles(c, m) BY <1>2, <1>5 DEF Settles, Settled, DevicesInv, Typed
  <2>2. Local(c, m) BY <1>1, <1>2, <1>5, <2>1 DEF Local, Turn, storeVars, DevicesInv, Typed
  <2>3. Keyed(m, guard, time, device, record.born) BY <1>5 DEF Keyed, Searching, Lookups
  <2>4. GoesOn(c, m) BY <1>1, <1>5, <2>3, CallIs DEF GoesOn
  <2>5. index' = index /\ UNCHANGED cacheVars BY <1>2 DEF storeVars
  <2> QED BY <1>0, <1>5, <2>2, <2>4, <2>5, SameIndex, QuietStep
<1>6. CASE l.role.kind = "ensure"
  <2> DEFINE m == Minting(l, d)
  <2>1. call' = [call EXCEPT ![c] = m] BY <1>1, <1>6 DEF Minting
  <2>2. "guard" \in Pcs BY DEF Pcs, Makings
  <2>3. /\ m \in Call(plan.time) /\ m.pc = "guard" /\ m.id = d /\ m.stage = "key" /\ m.role = l.role /\ m.now = l.now
        /\ m.op = l.op /\ m.held = l.held
    <3>1. l \in Call(plan.time) BY CallIs
    <3> HIDE DEF l
    <3> QED BY <1>4, <2>2, <3>1 DEF Minting, Call, Locals
  <2> HIDE DEF m
  <2>4. Place(m) = "guard" /\ Staged(m) /\ Holds(m, Known) BY <1>6, <2>3, CallIs DEF Place, Staged, Holds
  <2>5. Sound(m, plan.time, Known, record.barred[c], device, record.saved)
    BY <1>4, <1>6, <2>3, <2>4
       DEF Sound, Placed, Decided, Binds, Knowing, Clear, Owning, Makings, Lookups, Writing, Loading
  <2> QED BY <1>5, <2>1, <2>3, <2>5
<1>7. CASE l.role.kind = "resolve"
  <2> DEFINE k == [l EXCEPT !.id = d]
             m == Applies(k, op)
  <2>1. call' = [call EXCEPT ![c] = m] BY <1>1, <1>7
  <2>2. /\ k \in Call(plan.time) /\ k.id = d /\ k.stage = l.stage /\ k.role = l.role /\ k.now = l.now
        /\ k.op = l.op /\ k.held = l.held
    <3>1. l \in Call(plan.time) BY CallIs
    <3> HIDE DEF l
    <3> QED BY <1>4, <3>1 DEF Call, Locals
  <2>3. row \in Rows(plan.time) /\ row.user = l.role.user
    <3>1. l.now \in 0 .. plan.time /\ plan.time \in Nat BY CallIs DEF Call, Locals
    <3>2. [cred |-> "token", used |-> l.now] \in Binding
      <4>1. "token" \in Credential BY DEF Credential
      <4>2. l.now \in Nat BY <3>1
      <4> HIDE DEF l
      <4> QED BY <4>1, <4>2 DEF Binding
    <3>3. b \in SUBSET Binding BY <3>2
    <3> HIDE DEF b, l
    <3> QED BY <1>3, <3>1, <3>3, NewRowIs
  <2> HIDE DEF k, row
  <2>4. op \in Op(plan.time) /\ op.kind = "save" /\ op.row = row BY <2>3 DEF Op
  <2> HIDE DEF op
  <2>5. /\ m \in Call(plan.time) /\ m.pc = "get" /\ m.op = op /\ m.role = l.role /\ m.now = l.now /\ m.id = d
        /\ m.stage = l.stage /\ m.held = l.held
    BY <2>2, <2>4, AppliesIs
  <2> HIDE DEF m
  <2>6. Place(m) = "get" /\ Staged(m) /\ Holds(m, Known) /\ Writers(m.op) = {"save", "resolve"}
    BY <2>4, <2>5, <1>7, CallIs DEF Place, Staged, Holds, Writers
  <2>7. Sound(m, plan.time, Known, record.barred[c], device, record.saved)
    BY <1>4, <1>7, <2>3, <2>4, <2>5, <2>6
       DEF Sound, Placed, Decided, Binds, Knowing, Clear, Owning, Makings, Lookups, Writing, Loading
  <2> QED BY <1>5, <2>1, <2>5, <2>7
<1> QED BY <1>3, <1>6, <1>7

-----------------------------------------------------------------------------
(* The history of a write: of row by call c, with locals l.               *)
Revokes(l, row) == row # Absent /\ row.level = "Revoked" /\ (l.was = Absent \/ live(l.was))
Frees(l, row) == row = Absent \/ (live(row) /\ ~live(l.was) /\ (l.op.kind = "set" \/ l.was = Absent))
Back(l, row) == IF l.op.kind \in {"set", "save"} /\ live(row) THEN {l.id} ELSE {}
Ends(l, row) == IF row = Absent \/ row.level = "Revoked" THEN {l.id} ELSE {}
Bound(l) == IF l.op.kind = "bindings" /\ l.role.kind = "bind" THEN {<<l.id, l.role.cred>>} ELSE {}
EndedBy(r, l, row) ==
    IF Revokes(l, row) THEN Put(r.ended, l.id, row)
    ELSE IF Frees(l, row) THEN Restrict(r.ended, DOMAIN r.ended \ {l.id}) ELSE r.ended
BornBy(r, l, row) ==
    IF (Frees(l, row) /\ l.was # Absent) \/ l.op.kind = "save" THEN Restrict(r.born, DOMAIN r.born \ {l.id}) ELSE r.born
BoundBy(r, l, row) == (IF row = Absent \/ l.op.kind = "save" THEN {b \in r.bound : b[1] # l.id} ELSE r.bound) \cup Bound(l)
SavedBy(r, l) == IF l.op.kind = "save" /\ l.role.kind = "save" THEN r.saved \cup {l.id} ELSE r.saved
SightedBy(r, l, row) == IF row # Absent THEN seen_clock(row) ELSE r.sighted[l.id]
EarlyBy(r, l, row) ==
    IF l.op.kind = "sweep" /\ Revokes(l, row) /\ l.now - r.sighted[l.id] <= SeenIdle THEN r.early \cup {l.id} ELSE r.early
BarredBy(r, l, row) == [x \in Callers |-> r.barred[x] \ Back(l, row)]
EndingBy(r, c, l, row) == [x \in Callers |-> IF x = c THEN (r.ending[x] \ Back(l, row)) \cup Ends(l, row) ELSE r.ending[x] \ Back(l, row)]
Noting(r, c, l, row) ==
    [r EXCEPT
        !.ended = EndedBy(r, l, row),
        !.gone = r.gone \ Back(l, row),
        !.barred = BarredBy(r, l, row),
        !.ending = EndingBy(r, c, l, row),
        !.born = BornBy(r, l, row),
        !.bound = BoundBy(r, l, row),
        !.saved = SavedBy(r, l),
        !.unlisted = r.unlisted \ {l.id},
        !.sighted = [r.sighted EXCEPT ![l.id] = SightedBy(r, l, row)],
        !.early = EarlyBy(r, l, row)]

Notes(r, c, l, row, n) ==
    /\ RecordOK(n)
    /\ n.ended = EndedBy(r, l, row) /\ n.gone = r.gone \ Back(l, row)
    /\ \A x \in Callers : n.barred[x] = r.barred[x] \ Back(l, row)
    /\ n.ending[c] = (r.ending[c] \ Back(l, row)) \cup Ends(l, row)
    /\ \A x \in Callers \ {c} : n.ending[x] = r.ending[x] \ Back(l, row)
    /\ n.born = BornBy(r, l, row) /\ n.bound = BoundBy(r, l, row) /\ n.saved = SavedBy(r, l)
    /\ n.unlisted = r.unlisted \ {l.id}
    /\ n.sighted[l.id] = SightedBy(r, l, row) /\ \A d \in Ids \ {l.id} : n.sighted[d] = r.sighted[d]
    /\ n.early = EarlyBy(r, l, row)

LEMMA NotingIs ==
    ASSUME NEW r, RecordOK(r), NEW c \in Callers, NEW l, NEW row, l.id \in Ids, row # Absent => seen_clock(row) \in Int
    PROVE  Notes(r, c, l, row, Noting(r, c, l, row))
<1> DEFINE E == EndedBy(r, l, row)
           G == r.gone \ Back(l, row)
           BD == BarredBy(r, l, row)
           EN == EndingBy(r, c, l, row)
           BN == BornBy(r, l, row)
           BO == BoundBy(r, l, row)
           SV == SavedBy(r, l)
           U == r.unlisted \ {l.id}
           SI == [r.sighted EXCEPT ![l.id] = SightedBy(r, l, row)]
           EA == EarlyBy(r, l, row)
           n == Noting(r, c, l, row)
<1>1. SightedBy(r, l, row) \in Int BY DEF SightedBy, RecordOK
<1>2. SI \in [Ids -> Int] /\ SI[l.id] = SightedBy(r, l, row) /\ \A d \in Ids \ {l.id} : SI[d] = r.sighted[d]
  BY <1>1 DEF RecordOK
<1>3. Back(l, row) \in SUBSET Ids /\ Ends(l, row) \in SUBSET Ids BY DEF Back, Ends
<1>4. BD \in [Callers -> SUBSET Ids] /\ \A x \in Callers : BD[x] = r.barred[x] \ Back(l, row)
  BY <1>3 DEF BarredBy, RecordOK
<1>5. /\ EN \in [Callers -> SUBSET Ids] /\ EN[c] = (r.ending[c] \ Back(l, row)) \cup Ends(l, row)
      /\ \A x \in Callers \ {c} : EN[x] = r.ending[x] \ Back(l, row)
  BY <1>3 DEF EndingBy, RecordOK
<1>6. n = [r EXCEPT !.ended = E, !.gone = G, !.barred = BD, !.ending = EN, !.born = BN, !.bound = BO, !.saved = SV,
                    !.unlisted = U, !.sighted = SI, !.early = EA]
  BY DEF Noting
<1> HIDE DEF E, G, BD, EN, BN, BO, SV, U, SI, EA, n
<1>7. n \in [ended : {E}, gone : {G}, ending : {EN}, barred : {BD}, born : {BN},
             bound : {BO}, saved : {SV}, unlisted : {U}, sighted : {SI}, early : {EA}]
  BY <1>6 DEF RecordOK, Shaped
<1>8. RecordOK(n) BY <1>2, <1>4, <1>5, <1>7 DEF RecordOK, Shaped
<1>9. n.ended = E /\ n.gone = G /\ n.ending = EN /\ n.barred = BD /\ n.born = BN /\ n.bound = BO /\ n.saved = SV
      /\ n.unlisted = U /\ n.sighted = SI /\ n.early = EA
  BY <1>7
<1>10. Notes(r, c, l, row, n) BY <1>2, <1>4, <1>5, <1>8, <1>9 DEF Notes, E, G, BN, BO, SV, U, EA
<1> QED BY <1>10 DEF n

LEMMA NotedIs ==
    ASSUME RecordOK(record), NEW c \in Callers, NEW l, NEW m, NEW row, l.id \in Ids
    PROVE  Noted(c, l, m, row) = Ended(c, m, Noting(record, c, l, row))
<1> DEFINE n == [record EXCEPT
              !.ended = IF Revokes(l, row) THEN Put(@, l.id, row) ELSE IF Frees(l, row) THEN Restrict(@, DOMAIN @ \ {l.id}) ELSE @,
              !.gone = @ \ Back(l, row),
              !.barred = [x \in Callers |-> @[x] \ Back(l, row)],
              !.ending = [x \in Callers |-> IF x = c THEN (@[x] \ Back(l, row)) \cup Ends(l, row) ELSE @[x] \ Back(l, row)],
              !.born = IF (Frees(l, row) /\ l.was # Absent) \/ l.op.kind = "save" THEN Restrict(@, DOMAIN @ \ {l.id}) ELSE @,
              !.bound = (IF row = Absent \/ l.op.kind = "save" THEN {b \in @ : b[1] # l.id} ELSE @) \cup Bound(l),
              !.saved = IF l.op.kind = "save" /\ l.role.kind = "save" THEN @ \cup {l.id} ELSE @,
              !.unlisted = @ \ {l.id},
              !.sighted[l.id] = IF row # Absent THEN seen_clock(row) ELSE @,
              !.early = IF l.op.kind = "sweep" /\ Revokes(l, row) /\ l.now - record.sighted[l.id] <= SeenIdle
                        THEN @ \cup {l.id} ELSE @]
<1>1. Noted(c, l, m, row) = Ended(c, m, n) BY DEF Noted, Revokes, Frees, Back, Ends, Bound
<1>2. n = Noting(record, c, l, row)
  BY DEF Noting, EndedBy, BornBy, BoundBy, SavedBy, SightedBy, EarlyBy, BarredBy, EndingBy, RecordOK, Shaped
<1> QED BY <1>1, <1>2

-----------------------------------------------------------------------------
(* A write that lands. *)
Larger(a, b) == Max({a, b})
LEMMA LargerIs ==
    ASSUME NEW a \in Int, NEW b \in Int
    PROVE  Larger(a, b) \in Int /\ Larger(a, b) >= a /\ Larger(a, b) >= b /\ Larger(a, b) \in {a, b}
BY DEF Larger, Max

LEMMA ClockIs ==
    ASSUME NEW t, NEW row \in Rows(t)
    PROVE  seen_clock(row) \in Int /\ (row.level # "Seen" => seen_clock(row) = row.seen)
<1>1. row.seen \in Nat /\ row.demoted_at \in Int /\ (row.level # "Seen" => row.demoted_at = -1)
  BY DEF Rows, DeviceRow, Never
<1> DEFINE a == row.seen
           b == row.demoted_at
           s == Larger(a, b)
<1>2. seen_clock(row) = s BY DEF seen_clock, Larger
<1>3. s \in Int /\ s >= a /\ s \in {a, b}
  <2>1. a \in Int /\ b \in Int BY <1>1
  <2> HIDE DEF a, b
  <2> QED BY <2>1, LargerIs
<1> HIDE DEF s
<1> QED BY <1>1, <1>2, <1>3

(* Valkey keeps a live row for as long as its windows. *)
LEMMA TtlIs ==
    ASSUME NEW t, NEW row \in Rows(t), NEW now \in Nat
    PROVE  LET ttl == ttl_seconds(row, now)
           IN  /\ ttl \in Int
               /\ live(row) /\ ttl # Never => now + ttl >= seen_clock(row) + SeenIdle + RevokedGrace
<1> DEFINE ttl == ttl_seconds(row, now)
<1>0. /\ row.seen \in Nat /\ row.revoked_at \in Int /\ row.level \in Levels /\ Never \in Int
      /\ TrustedIdle \in Nat /\ SeenIdle \in Nat /\ RevokedGrace \in Nat
      /\ seen_clock(row) \in Int /\ (row.level # "Seen" => seen_clock(row) = row.seen)
  BY ClockIs, SweepAssumption DEF Rows, DeviceRow, Never
<1>1. ASSUME NEW from \in Int, NEW w \in Nat, ttl = Larger(1, from + w - now)
      PROVE  ttl \in Int /\ now + ttl >= from + w
  <2> DEFINE x == from + w - now
  <2>1. x \in Int /\ ttl = Larger(1, x) BY <1>1
  <2>2. x = from + w - now OBVIOUS
  <2> HIDE DEF x, ttl
  <2>3. ttl \in Int /\ ttl >= x BY <2>1, LargerIs
  <2> QED BY <2>2, <2>3
<1>2. CASE row.level = "Unknown"
  <2>1. ttl = Never BY <1>2 DEF ttl_seconds
  <2> QED BY <1>0, <2>1
<1>3. CASE row.level = "Trusted"
  <2> DEFINE w == TrustedIdle + SeenIdle + RevokedGrace
  <2>1. ttl = Larger(1, row.seen + w - now) BY <1>3 DEF ttl_seconds, Larger
  <2>2. w \in Nat /\ row.seen \in Int BY <1>0
  <2>3. w >= SeenIdle + RevokedGrace /\ w = TrustedIdle + SeenIdle + RevokedGrace BY <1>0
  <2> HIDE DEF w, ttl
  <2>4. ttl \in Int /\ now + ttl >= row.seen + w BY <1>1, <2>1, <2>2
  <2>5. now + ttl >= seen_clock(row) + SeenIdle + RevokedGrace BY <1>0, <1>3, <2>2, <2>3, <2>4
  <2> QED BY <2>4, <2>5 DEF ttl
<1>4. CASE row.level = "Seen"
  <2> DEFINE w == SeenIdle + RevokedGrace
  <2>1. ttl = Larger(1, seen_clock(row) + w - now) BY <1>4 DEF ttl_seconds, Larger
  <2>2. w \in Nat /\ w = SeenIdle + RevokedGrace BY <1>0
  <2> HIDE DEF w, ttl
  <2>3. ttl \in Int /\ now + ttl >= seen_clock(row) + w BY <1>0, <1>1, <2>1, <2>2
  <2>4. now + ttl >= seen_clock(row) + SeenIdle + RevokedGrace BY <1>0, <2>2, <2>3
  <2> QED BY <2>3, <2>4 DEF ttl
<1>5. CASE row.level = "Revoked"
  <2>1. ttl = Larger(1, row.revoked_at + RevokedGrace - now) BY <1>5 DEF ttl_seconds, Larger
  <2>2. ttl \in Int BY <1>0, <1>1, <2>1
  <2> QED BY <1>5, <2>2 DEF live
<1> QED BY <1>0, <1>2, <1>3, <1>4, <1>5 DEF Levels

Landing(l, row) == Drops(l, Concludes(l, IF row = Absent THEN "Removed" ELSE "Written", l.was))
(* Call c, with locals l, writes row, notes it as n and goes on as m. *)
Lands(c, l, row, m, n) ==
    /\ c \in DOMAIN call /\ c \in Callers /\ l = call[c] /\ l.pc = "cas" /\ l.id \in Ids /\ l.role.kind \in Writers(l.op)
    /\ device[l.id] = l.was /\ l.was \in Rows(plan.time) \cup {Absent} /\ row \in Rows(plan.time) \cup {Absent}
    /\ Edits(l, l.was, row)
    /\ device' = [device EXCEPT ![l.id] = row]
    /\ expiry' = [expiry EXCEPT ![l.id] = IF row = Absent \/ ttl_seconds(row, l.now) = Never THEN Never
                                          ELSE time + ttl_seconds(row, l.now)]
    /\ index' = IF row = Absent THEN Delisted(l.id, l.was) ELSE Indexed(l.id, l.was, row)
    /\ Turn(c, m) /\ m = Landing(l, row)
    /\ Notes(record, c, l, row, n) /\ Settled(c, m, n, record') /\ record'.unlisted = n.unlisted
    /\ UNCHANGED <<guard, cached, loading, minted, time, plan>>

LEMMA LandsIs ==
    ASSUME DevicesInv, NEW c \in DOMAIN call, call[c].pc = "cas", device[call[c].id] = call[c].was, Writes(c, call[c])
    PROVE  LET l == call[c] IN Lands(c, l, l.new.row, Landing(l, l.new.row), Noting(record, c, l, l.new.row))
<1> DEFINE l == call[c]
           row == l.new.row
           m == Landing(l, row)
           n == Noting(record, c, l, row)
<1>0. l.pc \in Writing /\ c \in Callers BY CallIs DEF Writing
<1>1. l.id \in Ids /\ l.role.kind \in Writers(l.op) /\ Place(l) = l.pc BY <1>0, WriterIs
<1>2. l.was \in Rows(plan.time) \cup {Absent} /\ plan.time \in Nat /\ l \in Call(plan.time) BY CallIs DEF Call, Locals
<1>3. l.new = decide(l, l.was) /\ l.new # Skip /\ (l.was = Absent => l.op.kind = "save") BY CallIs DEF Sound, Decided
<1>4. l.new \in Decision(plan.time) /\ Edits(l, l.was, row) BY <1>1, <1>2, <1>3, Decides
<1>5. row \in Rows(plan.time) \cup {Absent} BY <1>4 DEF Decision
<1>6. RecordOK(record) BY DEF DevicesInv, Typed
<1>7. row # Absent => seen_clock(row) \in Int BY <1>5, ClockIs
<1>8. Notes(record, c, l, row, n) BY <1>0, <1>1, <1>6, <1>7, NotingIs
<1>9. RecordOK(n) BY <1>8 DEF Notes
<1>10. record' = Ended(c, m, n)
  <2>1. record' = Noted(c, l, m, row) BY DEF Writes, Landing
  <2> QED BY <1>0, <1>1, <1>6, <2>1, NotedIs
<1>11. Settled(c, m, n, record') /\ record'.unlisted = n.unlisted BY <1>0, <1>9, <1>10, EndedIs
<1>12. /\ device' = [device EXCEPT ![l.id] = row]
       /\ expiry' = [expiry EXCEPT ![l.id] = IF row = Absent \/ ttl_seconds(row, l.now) = Never THEN Never
                                             ELSE time + ttl_seconds(row, l.now)]
       /\ index' = IF row = Absent THEN Delisted(l.id, l.was) ELSE Indexed(l.id, l.was, row)
       /\ Turn(c, m)
       /\ UNCHANGED <<guard, cached, loading, minted, time, plan>>
  BY DEF Writes, Landing, Turn, cacheVars
<1> HIDE DEF m, n, row
<1>13. Lands(c, l, row, m, n)
  BY <1>0, <1>1, <1>2, <1>4, <1>5, <1>8, <1>11, <1>12 DEF Lands, m
<1> QED BY <1>13 DEF row, m, n

(* An owner is kept by every write but a save of the application's.       *)
LEMMA LandsOwners ==
    ASSUME DevicesInv, NEW c, NEW l, NEW row, NEW m, NEW n, Lands(c, l, row, m, n)
    PROVE  OwnersKept(Known, device, record.saved, device', record'.saved)
<1> SUFFICES ASSUME NEW d \in Known, NEW u \in Users, OwnerIs(d, u, device, record.saved)
             PROVE  OwnerIs(d, u, device', record'.saved)
  BY DEF OwnersKept
<1>0. /\ device' = [device EXCEPT ![l.id] = row] /\ l.id \in Ids /\ l = call[c] /\ c \in DOMAIN call /\ l.pc \in Writing
      /\ device[l.id] = l.was /\ Edits(l, l.was, row) /\ l.role.kind \in Writers(l.op)
  BY DEF Lands, Writing
<1>1. record'.saved = SavedBy(record, l) BY DEF Lands, Notes, Settled
<1>2. device \in [Ids -> Rows(plan.time) \cup {Absent}] /\ d \in Ids BY IdsOf DEF DevicesInv, Typed
<1>3. record.saved \subseteq record'.saved BY <1>1 DEF SavedBy
<1>4. CASE d # l.id
  <2>1. device'[d] = device[d] BY <1>0, <1>2, <1>4
  <2> QED BY <1>3, <2>1 DEF OwnerIs
<1>5. CASE d = l.id /\ l.op.kind = "save"
  <2>1. l.role.kind # "resolve"
    <3> SUFFICES ASSUME l.role.kind = "resolve" PROVE FALSE OBVIOUS
    <3>1. Making(l) BY <1>0, <1>5, WriterIs
    <3> QED BY <1>0, <1>5, <3>1 DEF Known
  <2>2. l.role.kind = "save" BY <1>0, <1>5, <2>1 DEF Writers
  <2> QED BY <1>1, <1>5, <2>2 DEF SavedBy, OwnerIs
<1>6. CASE d = l.id /\ l.op.kind # "save"
  <2>1. device'[d] = row /\ device[d] = l.was /\ l.was # Absent BY <1>0, <1>2, <1>6 DEF Edits
  <2>2. row # Absent => row.user = l.was.user \/ l.was.user = NoUser BY <1>0, <1>6 DEF Edits
  <2>3. u # NoUser BY DevicesAssumption
  <2> QED BY <1>3, <2>1, <2>2, <2>3 DEF OwnerIs
<1> QED BY <1>4, <1>5, <1>6

(* How the call goes on. *)
Leaves(c, l, row, m) ==
    /\ Sound(m, plan.time, Known', record'.barred[c], device', record'.saved)
    /\ ~Making(m) /\ m.role = l.role /\ m.now <= time
    /\ Known \subseteq Known' /\ l.id \in Known'
    /\ m.pc \notin {"fetch", "keep"}
    /\ m.pc = "drop" => plan.cached /\ m.stale = {l.id}
    /\ l.role.kind = "sweep" => m.pc \in {"each", "unlist"}
    /\ l.op.kind \in {"set", "delete", "save"} =>
          IF plan.cached THEN m.pc = "drop" /\ m.next = "done" ELSE m.pc = "done"
    /\ plan.cached /\ m.pc = "done" => l.op.kind = "sight"

LEMMA LandsLeaves ==
    ASSUME DevicesInv, NEW c, NEW l, NEW row, NEW m, NEW n, Lands(c, l, row, m, n)
    PROVE  Leaves(c, l, row, m)
<1> DEFINE K == Known \cup {l.id}
           a == IF row = Absent THEN "Removed" ELSE "Written"
           k == Concludes(l, a, l.was)
           B == record'.barred[c]
           V == record'.saved
           D == device'
<1>0. /\ c \in DOMAIN call /\ l = call[c] /\ l.pc = "cas" /\ l.pc \in Writing /\ l.id \in Ids /\ l.role.kind \in Writers(l.op)
      /\ device[l.id] = l.was /\ l.was \in Rows(plan.time) \cup {Absent} /\ row \in Rows(plan.time) \cup {Absent}
      /\ Edits(l, l.was, row) /\ Turn(c, m) /\ m = Drops(l, k) /\ minted' = minted /\ time' = time /\ c \in Callers
      /\ device' = [device EXCEPT ![l.id] = row] /\ device \in [Ids -> Rows(plan.time) \cup {Absent}] /\ Typed /\ Apart
  BY DEF Lands, Landing, Writing, DevicesInv, Typed
<1>1. OwnersKept(Known, device, record.saved, D, V) BY LandsOwners
<1>2. B \subseteq record.barred[c] BY <1>0 DEF Lands, Notes, Settled
<1>3. plan.time \in Nat /\ Sound(l, plan.time, Known, record.barred[c], device, record.saved) BY <1>0, CallIs
<1> HIDE DEF B, D, V
<1>4. Sound(l, plan.time, K, B, D, V) BY <1>1, <1>2, <1>3, SoundMoves
<1>5. D[l.id] = row /\ Place(l) = "cas" BY <1>0 DEF D, Place
<1>6. Concluded(l, a, l.was, plan.time, K, D, V)
  <2>1. l.op.kind = "sight" => l.was \in Rows(plan.time) BY <1>0 DEF Edits
  <2>2. l.op.kind = "claim" => OwnerIs(l.id, l.role.user, D, V) BY <1>0, <1>5 DEF Edits, OwnerIs
  <2>3. l.op.kind = "save" /\ l.role.kind = "resolve" => OwnerIs(l.id, l.role.user, D, V)
    <3>1. l.op.kind = "save" /\ l.role.kind = "resolve" => l.op.row.user = l.role.user
      BY <1>3, <1>5 DEF Sound, Owning, Writing
    <3> QED BY <1>0, <1>5, <3>1 DEF Edits, OwnerIs
  <2> QED BY <1>0, <2>1, <2>2, <2>3 DEF Concluded
<1>7. /\ Steady(l, k, plan.time, K, B, D, V)
      /\ l.role.kind = "sweep" => k.pc \in {"each", "unlist"}
      /\ l.op.kind \in {"set", "delete", "save"} => k.pc = "done"
      /\ l.op.kind = "delete" => k.pc # "unlist"
  BY <1>0, <1>3, <1>4, <1>6, ConcludesSteady
<1>8. (l.role.kind = "sweep") <=> (l.op.kind = "sweep") BY <1>0, WriterIs
<1>9. l.op.kind = "sweep" => m = k BY <1>0 DEF Drops
<1> HIDE DEF k
<1>10. /\ Sound(m, plan.time, K, B, D, V) /\ ~Making(m) /\ m.role = l.role /\ m.now \in {0, l.now}
       /\ m.pc = "drop" => plan.cached /\ m.next = k.pc /\ m.stale = {l.id}
       /\ m.pc # "drop" => m.pc = k.pc
       /\ plan.cached /\ l.op.kind \notin {"sight", "sweep"} => m.pc = "drop"
  BY <1>0, <1>3, <1>7, DropsSound
<1>11. k.pc \in Calm BY <1>7 DEF Steady
<1>12. Known \subseteq Known' BY <1>0, <1>10, KnownGrows
<1>13. l.id \in Known'
  <2>1. CASE Making(l) BY <1>0, <1>10, <2>1, MadeKnown
  <2>2. CASE ~Making(l)
    <3>1. l.op.kind = "save" => l.role.kind = "save" BY <1>0, <2>2, WriterIs DEF Writers
    <3>2. l.op.kind = "save" => l.id \in Known BY <1>3, <1>5, <3>1 DEF Sound, Knowing, Writing
    <3>3. l.was # Absent => l.id \in Known BY <1>0 DEF DevicesInv, KnownRows
    <3> QED BY <1>0, <1>12, <3>2, <3>3 DEF Edits
  <2> QED BY <2>1, <2>2
<1>14. Sound(m, plan.time, Known', B, D, V)
  <2>1. OwnersKept(K, D, V, D, V) BY DEF OwnersKept
  <2> QED BY <1>3, <1>10, <1>12, <1>13, <2>1, SoundMoves
<1>15. m.now <= time BY <1>0, <1>10, CallIs
<1> QED BY <1>7, <1>8, <1>9, <1>10, <1>11, <1>12, <1>13, <1>14, <1>15 DEF Leaves, Calm, B, D, V

LEMMA RestrictIs ==
    ASSUME NEW f, NEW S
    PROVE  DOMAIN Restrict(f, S) = S /\ \A y \in S : Restrict(f, S)[y] = f[y]
BY DEF Restrict

(* What changes for the devices. *)
Landed(c, l, row) ==
    /\ device'[l.id] = row /\ \A d \in Ids \ {l.id} : device'[d] = device[d]
    /\ device' \in [Ids -> Rows(plan.time) \cup {Absent}]
    /\ expiry' \in [Ids -> Int] /\ \A d \in Ids \ {l.id} : expiry'[d] = expiry[d]
    /\ row = Absent => expiry'[l.id] = Never
    /\ row # Absent /\ live(row) /\ expiry'[l.id] # Never => expiry'[l.id] >= seen_clock(row) + SeenIdle + RevokedGrace
    /\ RecordOK(record')
    /\ record'.ended = EndedBy(record, l, row) /\ record'.born = BornBy(record, l, row)
    /\ record'.bound = BoundBy(record, l, row) /\ record'.saved = SavedBy(record, l)
    /\ record'.early = EarlyBy(record, l, row) /\ record'.unlisted = record.unlisted \ {l.id}
    /\ record'.sighted[l.id] = SightedBy(record, l, row) /\ \A d \in Ids \ {l.id} : record'.sighted[d] = record.sighted[d]
    /\ \A x \in Callers : record'.barred[x] = record.barred[x] \ Back(l, row)
    /\ \A x \in Callers \ {c} : record'.ending[x] = record.ending[x] \ Back(l, row)

LEMMA LandsOn ==
    ASSUME DevicesInv, NEW c, NEW l, NEW row, NEW m, NEW n, Lands(c, l, row, m, n)
    PROVE  Landed(c, l, row)
<1>0. /\ c \in DOMAIN call /\ l = call[c] /\ l.id \in Ids
      /\ row \in Rows(plan.time) \cup {Absent}
      /\ device' = [device EXCEPT ![l.id] = row] /\ device \in [Ids -> Rows(plan.time) \cup {Absent}]
      /\ expiry \in [Ids -> Int]
      /\ Notes(record, c, l, row, n) /\ Settled(c, m, n, record') /\ record'.unlisted = n.unlisted
  BY DEF Lands, DevicesInv, Typed
<1>1. time \in Nat /\ l.now \in Nat /\ l.now <= time BY <1>0, CallIs
<1> DEFINE ttl == ttl_seconds(row, l.now)
           x == IF row = Absent \/ ttl = Never THEN Never ELSE time + ttl
<1>2. expiry' = [expiry EXCEPT ![l.id] = x] BY DEF Lands
<1>3. row # Absent => /\ ttl \in Int
                      /\ live(row) /\ ttl # Never => l.now + ttl >= seen_clock(row) + SeenIdle + RevokedGrace
  BY <1>0, <1>1, TtlIs
<1>4. row # Absent => seen_clock(row) + SeenIdle + RevokedGrace \in Int
  BY <1>0, ClockIs, SweepAssumption
<1> HIDE DEF ttl
<1>5. /\ x \in Int /\ (row = Absent => x = Never)
      /\ row # Absent /\ live(row) /\ x # Never => x >= seen_clock(row) + SeenIdle + RevokedGrace
  BY <1>1, <1>3, <1>4 DEF Never
<1> HIDE DEF x
<1>6. /\ device'[l.id] = row /\ \A d \in Ids \ {l.id} : device'[d] = device[d]
      /\ device' \in [Ids -> Rows(plan.time) \cup {Absent}]
      /\ expiry' \in [Ids -> Int] /\ expiry'[l.id] = x /\ \A d \in Ids \ {l.id} : expiry'[d] = expiry[d]
  BY <1>0, <1>2, <1>5
<1>7. \A y \in Callers \ {c} : record'.ending[y] = record.ending[y] \ Back(l, row)
  BY <1>0 DEF Notes, Settled
<1> QED BY <1>0, <1>5, <1>6, <1>7 DEF Landed, Notes, Settled

(* The write a call makes, and the row it finds. *)
LEMMA LandsAs ==
    ASSUME DevicesInv, NEW c, NEW l, NEW row, NEW m, NEW n, Lands(c, l, row, m, n)
    PROVE  /\ l.op.kind \in {"sight", "claim", "promote", "set", "bindings", "save", "sweep", "delete"}
           /\ device[l.id] = l.was /\ l.id \in Ids /\ Edits(l, l.was, row)
           /\ (l.role.kind = "sweep") <=> (l.op.kind = "sweep")
           /\ ~live(l.was) => row = Absent \/ l.op.kind \in {"set", "save"}
           /\ l.op.kind = "claim" => l.role.user # NoUser
           /\ Binds(l) /\ Place(l) \in Writing
<1>0. c \in DOMAIN call /\ l = call[c] /\ l.pc = "cas" /\ l.pc \in Writing /\ Edits(l, l.was, row) /\ device[l.id] = l.was
  BY DEF Lands, Writing
<1>1. /\ l.id \in Ids /\ l.role.kind \in Writers(l.op) /\ l.op \in Op(plan.time) /\ Place(l) = l.pc
      /\ (l.role.kind = "sweep") <=> (l.op.kind = "sweep")
  BY <1>0, WriterIs
<1>2. l.op.kind \in {"sight", "claim", "promote", "set", "bindings", "save", "sweep", "delete"}
  BY <1>1 DEF Op, Writers
<1>3. ~live(l.was) => row = Absent \/ l.op.kind \in {"set", "save"} BY <1>0, <1>2 DEF Edits
<1>4. (l.op.kind = "claim" => l.role.user # NoUser) /\ Binds(l) BY <1>0, <1>1, CallIs DEF Sound, Placed
<1> QED BY <1>0, <1>1, <1>2, <1>3, <1>4

LEMMA LandsKnown ==
    ASSUME DevicesInv, NEW c, NEW l, NEW row, NEW m, NEW n, Lands(c, l, row, m, n)
    PROVE  KnownRows' /\ KnownHistory'
<1>0. Landed(c, l, row) /\ l.id \in Ids BY LandsOn DEF Lands
<1>1. Known \subseteq Known' /\ l.id \in Known' BY LandsLeaves DEF Leaves
<1>2. guard' = guard /\ cached' = cached /\ c \in Callers BY DEF Lands
<1>3. KnownRows' BY <1>0, <1>1, <1>2 DEF KnownRows, Landed, DevicesInv
<1>4. /\ DOMAIN record'.ended \subseteq DOMAIN record.ended \cup {l.id}
      /\ DOMAIN record'.born \subseteq DOMAIN record.born
  BY <1>0 DEF Landed, EndedBy, BornBy, Put, Restrict
<1>5. ASSUME NEW b \in record'.bound PROVE b[1] \in Known'
  <2>1. b \in record.bound \/ b[1] = l.id BY <1>0, <1>5 DEF Landed, BoundBy, Bound
  <2> QED BY <1>1, <2>1 DEF DevicesInv, KnownHistory
<1>6. record'.saved \subseteq record.saved \cup {l.id} BY <1>0 DEF Landed, SavedBy
<1>7. \A x \in Callers : record'.barred[x] \subseteq record.barred[x] BY <1>0 DEF Landed
<1>8. /\ record'.gone \subseteq record.gone \cup record.ending[c] \cup {l.id}
      /\ record'.ending[c] \subseteq record.ending[c] \cup {l.id}
  <2>1. n.gone \subseteq record.gone /\ n.ending[c] \subseteq record.ending[c] \cup {l.id}
    BY DEF Lands, Notes, Ends
  <2>2. Settled(c, m, n, record') BY DEF Lands
  <2> QED BY <2>1, <2>2 DEF Settled
<1>9. \A x \in Callers \ {c} : record'.ending[x] \subseteq record.ending[x] BY <1>0 DEF Landed
<1>10. KnownHistory' BY <1>1, <1>2, <1>4, <1>5, <1>6, <1>7, <1>8, <1>9 DEF KnownHistory, DevicesInv
<1> QED BY <1>3, <1>10

LEMMA LandsFrozen ==
    ASSUME DevicesInv, NEW c, NEW l, NEW row, NEW m, NEW n, Lands(c, l, row, m, n)
    PROVE  Frozen'
<1> SUFFICES ASSUME NEW d \in DOMAIN record'.ended
             PROVE  device'[d] = record'.ended[d] /\ ~live(device'[d]) /\ device'[d] # Absent
  BY DEF Frozen
<1>0. Landed(c, l, row) BY LandsOn
<1>1. /\ device[l.id] = l.was /\ l.id \in Ids /\ Edits(l, l.was, row)
      /\ ~live(l.was) => row = Absent \/ l.op.kind \in {"set", "save"}
  BY LandsAs
<1>2. DOMAIN record.ended \subseteq Ids /\ Frozen BY IdsOf DEF DevicesInv, KnownHistory, RowsInv
<1>3. record'.ended = EndedBy(record, l, row) /\ device'[l.id] = row /\ \A x \in Ids \ {l.id} : device'[x] = device[x]
  BY <1>0 DEF Landed
<1>4. CASE d # l.id
  <2>1. d \in DOMAIN record.ended /\ record'.ended[d] = record.ended[d]
    BY <1>3, <1>4 DEF EndedBy, Put, Restrict
  <2> QED BY <1>2, <1>3, <1>4, <2>1 DEF Frozen
<1>5. CASE d = l.id /\ Revokes(l, row)
  <2>1. record'.ended[d] = row BY <1>3, <1>5 DEF EndedBy, Put
  <2> QED BY <1>3, <1>5, <2>1 DEF Revokes, live
<1>6. CASE d = l.id /\ ~Revokes(l, row)
  <2>1. ~Frees(l, row) BY <1>3, <1>6, RestrictIs DEF EndedBy
  <2>2. record'.ended = record.ended BY <1>3, <1>6, <2>1 DEF EndedBy
  <2>3. l.was = record.ended[d] /\ ~live(l.was) /\ l.was # Absent BY <1>1, <1>2, <1>6, <2>2 DEF Frozen
  <2>4. row = l.was BY <1>1, <2>1, <2>3 DEF Edits, Frees
  <2> QED BY <1>3, <1>6, <2>2, <2>3, <2>4
<1> QED BY <1>4, <1>5, <1>6

LEMMA LandsSighted ==
    ASSUME DevicesInv, NEW c, NEW l, NEW row, NEW m, NEW n, Lands(c, l, row, m, n)
    PROVE  Sighted' /\ RetentionFair'
<1>0. Landed(c, l, row) BY LandsOn
<1>1. device[l.id] = l.was /\ l.id \in Ids /\ Edits(l, l.was, row) BY LandsAs
<1>2. Sighted /\ record.early = {} BY DEF DevicesInv, RowsInv, RetentionFair
<1>3. Sighted' BY <1>0, <1>1, <1>2 DEF Sighted, Landed, SightedBy
<1>4. record'.early = {}
  <2> SUFFICES ASSUME l.op.kind = "sweep", Revokes(l, row), l.now - record.sighted[l.id] <= SeenIdle PROVE FALSE
    BY <1>0, <1>2 DEF Landed, EarlyBy
  <2>1. row # Absent /\ ~live(row) BY DEF Revokes, live
  <2>2. live(l.was) /\ l.now - seen_clock(l.was) > SeenIdle BY <1>1, <2>1 DEF Edits
  <2>3. record.sighted[l.id] = seen_clock(l.was) BY <1>1, <1>2, <2>2 DEF Sighted, live
  <2>4. l.was \in Rows(plan.time) BY <2>2 DEF Lands, live
  <2>5. seen_clock(l.was) \in Int BY <2>4, ClockIs
  <2>6. l.now \in Nat BY CallIs DEF Lands
  <2>7. SeenIdle \in Nat BY SweepAssumption
  <2> QED BY <2>2, <2>3, <2>5, <2>6, <2>7
<1> QED BY <1>3, <1>4 DEF RetentionFair

LEMMA LandsBound ==
    ASSUME DevicesInv, NEW c, NEW l, NEW row, NEW m, NEW n, Lands(c, l, row, m, n)
    PROVE  BindingsKept'
<1> SUFFICES ASSUME NEW b \in record'.bound, device'[b[1]] # Absent PROVE HasBinding(device'[b[1]], b[2])
  BY DEF BindingsKept
<1>0. /\ record'.bound = BoundBy(record, l, row) /\ device'[l.id] = row /\ \A x \in Ids \ {l.id} : device'[x] = device[x]
  BY LandsOn DEF Landed
<1>1. /\ device[l.id] = l.was /\ l.id \in Ids /\ Edits(l, l.was, row) /\ Binds(l) /\ Place(l) \in Writing
  BY LandsAs
<1>2. BindingsKept /\ \A x \in record.bound : x[1] \in Ids BY IdsOf DEF DevicesInv, RowsInv, KnownHistory
<1>3. CASE b \in Bound(l)
  <2>1. l.op.kind = "bindings" /\ b = <<l.id, l.role.cred>> BY <1>3 DEF Bound
  <2>2. b[1] = l.id /\ b[2] = l.role.cred BY <2>1
  <2>3. row.bindings = l.op.bindings BY <1>0, <1>1, <2>1, <2>2 DEF Edits
  <2>4. PICK x \in l.op.bindings : x.cred = l.role.cred BY <1>1, <2>1 DEF Binds
  <2> QED BY <1>0, <2>2, <2>3, <2>4 DEF HasBinding
<1>4. CASE b \in record.bound /\ b[1] # l.id
  <2>1. device'[b[1]] = device[b[1]] BY <1>0, <1>2, <1>4
  <2> QED BY <1>2, <1>4, <2>1 DEF BindingsKept
<1>5. CASE b \in record.bound /\ b[1] = l.id /\ b \notin Bound(l)
  <2>1. row # Absent /\ l.op.kind # "save" BY <1>0, <1>5 DEF BoundBy
  <2>2. l.was # Absent BY <1>1, <2>1 DEF Edits
  <2>3. HasBinding(l.was, b[2]) BY <1>1, <1>2, <1>5, <2>2 DEF BindingsKept
  <2>4. PICK x \in l.was.bindings : x.cred = b[2] BY <2>3 DEF HasBinding
  <2>5. \E y \in row.bindings : y.cred = b[2]
    <3>1. CASE l.op.kind = "bindings"
      <4>1. l.was.bindings = l.op.expected /\ row.bindings = l.op.bindings BY <1>1, <2>1, <3>1 DEF Edits
      <4> QED BY <1>1, <2>4, <3>1, <4>1 DEF Binds
    <3>2. CASE l.op.kind # "bindings" BY <1>1, <2>1, <2>4, <3>2 DEF Edits
    <3> QED BY <3>1, <3>2
  <2> QED BY <1>0, <1>5, <2>5 DEF HasBinding
<1> QED BY <1>0, <1>3, <1>4, <1>5 DEF BoundBy

LEMMA LandsListed ==
    ASSUME DevicesInv, NEW c, NEW l, NEW row, NEW m, NEW n, Lands(c, l, row, m, n)
    PROVE  Listed' /\ index' \in [tenant : SUBSET Ids, fp : SUBSET Ids, own : [Users -> SUBSET Ids]]
<1>0. /\ record'.unlisted = record.unlisted \ {l.id} /\ device'[l.id] = row /\ \A x \in Ids \ {l.id} : device'[x] = device[x]
      /\ device' \in [Ids -> Rows(plan.time) \cup {Absent}]
  BY LandsOn DEF Landed
<1>1. l.id \in Ids /\ Typed /\ Listed BY DEF Lands, DevicesInv, RowsInv
<1>2. /\ index' \in [tenant : SUBSET Ids, fp : SUBSET Ids, own : [Users -> SUBSET Ids]]
      /\ index.fp \ {l.id} \subseteq index'.fp /\ index.tenant \ {l.id} \subseteq index'.tenant
      /\ \A u \in Users : index.own[u] \ {l.id} \subseteq index'.own[u]
      /\ row # Absent => /\ l.id \in index'.fp /\ l.id \in index'.tenant
                         /\ \A u \in Users : row.user = u => l.id \in index'.own[u]
  <2>1. CASE row = Absent
    <3>1. index' = Delisted(l.id, l.was) BY <2>1 DEF Lands
    <3> QED BY <1>1, <2>1, <3>1, DelistedIs
  <2>2. CASE row # Absent
    <3>1. index' = Indexed(l.id, l.was, row) BY <2>2 DEF Lands
    <3> QED BY <1>1, <2>2, <3>1, IndexedIs
  <2> QED BY <2>1, <2>2
<1>3. \A d \in Ids : device'[d] # Absent => device'[d] \in Rows(plan.time) BY <1>0
<1>4. \A d \in Ids : device'[d] # Absent /\ device'[d].user # NoUser => device'[d].user \in Users
  BY <1>3 DEF Rows, DeviceRow, Owners
<1>5. Listed' BY <1>0, <1>1, <1>2, <1>4 DEF Listed
<1> QED BY <1>2, <1>5

(* A write makes no rival of the devices that were inserted. *)
LEMMA LandsRivals ==
    ASSUME DevicesInv, NEW c, NEW l, NEW row, NEW m, NEW n, Lands(c, l, row, m, n),
           NEW e, NEW u, Rival(u, e, device', record'.born)
    PROVE  Rival(u, e, device, record.born)
<1>0. record'.born = BornBy(record, l, row) /\ device'[l.id] = row /\ \A x \in Ids \ {l.id} : device'[x] = device[x]
  BY LandsOn DEF Landed
<1>1. /\ device[l.id] = l.was /\ l.id \in Ids /\ Edits(l, l.was, row)
      /\ ~live(l.was) => row = Absent \/ l.op.kind \in {"set", "save"}
      /\ l.op.kind = "claim" => l.role.user # NoUser
  BY LandsAs
<1>2. BornOwned /\ DOMAIN record.born \subseteq Ids BY IdsOf DEF DevicesInv, KeyInv, KnownHistory
<1>3. e \in DOMAIN record'.born /\ record'.born[e] = u /\ live(device'[e]) /\ device'[e].user = u
  BY DEF Rival, shares_create_key
<1>4. e \in DOMAIN record.born /\ record.born[e] = u BY <1>0, <1>3 DEF BornBy, Restrict
<1>5. CASE e # l.id
  <2>1. device'[e] = device[e] BY <1>0, <1>2, <1>4, <1>5
  <2> QED BY <1>3, <1>4, <2>1 DEF Rival, shares_create_key
<1>6. CASE e = l.id
  <2>1. l.op.kind # "save" /\ (Frees(l, row) => l.was = Absent) BY <1>0, <1>3, <1>6 DEF BornBy, Restrict
  <2>2. l.was # Absent /\ (u = NoUser \/ l.was.user = u) BY <1>1, <1>2, <1>4, <1>6 DEF BornOwned
  <2>3. live(row) /\ row # Absent /\ row.user = u BY <1>0, <1>3, <1>6 DEF live
  <2>4. live(l.was) BY <1>1, <2>1, <2>2, <2>3 DEF Frees
  <2>5. l.was.user = u BY <1>1, <2>1, <2>2, <2>3 DEF Edits
  <2> QED BY <1>1, <1>4, <1>6, <2>4, <2>5 DEF Rival, shares_create_key
<1> QED BY <1>5, <1>6

LEMMA LandsKeys ==
    ASSUME DevicesInv, NEW c, NEW l, NEW row, NEW m, NEW n, Lands(c, l, row, m, n)
    PROVE  KeyInv'
<1>0. record'.born = BornBy(record, l, row) /\ device'[l.id] = row /\ \A x \in Ids \ {l.id} : device'[x] = device[x]
  BY LandsOn DEF Landed
<1>1. device[l.id] = l.was /\ l.id \in Ids /\ Edits(l, l.was, row) BY LandsAs
<1>2. /\ BornOwned /\ OneLivePerKey /\ Searches /\ Typed /\ DOMAIN record.born \subseteq Ids
  BY IdsOf DEF DevicesInv, KeyInv, KnownHistory
<1>3. BornOwned'
  <2> SUFFICES ASSUME NEW e \in DOMAIN record'.born
               PROVE  device'[e] # Absent /\ (record'.born[e] = NoUser \/ device'[e].user = record'.born[e])
    BY DEF BornOwned
  <2>1. e \in DOMAIN record.born /\ record'.born[e] = record.born[e] BY <1>0 DEF BornBy, Restrict
  <2>2. device[e] # Absent /\ (record.born[e] = NoUser \/ device[e].user = record.born[e]) BY <1>2, <2>1 DEF BornOwned
  <2>3. CASE e # l.id
    <3>1. device'[e] = device[e] BY <1>0, <1>2, <2>1, <2>3
    <3> QED BY <2>1, <2>2, <3>1
  <2>4. CASE e = l.id
    <3>1. l.op.kind # "save" /\ ~Frees(l, row) BY <1>0, <1>1, <2>2, <2>4 DEF BornBy, Restrict
    <3>2. row # Absent BY <3>1 DEF Frees
    <3>3. row.user = l.was.user \/ l.was.user = NoUser BY <1>1, <3>1, <3>2 DEF Edits
    <3> QED BY <1>0, <1>1, <2>1, <2>2, <2>4, <3>2, <3>3
  <2> QED BY <2>3, <2>4
<1>4. OneLivePerKey'
  <2> SUFFICES ASSUME NEW d \in DOMAIN record'.born, NEW e \in DOMAIN record'.born, d # e, record'.born[d] = record'.born[e],
                      AllRead(record'.born[d]), shares_create_key(device'[d], record'.born[d]), shares_create_key(device'[e], record'.born[e])
               PROVE  FALSE
    BY DEF OneLivePerKey
  <2> DEFINE u == record'.born[d]
  <2>1. Rival(u, d, device', record'.born) /\ Rival(u, e, device', record'.born) BY DEF Rival
  <2> HIDE DEF u
  <2>2. Rival(u, d, device, record.born) /\ Rival(u, e, device, record.born) BY <2>1, LandsRivals
  <2> QED BY <1>2, <2>2 DEF OneLivePerKey, Rival
<1>5. Searches'
  <2> SUFFICES ASSUME NEW x \in DOMAIN call' PROVE Keyed(call'[x], guard', time', device', record'.born)
    BY DEF Searches
  <2>0. Turn(c, m) /\ guard' = guard /\ time' = time BY DEF Lands
  <2>1. CASE x = c
    <3>1. ~Making(m) BY LandsLeaves DEF Leaves
    <3> QED BY <1>2, <2>0, <2>1, <3>1, TurnIs, NotSearching
  <2>2. CASE x # c
    <3>1. x \in DOMAIN call /\ call'[x] = call[x] BY <1>2, <2>0, <2>2, TurnIs
    <3>2. Keyed(call[x], guard, time, device, record.born) BY <1>2, <3>1 DEF Searches
    <3>3. \A e \in Ids : Rival(call[x].role.user, e, device', record'.born) => Rival(call[x].role.user, e, device, record.born)
      BY LandsRivals
    <3>4. Keyed(call[x], guard, time, device', record'.born) BY <3>2, <3>3 DEF Keyed
    <3> QED BY <2>0, <3>1, <3>4
  <2> QED BY <2>1, <2>2
<1> QED BY <1>3, <1>4, <1>5 DEF KeyInv

(* A device that is not live comes back only on purpose. *)
LEMMA LandsOut ==
    ASSUME DevicesInv, NEW c, NEW l, NEW row, NEW m, NEW n, Lands(c, l, row, m, n),
           NEW d \in Ids, ~live(device[d]), d \notin Back(l, row)
    PROVE  ~live(device'[d])
<1>0. device'[l.id] = row /\ \A x \in Ids \ {l.id} : device'[x] = device[x] BY LandsOn DEF Landed
<1>1. /\ device[l.id] = l.was
      /\ ~live(l.was) => row = Absent \/ l.op.kind \in {"set", "save"}
  BY LandsAs
<1> QED BY <1>0, <1>1 DEF Back, live

LEMMA LandsCache ==
    ASSUME DevicesInv, NEW c, NEW l, NEW row, NEW m, NEW n, Lands(c, l, row, m, n)
    PROVE  CacheInv'
<1>0. /\ Typed /\ CacheInv /\ Turn(c, m) /\ plan' = plan /\ cached' = cached /\ loading' = loading
      /\ c \in DOMAIN call /\ c \in Callers /\ l = call[c] /\ l.pc = "cas"
      /\ Notes(record, c, l, row, n) /\ Settled(c, m, n, record')
  BY DEF Lands, DevicesInv
<1>1. /\ DOMAIN call' = DOMAIN call /\ call'[c] = m /\ \A x \in DOMAIN call \ {c} : call'[x] = call[x]
  BY <1>0, TurnIs
<1>2. Landed(c, l, row) /\ Leaves(c, l, row, m) BY LandsOn, LandsLeaves
<1>3. \A d \in Ids : \A y \in loading[d] : y \in DOMAIN call \ {c} BY <1>0 DEF CacheInv, Loads1
<1>4. Loads1' BY <1>0, <1>1, <1>3 DEF CacheInv, Loads1
<1>5. Uncached' BY <1>0, <1>1, <1>2 DEF CacheInv, Uncached, Leaves
<1>6. CachedOwn'
  <2> SUFFICES ASSUME NEW d \in Ids, cached[d] # Absent, cached[d].user # NoUser
               PROVE  OwnerIs(d, cached[d].user, device', record'.saved)
    BY <1>0 DEF CachedOwn, Belongs
  <2>1. d \in Known BY DEF DevicesInv, KnownRows
  <2>2. cached[d] \in Rows(plan.time) BY <1>0 DEF Typed
  <2>3. cached[d].user \in Users BY <2>2 DEF Rows, DeviceRow, Owners
  <2>4. OwnerIs(d, cached[d].user, device, record.saved) BY <1>0 DEF CacheInv, CachedOwn, Belongs
  <2>5. OwnersKept(Known, device, record.saved, device', record'.saved) BY LandsOwners
  <2> QED BY <2>1, <2>3, <2>4, <2>5 DEF OwnersKept
<1>7. ASSUME NEW d \in Ids, Out(d), d \notin Back(l, row) PROVE Out(d)'
  <2>1. ~live(device'[d]) BY <1>7, LandsOut DEF Out
  <2>2. \A y \in loading[d] : call'[y] = call[y] BY <1>1, <1>3
  <2> QED BY <1>0, <1>7, <2>1, <2>2 DEF Out
<1>8. \A d \in record.ending[c] : d \in Ids /\ EndsOf(c, d) BY <1>0, IdsOf DEF CacheInv, EndsHold
<1>9. ASSUME NEW d \in n.ending[c]
      PROVE  /\ d \in Ids /\ ~live(device'[d]) /\ l.role.kind # "ensure"
             /\ plan.cached => l.role.kind = "sweep" \/ (l.op.kind \in {"set", "delete", "save"} /\ d = l.id)
  <2>1. d \in record.ending[c] \ Back(l, row) \/ d \in Ends(l, row) BY <1>0, <1>9 DEF Notes
  <2>2. CASE d \in record.ending[c] \ Back(l, row)
    <3>1. ~live(device[d]) /\ l.role.kind # "ensure" /\ (plan.cached => l.role.kind = "sweep") BY <1>0, <1>8, <2>2 DEF EndsOf
    <3> QED BY <1>8, <2>2, <3>1, LandsOut
  <2>3. CASE d \in Ends(l, row)
    <3>1. d = l.id /\ ~live(row) BY <2>3 DEF Ends, live
    <3>2. /\ l.op.kind \in {"sight", "claim", "promote", "set", "bindings", "save", "sweep", "delete"}
          /\ l.id \in Ids /\ Edits(l, l.was, row)
          /\ (l.role.kind = "sweep") <=> (l.op.kind = "sweep")
      BY LandsAs
    <3>3. l.op.kind \in {"set", "delete", "save"} \/ l.role.kind = "sweep" BY <3>1, <3>2 DEF Edits
    <3>4. l.role.kind # "ensure" BY <3>3 DEF Lands, Writers
    <3> QED BY <1>2, <3>1, <3>2, <3>3, <3>4 DEF Landed
  <2> QED BY <2>1, <2>2, <2>3
<1>10. OutHolds'
  <2>1. \A x \in Callers : \A d \in record'.barred[x] : Out(d)'
    BY <1>0, <1>2, <1>7, IdsOf DEF CacheInv, OutHolds, Landed
  <2>2. ASSUME NEW d \in record'.gone PROVE Out(d)'
    <3>1. CASE d \in n.gone BY <1>0, <1>7, <3>1, IdsOf DEF Notes, CacheInv, OutHolds
    <3>2. CASE d \in n.ending[c] /\ m.pc = "done"
      <4>1. ~plan.cached BY <1>2, <1>9, <3>2 DEF Leaves
      <4>2. d \in Ids /\ cached[d] = Absent /\ loading[d] = {} BY <1>0, <1>9, <3>2, <4>1 DEF CacheInv, Uncached
      <4> QED BY <1>0, <1>9, <3>2, <4>2 DEF Out, live
    <3> QED BY <1>0, <2>2, <3>1, <3>2 DEF Settled
  <2> QED BY <2>1, <2>2 DEF OutHolds
<1>11. EndsHold'
  <2> SUFFICES ASSUME NEW x \in Callers, NEW d \in record'.ending[x] PROVE EndsOf(x, d)' BY DEF EndsHold
  <2>1. CASE x # c
    <3>1. d \in record.ending[x] /\ d \notin Back(l, row) BY <1>2, <2>1 DEF Landed
    <3>2. EndsOf(x, d) /\ d \in Ids BY <1>0, <3>1, IdsOf DEF CacheInv, EndsHold
    <3>3. ~live(device'[d]) BY <3>1, <3>2, LandsOut DEF EndsOf
    <3> QED BY <1>0, <1>1, <2>1, <3>2, <3>3 DEF EndsOf
  <2>2. CASE x = c
    <3>1. m.pc # "done" /\ d \in n.ending[c] BY <1>0, <2>2 DEF Settled
    <3>2. plan.cached => IF m.pc = "drop" THEN m.next = "done" /\ d \in m.stale ELSE m.role.kind = "sweep"
      BY <1>2, <1>9, <3>1 DEF Leaves
    <3>3. m.role.kind # "ensure" BY <1>2, <1>9, <3>1 DEF Leaves
    <3> QED BY <1>0, <1>1, <1>9, <2>2, <3>1, <3>2, <3>3 DEF EndsOf
  <2> QED BY <2>1, <2>2
<1> QED BY <1>4, <1>5, <1>6, <1>10, <1>11 DEF CacheInv

LEMMA LandsKeeps ==
    ASSUME DevicesInv, NEW c, NEW l, NEW row, NEW m, NEW n, Lands(c, l, row, m, n)
    PROVE  DevicesInv'
<1>0. /\ Typed /\ Calls /\ Apart /\ Turn(c, m) /\ plan' = plan /\ minted' = minted /\ time' = time /\ guard' = guard
      /\ cached' = cached /\ loading' = loading
  BY DEF Lands, DevicesInv
<1>1. /\ DOMAIN call' = DOMAIN call /\ call' = [x \in DOMAIN call' |-> call'[x]] BY <1>0, TurnIs
<1>2. Landed(c, l, row) /\ Leaves(c, l, row, m) BY LandsOn, LandsLeaves
<1>3. index' \in [tenant : SUBSET Ids, fp : SUBSET Ids, own : [Users -> SUBSET Ids]] /\ Listed' BY LandsListed
<1>4. Typed' BY <1>0, <1>1, <1>2, <1>3 DEF Typed, Landed
<1>5. Calls'
  <2>1. time \in Nat BY <1>0 DEF Typed, IsPlan
  <2>2. \A x \in Callers : record'.barred[x] \subseteq record.barred[x] BY <1>2 DEF Landed
  <2>3. OwnersKept(Known, device, record.saved, device', record'.saved) BY LandsOwners
  <2> QED BY <1>0, <1>2, <2>1, <2>2, <2>3, TurnCalls DEF Leaves
<1>6. Apart' BY <1>0, <1>2, TurnApart DEF Leaves
<1>7. RowsInv' BY <1>3, LandsFrozen, LandsSighted, LandsBound DEF RowsInv
<1> QED BY <1>4, <1>5, <1>6, <1>7, LandsKnown, LandsKeys, LandsCache DEF DevicesInv

LEMMA CasKeeps ==
    ASSUME DevicesInv, NEW c \in DOMAIN call, cas(c)
    PROVE  DevicesInv'
<1> DEFINE l == call[c]
<1>0. l.pc = "cas" BY DEF cas
<1>1. CASE device[l.id] = l.was
  <2>1. Writes(c, l) BY <1>1 DEF cas
  <2>2. Lands(c, l, l.new.row, Landing(l, l.new.row), Noting(record, c, l, l.new.row)) BY <1>0, <1>1, <2>1, LandsIs
  <2> QED BY <2>2, LandsKeeps
<1>2. CASE device[l.id] # l.was /\ device[l.id] = Absent /\ l.op.kind # "save"
  <2>1. Misses(c, l) BY <1>2 DEF cas
  <2> QED BY <1>0, <1>2, <2>1, MissesKeeps
<1>3. CASE device[l.id] # l.was /\ ~(device[l.id] = Absent /\ l.op.kind # "save")
  <2>1. Locally(c, Retries(l, "get")) /\ UNCHANGED cacheVars BY <1>3 DEF cas
  <2> QED BY <1>0, <2>1, RetryKeeps
<1> QED BY <1>1, <1>2, <1>3

-----------------------------------------------------------------------------
(* A device that is inserted: row, by call c with locals l, under the guard *)
(* g.                                                                      *)
Inserted(c, l, row, g, m) ==
    /\ c \in DOMAIN call /\ c \in Callers /\ l = call[c] /\ l.pc = "insert" /\ l \in Call(plan.time)
    /\ l.role.kind = "ensure" /\ l.stage = "key" /\ l.id \in Ids /\ l.id \notin Known /\ Making(l) /\ l.role.user \in Owners
    /\ device[l.id] = Absent
    /\ row \in Rows(plan.time) /\ row # Absent /\ row.user = l.role.user /\ row.level = "Unknown" /\ row.seen = l.now
    /\ device'[l.id] = row /\ \A d \in Ids \ {l.id} : device'[d] = device[d]
    /\ device' \in [Ids -> Rows(plan.time) \cup {Absent}]
    /\ g \in Guard /\ g # NoGuard /\ g.id = l.id /\ g.until = time + GuardTtl
    /\ guard' \in [Owners -> Guard \cup {NoGuard}] /\ guard'[l.role.user] = g
    /\ \A o \in Owners \ {l.role.user} : guard'[o] = guard[o]
    /\ index' = Indexed(l.id, Absent, row)
    /\ Turn(c, m) /\ m = Serves(l)
    /\ RecordOK(record')
    /\ record'.ended = record.ended /\ record'.gone = record.gone /\ record'.ending = record.ending
    /\ record'.barred = record.barred /\ record'.bound = record.bound /\ record'.saved = record.saved
    /\ record'.unlisted = record.unlisted /\ record'.early = record.early
    /\ record'.sighted[l.id] = l.now /\ \A d \in Ids \ {l.id} : record'.sighted[d] = record.sighted[d]
    /\ DOMAIN record'.born = DOMAIN record.born \cup {l.id} /\ record'.born[l.id] = l.role.user
    /\ \A d \in DOMAIN record.born \ {l.id} : record'.born[d] = record.born[d]
    /\ UNCHANGED <<expiry, cached, loading, minted, time, plan>>
    /\ \A e \in Ids : ~Rival(l.role.user, e, device, record.born)

LEMMA InsertsIs ==
    ASSUME DevicesInv, NEW c \in DOMAIN call, call[c].pc = "insert", time - call[c].at <= ReadMaxAge,
           guard[call[c].role.user] = call[c].held, device[call[c].id] = Absent, Inserts(c, call[c])
    PROVE  LET l == call[c]
           IN  Inserted(c, l, NewRow(l.role.user, l.now, {}),
                        [gen |-> IF l.held = NoGuard THEN 1 ELSE l.held.gen + 1, id |-> l.id, until |-> time + GuardTtl],
                        Serves(l))
<1> DEFINE l == call[c]
           u == l.role.user
           row == NewRow(u, l.now, {})
           g == [gen |-> IF l.held = NoGuard THEN 1 ELSE l.held.gen + 1, id |-> l.id, until |-> time + GuardTtl]
           m == Serves(l)
<1>0. /\ c \in Callers /\ l \in Call(plan.time) /\ l.role \in Role /\ l.now \in Nat /\ time \in Nat /\ plan.time \in Nat
      /\ l.now \in 0 .. plan.time /\ l.held \in Guard \cup {NoGuard} /\ l.at \in Nat
  BY CallIs DEF Call, Locals
<1>1. l.role.kind = "ensure" /\ l.stage = "key" /\ l.id \in Ids /\ Making(l)
  BY CallIs DEF Sound, Placed, Place, Making, Makings
<1>2. l.id \notin Known BY <1>1 DEF Known
<1>3. u \in Owners BY <1>0, <1>1, RoleIs
<1>4. row \in Rows(plan.time) /\ row # Absent /\ row.user = u /\ row.level = "Unknown" /\ row.seen = l.now
  <2> HIDE DEF l, u
  <2> QED BY <1>0, <1>3, NewRowIs
<1>5. g \in Guard /\ g # NoGuard /\ g.id = l.id /\ g.until = time + GuardTtl
  <2> DEFINE k == IF l.held = NoGuard THEN 1 ELSE l.held.gen + 1
  <2>1. k \in Nat BY <1>0 DEF Guard
  <2>2. time + GuardTtl \in Nat BY <1>0, DevicesAssumption
  <2> HIDE DEF k, l
  <2>3. [gen |-> k, id |-> l.id, until |-> time + GuardTtl] \in Guard BY <1>1, <2>1, <2>2 DEF Guard
  <2> QED BY <2>3, DevicesAssumption DEF k
<1> HIDE DEF row, g
<1>6. /\ device' = [device EXCEPT ![l.id] = row] /\ device \in [Ids -> Rows(plan.time) \cup {Absent}]
      /\ guard' = [guard EXCEPT ![u] = g] /\ guard \in [Owners -> Guard \cup {NoGuard}]
      /\ index' = Indexed(l.id, Absent, row) /\ Turn(c, m)
      /\ UNCHANGED <<expiry, cached, loading, minted, time, plan>>
  BY DEF Inserts, DevicesInv, Typed, row, g, Turn, cacheVars
<1>7. /\ device'[l.id] = row /\ \A d \in Ids \ {l.id} : device'[d] = device[d]
      /\ device' \in [Ids -> Rows(plan.time) \cup {Absent}]
      /\ guard' \in [Owners -> Guard \cup {NoGuard}] /\ guard'[u] = g /\ \A o \in Owners \ {u} : guard'[o] = guard[o]
  BY <1>1, <1>3, <1>4, <1>5, <1>6
<1>8. /\ RecordOK(record')
      /\ record'.ended = record.ended /\ record'.gone = record.gone /\ record'.ending = record.ending
      /\ record'.barred = record.barred /\ record'.bound = record.bound /\ record'.saved = record.saved
      /\ record'.unlisted = record.unlisted /\ record'.early = record.early
      /\ record'.sighted[l.id] = l.now /\ \A d \in Ids \ {l.id} : record'.sighted[d] = record.sighted[d]
      /\ DOMAIN record'.born = DOMAIN record.born \cup {l.id} /\ record'.born[l.id] = u
      /\ \A d \in DOMAIN record.born \ {l.id} : record'.born[d] = record.born[d]
  <2> DEFINE b == Put(record.born, l.id, u)
             s == [record.sighted EXCEPT ![l.id] = l.now]
  <2>1. record' = [record EXCEPT !.born = Put(@, l.id, u), !.sighted[l.id] = l.now] BY DEF Inserts
  <2>2. RecordOK(record) BY DEF DevicesInv, Typed
  <2>3. record' = [record EXCEPT !.born = b, !.sighted = s] BY <2>1, <2>2 DEF RecordOK, Shaped
  <2>4. s \in [Ids -> Int] /\ s[l.id] = l.now /\ \A d \in Ids \ {l.id} : s[d] = record.sighted[d]
    BY <1>0, <1>1, <2>2 DEF RecordOK
  <2>5. DOMAIN b = DOMAIN record.born \cup {l.id} /\ b[l.id] = u /\ \A d \in DOMAIN record.born \ {l.id} : b[d] = record.born[d]
    BY DEF Put
  <2> HIDE DEF b, s
  <2>6. record' \in [ended : {record.ended}, gone : {record.gone}, ending : {record.ending}, barred : {record.barred}, born : {b},
             bound : {record.bound}, saved : {record.saved}, unlisted : {record.unlisted}, sighted : {s}, early : {record.early}]
    BY <2>2, <2>3 DEF RecordOK, Shaped
  <2>7. RecordOK(record') BY <2>2, <2>4, <2>6 DEF RecordOK, Shaped
  <2> QED BY <2>4, <2>5, <2>6, <2>7
<1>9. \A e \in Ids : ~Rival(u, e, device, record.born)
  <2>1. Searching(l) BY <1>1 DEF Searching
  <2>2. \A e \in Ids : ~Ahead(l, e) BY DEF Ahead
  <2>3. ~Passed(l, guard, time)
    <3>1. ReadMaxAge \in Nat /\ GuardTtl \in Nat /\ ReadMaxAge < GuardTtl BY DevicesAssumption
    <3>2. ~(time >= l.at + GuardTtl) BY <1>0, <3>1
    <3> QED BY <3>2 DEF Passed
  <2> QED BY <2>1, <2>2, <2>3, CallIs DEF Keyed
<1> HIDE DEF l, u, m
<1>10. Inserted(c, l, row, g, m)
  BY <1>0, <1>1, <1>2, <1>3, <1>4, <1>5, <1>6, <1>7, <1>8, <1>9 DEF Inserted, m, l, u
<1> QED BY <1>10 DEF l, row, g, m, u

LEMMA InsertedKeys ==
    ASSUME DevicesInv, NEW c, NEW l, NEW row, NEW g, NEW m, Inserted(c, l, row, g, m), ~Making(m)
    PROVE  KeyInv'
<1> DEFINE u == l.role.user
<1>0. /\ BornOwned /\ OneLivePerKey /\ Searches /\ Typed /\ DOMAIN record.born \subseteq Ids /\ DOMAIN record.born \subseteq Known
  BY IdsOf DEF DevicesInv, KeyInv, KnownHistory
<1>1. /\ Turn(c, m) /\ time' = time /\ l.id \in Ids /\ l.id \notin Known /\ u \in Owners
      /\ device'[l.id] = row /\ \A d \in Ids \ {l.id} : device'[d] = device[d]
      /\ DOMAIN record'.born = DOMAIN record.born \cup {l.id} /\ record'.born[l.id] = u
      /\ \A d \in DOMAIN record.born \ {l.id} : record'.born[d] = record.born[d]
      /\ row # Absent /\ row.user = u
      /\ \A e \in Ids : ~Rival(u, e, device, record.born)
  BY DEF Inserted
<1>2. \A e \in DOMAIN record.born : e \in Ids \ {l.id} /\ device'[e] = device[e] /\ record'.born[e] = record.born[e]
  BY <1>0, <1>1
<1>3. BornOwned' BY <1>0, <1>1, <1>2 DEF BornOwned
<1>4. ASSUME NEW e \in DOMAIN record.born, NEW x, Rival(x, e, device', record'.born) PROVE Rival(x, e, device, record.born)
  BY <1>2, <1>4 DEF Rival
<1>5. OneLivePerKey'
  <2> SUFFICES ASSUME NEW d \in DOMAIN record'.born, NEW e \in DOMAIN record'.born, d # e, record'.born[d] = record'.born[e],
                      AllRead(record'.born[d]), shares_create_key(device'[d], record'.born[d]), shares_create_key(device'[e], record'.born[e])
               PROVE  FALSE
    BY DEF OneLivePerKey
  <2> DEFINE x == record'.born[d]
  <2>1. Rival(x, d, device', record'.born) /\ Rival(x, e, device', record'.born) BY DEF Rival
  <2>2. CASE d \in DOMAIN record.born /\ e \in DOMAIN record.born
    <3>1. Rival(x, d, device, record.born) /\ Rival(x, e, device, record.born) BY <1>4, <2>1, <2>2
    <3> QED BY <1>0, <3>1 DEF OneLivePerKey, Rival
  <2>3. CASE d = l.id
    <3>1. e \in DOMAIN record.born /\ x = u BY <1>1, <2>3
    <3>2. Rival(u, e, device, record.born) BY <1>4, <2>1, <3>1
    <3> QED BY <1>0, <1>1, <3>1, <3>2
  <2>4. CASE e = l.id
    <3>1. d \in DOMAIN record.born /\ x = u BY <1>1, <2>4
    <3>2. Rival(u, d, device, record.born) BY <1>4, <2>1, <3>1
    <3> QED BY <1>0, <1>1, <3>1, <3>2
  <2> QED BY <1>1, <2>2, <2>3, <2>4
<1>6. Searches'
  <2> SUFFICES ASSUME NEW x \in DOMAIN call' PROVE Keyed(call'[x], guard', time', device', record'.born)
    BY DEF Searches
  <2>1. CASE x = c BY <1>0, <1>1, <2>1, TurnIs, NotSearching
  <2>2. CASE x # c
    <3> DEFINE k == call[x]
    <3>1. x \in DOMAIN call /\ call'[x] = k BY <1>0, <1>1, <2>2, TurnIs
    <3>2. /\ Keyed(k, guard, time, device, record.born) /\ Holds(k, Known) /\ k \in Call(plan.time) /\ k.role \in Role
          /\ k.at \in Nat /\ time \in Nat
      BY <3>1, CallIs DEF Call, Locals
    <3> HIDE DEF k
    <3>3. CASE Searching(k) /\ k.role.user = u
      <4>1. k.at <= time BY <3>2, <3>3 DEF Keyed
      <4>2. guard'[u] = g /\ g # NoGuard /\ g.id = l.id /\ g.until = time + GuardTtl BY DEF Inserted
      <4>3. GuardTtl \in Nat BY DevicesAssumption
      <4>4. g.until >= k.at + GuardTtl BY <3>2, <4>1, <4>2, <4>3
      <4>5. k.held # NoGuard => k.held # g BY <1>1, <3>2, <4>2 DEF Holds
      <4>6. Passed(k, guard', time) BY <3>3, <4>2, <4>4, <4>5 DEF Passed
      <4> QED BY <1>1, <3>1, <4>1, <4>6 DEF Keyed
    <3>4. CASE Searching(k) /\ k.role.user # u
      <4>1. k.role.user \in Owners BY <3>2, <3>4, RoleIs DEF Searching
      <4>2. guard'[k.role.user] = guard[k.role.user] BY <3>4, <4>1 DEF Inserted
      <4>3. Passed(k, guard, time) => Passed(k, guard', time) BY <4>2 DEF Passed
      <4>4. ASSUME NEW e \in Ids, Rival(k.role.user, e, device', record'.born) PROVE Rival(k.role.user, e, device, record.born)
        <5>1. e # l.id BY <1>1, <3>4, <4>4 DEF Rival
        <5>2. e \in DOMAIN record.born BY <1>1, <4>4, <5>1 DEF Rival
        <5> QED BY <1>4, <4>4, <5>2
      <4>5. Keyed(k, guard', time, device', record'.born) BY <3>2, <4>3, <4>4 DEF Keyed
      <4> QED BY <1>1, <3>1, <4>5
    <3>5. CASE ~Searching(k) BY <3>1, <3>5 DEF Keyed
    <3> QED BY <3>3, <3>4, <3>5
  <2> QED BY <2>1, <2>2
<1> QED BY <1>3, <1>5, <1>6 DEF KeyInv

LEMMA InsertedKeeps ==
    ASSUME DevicesInv, NEW c, NEW l, NEW row, NEW g, NEW m, Inserted(c, l, row, g, m)
    PROVE  DevicesInv'
<1>0. /\ Typed /\ Calls /\ Apart /\ KnownRows /\ KnownHistory /\ RowsInv /\ CacheInv
      /\ Turn(c, m) /\ plan' = plan /\ minted' = minted /\ time' = time /\ cached' = cached /\ loading' = loading
      /\ expiry' = expiry /\ c \in DOMAIN call /\ c \in Callers /\ l = call[c] /\ l.pc = "insert" /\ l.role.kind = "ensure"
      /\ l.id \in Ids /\ l.id \notin Known /\ Making(l) /\ l.role.user \in Owners /\ l \in Call(plan.time)
      /\ device[l.id] = Absent
      /\ row # Absent /\ row \in Rows(plan.time) /\ row.user = l.role.user /\ row.level = "Unknown" /\ row.seen = l.now
      /\ device'[l.id] = row /\ \A d \in Ids \ {l.id} : device'[d] = device[d]
      /\ device' \in [Ids -> Rows(plan.time) \cup {Absent}]
      /\ RecordOK(record') /\ record'.barred = record.barred /\ record'.saved = record.saved
      /\ record'.gone = record.gone /\ record'.ending = record.ending
  BY DEF Inserted, DevicesInv
<1>1. /\ DOMAIN call' = DOMAIN call /\ call' = [x \in DOMAIN call' |-> call'[x]] /\ call'[c] = m
      /\ \A x \in DOMAIN call \ {c} : call'[x] = call[x]
  BY <1>0, TurnIs
<1>2. /\ Known \subseteq Ids /\ record.gone \subseteq Ids \ {l.id}
      /\ \A x \in Callers : record.ending[x] \subseteq Ids \ {l.id} /\ record.barred[x] \subseteq Ids \ {l.id}
  <2>1. record.gone \subseteq Known /\ \A x \in Callers : record.ending[x] \subseteq Known /\ record.barred[x] \subseteq Known
    BY <1>0 DEF KnownHistory
  <2> QED BY <1>0, <2>1, IdsOf
<1>3. OwnersKept(Known, device, record.saved, device', record'.saved)
  BY <1>0, <1>2 DEF OwnersKept, OwnerIs
<1> DEFINE K == Known \cup {l.id}
<1>4. Steady(l, m, plan.time, K, record'.barred[c], device', record'.saved) /\ m.pc = "done"
  <2>1. m = Answers(l, "served") BY DEF Inserted, Serves
  <2>2. l.id \notin record'.barred[c] BY <1>0, <1>2
  <2>3. OwnerIs(l.id, l.role.user, device', record'.saved) BY <1>0 DEF OwnerIs
  <2>4. plan.time \in Nat BY <1>0, CallIs
  <2> QED BY <1>0, <2>1, <2>2, <2>3, <2>4, AnswersSteady, AnswersIs
<1>5. ~Making(m) /\ m.now \in {0, l.now} /\ m.role = l.role /\ Sound(m, plan.time, K, record'.barred[c], device', record'.saved)
  BY <1>4 DEF Steady
<1>6. Known \subseteq Known' /\ l.id \in Known' BY <1>0, <1>5, KnownGrows, MadeKnown
<1>7. Calls'
  <2>1. time \in Nat /\ plan.time \in Nat /\ m.now <= time BY <1>0, <1>5, CallIs
  <2>2. OwnersKept(K, device', record'.saved, device', record'.saved) BY DEF OwnersKept
  <2>3. Sound(m, plan.time, Known', record'.barred[c], device', record'.saved) BY <1>5, <1>6, <2>1, <2>2, SoundMoves
  <2> QED BY <1>0, <1>3, <1>6, <2>1, <2>3, TurnCalls
<1>8. Apart' BY <1>0, <1>5, TurnApart
<1>9. KnownRows'
  <2>1. ASSUME NEW o \in Owners, guard'[o] # NoGuard PROVE guard'[o].id \in Known'
    BY <1>0, <1>6, <2>1 DEF Inserted, KnownRows
  <2> QED BY <1>0, <1>6, <2>1 DEF KnownRows
<1>10. KnownHistory' BY <1>0, <1>6 DEF KnownHistory, Inserted
<1>11. /\ index' \in [tenant : SUBSET Ids, fp : SUBSET Ids, own : [Users -> SUBSET Ids]] /\ Listed'
  <2>1. /\ index' \in [tenant : SUBSET Ids, fp : SUBSET Ids, own : [Users -> SUBSET Ids]]
        /\ index.fp \cup {l.id} \subseteq index'.fp /\ index.tenant \cup {l.id} \subseteq index'.tenant
        /\ \A u \in Users : index.own[u] \ {l.id} \subseteq index'.own[u]
        /\ \A u \in Users : row.user = u => l.id \in index'.own[u]
    <3>1. index' = Indexed(l.id, Absent, row) BY DEF Inserted
    <3> QED BY <1>0, <3>1, IndexedIs
  <2>2. \A d \in Ids : device'[d] # Absent => device'[d] \in Rows(plan.time) BY <1>0
  <2>3. \A d \in Ids : device'[d] # Absent /\ device'[d].user # NoUser => device'[d].user \in Users
    BY <2>2 DEF Rows, DeviceRow, Owners
  <2>4. record'.unlisted = record.unlisted BY DEF Inserted
  <2> QED BY <1>0, <2>1, <2>3, <2>4 DEF Listed, RowsInv
<1>12. Typed' BY <1>0, <1>1, <1>11 DEF Typed, Inserted
<1>13. RowsInv'
  <2>1. Frozen'
    <3>1. record'.ended = record.ended /\ DOMAIN record.ended \subseteq Ids \ {l.id}
      BY <1>0, <1>2 DEF Inserted, KnownHistory
    <3> QED BY <1>0, <3>1 DEF Frozen, RowsInv
  <2>2. Sighted'
    <3>1. seen_clock(row) = l.now BY <1>0, ClockIs
    <3>2. record'.sighted[l.id] = l.now /\ \A d \in Ids \ {l.id} : record'.sighted[d] = record.sighted[d] BY DEF Inserted
    <3>3. expiry[l.id] = Never BY <1>0 DEF KnownRows
    <3> QED BY <1>0, <3>1, <3>2, <3>3 DEF Sighted, RowsInv
  <2>3. RetentionFair' BY <1>0 DEF RetentionFair, RowsInv, Inserted
  <2>4. BindingsKept'
    <3>1. record'.bound = record.bound /\ \A b \in record.bound : b[1] \in Ids \ {l.id}
      BY <1>0, <1>2 DEF Inserted, KnownHistory
    <3> QED BY <1>0, <3>1 DEF BindingsKept, RowsInv
  <2> QED BY <1>11, <2>1, <2>2, <2>3, <2>4 DEF RowsInv
<1>14. CacheInv'
  <2>1. \A d \in Ids : \A y \in loading[d] : y \in DOMAIN call \ {c} BY <1>0 DEF CacheInv, Loads1
  <2>2. Loads1' BY <1>0, <1>1, <2>1 DEF CacheInv, Loads1
  <2>3. Uncached' BY <1>0, <1>1, <1>4 DEF CacheInv, Uncached
  <2>4. CachedOwn'
    <3> SUFFICES ASSUME NEW d \in Ids, cached[d] # Absent PROVE Belongs(d, cached[d], device', record'.saved)
      BY <1>0 DEF CachedOwn
    <3>1. d # l.id BY <1>0 DEF KnownRows
    <3>2. Belongs(d, cached[d], device, record.saved) BY <1>0 DEF CacheInv, CachedOwn
    <3> QED BY <1>0, <3>1, <3>2 DEF Belongs, OwnerIs
  <2>5. ASSUME NEW d \in Ids \ {l.id}, Out(d) PROVE Out(d)'
    <3>1. \A y \in loading[d] : call'[y] = call[y] BY <1>1, <2>1
    <3> QED BY <1>0, <2>5, <3>1 DEF Out
  <2>6. OutHolds' BY <1>0, <1>2, <2>5 DEF CacheInv, OutHolds
  <2>7. EndsHold'
    <3> SUFFICES ASSUME NEW x \in Callers, NEW d \in record.ending[x] PROVE EndsOf(x, d)' BY <1>0 DEF EndsHold
    <3>1. EndsOf(x, d) /\ d \in Ids \ {l.id} BY <1>0, <1>2 DEF CacheInv, EndsHold
    <3>2. x # c BY <1>0, <3>1 DEF EndsOf
    <3> QED BY <1>0, <1>1, <3>1, <3>2 DEF EndsOf
  <2> QED BY <2>2, <2>3, <2>4, <2>6, <2>7 DEF CacheInv
<1>15. KeyInv' BY <1>5, InsertedKeys
<1> QED BY <1>7, <1>8, <1>9, <1>10, <1>12, <1>13, <1>14, <1>15 DEF DevicesInv

LEMMA CreateKeeps ==
    ASSUME DevicesInv, NEW c \in DOMAIN call, create_row(c)
    PROVE  DevicesInv'
<1> DEFINE l == call[c]
           fresh == time - l.at <= ReadMaxAge /\ guard[l.role.user] = l.held /\ device[l.id] = Absent
<1>0. l.pc = "insert" BY DEF create_row
<1>1. CASE fresh
  <2>1. Inserts(c, l) BY <1>1 DEF create_row
  <2>2. Inserted(c, l, NewRow(l.role.user, l.now, {}),
                 [gen |-> IF l.held = NoGuard THEN 1 ELSE l.held.gen + 1, id |-> l.id, until |-> time + GuardTtl],
                 Serves(l))
    BY <1>0, <1>1, <2>1, InsertsIs
  <2> QED BY <2>2, InsertedKeeps
<1>2. CASE ~fresh
  <2>1. Locally(c, Retries(l, "guard")) /\ UNCHANGED cacheVars BY <1>2 DEF create_row
  <2> QED BY <1>0, <2>1, RetryKeeps
<1> QED BY <1>1, <1>2

-----------------------------------------------------------------------------
(* A call that begins. *)
Fresh(r, n) == [NewCall EXCEPT !.role = r, !.now = n]
LEMMA FreshIs ==
    ASSUME NEW t \in Nat, NEW r \in Role, NEW n \in 0 .. t
    PROVE  /\ Fresh(r, n) \in Call(t) /\ Fresh(r, n).role = r /\ Fresh(r, n).now = n /\ Fresh(r, n).stage = "none"
           /\ Fresh(r, n).op = [kind |-> "none"] /\ Fresh(r, n).held = NoGuard
<1>1. Skip \in [step : {"skip", "remove", "write"}, row : Rows(t) \cup {Absent}] BY DEF Skip
<1>2. [kind |-> "none"] \in Op(t) BY PlainOp
<1>3. NewCall \in Locals(t, {[kind |-> "none", user |-> NoUser]})
  <2>1. {"new", "none"} \subseteq Pcs BY DEF Pcs
  <2> QED BY <1>1, <1>2, <2>1, NothingFound DEF NewCall, Locals
<1>5. NewCall.stage = "none" /\ NewCall.op = [kind |-> "none"] /\ NewCall.held = NoGuard BY DEF NewCall
<1>6. ASSUME NEW R, NEW k \in Locals(t, R), k.stage = "none", k.op = [kind |-> "none"], k.held = NoGuard,
             NEW m, m = [k EXCEPT !.role = r, !.now = n]
      PROVE  /\ m \in Call(t) /\ m.role = r /\ m.now = n /\ m.stage = "none" /\ m.op = [kind |-> "none"] /\ m.held = NoGuard
  BY <1>6 DEF Call, Locals
<1> QED BY <1>3, <1>5, <1>6, Zenon DEF Fresh

First(l) ==
    CASE l.role.kind = "ensure" -> Looks(l, IF l.role.user = NoUser THEN "fp" ELSE "own")
      [] l.role.kind = "resolve" ->
           IF l.role.id = NoId THEN NextStage([l EXCEPT !.stage = "presented"]) ELSE Loads(l, "presented", l.role.id)
      [] l.role.kind \in {"set", "delete"} -> Applies([l EXCEPT !.id = l.role.id], [kind |-> l.role.kind])
      [] l.role.kind = "sweep" -> Looks(l, "tenant")
      [] OTHER -> Loads(l, "none", l.role.id)

LEMMA FirstSteady ==
    ASSUME NEW t \in Nat, NEW K, NEW B, NEW D, NEW V, NEW l \in Call(t),
           l.stage = "none", l.op = [kind |-> "none"], l.held = NoGuard
    PROVE  Steady(l, First(l), t, K, B, D, V)
<1> DEFINE r == l.role
<1>0. r \in Role BY DEF Call, Locals
<1>1. ASSUME NEW m, m \in Call(t), m.role = r, m.now = l.now, m.held = NoGuard, m.op = [kind |-> "none"],
             \/ r.kind = "ensure" /\ m.stage \in {"own", "fp"} /\ m.pc = "members"
             \/ r.kind = "sweep" /\ m.stage = "tenant" /\ m.pc = "members"
             \/ r.kind = "resolve" /\ m.stage = "presented" /\ m.pc = "load" /\ m.id \in Ids
             \/ r.kind \in {"promote", "bind", "use", "save"} /\ m.stage = "none" /\ m.pc = "load" /\ m.id \in Ids
      PROVE  Steady(l, m, t, K, B, D, V)
  <2>1. Place(m) = m.pc /\ m.pc \in Calm /\ Staged(m) /\ m.pc \in {"members", "load"} BY <1>1 DEF Place, Calm, Staged
  <2>2. ~Making(m) BY <1>1, <2>1 DEF Making, Makings, Lookups, Writing
  <2>3. Placed(m, t) BY <1>1, <2>1, <2>2 DEF Placed, Makings, Lookups, Writing, Loading
  <2>4. Decided(m) /\ Binds(m) /\ Knowing(m, K) /\ Clear(m, B) /\ Owning(m, D, V)
    BY <1>1, <2>1 DEF Decided, Binds, Knowing, Holds, Clear, Owning, Writing
  <2> QED BY <1>1, <2>1, <2>2, <2>3, <2>4 DEF Steady, Sound
<1>2. CASE r.kind = "ensure"
  <2> DEFINE s == IF r.user = NoUser THEN "fp" ELSE "own"
             m == Looks(l, s)
  <2>1. First(l) = m BY <1>2 DEF First
  <2>2. s \in {"own", "fp"} OBVIOUS
  <2> HIDE DEF s
  <2>3. /\ m \in Call(t) /\ m.pc = "members" /\ m.stage = s /\ m.role = r /\ m.now = l.now /\ m.held = l.held /\ m.op = l.op
    BY <2>2, LooksIs
  <2> HIDE DEF m
  <2> QED BY <1>1, <1>2, <2>1, <2>2, <2>3
<1>3. CASE r.kind = "sweep"
  <2> DEFINE m == Looks(l, "tenant")
  <2>1. First(l) = m BY <1>3 DEF First
  <2>3. /\ m \in Call(t) /\ m.pc = "members" /\ m.stage = "tenant" /\ m.role = r /\ m.now = l.now /\ m.held = l.held /\ m.op = l.op
    BY LooksIs
  <2> HIDE DEF m
  <2> QED BY <1>1, <1>3, <2>1, <2>3
<1>4. CASE r.kind = "resolve" /\ r.id = NoId
  <2> DEFINE k == [l EXCEPT !.stage = "presented"]
  <2>1. First(l) = NextStage(k) BY <1>4 DEF First
  <2>2. k \in Call(t) /\ k.stage = "presented" /\ k.role = r /\ k.now = l.now /\ k.held = l.held /\ k.op = l.op
    BY DEF Call, Locals
  <2> HIDE DEF k
  <2>3. Staged(k) /\ Holds(k, K) BY <1>4, <2>2 DEF Staged, Holds
  <2>4. Steady(k, NextStage(k), t, K, B, D, V) BY <1>4, <2>2, <2>3, NextStageSteady
  <2> QED BY <2>1, <2>2, <2>4 DEF Steady
<1>5. CASE r.kind = "resolve" /\ r.id # NoId
  <2> DEFINE m == Loads(l, "presented", r.id)
  <2>1. First(l) = m BY <1>5 DEF First
  <2>2. r.id \in Ids BY <1>0, <1>5, RoleIs
  <2>3. /\ m \in Call(t) /\ m.pc = "load" /\ m.stage = "presented" /\ m.role = r /\ m.now = l.now /\ m.id = r.id
        /\ m.held = l.held /\ m.op = l.op
    BY <2>2, LoadsIs
  <2> HIDE DEF m
  <2> QED BY <1>1, <1>5, <2>1, <2>2, <2>3
<1>6. CASE r.kind \in {"promote", "bind", "use", "save"}
  <2> DEFINE m == Loads(l, "none", r.id)
  <2>1. First(l) = m BY <1>6 DEF First
  <2>2. r.id \in Ids BY <1>0, <1>6, RoleIs
  <2>3. /\ m \in Call(t) /\ m.pc = "load" /\ m.stage = "none" /\ m.role = r /\ m.now = l.now /\ m.id = r.id
        /\ m.held = l.held /\ m.op = l.op
    BY <2>2, LoadsIs
  <2> HIDE DEF m
  <2> QED BY <1>1, <1>6, <2>1, <2>2, <2>3
<1>7. CASE r.kind \in {"set", "delete"}
  <2> DEFINE k == [l EXCEPT !.id = r.id]
             op == [kind |-> r.kind]
             m == Applies(k, op)
  <2>1. First(l) = m BY <1>7 DEF First
  <2>2. r.id \in Ids BY <1>0, <1>7, RoleIs
  <2>3. k \in Call(t) /\ k.stage = l.stage /\ k.role = r /\ k.now = l.now /\ k.held = l.held /\ k.id = r.id
    BY <2>2 DEF Call, Locals
  <2>4. op \in Op(t) BY <1>7, PlainOp
  <2>5. op.kind = r.kind OBVIOUS
  <2> HIDE DEF k, op
  <2>6. /\ m \in Call(t) /\ m.pc = "get" /\ m.op = op /\ m.role = r /\ m.now = l.now /\ m.id = r.id /\ m.stage = "none"
        /\ m.held = NoGuard
    BY <2>3, <2>4, AppliesIs
  <2> HIDE DEF m
  <2>7. Place(m) = "get" /\ m.pc \in Calm /\ Staged(m) /\ Writers(m.op) = {r.kind}
    BY <1>7, <2>5, <2>6 DEF Place, Calm, Staged, Writers
  <2>8. Steady(l, m, t, K, B, D, V)
    BY <1>7, <2>2, <2>5, <2>6, <2>7
       DEF Steady, Sound, Placed, Decided, Binds, Knowing, Holds, Clear, Owning, Making, Makings, Lookups, Writing, Loading
  <2> QED BY <2>1, <2>8
<1> QED BY <1>0, <1>2, <1>3, <1>4, <1>5, <1>6, <1>7, RoleIs

LEMMA StartKeeps ==
    ASSUME DevicesInv, NEW c \in Callers, NEW r, Start(c, r)
    PROVE  DevicesInv'
<1> DEFINE l == Fresh(r, time)
           m == First(l)
<1>0. /\ Typed /\ Calls /\ Apart /\ KnownRows /\ KnownHistory /\ RowsInv /\ KeyInv /\ CacheInv
      /\ c \in DOMAIN call => call[c].pc = "done"
      /\ UNCHANGED <<device, expiry, guard, index, cached, loading, minted, time, plan>>
  BY DEF DevicesInv, Start, storeVars, cacheVars
<1>1. time \in Nat /\ plan.time \in Nat /\ r \in Role /\ time \in 0 .. plan.time BY <1>0 DEF Typed, IsPlan, Start
<1>2. /\ l \in Call(plan.time) /\ l.role = r /\ l.now = time /\ l.stage = "none" /\ l.op = [kind |-> "none"] /\ l.held = NoGuard
  BY <1>1, FreshIs
<1>3. call' = Put(call, c, m)
  <2>1. call' = Put(call, c, CASE r.kind = "ensure" -> Looks(l, IF r.user = NoUser THEN "fp" ELSE "own")
                      [] r.kind = "resolve" ->
                           IF r.id = NoId THEN NextStage([l EXCEPT !.stage = "presented"]) ELSE Loads(l, "presented", r.id)
                      [] r.kind \in {"set", "delete"} -> Applies([l EXCEPT !.id = r.id], [kind |-> r.kind])
                      [] r.kind = "sweep" -> Looks(l, "tenant")
                      [] OTHER -> Loads(l, "none", r.id))
    BY DEF Start, Fresh
  <2> HIDE DEF l
  <2> QED BY <1>2, <2>1 DEF First
<1>4. Steady(l, m, plan.time, Known, record.gone, device, record.saved)
  <2> HIDE DEF l
  <2> QED BY <1>1, <1>2, FirstSteady
<1>5. /\ Sound(m, plan.time, Known, record.gone, device, record.saved) /\ ~Making(m) /\ m.now <= time
      /\ m.pc \notin {"drop", "fetch", "keep"}
  BY <1>1, <1>2, <1>4 DEF Steady, Calm
<1> HIDE DEF l, m
<1>6. /\ DOMAIN call' = DOMAIN call \cup {c} /\ call'[c] = m /\ \A x \in DOMAIN call \ {c} : call'[x] = call[x]
      /\ call' = [x \in DOMAIN call' |-> call'[x]]
  BY <1>3 DEF Put
<1>7. c \in DOMAIN call => ~Making(call[c]) BY <1>0 DEF Making, Place, Makings, Lookups, Writing
<1>8. Known' = Known BY <1>0, <1>5, <1>6, <1>7 DEF Known
<1>9. /\ RecordOK(record')
      /\ record'.ended = record.ended /\ record'.gone = record.gone /\ record'.ending = record.ending
      /\ record'.born = record.born /\ record'.bound = record.bound /\ record'.saved = record.saved
      /\ record'.unlisted = record.unlisted /\ record'.early = record.early /\ record'.sighted = record.sighted
      /\ record'.barred[c] = record.gone /\ \A x \in Callers \ {c} : record'.barred[x] = record.barred[x]
  <2> DEFINE b == [record.barred EXCEPT ![c] = record.gone]
  <2>1. RecordOK(record) BY <1>0 DEF Typed
  <2>2. record' = [record EXCEPT !.barred[c] = record.gone] BY DEF Start
  <2>3. record' = [record EXCEPT !.barred = b] BY <2>1, <2>2 DEF RecordOK, Shaped
  <2>4. b \in [Callers -> SUBSET Ids] /\ b[c] = record.gone /\ \A x \in Callers \ {c} : b[x] = record.barred[x]
    BY <2>1, IdsOf DEF RecordOK
  <2> HIDE DEF b
  <2>5. record' \in [ended : {record.ended}, gone : {record.gone}, ending : {record.ending}, barred : {b}, born : {record.born},
             bound : {record.bound}, saved : {record.saved}, unlisted : {record.unlisted}, sighted : {record.sighted}, early : {record.early}]
    BY <2>1, <2>3 DEF RecordOK, Shaped
  <2>6. RecordOK(record') BY <2>1, <2>4, <2>5 DEF RecordOK, Shaped
  <2> QED BY <2>4, <2>5, <2>6
<1>10. Typed' BY <1>0, <1>6, <1>9 DEF Typed
<1>11. Calls'
  <2> SUFFICES ASSUME NEW x \in DOMAIN call'
               PROVE  Sound(call'[x], plan'.time, Known', record'.barred[x], device', record'.saved) /\ call'[x].now <= time'
    BY DEF Calls
  <2>1. CASE x = c BY <1>0, <1>5, <1>6, <1>8, <1>9, <2>1
  <2>2. CASE x # c
    <3>1. x \in DOMAIN call /\ x \in Callers /\ call'[x] = call[x] BY <1>0, <1>6, <2>2 DEF Typed
    <3> QED BY <1>0, <1>8, <1>9, <2>2, <3>1 DEF Calls
  <2> QED BY <2>1, <2>2
<1>12. Apart' BY <1>0, <1>5, <1>6 DEF Apart
<1>13. KnownRows' BY <1>0, <1>8 DEF KnownRows
<1>14. KnownHistory' BY <1>0, <1>8, <1>9 DEF KnownHistory
<1>15. RowsInv' BY <1>0, <1>9 DEF RowsInv, Frozen, Sighted, RetentionFair, BindingsKept, Listed
<1>16. KeyInv'
  <2>1. BornOwned' /\ OneLivePerKey' BY <1>0, <1>9 DEF KeyInv, BornOwned, OneLivePerKey
  <2>2. ASSUME NEW x \in DOMAIN call' PROVE Keyed(call'[x], guard, time, device, record.born)
    <3>1. CASE x = c BY <1>5, <1>6, <3>1, NotSearching
    <3>2. CASE x # c BY <1>0, <1>6, <3>2 DEF KeyInv, Searches
    <3> QED BY <3>1, <3>2
  <2>3. Searches' BY <1>0, <1>9, <2>2 DEF Searches
  <2> QED BY <2>1, <2>3 DEF KeyInv
<1>17. CacheInv'
  <2>1. \A d \in Ids : \A y \in loading[d] : y \in DOMAIN call \ {c} BY <1>0 DEF CacheInv, Loads1
  <2>2. Loads1' BY <1>0, <1>6, <2>1 DEF CacheInv, Loads1
  <2>3. Uncached' BY <1>0, <1>5, <1>6 DEF CacheInv, Uncached
  <2>4. CachedOwn' BY <1>0, <1>9 DEF CacheInv, CachedOwn
  <2>5. ASSUME NEW d \in Ids, Out(d) PROVE Out(d)'
    <3>1. \A y \in loading[d] : call'[y] = call[y] BY <1>6, <2>1
    <3> QED BY <1>0, <2>5, <3>1 DEF Out
  <2>6. OutHolds' BY <1>0, <1>9, <2>5, IdsOf DEF CacheInv, OutHolds
  <2>7. EndsHold'
    <3> SUFFICES ASSUME NEW x \in Callers, NEW d \in record.ending[x] PROVE EndsOf(x, d)' BY <1>9 DEF EndsHold
    <3>1. EndsOf(x, d) BY <1>0 DEF CacheInv, EndsHold
    <3>2. x # c BY <1>0, <3>1 DEF EndsOf
    <3> QED BY <1>0, <1>6, <3>1, <3>2 DEF EndsOf
  <2> QED BY <2>2, <2>3, <2>4, <2>6, <2>7 DEF CacheInv
<1> QED BY <1>10, <1>11, <1>12, <1>13, <1>14, <1>15, <1>16, <1>17 DEF DevicesInv

-----------------------------------------------------------------------------
(* Time passes. *)
Due == {d \in Ids : device[d] # Absent /\ expiry[d] # Never /\ expiry[d] <= time + 1}

LEMMA LaterNotes ==
    ASSUME DevicesInv, Later
    PROVE  /\ RecordOK(record')
           /\ record'.ended = Restrict(record.ended, DOMAIN record.ended \ Due)
           /\ record'.born = Restrict(record.born, DOMAIN record.born \ Due)
           /\ record'.bound = {b \in record.bound : b[1] \notin Due}
           /\ record'.early = record.early
           /\ record'.gone = record.gone /\ record'.ending = record.ending /\ record'.barred = record.barred
           /\ record'.saved = record.saved /\ record'.unlisted = record.unlisted /\ record'.sighted = record.sighted
<1> DEFINE t == time + 1
           due == {d \in Ids : device[d] # Absent /\ expiry[d] # Never /\ expiry[d] <= t}
           live_due == {d \in due : live(device[d])}
           E == Restrict(record.ended, DOMAIN record.ended \ due)
           N == Restrict(record.born, DOMAIN record.born \ due)
           B == {b \in record.bound : b[1] \notin due}
           L == {d \in live_due : t - record.sighted[d] < SeenIdle + RevokedGrace}
           X == record.early \cup L
<1>0. RecordOK(record) /\ Sighted BY DEF DevicesInv, Typed, RowsInv
<1>1. record' = [record EXCEPT !.ended = Restrict(@, DOMAIN @ \ due), !.born = Restrict(@, DOMAIN @ \ due),
                               !.bound = {b \in @ : b[1] \notin due}, !.early = @ \cup L]
  BY Zenon DEF Later
<1>2. record' = [record EXCEPT !.ended = E, !.born = N, !.bound = B, !.early = X] BY <1>0, <1>1 DEF RecordOK, Shaped
<1>3. L = {}
  <2> SUFFICES ASSUME NEW d \in L PROVE FALSE OBVIOUS
  <2>0. d \in due /\ live(device[d]) /\ t - record.sighted[d] < SeenIdle + RevokedGrace
    <3> HIDE DEF due, t
    <3>1. d \in live_due /\ t - record.sighted[d] < SeenIdle + RevokedGrace BY Zenon
    <3> QED BY <3>1
  <2>1. d \in Ids /\ device[d] # Absent /\ expiry[d] # Never /\ expiry[d] <= time + 1 BY <2>0
  <2>2. record.sighted[d] = seen_clock(device[d]) /\ expiry[d] >= seen_clock(device[d]) + SeenIdle + RevokedGrace
    BY <1>0, <2>0, <2>1 DEF Sighted
  <2>3. expiry[d] \in Int /\ record.sighted[d] \in Int /\ time \in Nat BY <1>0, <2>1 DEF DevicesInv, Typed, IsPlan, RecordOK
  <2>4. SeenIdle \in Nat /\ RevokedGrace \in Nat BY SweepAssumption
  <2> QED BY <2>0, <2>1, <2>2, <2>3, <2>4
<1>4. X = record.early BY <1>3
<1>7. due = Due BY DEF Due
<1> HIDE DEF E, N, B, X, due
<1>5. record' \in [ended : {E}, gone : {record.gone}, ending : {record.ending}, barred : {record.barred}, born : {N},
             bound : {B}, saved : {record.saved}, unlisted : {record.unlisted}, sighted : {record.sighted}, early : {X}]
  BY <1>0, <1>2 DEF RecordOK, Shaped
<1>6. RecordOK(record') BY <1>0, <1>5 DEF RecordOK, Shaped
<1> QED BY <1>4, <1>5, <1>6, <1>7 DEF E, N, B

LEMMA LaterKeeps ==
    ASSUME DevicesInv, Later
    PROVE  DevicesInv'
<1>0. /\ Typed /\ Calls /\ Apart /\ KnownRows /\ KnownHistory /\ RowsInv /\ KeyInv /\ CacheInv
      /\ UNCHANGED <<index, minted, loading, call, plan>> /\ time' = time + 1 /\ time < plan.time
      /\ device' = [d \in Ids |-> IF d \in Due THEN Absent ELSE device[d]]
      /\ expiry' = [d \in Ids |-> IF d \in Due THEN Never ELSE expiry[d]]
      /\ guard' = [o \in Owners |-> IF guard[o] # NoGuard /\ guard[o].until <= time + 1 THEN NoGuard ELSE guard[o]]
      /\ cached' \in {cached, [d \in Ids |-> Absent]}
  BY DEF DevicesInv, Later, Due
<1>1. time \in Nat /\ plan.time \in Nat BY <1>0 DEF Typed, IsPlan
<1>2. \A d \in Ids : /\ d \notin Due => device'[d] = device[d] /\ expiry'[d] = expiry[d]
                     /\ d \in Due => device'[d] = Absent /\ expiry'[d] = Never
  BY <1>0
<1>3. \A d \in Ids : cached'[d] \in {cached[d], Absent} BY <1>0
<1>4. \A o \in Owners : \/ guard'[o] = guard[o]
                        \/ guard'[o] = NoGuard /\ guard[o] # NoGuard /\ guard[o].until <= time + 1
  BY <1>0
<1>5. Known' = Known BY <1>0 DEF Known
<1>6. Typed'
  <2>1. device' \in [Ids -> Rows(plan.time) \cup {Absent}] BY <1>0 DEF Typed
  <2>2. expiry' \in [Ids -> Int] BY <1>0 DEF Typed, Never
  <2>3. guard' \in [Owners -> Guard \cup {NoGuard}] BY <1>0 DEF Typed
  <2>4. cached' \in [Ids -> Rows(plan.time) \cup {Absent}] BY <1>0 DEF Typed
  <2>5. time' \in 0 .. plan.time BY <1>0, <1>1
  <2> QED BY <1>0, <2>1, <2>2, <2>3, <2>4, <2>5, LaterNotes DEF Typed
<1>7. /\ record'.gone = record.gone /\ record'.ending = record.ending /\ record'.barred = record.barred
      /\ record'.saved = record.saved /\ record'.unlisted = record.unlisted /\ record'.sighted = record.sighted
      /\ record'.early = record.early
  BY LaterNotes
<1>8. OwnersKept(Known, device, record.saved, device', record'.saved)
  BY <1>2, <1>7, IdsOf DEF OwnersKept, OwnerIs
<1>9. Calls'
  <2> SUFFICES ASSUME NEW x \in DOMAIN call
               PROVE  Sound(call[x], plan.time, Known, record.barred[x], device', record'.saved) /\ call[x].now <= time + 1
    BY <1>0, <1>5, <1>7 DEF Calls
  <2>1. Sound(call[x], plan.time, Known, record.barred[x], device, record.saved) /\ call[x].now <= time /\ call[x].now \in Nat
    BY CallIs
  <2>2. Sound(call[x], plan.time, Known, record.barred[x], device', record'.saved) BY <1>1, <1>8, <2>1, SoundMoves
  <2> QED BY <1>1, <2>1, <2>2
<1>10. Apart' BY <1>0 DEF Apart
<1>11. KnownRows' BY <1>0, <1>2, <1>3, <1>4, <1>5 DEF KnownRows
<1>12. /\ DOMAIN record'.ended = DOMAIN record.ended \ Due /\ \A d \in DOMAIN record'.ended : record'.ended[d] = record.ended[d]
       /\ DOMAIN record'.born = DOMAIN record.born \ Due /\ \A d \in DOMAIN record'.born : record'.born[d] = record.born[d]
       /\ record'.bound = {b \in record.bound : b[1] \notin Due}
  BY LaterNotes DEF Restrict
<1>13. KnownHistory' BY <1>0, <1>5, <1>7, <1>12 DEF KnownHistory
<1>14. DOMAIN record.ended \subseteq Ids /\ DOMAIN record.born \subseteq Ids /\ \A b \in record.bound : b[1] \in Ids
  BY <1>0, IdsOf DEF KnownHistory
<1>15. RowsInv'
  <2>1. Frozen' BY <1>0, <1>2, <1>12, <1>14 DEF RowsInv, Frozen
  <2>2. Sighted' BY <1>0, <1>2, <1>7 DEF RowsInv, Sighted
  <2>3. RetentionFair' BY <1>0, <1>7 DEF RowsInv, RetentionFair
  <2>4. BindingsKept' BY <1>0, <1>2, <1>12, <1>14 DEF RowsInv, BindingsKept
  <2>5. Listed' BY <1>0, <1>2, <1>7 DEF RowsInv, Listed
  <2> QED BY <2>1, <2>2, <2>3, <2>4, <2>5 DEF RowsInv
<1>16. ASSUME NEW u, NEW e, Rival(u, e, device', record'.born) PROVE Rival(u, e, device, record.born)
  BY <1>2, <1>12, <1>14, <1>16 DEF Rival
<1>17. KeyInv'
  <2>1. BornOwned' BY <1>0, <1>2, <1>12, <1>14 DEF KeyInv, BornOwned
  <2>2. OneLivePerKey' BY <1>0, <1>2, <1>12, <1>14 DEF KeyInv, OneLivePerKey
  <2>3. Searches'
    <3> SUFFICES ASSUME NEW x \in DOMAIN call PROVE Keyed(call[x], guard', time + 1, device', record'.born)
      BY <1>0 DEF Searches
    <3> DEFINE k == call[x]
    <3>1. /\ Keyed(k, guard, time, device, record.born) /\ k.role \in Role /\ k \in Call(plan.time) BY CallIs
    <3> HIDE DEF k
    <3> SUFFICES ASSUME Searching(k)
                 PROVE  k.at <= time + 1 /\ (Passed(k, guard', time + 1) \/
                            \A e \in Ids : Rival(k.role.user, e, device', record'.born) => Ahead(k, e))
      BY DEF Keyed, k
    <3>2. k.at \in Nat /\ k.at <= time BY <3>1 DEF Keyed, Call, Locals
    <3>3. k.role.user \in Owners BY <3>1, RoleIs DEF Searching
    <3>4. Passed(k, guard, time) => Passed(k, guard', time + 1)
      <4> SUFFICES ASSUME Passed(k, guard, time) PROVE Passed(k, guard', time + 1) OBVIOUS
      <4> DEFINE u == k.role.user
      <4>0. GuardTtl \in Nat /\ guard[u] \in Guard \cup {NoGuard} BY <1>0, <3>3, DevicesAssumption DEF Typed
      <4>1. CASE k.held # NoGuard BY <1>4, <3>3, <4>1 DEF Passed
      <4>2. CASE k.held = NoGuard /\ time >= k.at + GuardTtl
        <5>1. time + 1 >= k.at + GuardTtl BY <1>1, <3>2, <4>0, <4>2
        <5> QED BY <4>2, <5>1 DEF Passed
      <4>3. CASE k.held = NoGuard /\ guard[u] # NoGuard /\ guard[u].until >= k.at + GuardTtl
        <5>1. CASE guard'[u] = guard[u] BY <4>3, <5>1 DEF Passed
        <5>2. CASE guard[u].until <= time + 1
          <6>1. guard[u].until \in Nat BY <4>0, <4>3 DEF Guard
          <6>2. time + 1 >= k.at + GuardTtl BY <1>1, <3>2, <4>0, <4>3, <5>2, <6>1
          <6> QED BY <4>3, <6>2 DEF Passed
        <5> QED BY <1>4, <3>3, <5>1, <5>2
      <4> QED BY <4>1, <4>2, <4>3 DEF Passed
    <3> QED BY <1>1, <1>16, <3>1, <3>2, <3>4 DEF Keyed
  <2> QED BY <2>1, <2>2, <2>3 DEF KeyInv
<1>18. CacheInv'
  <2>1. Loads1' /\ Uncached' BY <1>0, <1>3 DEF CacheInv, Loads1, Uncached
  <2>2. CachedOwn'
    <3> SUFFICES ASSUME NEW d \in Ids, cached'[d] # Absent PROVE Belongs(d, cached'[d], device', record'.saved)
      BY DEF CachedOwn
    <3>1. cached'[d] = cached[d] BY <1>3
    <3>2. Belongs(d, cached[d], device, record.saved) BY <1>0, <3>1 DEF CacheInv, CachedOwn
    <3> QED BY <1>2, <1>7, <3>1, <3>2 DEF Belongs, OwnerIs
  <2>3. \A d \in Ids : ~live(device[d]) => ~live(device'[d]) BY <1>2 DEF live
  <2>4. ASSUME NEW d \in Ids, Out(d) PROVE Out(d)'
    <3>1. ~live(cached'[d]) BY <1>3, <2>4 DEF Out, live
    <3> QED BY <1>0, <2>3, <2>4, <3>1 DEF Out
  <2>5. OutHolds' BY <1>0, <1>7, <2>4, IdsOf DEF CacheInv, OutHolds
  <2>6. EndsHold' BY <1>0, <1>7, <2>3, IdsOf DEF CacheInv, EndsHold, EndsOf
  <2> QED BY <2>1, <2>2, <2>5, <2>6 DEF CacheInv
<1> QED BY <1>6, <1>9, <1>10, <1>11, <1>13, <1>15, <1>17, <1>18 DEF DevicesInv

-----------------------------------------------------------------------------
(* The first state. *)
LEMMA DevicesBegin ==
    ASSUME NEW p, IsPlan(p), DevicesInit(p)
    PROVE  DevicesInv
<1> DEFINE R == DOMAIN p.rows
           E == [d \in {} |-> Absent]
           Z == [c \in Callers |-> {}]
           N == [d \in {} |-> NoUser]
           S == [d \in Ids |-> IF d \in R THEN seen_clock(p.rows[d]) ELSE Never]
<1>0. /\ plan = p /\ time = 0 /\ minted = R /\ cached = [d \in Ids |-> Absent] /\ loading = [d \in Ids |-> {}]
      /\ call = [c \in {} |-> NewCall] /\ guard = [o \in Owners |-> NoGuard]
      /\ device = [d \in Ids |-> IF d \in R THEN p.rows[d] ELSE Absent]
      /\ expiry = [d \in Ids |-> IF d \in R THEN ttl_seconds(p.rows[d], 0) ELSE Never]
      /\ index = [tenant |-> R, fp |-> R, own |-> [u \in Users |-> {d \in R : p.rows[d].user = u}]]
      /\ record = [ended |-> E, gone |-> {}, ending |-> Z, barred |-> Z, born |-> N, bound |-> {}, saved |-> {},
                   unlisted |-> {}, sighted |-> S, early |-> {}]
  BY DEF DevicesInit
<1>1. /\ R \subseteq Ids /\ p.time \in Nat /\ 0 \in 0 .. p.time
      /\ \A d \in R : p.rows[d] \in Rows(p.time) /\ p.rows[d] # Absent
  BY DevicesAssumption DEF IsPlan, Rows
<1>2. DOMAIN call = {} /\ Known = R BY <1>0 DEF Known
<1>3. \A d \in R : /\ seen_clock(p.rows[d]) \in Int /\ ttl_seconds(p.rows[d], 0) \in Int
                   /\ live(p.rows[d]) /\ ttl_seconds(p.rows[d], 0) # Never =>
                         ttl_seconds(p.rows[d], 0) >= seen_clock(p.rows[d]) + SeenIdle + RevokedGrace
  <2> TAKE d \in R
  <2> DEFINE r == p.rows[d]
             x == ttl_seconds(r, 0)
  <2>1. r \in Rows(p.time) BY <1>1
  <2> HIDE DEF r
  <2>2. seen_clock(r) \in Int BY <2>1, ClockIs
  <2>3. x \in Int /\ (live(r) /\ x # Never => 0 + x >= seen_clock(r) + SeenIdle + RevokedGrace) BY <2>1, TtlIs
  <2>4. x \in Int => 0 + x = x OBVIOUS
  <2> HIDE DEF x
  <2>5. live(r) /\ x # Never => x >= seen_clock(r) + SeenIdle + RevokedGrace BY <2>3, <2>4
  <2> QED BY <2>2, <2>3, <2>5 DEF r, x
<1>4. Never \in Int BY DEF Never
<1>5. S \in [Ids -> Int] /\ Z \in [Callers -> SUBSET Ids] /\ \A c \in Callers : Z[c] = {} BY <1>3, <1>4
<1>6. DOMAIN E = {} /\ DOMAIN N = {} OBVIOUS
<1>7. \A d \in Ids : /\ d \in R => device[d] = p.rows[d] /\ S[d] = seen_clock(p.rows[d]) /\ expiry[d] = ttl_seconds(p.rows[d], 0)
                     /\ d \notin R => device[d] = Absent /\ expiry[d] = Never
  BY <1>0
<1>8. device \in [Ids -> Rows(p.time) \cup {Absent}] /\ expiry \in [Ids -> Int]
  BY <1>0, <1>1, <1>3, <1>4
<1>9. /\ index \in [tenant : SUBSET Ids, fp : SUBSET Ids, own : [Users -> SUBSET Ids]]
      /\ index.fp = R /\ index.tenant = R /\ \A u \in Users : index.own[u] = {d \in R : p.rows[d].user = u}
  <2> DEFINE O == [u \in Users |-> {d \in R : p.rows[d].user = u}]
  <2>1. O \in [Users -> SUBSET Ids] /\ \A u \in Users : O[u] = {d \in R : p.rows[d].user = u} BY <1>1
  <2>2. index = [tenant |-> R, fp |-> R, own |-> O] BY <1>0
  <2> HIDE DEF O, R
  <2> QED BY <1>1, <2>1, <2>2
<1> HIDE DEF E, Z, N, S
<1>10. /\ RecordOK(record) /\ record.ended = E /\ record.gone = {} /\ record.ending = Z /\ record.barred = Z /\ record.born = N
       /\ record.bound = {} /\ record.saved = {} /\ record.unlisted = {} /\ record.sighted = S /\ record.early = {}
  BY <1>0, <1>5 DEF RecordOK, Shaped
<1>11. \A d \in Ids : cached[d] = Absent /\ loading[d] = {} BY <1>0
<1>12. \A o \in Owners : guard[o] = NoGuard BY <1>0
<1>13. Typed
  <2>1. guard \in [Owners -> Guard \cup {NoGuard}] BY <1>0
  <2>2. cached \in [Ids -> Rows(p.time) \cup {Absent}] /\ loading \in [Ids -> SUBSET Callers] BY <1>0
  <2>3. DOMAIN call \subseteq Callers /\ call = [c \in DOMAIN call |-> call[c]] BY <1>0
  <2>4. time \in 0 .. plan.time BY <1>0, <1>1
  <2> QED BY <1>0, <1>1, <1>8, <1>9, <1>10, <2>1, <2>2, <2>3, <2>4 DEF Typed
<1>14. Calls /\ Apart /\ Searches BY <1>2 DEF Calls, Apart, Searches
<1>15. KnownRows BY <1>1, <1>2, <1>7, <1>11, <1>12 DEF KnownRows
<1>16. KnownHistory BY <1>5, <1>6, <1>10 DEF KnownHistory
<1>17. RowsInv
  <2>1. Frozen /\ RetentionFair /\ BindingsKept BY <1>6, <1>10 DEF Frozen, RetentionFair, BindingsKept
  <2>2. Sighted BY <1>3, <1>7, <1>10 DEF Sighted
  <2>3. \A d \in R : p.rows[d].user # NoUser => p.rows[d].user \in Users BY <1>1 DEF Rows, DeviceRow, Owners
  <2>4. Listed
    <3> SUFFICES ASSUME NEW d \in Ids, device[d] # Absent
                 PROVE  d \in index.fp /\ d \in index.tenant /\ (device[d].user # NoUser => d \in index.own[device[d].user])
      BY DEF Listed
    <3>1. d \in R /\ device[d] = p.rows[d] BY <1>7
    <3> HIDE DEF R
    <3> QED BY <1>9, <2>3, <3>1
  <2> QED BY <2>1, <2>2, <2>4 DEF RowsInv
<1>18. KeyInv BY <1>6, <1>10, <1>14 DEF KeyInv, BornOwned, OneLivePerKey
<1>19. CacheInv
  <2>1. Loads1 /\ Uncached /\ CachedOwn BY <1>2, <1>11 DEF Loads1, Uncached, CachedOwn
  <2>2. OutHolds /\ EndsHold BY <1>5, <1>10 DEF OutHolds, EndsHold
  <2> QED BY <2>1, <2>2 DEF CacheInv
<1> QED BY <1>13, <1>14, <1>15, <1>16, <1>17, <1>18, <1>19 DEF DevicesInv

LEMMA DevicesRest ==
    ASSUME DevicesInv, UNCHANGED deviceVars
    PROVE  DevicesInv'
<1>1. UNCHANGED <<device, expiry, guard, index, minted, cached, loading, call, time, plan, left, record>>
  BY DEF deviceVars, storeVars, cacheVars
<1>2. Known' = Known BY <1>1 DEF Known
<1>3. Typed' /\ Calls' /\ Apart' /\ KnownRows' /\ KnownHistory'
  BY <1>1, <1>2 DEF DevicesInv, Typed, Calls, Apart, KnownRows, KnownHistory
<1>4. RowsInv' BY <1>1 DEF DevicesInv, RowsInv, Frozen, Sighted, RetentionFair, BindingsKept, Listed
<1>5. KeyInv' BY <1>1 DEF DevicesInv, KeyInv, BornOwned, OneLivePerKey, Searches
<1>6. CacheInv'
  BY <1>1 DEF DevicesInv, CacheInv, Loads1, Uncached, CachedOwn, OutHolds, Out, EndsHold, EndsOf
<1> QED BY <1>3, <1>4, <1>5, <1>6 DEF DevicesInv

LEMMA DevicesSteps ==
    ASSUME DevicesInv, AccountsNext
    PROVE  DevicesInv'
<1>1. CASE UNCHANGED deviceVars BY <1>1, DevicesRest
<1>2. CASE \E c \in Callers : \E r \in plan.roles[c] : Start(c, r) BY <1>2, StartKeeps
<1>3. CASE Later BY <1>3, LaterKeeps
<1>4. ASSUME NEW c \in DOMAIN call, CallStep(c) PROVE DevicesInv'
  BY <1>4, LoadKeeps, FetchKeeps, KeepKeeps, DropKeeps, MembersKeeps, RowsKeeps, PruneKeeps, StrayKeeps, UnlistKeeps,
     MintKeeps, ReadGuardKeeps, NamedKeeps, CreateKeeps, GetKeeps, CasKeeps, EachKeeps
  DEF CallStep
<1> QED BY <1>1, <1>2, <1>3, <1>4 DEF AccountsNext, Logging, Calling, OnDevices, promote_if_authenticated, OtherCall, DevicesStep

LEMMA DevicesHold ==
    AccountsSpec => []DevicesInv
<1>1. AccountsInit => DevicesInv
  <2> SUFFICES ASSUME AccountsInit PROVE DevicesInv OBVIOUS
  <2>1. scene \in Scenes BY DEF AccountsInit, Init
  <2>2. PICK p \in PlansOf(scene) : DevicesInit(p) BY DEF AccountsInit
  <2>3. IsPlan(p) BY <2>1, <2>2, PlansAssumption
  <2> QED BY <2>2, <2>3, DevicesBegin
<1>2. DevicesInv /\ [AccountsNext]_<<vars, deviceVars>> => DevicesInv'
  BY DevicesSteps, DevicesRest
<1> QED BY <1>1, <1>2, PTL DEF AccountsSpec

-----------------------------------------------------------------------------
(* What the invariant says of the properties. *)
LEMMA InvStaysOut ==
    DevicesInv => RevokedStaysOut
<1> SUFFICES ASSUME DevicesInv PROVE RevokedStaysOut OBVIOUS
<1>1. RevokedFrozen BY DEF DevicesInv, RowsInv, Frozen, RevokedFrozen
<1>2. RevokedNotServed
  BY DEF DevicesInv, Calls, Sound, Clear, Place, ServedOuts, RevokedNotServed
<1> QED BY <1>1, <1>2 DEF RevokedStaysOut

LEMMA InvApart ==
    DevicesInv => DevicesApart
<1> SUFFICES ASSUME DevicesInv PROVE DevicesApart OBVIOUS
<1>1. OwnDeviceOnly
  BY DEF DevicesInv, Calls, Sound, Owning, Place, OwnerIs, OwnDeviceOnly
<1>2. OneLivePerKey BY DEF DevicesInv, KeyInv
<1> QED BY <1>1, <1>2 DEF DevicesApart

(* A revocation holds: the row that a revocation left stays as it is until *)
(* it is removed, whatever write, sweep or sighting was under way, and a   *)
(* call that begins after a device was revoked or deleted is not answered  *)
(* with it, although loads of its old row may still be on their way into   *)
(* the cache (save_decided, note_sighting, InvalidateOnDrop).              *)
THEOREM RevokedStaysOutHolds ==
    AccountsSpec => []RevokedStaysOut
BY DevicesHold, InvStaysOut, PTL

(* A user is answered with a device of their own, unless an application    *)
(* saved over it, and of the devices that create_or_find inserted for one  *)
(* owner no two are live, nor of nobody's while a lookup reads all of a    *)
(* fingerprint's, for any number of callers and users, and of devices an   *)
(* owner has (claim_owner, CREATE_ROW, devices_with_fingerprint).          *)
THEOREM DevicesApartHolds ==
    AccountsSpec => []DevicesApart
BY DevicesHold, InvApart, PTL

(* A bound credential stays bound, a row stays in each index that readers  *)
(* and the sweep look in, and no device is revoked for idleness or expires *)
(* before its window since the last sighting has run out                   *)
(* (replace_bindings, PRUNE_ABSENT, plan_sweep, ttl_seconds).              *)
THEOREM RowsKeptHolds ==
    AccountsSpec => []RowsKept
<1>1. DevicesInv => RowsKept BY DEF DevicesInv, RowsInv, RowsKept
<1> QED BY <1>1, DevicesHold, PTL

---------------------------------------------------------------------------
(* The login keeps its promises beside the devices: what a call on devices *)
(* does is no step of a login, and a promotion only reads the outcome of   *)
(* one (promote_if_authenticated).                                         *)
THEOREM LoginBesideDevices ==
    AccountsSpec => [](SpentOnce /\ PasswordsInOrder /\ GuessesCounted /\ EndedStayOut /\ CapKeepsNewest)
<1>1. AccountsInit => Init BY DEF AccountsInit
<1>2. [AccountsNext]_<<vars, deviceVars>> => [Next]_vars
      BY DEF AccountsNext, Logging, Calling, OnDevices
<1>3. AccountsSpec => Spec BY <1>1, <1>2, PTL DEF AccountsSpec, Spec
<1> QED BY <1>3, OneUse, InOrder, Counted, EndedOut, CapKept, PTL
=============================================================================
