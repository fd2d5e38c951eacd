----------------------- MODULE RefreshRotationProofs -----------------------
(***************************************************************************)
(* Proofs about RefreshRotation, for every number of calls, records,       *)
(* users and devices, every lifetime, grace and cap, with and without      *)
(* rotation, and with a store that fails or does not.                      *)
(***************************************************************************)
EXTENDS RefreshRotation, FiniteSetTheorems, TLAPS

(* Where a call has found its record, and where it may still answer with a *)
(* session.                                                                *)
Usable == {"status", "device", "rotate", "kept"}
Accusing == {"collect", "family"}
Cascading == {"cascade", "cascade_tokens"}
Holding == Usable \cup {"reread", "revoke"} \cup Accusing \cup Cascading

Answers == {"none", "session", "revoked", "concurrent", "expired", "not_found", "inactive",
            "device_revoked", "device_mismatch", "store_error", "logged_out"}

CallType ==
    [op : {"refresh", "logout"}, at : {"idle", "previous", "done"} \cup Holding,
     plain : Ids \cup {NoToken}, presented : Infos \cup {NoInfo}, now : Nat,
     id : Ids \cup {NoToken}, targets : SUBSET Devices, target : Devices \cup {NoDevice},
     answer : Answers]

(* The record k.id of the table tok, when the time is k.now, may be        *)
(* answered with a session.                                                *)
InLifetime(tok, k) == k.now < tok[k.id].authn + MaxLifetime

(* What a call relies on from one store call to the next: the record it    *)
(* found is still the one of the token it was given, and what it was told  *)
(* of the record still holds.                                              *)
LocalOf(tok, k) ==
    /\ k.at \in {"previous"} \cup Holding => k.plain \in Ids /\ k.answer = "none"
    /\ k.at = "idle" => k.answer = "none"
    /\ k.at \in Holding => /\ k.id \in Ids /\ tok[k.id] # NoToken
                           /\ tok[k.id].plain = k.plain
    /\ k.at \in Usable => InLifetime(tok, k)
    /\ k.at \in Accusing => /\ tok[k.id].reason = "rotated"
                            /\ Distance(k.now, tok[k.id].at) >= Grace
    /\ k.answer = "session" => /\ k.id \in Ids /\ tok[k.id] # NoToken
                               /\ InLifetime(tok, k)

LocalsOK == call \in [Calls -> CallType] /\ \A c \in Calls : LocalOf(token, call[c])

(* The records of a family are its first one and those that replaced it:   *)
(* they share the time of its login, and the first holder of a plaintext   *)
(* is of the family of the others.                                         *)
Descent ==
    \A i \in Stored :
        /\ token[i].family \in Stored
        /\ token[i].authn = token[token[i].family].issued
        /\ token[i].plain \in Stored
        /\ token[token[i].plain].family = token[i].family

OneLive == \A i, j \in Live : token[i].family = token[j].family => i = j

Digests == \A i \in Stored : token[i].info # NoInfo => token[i].info[2] = token[i].pepper

(* A record is rotated out by a call that presented its plaintext at the   *)
(* time the record carries, and that call has answered.                    *)
RotatedBy ==
    \A i \in Stored : token[i].reason = "rotated" =>
        \E d \in Calls : /\ call[d].at = "done" /\ call[d].plain = token[i].plain
                         /\ call[d].now = token[i].at

(* The two calls that AccusedOnlyOnReuse asks for have left the places     *)
(* where a store error would make them forget what they were given.        *)
AccusedBy ==
    \A f \in swept : \E c, d \in Calls :
        /\ c # d
        /\ call[c].at \in {"done"} \cup Cascading /\ call[d].at \in {"done"} \cup Cascading
        /\ call[c].plain = call[d].plain /\ call[c].plain \in Stored
        /\ token[call[c].plain].family = f
        /\ Distance(call[c].now, call[d].now) >= Grace

IInv ==
    /\ TypeOK /\ LocalsOK /\ Descent /\ OneLive /\ Digests
    /\ RotationKeepsOne /\ RotatedBy /\ AccusedBy /\ WithinCap

-----------------------------------------------------------------------------
(* What a step may do to the table: records are added, and of a record     *)
(* that is there only the reason and its time change, once.                *)
SameIssue(t, n) ==
    /\ n.plain = t.plain /\ n.pepper = t.pepper /\ n.user = t.user /\ n.family = t.family
    /\ n.device = t.device /\ n.info = t.info /\ n.issued = t.issued /\ n.authn = t.authn
    /\ t.reason # "live" => n = t

Carried(tok, new) ==
    \A i \in Ids : tok[i] # NoToken => new[i] # NoToken /\ SameIssue(tok[i], new[i])

LEMMA TokenFields ==
    ASSUME NEW t \in Token
    PROVE  /\ t.plain \in Ids /\ t.pepper \in {1, 2} /\ t.user \in Users /\ t.family \in Ids
           /\ t.device \in Devices \cup {NoDevice} /\ t.info \in Bindings /\ t.issued \in Nat
           /\ t.expires \in Nat /\ t.authn \in Nat /\ t.reason \in Reasons \cup {"live"}
           /\ t.at \in Nat
BY DEF Token

LEMMA CallFields ==
    ASSUME NEW k \in CallType
    PROVE  /\ k.op \in {"refresh", "logout"} /\ k.at \in {"idle", "previous", "done"} \cup Holding
           /\ k.plain \in Ids \cup {NoToken} /\ k.presented \in Infos \cup {NoInfo} /\ k.now \in Nat
           /\ k.id \in Ids \cup {NoToken} /\ k.targets \subseteq Devices
           /\ k.target \in Devices \cup {NoDevice} /\ k.answer \in Answers
BY DEF CallType

LEMMA Numbers ==
    ASSUME TypeOK
    PROVE  /\ Ids \subseteq Nat /\ written \in Nat
           /\ \A i \in Stored : token[i] \in Token
           /\ Stored \subseteq Ids /\ Live \subseteq Stored
           /\ written < MaxTokens => written + 1 \in Ids /\ written + 1 \notin Stored
BY RefreshAssumption DEF TypeOK, Ids, Stored, Live

LEMMA BuiltType ==
    ASSUME TypeOK, NEW id \in Ids, NEW u \in Users, NEW d \in Devices \cup {NoDevice},
           NEW info \in Infos \cup {NoInfo}, NEW now \in Nat
    PROVE  build_refresh_token(id, u, d, info, now) \in Token
<1>1. Earlier(now + Ttl, lifetime_end(now)) \in Nat
      BY RefreshAssumption DEF Earlier, lifetime_end
<1>2. bind(info, pepper) \in Bindings BY DEF bind, Bindings, TypeOK
<1> QED BY <1>1, <1>2 DEF build_refresh_token, Token, TypeOK

LEMMA ReplacementType ==
    ASSUME TypeOK, NEW t \in Token, NEW id \in Ids, NEW now \in Nat,
           NEW presented \in Infos \cup {NoInfo}
    PROVE  LET n == replacement_for(t, id, now, presented)
           IN  /\ n \in Token
               /\ n.family = t.family /\ n.user = t.user /\ n.authn = t.authn /\ n.issued = now
               /\ n.reason = t.reason /\ n.pepper = pepper
               /\ n.plain = (IF rotation THEN id ELSE t.plain)
               /\ n.info # NoInfo => n.info[2] = pepper
<1> DEFINE e == IF rotation THEN Earlier(now + Ttl, lifetime_end(t.authn)) ELSE t.expires
           b == IF t.info = NoInfo THEN NoInfo ELSE bind(presented, pepper)
           p == IF rotation THEN id ELSE t.plain
<1>1. e \in Nat
      BY RefreshAssumption, TokenFields DEF Earlier, lifetime_end
<1>2. b \in Bindings /\ (b # NoInfo => b[2] = pepper)
      BY DEF bind, Bindings, TypeOK
<1>3. p \in Ids BY TokenFields
<1>4. pepper \in {1, 2} BY DEF TypeOK
<1>5. replacement_for(t, id, now, presented)
          = [t EXCEPT !.plain = p, !.pepper = pepper, !.info = b, !.issued = now, !.expires = e]
      BY DEF replacement_for
<1> HIDE DEF e, b, p
<1>6. [t EXCEPT !.plain = p, !.pepper = pepper, !.info = b, !.issued = now, !.expires = e] \in Token
      BY <1>1, <1>2, <1>3, <1>4 DEF Token
<1> QED BY <1>2, <1>5, <1>6 DEF Token, p

(* A revocation touches live records only, and of them what it names.      *)
IsRevoked(new, ids, r, at) ==
    /\ new \in [Ids -> Token \cup {NoToken}]
    /\ \A i \in Ids : new[i] = NoToken <=> token[i] = NoToken
    /\ \A i \in Stored : SameIssue(token[i], new[i])
    /\ \A i \in Stored : new[i].reason = "live" <=> i \in Live \ ids
    /\ \A i \in Live \cap ids : new[i].reason = r /\ new[i].at = at
    /\ \A i \in Ids \ (Live \cap ids) : new[i] = token[i]

LEMMA Revocation ==
    ASSUME TypeOK, NEW ids, NEW r \in Reasons, NEW at \in Nat
    PROVE  IsRevoked(revoke(ids, r, at), ids, r, at)
<1> DEFINE new == revoke(ids, r, at)
<1>1. \A i \in Ids : new[i] = IF i \in ids /\ i \in Live
                             THEN [token[i] EXCEPT !.reason = r, !.at = at] ELSE token[i]
      BY DEF revoke
<1>2. \A t \in Token : /\ [t EXCEPT !.reason = r, !.at = at] \in Token
                       /\ [t EXCEPT !.reason = r, !.at = at].reason = r
                       /\ [t EXCEPT !.reason = r, !.at = at].at = at
                       /\ t.reason = "live" => SameIssue(t, [t EXCEPT !.reason = r, !.at = at])
                       /\ SameIssue(t, t)
      BY DEF Token, SameIssue
<1>3. \A i \in Ids : i \in Stored => token[i] \in Token BY Numbers
<1>4. r # "live" BY DEF Reasons
<1>5. \A i \in Ids : new[i] \in Token \cup {NoToken} /\ (new[i] = NoToken <=> token[i] = NoToken)
      BY <1>1, <1>2, <1>3, TokenAssumption DEF Live, Stored
<1>6. \A i \in Stored : SameIssue(token[i], new[i])
      BY <1>1, <1>2, <1>3 DEF Live, Stored
<1>7. \A i \in Stored : new[i].reason = "live" <=> i \in Live \ ids
      BY <1>1, <1>2, <1>3, <1>4 DEF Live, Stored
<1>8. \A i \in Live \cap ids : new[i].reason = r /\ new[i].at = at
      BY <1>1, <1>2, <1>3 DEF Live, Stored
<1>9. new \in [Ids -> Token \cup {NoToken}] BY <1>5 DEF revoke
<1> QED BY <1>1, <1>5, <1>6, <1>7, <1>8, <1>9 DEF IsRevoked

LEMMA LocalCarried ==
    ASSUME NEW tok, NEW new, Carried(tok, new), NEW k, LocalOf(tok, k)
    PROVE  LocalOf(new, k)
<1>1. k.at \in Accusing => k.at \in Holding BY DEF Accusing, Holding
<1>2. k.at \in Usable => k.at \in Holding BY DEF Holding
<1> QED BY <1>1, <1>2 DEF LocalOf, Carried, SameIssue, InLifetime

-----------------------------------------------------------------------------
(* What a step may do to the calls: one of them goes on, with what it      *)
(* relies on; one that has answered never does, and one that has accused a *)
(* family keeps the token it was given and the time it read.               *)
Steady(old, k) ==
    /\ old.at # "done"
    /\ old.at \in Cascading \cup {"family"} =>
           k.at \in {"done"} \cup Cascading /\ k.plain = old.plain /\ k.now = old.now

CallGoesOn(c) ==
    \E k \in CallType : /\ call' = [call EXCEPT ![c] = k]
                        /\ LocalOf(token, k)
                        /\ Steady(call[c], k)

LEMMA NewCallType == NewCall \in CallType /\ \A tok : LocalOf(tok, NewCall)
<1>1. NewCall \in CallType BY DEF NewCall, CallType, Answers
<1>2. NewCall.at = "idle" /\ NewCall.answer = "none" BY DEF NewCall
<1> QED BY <1>1, <1>2 DEF LocalOf, Holding, Usable, Accusing, Cascading

LEMMA AnsweredType ==
    ASSUME NEW k \in CallType, NEW a \in Answers, NEW tok,
           a = "session" => k.id \in Ids /\ tok[k.id] # NoToken /\ InLifetime(tok, k)
    PROVE  /\ Answered(k, a) \in CallType
           /\ Answered(k, a).at = "done"
           /\ a \in {"session", "revoked"} => /\ Answered(k, a).plain = k.plain
                                              /\ Answered(k, a).now = k.now
           /\ LocalOf(tok, Answered(k, a))
<1> DEFINE n == Answered(k, a)
<1>1. n \in CallType BY DEF Answered, NewCall, CallType, Answers
<1>2. n.at = "done" /\ n.answer = a BY DEF Answered, NewCall, CallType
<1>3. a \in {"session", "revoked"} => n.plain = k.plain /\ n.now = k.now /\ n.id = k.id
      BY DEF Answered, NewCall, CallType
<1>4. n.at \notin Holding /\ n.at \notin Usable /\ n.at \notin Accusing
      BY <1>2 DEF Holding, Usable, Accusing, Cascading
<1>5. LocalOf(tok, n) BY <1>2, <1>3, <1>4 DEF LocalOf, InLifetime
<1> QED BY <1>1, <1>2, <1>3, <1>5

(* A call that answers, and one that takes its next place. *)
LEMMA AnswerGoesOn ==
    ASSUME LocalsOK, NEW c \in Calls, NEW a \in Answers, Answer(c, a),
           call[c].at # "done",
           call[c].at \in Cascading \cup {"family"} => a = "revoked",
           a = "session" => call[c].at \in Usable
    PROVE  CallGoesOn(c)
<1>1. call[c] \in CallType /\ LocalOf(token, call[c]) BY DEF LocalsOK
<1>2. a = "session" => /\ call[c].id \in Ids /\ token[call[c].id] # NoToken
                       /\ InLifetime(token, call[c])
      BY <1>1 DEF LocalOf, Holding
<1> DEFINE n == Answered(call[c], a)
<1>3. /\ n \in CallType /\ n.at = "done" /\ LocalOf(token, n)
      /\ a \in {"session", "revoked"} => n.plain = call[c].plain /\ n.now = call[c].now
      BY <1>1, <1>2, AnsweredType
<1>4. call' = [call EXCEPT ![c] = n] BY DEF Answer
<1> HIDE DEF n
<1> QED BY <1>3, <1>4 DEF CallGoesOn, Steady

LEMMA GoGoesOn ==
    ASSUME LocalsOK, NEW c \in Calls, NEW p \in Holding, Go(c, p),
           call[c].at \in Holding,
           call[c].at \in Cascading \cup {"family"} => p \in Cascading,
           p \in Usable => call[c].at \in Usable,
           p \in Accusing =>
               /\ token[call[c].id].reason = "rotated"
               /\ Distance(call[c].now, token[call[c].id].at) >= Grace
    PROVE  CallGoesOn(c)
<1>1. call[c] \in CallType /\ LocalOf(token, call[c]) BY DEF LocalsOK
<1> DEFINE n == [call[c] EXCEPT !.at = p]
<1>2. n \in CallType BY <1>1 DEF CallType
<1>3. /\ n.at = p /\ n.plain = call[c].plain /\ n.now = call[c].now /\ n.id = call[c].id
      /\ n.answer = call[c].answer
      BY <1>1 DEF CallType
<1>4. call' = [call EXCEPT ![c] = n] BY DEF Go, LocalsOK
<1>5. p \notin {"done", "idle", "previous"} /\ call[c].at \notin {"done", "idle", "previous"}
      BY DEF Holding, Usable, Accusing, Cascading
<1>6. call[c].answer = "none" BY <1>1 DEF LocalOf
<1> HIDE DEF n
<1>7. LocalOf(token, n) BY <1>1, <1>3, <1>5, <1>6 DEF LocalOf, InLifetime
<1>8. Steady(call[c], n) BY <1>3, <1>5 DEF Steady
<1> QED BY <1>2, <1>4, <1>7, <1>8 DEF CallGoesOn

(* find_token returns a record of the plaintext it was asked for. *)
LEMMA FindToken ==
    ASSUME TypeOK, NEW plain, NEW pep, find_token(plain, pep) # NoToken
    PROVE  find_token(plain, pep) \in Stored /\ token[find_token(plain, pep)].plain = plain
<1> DEFINE hits == {i \in Stored : token[i].plain = plain /\ token[i].pepper = pep}
<1>1. hits # {} /\ find_token(plain, pep) = CHOOSE i \in hits : TRUE BY DEF find_token
<1>2. (CHOOSE i \in hits : TRUE) \in hits BY <1>1
<1> QED BY <1>1, <1>2

LEMMA FoundGoesOn ==
    ASSUME TypeOK, LocalsOK, NEW c \in Calls, NEW k \in CallType, NEW i \in Stored,
           NEW b \in BOOLEAN, Found(c, k, i, b), token[i].plain = k.plain, k.answer = "none",
           call[c].at \in {"idle", "previous"}
    PROVE  CallGoesOn(c)
<1> DEFINE t == token[i]
           next == IF ~b THEN "not_found"
                   ELSE IF k.op = "logout" THEN "revoke"
                   ELSE IF t.reason \in Reasons \ {"rotated"} THEN "revoked"
                   ELSE IF t.reason = "rotated"
                        THEN IF Distance(k.now, t.at) < Grace THEN "concurrent" ELSE "collect"
                   ELSE IF token_expired(t, k.now) THEN "expired"
                   ELSE "status"
           m == [k EXCEPT !.id = i]
           n == IF next \in {"revoke", "collect", "status"}
                THEN [k EXCEPT !.at = next, !.id = i] ELSE Answered(m, next)
<1>1. i \in Ids /\ t \in Token /\ t # NoToken BY Numbers DEF Stored
<1>2. call' = [call EXCEPT ![c] = n] BY DEF Found
<1>3. m \in CallType BY <1>1 DEF CallType
<1>4. next \in {"not_found", "revoke", "revoked", "concurrent", "collect", "expired", "status"}
      OBVIOUS
<1>5. next = "collect" => t.reason = "rotated" /\ ~(Distance(k.now, t.at) < Grace) OBVIOUS
<1>6. next = "status" => ~token_expired(t, k.now) OBVIOUS
<1>7. k.now \in Nat /\ t.authn \in Nat /\ t.at \in Nat BY <1>1, CallFields, TokenFields
<1>8. next = "collect" => Distance(k.now, t.at) >= Grace
      BY <1>5, <1>7, RefreshAssumption DEF Distance
<1>9. next = "status" => k.now < t.authn + MaxLifetime
      BY <1>6, <1>7, RefreshAssumption DEF token_expired, lifetime_end
<1> HIDE DEF next
<1>10. CASE next \in {"revoke", "collect", "status"}
  <2>1. n = [k EXCEPT !.at = next, !.id = i] BY <1>10
  <2>2. n \in CallType BY <2>1, <1>1, <1>10 DEF CallType, Holding, Usable, Accusing
  <2>3. /\ n.at = next /\ n.id = i /\ n.plain = k.plain /\ n.now = k.now /\ n.answer = "none"
        BY <2>1 DEF CallType
  <2>4. k.plain \in Ids BY <1>1, TokenFields
  <2> HIDE DEF n
  <2>5. LocalOf(token, n)
        BY <2>3, <2>4, <1>1, <1>5, <1>8, <1>9, <1>10
        DEF LocalOf, InLifetime, Usable, Accusing, Holding, Cascading
  <2>6. Steady(call[c], n) BY DEF Steady, Cascading
  <2> QED BY <1>2, <2>2, <2>5, <2>6 DEF CallGoesOn
<1>11. CASE next \notin {"revoke", "collect", "status"}
  <2>1. n = Answered(m, next) BY <1>11
  <2>2. n \in CallType /\ LocalOf(token, n) BY <2>1, <1>3, <1>4, <1>11, AnsweredType DEF Answers
  <2> HIDE DEF n
  <2>3. Steady(call[c], n) BY DEF Steady, Cascading
  <2> QED BY <1>2, <2>2, <2>3 DEF CallGoesOn
<1> QED BY <1>10, <1>11

-----------------------------------------------------------------------------
(* The four things a step does to the table. *)
Quiet == token' = token /\ written' = written

Revokes ==
    /\ \E ids \in SUBSET Ids, r \in Reasons \ {"rotated"} : token' = revoke(ids, r, 0)
    /\ written' = written

Rotates(c) ==
    LET i == call[c].id
    IN  /\ At(c, "rotate") /\ i \in Live /\ written < MaxTokens
        /\ token' = [revoke({i}, "rotated", call[c].now) EXCEPT ![written + 1] =
                         replacement_for(token[i], written + 1, call[c].now, call[c].presented)]
        /\ written' = written + 1
        /\ Answer(c, "session")

Issues ==
    /\ written < MaxTokens
    /\ \E u \in Users, k \in Clients, evicted \in SUBSET Ids :
           issue_capped(build_refresh_token(written + 1, u, k[1], k[2], clock), evicted)

(* What every action leaves of the rest of the state. *)
Elsewhere ==
    /\ clock' \in Nat /\ pepper' \in {1, 2}
    /\ trust' \in [Devices -> {"ok", "revoked", "other"}]
    /\ inactive' \subseteq Users /\ revoking' \subseteq Devices

(* revoke_family adds the family of a record to those accused. *)
Accuses(c) ==
    At(c, "family") /\ CallGoesOn(c) /\ swept' = swept \cup {token[call[c].id].family}

CallActs ==
    \/ call' = call /\ swept' = swept
    \/ \E c \in Calls : CallGoesOn(c) /\ swept' = swept
    \/ \E c \in Calls : Accuses(c)

TableActs == Quiet \/ Revokes \/ (\E c \in Calls : Rotates(c)) \/ Issues

Acts == TableActs /\ CallActs /\ Elsewhere

LEMMA LocateActs ==
    ASSUME TypeOK, LocalsOK, NEW c \in Calls, NEW op \in {"refresh", "logout"}, NEW plain \in Ids,
           NEW info \in Infos \cup {NoInfo}, NEW now, NEW b \in BOOLEAN,
           locate(c, op, plain, info, now, b)
    PROVE  Acts
<1> DEFINE i == find_token(plain, pepper)
           k == [NewCall EXCEPT !.op = op, !.plain = plain, !.presented = info, !.now = now]
<1>1. now \in Nat BY RefreshAssumption DEF locate, TypeOK
<1>2. k \in CallType /\ k.answer = "none" /\ k.plain = plain /\ k.now = now
      BY <1>1, NewCallType DEF NewCall, CallType
<1>3. call[c].at = "idle" BY DEF locate, At
<1>4. CASE i # NoToken
  <2>1. Found(c, k, i, b) BY <1>4 DEF locate
  <2>2. i \in Stored /\ token[i].plain = plain BY <1>4, FindToken
  <2> HIDE DEF i, k
  <2>3. CallGoesOn(c) BY <2>1, <2>2, <1>2, <1>3, FoundGoesOn
  <2> QED BY <2>3 DEF locate, Acts, TableActs, Quiet, CallActs, Elsewhere, TypeOK
<1>5. CASE i = NoToken /\ pepper = 2
  <2> DEFINE n == [k EXCEPT !.at = "previous"]
  <2>1. call' = [call EXCEPT ![c] = n] BY <1>5 DEF locate
  <2>2. n \in CallType /\ n.at = "previous" /\ n.answer = "none" /\ n.plain = plain
        BY <1>2 DEF CallType
  <2> HIDE DEF n
  <2>3. LocalOf(token, n)
        BY <2>2 DEF LocalOf, Holding, Usable, Accusing, Cascading
  <2>4. CallGoesOn(c) BY <1>3, <2>1, <2>2, <2>3 DEF CallGoesOn, Steady, Cascading
  <2> QED BY <2>4 DEF locate, Acts, TableActs, Quiet, CallActs, Elsewhere, TypeOK
<1>6. CASE i = NoToken /\ pepper # 2
  <2> DEFINE n == Answered(k, "not_found")
  <2>1. call' = [call EXCEPT ![c] = n] BY <1>6 DEF locate
  <2>2. n \in CallType /\ LocalOf(token, n) BY <1>2, AnsweredType DEF Answers
  <2> HIDE DEF n
  <2>3. CallGoesOn(c) BY <1>3, <2>1, <2>2 DEF CallGoesOn, Steady, Cascading
  <2> QED BY <2>3 DEF locate, Acts, TableActs, Quiet, CallActs, Elsewhere, TypeOK
<1> QED BY <1>4, <1>5, <1>6

LEMMA QuietActs ==
    ASSUME TypeOK, NEW c \in Calls, CallGoesOn(c),
           UNCHANGED <<token, written, clock, pepper, trust, inactive, revoking, swept>>
    PROVE  Acts
BY DEF Acts, TableActs, Quiet, CallActs, Elsewhere, TypeOK

LEMMA LocatePreviousActs ==
    ASSUME TypeOK, LocalsOK, NEW c \in Calls, NEW b \in BOOLEAN, locate_previous(c, b)
    PROVE  Acts
<1> DEFINE i == find_token(call[c].plain, pepper - 1)
<1>1. call[c].at = "previous" BY DEF locate_previous, At
<1>2. call[c] \in CallType /\ LocalOf(token, call[c]) BY DEF LocalsOK
<1>3. call[c].answer = "none" BY <1>1, <1>2 DEF LocalOf
<1>4. CASE i # NoToken
  <2>1. Found(c, call[c], i, b) BY <1>4 DEF locate_previous
  <2>2. i \in Stored /\ token[i].plain = call[c].plain BY <1>4, FindToken
  <2> HIDE DEF i
  <2> QED BY <2>1, <2>2, <1>1, <1>2, <1>3, FoundGoesOn, QuietActs DEF locate_previous
<1>5. CASE i = NoToken
  <2>1. Answer(c, "not_found") BY <1>5 DEF locate_previous
  <2>2. CallGoesOn(c) BY <2>1, <1>1, AnswerGoesOn DEF Cascading, Answers
  <2> QED BY <2>2, QuietActs DEF locate_previous
<1> QED BY <1>4, <1>5

(* The checks, the two reads after a lost rotation and an error returned   *)
(* to the caller.                                                          *)
LEMMA StatusActs ==
    ASSUME TypeOK, LocalsOK, NEW c \in Calls, check_status(c) \/ check_device(c)
    PROVE  Acts
<1>1. call[c].at \in {"status", "device"} BY DEF check_status, check_device, At
<1>2. /\ call[c].at \in Usable /\ call[c].at \in Holding /\ call[c].at # "done"
      /\ call[c].at \notin Cascading \cup {"family"}
      BY <1>1 DEF Usable, Holding, Cascading
<1>3. ASSUME NEW a \in Answers, Answer(c, a) PROVE CallGoesOn(c)
      BY <1>2, <1>3, AnswerGoesOn
<1>4. ASSUME NEW p \in {"device", "rotate"}, Go(c, p) PROVE CallGoesOn(c)
      BY <1>2, <1>4, GoGoesOn DEF Usable, Holding, Accusing
<1>5. CallGoesOn(c)
      BY <1>3, <1>4 DEF check_status, check_device, Answers
<1> QED BY <1>5, QuietActs DEF check_status, check_device

LEMMA KeptActs ==
    ASSUME TypeOK, LocalsOK, NEW c \in Calls, rotate_kept(c) PROVE Acts
<1>1. call[c].at = "kept" BY DEF rotate_kept, At
<1>2. Answer(c, "session") \/ Go(c, "reread") BY DEF rotate_kept
<1>3. ASSUME Answer(c, "session") PROVE CallGoesOn(c)
      BY <1>1, <1>3, AnswerGoesOn DEF Usable, Cascading, Answers
<1>4. ASSUME Go(c, "reread") PROVE CallGoesOn(c)
      BY <1>1, <1>4, GoGoesOn DEF Usable, Holding, Accusing, Cascading
<1> QED BY <1>2, <1>3, <1>4, QuietActs DEF rotate_kept

LEMMA RereadActs ==
    ASSUME TypeOK, LocalsOK, NEW c \in Calls, rotate_reread(c) PROVE Acts
<1>1. call[c].at = "reread" BY DEF rotate_reread, At
<1>2. ASSUME NEW a \in {"revoked", "concurrent"}, Answer(c, a) PROVE CallGoesOn(c)
      BY <1>1, <1>2, AnswerGoesOn DEF Usable, Cascading, Answers
<1>3. ASSUME Go(c, "collect"), token[call[c].id].reason = "rotated",
             Distance(call[c].now, token[call[c].id].at) >= Grace
      PROVE  CallGoesOn(c)
      BY <1>1, <1>3, GoGoesOn DEF Usable, Holding, Accusing, Cascading
<1>4. CallGoesOn(c) BY <1>2, <1>3 DEF rotate_reread
<1> QED BY <1>4, QuietActs DEF rotate_reread

LEMMA ErrorActs ==
    ASSUME TypeOK, LocalsOK, NEW c \in Calls, StoreError(c) PROVE Acts
<1>1. CallGoesOn(c)
      BY AnswerGoesOn DEF StoreError, Cascading, Answers
<1> QED BY <1>1, QuietActs DEF StoreError

LEMMA CollectActs ==
    ASSUME TypeOK, LocalsOK, NEW c \in Calls, collect_family_device_targets(c) PROVE Acts
<1> DEFINE t == token[call[c].id]
           siblings == OfUser(t.user) \cap Live \cap OfFamily(t.family)
           own == {t.device} \ {NoDevice}
           all == own \cup ({token[i].device : i \in siblings} \ {NoDevice})
<1>1. call[c] \in CallType /\ LocalOf(token, call[c]) /\ call[c].at = "collect"
      BY DEF LocalsOK, collect_family_device_targets, At
<1>2. call[c].id \in Stored /\ t \in Token
      BY <1>1, Numbers DEF LocalOf, Holding, Accusing, Stored
<1>3. own \subseteq Devices BY <1>2, TokenFields
<1>4. \A i \in siblings : token[i].device \in Devices \cup {NoDevice}
      BY Numbers, TokenFields
<1>5. all \subseteq Devices BY <1>3, <1>4
<1> HIDE DEF own, all
<1>6. \E s \in {own, all} : call' = [call EXCEPT ![c].at = "family", ![c].targets = s]
      BY DEF collect_family_device_targets, own, all
<1>7. PICK s \in {own, all} : call' = [call EXCEPT ![c].at = "family", ![c].targets = s] BY <1>6
<1> DEFINE n == [call[c] EXCEPT !.at = "family", !.targets = s]
<1>8. call' = [call EXCEPT ![c] = n] BY <1>7 DEF LocalsOK
<1>9. n \in CallType BY <1>1, <1>3, <1>5 DEF CallType, Holding, Accusing
<1>10. /\ n.at = "family" /\ n.plain = call[c].plain /\ n.now = call[c].now /\ n.id = call[c].id
       /\ n.answer = call[c].answer
       BY <1>1 DEF CallType
<1> HIDE DEF n
<1>11. LocalOf(token, n)
       BY <1>1, <1>10 DEF LocalOf, Holding, Usable, Accusing, Cascading
<1>12. Steady(call[c], n) BY <1>1 DEF Steady, Cascading
<1>13. CallGoesOn(c) BY <1>8, <1>9, <1>11, <1>12 DEF CallGoesOn
<1> QED BY <1>13, QuietActs DEF collect_family_device_targets

LEMMA CascadeTrustActs ==
    ASSUME TypeOK, LocalsOK, NEW c \in Calls, NEW d \in Devices, cascade_trust(c, d) PROVE Acts
<1>1. call[c] \in CallType /\ LocalOf(token, call[c]) /\ call[c].at = "cascade"
      BY DEF LocalsOK, cascade_trust, At
<1> DEFINE n == [call[c] EXCEPT !.at = "cascade_tokens", !.target = d, !.targets = call[c].targets \ {d}]
<1>2. call' = [call EXCEPT ![c] = n] BY DEF LocalsOK, cascade_trust
<1>3. n \in CallType BY <1>1 DEF CallType, Holding, Cascading
<1>4. /\ n.at = "cascade_tokens" /\ n.plain = call[c].plain /\ n.now = call[c].now
      /\ n.id = call[c].id /\ n.answer = call[c].answer
      BY <1>1 DEF CallType
<1> HIDE DEF n
<1>5. LocalOf(token, n)
      BY <1>1, <1>4 DEF LocalOf, Holding, Usable, Accusing, Cascading
<1>6. Steady(call[c], n) BY <1>1, <1>4 DEF Steady, Cascading
<1>7. CallGoesOn(c) BY <1>2, <1>3, <1>5, <1>6 DEF CallGoesOn
<1> QED BY <1>7 DEF cascade_trust, Acts, TableActs, Quiet, CallActs, Elsewhere, TypeOK

(* The end of a cascade step, and of a revoke_family. *)
LEMMA CascadeGoesOn ==
    ASSUME LocalsOK, NEW c \in Calls, call[c].at \in {"family", "cascade_tokens"},
           IF call[c].targets = {} THEN Answer(c, "revoked") ELSE Go(c, "cascade")
    PROVE  CallGoesOn(c)
<1>1. ASSUME Answer(c, "revoked") PROVE CallGoesOn(c)
      BY <1>1, AnswerGoesOn DEF Answers
<1>2. ASSUME Go(c, "cascade") PROVE CallGoesOn(c)
      BY <1>2, GoGoesOn DEF Usable, Holding, Accusing, Cascading
<1> QED BY <1>1, <1>2

LEMMA FamilyActs ==
    ASSUME TypeOK, LocalsOK, NEW c \in Calls, revoke_family(c) PROVE Acts
<1> DEFINE t == token[call[c].id]
           ids == OfUser(t.user) \cap OfFamily(t.family)
<1>1. At(c, "family") /\ CallGoesOn(c) BY CascadeGoesOn DEF revoke_family, At
<1>2. ids \in SUBSET Ids /\ "compromise" \in Reasons \ {"rotated"}
      BY DEF OfFamily, Stored, Reasons
<1>3. CASE token' = revoke(ids, "compromise", 0) /\ swept' = swept \cup {t.family}
  <2>1. Revokes BY <1>2, <1>3 DEF Revokes, revoke_family
  <2>2. Accuses(c) BY <1>1, <1>3 DEF Accuses
  <2> QED BY <2>1, <2>2 DEF revoke_family, Acts, TableActs, CallActs, Elsewhere, TypeOK
<1>4. CASE UNCHANGED <<token, swept>>
      BY <1>1, <1>4, QuietActs DEF revoke_family
<1> QED BY <1>3, <1>4 DEF revoke_family

LEMMA CascadeTokensActs ==
    ASSUME TypeOK, LocalsOK, NEW c \in Calls, cascade_tokens(c) PROVE Acts
<1> DEFINE ids == OfDevice(call[c].target)
<1>1. CallGoesOn(c) BY CascadeGoesOn DEF cascade_tokens, At
<1>2. ids \in SUBSET Ids /\ "device" \in Reasons \ {"rotated"}
      BY DEF OfDevice, Stored, Reasons
<1>3. CASE token' = revoke(ids, "device", 0)
  <2>1. Revokes BY <1>2, <1>3 DEF Revokes, cascade_tokens
  <2> QED BY <2>1, <1>1 DEF cascade_tokens, Acts, TableActs, CallActs, Elsewhere, TypeOK
<1>4. CASE UNCHANGED token
      BY <1>1, <1>4, QuietActs DEF cascade_tokens
<1> QED BY <1>3, <1>4 DEF cascade_tokens

LEMMA RevokeTokenActs ==
    ASSUME TypeOK, LocalsOK, NEW c \in Calls, revoke_token(c) PROVE Acts
<1>1. call[c].at = "revoke" /\ LocalOf(token, call[c]) BY DEF revoke_token, At, LocalsOK
<1>2. {call[c].id} \in SUBSET Ids /\ "explicit" \in Reasons \ {"rotated"}
      BY <1>1 DEF LocalOf, Holding, Reasons
<1>3. Revokes BY <1>2 DEF Revokes, revoke_token
<1>4. CallGoesOn(c) BY <1>1, AnswerGoesOn DEF revoke_token, Cascading, Answers
<1> QED BY <1>3, <1>4 DEF revoke_token, Acts, TableActs, CallActs, Elsewhere, TypeOK

LEMMA RotateActs ==
    ASSUME TypeOK, LocalsOK, NEW c \in Calls, rotate(c) PROVE Acts
<1>1. call[c].at = "rotate" BY DEF rotate, At
<1>2. CASE call[c].id \in Live
  <2>1. Rotates(c) BY <1>1, <1>2 DEF rotate, rotate_token, Rotates
  <2>2. CallGoesOn(c) BY <1>1, <2>1, AnswerGoesOn DEF Rotates, Usable, Cascading, Answers
  <2> QED BY <2>1, <2>2 DEF rotate, Acts, TableActs, CallActs, Elsewhere, TypeOK
<1>3. CASE call[c].id \notin Live
  <2>1. /\ Go(c, IF rotation THEN "reread" ELSE "kept")
        /\ UNCHANGED <<token, written, clock, pepper, trust, inactive, revoking, swept>>
        BY <1>3 DEF rotate, rotate_token
  <2>2. ASSUME NEW p \in {"reread", "kept"}, Go(c, p) PROVE CallGoesOn(c)
        BY <1>1, <2>2, GoGoesOn DEF Usable, Holding, Accusing, Cascading
  <2>3. CallGoesOn(c) BY <2>1, <2>2
  <2> QED BY <2>1, <2>3, QuietActs
<1> QED BY <1>2, <1>3

LEMMA IssueActs ==
    ASSUME TypeOK, NEW u \in Users, NEW k \in Clients, issue_refresh_token(u, k[1], k[2])
    PROVE  Acts
<1>1. PICK evicted \in SUBSET (OfUser(u) \cap Live) :
          issue_capped(build_refresh_token(written + 1, u, k[1], k[2], clock), evicted)
      BY DEF issue_refresh_token
<1>2. evicted \in SUBSET Ids BY DEF OfUser, Stored
<1>3. Issues BY <1>1, <1>2 DEF Issues, issue_refresh_token
<1> QED BY <1>3 DEF issue_refresh_token, Acts, TableActs, CallActs, Elsewhere, TypeOK

LEMMA EventActs ==
    ASSUME TypeOK,
           \/ \E u \in Users : revoke_user_tokens(u) \/ Suspend(u)
           \/ \E d \in Devices : revoke_device(d) \/ revoke_device_tokens(d) \/ NewOwner(d)
           \/ NewPepper \/ Tick
    PROVE  Acts
<1>1. ASSUME NEW u \in Users, revoke_user_tokens(u) PROVE Acts
  <2>1. OfUser(u) \in SUBSET Ids /\ "explicit" \in Reasons \ {"rotated"}
        BY DEF OfUser, Stored, Reasons
  <2>2. Revokes BY <1>1, <2>1 DEF revoke_user_tokens, Revokes
  <2> QED BY <1>1, <2>2 DEF revoke_user_tokens, Acts, TableActs, CallActs, Elsewhere, TypeOK
<1>2. ASSUME NEW d \in Devices, revoke_device_tokens(d) PROVE Acts
  <2>1. OfDevice(d) \in SUBSET Ids /\ "device" \in Reasons \ {"rotated"}
        BY DEF OfDevice, Stored, Reasons
  <2>2. Revokes BY <1>2, <2>1 DEF revoke_device_tokens, Revokes
  <2> QED BY <1>2, <2>2 DEF revoke_device_tokens, Acts, TableActs, CallActs, Elsewhere, TypeOK
<1>3. ASSUME NEW u \in Users, Suspend(u) PROVE Acts
      BY <1>3 DEF Suspend, Acts, TableActs, Quiet, CallActs, Elsewhere, TypeOK
<1>4. ASSUME NEW d \in Devices, revoke_device(d) \/ NewOwner(d) PROVE Acts
      BY <1>4 DEF revoke_device, NewOwner, Acts, TableActs, Quiet, CallActs, Elsewhere, TypeOK
<1>5. ASSUME NewPepper \/ Tick PROVE Acts
      BY <1>5 DEF NewPepper, Tick, Acts, TableActs, Quiet, CallActs, Elsewhere, TypeOK
<1> QED BY <1>1, <1>2, <1>3, <1>4, <1>5

LEMMA NextActs ==
    ASSUME TypeOK, LocalsOK, Next
    PROVE  Acts /\ rotation' \in BOOLEAN /\ events' \in 0 .. MaxEvents /\ rotation' = rotation
<1>1. ASSUME NEW c \in Calls, CallStep(c) PROVE Acts
      BY <1>1, LocatePreviousActs, StatusActs, RotateActs, KeptActs, RereadActs, CollectActs,
         FamilyActs, CascadeTrustActs, CascadeTokensActs, RevokeTokenActs, ErrorActs
      DEF CallStep
<1>2. ASSUME Step PROVE Acts
  <2>1. ASSUME NEW c \in Calls, NEW plain \in Ids, NEW info \in Infos \cup {NoInfo}, NEW now,
               NEW b \in BOOLEAN, locate(c, "refresh", plain, info, now, b)
        PROVE  Acts
        BY <2>1, LocateActs
  <2> QED BY <1>1, <1>2, <2>1, IssueActs, EventActs DEF Step
<1>3. ASSUME Event PROVE Acts
  <2>1. ASSUME NEW c \in Calls, NEW plain \in Ids, NEW b \in BOOLEAN, logout(c, plain, b)
        PROVE  Acts
        BY <2>1, LocateActs DEF logout
  <2> QED BY <1>3, <2>1, EventActs DEF Event
<1>4. Acts BY <1>2, <1>3 DEF Next
<1> QED BY <1>4, RefreshAssumption DEF Next, TypeOK

-----------------------------------------------------------------------------
(* What each of the four leaves of the records that are there. *)
Typed(tok, n) == tok \in [Ids -> Token \cup {NoToken}] /\ n \in 0 .. MaxTokens

LEMMA QuietTable ==
    ASSUME TypeOK, Quiet
    PROVE  /\ Typed(token', written') /\ Carried(token, token')
           /\ Stored' = Stored /\ Live' = Live
BY DEF Quiet, TypeOK, Typed, Carried, SameIssue, Stored, Live

LEMMA RevokesTable ==
    ASSUME TypeOK, Revokes
    PROVE  /\ Typed(token', written') /\ Carried(token, token')
           /\ Stored' = Stored /\ Live' \subseteq Live
           /\ \A i \in Stored : /\ token'[i].reason = "rotated" <=> token[i].reason = "rotated"
                                /\ token'[i].reason = "rotated" => token'[i] = token[i]
<1>1. PICK ids \in SUBSET Ids, r \in Reasons \ {"rotated"} : token' = revoke(ids, r, 0)
      BY DEF Revokes
<1> DEFINE new == revoke(ids, r, 0)
<1>2. IsRevoked(new, ids, r, 0) BY Revocation
<1> HIDE DEF new
<1>3. token' = new BY <1>1 DEF new
<1>4. Typed(token', written') BY <1>2, <1>3 DEF IsRevoked, Typed, TypeOK, Revokes
<1>5. Stored' = Stored BY <1>2, <1>3 DEF IsRevoked, Stored
<1>6. Carried(token, token') BY <1>2, <1>3 DEF IsRevoked, Carried, Stored
<1>7. Live' \subseteq Live BY <1>2, <1>3, <1>5 DEF IsRevoked, Live
<1>8. ASSUME NEW i \in Stored
      PROVE  /\ token'[i].reason = "rotated" <=> token[i].reason = "rotated"
             /\ token'[i].reason = "rotated" => token'[i] = token[i]
  <2>1. CASE i \in Live \cap ids BY <2>1, <1>2, <1>3 DEF IsRevoked, Live
  <2>2. CASE i \notin Live \cap ids BY <2>2, <1>2, <1>3 DEF IsRevoked, Stored
  <2> QED BY <2>1, <2>2
<1> QED BY <1>4, <1>5, <1>6, <1>7, <1>8

(* A record put after the others. *)
IsAdded(tok, n) ==
    /\ Typed(token', written') /\ Carried(token, token')
    /\ Stored' = Stored \cup {written + 1}
    /\ token'[written + 1] = n
    /\ \A i \in Stored : token'[i] = tok[i]

LEMMA Added ==
    ASSUME TypeOK, written < MaxTokens, NEW n \in Token, NEW tok, NEW ids, NEW r, NEW at,
           IsRevoked(tok, ids, r, at),
           token' = [tok EXCEPT ![written + 1] = n], written' = written + 1
    PROVE  IsAdded(tok, n)
<1> USE DEF IsRevoked
<1>1. written + 1 \in Ids /\ written + 1 \notin Stored BY Numbers
<1>2. Typed(token', written') BY <1>1, RefreshAssumption DEF Typed, TypeOK
<1>3. token'[written + 1] = n /\ \A i \in Ids \ {written + 1} : token'[i] = tok[i]
      BY <1>1
<1>4. \A i \in Stored : i \in Ids \ {written + 1} BY <1>1 DEF Stored
<1>5. Stored' = Stored \cup {written + 1}
      BY <1>1, <1>3, TokenAssumption DEF Stored
<1>6. Carried(token, token') BY <1>3, <1>4 DEF Carried, Stored
<1> QED BY <1>2, <1>3, <1>4, <1>5, <1>6 DEF IsAdded

LEMMA RotatesTable ==
    ASSUME TypeOK, LocalsOK, NEW c \in Calls, Rotates(c)
    PROVE  LET i == call[c].id
               n == token'[written + 1]
               t == token[i]
           IN  /\ Typed(token', written') /\ Carried(token, token')
               /\ written + 1 \in Ids \ Stored
               /\ Stored' = Stored \cup {written + 1}
               /\ Live' = (Live \ {i}) \cup {written + 1}
               /\ i \in Live
               /\ \A j \in Stored \ {i} : token'[j] = token[j]
               /\ token'[i].reason = "rotated" /\ token'[i].at = call[c].now
               /\ t.plain = call[c].plain
               /\ n \in Token
               /\ n.family = t.family /\ n.user = t.user /\ n.authn = t.authn
               /\ n.reason = "live" /\ n.pepper = pepper
               /\ n.plain \in {written + 1, t.plain}
               /\ n.info # NoInfo => n.info[2] = pepper
<1> DEFINE i == call[c].id
           t == token[i]
           child == replacement_for(t, written + 1, call[c].now, call[c].presented)
           tok == revoke({i}, "rotated", call[c].now)
<1>1. call[c] \in CallType /\ LocalOf(token, call[c]) /\ call[c].at = "rotate"
      BY DEF LocalsOK, Rotates, At
<1>2. call[c].now \in Nat /\ call[c].presented \in Infos \cup {NoInfo} BY <1>1, CallFields
<1>3. i \in Live /\ i \in Stored /\ t \in Token /\ t.reason = "live"
      BY Numbers DEF Rotates, Live
<1>4. written + 1 \in Ids /\ written + 1 \notin Stored BY Numbers DEF Rotates
<1>5. t.plain = call[c].plain BY <1>1 DEF LocalOf, Usable, Holding
<1>6. /\ child \in Token
      /\ child.family = t.family /\ child.user = t.user /\ child.authn = t.authn
      /\ child.reason = t.reason /\ child.pepper = pepper
      /\ child.plain = (IF rotation THEN written + 1 ELSE t.plain)
      /\ child.info # NoInfo => child.info[2] = pepper
      BY <1>2, <1>3, <1>4, ReplacementType
<1>7. "rotated" \in Reasons BY DEF Reasons
<1>8. IsRevoked(tok, {i}, "rotated", call[c].now) BY <1>2, <1>7, Revocation
<1>9. token' = [tok EXCEPT ![written + 1] = child] /\ written' = written + 1 /\ written < MaxTokens
      BY DEF Rotates
<1> HIDE DEF tok, child
<1>10. IsAdded(tok, child) BY <1>6, <1>8, <1>9, Added
<1> USE DEF IsRevoked, IsAdded
<1>11. Live' = (Live \ {i}) \cup {written + 1}
       BY <1>3, <1>4, <1>6, <1>8, <1>10 DEF Live
<1>12. \A j \in Stored \ {i} : token'[j] = token[j] BY <1>8, <1>10 DEF Stored
<1>13. token'[i].reason = "rotated" /\ token'[i].at = call[c].now BY <1>3, <1>8, <1>10
<1> QED BY <1>3, <1>4, <1>5, <1>6, <1>10, <1>11, <1>12, <1>13

LEMMA IssuesTable ==
    ASSUME TypeOK, Issues
    PROVE  LET n == token'[written + 1]
           IN  /\ Typed(token', written') /\ Carried(token, token')
               /\ written + 1 \in Ids \ Stored
               /\ Stored' = Stored \cup {written + 1}
               /\ n \in Token
               /\ n.family = written + 1 /\ n.plain = written + 1
               /\ n.authn = n.issued /\ n.reason = "live" /\ n.pepper = pepper
               /\ n.info # NoInfo => n.info[2] = pepper
               /\ \A i \in Stored : /\ token'[i].reason = "rotated" <=> token[i].reason = "rotated"
                                    /\ token'[i].reason = "rotated" => token'[i] = token[i]
               /\ \E evicted \in SUBSET Live :
                      /\ Live' = (Live \ evicted) \cup {written + 1}
                      /\ evicted \subseteq OfUser(n.user) \cap Live
                      /\ Cardinality(evicted) =
                             LET active == OfUser(n.user) \cap Live
                             IN  IF Cardinality(active) + 1 > MaxPerUser
                                 THEN Cardinality(active) + 1 - MaxPerUser ELSE 0
<1>1. PICK u \in Users, k \in Clients, evicted \in SUBSET Ids :
          issue_capped(build_refresh_token(written + 1, u, k[1], k[2], clock), evicted)
      BY DEF Issues
<1> DEFINE t == build_refresh_token(written + 1, u, k[1], k[2], clock)
           tok == revoke(evicted, "evicted", 0)
<1>2. written < MaxTokens /\ written + 1 \in Ids /\ written + 1 \notin Stored
      BY Numbers DEF Issues
<1>3. k[1] \in Devices \cup {NoDevice} /\ k[2] \in Infos \cup {NoInfo} BY RefreshAssumption
<1>4. t \in Token BY <1>2, <1>3, BuiltType DEF TypeOK
<1>5. /\ t.family = written + 1 /\ t.plain = written + 1 /\ t.authn = t.issued
      /\ t.reason = "live" /\ t.pepper = pepper /\ t.info = bind(k[2], pepper)
      BY DEF build_refresh_token
<1>6. t.info # NoInfo => t.info[2] = pepper BY <1>5 DEF bind
<1>7. "evicted" \in Reasons /\ "evicted" # "rotated" BY DEF Reasons
<1>8. IsRevoked(tok, evicted, "evicted", 0) BY <1>7, Revocation
<1>9. /\ token' = [tok EXCEPT ![written + 1] = t] /\ written' = written + 1
      /\ evicted \subseteq OfUser(t.user) \cap Live
      /\ Cardinality(evicted) = LET active == OfUser(t.user) \cap Live
                                IN  IF Cardinality(active) + 1 > MaxPerUser
                                    THEN Cardinality(active) + 1 - MaxPerUser ELSE 0
      BY <1>1 DEF issue_capped
<1> HIDE DEF t, tok
<1>10. IsAdded(tok, t) BY <1>2, <1>4, <1>8, <1>9, Added
<1> USE DEF IsRevoked, IsAdded
<1>11. Live' = (Live \ evicted) \cup {written + 1}
       BY <1>2, <1>5, <1>8, <1>10 DEF Live
<1>12. ASSUME NEW i \in Stored
       PROVE  /\ token'[i].reason = "rotated" <=> token[i].reason = "rotated"
              /\ token'[i].reason = "rotated" => token'[i] = token[i]
  <2>1. CASE i \in Live \cap evicted BY <2>1, <1>7, <1>8, <1>10 DEF Live
  <2>2. CASE i \notin Live \cap evicted BY <2>2, <1>8, <1>10 DEF Stored
  <2> QED BY <2>1, <2>2
<1>13. evicted \in SUBSET Live BY <1>9
<1> QED BY <1>2, <1>4, <1>5, <1>6, <1>9, <1>10, <1>11, <1>12, <1>13

-----------------------------------------------------------------------------
(* The parts of the invariant, one by one. *)
LEMMA TableKept ==
    ASSUME TypeOK, LocalsOK, Acts
    PROVE  /\ Typed(token', written') /\ Carried(token, token')
           /\ Stored \subseteq Stored'
BY QuietTable, RevokesTable, RotatesTable, IssuesTable DEF Acts, TableActs

LEMMA Carriage ==
    ASSUME TypeOK, Carried(token, token'), NEW i \in Stored
    PROVE  /\ token'[i].plain = token[i].plain /\ token'[i].pepper = token[i].pepper
           /\ token'[i].user = token[i].user /\ token'[i].family = token[i].family
           /\ token'[i].info = token[i].info /\ token'[i].issued = token[i].issued
           /\ token'[i].authn = token[i].authn
           /\ token[i].reason # "live" => token'[i] = token[i]
BY DEF Carried, SameIssue, Stored

LEMMA TypeKept ==
    ASSUME TypeOK, LocalsOK, Acts, rotation' \in BOOLEAN, events' \in 0 .. MaxEvents
    PROVE  TypeOK'
<1>1. Typed(token', written') BY TableKept
<1>2. Stored' = 1 .. written'
  <2>1. CASE Quiet BY <2>1, QuietTable DEF Quiet, TypeOK
  <2>2. CASE Revokes BY <2>2, RevokesTable DEF Revokes, TypeOK
  <2>3. ASSUME NEW c \in Calls, Rotates(c) PROVE Stored' = 1 .. written'
    <3>1. Stored' = Stored \cup {written + 1} /\ written' = written + 1 BY <2>3, RotatesTable DEF Rotates
    <3> QED BY <3>1 DEF TypeOK
  <2>4. CASE Issues
    <3>1. Stored' = Stored \cup {written + 1} BY <2>4, IssuesTable
    <3>2. written' = written + 1 BY <2>4 DEF Issues, issue_capped
    <3> QED BY <3>1, <3>2 DEF TypeOK
  <2> QED BY <2>1, <2>2, <2>3, <2>4 DEF Acts, TableActs
<1>3. swept' \subseteq Ids
  <2>1. ASSUME NEW c \in Calls, Accuses(c) PROVE swept' \subseteq Ids
    <3>1. LocalOf(token, call[c]) /\ call[c].at = "family" BY <2>1 DEF LocalsOK, Accuses, At
    <3>2. call[c].id \in Stored BY <3>1 DEF LocalOf, Holding, Accusing, Stored
    <3>3. token[call[c].id].family \in Ids BY <3>2, Numbers, TokenFields
    <3> QED BY <2>1, <3>3 DEF Accuses, TypeOK
  <2> QED BY <2>1 DEF Acts, CallActs, TypeOK
<1> QED BY <1>1, <1>2, <1>3 DEF Acts, Elsewhere, TypeOK, Typed

LEMMA LocalsKept ==
    ASSUME TypeOK, LocalsOK, Acts
    PROVE  LocalsOK'
<1>1. Carried(token, token') BY TableKept
<1>2. ASSUME NEW c \in Calls, CallGoesOn(c) PROVE LocalsOK'
  <2>1. PICK k \in CallType : call' = [call EXCEPT ![c] = k] /\ LocalOf(token, k)
        BY <1>2 DEF CallGoesOn
  <2>2. call' \in [Calls -> CallType] BY <2>1 DEF LocalsOK
  <2>3. \A d \in Calls : LocalOf(token, call'[d]) BY <2>1 DEF LocalsOK
  <2>4. \A d \in Calls : LocalOf(token', call'[d]) BY <2>3, <1>1, LocalCarried
  <2> QED BY <2>2, <2>4 DEF LocalsOK
<1>3. ASSUME call' = call PROVE LocalsOK'
  <2>1. \A d \in Calls : LocalOf(token', call[d]) BY <1>1, LocalCarried DEF LocalsOK
  <2> QED BY <1>3, <2>1 DEF LocalsOK
<1> QED BY <1>2, <1>3 DEF Acts, CallActs, Accuses

LEMMA CallsSettle ==
    ASSUME LocalsOK, CallActs, NEW d \in Calls, call[d].at \in {"done"} \cup Cascading
    PROVE  /\ call'[d].at \in {"done"} \cup Cascading
           /\ call'[d].plain = call[d].plain /\ call'[d].now = call[d].now
           /\ call[d].at = "done" => call'[d] = call[d]
<1>1. ASSUME NEW c \in Calls, CallGoesOn(c)
      PROVE  /\ call'[d].at \in {"done"} \cup Cascading
             /\ call'[d].plain = call[d].plain /\ call'[d].now = call[d].now
             /\ call[d].at = "done" => call'[d] = call[d]
  <2>1. PICK k \in CallType : call' = [call EXCEPT ![c] = k] /\ Steady(call[c], k)
        BY <1>1 DEF CallGoesOn
  <2>2. CASE c = d BY <2>1, <2>2 DEF Steady, LocalsOK
  <2>3. CASE c # d BY <2>1, <2>3 DEF LocalsOK
  <2> QED BY <2>2, <2>3
<1> QED BY <1>1 DEF CallActs, Accuses

LEMMA DescentKept ==
    ASSUME TypeOK, LocalsOK, Descent, Acts
    PROVE  Descent'
<1>1. Carried(token, token') /\ Stored \subseteq Stored' BY TableKept
<1> DEFINE Ok(i) == /\ token'[i].family \in Stored'
                    /\ token'[i].authn = token'[token'[i].family].issued
                    /\ token'[i].plain \in Stored'
                    /\ token'[token'[i].plain].family = token'[i].family
<1>2. ASSUME NEW i \in Stored PROVE Ok(i)
  <2>1. /\ token[i].family \in Stored /\ token[i].plain \in Stored
        /\ token[i].authn = token[token[i].family].issued
        /\ token[token[i].plain].family = token[i].family
        BY DEF Descent
  <2>2. /\ token'[i].family = token[i].family /\ token'[i].plain = token[i].plain
        /\ token'[i].authn = token[i].authn
        /\ token'[token[i].family].issued = token[token[i].family].issued
        /\ token'[token[i].plain].family = token[token[i].plain].family
        BY <1>1, <2>1, Carriage
  <2> QED BY <1>1, <2>1, <2>2
<1>3. ASSUME NEW c \in Calls, Rotates(c) PROVE Stored' = Stored \cup {written + 1} /\ Ok(written + 1)
  <2> DEFINE i == call[c].id
             n == token'[written + 1]
  <2>1. /\ Stored' = Stored \cup {written + 1} /\ i \in Stored
        /\ n.family = token[i].family /\ n.authn = token[i].authn
        /\ n.plain \in {written + 1, token[i].plain}
        BY <1>3, RotatesTable DEF Live
  <2>2. /\ token'[i].family = token[i].family /\ token'[i].authn = token[i].authn
        /\ token'[i].plain = token[i].plain
        BY <1>1, <2>1, Carriage
  <2>3. Ok(i) BY <1>2, <2>1
  <2> HIDE DEF i
  <2> QED BY <2>1, <2>2, <2>3
<1>4. ASSUME Issues PROVE Stored' = Stored \cup {written + 1} /\ Ok(written + 1)
      BY <1>4, IssuesTable
<1>5. \A i \in Stored' : Ok(i)
      BY <1>2, <1>3, <1>4, QuietTable, RevokesTable DEF Acts, TableActs
<1> QED BY <1>5 DEF Descent

LEMMA OneLiveKept ==
    ASSUME TypeOK, LocalsOK, Descent, OneLive, Acts
    PROVE  OneLive'
<1>1. Carried(token, token') BY TableKept
<1>2. \A i \in Live : token'[i].family = token[i].family BY <1>1, Carriage DEF Live
<1>3. ASSUME Live' \subseteq Live PROVE OneLive'
      BY <1>2, <1>3 DEF OneLive
<1>4. ASSUME NEW c \in Calls, Rotates(c) PROVE OneLive'
  <2> DEFINE i == call[c].id
  <2>1. /\ Live' = (Live \ {i}) \cup {written + 1} /\ i \in Live
        /\ token'[written + 1].family = token[i].family
        BY <1>4, RotatesTable
  <2> HIDE DEF i
  <2> QED BY <1>2, <2>1 DEF OneLive
<1>5. ASSUME Issues PROVE OneLive'
  <2>1. PICK evicted \in SUBSET Live : Live' = (Live \ evicted) \cup {written + 1}
        BY <1>5, IssuesTable
  <2>2. token'[written + 1].family = written + 1 /\ written + 1 \notin Stored
        BY <1>5, IssuesTable
  <2>3. \A i \in Live : token[i].family # written + 1 BY <2>2 DEF Descent, Live
  <2> QED BY <1>2, <2>1, <2>2, <2>3 DEF OneLive
<1> QED BY <1>3, <1>4, <1>5, QuietTable, RevokesTable DEF Acts, TableActs

LEMMA DigestsKept ==
    ASSUME TypeOK, LocalsOK, Digests, Acts
    PROVE  Digests'
<1>1. Carried(token, token') BY TableKept
<1>2. \A i \in Stored : token'[i].info # NoInfo => token'[i].info[2] = token'[i].pepper
      BY <1>1, Carriage DEF Digests
<1>3. ASSUME NEW c \in Calls, Rotates(c) PROVE Digests'
  <2>1. /\ Stored' = Stored \cup {written + 1} /\ token'[written + 1].pepper = pepper
        /\ token'[written + 1].info # NoInfo => token'[written + 1].info[2] = pepper
        BY <1>3, RotatesTable
  <2> QED BY <1>2, <2>1 DEF Digests
<1>4. ASSUME Issues PROVE Digests'
  <2>1. /\ Stored' = Stored \cup {written + 1} /\ token'[written + 1].pepper = pepper
        /\ token'[written + 1].info # NoInfo => token'[written + 1].info[2] = pepper
        BY <1>4, IssuesTable
  <2> QED BY <1>2, <2>1 DEF Digests
<1>5. ASSUME Stored' = Stored PROVE Digests' BY <1>2, <1>5 DEF Digests
<1> QED BY <1>3, <1>4, <1>5, QuietTable, RevokesTable DEF Acts, TableActs

LEMMA KeepsOneKept ==
    ASSUME TypeOK, LocalsOK, RotationKeepsOne, Acts
    PROVE  RotationKeepsOne'
<1>1. Carried(token, token') /\ Stored \subseteq Stored' BY TableKept
<1>2. \A i \in Stored : token'[i].family = token[i].family BY <1>1, Carriage
<1>3. \A i \in Stored : \E j \in Stored : token[j].family = token[i].family /\ token[j].reason # "rotated"
      BY DEF RotationKeepsOne, OfFamily
<1> DEFINE Kept(i) == \E j \in Stored' : token'[j].family = token'[i].family /\ token'[j].reason # "rotated"
<1>4. ASSUME \A j \in Stored : token'[j].reason = "rotated" <=> token[j].reason = "rotated"
      PROVE  \A i \in Stored : Kept(i)
      BY <1>1, <1>2, <1>3, <1>4
<1>5. ASSUME NEW c \in Calls, Rotates(c) PROVE \A i \in Stored' : Kept(i)
  <2> DEFINE p == call[c].id
             n == written + 1
  <2>1. /\ Stored' = Stored \cup {n} /\ p \in Stored
        /\ token'[n].family = token[p].family /\ token'[n].reason = "live"
        /\ \A j \in Stored \ {p} : token'[j] = token[j]
        BY <1>5, RotatesTable DEF Live
  <2>2. ASSUME NEW i \in Stored PROVE Kept(i)
    <3>1. PICK j \in Stored : token[j].family = token[i].family /\ token[j].reason # "rotated" BY <1>3
    <3>2. CASE j = p
      <4>1. token'[n].family = token'[i].family BY <1>2, <2>1, <3>1, <3>2
      <4> QED BY <2>1, <4>1
    <3>3. CASE j # p
      <4>1. token'[j] = token[j] BY <2>1, <3>3
      <4> QED BY <1>1, <1>2, <3>1, <4>1
    <3> QED BY <3>2, <3>3
  <2>3. Kept(n) BY <2>1
  <2> HIDE DEF n, Kept
  <2> QED BY <2>1, <2>2, <2>3
<1>6. ASSUME Issues PROVE \A i \in Stored' : Kept(i)
  <2>1. /\ Stored' = Stored \cup {written + 1} /\ token'[written + 1].reason = "live"
        /\ \A j \in Stored : token'[j].reason = "rotated" <=> token[j].reason = "rotated"
        BY <1>6, IssuesTable
  <2>2. \A i \in Stored : Kept(i) BY <1>4, <2>1
  <2>3. Kept(written + 1) BY <2>1
  <2> HIDE DEF Kept
  <2> QED BY <2>1, <2>2, <2>3
<1>7. \A i \in Stored' : Kept(i)
  <2>1. Revokes => \A i \in Stored' : Kept(i) BY <1>4, RevokesTable
  <2>2. Quiet => \A i \in Stored' : Kept(i) BY <1>4, QuietTable DEF Quiet
  <2> QED BY <2>1, <2>2, <1>5, <1>6 DEF Acts, TableActs
<1> QED BY <1>7 DEF RotationKeepsOne, OfFamily

LEMMA RotatedByKept ==
    ASSUME TypeOK, LocalsOK, RotatedBy, Acts
    PROVE  RotatedBy'
<1>1. CallActs BY DEF Acts
<1> DEFINE By(i) == \E d \in Calls : /\ call'[d].at = "done" /\ call'[d].plain = token'[i].plain
                                     /\ call'[d].now = token'[i].at
<1>2. ASSUME NEW i \in Stored, token[i].reason = "rotated", token'[i] = token[i] PROVE By(i)
  <2>1. PICK d \in Calls : /\ call[d].at = "done" /\ call[d].plain = token[i].plain
                           /\ call[d].now = token[i].at
        BY <1>2 DEF RotatedBy
  <2>2. call'[d] = call[d] BY <1>1, <2>1, CallsSettle
  <2> QED BY <1>2, <2>1, <2>2
<1>3. ASSUME NEW c \in Calls, Rotates(c), NEW i \in Stored', token'[i].reason = "rotated" PROVE By(i)
  <2> DEFINE p == call[c].id
  <2>1. /\ Stored' = Stored \cup {written + 1} /\ p \in Stored
        /\ token'[written + 1].reason = "live"
        /\ \A j \in Stored \ {p} : token'[j] = token[j]
        /\ token'[p].at = call[c].now /\ token[p].plain = call[c].plain
        /\ Carried(token, token')
        BY <1>3, RotatesTable DEF Live
  <2>2. i \in Stored BY <1>3, <2>1
  <2>3. CASE i # p
    <3>1. token'[i] = token[i] BY <2>1, <2>2, <2>3
    <3> QED BY <1>2, <1>3, <2>2, <3>1
  <2>4. CASE i = p
    <3>1. call'[c] = Answered(call[c], "session") BY <1>3 DEF Rotates, Answer, LocalsOK
    <3>2. call[c] \in CallType BY DEF LocalsOK
    <3>3. call'[c].at = "done" /\ call'[c].plain = call[c].plain /\ call'[c].now = call[c].now
          BY <3>1, <3>2 DEF Answered, NewCall, CallType
    <3>4. token'[p].plain = token[p].plain BY <2>1, Carriage
    <3> QED BY <2>1, <2>4, <3>3, <3>4
  <2> QED BY <2>3, <2>4
<1>4. ASSUME \A j \in Stored : token'[j].reason = "rotated" => token'[j] = token[j],
             NEW i \in Stored, token'[i].reason = "rotated"
      PROVE  By(i)
      BY <1>2, <1>4
<1>5. ASSUME NEW i \in Stored', token'[i].reason = "rotated" PROVE By(i)
  <2>1. CASE Quiet BY <2>1, <1>4, <1>5, QuietTable DEF Quiet
  <2>2. CASE Revokes BY <2>2, <1>4, <1>5, RevokesTable
  <2>3. CASE Issues
    <3>1. /\ Stored' = Stored \cup {written + 1} /\ token'[written + 1].reason = "live"
          /\ \A j \in Stored : token'[j].reason = "rotated" => token'[j] = token[j]
          BY <2>3, IssuesTable
    <3>2. i \in Stored BY <1>5, <3>1
    <3> QED BY <1>4, <1>5, <3>1, <3>2
  <2> QED BY <1>3, <1>5, <2>1, <2>2, <2>3 DEF Acts, TableActs
<1> QED BY <1>5 DEF RotatedBy

LEMMA AccusedByKept ==
    ASSUME TypeOK, LocalsOK, Descent, RotatedBy, AccusedBy, Acts
    PROVE  AccusedBy'
<1>1. CallActs /\ Carried(token, token') /\ Stored \subseteq Stored' BY TableKept DEF Acts
<1> DEFINE By(f) == \E c, d \in Calls :
                        /\ c # d
                        /\ call'[c].at \in {"done"} \cup Cascading
                        /\ call'[d].at \in {"done"} \cup Cascading
                        /\ call'[c].plain = call'[d].plain /\ call'[c].plain \in Stored'
                        /\ token'[call'[c].plain].family = f
                        /\ Distance(call'[c].now, call'[d].now) >= Grace
<1>2. ASSUME NEW f \in swept PROVE By(f)
  <2>1. PICK c \in Calls, d \in Calls :
            /\ c # d
            /\ call[c].at \in {"done"} \cup Cascading /\ call[d].at \in {"done"} \cup Cascading
            /\ call[c].plain = call[d].plain /\ call[c].plain \in Stored
            /\ token[call[c].plain].family = f
            /\ Distance(call[c].now, call[d].now) >= Grace
        BY DEF AccusedBy
  <2>2. /\ call'[c].at \in {"done"} \cup Cascading /\ call'[d].at \in {"done"} \cup Cascading
        /\ call'[c].plain = call[c].plain /\ call'[d].plain = call[d].plain
        /\ call'[c].now = call[c].now /\ call'[d].now = call[d].now
        BY <1>1, <2>1, CallsSettle
  <2>3. token'[call[c].plain].family = f BY <1>1, <2>1, Carriage
  <2> QED BY <1>1, <2>1, <2>2, <2>3
<1>3. ASSUME NEW c \in Calls, Accuses(c) PROVE By(token[call[c].id].family)
  <2> DEFINE i == call[c].id
  <2>1. LocalOf(token, call[c]) /\ call[c].at = "family" BY <1>3 DEF LocalsOK, Accuses, At
  <2>2. /\ i \in Stored /\ token[i].plain = call[c].plain /\ token[i].reason = "rotated"
        /\ Distance(call[c].now, token[i].at) >= Grace
        BY <2>1 DEF LocalOf, Holding, Accusing, Stored
  <2>3. PICK d \in Calls : /\ call[d].at = "done" /\ call[d].plain = token[i].plain
                           /\ call[d].now = token[i].at
        BY <2>2 DEF RotatedBy
  <2>4. call'[d] = call[d] BY <1>1, <2>3, CallsSettle
  <2>5. PICK k \in CallType : call' = [call EXCEPT ![c] = k] /\ Steady(call[c], k)
        BY <1>3 DEF Accuses, CallGoesOn
  <2>6. /\ call'[c].at \in {"done"} \cup Cascading
        /\ call'[c].plain = call[c].plain /\ call'[c].now = call[c].now
        BY <2>1, <2>5 DEF Steady, LocalsOK
  <2>7. token[i].plain \in Stored /\ token[token[i].plain].family = token[i].family
        BY <2>2 DEF Descent
  <2>8. token'[token[i].plain].family = token[i].family BY <1>1, <2>7, Carriage
  <2>9. c # d BY <2>1, <2>3
  <2> HIDE DEF i
  <2>10. /\ call'[d].at \in {"done"} \cup Cascading /\ call'[c].plain = call'[d].plain
         /\ call'[c].plain \in Stored' /\ token'[call'[c].plain].family = token[i].family
         /\ Distance(call'[c].now, call'[d].now) >= Grace
         BY <1>1, <2>2, <2>3, <2>4, <2>6, <2>7, <2>8
  <2> QED BY <2>6, <2>9, <2>10 DEF i
<1> HIDE DEF By
<1>4. \A f \in swept' : By(f) BY <1>1, <1>2, <1>3 DEF CallActs, Accuses
<1> QED BY <1>4 DEF AccusedBy, By

(* The live tokens of a user before and after a step. *)
LEMMA LiveFinite ==
    ASSUME TypeOK, NEW u
    PROVE  /\ IsFiniteSet(OfUser(u) \cap Live)
           /\ Cardinality(OfUser(u) \cap Live) \in Nat
<1>1. IsFiniteSet(Ids) BY FS_Interval, RefreshAssumption DEF Ids
<1>2. OfUser(u) \cap Live \in SUBSET Ids BY DEF OfUser, Live, Stored
<1> QED BY <1>1, <1>2, FS_Subset, FS_CardinalityType

LEMMA WithinCapKept ==
    ASSUME TypeOK, LocalsOK, WithinCap, Acts
    PROVE  WithinCap'
<1>1. Carried(token, token') /\ Stored \subseteq Stored' BY TableKept
<1>2. \A i \in Stored : token'[i].user = token[i].user BY <1>1, Carriage
<1>3. SUFFICES ASSUME NEW u \in Users
               PROVE  Cardinality((OfUser(u) \cap Live)') <= MaxPerUser
      BY DEF WithinCap
<1> DEFINE S == OfUser(u) \cap Live
           T == (OfUser(u) \cap Live)'
<1>4. IsFiniteSet(S) /\ Cardinality(S) \in Nat /\ Cardinality(S) <= MaxPerUser
      BY LiveFinite DEF WithinCap
<1>5. \A i : i \in T <=> i \in Live' /\ token'[i].user = u BY DEF OfUser, Live
<1>6. \A i : i \in S <=> i \in Live /\ token[i].user = u BY DEF OfUser, Live
<1>7. \A i \in Live : token'[i].user = token[i].user BY <1>2 DEF Live
<1> HIDE DEF S, T
<1>8. MaxPerUser \in Nat /\ MaxPerUser >= 1 BY RefreshAssumption
<1>9. ASSUME NEW X, X \subseteq S
      PROVE  IsFiniteSet(X) /\ Cardinality(X) \in Nat /\ Cardinality(X) <= Cardinality(S)
      BY <1>4, <1>9, FS_Subset, FS_CardinalityType
<1>10. ASSUME T \subseteq S PROVE Cardinality(T) <= MaxPerUser
       BY <1>4, <1>8, <1>9, <1>10
<1>11. ASSUME Live' \subseteq Live PROVE Cardinality(T) <= MaxPerUser
  <2>1. T \subseteq S BY <1>5, <1>6, <1>7, <1>11
  <2> QED BY <1>10, <2>1
<1>12. ASSUME NEW c \in Calls, Rotates(c) PROVE Cardinality(T) <= MaxPerUser
  <2> DEFINE i == call[c].id
             n == written + 1
  <2>1. /\ Live' = (Live \ {i}) \cup {n} /\ i \in Live /\ n \notin Stored
        /\ token'[n].user = token[i].user
        BY <1>12, RotatesTable
  <2>2. n \notin Live BY <2>1 DEF Live
  <2> HIDE DEF i, n
  <2>3. CASE token[i].user # u
    <3>1. T \subseteq S BY <1>5, <1>6, <1>7, <2>1, <2>3
    <3> QED BY <3>1, <1>10
  <2>4. CASE token[i].user = u
    <3>1. i \in S /\ n \notin S \ {i} BY <1>6, <2>1, <2>2, <2>4
    <3>2. T = (S \ {i}) \cup {n} BY <1>5, <1>6, <1>7, <2>1, <2>4
    <3>3. IsFiniteSet(S \ {i}) /\ Cardinality(S \ {i}) = Cardinality(S) - 1
          BY <1>4, <3>1, FS_RemoveElement
    <3>4. Cardinality(T) = Cardinality(S \ {i}) + 1 BY <3>1, <3>2, <3>3, FS_AddElement
    <3> QED BY <1>4, <1>8, <3>3, <3>4
  <2> QED BY <2>3, <2>4
<1>13. ASSUME Issues PROVE Cardinality(T) <= MaxPerUser
  <2> DEFINE n == written + 1
             v == token'[n].user
             active == OfUser(v) \cap Live
  <2>1. n \notin Stored BY <1>13, IssuesTable
  <2>2. PICK evicted \in SUBSET Live :
            /\ Live' = (Live \ evicted) \cup {n}
            /\ evicted \subseteq active
            /\ Cardinality(evicted) = IF Cardinality(active) + 1 > MaxPerUser
                                      THEN Cardinality(active) + 1 - MaxPerUser ELSE 0
        BY <1>13, IssuesTable
  <2>3. n \notin Live BY <2>1 DEF Live
  <2>4. active = S \/ v # u BY DEF S
  <2>5. IsFiniteSet(active) /\ Cardinality(active) \in Nat BY LiveFinite
  <2> HIDE DEF n
  <2>6. CASE v # u
    <3>1. T \subseteq S BY <1>5, <1>6, <1>7, <2>2, <2>6
    <3> QED BY <3>1, <1>10
  <2>7. CASE v = u
    <3>1. active = S BY <2>4, <2>7
    <3>2. T = (S \ evicted) \cup {n} BY <1>5, <1>6, <1>7, <2>2, <2>7
    <3>3. evicted \subseteq S BY <2>2, <3>1
    <3>4. /\ IsFiniteSet(S \ evicted)
          /\ Cardinality(S \ evicted) = Cardinality(S) - Cardinality(S \cap evicted)
          BY <1>4, FS_Difference
    <3>5. S \cap evicted = evicted BY <3>3
    <3>6. n \notin S \ evicted BY <1>6, <2>3
    <3>7. Cardinality(T) = Cardinality(S \ evicted) + 1 BY <3>2, <3>4, <3>6, FS_AddElement
    <3>8. Cardinality(evicted) = IF Cardinality(S) + 1 > MaxPerUser
                                 THEN Cardinality(S) + 1 - MaxPerUser ELSE 0
          BY <2>2, <3>1
    <3>9. Cardinality(T) = Cardinality(S) - Cardinality(evicted) + 1 BY <3>4, <3>5, <3>7
    <3>10. Cardinality(evicted) \in Nat BY <1>9, <3>3
    <3>11. \A m, a, e, x \in Nat : m >= 1 /\ a <= m /\ e = (IF a + 1 > m THEN a + 1 - m ELSE 0)
                                  /\ x = a - e + 1 => x <= m
           OBVIOUS
    <3>12. Cardinality(T) \in Nat
           BY <1>4, <3>2, <3>4, FS_AddElement, FS_CardinalityType
    <3> QED BY <1>4, <1>8, <3>8, <3>9, <3>10, <3>11, <3>12
  <2> QED BY <2>6, <2>7
<1>14. Live' \subseteq Live \/ Issues \/ \E c \in Calls : Rotates(c)
       BY RevokesTable, QuietTable DEF Acts, TableActs
<1>15. Cardinality(T) <= MaxPerUser BY <1>11, <1>12, <1>13, <1>14
<1> QED BY <1>15 DEF T

-----------------------------------------------------------------------------
LEMMA InitOK == Init => IInv
<1> SUFFICES ASSUME Init PROVE IInv OBVIOUS
<1>1. Stored = {} /\ Live = {} BY DEF Init, Stored, Live
<1>2. TypeOK
  <2>1. token \in [Ids -> Token \cup {NoToken}] BY DEF Init
  <2>2. Stored = 1 .. written BY <1>1 DEF Init
  <2> QED BY <2>1, <2>2, RefreshAssumption DEF Init, TypeOK
<1>3. LocalsOK BY NewCallType DEF Init, LocalsOK
<1>4. Descent /\ OneLive /\ Digests /\ RotationKeepsOne /\ RotatedBy /\ AccusedBy
      BY <1>1 DEF Init, Descent, OneLive, Digests, RotationKeepsOne, RotatedBy, AccusedBy
<1>5. WithinCap
  <2>1. \A u \in Users : OfUser(u) \cap Live = {} BY <1>1
  <2> QED BY <2>1, FS_EmptySet, RefreshAssumption DEF WithinCap
<1> QED BY <1>2, <1>3, <1>4, <1>5 DEF IInv

LEMMA StepOK == IInv /\ [Next]_vars => IInv'
<1> SUFFICES ASSUME IInv, [Next]_vars PROVE IInv' OBVIOUS
<1>1. CASE Next
  <2>1. Acts /\ rotation' \in BOOLEAN /\ events' \in 0 .. MaxEvents
        BY <1>1, NextActs DEF IInv
  <2>2. TypeOK' BY <2>1, TypeKept DEF IInv
  <2>3. LocalsOK' BY <2>1, LocalsKept DEF IInv
  <2>4. Descent' BY <2>1, DescentKept DEF IInv
  <2>5. OneLive' BY <2>1, OneLiveKept DEF IInv
  <2>6. Digests' BY <2>1, DigestsKept DEF IInv
  <2>7. RotationKeepsOne' BY <2>1, KeepsOneKept DEF IInv
  <2>8. RotatedBy' BY <2>1, RotatedByKept DEF IInv
  <2>9. AccusedBy' BY <2>1, AccusedByKept DEF IInv
  <2>10. WithinCap' BY <2>1, WithinCapKept DEF IInv
  <2> QED BY <2>2, <2>3, <2>4, <2>5, <2>6, <2>7, <2>8, <2>9, <2>10 DEF IInv
<1>2. CASE UNCHANGED vars
  <2>1. TypeOK' /\ LocalsOK'
        BY <1>2 DEF IInv, vars, TypeOK, LocalsOK, Stored
  <2>2. Stored' = Stored /\ Live' = Live BY <1>2 DEF vars, Stored, Live
  <2>3. Descent' /\ OneLive' /\ Digests' /\ RotatedBy' /\ AccusedBy'
        BY <1>2, <2>2 DEF IInv, vars, Descent, OneLive, Digests, RotatedBy, AccusedBy
  <2>4. RotationKeepsOne' /\ WithinCap'
        BY <1>2, <2>2 DEF IInv, vars, RotationKeepsOne, WithinCap, OfFamily, OfUser
  <2> QED BY <2>1, <2>3, <2>4 DEF IInv
<1> QED BY <1>1, <1>2

LEMMA Inductive == Spec => []IInv
BY InitOK, StepOK, PTL DEF Spec

(* Whatever calls are interleaved and whichever store calls fail, every    *)
(* record of the table, every call and every other variable has its type,  *)
(* and records are stored in the order they are numbered.                  *)
THEOREM Typing == Spec => []TypeOK
<1>1. IInv => TypeOK BY DEF IInv
<1> QED BY <1>1, Inductive, PTL

(* A family is accused only when one of its tokens was presented twice, at *)
(* times at least the grace apart.  (handle_revoked_reuse)                 *)
THEOREM Accused == Spec => []AccusedOnlyOnReuse
<1>1. ASSUME IInv PROVE AccusedOnlyOnReuse
      BY <1>1 DEF IInv, AccusedBy, AccusedOnlyOnReuse, Stored
<1> QED BY <1>1, Inductive, PTL

(* A family none of whose tokens can be used any more was not ended by     *)
(* rotation.  (rotate_token)                                               *)
THEOREM KeepsOne == Spec => []RotationKeepsOne
<1>1. IInv => RotationKeepsOne BY DEF IInv
<1> QED BY <1>1, Inductive, PTL

(* A replacement carries the time of the login and a digest under its own  *)
(* pepper, and no session is answered past the lifetime.                   *)
(* (replacement_for, token_expired)                                        *)
THEOREM Inherits == Spec => []SuccessorInherits
<1>1. ASSUME IInv PROVE LoginTimeKept
  <2> SUFFICES ASSUME NEW c \in Calls, call[c].answer = "session"
               PROVE  LET login == token[token[call[c].id].family].issued
                      IN  token[call[c].id].authn = login /\ call[c].now < login + MaxLifetime
      BY DEF LoginTimeKept
  <2>1. LocalOf(token, call[c]) BY <1>1 DEF IInv, LocalsOK
  <2>2. call[c].id \in Stored /\ call[c].now < token[call[c].id].authn + MaxLifetime
        BY <2>1 DEF LocalOf, InLifetime, Stored
  <2> QED BY <1>1, <2>2 DEF IInv, Descent
<1>2. ASSUME IInv PROVE BindingFollowsPepper
      BY <1>2 DEF IInv, Digests, BindingFollowsPepper, Live
<1>3. IInv => SuccessorInherits BY <1>1, <1>2 DEF SuccessorInherits
<1> QED BY <1>3, Inductive, PTL

(* No user ever has more live tokens than max_per_user.  (issue_capped)    *)
THEOREM Capped == Spec => []WithinCap
<1>1. IInv => WithinCap BY DEF IInv
<1> QED BY <1>1, Inductive, PTL

-----------------------------------------------------------------------------
(* The refinement: which of its steps a family takes. *)
UsableOf(f) == OfFamily(f) \cap Live

LEMMA UsableIs ==
    ASSUME TypeOK, NEW f \in Ids, NEW i
    PROVE  i \in UsableOf(f) <=> i \in Live /\ token[i].family = f
BY DEF UsableOf, OfFamily, Live

LEMMA UsableWas ==
    ASSUME NEW f \in Ids, NEW i
    PROVE  i \in UsableOf(f)' <=> i \in Live' /\ token'[i].family = f
BY DEF UsableOf, OfFamily, Live

(* When live records only cease to be, a family stays as it is or ends. *)
LEMMA FamilyEnds ==
    ASSUME TypeOK, OneLive, NEW f \in Ids, Carried(token, token'),
           \A i \in UsableOf(f)' : i \in Live
    PROVE  UsableOf(f)' = UsableOf(f) \/ UsableOf(f)' = {}
<1>1. \A i \in Live : token'[i].family = token[i].family BY Carriage DEF Live
<1>2. UsableOf(f)' \subseteq UsableOf(f) BY <1>1, UsableIs, UsableWas
<1>3. \A i, j \in UsableOf(f) : i = j BY UsableIs DEF OneLive
<1> QED BY <1>2, <1>3

LEMMA FamiliesStep ==
    ASSUME IInv, Acts
    PROVE  Families!FamiliesNext
<1>1. /\ TypeOK /\ LocalsOK /\ Descent /\ OneLive
      /\ Carried(token, token') /\ Stored \subseteq Stored'
      BY TableKept DEF IInv
<1>2. \A i \in Live : token'[i].family = token[i].family BY <1>1, Carriage DEF Live
<1>3. \A f \in Ids : UsableOf(f) \subseteq Stored /\ UsableOf(f)' \subseteq Stored'
      BY DEF UsableOf, Live
<1> DEFINE Begins(f) == f \notin Stored /\ UsableOf(f)' = {f}
           HandsOver(f) == UsableOf(f) # {} /\ \E n \in Ids \ Stored : UsableOf(f)' = {n}
           Moves(f) == \/ UsableOf(f)' = UsableOf(f) \/ Begins(f)
                       \/ HandsOver(f) \/ UsableOf(f)' = {}
           Spends == Stored' = Stored \cup UNION {UsableOf(f)' : f \in Ids}
<1>4. ASSUME Live' \subseteq Live, Stored' = Stored PROVE (\A f \in Ids : Moves(f)) /\ Spends
  <2>1. \A f \in Ids : Moves(f) BY <1>1, <1>4, FamilyEnds, UsableWas
  <2>2. Spends BY <1>3, <1>4
  <2> QED BY <2>1, <2>2
<1>5. ASSUME NEW g \in Ids, NEW n \in Ids \ Stored, Stored' = Stored \cup {n}, UsableOf(g)' = {n}
      PROVE  Spends
      BY <1>3, <1>5
<1>6. ASSUME NEW c \in Calls, Rotates(c) PROVE (\A f \in Ids : Moves(f)) /\ Spends
  <2>1. /\ Live' = (Live \ {call[c].id}) \cup {written + 1} /\ call[c].id \in Live
        /\ written + 1 \in Ids \ Stored /\ Stored' = Stored \cup {written + 1}
        /\ token'[written + 1].family = token[call[c].id].family
        BY <1>1, <1>6, RotatesTable
  <2>2. token[call[c].id].family \in Ids BY <2>1, Numbers, TokenFields, <1>1 DEF Live
  <2>3. PICK n \in Ids \ Stored, i \in Live, g \in Ids :
            /\ Live' = (Live \ {i}) \cup {n} /\ Stored' = Stored \cup {n}
            /\ token[i].family = g /\ token'[n].family = g
        BY <2>1, <2>2
  <2>4. UsableOf(g)' = {n}
    <3>1. \A j \in UsableOf(g)' : j = n BY <1>1, <1>2, <2>3, UsableWas DEF OneLive
    <3>2. n \in UsableOf(g)' BY <2>3, UsableWas
    <3> QED BY <3>1, <3>2
  <2>5. i \in UsableOf(g) BY <1>1, <2>3, UsableIs
  <2>6. Moves(g) BY <2>4, <2>5
  <2>7. ASSUME NEW f \in Ids, f # g PROVE Moves(f)
    <3>1. \A j \in UsableOf(f)' : j \in Live BY <2>3, <2>7, UsableWas
    <3>2. UsableOf(f)' = UsableOf(f) \/ UsableOf(f)' = {} BY <1>1, <3>1, FamilyEnds
    <3> QED BY <3>2
  <2>8. Spends BY <1>5, <2>3, <2>4
  <2> HIDE DEF Moves, Spends
  <2> QED BY <2>6, <2>7, <2>8
<1>7. ASSUME Issues PROVE (\A f \in Ids : Moves(f)) /\ Spends
  <2>1. PICK evicted \in SUBSET Live : Live' = (Live \ evicted) \cup {written + 1}
        BY <1>7, <1>1, IssuesTable
  <2>2. PICK n \in Ids \ Stored : /\ n = written + 1 /\ Stored' = Stored \cup {n}
                                  /\ token'[n].family = n
        BY <1>7, <1>1, IssuesTable
  <2>3. \A j \in Live : token'[j].family # n BY <1>1, <1>2, <2>2 DEF Descent, Live
  <2>4. UsableOf(n)' = {n}
    <3>1. \A j \in UsableOf(n)' : j = n BY <2>1, <2>2, <2>3, UsableWas
    <3>2. n \in UsableOf(n)' BY <2>1, <2>2, UsableWas
    <3> QED BY <3>1, <3>2
  <2>5. Moves(n) BY <2>2, <2>4
  <2>6. ASSUME NEW f \in Ids, f # n PROVE Moves(f)
    <3>1. \A j \in UsableOf(f)' : j \in Live BY <2>1, <2>2, <2>6, UsableWas
    <3>2. UsableOf(f)' = UsableOf(f) \/ UsableOf(f)' = {} BY <1>1, <3>1, FamilyEnds
    <3> QED BY <3>2
  <2>7. Spends BY <1>5, <2>2, <2>4
  <2> HIDE DEF Moves, Spends
  <2> QED BY <2>5, <2>6, <2>7
<1>8. (\A f \in Ids : Moves(f)) /\ Spends
  <2> HIDE DEF Moves, Spends
  <2>1. (Live' \subseteq Live /\ Stored' = Stored) \/ Issues \/ \E c \in Calls : Rotates(c)
        BY <1>1, QuietTable, RevokesTable DEF Acts, TableActs
  <2> QED BY <2>1, <1>4, <1>6, <1>7
<1> QED BY <1>8 DEF Families!FamiliesNext, Families!Begin, Families!HandOver, Families!End, UsableOf

(* Rotation implements token families: one usable token at most, handed    *)
(* over to a record that never was usable, and a family that has ended     *)
(* stays ended, whatever refresh was in flight.  (rotate_token,            *)
(* revoke_family)                                                          *)
THEOREM Refinement == Spec => ImplementsFamilies
<1>1. Init => Families!FamiliesInit
  <2> SUFFICES ASSUME Init PROVE Families!FamiliesInit OBVIOUS
  <2>1. Stored = {} /\ Live = {} BY DEF Init, Stored, Live
  <2> QED BY <2>1 DEF Families!FamiliesInit
<1>2. ASSUME IInv, [Next]_vars PROVE [Families!FamiliesNext]_(Families!famVars)
  <2>1. CASE Next BY <1>2, <2>1, NextActs, FamiliesStep DEF IInv
  <2>2. CASE UNCHANGED vars
    <3>1. Stored' = Stored /\ Live' = Live /\ token' = token BY <2>2 DEF vars, Stored, Live
    <3> QED BY <3>1 DEF Families!famVars, OfFamily
  <2> QED BY <1>2, <2>1, <2>2
<1> QED BY <1>1, <1>2, Inductive, PTL DEF Spec, ImplementsFamilies, Families!FamiliesSpec

=============================================================================
