-------------------------------- MODULE Session --------------------------------
(* Sign-in and sessions of one account (packages/m02-auth/src): the password *)
(* and the lockout, the sessions a login opens, and the chain of refresh     *)
(* tokens by which a session renews itself.                                  *)
(*                                                                           *)
(* Every call is one transaction; it is split here where another may commit  *)
(* between what it read and what it writes.  A login counts the failures,    *)
(* then compares the password (the slow part), then records.  A refresh      *)
(* reads the token, then consumes it, which locks the token until the        *)
(* commit, then rotates.  A change of the password locks the credential and  *)
(* the sessions it revokes, and shows nothing of it before its commit.       *)
(* Writes to sessions name the status they expect.                           *)
(* A session is a rotation family of its own: only its tokens rotate.        *)
(*                                                                           *)
(* A refresh token outlives its session's absolute bound (14 days, 12 hours):*)
(* an expired one is refused and changes nothing.  History, audit and outbox *)
(* rows go with the writes here and nothing reads them back.                 *)
EXTENDS Integers, Sequences, FiniteSets

CONSTANTS
  Sessions,     \* ids of the sessions of the account
  Logins,       \* login calls that may be open at once
  Clients,      \* refresh and resolve calls that may be open at once
  MaxFailures,  \* LOCKOUT_MAX_FAILURES
  Fallback,     \* FINAPP_PASSWORD_HASHER=scrypt: what is hashed is to be hashed again
  MaxRecorded,  \* bound: failed logins after which none begins
  MaxTokens,    \* bound: refresh tokens of a session
  MaxChanges,   \* bound: changes of the password
  MaxFaults     \* bound: calls that end without a commit

ASSUME SessionAssumption ==
  /\ IsFiniteSet(Logins) /\ Logins # {} /\ Fallback \in BOOLEAN
  /\ MaxFailures \in Nat \ {0} /\ MaxRecorded \in Nat /\ MaxTokens \in Nat
  /\ MaxChanges \in Nat /\ MaxFaults \in Nat

VARIABLES
  credential,  \* authentication_credentials: which password, and if it is hashed weakly
  failures,    \* login_attempts: the failed rows of the lockout window
  session,     \* sessions: the row of each
  tokens,      \* session_refresh_tokens: for each, whether it is consumed (consumed_at)
  login,       \* what each login call has open
  client,      \* what each refresh or resolve call has open
  change,      \* the change of the password that has not committed yet
  changes,     \* history: how many times the password changed
  swept,       \* history: sessions that a change of the password revoked
  guesses,     \* history: wrong passwords that were compared
  reused,      \* history: sessions that answered a refresh with 'reuse'
  faults       \* how many calls were lost (bound)

account == <<credential, failures, change, changes, swept, guesses>>
ledger == <<session, tokens, reused>>
vars == <<account, ledger, login, client, faults>>

Idle == [phase |-> "idle"]
NoSession == [status |-> "none", version |-> 0, idle |-> FALSE, absolute |-> FALSE, born |-> 0]
Ended == {"revoked", "expired"}

Init ==
  /\ credential \in [password : {0}, weak : BOOLEAN]
  /\ failures = 0
  /\ session = [s \in Sessions |-> NoSession]
  /\ tokens = [s \in Sessions |-> << >>]
  /\ login = [l \in Logins |-> Idle]
  /\ client = [c \in Clients |-> Idle]
  /\ change = Idle /\ changes = 0 /\ swept = {} /\ guesses = 0 /\ reused = {} /\ faults = 0

-----------------------------------------------------------------------------
(* auth.service.ts and attempt.service.ts: login                           *)

\* isLockedOut: the failures are counted before anything is compared, and no
\* lock keeps the others of the account from doing the same.
LockedOut_OneMore == failures > MaxFailures
LockedOut == failures >= MaxFailures

BeginLogin(l) ==
  /\ login[l] = Idle /\ failures < MaxRecorded
  /\ login' = [login EXCEPT ![l] = [phase |-> IF LockedOut THEN "refused" ELSE "admitted"]]
  /\ UNCHANGED <<account, ledger, client, faults>>

\* verifyInTx: the credential is read and its hash compared.
Verify(l) ==
  /\ login[l].phase = "admitted"
  /\ \/ /\ login' = [login EXCEPT ![l] = [phase |-> "verified", saw |-> credential]]
        /\ UNCHANGED guesses
     \/ /\ login' = [login EXCEPT ![l] = [phase |-> "refused"]]
        /\ guesses' = guesses + 1
  /\ UNCHANGED <<credential, failures, change, changes, swept, ledger, client, faults>>

RefuseLogin(l) ==
  /\ login[l].phase = "refused"
  /\ failures' = failures + 1
  /\ login' = [login EXCEPT ![l] = Idle]
  /\ UNCHANGED <<credential, change, changes, swept, guesses, ledger, client, faults>>

\* rehashInTx writes back what the login compared with, whatever is there now.
Rehashed(saw) ==
  IF saw.weak THEN [password |-> saw.password, weak |-> Fallback] ELSE credential

\* issueInTx.  The session is born of the password the login compared; a rehash
\* waits for a change that holds the credential.
OpenSession(l, s) ==
  /\ login[l].phase = "verified" /\ (login[l].saw.weak => change = Idle)
  /\ session[s].status = "none"
  /\ credential' = Rehashed(login[l].saw)
  /\ session' = [session EXCEPT ![s] =
       [NoSession EXCEPT !.status = "active", !.version = 1, !.born = login[l].saw.password]]
  /\ tokens' = [tokens EXCEPT ![s] = <<"live">>]
  /\ login' = [login EXCEPT ![l] = Idle]
  /\ UNCHANGED <<failures, change, changes, swept, guesses, reused, client, faults>>

\* setStatus, revokeFamily and revokeAllForAccount end active rows only.
End(s, status) == IF session[s].status = "active"
                  THEN [session[s] EXCEPT !.status = status] ELSE session[s]

\* changePassword replaces the secret, which locks the credential, and revokes
\* the sessions it finds active; until it commits, the others see none of it and
\* whoever writes one of these sessions waits.
BeginChange ==
  /\ change = Idle /\ changes < MaxChanges
  /\ change' = [phase |-> "open", found |-> {s \in Sessions : session[s].status = "active"}]
  /\ UNCHANGED <<credential, failures, changes, swept, guesses, ledger, login, client, faults>>

Locked(s) == change # Idle /\ s \in change.found

RevokedByChange_Unrenewed(s) == IF session[s].version = 1 THEN End(s, "revoked") ELSE session[s]
RevokedByChange(s) == End(s, "revoked")

CommitChange ==
  /\ change # Idle /\ change' = Idle
  /\ changes' = changes + 1
  /\ credential' = [password |-> changes', weak |-> Fallback]
  /\ session' = [s \in Sessions |-> IF s \in change.found THEN RevokedByChange(s) ELSE session[s]]
  /\ swept' = swept \cup change.found
  /\ UNCHANGED <<failures, guesses, tokens, reused, login, client, faults>>

-----------------------------------------------------------------------------
(* session.service.ts: refresh                                             *)

BeginRefresh(c, s, n) ==
  /\ client[c] = Idle /\ n < MaxTokens
  /\ client' = [client EXCEPT ![c] =
       [phase |-> IF tokens[s][n] = "consumed" THEN "reuse" ELSE "fresh", session |-> s, token |-> n]]
  /\ UNCHANGED <<account, ledger, login, faults>>

Held(s, n) == \E c \in Clients : client[c] = [phase |-> "holding", session |-> s, token |-> n]

\* consumeRefreshToken: one call wins; the others wait for it to commit, find
\* the token consumed, and have reused it.
Won_Anyhow(s, n) == n \in DOMAIN tokens[s]
Won(s, n) == tokens[s][n] = "live"

Consume(c) ==
  /\ client[c].phase = "fresh"
  /\ LET s == client[c].session  n == client[c].token IN
     /\ ~Held(s, n)
     /\ client' = [client EXCEPT ![c].phase = IF Won(s, n) THEN "holding" ELSE "reuse"]
  /\ UNCHANGED <<account, ledger, login, faults>>

\* rotate looks at the status again, so one that ended meanwhile stays as it is.
MayRotate_Stale(s) == session[s].status # "none" /\ ~session[s].absolute
MayRotate(s) == session[s].status = "active" /\ ~session[s].absolute

Rotate(c) ==
  /\ client[c].phase = "holding" /\ ~Locked(client[c].session)
  /\ LET s == client[c].session
         consumed == [tokens[s] EXCEPT ![client[c].token] = "consumed"]
     IN \/ /\ MayRotate(s)
           /\ session' = [session EXCEPT ![s].version = @ + 1, ![s].idle = FALSE]
           /\ tokens' = [tokens EXCEPT ![s] = Append(consumed, "live")]
        \/ /\ ~MayRotate(s)
           /\ session' = [session EXCEPT ![s] = End(s, "expired")]
           /\ tokens' = [tokens EXCEPT ![s] = consumed]
  /\ client' = [client EXCEPT ![c] = Idle]
  /\ UNCHANGED <<account, reused, login, faults>>

\* revokeFamilyInTx.
RevokeFamily_OfLatest(s, n) == IF n + 1 = Len(tokens[s]) THEN End(s, "revoked") ELSE session[s]
RevokeFamily(s, n) == End(s, "revoked")

Reuse(c) ==
  /\ client[c].phase = "reuse" /\ ~Locked(client[c].session)
  /\ LET s == client[c].session IN
     /\ session' = [session EXCEPT ![s] = RevokeFamily(s, client[c].token)]
     /\ reused' = reused \cup {s}
  /\ client' = [client EXCEPT ![c] = Idle]
  /\ UNCHANGED <<account, tokens, login, faults>>

-----------------------------------------------------------------------------
(* resolveToken, revokeOwn and revokeAdmin                                 *)

\* The row decides what the call writes, and may have changed when it does.
BeginResolve(c, s) ==
  /\ client[c] = Idle
  /\ session[s].status = "active"
  /\ client' = [client EXCEPT ![c] =
       [phase |-> IF session[s].idle \/ session[s].absolute THEN "lapsed" ELSE "usable",
        session |-> s]]
  /\ UNCHANGED <<account, ledger, login, faults>>

\* touchLastUsed asks for no status; expire does.
EndResolve(c) ==
  /\ client[c].phase \in {"lapsed", "usable"} /\ ~Locked(client[c].session)
  /\ LET s == client[c].session IN
     session' = [session EXCEPT ![s] = IF client[c].phase = "lapsed" THEN End(s, "expired")
                                       ELSE [session[s] EXCEPT !.idle = FALSE]]
  /\ client' = [client EXCEPT ![c] = Idle]
  /\ UNCHANGED <<account, tokens, reused, login, faults>>

Revoke(s) ==
  /\ session[s].status = "active" /\ ~Locked(s)
  /\ session' = [session EXCEPT ![s] = End(s, "revoked")]
  /\ UNCHANGED <<account, tokens, reused, login, client, faults>>

-----------------------------------------------------------------------------
(* The clock passes a bound of a session; a call is lost and rolled back   *)

Lapse(s, bound) ==
  /\ session[s].status = "active" /\ ~session[s][bound]
  /\ session' = [session EXCEPT ![s][bound] = TRUE]
  /\ UNCHANGED <<account, tokens, reused, login, client, faults>>

Lose ==
  /\ faults < MaxFaults /\ faults' = faults + 1
  /\ \/ \E l \in Logins : /\ login[l] # Idle
                          /\ login' = [login EXCEPT ![l] = Idle] /\ UNCHANGED <<client, change>>
     \/ \E c \in Clients : /\ client[c] # Idle
                           /\ client' = [client EXCEPT ![c] = Idle] /\ UNCHANGED <<login, change>>
     \/ change # Idle /\ change' = Idle /\ UNCHANGED <<login, client>>
  /\ UNCHANGED <<credential, failures, changes, swept, guesses, ledger>>

Next ==
  \/ \E l \in Logins : \/ BeginLogin(l) \/ Verify(l) \/ RefuseLogin(l)
                       \/ \E s \in Sessions : OpenSession(l, s)
  \/ BeginChange \/ CommitChange
  \/ \E c \in Clients, s \in Sessions :
       BeginResolve(c, s) \/ \E n \in DOMAIN tokens[s] : BeginRefresh(c, s, n)
  \/ \E c \in Clients : Consume(c) \/ Rotate(c) \/ Reuse(c) \/ EndResolve(c)
  \/ \E s \in Sessions : Revoke(s) \/ \E bound \in {"idle", "absolute"} : Lapse(s, bound)
  \/ Lose

Spec == Init /\ [][Next]_vars

-----------------------------------------------------------------------------
(* Properties                                                              *)

TokenStatus == {"live", "consumed"}
SessionRows == [status : {"none", "active"} \cup Ended, version : Nat,
                idle : BOOLEAN, absolute : BOOLEAN, born : Nat]
ChangeCalls == {Idle} \cup [phase : {"open"}, found : SUBSET Sessions]
LoginCalls == {Idle} \cup [phase : {"admitted", "refused"}]
  \cup [phase : {"verified"}, saw : [password : Nat, weak : BOOLEAN]]
RefreshCalls == [phase : {"fresh", "holding", "reuse"}, session : Sessions, token : Nat \ {0}]
ClientCalls == {Idle} \cup RefreshCalls
  \cup [phase : {"lapsed", "usable"}, session : Sessions]

\* The rows and the open calls have their types.
SessionTypeOK ==
  /\ credential \in [password : Nat, weak : BOOLEAN]
  /\ failures \in Nat /\ changes \in Nat /\ guesses \in Nat /\ faults \in Nat
  /\ session \in [Sessions -> SessionRows]
  /\ tokens \in [Sessions -> Seq(TokenStatus)]
  /\ login \in [Logins -> LoginCalls]
  /\ client \in [Clients -> ClientCalls]
  /\ change \in ChangeCalls /\ swept \in SUBSET Sessions
  /\ reused \in SUBSET Sessions

\* However many calls present however old a token, the tokens of a session are
\* one chain: all but the newest were exchanged, each for the next, and as long
\* as the session lives the newest can still be exchanged.
TokensAreOneChain ==
  \A s \in Sessions :
    LET n == Len(tokens[s]) IN
    /\ session[s].version = n
    /\ \A i \in 1 .. n - 1 : tokens[s][i] = "consumed"
    /\ session[s].status = "active" => tokens[s][n] = "live"

\* Once a session answered that a token was reused, it is over, whichever of
\* the racing refreshes got the next token.
ReuseEndsTheFamily == \A s \in reused : session[s].status \in Ended

\* A session that ended keeps its status and mints no token, whatever the calls
\* that read it before it ended were about to write.
EndedMintsNothing ==
  [][\A s \in Sessions : session[s].status \in Ended =>
       /\ session'[s].status = session[s].status
       /\ Len(tokens'[s]) = Len(tokens[s])]_vars

\* A session that was open when a change of the password revoked is over once
\* the change has committed, whatever refreshes, resolves and logins had it open
\* or wait for its lock.  (A session that a login opens between the UPDATE and the
\* COMMIT of the change is not among them, and lives on the old password.)
ChangeEndsSessions == \A s \in swept : session[s].status \in Ended

\* Logins that race past the count compare more passwords than the lockout
\* allows: by one each, and by those whose call was lost before it recorded.
LockoutHolds == guesses <= MaxFailures + Cardinality(Logins) - 1 + faults

\* Claimed by auth.service.ts ("Changes a password"): the live secret is the
\* one the last change set.
PasswordChangeSticks == credential.password = changes
===============================================================================
