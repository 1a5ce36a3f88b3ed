----------------------------- MODULE SessionProofs -----------------------------
(* Theorems about Session, for every number of sessions, logins and clients  *)
(* and every bound.  The chain of refresh tokens holds because the token row *)
(* is locked by the one call that may exchange it, and because every write   *)
(* to a session names the status it expects.                                 *)
EXTENDS Session, FiniteSetTheorems, SequenceTheorems, TLAPS

\* What the open calls know: a session with calls was opened; a token that is
\* presented was issued, and the one that is held is not consumed and is held
\* by one call only; and a change revokes sessions that were opened.
CallsFit ==
  /\ \A s \in Sessions : session[s].status = "none" <=> Len(tokens[s]) = 0
  /\ \A c \in Clients : client[c] # Idle => session[client[c].session].status # "none"
  /\ \A c \in Clients : client[c].phase \in {"fresh", "holding"} =>
       client[c].token \in 1..Len(tokens[client[c].session])
  /\ \A c \in Clients : client[c].phase = "holding" =>
       tokens[client[c].session][client[c].token] = "live"
  /\ \A c, d \in Clients :
       (/\ client[c].phase = "holding" /\ client[d].phase = "holding"
        /\ client[c].session = client[d].session) => c = d
  /\ change # Idle => \A s \in change.found : session[s].status # "none"

-----------------------------------------------------------------------------
(* Typing                                                                  *)

\* The first state is typed.
LEMMA InitTyped == Init => SessionTypeOK
BY SessionAssumption
DEF Init, SessionTypeOK, SessionRows, LoginCalls, ClientCalls, RefreshCalls, ChangeCalls,
    NoSession, Idle, Ended

\* What a client may be doing.
LEMMA ClientCases ==
  ASSUME NEW x \in ClientCalls
  PROVE  \/ x = Idle /\ x.phase = "idle"
         \/ /\ x \in RefreshCalls /\ x.phase \in {"fresh", "holding", "reuse"}
            /\ x.session \in Sessions /\ x.token \in Nat \ {0}
         \/ x.phase \in {"lapsed", "usable"} /\ x.session \in Sessions
<1>1. CASE x = Idle
  BY <1>1 DEF Idle
<1>2. CASE x \in RefreshCalls
  BY <1>2 DEF RefreshCalls
<1>3. CASE x \in [phase : {"lapsed", "usable"}, session : Sessions]
  BY <1>3
<1> QED BY <1>1, <1>2, <1>3 DEF ClientCalls

\* What a login may be doing.
LEMMA LoginCases ==
  ASSUME NEW x \in LoginCalls
  PROVE  \/ x = Idle /\ x.phase = "idle"
         \/ x.phase \in {"admitted", "refused"}
         \/ x.phase = "verified" /\ x.saw \in [password : Nat, weak : BOOLEAN]
<1>1. CASE x = Idle
  BY <1>1 DEF Idle
<1>2. CASE x \in [phase : {"admitted", "refused"}]
  BY <1>2
<1>3. CASE x \in [phase : {"verified"}, saw : [password : Nat, weak : BOOLEAN]]
  BY <1>3
<1> QED BY <1>1, <1>2, <1>3 DEF LoginCalls

\* What a change of the password has found.
LEMMA FoundIsTyped ==
  ASSUME SessionTypeOK, change # Idle
  PROVE  change.found \in SUBSET Sessions
BY DEF SessionTypeOK, ChangeCalls

\* What a refresh has open.
LEMMA RefreshIsTyped ==
  ASSUME SessionTypeOK, NEW c \in Clients, client[c].phase \in {"fresh", "holding", "reuse"}
  PROVE  /\ client[c] \in RefreshCalls
         /\ client[c].session \in Sessions /\ client[c].token \in Nat \ {0}
BY ClientCases DEF SessionTypeOK

\* A busy client works on a session there is.
LEMMA CallIsTyped ==
  ASSUME SessionTypeOK, NEW c \in Clients, client[c] # Idle
  PROVE  client[c].session \in Sessions /\ client[c].phase # "idle"
BY ClientCases DEF SessionTypeOK

\* Ending a session moves its status only, and only an active one.
LEMMA EndTyped ==
  ASSUME SessionTypeOK, NEW s \in Sessions, NEW status \in Ended
  PROVE  /\ End(s, status) \in SessionRows
         /\ End(s, status).status = IF session[s].status = "active" THEN status
                                    ELSE session[s].status
         /\ End(s, status).version = session[s].version
         /\ End(s, status).born = session[s].born
BY DEF SessionTypeOK, SessionRows, End, Ended

\* A touch leaves status, version and password.
LEMMA RowTouched ==
  ASSUME NEW x \in SessionRows
  PROVE  LET y == [x EXCEPT !.idle = FALSE] IN
         /\ y \in SessionRows /\ y.status = x.status /\ y.born = x.born
         /\ y.version = x.version
<1> DEFINE y == [x EXCEPT !.idle = FALSE]
<1>1. y.status = x.status /\ y.born = x.born /\ y.version = x.version
  BY DEF SessionRows
<1>2. y \in SessionRows
  BY DEF SessionRows
<1> QED BY <1>1, <1>2

\* A rotation leaves status and password and moves the version by one.
LEMMA RowRenewed ==
  ASSUME NEW x \in SessionRows
  PROVE  LET y == [x EXCEPT !.version = x.version + 1, !.idle = FALSE] IN
         /\ y \in SessionRows /\ y.status = x.status /\ y.born = x.born
         /\ y.version = x.version + 1
<1> DEFINE z == [x EXCEPT !.version = x.version + 1]
<1>1. z \in SessionRows /\ z.status = x.status /\ z.born = x.born /\ z.version = x.version + 1
  BY DEF SessionRows
<1> HIDE DEF z
<1>2. LET y == [z EXCEPT !.idle = FALSE] IN
      /\ y \in SessionRows /\ y.status = x.status /\ y.born = x.born
      /\ y.version = x.version + 1
  BY <1>1, RowTouched
<1> QED BY <1>2 DEF z

\* The token that is exchanged, and the one that follows it.
LEMMA Exchange ==
  ASSUME NEW q \in Seq(TokenStatus), NEW n \in 1..Len(q)
  PROVE  LET p == [q EXCEPT ![n] = "consumed"] IN
         /\ p \in Seq(TokenStatus) /\ Len(p) = Len(q)
         /\ Append(p, "live") \in Seq(TokenStatus) /\ Len(Append(p, "live")) = Len(q) + 1
         /\ \A i \in 1..Len(q) : /\ p[i] = IF i = n THEN "consumed" ELSE q[i]
                                 /\ Append(p, "live")[i] = p[i]
         /\ Append(p, "live")[Len(q) + 1] = "live"
<1> DEFINE p == [q EXCEPT ![n] = "consumed"]
<1>1. p \in Seq(TokenStatus) /\ Len(p) = Len(q)
      /\ \A i \in 1..Len(q) : p[i] = IF i = n THEN "consumed" ELSE q[i]
  BY ExceptSeq DEF TokenStatus
<1> HIDE DEF p
<1>2. /\ Append(p, "live") \in Seq(TokenStatus) /\ Len(Append(p, "live")) = Len(p) + 1
      /\ \A i \in 1..Len(p) : Append(p, "live")[i] = p[i]
      /\ Append(p, "live")[Len(p) + 1] = "live"
  BY <1>1, AppendProperties DEF TokenStatus
<1> QED BY <1>1, <1>2

\* Every step keeps the rows typed.
LEMMA StepTyped == SessionTypeOK /\ CallsFit /\ [Next]_vars => SessionTypeOK'
<1> SUFFICES ASSUME SessionTypeOK, CallsFit, [Next]_vars PROVE SessionTypeOK'
  OBVIOUS
<1> USE SessionAssumption
<1>1. ASSUME NEW l \in Logins, BeginLogin(l) PROVE SessionTypeOK'
  BY <1>1 DEF BeginLogin, SessionTypeOK, LoginCalls, account, ledger
<1>2. ASSUME NEW l \in Logins, Verify(l) PROVE SessionTypeOK'
  BY <1>2 DEF Verify, SessionTypeOK, LoginCalls, ledger
<1>3. ASSUME NEW l \in Logins, RefuseLogin(l) PROVE SessionTypeOK'
  BY <1>3 DEF RefuseLogin, SessionTypeOK, LoginCalls, Idle, ledger
<1>4. ASSUME NEW l \in Logins, NEW s \in Sessions, OpenSession(l, s) PROVE SessionTypeOK'
  <2>1. login[l].saw \in [password : Nat, weak : BOOLEAN]
    BY <1>4, LoginCases DEF OpenSession, SessionTypeOK
  <2>2. credential' \in [password : Nat, weak : BOOLEAN]
    BY <1>4, <2>1 DEF OpenSession, Rehashed, SessionTypeOK
  <2>3. session' \in [Sessions -> SessionRows]
    <3> DEFINE x == [NoSession EXCEPT !.status = "active", !.version = 1,
                                      !.born = login[l].saw.password]
    <3>1. x \in SessionRows
      BY <2>1 DEF SessionRows, NoSession
    <3>2. session' = [session EXCEPT ![s] = x]
      BY <1>4 DEF OpenSession
    <3> HIDE DEF x
    <3> QED BY <3>1, <3>2 DEF SessionTypeOK
  <2>4. tokens' \in [Sessions -> Seq(TokenStatus)]
    BY <1>4 DEF OpenSession, SessionTypeOK, TokenStatus
  <2> QED BY <1>4, <2>2, <2>3, <2>4 DEF OpenSession, SessionTypeOK, LoginCalls, Idle
<1>5. CASE BeginChange \/ CommitChange
  <2>1. CASE BeginChange
    <3>1. change' \in ChangeCalls
      BY <2>1 DEF BeginChange, ChangeCalls
    <3> QED BY <2>1, <3>1 DEF BeginChange, SessionTypeOK, ledger
  <2>2. CASE CommitChange
    <3>1. session' \in [Sessions -> SessionRows]
      BY <2>2, EndTyped DEF CommitChange, RevokedByChange, Ended, SessionTypeOK
    <3>2. swept' \in SUBSET Sessions
      BY <2>2, FoundIsTyped DEF CommitChange, SessionTypeOK
    <3>3. change' \in ChangeCalls
      BY <2>2 DEF CommitChange, ChangeCalls
    <3> QED BY <2>2, <3>1, <3>2, <3>3 DEF CommitChange, SessionTypeOK
  <2> QED BY <1>5, <2>1, <2>2
<1>6. ASSUME NEW c \in Clients, NEW s \in Sessions, BeginResolve(c, s) PROVE SessionTypeOK'
  BY <1>6 DEF BeginResolve, SessionTypeOK, ClientCalls, account, ledger
<1>7. ASSUME NEW c \in Clients, NEW s \in Sessions, NEW n \in DOMAIN tokens[s],
             BeginRefresh(c, s, n) PROVE SessionTypeOK'
  <2>1. n \in Nat \ {0}
    BY DEF SessionTypeOK
  <2> QED BY <1>7, <2>1 DEF BeginRefresh, SessionTypeOK, ClientCalls, RefreshCalls, account, ledger
<1>8. ASSUME NEW c \in Clients, Consume(c) PROVE SessionTypeOK'
  <2>1. client[c] \in RefreshCalls
    BY <1>8, RefreshIsTyped DEF Consume
  <2>2. client' \in [Clients -> ClientCalls]
    BY <1>8, <2>1 DEF Consume, SessionTypeOK, ClientCalls, RefreshCalls
  <2> QED BY <1>8, <2>2 DEF Consume, SessionTypeOK, account, ledger
<1>9. ASSUME NEW c \in Clients, Rotate(c) PROVE SessionTypeOK'
  <2> DEFINE s == client[c].session
  <2>1. s \in Sessions /\ client[c].token \in 1..Len(tokens[s])
    BY <1>9, RefreshIsTyped DEF Rotate, CallsFit
  <2>2. tokens[s] \in Seq(TokenStatus)
    BY <2>1 DEF SessionTypeOK
  <2> DEFINE p == [tokens[s] EXCEPT ![client[c].token] = "consumed"]
  <2>3. p \in Seq(TokenStatus) /\ Append(p, "live") \in Seq(TokenStatus)
    BY <2>1, <2>2, Exchange, SMTT(30)
  <2>4. \/ tokens' = [tokens EXCEPT ![s] = p]
        \/ tokens' = [tokens EXCEPT ![s] = Append(p, "live")]
    BY <1>9 DEF Rotate
  <2>5. tokens' \in [Sessions -> Seq(TokenStatus)]
    <3> HIDE DEF p
    <3> QED BY <2>3, <2>4 DEF SessionTypeOK
  <2>6. \/ session' = [session EXCEPT ![s].version = @ + 1, ![s].idle = FALSE]
        \/ session' = [session EXCEPT ![s] = End(s, "expired")]
    BY <1>9 DEF Rotate
  <2>7. session' \in [Sessions -> SessionRows]
    <3>1. End(s, "expired") \in SessionRows
      BY <2>1, EndTyped DEF Ended
    <3>2. session[s] \in SessionRows
      BY <2>1 DEF SessionTypeOK
    <3>3. [session[s] EXCEPT !.version = session[s].version + 1, !.idle = FALSE] \in SessionRows
      BY <3>2, RowRenewed
    <3> QED BY <3>3, <2>6, <3>1, <3>2 DEF SessionTypeOK
  <2> QED BY <1>9, <2>5, <2>7 DEF Rotate, SessionTypeOK, ClientCalls, account
<1>10. ASSUME NEW c \in Clients, Reuse(c) PROVE SessionTypeOK'
  <2>1. client[c].session \in Sessions
    BY <1>10, RefreshIsTyped DEF Reuse
  <2>2. session' \in [Sessions -> SessionRows]
    BY <1>10, <2>1, EndTyped DEF Reuse, RevokeFamily, SessionTypeOK, Ended
  <2> QED BY <1>10, <2>1, <2>2 DEF Reuse, SessionTypeOK, ClientCalls, account
<1>11. ASSUME NEW c \in Clients, EndResolve(c) PROVE SessionTypeOK'
  <2>1. client[c].session \in Sessions
    BY <1>11, CallIsTyped DEF EndResolve, Idle
  <2>2. session' \in [Sessions -> SessionRows]
    <3>1. End(client[c].session, "expired") \in SessionRows
      BY <2>1, EndTyped DEF Ended
    <3>2. [session[client[c].session] EXCEPT !.idle = FALSE] \in SessionRows
      BY <2>1, ZenonT(60) DEF SessionTypeOK, SessionRows
    <3> QED BY <1>11, <3>1, <3>2 DEF EndResolve, SessionTypeOK
  <2> QED BY <1>11, <2>1, <2>2 DEF EndResolve, SessionTypeOK, ClientCalls, account
<1>12. ASSUME NEW s \in Sessions, Revoke(s) PROVE SessionTypeOK'
  <2>1. session' \in [Sessions -> SessionRows]
    BY <1>12, EndTyped DEF Revoke, SessionTypeOK, Ended
  <2> QED BY <1>12, <2>1 DEF Revoke, SessionTypeOK, account
<1>13. ASSUME NEW s \in Sessions, NEW bound \in {"idle", "absolute"}, Lapse(s, bound)
       PROVE  SessionTypeOK'
  <2>1. session' \in [Sessions -> SessionRows]
    BY <1>13, ZenonT(60) DEF Lapse, SessionTypeOK, SessionRows
  <2> QED BY <1>13, <2>1 DEF Lapse, SessionTypeOK, account
<1>14. CASE Lose
  <2>1. /\ login' \in [Logins -> LoginCalls] /\ client' \in [Clients -> ClientCalls]
        /\ change' \in ChangeCalls
    BY <1>14 DEF Lose, SessionTypeOK, LoginCalls, ClientCalls, ChangeCalls
  <2> QED BY <1>14, <2>1 DEF Lose, SessionTypeOK, account, ledger
<1>15. CASE UNCHANGED vars
  BY <1>15 DEF vars, account, ledger, SessionTypeOK
<1> QED
  BY <1>1, <1>2, <1>3, <1>4, <1>5, <1>6, <1>7, <1>8, <1>9, <1>10, <1>11, <1>12, <1>13,
     <1>14, <1>15 DEF Next
-----------------------------------------------------------------------------
(* What a step does to the sessions and their tokens                       *)

\* The steps that open no session and exchange no token: rows only end.
Quiet ==
  /\ tokens' = tokens
  /\ \A s \in Sessions :
       /\ session'[s].version = session[s].version /\ session'[s].born = session[s].born
       /\ \/ session'[s].status = session[s].status
          \/ session[s].status = "active" /\ session'[s].status \in Ended

Clears == \A c \in Clients : client'[c] \in {client[c], Idle}

\* A change of the password goes on, ends, or begins with the active sessions.
Sweeps ==
  change' # Idle => \/ change' = change
                    \/ \A s \in change'.found : s \in Sessions /\ session[s].status = "active"

\* A step that leaves sessions and tokens alone is quiet.
LEMMA LedgerKeptIsQuiet == SessionTypeOK /\ UNCHANGED <<session, tokens>> => Quiet
BY DEF Quiet

\* A step that ends one row, or changes none but its clock, is quiet.
LEMMA EndIsQuiet ==
  ASSUME SessionTypeOK, tokens' = tokens, NEW s \in Sessions, NEW status \in Ended,
         session' = [session EXCEPT ![s] = End(s, status)]
  PROVE  Quiet
<1>1. \A r \in Sessions : session'[r] = IF r = s THEN End(s, status) ELSE session[r]
  BY DEF SessionTypeOK
<1> QED BY <1>1, EndTyped DEF Quiet

\* Only a login that opens a session and a rotation are not quiet.
LEMMA QuietSteps ==
  ASSUME SessionTypeOK, [Next]_vars
  PROVE  \/ Quiet
         \/ \E l \in Logins, s \in Sessions : OpenSession(l, s)
         \/ \E c \in Clients : Rotate(c)
<1>1. ASSUME NEW l \in Logins, BeginLogin(l) \/ Verify(l) \/ RefuseLogin(l) PROVE Quiet
  BY <1>1 DEF BeginLogin, Verify, RefuseLogin, ledger, Quiet
<1>2. CASE BeginChange \/ CommitChange
  <2>1. CASE BeginChange
    BY <2>1 DEF BeginChange, ledger, Quiet
  <2>2. CASE CommitChange
    <3>1. \A s \in Sessions :
            session'[s] = IF s \in change.found THEN End(s, "revoked") ELSE session[s]
      BY <2>2 DEF CommitChange, RevokedByChange
    <3> QED BY <2>2, <3>1, EndTyped DEF CommitChange, Quiet, Ended
  <2> QED BY <1>2, <2>1, <2>2
<1>3. ASSUME NEW c \in Clients, NEW s \in Sessions,
             BeginResolve(c, s) \/ \E n \in DOMAIN tokens[s] : BeginRefresh(c, s, n)
      PROVE  Quiet
  BY <1>3 DEF BeginResolve, BeginRefresh, ledger, Quiet
<1>4. ASSUME NEW c \in Clients, Consume(c) PROVE Quiet
  BY <1>4 DEF Consume, ledger, Quiet
<1>5. ASSUME NEW c \in Clients, Reuse(c) PROVE Quiet
  BY <1>5, RefreshIsTyped, EndIsQuiet DEF Reuse, RevokeFamily, Ended
<1>6. ASSUME NEW c \in Clients, EndResolve(c) PROVE Quiet
  <2> DEFINE s == client[c].session
  <2>1. s \in Sessions
    BY <1>6, CallIsTyped DEF EndResolve, Idle
  <2>2. CASE session' = [session EXCEPT ![s] = End(s, "expired")]
    BY <1>6, <2>1, <2>2, EndIsQuiet DEF EndResolve, Ended
  <2>3. CASE session' = [session EXCEPT ![s] = [session[s] EXCEPT !.idle = FALSE]]
    <3>1. session[s] \in SessionRows
      BY <2>1 DEF SessionTypeOK
    <3>2. \A r \in Sessions \ {s} : session'[r] = session[r]
      BY <2>3 DEF SessionTypeOK
    <3>3. session'[s] = [session[s] EXCEPT !.idle = FALSE]
      BY <2>1, <2>3 DEF SessionTypeOK
    <3>4. tokens' = tokens
      BY <1>6 DEF EndResolve
    <3>5. /\ session'[s].version = session[s].version /\ session'[s].born = session[s].born
          /\ session'[s].status = session[s].status
      BY <3>1, <3>3, RowTouched
    <3> QED BY <3>2, <3>4, <3>5 DEF Quiet
  <2> QED BY <1>6, <2>2, <2>3 DEF EndResolve
<1>7. ASSUME NEW s \in Sessions, Revoke(s) PROVE Quiet
  BY <1>7, EndIsQuiet DEF Revoke, Ended
<1>8. ASSUME NEW s \in Sessions, NEW bound \in {"idle", "absolute"}, Lapse(s, bound)
      PROVE  Quiet
  BY <1>8 DEF Lapse, SessionTypeOK, SessionRows, Quiet
<1>9. CASE Lose
  BY <1>9 DEF Lose, ledger, Quiet
<1>10. CASE UNCHANGED vars
  BY <1>10 DEF vars, ledger, Quiet
<1> QED
  BY <1>1, <1>2, <1>3, <1>4, <1>5, <1>6, <1>7, <1>8, <1>9, <1>10 DEF Next

\* The token that is exchanged is the newest, so that one chain is left.
LEMMA RotateMoves ==
  ASSUME SessionTypeOK, CallsFit, TokensAreOneChain, NEW c \in Clients, Rotate(c)
  PROVE  LET s == client[c].session  n == Len(tokens[s]) IN
         /\ s \in Sessions /\ n \in Nat \ {0} /\ client[c].token = n
         /\ client' = [client EXCEPT ![c] = Idle]
         /\ reused' = reused /\ change' = change /\ changes' = changes
         /\ \A r \in Sessions \ {s} : session'[r] = session[r] /\ tokens'[r] = tokens[r]
         /\ session'[s].born = session[s].born
         /\ \A i \in 1..n : tokens'[s][i] = "consumed"
         /\ \/ /\ session[s].status = "active" /\ session'[s].status = "active"
               /\ session'[s].version = session[s].version + 1
               /\ Len(tokens'[s]) = n + 1 /\ tokens'[s][n + 1] = "live"
            \/ /\ session'[s].status # "active" /\ session'[s].status # "none"
               /\ session[s].status # "active" => session'[s].status = session[s].status
               /\ session'[s].version = session[s].version
               /\ Len(tokens'[s]) = n
<1> DEFINE s == client[c].session
           n == Len(tokens[s])
           p == [tokens[s] EXCEPT ![client[c].token] = "consumed"]
<1>1. s \in Sessions /\ client[c].token \in 1..n /\ tokens[s] \in Seq(TokenStatus)
  BY RefreshIsTyped DEF Rotate, CallsFit, SessionTypeOK
<1>2. tokens[s][client[c].token] = "live" /\ session[s].status # "none" /\ n \in Nat
  BY <1>1 DEF Rotate, CallsFit, Idle
<1>3. client[c].token = n
  BY <1>1, <1>2 DEF TokensAreOneChain
<1>4. \A i \in 1..n : p[i] = "consumed" /\ Append(p, "live")[i] = "consumed"
  <2>1. \A i \in 1..n - 1 : tokens[s][i] = "consumed"
    BY <1>1 DEF TokensAreOneChain
  <2>2. \A i \in 1..n : /\ p[i] = IF i = client[c].token THEN "consumed" ELSE tokens[s][i]
                        /\ Append(p, "live")[i] = p[i]
    BY <1>1, Exchange
  <2> HIDE DEF p
  <2> QED BY <1>1, <1>2, <1>3, <2>1, <2>2, SMTT(30)
<1>5. Len(p) = n /\ Len(Append(p, "live")) = n + 1 /\ Append(p, "live")[n + 1] = "live"
  BY <1>1, Exchange
<1>6. /\ client' = [client EXCEPT ![c] = Idle] /\ reused' = reused
      /\ change' = change /\ changes' = changes
      /\ \A r \in Sessions \ {s} : session'[r] = session[r] /\ tokens'[r] = tokens[r]
  BY DEF Rotate, SessionTypeOK, account
<1>7. session[s] \in SessionRows
  BY <1>1 DEF SessionTypeOK
<1>8. CASE MayRotate(s)
  <2>1. tokens'[s] = Append(p, "live")
    BY <1>1, <1>8 DEF Rotate, SessionTypeOK
  <2>2. /\ session[s].status = "active" /\ session'[s].status = "active"
        /\ session'[s].version = session[s].version + 1 /\ session'[s].born = session[s].born
    <3>2. session'[s] = [session[s] EXCEPT !.version = session[s].version + 1, !.idle = FALSE]
      BY <1>1, <1>8 DEF Rotate, SessionTypeOK
    <3>3. /\ session'[s].status = session[s].status /\ session'[s].born = session[s].born
          /\ session'[s].version = session[s].version + 1
      BY <1>7, <3>2, RowRenewed
    <3> QED BY <1>8, <3>3 DEF MayRotate
  <2> HIDE DEF p
  <2> QED BY <1>1, <1>2, <1>3, <1>4, <1>5, <1>6, <2>1, <2>2
<1>9. CASE ~MayRotate(s)
  <2>1. tokens'[s] = p
    BY <1>1, <1>9 DEF Rotate, SessionTypeOK
  <2>2. session'[s] = End(s, "expired")
    BY <1>1, <1>9 DEF Rotate, SessionTypeOK
  <2>3. /\ session'[s].version = session[s].version /\ session'[s].born = session[s].born
        /\ session'[s].status = IF session[s].status = "active" THEN "expired"
                                ELSE session[s].status
    BY <1>1, <2>2, EndTyped DEF Ended
  <2> HIDE DEF p
  <2> QED BY <1>1, <1>2, <1>3, <1>4, <1>5, <1>6, <2>1, <2>3
<1> QED BY <1>8, <1>9

-----------------------------------------------------------------------------
(* The open calls                                                          *)

\* Quiet steps keep what open calls have read.
LEMMA QuietFits ==
  SessionTypeOK /\ CallsFit /\ Quiet /\ Clears /\ Sweeps => CallsFit'
<1> SUFFICES ASSUME SessionTypeOK, CallsFit, Quiet, Clears, Sweeps PROVE CallsFit'
  OBVIOUS
<1>1. \A s \in Sessions : /\ session'[s].status = "none" <=> session[s].status = "none"
                          /\ tokens'[s] = tokens[s]
  BY DEF Quiet, Ended
<1>2. \A c \in Clients : \/ client'[c] = client[c]
                         \/ client'[c] = Idle /\ client'[c].phase = "idle"
  BY DEF Clears, Idle
<1>3. \A c \in Clients : client[c] # Idle => client[c].session \in Sessions
  BY CallIsTyped
<1>4. Idle.phase = "idle"
  BY DEF Idle
<1>5. change' # Idle => \A s \in change'.found : session'[s].status # "none"
  <2> SUFFICES ASSUME change' # Idle, NEW s \in change'.found PROVE session'[s].status # "none"
    OBVIOUS
  <2>1. s \in Sessions /\ session[s].status # "none"
    BY FoundIsTyped DEF Sweeps, CallsFit
  <2> QED BY <1>1, <2>1
<1> QED BY <1>1, <1>2, <1>3, <1>4, <1>5 DEF CallsFit

\* A call that begins, or takes the token, finds the rows as they are.
LEMMA CallFits ==
  ASSUME SessionTypeOK, CallsFit, UNCHANGED <<session, tokens, change>>,
         NEW c \in Clients, NEW x, client' = [client EXCEPT ![c] = x],
         x.session \in Sessions, session[x.session].status # "none",
         x.phase \in {"fresh", "holding"} => x.token \in 1..Len(tokens[x.session]),
         x.phase = "holding" =>
           /\ tokens[x.session][x.token] = "live"
           /\ \A d \in Clients \ {c} :
                ~ (client[d].phase = "holding" /\ client[d].session = x.session)
  PROVE  CallsFit'
<1>1. \A d \in Clients : client'[d] = IF d = c THEN x ELSE client[d]
  BY DEF SessionTypeOK
<1>2. session' = session /\ tokens' = tokens /\ change' = change
  OBVIOUS
<1> QED BY <1>1, <1>2 DEF CallsFit

\* The token that can still be exchanged is the newest.
LEMMA NewestIsLive ==
  ASSUME SessionTypeOK, TokensAreOneChain, NEW s \in Sessions,
         NEW i \in 1..Len(tokens[s]), tokens[s][i] = "live"
  PROVE  i = Len(tokens[s])
<1>1. \A k \in 1..Len(tokens[s]) - 1 : tokens[s][k] # "live"
  BY DEF TokensAreOneChain
<1>2. Len(tokens[s]) \in Nat
  BY DEF SessionTypeOK
<1> QED BY <1>1, <1>2

\* Every step keeps what open calls have read.
LEMMA StepFits == SessionTypeOK /\ CallsFit /\ TokensAreOneChain /\ [Next]_vars => CallsFit'
<1> SUFFICES ASSUME SessionTypeOK, CallsFit, TokensAreOneChain, [Next]_vars PROVE CallsFit'
  OBVIOUS
<1>1. ASSUME NEW l \in Logins, NEW s \in Sessions, OpenSession(l, s) PROVE CallsFit'
  <2>1. \A r \in Sessions \ {s} : session'[r] = session[r] /\ tokens'[r] = tokens[r]
    BY <1>1 DEF OpenSession, SessionTypeOK
  <2>2. session'[s].status = "active" /\ tokens'[s] = <<"live">> /\ client' = client
    BY <1>1 DEF OpenSession, SessionTypeOK, NoSession
  <2>3. session[s].status = "none"
    BY <1>1 DEF OpenSession
  <2>4. \A c \in Clients : client[c] # Idle => client[c].session \in Sessions \ {s}
    BY <2>3, CallIsTyped DEF CallsFit
  <2>5. Idle.phase = "idle" /\ Len(<<"live">>) = 1
    BY DEF Idle
  <2>6. \A r \in Sessions : session'[r].status = "none" <=> Len(tokens'[r]) = 0
    BY <2>1, <2>2, <2>5 DEF CallsFit
  <2>7. \A c \in Clients : client[c].phase # "idle" => client[c] # Idle
    BY <2>5
  <2>8. \A c \in Clients : client[c] # Idle =>
          /\ session'[client[c].session] = session[client[c].session]
          /\ tokens'[client[c].session] = tokens[client[c].session]
    BY <2>1, <2>4
  <2>9. change' = change /\ (change # Idle => \A r \in change.found : session'[r].status # "none")
    BY <1>1, <2>1, <2>2, FoundIsTyped DEF OpenSession, CallsFit
  <2> QED BY <2>2, <2>6, <2>7, <2>8, <2>9 DEF CallsFit
<1>2. ASSUME NEW c \in Clients, NEW s \in Sessions, NEW n \in DOMAIN tokens[s],
             BeginRefresh(c, s, n)
      PROVE  CallsFit'
  <2>1. tokens[s] \in Seq(TokenStatus) /\ n \in 1..Len(tokens[s])
    BY DEF SessionTypeOK
  <2>2. session[s].status # "none"
    BY <2>1 DEF CallsFit
  <2> DEFINE x == [phase |-> IF tokens[s][n] = "consumed" THEN "reuse" ELSE "fresh",
                   session |-> s, token |-> n]
  <2>3. x.phase \in {"reuse", "fresh"} /\ x.session = s /\ x.token = n
    OBVIOUS
  <2>4. client' = [client EXCEPT ![c] = x] /\ UNCHANGED <<session, tokens, change>>
    BY <1>2 DEF BeginRefresh, ledger, account
  <2> HIDE DEF x
  <2> QED BY <2>1, <2>2, <2>3, <2>4, CallFits
<1>3. ASSUME NEW c \in Clients, NEW s \in Sessions, BeginResolve(c, s) PROVE CallsFit'
  <2> DEFINE x == [phase |-> IF session[s].idle \/ session[s].absolute THEN "lapsed" ELSE "usable",
                   session |-> s]
  <2>1. x.phase \in {"lapsed", "usable"} /\ x.session = s
    OBVIOUS
  <2>2. /\ client' = [client EXCEPT ![c] = x] /\ UNCHANGED <<session, tokens, change>>
        /\ session[s].status = "active"
    BY <1>3 DEF BeginResolve, ledger, account
  <2> HIDE DEF x
  <2> QED BY <2>1, <2>2, CallFits
<1>4. ASSUME NEW c \in Clients, Consume(c) PROVE CallsFit'
  <2> DEFINE s == client[c].session
             n == client[c].token
             x == [client[c] EXCEPT !.phase = IF Won(s, n) THEN "holding" ELSE "reuse"]
  <2>1. client[c] \in RefreshCalls /\ s \in Sessions /\ n \in 1..Len(tokens[s])
    BY <1>4, RefreshIsTyped DEF Consume, CallsFit
  <2>2. session[s].status # "none"
    BY <1>4 DEF Consume, CallsFit, Idle
  <2>3. x.session = s /\ x.token = n /\ x.phase = IF Won(s, n) THEN "holding" ELSE "reuse"
    BY <2>1 DEF RefreshCalls
  <2>4. client' = [client EXCEPT ![c] = x] /\ UNCHANGED <<session, tokens, change>>
    BY <1>4 DEF Consume, ledger, account, SessionTypeOK
  <2>5. ASSUME NEW d \in Clients \ {c}, client[d].phase = "holding", client[d].session = s,
               Won(s, n)
        PROVE  FALSE
    <3>1. /\ client[d] \in RefreshCalls /\ client[d].token \in 1..Len(tokens[s])
          /\ tokens[s][client[d].token] = "live"
      BY <2>5, RefreshIsTyped DEF CallsFit
    <3>2. client[d].token = Len(tokens[s]) /\ n = Len(tokens[s])
      <4>1. tokens[s][n] = "live"
        BY <2>5 DEF Won
      <4> HIDE DEF s, n
      <4> QED BY <2>1, <3>1, <4>1, NewestIsLive
    <3>3. client[d] = [phase |-> "holding", session |-> s, token |-> n]
      BY <2>5, <3>1, <3>2 DEF RefreshCalls
    <3> QED BY <1>4, <3>3 DEF Consume, Held
  <2> HIDE DEF x
  <2>6. x.phase = "holding" => tokens[s][n] = "live"
    BY <2>3 DEF Won
  <2> QED BY <2>1, <2>2, <2>3, <2>4, <2>5, <2>6, CallFits
<1>5. ASSUME NEW c \in Clients, Rotate(c) PROVE CallsFit'
  <2> DEFINE s == client[c].session
  <2>1. /\ s \in Sessions /\ client' = [client EXCEPT ![c] = Idle]
        /\ \A r \in Sessions \ {s} : session'[r] = session[r] /\ tokens'[r] = tokens[r]
        /\ session'[s].status # "none" /\ Len(tokens'[s]) >= Len(tokens[s])
        /\ Len(tokens[s]) \in Nat \ {0} /\ Len(tokens'[s]) \in Nat
    BY <1>5, RotateMoves, SMTT(30)
  <2>2. \A d \in Clients : client'[d] = IF d = c THEN Idle ELSE client[d]
    BY <2>1 DEF SessionTypeOK
  <2>3. \A d \in Clients : client[d] # Idle => client[d].session \in Sessions
    BY CallIsTyped
  <2>4. \A d \in Clients \ {c} : client[d].phase = "holding" => client[d].session # s
    BY <1>5 DEF Rotate, CallsFit
  <2>5. Idle.phase = "idle"
    BY DEF Idle
  <2>6. \A r \in Sessions : session'[r].status = "none" <=> Len(tokens'[r]) = 0
    BY <2>1 DEF CallsFit
  <2>7. \A d \in Clients : client'[d] # Idle => session'[client'[d].session].status # "none"
    BY <2>1, <2>2, <2>3 DEF CallsFit
  <2>8. \A d \in Clients : client'[d].phase \in {"fresh", "holding"} =>
          /\ d # c /\ client[d] # Idle
          /\ client'[d].token \in 1..Len(tokens'[client'[d].session])
    <3> SUFFICES ASSUME NEW d \in Clients, client'[d].phase \in {"fresh", "holding"}
                 PROVE  /\ d # c /\ client[d] # Idle
                        /\ client'[d].token \in 1..Len(tokens'[client'[d].session])
      OBVIOUS
    <3>1. d # c /\ client'[d] = client[d] /\ client[d] # Idle
      BY <2>2, <2>5
    <3>2. client[d].session \in Sessions /\ client[d].token \in 1..Len(tokens[client[d].session])
      BY <3>1, <2>3 DEF CallsFit
    <3> QED BY <3>1, <3>2, <2>1
  <2>9. \A d \in Clients : client'[d].phase = "holding" =>
          tokens'[client'[d].session][client'[d].token] = "live"
    BY <2>1, <2>2, <2>3, <2>4, <2>5, <2>8 DEF CallsFit
  <2>10. change' = change /\ (change # Idle => \A r \in change.found : session'[r].status # "none")
    BY <1>5, <2>1, RotateMoves, FoundIsTyped DEF CallsFit
  <2> QED BY <2>2, <2>5, <2>6, <2>7, <2>8, <2>9, <2>10 DEF CallsFit
<1>6. ASSUME \/ \E l \in Logins : BeginLogin(l) \/ Verify(l) \/ RefuseLogin(l)
             \/ BeginChange \/ CommitChange \/ Lose \/ UNCHANGED vars
             \/ \E s \in Sessions : Revoke(s) \/ \E bound \in {"idle", "absolute"} : Lapse(s, bound)
             \/ \E c \in Clients : Reuse(c) \/ EndResolve(c)
      PROVE  CallsFit'
  <2>1. Clears
    BY <1>6 DEF BeginLogin, Verify, RefuseLogin, BeginChange, CommitChange, Lose, vars, Revoke,
                Lapse, Reuse, EndResolve, Clears, SessionTypeOK
  <2>0. Sweeps
    <3>1. CASE BeginChange
      BY <3>1 DEF BeginChange, Sweeps
    <3>2. CASE ~BeginChange
      <4>1. change' = change \/ change' = Idle
        BY <1>6, <3>2, ZenonT(60) DEF BeginLogin, Verify, RefuseLogin, CommitChange, Lose, vars,
           account, Revoke, Lapse, Reuse, EndResolve
      <4> QED BY <4>1 DEF Sweeps
    <3> QED BY <3>1, <3>2
  <2>2. CASE Quiet
    BY <2>0, <2>1, <2>2, QuietFits
  <2>3. CASE \E l \in Logins, s \in Sessions : OpenSession(l, s)
    BY <1>1, <2>3
  <2>4. CASE \E c \in Clients : Rotate(c)
    BY <1>5, <2>4
  <2> QED BY <2>2, <2>3, <2>4, QuietSteps
<1> QED BY <1>1, <1>2, <1>3, <1>4, <1>5, <1>6 DEF Next

-----------------------------------------------------------------------------
(* The invariants of the sessions                                          *)

\* Every step keeps the tokens of a session one chain.
LEMMA StepChained ==
  ASSUME SessionTypeOK, CallsFit, TokensAreOneChain, [Next]_vars
  PROVE  TokensAreOneChain'
<1>1. CASE Quiet
  BY <1>1 DEF Quiet, TokensAreOneChain, Ended
<1>2. ASSUME NEW l \in Logins, NEW s \in Sessions, OpenSession(l, s)
      PROVE  TokensAreOneChain'
  <2>1. \A r \in Sessions \ {s} : session'[r] = session[r] /\ tokens'[r] = tokens[r]
    BY <1>2 DEF OpenSession, SessionTypeOK
  <2>2. session'[s].version = 1 /\ tokens'[s] = <<"live">>
    BY <1>2 DEF OpenSession, SessionTypeOK, NoSession
  <2>3. Len(<<"live">>) = 1 /\ <<"live">>[1] = "live"
    OBVIOUS
  <2>4. /\ session'[s].version = Len(tokens'[s])
        /\ \A i \in 1..Len(tokens'[s]) - 1 : tokens'[s][i] = "consumed"
        /\ tokens'[s][Len(tokens'[s])] = "live"
    BY <2>2, <2>3
  <2>5. \A r \in Sessions \ {s} :
          /\ session'[r].version = Len(tokens'[r])
          /\ \A i \in 1..Len(tokens'[r]) - 1 : tokens'[r][i] = "consumed"
          /\ session'[r].status = "active" => tokens'[r][Len(tokens'[r])] = "live"
    BY <2>1 DEF TokensAreOneChain
  <2> QED BY <2>4, <2>5 DEF TokensAreOneChain
<1>3. ASSUME NEW c \in Clients, Rotate(c) PROVE TokensAreOneChain'
  <2> DEFINE s == client[c].session
             n == Len(tokens[s])
  <2>1. /\ s \in Sessions /\ n \in Nat \ {0}
        /\ \A r \in Sessions \ {s} : session'[r] = session[r] /\ tokens'[r] = tokens[r]
        /\ \A i \in 1..n : tokens'[s][i] = "consumed"
        /\ \/ /\ session'[s].version = session[s].version + 1
              /\ Len(tokens'[s]) = n + 1 /\ tokens'[s][n + 1] = "live"
           \/ /\ session'[s].status # "active" /\ session'[s].version = session[s].version
              /\ Len(tokens'[s]) = n
    BY <1>3, RotateMoves
  <2>2. session[s].version = n
    BY <2>1 DEF TokensAreOneChain
  <2>3. /\ session'[s].version = Len(tokens'[s])
        /\ \A i \in 1..Len(tokens'[s]) - 1 : tokens'[s][i] = "consumed"
        /\ session'[s].status = "active" => tokens'[s][Len(tokens'[s])] = "live"
    BY <2>1, <2>2
  <2>4. \A r \in Sessions \ {s} :
          /\ session'[r].version = Len(tokens'[r])
          /\ \A i \in 1..Len(tokens'[r]) - 1 : tokens'[r][i] = "consumed"
          /\ session'[r].status = "active" => tokens'[r][Len(tokens'[r])] = "live"
    BY <2>1 DEF TokensAreOneChain
  <2> QED BY <2>3, <2>4 DEF TokensAreOneChain
<1> QED BY <1>1, <1>2, <1>3, QuietSteps

\* What no step undoes, and what only a reuse adds.
LEMMA EndedStays ==
  ASSUME SessionTypeOK, CallsFit, TokensAreOneChain, [Next]_vars,
         NEW s \in Sessions, session[s].status \in Ended
  PROVE  session'[s].status = session[s].status /\ Len(tokens'[s]) = Len(tokens[s])
<1>1. CASE Quiet
  BY <1>1 DEF Quiet, Ended
<1>2. ASSUME NEW l \in Logins, NEW r \in Sessions, OpenSession(l, r)
      PROVE  session'[s] = session[s] /\ tokens'[s] = tokens[s]
  BY <1>2 DEF OpenSession, SessionTypeOK, Ended
<1>3. ASSUME NEW c \in Clients, Rotate(c)
      PROVE  session'[s].status = session[s].status /\ Len(tokens'[s]) = Len(tokens[s])
  <2>1. CASE s = client[c].session
    BY <1>3, <2>1, RotateMoves DEF Ended
  <2>2. CASE s # client[c].session
    BY <1>3, <2>2, RotateMoves
  <2> QED BY <2>1, <2>2
<1> QED BY <1>1, <1>2, <1>3, QuietSteps

\* Every step keeps a family that was reused ended.
LEMMA StepReuse ==
  ASSUME SessionTypeOK, CallsFit, TokensAreOneChain, ReuseEndsTheFamily, [Next]_vars
  PROVE  ReuseEndsTheFamily'
<1>1. \A s \in reused : s \in Sessions /\ session'[s].status \in Ended
  BY EndedStays DEF ReuseEndsTheFamily, SessionTypeOK
<1>2. ASSUME NEW c \in Clients, Reuse(c)
      PROVE  /\ reused' = reused \cup {client[c].session}
             /\ session'[client[c].session].status \in Ended
  <2>1. client[c].session \in Sessions /\ session[client[c].session].status # "none"
    BY <1>2, RefreshIsTyped DEF Reuse, CallsFit, Idle
  <2>2. session[client[c].session].status \in {"none", "active"} \cup Ended
    BY <2>1 DEF SessionTypeOK, SessionRows
  <2>3. session'[client[c].session] = End(client[c].session, "revoked")
    BY <1>2, <2>1, SMTT(30) DEF Reuse, RevokeFamily, SessionTypeOK
  <2> QED BY <1>2, <2>1, <2>2, <2>3, EndTyped DEF Reuse, Ended
<1>3. reused' = reused \/ \E c \in Clients : Reuse(c)
  BY ZenonT(60) DEF Next, vars, account, ledger, BeginLogin, Verify, RefuseLogin, OpenSession,
         BeginChange, CommitChange, BeginResolve, BeginRefresh, Consume, Rotate, EndResolve,
         Revoke, Lapse, Lose
<1> QED BY <1>1, <1>2, <1>3 DEF ReuseEndsTheFamily

\* Only a change that commits revokes.
LEMMA SweptMoves ==
  ASSUME [Next]_vars
  PROVE  UNCHANGED <<swept, changes>> \/ CommitChange
BY ZenonT(60) DEF Next, vars, account, ledger, BeginLogin, Verify, RefuseLogin, OpenSession,
       BeginChange, BeginResolve, BeginRefresh, Consume, Rotate, Reuse, EndResolve, Revoke,
       Lapse, Lose

\* Every step keeps the sessions ended that a change of the password revoked.
LEMMA StepSwept ==
  ASSUME SessionTypeOK, CallsFit, TokensAreOneChain, ChangeEndsSessions, [Next]_vars
  PROVE  ChangeEndsSessions'
<1>1. \A s \in swept : session'[s].status \in Ended
  BY EndedStays DEF ChangeEndsSessions, SessionTypeOK
<1>2. CASE CommitChange
  <2> SUFFICES ASSUME NEW s \in change.found PROVE session'[s].status \in Ended
    BY <1>1, <1>2 DEF CommitChange, ChangeEndsSessions
  <2>1. s \in Sessions /\ session[s].status # "none"
    BY <1>2, FoundIsTyped DEF CommitChange, CallsFit
  <2>2. session'[s] = End(s, "revoked")
    BY <1>2, <2>1 DEF CommitChange, RevokedByChange
  <2>3. session[s].status \in {"none", "active"} \cup Ended
    BY <2>1 DEF SessionTypeOK, SessionRows
  <2> QED BY <2>1, <2>2, <2>3, EndTyped DEF Ended
<1> QED BY <1>1, <1>2, SweptMoves DEF ChangeEndsSessions

-----------------------------------------------------------------------------
(* The lockout                                                             *)

AtPhase(f, x) == {l \in Logins : f[l].phase = x}

\* Every wrong password was recorded, is about to be, or was lost with its
\* call; and a login is only admitted while fewer than the limit are recorded.
LoginsCounted ==
  /\ guesses <= failures + Cardinality(AtPhase(login, "refused")) + faults
  /\ guesses + Cardinality(AtPhase(login, "admitted"))
       <= MaxFailures + Cardinality(Logins) - 1 + faults

\* Logins at a phase can be counted.
LEMMA PhasesFinite ==
  /\ \A f, x : IsFiniteSet(AtPhase(f, x)) /\ Cardinality(AtPhase(f, x)) \in Nat
  /\ Cardinality(Logins) \in Nat \ {0}
<1>1. \A f, x : AtPhase(f, x) \subseteq Logins
  BY DEF AtPhase
<1> QED BY <1>1, SessionAssumption, FS_Subset, FS_CardinalityType, FS_EmptySet
        DEF SessionAssumption

\* A login that moves leaves one phase and enters another.
LEMMA PhaseCount ==
  ASSUME NEW f, NEW g, NEW l \in Logins, \A m \in Logins \ {l} : g[m] = f[m], NEW x
  PROVE  Cardinality(AtPhase(g, x)) = Cardinality(AtPhase(f, x))
           + (IF g[l].phase = x THEN 1 ELSE 0) - (IF f[l].phase = x THEN 1 ELSE 0)
<1>1. AtPhase(g, x) = IF g[l].phase = x THEN AtPhase(f, x) \cup {l} ELSE AtPhase(f, x) \ {l}
  BY DEF AtPhase
<1>2. l \in AtPhase(f, x) <=> f[l].phase = x
  BY DEF AtPhase
<1>3. IsFiniteSet(AtPhase(f, x)) /\ Cardinality(AtPhase(f, x)) \in Nat
  BY PhasesFinite
<1>4. Cardinality(AtPhase(f, x) \cup {l}) = IF l \in AtPhase(f, x) THEN Cardinality(AtPhase(f, x))
                                            ELSE Cardinality(AtPhase(f, x)) + 1
  BY <1>3, FS_AddElement
<1>5. Cardinality(AtPhase(f, x) \ {l}) = IF l \in AtPhase(f, x) THEN Cardinality(AtPhase(f, x)) - 1
                                         ELSE Cardinality(AtPhase(f, x))
  BY <1>3, FS_RemoveElement
<1> QED BY <1>1, <1>2, <1>3, <1>4, <1>5

\* One login moves from one phase to another.
Moves(l, from, to) ==
  /\ login[l].phase = from /\ login'[l].phase = to
  /\ \A m \in Logins \ {l} : login'[m] = login[m]

\* A login that moves leaves one phase for another.
LEMMA MoveCount ==
  ASSUME NEW l \in Logins, NEW from, NEW to, Moves(l, from, to), NEW x
  PROVE  Cardinality(AtPhase(login', x)) = Cardinality(AtPhase(login, x))
           + (IF to = x THEN 1 ELSE 0) - (IF from = x THEN 1 ELSE 0)
<1>1. \A f, g : (\A m \in Logins \ {l} : g[m] = f[m]) =>
        Cardinality(AtPhase(g, x)) = Cardinality(AtPhase(f, x))
           + (IF g[l].phase = x THEN 1 ELSE 0) - (IF f[l].phase = x THEN 1 ELSE 0)
  BY PhaseCount
<1>2. \A m \in Logins \ {l} : login'[m] = login[m]
  BY DEF Moves
<1>3. Cardinality(AtPhase(login', x)) = Cardinality(AtPhase(login, x))
           + (IF login'[l].phase = x THEN 1 ELSE 0) - (IF login[l].phase = x THEN 1 ELSE 0)
  BY <1>1, <1>2
<1> QED BY <1>3 DEF Moves

\* Every step keeps the guesses within the limit and the open logins.
LEMMA StepCounted ==
  ASSUME SessionTypeOK, LoginsCounted, [Next]_vars
  PROVE  LoginsCounted'
<1> DEFINE R == Cardinality(AtPhase(login, "refused"))
           A == Cardinality(AtPhase(login, "admitted"))
<1>0. /\ R \in Nat /\ A \in Nat /\ Cardinality(Logins) \in Nat /\ guesses \in Nat
      /\ failures \in Nat /\ faults \in Nat /\ MaxFailures \in Nat
      /\ guesses <= failures + R + faults
      /\ guesses + A <= MaxFailures + Cardinality(Logins) - 1 + faults
  BY PhasesFinite, SessionAssumption DEF SessionTypeOK, LoginsCounted
<1>1. ASSUME NEW l \in Logins, BeginLogin(l) PROVE LoginsCounted'
  <2>1. login[l].phase = "idle" /\ failures' = failures /\ guesses' = guesses /\ faults' = faults
    BY <1>1 DEF BeginLogin, Idle, account
  <2>2. CASE LockedOut
    <3>1. Moves(l, "idle", "refused")
      BY <1>1, <2>1, <2>2 DEF BeginLogin, Moves, SessionTypeOK
    <3>2. R' = R + 1 /\ A' = A
      BY <3>1, <1>0, MoveCount
    <3> HIDE DEF R, A
    <3>3. /\ guesses' <= failures' + R' + faults'
          /\ guesses' + A' <= MaxFailures + Cardinality(Logins) - 1 + faults'
      BY <1>0, <2>1, <3>2
    <3> QED BY <3>3 DEF LoginsCounted, R, A
  <2>3. CASE ~LockedOut
    <3>1. Moves(l, "idle", "admitted")
      BY <1>1, <2>1, <2>3 DEF BeginLogin, Moves, SessionTypeOK
    <3>2. R' = R /\ A' = A + 1
      BY <3>1, <1>0, MoveCount
    <3>3. R + A + 1 <= Cardinality(Logins)
      <4>1. /\ l \notin AtPhase(login, "refused") \cup AtPhase(login, "admitted")
            /\ AtPhase(login, "refused") \cap AtPhase(login, "admitted") = {}
            /\ AtPhase(login, "refused") \cup AtPhase(login, "admitted") \cup {l} \subseteq Logins
        BY <2>1 DEF AtPhase
      <4>2. /\ IsFiniteSet(AtPhase(login, "refused") \cup AtPhase(login, "admitted"))
            /\ Cardinality(AtPhase(login, "refused") \cup AtPhase(login, "admitted")) = R + A
        <5>1. IsFiniteSet(AtPhase(login, "refused")) /\ IsFiniteSet(AtPhase(login, "admitted"))
          BY PhasesFinite
        <5>2. Cardinality(AtPhase(login, "refused") \cap AtPhase(login, "admitted")) = 0
          BY <4>1, FS_EmptySet
        <5>3. /\ IsFiniteSet(AtPhase(login, "refused") \cup AtPhase(login, "admitted"))
              /\ Cardinality(AtPhase(login, "refused") \cup AtPhase(login, "admitted"))
                   = Cardinality(AtPhase(login, "refused")) + Cardinality(AtPhase(login, "admitted"))
                     - Cardinality(AtPhase(login, "refused") \cap AtPhase(login, "admitted"))
          BY <5>1, FS_Union
        <5> QED BY <5>2, <5>3, <1>0
      <4>3. Cardinality(AtPhase(login, "refused") \cup AtPhase(login, "admitted") \cup {l}) = R + A + 1
        BY <4>1, <4>2, FS_AddElement
      <4> QED BY <4>1, <4>3, SessionAssumption, FS_Subset
    <3>4. failures < MaxFailures
      BY <2>3, <1>0 DEF LockedOut
    <3> HIDE DEF R, A
    <3>5. /\ guesses' <= failures' + R' + faults'
          /\ guesses' + A' <= MaxFailures + Cardinality(Logins) - 1 + faults'
      BY <1>0, <2>1, <3>2, <3>3, <3>4
    <3> QED BY <3>5 DEF LoginsCounted, R, A
  <2> QED BY <2>2, <2>3
<1>2. ASSUME NEW l \in Logins, Verify(l) PROVE LoginsCounted'
  <2>1. login[l].phase = "admitted" /\ failures' = failures /\ faults' = faults
    BY <1>2 DEF Verify
  <2>2. CASE guesses' = guesses
             /\ login' = [login EXCEPT ![l] = [phase |-> "verified", saw |-> credential]]
    <3>0. Moves(l, "admitted", "verified")
      BY <2>1, <2>2 DEF Moves, SessionTypeOK
    <3>1. R' = R /\ A' = A - 1
      BY <3>0, <1>0, MoveCount
    <3> HIDE DEF R, A
    <3>2. /\ guesses' <= failures' + R' + faults'
          /\ guesses' + A' <= MaxFailures + Cardinality(Logins) - 1 + faults'
      BY <1>0, <2>1, <2>2, <3>1
    <3> QED BY <3>2 DEF LoginsCounted, R, A
  <2>3. CASE guesses' = guesses + 1 /\ login' = [login EXCEPT ![l] = [phase |-> "refused"]]
    <3>0. Moves(l, "admitted", "refused")
      BY <2>1, <2>3 DEF Moves, SessionTypeOK
    <3>1. R' = R + 1 /\ A' = A - 1
      BY <3>0, <1>0, MoveCount
    <3> HIDE DEF R, A
    <3>2. /\ guesses' <= failures' + R' + faults'
          /\ guesses' + A' <= MaxFailures + Cardinality(Logins) - 1 + faults'
      BY <1>0, <2>1, <2>3, <3>1
    <3> QED BY <3>2 DEF LoginsCounted, R, A
  <2> QED BY <1>2, <2>2, <2>3 DEF Verify
<1>3. ASSUME NEW l \in Logins, RefuseLogin(l) PROVE LoginsCounted'
  <2>1. /\ login[l].phase = "refused" /\ failures' = failures + 1 /\ guesses' = guesses
        /\ faults' = faults /\ login' = [login EXCEPT ![l] = Idle]
    BY <1>3 DEF RefuseLogin
  <2>2. R' = R - 1 /\ A' = A
    <3>1. Moves(l, "refused", "idle")
      BY <2>1 DEF Moves, SessionTypeOK, Idle
    <3> QED BY <3>1, <1>0, MoveCount
  <2> HIDE DEF R, A
  <2>3. /\ guesses' <= failures' + R' + faults'
        /\ guesses' + A' <= MaxFailures + Cardinality(Logins) - 1 + faults'
    BY <1>0, <2>1, <2>2
  <2> QED BY <2>3 DEF LoginsCounted, R, A
<1>4. ASSUME NEW l \in Logins, NEW s \in Sessions, OpenSession(l, s) PROVE LoginsCounted'
  <2>1. /\ login[l].phase = "verified" /\ failures' = failures /\ guesses' = guesses
        /\ faults' = faults /\ login' = [login EXCEPT ![l] = Idle]
    BY <1>4 DEF OpenSession
  <2>2. R' = R /\ A' = A
    <3>1. Moves(l, "verified", "idle")
      BY <2>1 DEF Moves, SessionTypeOK, Idle
    <3> QED BY <3>1, <1>0, MoveCount
  <2> QED BY <1>0, <2>1, <2>2 DEF LoginsCounted
<1>5. CASE Lose
  <2>1. failures' = failures /\ guesses' = guesses /\ faults' = faults + 1
    BY <1>5 DEF Lose
  <2>2. CASE login' = login
    <3>1. R' = R /\ A' = A
      BY <2>2 DEF AtPhase
    <3> HIDE DEF R, A
    <3>2. /\ guesses' <= failures' + R' + faults'
          /\ guesses' + A' <= MaxFailures + Cardinality(Logins) - 1 + faults'
      BY <1>0, <2>1, <3>1
    <3> QED BY <3>2 DEF LoginsCounted, R, A
  <2>3. ASSUME NEW l \in Logins, login' = [login EXCEPT ![l] = Idle] PROVE LoginsCounted'
    <3>1. (R' = R \/ R' = R - 1) /\ (A' = A \/ A' = A - 1)
      <4>1. Moves(l, login[l].phase, "idle")
        BY <2>3 DEF Moves, SessionTypeOK, Idle
      <4> QED BY <4>1, <1>0, MoveCount
    <3> HIDE DEF R, A
    <3>2. /\ guesses' <= failures' + R' + faults'
          /\ guesses' + A' <= MaxFailures + Cardinality(Logins) - 1 + faults'
      BY <1>0, <2>1, <3>1
    <3> QED BY <3>2 DEF LoginsCounted, R, A
  <2> QED BY <1>5, <2>2, <2>3 DEF Lose
<1>6. CASE UNCHANGED <<login, failures, guesses, faults>>
  BY <1>0, <1>6, SMTT(30) DEF LoginsCounted, AtPhase
<1>7. ASSUME \/ BeginChange \/ CommitChange \/ UNCHANGED vars
             \/ \E s \in Sessions : Revoke(s) \/ \E bound \in {"idle", "absolute"} : Lapse(s, bound)
             \/ \E c \in Clients : Consume(c) \/ Rotate(c) \/ Reuse(c) \/ EndResolve(c)
             \/ \E c \in Clients, s \in Sessions :
                  BeginResolve(c, s) \/ \E n \in DOMAIN tokens[s] : BeginRefresh(c, s, n)
      PROVE  UNCHANGED <<login, failures, guesses, faults>>
  BY <1>7 DEF BeginChange, CommitChange, vars, account, Revoke, Lapse, Consume, Rotate, Reuse,
              EndResolve, BeginResolve, BeginRefresh
<1> QED BY <1>1, <1>2, <1>3, <1>4, <1>5, <1>6, <1>7 DEF Next

-----------------------------------------------------------------------------
(* The theorems                                                            *)

SessionInv ==
  /\ SessionTypeOK /\ CallsFit /\ TokensAreOneChain
  /\ ReuseEndsTheFamily /\ ChangeEndsSessions /\ LoginsCounted

\* The first state is in order.
LEMMA InitInv == Init => SessionInv
<1> SUFFICES ASSUME Init PROVE SessionInv
  OBVIOUS
<1>1. SessionTypeOK
  BY InitTyped
<1>2. CallsFit /\ TokensAreOneChain /\ ReuseEndsTheFamily /\ ChangeEndsSessions
  BY DEF Init, CallsFit, TokensAreOneChain, ReuseEndsTheFamily, ChangeEndsSessions, NoSession, Idle
<1>3. LoginsCounted
  <2>1. \A x \in {"refused", "admitted"} : AtPhase(login, x) = {}
    BY DEF Init, AtPhase, Idle
  <2>2. Cardinality(AtPhase(login, "refused")) = 0 /\ Cardinality(AtPhase(login, "admitted")) = 0
    BY <2>1, FS_EmptySet
  <2> QED BY <2>2, PhasesFinite, SessionAssumption DEF LoginsCounted, Init
<1> QED BY <1>1, <1>2, <1>3 DEF SessionInv

\* The invariant of the module: what each call knows of the rows it read, and
\* what the rows keep whatever order the calls commit in.
THEOREM SessionInvariance == Spec => []SessionInv
<1>1. SessionInv /\ [Next]_vars => SessionInv'
  BY StepTyped, StepFits, StepChained, StepReuse, StepSwept, StepCounted DEF SessionInv
<1> QED BY <1>1, InitInv, PTL DEF Spec

\* The rows and calls keep their types (repository.ts, session.service.ts).
THEOREM SessionTypeCorrect == Spec => []SessionTypeOK
BY SessionInvariance, PTL DEF SessionInv

\* However many refreshes race, one token replaces one token: refresh and
\* rotate in session.service.ts never fork the chain of a session.
THEOREM TokensNeverFork == Spec => []TokensAreOneChain
BY SessionInvariance, PTL DEF SessionInv

\* A reuse that was answered has ended the session: revokeFamilyInTx.
THEOREM ReuseIsFinal == Spec => []ReuseEndsTheFamily
BY SessionInvariance, PTL DEF SessionInv

\* Whatever refreshes, resolves and logins a change of the password meets, the
\* sessions that it found when it revoked are over for good once it committed:
\* revokeAllForAccount in repository.ts.
THEOREM ChangeEndsWhatItFound == Spec => []ChangeEndsSessions
BY SessionInvariance, PTL DEF SessionInv

\* A call that read a session before it ended writes nothing that revives it:
\* the statuses the writes name in repository.ts.
THEOREM EndedSessionsStayEnded == Spec => EndedMintsNothing
<1>1. SessionInv /\ [Next]_vars =>
        [\A s \in Sessions : session[s].status \in Ended =>
           /\ session'[s].status = session[s].status
           /\ Len(tokens'[s]) = Len(tokens[s])]_vars
  BY EndedStays DEF SessionInv
<1> QED BY <1>1, SessionInvariance, PTL DEF Spec, EndedMintsNothing

\* The lockout bounds the passwords that are compared, up to the logins that
\* race past the count: isLockedOut in attempt.service.ts.
THEOREM LockoutBoundsGuesses == Spec => []LockoutHolds
<1>1. SessionInv => LockoutHolds
  BY PhasesFinite, SessionAssumption DEF SessionInv, LoginsCounted, LockoutHolds, SessionTypeOK
<1> QED BY <1>1, SessionInvariance, PTL

-----------------------------------------------------------------------------
(* The password that a login writes back.  A login that compared with a      *)
(* weak hash replaces it when it opens the session, whatever is there by     *)
(* then: PasswordChangeSticks fails in that window and nowhere else.         *)

\* A login that will write back the password it compared with.
Rehashing(l) == login[l].phase = "verified" /\ login[l].saw.weak

\* The change of the password meets no such login.
ChangesApart == changes' # changes => \A l \in Logins : ~Rehashing(l)

\* What such a login would write is what the last change set.
Fresh ==
  /\ PasswordChangeSticks
  /\ \A l \in Logins : Rehashing(l) => login[l].saw.password = changes

\* Nothing is hashed weakly: not the password, and not what a login compared with.
Strong ==
  /\ ~credential.weak
  /\ \A l \in Logins : ~Rehashing(l)

\* A step that changes the password is CommitChange; the others leave it, but
\* for a login that opens its session and rehashes.  What a login saw is what it
\* read from the row.
LEMMA CredentialMoves ==
  ASSUME SessionTypeOK, [Next]_vars
  PROVE  /\ \A l \in Logins : Rehashing(l)' =>
              \/ Rehashing(l) /\ login'[l] = login[l]
              \/ credential.weak /\ login'[l].saw = credential /\ credential' = credential
                 /\ changes' = changes
         /\ \/ credential' = credential /\ changes' = changes
            \/ /\ changes' = changes + 1
               /\ credential' = [password |-> changes', weak |-> Fallback]
            \/ \E l \in Logins :
                 /\ Rehashing(l) /\ changes' = changes
                 /\ credential' = [password |-> login[l].saw.password, weak |-> Fallback]
<1> DEFINE Seen(l) == Rehashing(l)' =>
              \/ Rehashing(l) /\ login'[l] = login[l]
              \/ credential.weak /\ login'[l].saw = credential /\ credential' = credential
                 /\ changes' = changes
<1>1. ASSUME NEW k \in Logins, NEW x, login' = [login EXCEPT ![k] = x], x.phase # "verified"
      PROVE  \A l \in Logins : Seen(l)
  BY <1>1 DEF SessionTypeOK, Rehashing
<1>2. ASSUME login' = login PROVE \A l \in Logins : Seen(l)
  BY <1>2 DEF Rehashing
<1>3. Idle.phase # "verified"
  BY DEF Idle
<1>4. ASSUME NEW k \in Logins, BeginLogin(k) \/ RefuseLogin(k)
      PROVE  (\A l \in Logins : Seen(l)) /\ credential' = credential /\ changes' = changes
  <2>1. CASE BeginLogin(k)
    <3> DEFINE x == [phase |-> IF LockedOut THEN "refused" ELSE "admitted"]
    <3>1. x.phase # "verified" /\ login' = [login EXCEPT ![k] = x]
      BY <2>1 DEF BeginLogin
    <3> HIDE DEF x
    <3>2. \A l \in Logins : Seen(l)
      BY <1>1, <3>1
    <3> QED BY <2>1, <3>2 DEF BeginLogin, account
  <2>2. CASE RefuseLogin(k)
    <3>1. \A l \in Logins : Seen(l)
      BY <1>1, <1>3, <2>2 DEF RefuseLogin
    <3> QED BY <2>2, <3>1 DEF RefuseLogin
  <2> QED BY <1>4, <2>1, <2>2
<1>5. ASSUME NEW k \in Logins, Verify(k)
      PROVE  (\A l \in Logins : Seen(l)) /\ credential' = credential /\ changes' = changes
  <2>1. credential' = credential /\ changes' = changes
    BY <1>5 DEF Verify
  <2>2. CASE login' = [login EXCEPT ![k] = [phase |-> "verified", saw |-> credential]]
    BY <2>1, <2>2 DEF SessionTypeOK, Rehashing
  <2>3. CASE login' = [login EXCEPT ![k] = [phase |-> "refused"]]
    <3> DEFINE x == [phase |-> "refused"]
    <3>1. x.phase # "verified"
      OBVIOUS
    <3> QED BY <1>1, <2>1, <2>3, <3>1
  <2> QED BY <1>5, <2>1, <2>2, <2>3 DEF Verify
<1>6. ASSUME NEW k \in Logins, NEW s \in Sessions, OpenSession(k, s)
      PROVE  /\ \A l \in Logins : Seen(l)
             /\ changes' = changes
             /\ \/ credential' = credential
                \/ /\ Rehashing(k)
                   /\ credential' = [password |-> login[k].saw.password, weak |-> Fallback]
  <2>1. \A l \in Logins : Seen(l)
    BY <1>1, <1>3, <1>6 DEF OpenSession
  <2> QED BY <1>6, <2>1 DEF OpenSession, Rehashed, Rehashing
<1>7. CASE BeginChange \/ CommitChange
  BY <1>2, <1>7 DEF BeginChange, CommitChange
<1>8. CASE Lose
  <2>1. \A l \in Logins : Seen(l)
    BY <1>1, <1>2, <1>3, <1>8 DEF Lose
  <2> QED BY <1>8, <2>1 DEF Lose
<1>9. ASSUME login' = login, UNCHANGED account
      PROVE  (\A l \in Logins : Seen(l)) /\ credential' = credential /\ changes' = changes
  BY <1>2, <1>9 DEF account
<1>10. CASE \E c \in Clients, s \in Sessions :
              BeginResolve(c, s) \/ \E n \in DOMAIN tokens[s] : BeginRefresh(c, s, n)
  BY <1>9, <1>10 DEF BeginResolve, BeginRefresh
<1>11. CASE \E c \in Clients : Consume(c) \/ Rotate(c) \/ Reuse(c) \/ EndResolve(c)
  BY <1>9, <1>11 DEF Consume, Rotate, Reuse, EndResolve
<1>12. CASE \E s \in Sessions : Revoke(s) \/ \E bound \in {"idle", "absolute"} : Lapse(s, bound)
  BY <1>9, <1>12 DEF Revoke, Lapse
<1>13. CASE UNCHANGED vars
  BY <1>9, <1>13 DEF vars
<1> QED BY <1>4, <1>5, <1>6, <1>7, <1>8, <1>10, <1>11, <1>12, <1>13 DEF Next

\* A change that meets no login about to rehash leaves the password fresh.
LEMMA StepFresh == SessionTypeOK /\ Fresh /\ [Next]_vars /\ [ChangesApart]_vars => Fresh'
<1> SUFFICES ASSUME SessionTypeOK, Fresh, [Next]_vars, [ChangesApart]_vars PROVE Fresh'
  OBVIOUS
<1>1. PasswordChangeSticks'
  BY CredentialMoves DEF Fresh, PasswordChangeSticks
<1>2. ASSUME NEW l \in Logins, Rehashing(l)' PROVE login'[l].saw.password = changes'
  <2>1. \/ Rehashing(l) /\ login'[l] = login[l]
        \/ credential.weak /\ login'[l].saw = credential /\ changes' = changes
    BY <1>2, CredentialMoves
  <2>2. CASE Rehashing(l) /\ login'[l] = login[l]
    <3>1. changes' = changes
      BY <2>2 DEF ChangesApart, vars, account
    <3> QED BY <2>2, <3>1 DEF Fresh
  <2>3. CASE credential.weak /\ login'[l].saw = credential /\ changes' = changes
    BY <2>3 DEF Fresh, PasswordChangeSticks
  <2> QED BY <2>1, <2>2, <2>3
<1> QED BY <1>1, <1>2 DEF Fresh

\* Where no hash is weak, none gets weak and no login writes a password.
LEMMA StepStrong ==
  ~Fallback /\ SessionTypeOK /\ Strong /\ PasswordChangeSticks /\ [Next]_vars
    => Strong' /\ PasswordChangeSticks'
<1> SUFFICES ASSUME ~Fallback, SessionTypeOK, Strong, PasswordChangeSticks, [Next]_vars
             PROVE  Strong' /\ PasswordChangeSticks'
  OBVIOUS
<1>1. \/ credential' = credential /\ changes' = changes
      \/ credential' = [password |-> changes', weak |-> Fallback]
  BY CredentialMoves DEF Strong
<1>2. ~credential'.weak /\ credential'.password = changes'
  BY <1>1 DEF Strong, PasswordChangeSticks
<1>3. \A l \in Logins : ~Rehashing(l)'
  BY CredentialMoves DEF Strong
<1> QED BY <1>2, <1>3 DEF Strong, PasswordChangeSticks

\* Claimed by auth.service.ts ("Changes a password"), and true where no change
\* of the password meets a login that has compared with a weak hash and not yet
\* opened its session: the live secret is the one the last change set.
THEOREM ChangesStickApart == Spec /\ [][ChangesApart]_vars => []PasswordChangeSticks
<1>1. Init => Fresh
  BY DEF Init, Fresh, Rehashing, Idle, PasswordChangeSticks
<1>2. Fresh => PasswordChangeSticks
  BY DEF Fresh
<1> QED BY <1>1, <1>2, StepFresh, SessionTypeCorrect, PTL DEF Spec

\* And it is true whatever races where the configured hasher is the strong one
\* and the account's password was never hashed with another.
THEOREM ChangesStickWhenStrong ==
  Spec /\ ~credential.weak /\ ~Fallback => []PasswordChangeSticks
<1>1. Init /\ ~credential.weak => Strong /\ PasswordChangeSticks
  BY DEF Init, Strong, Rehashing, Idle, PasswordChangeSticks
<1>2. Fallback \in BOOLEAN
  BY SessionAssumption
<1>3. CASE ~Fallback
  BY <1>1, <1>3, StepStrong, SessionTypeCorrect, PTL DEF Spec
<1>4. CASE Fallback
  BY <1>4
<1> QED BY <1>3, <1>4

-----------------------------------------------------------------------------
(* What is left of the promise that no session outlives a change.  A login   *)
(* holds nothing that a change waits for or sees, so the session it opens    *)
(* lives on whatever password it compared: on the old one, if a change       *)
(* revoked, or committed, while it was between its comparison and its commit.*)

\* No login is between its comparison and its commit while a change is open.
ChangesAlone == change # Idle => \A l \in Logins : login[l].phase # "verified"

\* What is active was opened with the password there is.
SessionsAreCurrent == \A s \in Sessions : session[s].status = "active" => session[s].born = changes

\* And a login that compared holds the password there is, and an open change
\* has found every active session.
Current ==
  /\ SessionsAreCurrent /\ PasswordChangeSticks
  /\ \A l \in Logins : login[l].phase = "verified" => login[l].saw.password = changes
  /\ change # Idle => \A s \in Sessions : session[s].status = "active" => s \in change.found

\* What a login compared is what it read of the credential.
LEMMA VerifiedMoves ==
  ASSUME SessionTypeOK, [Next]_vars, NEW l \in Logins, login'[l].phase = "verified"
  PROVE  \/ login[l].phase = "verified" /\ login'[l] = login[l]
         \/ login'[l].saw = credential /\ UNCHANGED <<credential, changes>>
<1>1. CASE \E k \in Logins : BeginLogin(k) \/ RefuseLogin(k) \/ \E s \in Sessions : OpenSession(k, s)
  BY <1>1 DEF BeginLogin, RefuseLogin, OpenSession, SessionTypeOK, Idle
<1>2. CASE \E k \in Logins : Verify(k)
  BY <1>2 DEF Verify, SessionTypeOK
<1>3. CASE Lose
  BY <1>3 DEF Lose, SessionTypeOK, Idle
<1>4. CASE UNCHANGED login
  BY <1>4
<1>5. \/ \E k \in Logins : \/ BeginLogin(k) \/ Verify(k) \/ RefuseLogin(k)
                          \/ \E s \in Sessions : OpenSession(k, s)
      \/ Lose \/ UNCHANGED login
  BY ZenonT(60) DEF Next, vars, BeginChange, CommitChange, BeginResolve, BeginRefresh, Consume,
     Rotate, Reuse, EndResolve, Revoke, Lapse
<1> QED BY <1>1, <1>2, <1>3, <1>4, <1>5
\* Only a rotation and a login's commit touch a session that is active after it,
\* and a change that begins is the only one that finds sessions.
LEMMA ActiveMoves ==
  ASSUME SessionTypeOK, CallsFit, TokensAreOneChain, [Next]_vars,
         NEW s \in Sessions, session'[s].status = "active"
  PROVE  \/ session[s].status = "active" /\ session'[s].born = session[s].born
         \/ \E l \in Logins : /\ login[l].phase = "verified" /\ changes' = changes
                             /\ session'[s].born = login[l].saw.password /\ change' = change
<1>1. CASE Quiet
  BY <1>1 DEF Quiet, Ended
<1>2. ASSUME NEW l \in Logins, NEW r \in Sessions, OpenSession(l, r)
      PROVE  \/ session'[s] = session[s]
             \/ /\ login[l].phase = "verified" /\ changes' = changes
                /\ session'[s].born = login[l].saw.password /\ change' = change
  <2>1. CASE s = r
    BY <1>2, <2>1 DEF OpenSession, SessionTypeOK, NoSession
  <2>2. CASE s # r
    BY <1>2, <2>2 DEF OpenSession, SessionTypeOK
  <2> QED BY <2>1, <2>2
<1>3. ASSUME NEW c \in Clients, Rotate(c)
      PROVE  session[s].status = "active" /\ session'[s].born = session[s].born
  <2>1. CASE s = client[c].session
    BY <1>3, <2>1, RotateMoves
  <2>2. CASE s # client[c].session
    BY <1>3, <2>2, RotateMoves
  <2> QED BY <2>1, <2>2
<1> QED BY <1>1, <1>2, <1>3, QuietSteps

\* A change is open after a step if it was before it, or begins with it.
LEMMA ChangeMoves ==
  ASSUME [Next]_vars, change' # Idle
  PROVE  \/ change' = change
         \/ /\ UNCHANGED <<session, changes>>
            /\ change'.found = {s \in Sessions : session[s].status = "active"}
<1>1. CASE BeginChange
  BY <1>1 DEF BeginChange, account, ledger
<1>2. CASE ~BeginChange
  BY <1>2, ZenonT(60) DEF Next, vars, account, ledger, BeginLogin, Verify, RefuseLogin,
     OpenSession, CommitChange, BeginResolve, BeginRefresh, Consume, Rotate, Reuse, EndResolve,
     Revoke, Lapse, Lose
<1> QED BY <1>1, <1>2

\* Where changes meet no such login, every step keeps the sessions current.
LEMMA StepCurrent ==
  SessionInv /\ Current /\ ChangesAlone /\ [Next]_vars => Current'
<1> SUFFICES ASSUME SessionTypeOK, CallsFit, TokensAreOneChain, Current, ChangesAlone, [Next]_vars
             PROVE  Current'
  BY DEF SessionInv
<1>1. PasswordChangeSticks'
  BY CredentialMoves DEF Current, PasswordChangeSticks, Rehashing
<1>2. CASE CommitChange
  <2>1. /\ change # Idle /\ change' = Idle /\ login' = login
        /\ \A l \in Logins : login[l].phase # "verified"
    BY <1>2 DEF CommitChange, ChangesAlone
  <2>2. ASSUME NEW s \in Sessions PROVE session'[s].status # "active"
    <3>1. session'[s] = IF s \in change.found THEN End(s, "revoked") ELSE session[s]
      BY <1>2 DEF CommitChange, RevokedByChange
    <3> QED BY <2>1, <3>1, EndTyped DEF Current, Ended
  <2> QED BY <1>1, <2>1, <2>2 DEF Current, SessionsAreCurrent
<1>3. CASE changes' = changes
  <2>1. SessionsAreCurrent'
    BY <1>3, ActiveMoves DEF Current, SessionsAreCurrent
  <2>2. ASSUME NEW l \in Logins, login'[l].phase = "verified"
        PROVE  login'[l].saw.password = changes'
    BY <1>3, <2>2, VerifiedMoves DEF Current, PasswordChangeSticks
  <2>3. ASSUME change' # Idle, NEW s \in Sessions, session'[s].status = "active"
        PROVE  s \in change'.found
    <3>1. CASE change' = change
      <4>1. session[s].status = "active"
        BY <2>3, <3>1, ActiveMoves DEF ChangesAlone
      <4> QED BY <2>3, <3>1, <4>1 DEF Current
    <3>2. CASE /\ session' = session
               /\ change'.found = {r \in Sessions : session[r].status = "active"}
      BY <2>3, <3>2
    <3> QED BY <2>3, <3>1, <3>2, ChangeMoves
  <2> QED BY <1>1, <2>1, <2>2, <2>3 DEF Current
<1> QED BY <1>2, <1>3, SweptMoves

\* Promised by auth.service.ts ("revokes every existing session ...
\* atomically"), and true where no change is open while a login is between
\* its comparison and its commit: every active session was opened with the
\* password there is.
THEOREM NoSessionOutlivesItsPassword == Spec /\ []ChangesAlone => []SessionsAreCurrent
<1>1. Init => Current
  BY DEF Init, Current, SessionsAreCurrent, PasswordChangeSticks, NoSession, Idle
<1>2. Current => SessionsAreCurrent
  BY DEF Current
<1> QED BY <1>1, <1>2, StepCurrent, SessionInvariance, PTL DEF Spec
===============================================================================
