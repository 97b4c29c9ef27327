------------------------------- MODULE Session -------------------------------
(***************************************************************************)
(* Sessions: the tabs of one browser (api.service.ts, AuthService.ts,      *)
(* authSlice.ts, the bootstrap in App.tsx) and the server's refresh tokens *)
(* (auth.service.ts).  A tab keeps its access token in memory; the browser *)
(* keeps one refresh cookie for all tabs; the server keeps one hash per    *)
(* user.  Tokens are numbered as they are issued, access and refresh token *)
(* of one issue alike, 0 is none, and older ones expire first.             *)
(***************************************************************************)
EXTENDS Naturals, Sequences

CONSTANTS Users, NoUser, First,
          Tabs, FirstTab,
          Requests, \* API requests that may be under way
          HomeOf,   \* the tab of each: [Requests -> Tabs]
          Calls,    \* calls to /auth that may be under way at once
          MaxActs   \* bound: what users, clocks, other devices and a bad network do

ASSUME SessionAssumption ==
  /\ First \in Users /\ NoUser \notin Users
  /\ FirstTab \in Tabs /\ "gone" \notin Tabs
  /\ HomeOf \in [Requests -> Tabs]

VARIABLES issued,     \* the user of each token
          row,        \* refreshTokenHash: the token last issued to each user
          accessOver, \* access tokens up to this one are expired
          refreshOver,\* refresh tokens up to this one are expired
          cookie,     \* the browser's refresh cookie
          tab,        \* page, user, access token, owner of the workspace
          refreshing, \* tabs whose refreshPromise is pending
          disk,       \* owner of the workspace in the persisted store
          recovery,   \* the workspace recovery: for whom, and whose workspace
          req, call,
          acts,
          out,        \* ghost: users signed out, no refresh of theirs under way then
          ended,      \* ghost: has any session been ended or expired, or any call been lost?
          mixed,      \* ghost: has a token of another user been put into a tab?
          owed        \* ghost: users whose session expired with a workspace open

vars == <<issued, row, accessOver, refreshOver, cookie, tab, refreshing, disk, recovery,
          req, call, acts, out, ended, mixed, owed>>
server == <<issued, row, accessOver, refreshOver>>
browser == <<cookie, tab, refreshing, disk, recovery, req>>
ghosts == <<out, ended, mixed, owed>>

Owners == Users \cup {NoUser}
Nothing == [for |-> NoUser, work |-> NoUser]
NewPage == [page |-> "open", user |-> NoUser, token |-> 0, work |-> NoUser]
NoReq == [st |-> "idle", tok |-> 0, again |-> FALSE]
NoCall == [kind |-> "boot", tab |-> "gone", tok |-> 0, st |-> "idle", got |-> 0, user |-> NoUser]

\* One user has signed in, in one of the tabs, with or without a recovered workspace.
Init ==
  \E work \in {NoUser, First} :
  /\ issued = <<First>> /\ row = [u \in Users |-> IF u = First THEN 1 ELSE 0]
  /\ accessOver = 0 /\ refreshOver = 0 /\ cookie = 1
  /\ tab = [t \in Tabs |-> IF t = FirstTab THEN [NewPage EXCEPT !.user = First, !.token = 1, !.work = work]
                           ELSE NewPage]
  /\ refreshing = {} /\ disk = work /\ recovery = Nothing
  /\ req = [r \in Requests |-> NoReq] /\ call = [c \in Calls |-> NoCall]
  /\ acts = 0
  /\ out = {} /\ ended = FALSE /\ mixed = FALSE /\ owed = {}

Act == acts < MaxActs /\ acts' = acts + 1
Free == {c \in Calls : call[c].st = "idle"}
Sent(kind, t, tok, u) ==
  [call EXCEPT ![CHOOSE c \in Free : TRUE] =
     [kind |-> kind, tab |-> t, tok |-> tok, st |-> "sent", got |-> 0, user |-> u]]
Send(kind, t, tok, u) == Free # {} /\ call' = Sent(kind, t, tok, u)
Answer(c, st, n) == call' = [call EXCEPT ![c].st = st, ![c].got = n]
Waiters(t) == {r \in Requests : HomeOf[r] = t /\ req[r].st = "wait"}

-----------------------------------------------------------------------------
(* The store of a tab, with what it persists. *)

\* restoreSession: the workspace stays as it is.
Restore(t, n) ==
  /\ tab' = [tab EXCEPT ![t].user = issued[n], ![t].token = n]
  /\ disk' = tab[t].work
  /\ mixed' = (mixed \/ tab[t].work \notin {NoUser, issued[n]})
  /\ UNCHANGED <<recovery, owed>>

\* Mutant: the recovery is taken whoever it is for.
LoginTakingAny(t, n) ==
  LET u == issued[n] IN
  /\ tab' = [tab EXCEPT ![t].user = u, ![t].token = n, ![t].work = recovery.work]
  /\ disk' = recovery.work /\ recovery' = Nothing
  /\ owed' = owed \ {u} /\ UNCHANGED mixed

\* login: with the recovery of that very user.
Login(t, n) ==
  LET u == issued[n]
      mine == recovery.for = u
      work == IF mine THEN recovery.work ELSE NoUser IN
  /\ tab' = [tab EXCEPT ![t].user = u, ![t].token = n, ![t].work = work]
  /\ disk' = work
  /\ recovery' = IF mine THEN Nothing ELSE recovery
  /\ owed' = owed \ {u} /\ UNCHANGED mixed

\* logout: preserveWorkspace keeps the workspace of whoever is signed in; with
\* nobody signed in, which is how a second logout finds the store, it clears it.
Logout(t, preserve, twice) ==
  LET u == tab[t].user IN
  /\ tab' = [tab EXCEPT ![t].user = NoUser, ![t].token = 0, ![t].work = NoUser]
  /\ disk' = NoUser
  /\ recovery' = IF preserve /\ ~twice /\ u # NoUser THEN [for |-> u, work |-> tab[t].work] ELSE Nothing
  /\ owed' = IF preserve /\ u = NoUser THEN owed ELSE {v \in {u} : preserve /\ tab[t].work = v}
  /\ UNCHANGED mixed

StoreStays == UNCHANGED <<tab, disk, recovery, mixed, owed>>

-----------------------------------------------------------------------------
(* What happens in the tabs. *)

\* A page is loaded, by its user or by the redirect that ends a logout: what was
\* in memory is gone, what was persisted is back, and a refresh is tried at once.
\* Whoever answers the old page's calls answers nobody.
Load(t) ==
  /\ IF tab[t].page = "leaving" THEN UNCHANGED acts ELSE Act
  /\ Free # {}
  /\ call' = [c \in Calls |-> IF call[c].tab = t THEN [call[c] EXCEPT !.tab = "gone"]
                             ELSE Sent("boot", t, cookie, NoUser)[c]]
  /\ refreshing' = refreshing \ {t}
  /\ tab' = [tab EXCEPT ![t] = [NewPage EXCEPT !.work = disk]]
  /\ req' = [r \in Requests |-> IF HomeOf[r] = t THEN NoReq ELSE req[r]]
  /\ UNCHANGED <<server, cookie, disk, recovery, ghosts>>

\* A user signs in with the form, or lands with the code of an OAuth provider,
\* which is exchanged while the page's first refresh may still be under way.
SignIn(t, u) ==
  /\ Act /\ tab[t].page = "open" /\ tab[t].user = NoUser
  /\ Send("login", t, 0, u)
  /\ UNCHANGED <<server, browser, ghosts>>

\* The user opens tabs and queries.
Open(t) ==
  /\ Act /\ tab[t].user # NoUser /\ tab[t].work = NoUser
  /\ tab' = [tab EXCEPT ![t].work = tab[t].user]
  /\ disk' = tab[t].user
  /\ UNCHANGED <<server, cookie, refreshing, recovery, req, call, ghosts>>

\* logoutAndRedirect: the user signs out, or TokenTimer finds the access token
\* expired.  beginLogout refuses new requests and forgets the pending refresh.
SignOut(t) ==
  /\ Act /\ tab[t].page = "open" /\ tab[t].user # NoUser
  /\ Send("logout", t, cookie, NoUser)
  /\ tab' = [tab EXCEPT ![t].page = "leaving"]
  /\ refreshing' = refreshing \ {t}
  /\ UNCHANGED <<server, cookie, disk, recovery, req, ghosts>>

\* requestInternal: the headers are made once, with the token of that moment.
Request(r) ==
  /\ tab[HomeOf[r]].page = "open" /\ tab[HomeOf[r]].user # NoUser /\ req[r].st = "idle"
  /\ Act
  /\ req' = [req EXCEPT ![r] = [st |-> "sent", tok |-> tab[HomeOf[r]].token, again |-> FALSE]]
  /\ UNCHANGED <<server, cookie, tab, refreshing, disk, recovery, call, ghosts>>

\* The request is answered, or lost.
Answered(r) ==
  /\ req[r].st = "sent"
  /\ IF req[r].tok > accessOver THEN UNCHANGED acts ELSE Act
  /\ req' = [req EXCEPT ![r] = NoReq]
  /\ UNCHANGED <<server, cookie, tab, refreshing, disk, recovery, call, ghosts>>

\* It is answered with 401: the first time, that takes a refresh, one for all.
Join(r) ==
  /\ req[r].st = "sent" /\ req[r].tok <= accessOver /\ ~req[r].again
  /\ tab[HomeOf[r]].page = "open" /\ HomeOf[r] \in refreshing
  /\ req' = [req EXCEPT ![r].st = "wait"]
  /\ UNCHANGED <<server, cookie, tab, refreshing, disk, recovery, call, acts, ghosts>>

Refresh(r) ==
  LET t == HomeOf[r] IN
  /\ req[r].st = "sent" /\ req[r].tok <= accessOver /\ ~req[r].again
  /\ tab[t].page = "open" /\ t \notin refreshing
  /\ Send("refresh", t, cookie, NoUser)
  /\ refreshing' = refreshing \cup {t}
  /\ req' = [req EXCEPT ![r].st = "wait"]
  /\ UNCHANGED <<server, cookie, tab, disk, recovery, acts, ghosts>>

\* The second time, or while the tab is leaving, it signs the tab out.
Fail(r) ==
  LET t == HomeOf[r] IN
  /\ req[r].st = "sent" /\ req[r].tok <= accessOver
  /\ req[r].again \/ tab[t].page = "leaving"
  /\ Logout(t, TRUE, FALSE)
  /\ req' = [req EXCEPT ![r] = NoReq]
  /\ UNCHANGED <<server, cookie, refreshing, call, acts, out, ended>>

-----------------------------------------------------------------------------
(* The server. *)

\* Mutant: the whole token counts.
MatchesExactly(k, hash) == k = hash

\* bcrypt.compare sees the first 72 bytes, and those of a user's tokens agree.
Matches(k, hash) == issued[k] = issued[hash]

\* Mutant: any token that verifies is good, whatever is stored.
ReadUnstored(c) ==
  /\ call[c].kind \in {"boot", "refresh"} /\ call[c].st = "sent"
  /\ Answer(c, IF call[c].tok <= refreshOver THEN "no" ELSE "read", 0)
  /\ UNCHANGED <<row, out, ended>>

\* refreshSession verifies the token, reads the row and compares.
Read(c) ==
  LET k == call[c].tok
      hash == row[issued[k]] IN
  /\ call[c].kind \in {"boot", "refresh"} /\ call[c].st = "sent"
  /\ IF k <= refreshOver \/ hash = 0
     THEN Answer(c, "no", 0) /\ UNCHANGED <<row, out, ended>>
     ELSE IF hash <= refreshOver \/ ~Matches(k, hash)
     THEN Answer(c, "no", 0) /\ row' = [row EXCEPT ![issued[k]] = 0] /\ UNCHANGED <<out, ended>>
     ELSE Answer(c, "read", 0) /\ UNCHANGED <<row, out, ended>>

\* issueSession, after a refresh has read the row or a login was accepted.
Issue(c) ==
  LET u == IF call[c].kind = "login" THEN call[c].user ELSE issued[call[c].tok] IN
  /\ call[c].st = "read" \/ (call[c].kind = "login" /\ call[c].st = "sent")
  /\ issued' = Append(issued, u)
  /\ row' = [row EXCEPT ![u] = Len(issued) + 1]
  /\ Answer(c, "ok", Len(issued) + 1)
  /\ out' = IF call[c].kind = "login" THEN out \ {u} ELSE out
  /\ UNCHANGED <<accessOver, refreshOver, ended>>

\* A wrong password, or a code that is no longer good.
Reject(c) ==
  /\ call[c].kind = "login" /\ call[c].st = "sent"
  /\ Answer(c, "no", 0)
  /\ UNCHANGED <<row, out, ended>>

\* logout revokes what is stored for the user of the cookie.
Revoke(c) ==
  LET k == call[c].tok IN
  /\ call[c].kind = "logout" /\ call[c].st = "sent"
  /\ Answer(c, "ok", 0)
  /\ ended' = TRUE
  /\ IF k <= refreshOver THEN UNCHANGED <<row, out>>
     ELSE /\ row' = [row EXCEPT ![issued[k]] = 0]
          /\ out' = IF \E d \in Calls : call[d].st = "read" /\ issued[call[d].tok] = issued[k]
                    THEN out ELSE out \cup {issued[k]}

Serve(c) ==
  /\ \/ Issue(c)
     \/ (Read(c) \/ Reject(c) \/ Revoke(c)) /\ UNCHANGED <<issued, accessOver, refreshOver>>
  /\ UNCHANGED <<browser, acts, mixed, owed>>

\* resetPasswordWithOtp revokes, a login on another device replaces the hash,
\* and tokens expire: the access tokens so far, or the refresh tokens too.
Elsewhere(u) ==
  /\ Act
  /\ \/ row' = [row EXCEPT ![u] = 0] /\ ended' = TRUE /\ UNCHANGED <<issued, out>>
     \/ /\ issued' = Append(issued, u) /\ row' = [row EXCEPT ![u] = Len(issued) + 1]
        /\ out' = out \ {u} /\ UNCHANGED ended
  /\ UNCHANGED <<accessOver, refreshOver, browser, call, mixed, owed>>

Expire ==
  /\ Act /\ issued # <<>>
  /\ accessOver' = Len(issued)
  /\ \/ refreshOver' = Len(issued) /\ ended' = TRUE
     \/ UNCHANGED <<refreshOver, ended>>
  /\ UNCHANGED <<issued, row, browser, call, out, mixed, owed>>

-----------------------------------------------------------------------------
(* Answers reach the browser. *)

Lose(c) ==
  /\ Act /\ call[c].st \in {"sent", "ok", "no"}
  /\ ended' = TRUE
  /\ Answer(c, "lost", 0)
  /\ UNCHANGED <<server, browser, out, mixed, owed>>

CookieAfter(c) ==
  IF call[c].st # "ok" THEN cookie ELSE IF call[c].kind = "logout" THEN 0 ELSE call[c].got

\* The page that asked is gone: its cookie may come in or not.
Ignore(c) ==
  /\ call[c].tab = "gone" /\ call[c].st \in {"ok", "no", "lost"}
  /\ cookie' \in {cookie, CookieAfter(c)}
  /\ call' = [call EXCEPT ![c] = NoCall]
  /\ UNCHANGED <<server, tab, refreshing, disk, recovery, req, acts, ghosts>>

\* Mutant: only the request that started the refresh is woken up.
WokenFirst(t) == IF Waiters(t) = {} THEN {} ELSE {CHOOSE r \in Waiters(t) : TRUE}

\* All the requests that wait for the refresh of their tab.
Woken(t) == Waiters(t)

\* Requests woken by a refresh that went well are sent again as they were,
\* unless the tab is leaving; the others fail.
Wake(t, well) ==
  req' = [r \in Requests |->
    IF r \notin Woken(t) THEN req[r]
    ELSE IF well /\ tab[t].page = "open" THEN [req[r] EXCEPT !.st = "sent", !.again = TRUE]
    ELSE NoReq]

Deliver(c) ==
  LET t == call[c].tab
      kind == call[c].kind
      st == call[c].st IN
  /\ t \in Tabs /\ st \in {"ok", "no", "lost"}
  /\ cookie' = CookieAfter(c)
  /\ call' = [call EXCEPT ![c] = NoCall]
  /\ IF kind = "refresh" THEN Wake(t, st = "ok") /\ refreshing' = refreshing \ {t}
     ELSE UNCHANGED <<req, refreshing>>
  /\ \/ kind = "logout" /\ Logout(t, FALSE, FALSE)
     \/ kind = "login" /\ st = "ok" /\ Login(t, call[c].got)
     \/ kind \in {"boot", "refresh"} /\ st = "ok" /\ Restore(t, call[c].got)
     \/ kind \in {"boot", "login"} /\ st = "no" /\ Logout(t, TRUE, FALSE)
     \/ kind \in {"boot", "login"} /\ st = "lost" /\ StoreStays
     \/ kind = "refresh" /\ st # "ok" /\ Logout(t, TRUE, Waiters(t) # {})
  /\ UNCHANGED <<server, acts, out, ended>>

Work ==
  \/ \E c \in Calls : Serve(c) \/ Ignore(c) \/ Deliver(c)
  \/ \E r \in Requests : Answered(r) \/ Join(r) \/ Fail(r) \/ Refresh(r)

Next ==
  \/ Work \/ Expire
  \/ \E t \in Tabs : Open(t) \/ Load(t) \/ SignOut(t) \/ \E u \in Users : SignIn(t, u)
  \/ \E r \in Requests : Request(r)
  \/ \E c \in Calls : Lose(c)
  \/ \E u \in Users : Elsewhere(u)

\* The server answers, the network does or says that it does not, callbacks run.
Spec == Init /\ [][Next]_vars /\ WF_vars(Work)

-----------------------------------------------------------------------------
\* Tokens, tabs and calls keep their types; whoever is signed in has a token.
TypeOK ==
  /\ issued \in Seq(Users) /\ refreshOver \in 0 .. accessOver /\ accessOver \in 0 .. Len(issued)
  /\ cookie \in 0 .. Len(issued) /\ disk \in Owners /\ refreshing \subseteq Tabs
  /\ \A u \in Users : row[u] = 0 \/ (row[u] \in 1 .. Len(issued) /\ issued[row[u]] = u)
  /\ \A t \in Tabs : IF tab[t].user = NoUser THEN tab[t].token = 0 ELSE issued[tab[t].token] = tab[t].user
  /\ \A r \in Requests : req[r].st \in {"idle", "sent", "wait"} /\ req[r].tok \in 0 .. Len(issued)
  /\ \A c \in Calls : call[c].st \in {"idle", "sent", "read", "ok", "no", "lost"}

\* Once a user has signed out there is no session of that user until the next
\* login, in any tab, whatever refreshes arrive, but for a refresh that had
\* read the row before the logout revoked it.
SignedOutStays == \A u \in out : row[u] = 0

\* The workspace in a tab is that of the user signed in there, unless a refresh
\* was answered, in this browser, with a token of another user than the tab's.
WorkspaceIsMine ==
  mixed \/ \A t \in Tabs : tab[t].user = NoUser \/ tab[t].work \in {NoUser, tab[t].user}

\* While nobody signs out, no password is reset, no refresh token gets old and
\* nothing is lost, a tab signs its user out only when its page is left, when a
\* request repeated after a refresh is refused again, or when the page's first
\* refresh or another login is refused after a login: two tabs that refresh
\* with one cookie do not end each other's session.
SignedOutForAReason ==
  [][\A t \in Tabs : tab[t].user # NoUser /\ tab'[t].user = NoUser =>
       \/ ended \/ tab[t].page = "leaving"
       \/ \E c \in Free : call'[c].kind = "boot" /\ call'[c].tab = t
       \/ \E r \in Requests : HomeOf[r] = t /\ req[r].again
       \/ \E c \in Calls : call[c].tab = t /\ call[c].kind \in {"boot", "login"} /\ call[c].st = "no"]_vars

\* Every request of a tab is settled, whatever its refresh comes to.
RequestsSettle == \A r \in Requests : []<>(req[r].st = "idle")

\* "restores workspace tabs after a session-expiry logout for the same user"
RecoveryKept == \A u \in owed : recovery = [for |-> u, work |-> u]
=============================================================================
