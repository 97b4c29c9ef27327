---------------------------- MODULE Session_proofs ----------------------------
(***************************************************************************)
(* Proofs about Session, for any number of users, tabs, requests and calls *)
(* under way: a signed-out user has no session, a tab shows the workspace  *)
(* of its user, and tabs that share a cookie do not end each other's       *)
(* session, since every refresh token of a user matches the stored hash.   *)
(***************************************************************************)
EXTENDS Session, TLAPS

USE SessionAssumption

Call == [kind : {"boot", "login", "logout", "refresh"}, tab : Tabs \cup {"gone"}, tok : Nat,
         st : {"idle", "sent", "read", "ok", "no", "lost"}, got : Nat, user : Owners]
TabState == [page : {"open", "leaving"}, user : Owners, token : Nat, work : Owners]
Req == [st : {"idle", "sent", "wait"}, tok : Nat, again : BOOLEAN]

\* The stored hash of a user is that of a token of the user.
ServerFits ==
  /\ issued \in Seq(Users) /\ row \in [Users -> Nat]
  /\ accessOver \in 0 .. Len(issued) /\ refreshOver \in 0 .. accessOver
  /\ \A u \in Users : row[u] = 0 \/ (row[u] \in 1 .. Len(issued) /\ issued[row[u]] = u)
  /\ out \subseteq Users /\ ended \in BOOLEAN /\ SignedOutStays

\* A refresh that was accepted brought a token, and so does a session that was issued.
Fits(k, last) ==
  /\ k.tok \in 0 .. last /\ k.got \in 0 .. last
  /\ k.kind = "login" => k.user \in Users
  /\ k.st = "idle" => k.tab = "gone"
  /\ k.st = "read" => k.kind \in {"boot", "refresh"} /\ k.tok >= 1
  /\ k.st = "ok" /\ k.kind # "logout" => k.got >= 1
  /\ k.kind = "logout" => k.st # "no"

\* No refresh that may still issue a session belongs to a user who is out.
CallsFit ==
  /\ call \in [Calls -> Call]
  /\ \A c \in Calls : /\ Fits(call[c], Len(issued))
                      /\ call[c].st = "read" => issued[call[c].tok] \notin out

BrowserFits ==
  /\ cookie \in 0 .. Len(issued) /\ refreshing \subseteq Tabs
  /\ req \in [Requests -> Req]
  /\ \A r \in Requests : req[r].tok \in 0 .. Len(issued)

\* Whoever is signed in has a token; the recovery is of the user it is for.
StoreFits ==
  /\ tab \in [Tabs -> TabState] /\ disk \in Owners
  /\ recovery \in [for : Owners, work : Owners] /\ mixed \in BOOLEAN
  /\ \A t \in Tabs : \/ tab[t].user = NoUser /\ tab[t].token = 0
                     \/ tab[t].token \in 1 .. Len(issued) /\ issued[tab[t].token] = tab[t].user
  /\ WorkspaceIsMine
  /\ mixed \/ recovery.for = NoUser \/ recovery.work \in {NoUser, recovery.for}

\* What a call is like before any session has ended: no refresh is refused.
Good(k) ==
  /\ k.st # "idle" /\ k.kind \in {"boot", "refresh"} => k.tok >= 1 /\ k.st # "no"
  /\ k.st # "lost"
  /\ k.st = "ok" => k.kind # "logout"

\* Until then every user with a token has a stored one, and the browser a cookie.
AllGood ==
  ~ended => /\ refreshOver = 0 /\ cookie >= 1
            /\ \A i \in 1 .. Len(issued) : row[issued[i]] # 0
            /\ \A c \in Calls : Good(call[c])

SessionInv == ServerFits /\ CallsFit /\ BrowserFits /\ StoreFits /\ AllGood

USE DEF Call, TabState, Req, Owners

-----------------------------------------------------------------------------
(* Parts of steps *)

LEMMA InitSession == Init => SessionInv
<1> SUFFICES ASSUME Init PROVE SessionInv
  OBVIOUS
<1>1. issued = <<First>>
  BY DEF Init
<1>2. PICK work \in {NoUser, First} :
        /\ tab = [t \in Tabs |-> IF t = FirstTab THEN [NewPage EXCEPT !.user = First, !.token = 1, !.work = work]
                               ELSE NewPage]
        /\ disk = work
  BY DEF Init
<1>3. /\ row = [u \in Users |-> IF u = First THEN 1 ELSE 0]
      /\ accessOver = 0 /\ refreshOver = 0 /\ cookie = 1 /\ refreshing = {} /\ recovery = Nothing
      /\ req = [r \in Requests |-> NoReq] /\ call = [c \in Calls |-> NoCall]
      /\ out = {} /\ ended = FALSE /\ mixed = FALSE
  BY DEF Init
<1>4. Len(issued) = 1 /\ issued[1] = First /\ issued \in Seq(Users)
  BY <1>1
<1>5. \A t \in Tabs : tab[t] \in TabState
  BY <1>2 DEF NewPage
<1>14. ASSUME NEW t \in Tabs
       PROVE  \/ tab[t].user = NoUser /\ tab[t].token = 0
              \/ tab[t].user = First /\ tab[t].token = 1 /\ tab[t].work \in {NoUser, First}
  BY <1>2 DEF NewPage
<1>6. \A c \in Calls : call[c] \in Call /\ call[c].st = "idle" /\ call[c].kind = "boot"
                      /\ call[c].tok = 0 /\ call[c].got = 0 /\ call[c].tab = "gone"
  BY <1>3 DEF NoCall
<1>7. \A r \in Requests : req[r] \in Req /\ req[r].tok = 0
  BY <1>3 DEF NoReq
<1>8. ServerFits
  <2>1. \A u \in Users : row[u] = 0 \/ (row[u] \in 1 .. Len(issued) /\ issued[row[u]] = u)
    <3> TAKE u \in Users
    <3>1. CASE u = First
      BY <1>3, <1>4, <3>1
    <3>2. CASE u # First
      BY <1>3, <3>2
    <3> QED
      BY <3>1, <3>2
  <2>2. row \in [Users -> Nat]
    BY <1>3
  <2>3. accessOver \in 0 .. Len(issued) /\ refreshOver \in 0 .. accessOver
    BY <1>3, <1>4
  <2>4. out \subseteq Users /\ ended \in BOOLEAN /\ SignedOutStays
    BY <1>3 DEF SignedOutStays
  <2> QED
    BY <1>4, <2>1, <2>2, <2>3, <2>4 DEF ServerFits
<1>9. CallsFit
  BY <1>3, <1>4, <1>6 DEF CallsFit, Fits
<1>10. BrowserFits
  BY <1>3, <1>4, <1>7 DEF BrowserFits
<1>11. StoreFits
  <2>1. tab \in [Tabs -> TabState] /\ disk \in Owners /\ recovery \in [for : Owners, work : Owners]
    BY <1>2, <1>3, <1>5 DEF Nothing
  <2>2. ASSUME NEW t \in Tabs
        PROVE  \/ tab[t].user = NoUser /\ tab[t].token = 0
               \/ tab[t].token \in 1 .. Len(issued) /\ issued[tab[t].token] = tab[t].user
    <3>1. CASE tab[t].user = First /\ tab[t].token = 1
      BY <1>4, <3>1
    <3> QED
      BY <1>14, <3>1
  <2>3. recovery.for = NoUser
    BY <1>3 DEF Nothing
  <2>4. ASSUME NEW t \in Tabs, tab[t].user # NoUser PROVE tab[t].work \in {NoUser, tab[t].user}
    BY <1>14, <2>4
  <2> QED
    BY <1>3, <2>1, <2>2, <2>3, <2>4 DEF StoreFits, WorkspaceIsMine
<1>12. AllGood
  BY <1>3, <1>4, <1>6 DEF AllGood, Good
<1> QED
  BY <1>8, <1>9, <1>10, <1>11, <1>12 DEF SessionInv

\* One more token.
LEMMA Appended ==
  ASSUME issued \in Seq(Users), NEW u \in Users, issued' = Append(issued, u)
  PROVE  /\ issued' \in Seq(Users) /\ Len(issued) \in Nat /\ Len(issued') = Len(issued) + 1
         /\ issued'[Len(issued) + 1] = u
         /\ \A i \in 1 .. Len(issued) : issued'[i] = issued[i]
OBVIOUS

\* What is held stays valid when tokens are added.
LEMMA Held ==
  ASSUME SessionInv, NEW u \in Users, issued' = Append(issued, u)
  PROVE  /\ UNCHANGED <<cookie, refreshing, req>> => BrowserFits'
         /\ UNCHANGED <<tab, disk, recovery, mixed>> => StoreFits'
<1>1. /\ Len(issued) \in Nat /\ Len(issued') = Len(issued) + 1
      /\ \A i \in 1 .. Len(issued) : issued'[i] = issued[i]
  BY Appended DEF SessionInv, ServerFits
<1>2. UNCHANGED <<cookie, refreshing, req>> => BrowserFits'
  BY <1>1 DEF SessionInv, BrowserFits
<1>3. ASSUME UNCHANGED <<tab, disk, recovery, mixed>> PROVE StoreFits'
  <2>1. ASSUME NEW t \in Tabs
        PROVE  \/ tab[t].user = NoUser /\ tab[t].token = 0
               \/ tab[t].token \in 1 .. Len(issued') /\ issued'[tab[t].token] = tab[t].user
    BY <1>1 DEF SessionInv, StoreFits
  <2> QED
    BY <1>3, <2>1 DEF SessionInv, StoreFits, WorkspaceIsMine
<1> QED
  BY <1>2, <1>3

\* A part of the state that is left alone.
LEMMA Untouched ==
  ASSUME SessionInv, UNCHANGED issued
  PROVE  /\ UNCHANGED <<cookie, refreshing, req>> => BrowserFits'
         /\ UNCHANGED <<tab, disk, recovery, mixed>> => StoreFits'
         /\ UNCHANGED <<row, accessOver, refreshOver, out>> /\ ended' \in BOOLEAN => ServerFits'
         /\ UNCHANGED <<call, out>> => CallsFit'
BY DEF SessionInv, BrowserFits, StoreFits, WorkspaceIsMine, ServerFits, SignedOutStays, CallsFit, Fits

\* One call changes; the tokens of the others have not changed.
LEMMA CallMoves ==
  ASSUME SessionInv, NEW c \in Calls, NEW k \in Call, call' = [call EXCEPT ![c] = k],
         NEW last \in Nat, last = Len(issued'), last >= Len(issued),
         \A i \in 1 .. Len(issued) : issued'[i] = issued[i],
         Fits(k, last), k.st = "read" => issued'[k.tok] \notin out',
         \A d \in Calls \ {c} : call[d].st = "read" => issued[call[d].tok] \notin out'
  PROVE  /\ CallsFit'
         /\ Good(k) /\ (\A d \in Calls : Good(call[d])) => \A d \in Calls : Good(call'[d])
<1>1. /\ call' \in [Calls -> Call] /\ call'[c] = k
      /\ \A d \in Calls \ {c} : call'[d] = call[d]
  BY DEF SessionInv, CallsFit
<1>2. Len(issued) \in Nat
  BY DEF SessionInv, ServerFits
<1>3. ASSUME NEW d \in Calls \ {c}
      PROVE  Fits(call'[d], last) /\ (call'[d].st = "read" => issued'[call'[d].tok] \notin out')
  <2>1. Fits(call[d], Len(issued)) /\ call[d] \in Call
    BY DEF SessionInv, CallsFit
  <2>2. Fits(call[d], last)
    BY <1>2, <2>1 DEF Fits
  <2>3. call[d].st = "read" => call[d].tok \in 1 .. Len(issued)
    BY <1>2, <2>1 DEF Fits
  <2> QED
    BY <1>1, <2>2, <2>3
<1>4. CallsFit'
  BY <1>1, <1>3 DEF CallsFit
<1>5. ASSUME Good(k), \A d \in Calls : Good(call[d]), NEW d \in Calls PROVE Good(call'[d])
  BY <1>1, <1>5
<1> QED
  BY <1>4, <1>5

\* A call is sent on a free line.
LEMMA Sends ==
  ASSUME SessionInv, NEW kind \in {"boot", "login", "logout", "refresh"}, NEW t \in Tabs,
         NEW tok \in 0 .. Len(issued), NEW u \in Owners, kind = "login" => u \in Users,
         kind \in {"boot", "refresh"} /\ ~ended => tok >= 1,
         Send(kind, t, tok, u), UNCHANGED <<issued, out>>
  PROVE  CallsFit' /\ (~ended /\ (\A d \in Calls : Good(call[d])) => \A d \in Calls : Good(call'[d]))
<1> DEFINE c == CHOOSE d \in Free : TRUE
           k == [kind |-> kind, tab |-> t, tok |-> tok, st |-> "sent", got |-> 0, user |-> u]
<1>1. c \in Free /\ c \in Calls
  BY DEF Free, Send
<1>2. Len(issued) \in Nat
  BY DEF SessionInv, ServerFits
<1>3. k \in Call /\ Fits(k, Len(issued)) /\ k.st = "sent" /\ (~ended => Good(k))
  BY <1>2 DEF Fits, Good
<1>4. call' = [call EXCEPT ![c] = k]
  BY DEF Send, Sent
<1>5. \A d \in Calls \ {c} : call[d].st = "read" => issued[call[d].tok] \notin out'
  BY DEF SessionInv, CallsFit
<1>6. /\ Len(issued) = Len(issued') /\ Len(issued) >= Len(issued)
      /\ \A i \in 1 .. Len(issued) : issued'[i] = issued[i]
  BY <1>2
<1> HIDE DEF c, k
<1> QED
  BY <1>1, <1>2, <1>3, <1>4, <1>5, <1>6, CallMoves

-----------------------------------------------------------------------------
(* The store *)

\* A tab gets a user or loses one; the recovery and the others stay fit.
LEMMA TabChanges ==
  ASSUME SessionInv, UNCHANGED issued, NEW t \in Tabs, NEW next \in TabState, tab' = [tab EXCEPT ![t] = next],
         \/ next.user = NoUser /\ next.token = 0
         \/ next.token \in 1 .. Len(issued) /\ issued[next.token] = next.user,
         disk' \in Owners, recovery' \in [for : Owners, work : Owners], mixed' \in BOOLEAN, mixed => mixed',
         mixed' \/ next.user = NoUser \/ next.work \in {NoUser, next.user},
         mixed' \/ recovery'.for = NoUser \/ recovery'.work \in {NoUser, recovery'.for}
  PROVE  StoreFits'
<1>1. /\ tab' \in [Tabs -> TabState] /\ tab'[t] = next
      /\ \A s \in Tabs \ {t} : tab'[s] = tab[s]
  BY DEF SessionInv, StoreFits
<1>2. WorkspaceIsMine'
  BY <1>1 DEF SessionInv, StoreFits, WorkspaceIsMine
<1>3. \A s \in Tabs : \/ tab'[s].user = NoUser /\ tab'[s].token = 0
                      \/ tab'[s].token \in 1 .. Len(issued) /\ issued[tab'[s].token] = tab'[s].user
  BY <1>1 DEF SessionInv, StoreFits
<1> QED
  BY <1>1, <1>2, <1>3 DEF StoreFits

LEMMA TabTyped ==
  ASSUME SessionInv, NEW t \in Tabs
  PROVE  /\ tab[t] \in TabState /\ recovery \in [for : Owners, work : Owners] /\ mixed \in BOOLEAN
         /\ mixed \/ tab[t].user = NoUser \/ tab[t].work \in {NoUser, tab[t].user}
         /\ mixed \/ recovery.for = NoUser \/ recovery.work \in {NoUser, recovery.for}
BY DEF SessionInv, StoreFits, WorkspaceIsMine

LEMMA IssuedTyped ==
  ASSUME SessionInv, NEW n \in 1 .. Len(issued)
  PROVE  issued[n] \in Users /\ n \in Nat
BY DEF SessionInv, ServerFits

LEMMA RestoreFits ==
  ASSUME SessionInv, NEW t \in Tabs, NEW n \in 1 .. Len(issued), Restore(t, n), UNCHANGED issued
  PROVE  StoreFits'
<1> DEFINE next == [tab[t] EXCEPT !.user = issued[n], !.token = n]
<1>1. /\ tab' = [tab EXCEPT ![t].user = issued[n], ![t].token = n] /\ disk' = tab[t].work
      /\ mixed' = (mixed \/ tab[t].work \notin {NoUser, issued[n]}) /\ recovery' = recovery
  BY DEF Restore
<1>2. next \in TabState /\ next.user = issued[n] /\ next.token = n /\ next.work = tab[t].work
  BY TabTyped, IssuedTyped
<1>3. tab' = [tab EXCEPT ![t] = next]
  BY <1>1 DEF SessionInv, StoreFits
<1>4. /\ disk' \in Owners /\ mixed' \in BOOLEAN /\ (mixed => mixed')
      /\ mixed' \/ next.user = NoUser \/ next.work \in {NoUser, next.user}
  BY <1>1, <1>2, TabTyped
<1>5. /\ recovery' \in [for : Owners, work : Owners]
      /\ mixed' \/ recovery'.for = NoUser \/ recovery'.work \in {NoUser, recovery'.for}
  BY <1>1, TabTyped
<1> HIDE DEF next
<1> QED
  BY <1>2, <1>3, <1>4, <1>5, TabChanges

LEMMA LoginFits ==
  ASSUME SessionInv, NEW t \in Tabs, NEW n \in 1 .. Len(issued), Login(t, n), UNCHANGED issued
  PROVE  StoreFits'
<1> DEFINE mine == recovery.for = issued[n]
           work == IF mine THEN recovery.work ELSE NoUser
           next == [tab[t] EXCEPT !.user = issued[n], !.token = n, !.work = work]
<1>1. /\ tab' = [tab EXCEPT ![t].user = issued[n], ![t].token = n, ![t].work = work]
      /\ disk' = work /\ recovery' = (IF mine THEN Nothing ELSE recovery) /\ mixed' = mixed
  BY DEF Login
<1>2. work \in Owners /\ (mixed \/ work \in {NoUser, issued[n]})
  BY TabTyped, IssuedTyped
<1>3. recovery' \in [for : Owners, work : Owners]
      /\ (mixed' \/ recovery'.for = NoUser \/ recovery'.work \in {NoUser, recovery'.for})
  BY <1>1, TabTyped DEF Nothing
<1> HIDE DEF work
<1>4. next \in TabState /\ next.user = issued[n] /\ next.token = n /\ next.work = work
  BY <1>2, TabTyped, IssuedTyped
<1>5. tab' = [tab EXCEPT ![t] = next]
  BY <1>1 DEF SessionInv, StoreFits
<1> HIDE DEF next
<1> QED
  BY <1>1, <1>2, <1>3, <1>4, <1>5, TabTyped, TabChanges

LEMMA LogoutFits ==
  ASSUME SessionInv, NEW t \in Tabs, NEW preserve, NEW twice, Logout(t, preserve, twice), UNCHANGED issued
  PROVE  StoreFits'
<1> DEFINE next == [tab[t] EXCEPT !.user = NoUser, !.token = 0, !.work = NoUser]
<1>1. /\ tab' = [tab EXCEPT ![t].user = NoUser, ![t].token = 0, ![t].work = NoUser]
      /\ disk' = NoUser /\ mixed' = mixed
      /\ recovery' = Nothing \/ (recovery' = [for |-> tab[t].user, work |-> tab[t].work] /\ tab[t].user # NoUser)
  BY DEF Logout
<1>2. recovery' \in [for : Owners, work : Owners]
      /\ (mixed' \/ recovery'.for = NoUser \/ recovery'.work \in {NoUser, recovery'.for})
  BY <1>1, TabTyped DEF Nothing
<1>3. next \in TabState /\ next.user = NoUser /\ next.token = 0
  BY TabTyped
<1>4. tab' = [tab EXCEPT ![t] = next]
  BY <1>1 DEF SessionInv, StoreFits
<1> HIDE DEF next
<1> QED
  BY <1>1, <1>2, <1>3, <1>4, TabTyped, TabChanges

\* A page that is left keeps its user, a page that is loaded has none.
LEMMA PageFits ==
  ASSUME SessionInv, UNCHANGED <<issued, disk, recovery, mixed>>, NEW t \in Tabs,
         tab' = [tab EXCEPT ![t].page = "leaving"] \/ tab' = [tab EXCEPT ![t] = [NewPage EXCEPT !.work = disk]]
  PROVE  StoreFits'
<1>1. disk \in Owners
  BY DEF SessionInv, StoreFits
<1>2. CASE tab' = [tab EXCEPT ![t].page = "leaving"]
  <2> DEFINE next == [tab[t] EXCEPT !.page = "leaving"]
  <2>1. /\ next \in TabState /\ next.user = tab[t].user /\ next.token = tab[t].token /\ next.work = tab[t].work
    BY TabTyped
  <2>2. tab' = [tab EXCEPT ![t] = next]
    BY <1>2 DEF SessionInv, StoreFits
  <2>3. \/ next.user = NoUser /\ next.token = 0
        \/ next.token \in 1 .. Len(issued) /\ issued[next.token] = next.user
    BY <2>1 DEF SessionInv, StoreFits
  <2> HIDE DEF next
  <2> QED
    BY <1>1, <2>1, <2>2, <2>3, TabTyped, TabChanges
<1>3. CASE tab' = [tab EXCEPT ![t] = [NewPage EXCEPT !.work = disk]]
  <2> DEFINE next == [NewPage EXCEPT !.work = disk]
  <2>1. next \in TabState /\ next.user = NoUser /\ next.token = 0
    BY <1>1 DEF NewPage
  <2> HIDE DEF next
  <2>2. tab' = [tab EXCEPT ![t] = next]
    BY <1>3 DEF next
  <2> QED
    BY <1>1, <2>1, <2>2, TabTyped, TabChanges
<1> QED
  BY <1>2, <1>3

-----------------------------------------------------------------------------
(* The server *)

\* A call is answered, or a refresh goes on after its read.
LEMMA AnswerFits ==
  ASSUME SessionInv, NEW c \in Calls, NEW st \in {"read", "ok", "no", "lost"}, NEW n \in Nat, Answer(c, st, n),
         NEW last \in Nat, last = Len(issued'), last >= Len(issued), n <= last,
         \A i \in 1 .. Len(issued) : issued'[i] = issued[i],
         st = "read" => /\ call[c].kind \in {"boot", "refresh"} /\ call[c].tok >= 1
                        /\ issued'[call[c].tok] \notin out',
         st = "ok" /\ call[c].kind # "logout" => n >= 1,
         st = "no" => call[c].kind # "logout",
         \A d \in Calls \ {c} : call[d].st = "read" => issued[call[d].tok] \notin out'
  PROVE  /\ CallsFit'
         /\ /\ \A d \in Calls : Good(call[d])
            /\ call[c].st # "idle" /\ st # "lost"
            /\ st = "no" => call[c].kind \notin {"boot", "refresh"}
            /\ st = "ok" => call[c].kind # "logout"
            => \A d \in Calls : Good(call'[d])
<1> DEFINE k == [call[c] EXCEPT !.st = st, !.got = n]
<1>1. call[c] \in Call /\ Fits(call[c], Len(issued)) /\ Len(issued) \in Nat
  BY DEF SessionInv, CallsFit, ServerFits
<1>2. /\ k \in Call /\ k.st = st /\ k.got = n /\ k.kind = call[c].kind /\ k.tok = call[c].tok
      /\ k.user = call[c].user
  BY <1>1
<1>3. call' = [call EXCEPT ![c] = k]
  BY DEF Answer, SessionInv, CallsFit
<1> HIDE DEF k
<1>4. Fits(k, last)
  BY <1>1, <1>2 DEF Fits
<1>5. k.st = "read" => issued'[k.tok] \notin out'
  BY <1>2
<1>6. /\ CallsFit'
      /\ Good(k) /\ (\A d \in Calls : Good(call[d])) => \A d \in Calls : Good(call'[d])
  BY <1>2, <1>3, <1>4, <1>5, CallMoves
<1>7. /\ \A d \in Calls : Good(call[d])
      /\ call[c].st # "idle" /\ st # "lost"
      /\ st = "no" => call[c].kind \notin {"boot", "refresh"}
      /\ st = "ok" => call[c].kind # "logout"
      => Good(k)
  BY <1>2 DEF Good
<1> QED
  BY <1>6, <1>7

\* The same when no token is added and no user is signed out.
LEMMA AnswerFitsStill ==
  ASSUME SessionInv, NEW c \in Calls, NEW st \in {"read", "ok", "no", "lost"}, Answer(c, st, 0),
         UNCHANGED issued, out' \subseteq out,
         st = "read" => /\ call[c].kind \in {"boot", "refresh"} /\ call[c].tok >= 1
                        /\ issued[call[c].tok] \notin out,
         st = "ok" => call[c].kind = "logout",
         st = "no" => call[c].kind # "logout"
  PROVE  /\ CallsFit'
         /\ /\ \A d \in Calls : Good(call[d])
            /\ call[c].st # "idle" /\ st \notin {"lost", "ok"}
            /\ st = "no" => call[c].kind \notin {"boot", "refresh"}
            => \A d \in Calls : Good(call'[d])
<1>1. Len(issued) \in Nat /\ Len(issued') = Len(issued) /\ 0 \in Nat /\ 0 <= Len(issued)
  BY DEF SessionInv, ServerFits
<1>2. \A i \in 1 .. Len(issued) : issued'[i] = issued[i]
  OBVIOUS
<1>3. \A d \in Calls \ {c} : call[d].st = "read" => issued[call[d].tok] \notin out'
  BY DEF SessionInv, CallsFit
<1>4. st = "read" => issued'[call[c].tok] \notin out'
  OBVIOUS
<1> QED
  BY <1>1, <1>2, <1>3, <1>4, AnswerFits

\* A refresh is refused only for what has ended, since the hash that is stored
\* for a user is that of one of the user's tokens.
LEMMA ReadKeeps ==
  ASSUME SessionInv, NEW c \in Calls, Read(c),
         UNCHANGED <<issued, accessOver, refreshOver, browser, mixed>>
  PROVE  SessionInv'
<1> DEFINE k == call[c].tok
           hash == row[issued[k]]
<1>1. /\ call[c].kind \in {"boot", "refresh"} /\ call[c].st = "sent"
      /\ UNCHANGED <<out, ended>>
  BY DEF Read
<1>2. call[c] \in Call /\ k \in 0 .. Len(issued) /\ Len(issued) \in Nat /\ refreshOver \in Nat
  BY DEF SessionInv, CallsFit, Fits, ServerFits
<1>3. BrowserFits' /\ StoreFits'
  BY Untouched DEF browser
<1>4. CASE k <= refreshOver
  <2>1. Answer(c, "no", 0) /\ UNCHANGED row
    BY <1>4 DEF Read
  <2>2. CallsFit' /\ ServerFits'
    BY <1>1, <2>1, AnswerFitsStill, Untouched DEF SessionInv, ServerFits
  <2>3. ~ended => FALSE
    BY <1>1, <1>2, <1>4 DEF SessionInv, AllGood, Good
  <2>4. AllGood'
    BY <1>1, <2>3 DEF AllGood
  <2> QED
    BY <1>3, <2>2, <2>4 DEF SessionInv
<1>5. CASE k > refreshOver
  <2>1. k \in 1 .. Len(issued) /\ issued[k] \in Users /\ hash \in Nat
    BY <1>2, <1>5, IssuedTyped DEF SessionInv, ServerFits
  <2>2. hash # 0 => hash \in 1 .. Len(issued) /\ issued[hash] = issued[k]
    BY <2>1 DEF SessionInv, ServerFits
  <2>3. CASE hash = 0
    <3>1. Answer(c, "no", 0) /\ UNCHANGED row
      BY <2>3 DEF Read
    <3>2. CallsFit' /\ ServerFits'
      BY <1>1, <3>1, AnswerFitsStill, Untouched DEF SessionInv, ServerFits
    <3>3. AllGood'
      BY <1>1, <2>1, <2>3 DEF SessionInv, AllGood
    <3> QED
      BY <1>3, <3>2, <3>3 DEF SessionInv
  <2>4. CASE hash # 0 /\ hash <= refreshOver
    <3>1. Answer(c, "no", 0) /\ row' = [row EXCEPT ![issued[k]] = 0]
      BY <1>2, <1>5, <2>4 DEF Read
    <3>2. CallsFit'
      BY <1>1, <3>1, AnswerFitsStill
    <3>3. ServerFits'
      BY <1>1, <3>1, <2>1 DEF SessionInv, ServerFits, SignedOutStays
    <3>4. ended
      BY <2>2, <2>4 DEF SessionInv, AllGood
    <3>5. AllGood'
      BY <1>1, <3>4 DEF AllGood
    <3> QED
      BY <1>3, <3>2, <3>3, <3>5 DEF SessionInv
  <2>5. CASE hash > refreshOver
    <3>1. Matches(k, hash)
      BY <1>2, <2>2, <2>5 DEF Matches
    <3>2. Answer(c, "read", 0) /\ UNCHANGED row
      BY <1>2, <1>5, <2>1, <2>5, <3>1 DEF Read
    <3>3. issued[k] \notin out
      BY <1>2, <2>1, <2>5 DEF SessionInv, ServerFits, SignedOutStays
    <3>4. /\ CallsFit'
          /\ (\A d \in Calls : Good(call[d])) => \A d \in Calls : Good(call'[d])
      BY <1>1, <2>1, <3>2, <3>3, AnswerFitsStill
    <3>5. ServerFits'
      BY <1>1, <3>2, Untouched DEF SessionInv, ServerFits
    <3>6. AllGood'
      BY <1>1, <3>2, <3>4 DEF SessionInv, AllGood, browser
    <3> QED
      BY <1>3, <3>4, <3>5, <3>6 DEF SessionInv
  <2> QED
    BY <1>2, <2>1, <2>3, <2>4, <2>5
<1> QED
  BY <1>2, <1>4, <1>5

\* issueSession, for a user who is not out or no longer.
LEMMA IssuedTo ==
  ASSUME SessionInv, NEW u \in Users, issued' = Append(issued, u), row' = [row EXCEPT ![u] = Len(issued) + 1],
         out' \subseteq out, u \notin out', UNCHANGED <<accessOver, refreshOver, ended>>
  PROVE  /\ ServerFits'
         /\ ~ended => \A i \in 1 .. Len(issued') : row'[issued'[i]] # 0
<1>1. /\ issued' \in Seq(Users) /\ Len(issued) \in Nat /\ Len(issued') = Len(issued) + 1
      /\ issued'[Len(issued) + 1] = u
      /\ \A i \in 1 .. Len(issued) : issued'[i] = issued[i] /\ issued[i] \in Users
  BY Appended, IssuedTyped DEF SessionInv, ServerFits
<1>2. /\ row' \in [Users -> Nat] /\ row'[u] = Len(issued) + 1 /\ \A v \in Users \ {u} : row'[v] = row[v]
  BY <1>1 DEF SessionInv, ServerFits
<1>3. \A v \in Users : row'[v] = 0 \/ (row'[v] \in 1 .. Len(issued') /\ issued'[row'[v]] = v)
  <2> TAKE v \in Users
  <2>1. CASE v = u
    BY <1>1, <1>2, <2>1
  <2>2. CASE v # u
    <3>1. row[v] = 0 \/ (row[v] \in 1 .. Len(issued) /\ issued[row[v]] = v)
      BY DEF SessionInv, ServerFits
    <3> QED
      BY <1>1, <1>2, <2>2, <3>1
  <2> QED
    BY <2>1, <2>2
<1>4. accessOver' \in 0 .. Len(issued') /\ refreshOver' \in 0 .. accessOver'
  BY <1>1 DEF SessionInv, ServerFits
<1>5. SignedOutStays' /\ out' \subseteq Users /\ ended' \in BOOLEAN
  BY <1>2 DEF SessionInv, ServerFits, SignedOutStays
<1>6. ASSUME ~ended, NEW i \in 1 .. Len(issued') PROVE row'[issued'[i]] # 0
  <2>1. CASE i = Len(issued) + 1
    BY <1>1, <1>2, <2>1
  <2>2. CASE i \in 1 .. Len(issued)
    BY <1>1, <1>2, <1>6, <2>2 DEF SessionInv, AllGood
  <2> QED
    BY <1>1, <2>1, <2>2
<1> QED
  BY <1>1, <1>2, <1>3, <1>4, <1>5, <1>6 DEF ServerFits

LEMMA IssueKeeps ==
  ASSUME SessionInv, NEW c \in Calls, Issue(c), UNCHANGED <<browser, mixed>>
  PROVE  SessionInv'
<1> DEFINE u == IF call[c].kind = "login" THEN call[c].user ELSE issued[call[c].tok]
           n == Len(issued) + 1
<1>1. call[c] \in Call /\ Fits(call[c], Len(issued)) /\ Len(issued) \in Nat
  BY DEF SessionInv, CallsFit, ServerFits
<1>2. /\ call[c].st = "read" \/ (call[c].kind = "login" /\ call[c].st = "sent")
      /\ Answer(c, "ok", n) /\ issued' = Append(issued, u) /\ row' = [row EXCEPT ![u] = n]
      /\ out' = (IF call[c].kind = "login" THEN out \ {u} ELSE out)
      /\ UNCHANGED <<accessOver, refreshOver, ended>>
  BY DEF Issue
<1>3. u \in Users /\ u \notin out' /\ out' \subseteq out /\ call[c].kind # "logout"
  <2>1. CASE call[c].kind = "login"
    BY <1>1, <1>2, <2>1 DEF Fits
  <2>2. CASE call[c].kind # "login"
    <3>1. call[c].st = "read" /\ call[c].tok \in 1 .. Len(issued) /\ call[c].kind # "logout"
      BY <1>1, <1>2, <2>2 DEF Fits
    <3>2. issued[call[c].tok] \notin out
      BY <3>1 DEF SessionInv, CallsFit
    <3> QED
      BY <1>2, <2>2, <3>1, <3>2, IssuedTyped
  <2> QED
    BY <2>1, <2>2
<1> HIDE DEF u
<1>4. /\ Len(issued') = n /\ n \in Nat /\ n >= Len(issued) /\ n >= 1 /\ n <= n
      /\ \A i \in 1 .. Len(issued) : issued'[i] = issued[i]
  BY <1>1, <1>2, <1>3, Appended DEF SessionInv, ServerFits
<1>5. /\ ServerFits'
      /\ ~ended => \A i \in 1 .. Len(issued') : row'[issued'[i]] # 0
  BY <1>2, <1>3, IssuedTo
<1>6. BrowserFits' /\ StoreFits'
  BY <1>2, <1>3, Held DEF browser
<1> HIDE DEF n
<1>7. \A d \in Calls \ {c} : call[d].st = "read" => issued[call[d].tok] \notin out'
  BY <1>3 DEF SessionInv, CallsFit
<1>8. /\ CallsFit'
      /\ (\A d \in Calls : Good(call[d])) => \A d \in Calls : Good(call'[d])
  BY <1>2, <1>3, <1>4, <1>7, AnswerFits
<1>9. AllGood'
  BY <1>2, <1>5, <1>8 DEF SessionInv, AllGood, browser
<1> QED
  BY <1>5, <1>6, <1>8, <1>9 DEF SessionInv

LEMMA RejectKeeps ==
  ASSUME SessionInv, NEW c \in Calls, Reject(c), UNCHANGED <<issued, accessOver, refreshOver, browser, mixed>>
  PROVE  SessionInv'
<1>1. /\ call[c].kind = "login" /\ call[c].st = "sent" /\ Answer(c, "no", 0) /\ UNCHANGED <<row, out, ended>>
  BY DEF Reject
<1>2. /\ CallsFit'
      /\ (\A d \in Calls : Good(call[d])) => \A d \in Calls : Good(call'[d])
  BY <1>1, AnswerFitsStill
<1>3. ServerFits' /\ BrowserFits' /\ StoreFits'
  BY <1>1, Untouched DEF browser, SessionInv, ServerFits
<1>4. AllGood'
  BY <1>1, <1>2 DEF SessionInv, AllGood, browser
<1> QED
  BY <1>2, <1>3, <1>4 DEF SessionInv

\* A logout revokes; its user is out unless a refresh has read the row before.
LEMMA RevokeKeeps ==
  ASSUME SessionInv, NEW c \in Calls, Revoke(c), UNCHANGED <<issued, accessOver, refreshOver, browser, mixed>>
  PROVE  SessionInv'
<1> DEFINE k == call[c].tok
           u == issued[k]
<1>1. /\ call[c].kind = "logout" /\ call[c].st = "sent" /\ Answer(c, "ok", 0) /\ ended' = TRUE
  BY DEF Revoke
<1>2. call[c] \in Call /\ k \in 0 .. Len(issued) /\ Len(issued) \in Nat /\ refreshOver \in Nat
  BY DEF SessionInv, CallsFit, Fits, ServerFits
<1>3. BrowserFits' /\ StoreFits' /\ AllGood'
  BY <1>1, Untouched DEF browser, AllGood
<1>4. CASE k <= refreshOver
  <2>1. UNCHANGED <<row, out>>
    BY <1>4 DEF Revoke
  <2>2. CallsFit' /\ ServerFits'
    BY <1>1, <2>1, AnswerFitsStill, Untouched
  <2> QED
    BY <1>3, <2>2 DEF SessionInv
<1>5. CASE ~(k <= refreshOver)
  <2>1. k \in 1 .. Len(issued) /\ u \in Users
    BY <1>2, <1>5, IssuedTyped
  <2>2. /\ row' = [row EXCEPT ![u] = 0]
        /\ out' = IF \E d \in Calls : call[d].st = "read" /\ issued[call[d].tok] = u
                  THEN out ELSE out \cup {u}
    BY <1>5 DEF Revoke
  <2> HIDE DEF u
  <2>3. ServerFits'
    BY <1>1, <2>1, <2>2 DEF SessionInv, ServerFits, SignedOutStays
  <2>4. \A d \in Calls : call[d].st = "read" => issued[call[d].tok] \notin out'
    BY <2>2 DEF SessionInv, CallsFit
  <2>5. /\ Len(issued') = Len(issued) /\ Len(issued) >= Len(issued) /\ 0 \in Nat /\ 0 <= Len(issued)
        /\ \A i \in 1 .. Len(issued) : issued'[i] = issued[i]
    BY <1>2
  <2>6. CallsFit'
    BY <1>1, <1>2, <2>4, <2>5, AnswerFits
  <2> QED
    BY <1>3, <2>3, <2>6 DEF SessionInv
<1> QED
  BY <1>4, <1>5

LEMMA ServeKeeps ==
  ASSUME SessionInv, NEW c \in Calls, Serve(c)
  PROVE  SessionInv'
BY IssueKeeps, ReadKeeps, RejectKeeps, RevokeKeeps DEF Serve

\* Passwords are reset and users sign in elsewhere.
LEMMA ElsewhereKeeps ==
  ASSUME SessionInv, NEW u \in Users, Elsewhere(u)
  PROVE  SessionInv'
<1>1. UNCHANGED <<accessOver, refreshOver, browser, call, mixed>>
  BY DEF Elsewhere
<1>2. CASE row' = [row EXCEPT ![u] = 0] /\ ended' = TRUE /\ UNCHANGED <<issued, out>>
  <2>1. ServerFits'
    BY <1>1, <1>2 DEF SessionInv, ServerFits, SignedOutStays
  <2>2. BrowserFits' /\ StoreFits' /\ CallsFit' /\ AllGood'
    BY <1>1, <1>2, Untouched DEF browser, AllGood
  <2> QED
    BY <2>1, <2>2 DEF SessionInv
<1>3. CASE /\ issued' = Append(issued, u) /\ row' = [row EXCEPT ![u] = Len(issued) + 1]
           /\ out' = out \ {u} /\ UNCHANGED ended
  <2>1. /\ ServerFits'
        /\ ~ended => \A i \in 1 .. Len(issued') : row'[issued'[i]] # 0
    BY <1>1, <1>3, IssuedTo
  <2>2. BrowserFits' /\ StoreFits'
    BY <1>1, <1>3, Held DEF browser
  <2>3. CallsFit'
    <3>1. /\ Len(issued) \in Nat /\ Len(issued') = Len(issued) + 1
          /\ \A i \in 1 .. Len(issued) : issued'[i] = issued[i]
      BY <1>3, Appended DEF SessionInv, ServerFits
    <3>2. ASSUME NEW c \in Calls
          PROVE  Fits(call[c], Len(issued')) /\ (call[c].st = "read" => issued'[call[c].tok] \notin out')
      <4>1. Fits(call[c], Len(issued)) /\ call[c] \in Call /\ (call[c].st = "read" => issued[call[c].tok] \notin out)
        BY DEF SessionInv, CallsFit
      <4>2. Fits(call[c], Len(issued'))
        BY <3>1, <4>1 DEF Fits
      <4>3. call[c].st = "read" => call[c].tok \in 1 .. Len(issued)
        BY <3>1, <4>1 DEF Fits
      <4> QED
        BY <1>3, <3>1, <4>1, <4>2, <4>3
    <3> QED
      BY <1>1, <3>2 DEF SessionInv, CallsFit
  <2>4. AllGood'
    BY <1>1, <1>3, <2>1 DEF SessionInv, AllGood, browser
  <2> QED
    BY <2>1, <2>2, <2>3, <2>4 DEF SessionInv
<1> QED
  BY <1>2, <1>3 DEF Elsewhere

LEMMA ExpireKeeps ==
  ASSUME SessionInv, Expire
  PROVE  SessionInv'
<1>1. /\ accessOver' = Len(issued)
      /\ (refreshOver' = Len(issued) /\ ended' = TRUE) \/ UNCHANGED <<refreshOver, ended>>
      /\ UNCHANGED <<issued, row, browser, call, out, mixed, owed>>
  BY DEF Expire
<1>2. Len(issued) \in Nat
  BY DEF SessionInv, ServerFits
<1>3. ServerFits'
  <2>1. accessOver' \in 0 .. Len(issued) /\ refreshOver' \in 0 .. accessOver'
    BY <1>1, <1>2 DEF SessionInv, ServerFits
  <2> QED
    BY <1>1, <2>1 DEF SessionInv, ServerFits, SignedOutStays
<1>4. BrowserFits' /\ StoreFits' /\ CallsFit'
  BY <1>1, Untouched DEF browser
<1>5. AllGood'
  BY <1>1 DEF SessionInv, AllGood, browser
<1> QED
  BY <1>3, <1>4, <1>5 DEF SessionInv

-----------------------------------------------------------------------------
(* The browser *)

\* Nothing that has ended or is out changes but by the server.
LEMMA ServerStays ==
  ASSUME SessionInv, UNCHANGED <<server, out, ended>>
  PROVE  ServerFits' /\ UNCHANGED issued
BY Untouched DEF server, SessionInv, ServerFits

\* API requests change; the tokens they carry were issued.
LEMMA RequestsFit ==
  ASSUME SessionInv, UNCHANGED issued, cookie' \in 0 .. Len(issued), refreshing' \subseteq Tabs,
         req' \in [Requests -> Req], \A r \in Requests : req'[r].tok \in 0 .. Len(issued)
  PROVE  BrowserFits'
BY DEF BrowserFits

LEMMA RequestTyped ==
  ASSUME SessionInv, NEW r \in Requests
  PROVE  /\ HomeOf[r] \in Tabs /\ req[r] \in Req /\ req[r].tok \in 0 .. Len(issued)
         /\ NoReq \in Req /\ NoReq.tok \in 0 .. Len(issued) /\ cookie \in 0 .. Len(issued)
BY DEF SessionInv, BrowserFits, ServerFits, NoReq

\* One request moves on.
LEMMA OneRequest ==
  ASSUME SessionInv, NEW r \in Requests, NEW next \in Req, req' = [req EXCEPT ![r] = next],
         next.tok \in 0 .. Len(issued), UNCHANGED <<issued, cookie>>, refreshing' \subseteq Tabs
  PROVE  BrowserFits'
<1>1. req' \in [Requests -> Req] /\ \A q \in Requests : req'[q] = IF q = r THEN next ELSE req[q]
  BY DEF SessionInv, BrowserFits
<1>2. \A q \in Requests : req'[q].tok \in 0 .. Len(issued)
  BY <1>1, RequestTyped
<1>3. cookie' \in 0 .. Len(issued)
  BY RequestTyped
<1> QED
  BY <1>1, <1>2, <1>3, RequestsFit

LEMMA LoseKeeps ==
  ASSUME SessionInv, NEW c \in Calls, Lose(c)
  PROVE  SessionInv'
<1>1. /\ ended' = TRUE /\ Answer(c, "lost", 0) /\ UNCHANGED <<server, browser, out, mixed, owed>>
  BY DEF Lose
<1>2. ServerFits' /\ BrowserFits' /\ StoreFits' /\ UNCHANGED issued
  BY <1>1, Untouched DEF server, browser
<1>3. CallsFit'
  BY <1>1, <1>2, AnswerFitsStill
<1>4. AllGood'
  BY <1>1 DEF AllGood
<1> QED
  BY <1>2, <1>3, <1>4 DEF SessionInv

LEMMA CookieFits ==
  ASSUME SessionInv, NEW c \in Calls
  PROVE  CookieAfter(c) \in 0 .. Len(issued) /\ (~ended => CookieAfter(c) >= 1)
<1>1. Fits(call[c], Len(issued)) /\ call[c] \in Call /\ Len(issued) \in Nat /\ cookie \in 0 .. Len(issued)
  BY DEF SessionInv, CallsFit, ServerFits, BrowserFits
<1>2. ~ended => cookie >= 1 /\ Good(call[c])
  BY DEF SessionInv, AllGood
<1> QED
  BY <1>1, <1>2 DEF CookieAfter, Fits, Good

\* A call is over.
LEMMA CallOver ==
  ASSUME SessionInv, NEW c \in Calls, call' = [call EXCEPT ![c] = NoCall],
         cookie' \in {cookie, CookieAfter(c)}, UNCHANGED <<server, out, ended>>
  PROVE  CallsFit' /\ AllGood' /\ cookie' \in 0 .. Len(issued)
<1>1. /\ NoCall \in Call /\ Fits(NoCall, Len(issued)) /\ NoCall.st = "idle" /\ Good(NoCall)
      /\ Len(issued) \in Nat
  BY DEF NoCall, Fits, Good, SessionInv, ServerFits
<1>2. /\ Len(issued') = Len(issued) /\ Len(issued) >= Len(issued)
      /\ \A i \in 1 .. Len(issued) : issued'[i] = issued[i]
  BY <1>1 DEF server
<1>3. \A d \in Calls \ {c} : call[d].st = "read" => issued[call[d].tok] \notin out'
  BY DEF SessionInv, CallsFit
<1>4. /\ CallsFit'
      /\ (\A d \in Calls : Good(call[d])) => \A d \in Calls : Good(call'[d])
  BY <1>1, <1>2, <1>3, CallMoves
<1>5. cookie' \in 0 .. Len(issued) /\ (~ended => cookie' >= 1)
  BY CookieFits DEF SessionInv, BrowserFits, AllGood
<1>6. AllGood'
  BY <1>4, <1>5 DEF SessionInv, AllGood, server
<1> QED
  BY <1>4, <1>5, <1>6

LEMMA IgnoreKeeps ==
  ASSUME SessionInv, NEW c \in Calls, Ignore(c)
  PROVE  SessionInv'
<1>1. /\ call' = [call EXCEPT ![c] = NoCall] /\ cookie' \in {cookie, CookieAfter(c)}
      /\ UNCHANGED <<server, tab, refreshing, disk, recovery, req, out, ended, mixed>>
  BY DEF Ignore, ghosts
<1>2. CallsFit' /\ AllGood' /\ cookie' \in 0 .. Len(issued)
  BY <1>1, CallOver
<1>3. ServerFits' /\ UNCHANGED issued
  BY <1>1, ServerStays
<1>4. StoreFits'
  BY <1>1, <1>3, Untouched
<1>5. BrowserFits'
  BY <1>1, <1>2, <1>3, RequestsFit DEF SessionInv, BrowserFits
<1> QED
  BY <1>2, <1>3, <1>4, <1>5 DEF SessionInv

LEMMA WakeFits ==
  ASSUME SessionInv, NEW t \in Tabs, NEW well, Wake(t, well)
  PROVE  req' \in [Requests -> Req] /\ \A r \in Requests : req'[r].tok \in 0 .. Len(issued)
<1>1. ASSUME NEW r \in Requests
      PROVE  LET next == IF r \notin Woken(t) THEN req[r]
                         ELSE IF well /\ tab[t].page = "open" THEN [req[r] EXCEPT !.st = "sent", !.again = TRUE]
                         ELSE NoReq
             IN next \in Req /\ next.tok \in 0 .. Len(issued)
  BY RequestTyped
<1> QED
  BY <1>1 DEF Wake

\* An answer reaches the tab that asked.
LEMMA DeliverKeeps ==
  ASSUME SessionInv, NEW c \in Calls, Deliver(c)
  PROVE  SessionInv'
<1> DEFINE t == call[c].tab
           kind == call[c].kind
           st == call[c].st
<1>1. /\ t \in Tabs /\ st \in {"ok", "no", "lost"}
      /\ cookie' = CookieAfter(c) /\ call' = [call EXCEPT ![c] = NoCall]
      /\ UNCHANGED <<server, out, ended>>
  BY DEF Deliver
<1>2. CallsFit' /\ AllGood' /\ cookie' \in 0 .. Len(issued)
  BY <1>1, CallOver
<1>3. ServerFits' /\ UNCHANGED issued
  BY <1>1, ServerStays
<1>4. req' \in [Requests -> Req] /\ (\A r \in Requests : req'[r].tok \in 0 .. Len(issued)) /\ refreshing' \subseteq Tabs
  <2>1. CASE kind = "refresh"
    <3>1. Wake(t, st = "ok") /\ refreshing' = refreshing \ {t}
      BY <2>1 DEF Deliver
    <3> QED
      BY <1>1, <3>1, WakeFits DEF SessionInv, BrowserFits
  <2>2. CASE kind # "refresh"
    <3>1. UNCHANGED <<req, refreshing>>
      BY <2>2 DEF Deliver
    <3> QED
      BY <3>1 DEF SessionInv, BrowserFits
  <2> QED
    BY <2>1, <2>2
<1>5. BrowserFits'
  BY <1>2, <1>3, <1>4, RequestsFit
<1>6. StoreFits'
  <2>1. \/ Logout(t, FALSE, FALSE) \/ Logout(t, TRUE, FALSE) \/ Logout(t, TRUE, Waiters(t) # {})
        \/ kind # "logout" /\ st = "ok" /\ (Login(t, call[c].got) \/ Restore(t, call[c].got))
        \/ StoreStays
    BY DEF Deliver
  <2>2. ASSUME kind # "logout", st = "ok" PROVE call[c].got \in 1 .. Len(issued)
    BY <2>2 DEF SessionInv, CallsFit, Fits, ServerFits
  <2>3. CASE Logout(t, FALSE, FALSE) \/ Logout(t, TRUE, FALSE) \/ Logout(t, TRUE, Waiters(t) # {})
    BY <1>1, <1>3, <2>3, LogoutFits
  <2>4. CASE kind # "logout" /\ st = "ok" /\ (Login(t, call[c].got) \/ Restore(t, call[c].got))
    BY <1>1, <1>3, <2>2, <2>4, LoginFits, RestoreFits
  <2>5. CASE StoreStays
    BY <1>3, <2>5, Untouched DEF StoreStays
  <2> QED
    BY <2>1, <2>3, <2>4, <2>5
<1> QED
  BY <1>2, <1>3, <1>5, <1>6 DEF SessionInv

-----------------------------------------------------------------------------
(* The tabs *)

\* A call of a tab is sent; no session ends by that.
LEMMA SendKeeps ==
  ASSUME SessionInv, NEW kind \in {"boot", "login", "logout", "refresh"}, NEW t \in Tabs,
         NEW tok \in 0 .. Len(issued), NEW u \in Owners, kind = "login" => u \in Users,
         kind \in {"boot", "refresh"} => tok = cookie,
         Send(kind, t, tok, u), UNCHANGED <<server, cookie, out, ended>>
  PROVE  ServerFits' /\ CallsFit' /\ AllGood' /\ UNCHANGED issued
<1>1. ~ended => cookie >= 1
  BY DEF SessionInv, AllGood
<1>2. CallsFit' /\ (~ended /\ (\A d \in Calls : Good(call[d])) => \A d \in Calls : Good(call'[d]))
  BY <1>1, Sends DEF server
<1>3. ServerFits' /\ UNCHANGED issued
  BY ServerStays
<1>4. AllGood'
  BY <1>2 DEF SessionInv, AllGood, server
<1> QED
  BY <1>2, <1>3, <1>4

LEMMA SignInKeeps ==
  ASSUME SessionInv, NEW t \in Tabs, NEW u \in Users, SignIn(t, u)
  PROVE  SessionInv'
<1>1. Send("login", t, 0, u) /\ UNCHANGED <<server, browser, ghosts>> /\ 0 \in 0 .. Len(issued) /\ u \in Owners
  BY DEF SignIn, SessionInv, ServerFits
<1>2. ServerFits' /\ CallsFit' /\ AllGood' /\ UNCHANGED issued
  BY <1>1, SendKeeps DEF browser, ghosts
<1>3. BrowserFits' /\ StoreFits'
  BY <1>1, <1>2, Untouched DEF browser, ghosts
<1> QED
  BY <1>2, <1>3 DEF SessionInv

LEMMA SignOutKeeps ==
  ASSUME SessionInv, NEW t \in Tabs, SignOut(t)
  PROVE  SessionInv'
<1>1. /\ Send("logout", t, cookie, NoUser) /\ tab' = [tab EXCEPT ![t].page = "leaving"]
      /\ refreshing' = refreshing \ {t} /\ UNCHANGED <<server, cookie, disk, recovery, req, ghosts>>
      /\ cookie \in 0 .. Len(issued)
  BY DEF SignOut, SessionInv, BrowserFits
<1>2. ServerFits' /\ CallsFit' /\ AllGood' /\ UNCHANGED issued
  BY <1>1, SendKeeps DEF ghosts
<1>3. StoreFits'
  BY <1>1, <1>2, PageFits DEF ghosts
<1>4. BrowserFits'
  BY <1>1, <1>2 DEF SessionInv, BrowserFits
<1> QED
  BY <1>2, <1>3, <1>4 DEF SessionInv

LEMMA RefreshKeeps ==
  ASSUME SessionInv, NEW r \in Requests, Refresh(r)
  PROVE  SessionInv'
<1> DEFINE t == HomeOf[r]
           next == [req[r] EXCEPT !.st = "wait"]
<1>1. /\ Send("refresh", t, cookie, NoUser) /\ refreshing' = refreshing \cup {t}
      /\ req' = [req EXCEPT ![r].st = "wait"] /\ UNCHANGED <<server, cookie, tab, disk, recovery, ghosts>>
      /\ cookie \in 0 .. Len(issued) /\ t \in Tabs
  BY RequestTyped DEF Refresh
<1>2. ServerFits' /\ CallsFit' /\ AllGood' /\ UNCHANGED issued
  BY <1>1, SendKeeps DEF ghosts
<1>3. StoreFits'
  BY <1>1, <1>2, Untouched DEF ghosts
<1>4. next \in Req /\ next.tok = req[r].tok
  BY RequestTyped
<1>5. req' = [req EXCEPT ![r] = next]
  BY <1>1 DEF SessionInv, BrowserFits
<1>6. refreshing' \subseteq Tabs
  BY <1>1 DEF SessionInv, BrowserFits
<1> HIDE DEF next
<1>7. BrowserFits'
  BY <1>1, <1>2, <1>4, <1>5, <1>6, RequestTyped, OneRequest
<1> QED
  BY <1>2, <1>3, <1>7 DEF SessionInv

\* A page is loaded: its calls are orphans, and it asks for a session.
LEMMA LoadKeeps ==
  ASSUME SessionInv, NEW t \in Tabs, Load(t)
  PROVE  SessionInv'
<1>1. /\ Free # {} /\ refreshing' = refreshing \ {t} /\ tab' = [tab EXCEPT ![t] = [NewPage EXCEPT !.work = disk]]
      /\ req' = [r \in Requests |-> IF HomeOf[r] = t THEN NoReq ELSE req[r]]
      /\ UNCHANGED <<server, cookie, disk, recovery, ghosts>>
      /\ call' = [c \in Calls |-> IF call[c].tab = t THEN [call[c] EXCEPT !.tab = "gone"]
                                ELSE Sent("boot", t, cookie, NoUser)[c]]
  BY DEF Load
<1>2. ServerFits' /\ UNCHANGED issued
  BY <1>1, ServerStays DEF ghosts
<1>3. StoreFits'
  BY <1>1, <1>2, PageFits DEF ghosts
<1>4. BrowserFits'
  <2>1. req' \in [Requests -> Req] /\ \A r \in Requests : req'[r].tok \in 0 .. Len(issued)
    BY <1>1, RequestTyped
  <2> QED
    BY <1>1, <1>2, <2>1, RequestsFit DEF SessionInv, BrowserFits
<1>5. ASSUME NEW c \in Calls
      PROVE  /\ call'[c] \in Call /\ Fits(call'[c], Len(issued))
             /\ call'[c].st = "read" => issued[call'[c].tok] \notin out
             /\ ~ended => Good(call'[c])
  <2> DEFINE f == CHOOSE d \in Free : TRUE
             k == [kind |-> "boot", tab |-> t, tok |-> cookie, st |-> "sent", got |-> 0, user |-> NoUser]
             orphan == [call[c] EXCEPT !.tab = "gone"]
  <2>1. /\ call[c] \in Call /\ Fits(call[c], Len(issued)) /\ Len(issued) \in Nat
        /\ call[c].st = "read" => issued[call[c].tok] \notin out
        /\ cookie \in 0 .. Len(issued)
    BY DEF SessionInv, CallsFit, ServerFits, BrowserFits
  <2>2. ~ended => Good(call[c]) /\ cookie >= 1
    BY DEF SessionInv, AllGood
  <2>3. k \in Call /\ Fits(k, Len(issued)) /\ k.st = "sent" /\ (~ended => Good(k))
    BY <2>1, <2>2 DEF Fits, Good
  <2>4. /\ orphan \in Call /\ Fits(orphan, Len(issued)) /\ orphan.st = call[c].st /\ orphan.tok = call[c].tok
        /\ ~ended => Good(orphan)
    BY <2>1, <2>2 DEF Fits, Good
  <2>5. call'[c] = orphan \/ call'[c] = call[c] \/ call'[c] = k
    <3>1. Sent("boot", t, cookie, NoUser) = [call EXCEPT ![f] = k]
      BY DEF Sent
    <3> HIDE DEF k, f
    <3>2. Sent("boot", t, cookie, NoUser)[c] \in {call[c], k}
      BY <3>1 DEF SessionInv, CallsFit
    <3> QED
      BY <1>1, <3>2
  <2> HIDE DEF k, orphan
  <2> QED
    BY <2>1, <2>2, <2>3, <2>4, <2>5
<1>6. CallsFit'
  <2>1. call' \in [Calls -> Call]
    BY <1>1, <1>5
  <2> QED
    BY <1>1, <1>2, <1>5, <2>1 DEF CallsFit, ghosts
<1>7. AllGood'
  BY <1>1, <1>5 DEF SessionInv, AllGood, server, ghosts
<1> QED
  BY <1>2, <1>3, <1>4, <1>6, <1>7 DEF SessionInv

LEMMA OpenKeeps ==
  ASSUME SessionInv, NEW t \in Tabs, Open(t)
  PROVE  SessionInv'
<1> DEFINE next == [tab[t] EXCEPT !.work = tab[t].user]
<1>1. /\ tab' = [tab EXCEPT ![t].work = tab[t].user] /\ disk' = tab[t].user
      /\ UNCHANGED <<server, cookie, refreshing, recovery, req, call, ghosts>>
  BY DEF Open
<1>2. ServerFits' /\ UNCHANGED issued
  BY <1>1, ServerStays DEF ghosts
<1>3. /\ next \in TabState /\ next.user = tab[t].user /\ next.token = tab[t].token /\ next.work = tab[t].user
  BY TabTyped
<1>4. tab' = [tab EXCEPT ![t] = next]
  BY <1>1 DEF SessionInv, StoreFits
<1>5. \/ next.user = NoUser /\ next.token = 0
      \/ next.token \in 1 .. Len(issued) /\ issued[next.token] = next.user
  BY <1>3 DEF SessionInv, StoreFits
<1> HIDE DEF next
<1>6. StoreFits'
  BY <1>1, <1>2, <1>3, <1>4, <1>5, TabTyped, TabChanges DEF ghosts
<1>7. BrowserFits' /\ CallsFit'
  BY <1>1, <1>2, Untouched DEF ghosts
<1>8. AllGood'
  BY <1>1 DEF SessionInv, AllGood, server, ghosts
<1> QED
  BY <1>2, <1>6, <1>7, <1>8 DEF SessionInv

\* Steps of one request that send nothing to /auth.
LEMMA RequestStepsKeep ==
  ASSUME SessionInv, NEW r \in Requests, Request(r) \/ Answered(r) \/ Join(r) \/ Fail(r)
  PROVE  SessionInv'
<1> DEFINE t == HomeOf[r]
<1>1. /\ UNCHANGED <<server, cookie, refreshing, call, out, ended>>
      /\ UNCHANGED <<tab, disk, recovery, mixed>> \/ Logout(t, TRUE, FALSE)
      /\ \/ req' = [req EXCEPT ![r] = NoReq] \/ req' = [req EXCEPT ![r].st = "wait"]
         \/ req' = [req EXCEPT ![r] = [st |-> "sent", tok |-> tab[t].token, again |-> FALSE]]
  BY DEF Request, Answered, Join, Fail, ghosts
<1>2. ServerFits' /\ UNCHANGED issued
  BY <1>1, ServerStays
<1>3. StoreFits'
  <2>1. t \in Tabs
    BY RequestTyped
  <2> QED
    BY <1>1, <1>2, <2>1, LogoutFits, Untouched
<1>4. CallsFit' /\ AllGood'
  BY <1>1, <1>2, Untouched DEF SessionInv, AllGood, server
<1>5. refreshing' \subseteq Tabs
  BY <1>1 DEF SessionInv, BrowserFits
<1>6. BrowserFits'
  <2>1. CASE req' = [req EXCEPT ![r] = NoReq]
    BY <1>1, <1>2, <1>5, <2>1, RequestTyped, OneRequest
  <2>2. CASE req' = [req EXCEPT ![r].st = "wait"]
    <3> DEFINE next == [req[r] EXCEPT !.st = "wait"]
    <3>1. next \in Req /\ next.tok = req[r].tok
      BY RequestTyped
    <3>2. req' = [req EXCEPT ![r] = next]
      BY <2>2 DEF SessionInv, BrowserFits
    <3> HIDE DEF next
    <3> QED
      BY <1>1, <1>2, <1>5, <3>1, <3>2, RequestTyped, OneRequest
  <2>3. CASE req' = [req EXCEPT ![r] = [st |-> "sent", tok |-> tab[t].token, again |-> FALSE]]
    <3> DEFINE next == [st |-> "sent", tok |-> tab[t].token, again |-> FALSE]
    <3>1. tab[t].token \in 0 .. Len(issued) /\ tab[t].token \in Nat
      <4>1. t \in Tabs /\ Len(issued) \in Nat
        BY RequestTyped DEF SessionInv, ServerFits
      <4> QED
        BY <4>1 DEF SessionInv, StoreFits
    <3>2. next \in Req /\ next.tok \in 0 .. Len(issued)
      BY <3>1
    <3> HIDE DEF next
    <3>3. req' = [req EXCEPT ![r] = next]
      BY <2>3 DEF next
    <3> QED
      BY <1>1, <1>2, <1>5, <3>2, <3>3, OneRequest
  <2> QED
    BY <1>1, <2>1, <2>2, <2>3
<1> QED
  BY <1>2, <1>3, <1>4, <1>6 DEF SessionInv

LEMMA SessionStep ==
  ASSUME SessionInv, [Next]_vars
  PROVE  SessionInv'
<1>1. CASE UNCHANGED vars
  BY <1>1, Untouched DEF vars, SessionInv, AllGood, ServerFits
<1>2. CASE Next
  BY <1>2, ServeKeeps, IgnoreKeeps, DeliverKeeps, RequestStepsKeep, RefreshKeeps, ExpireKeeps, OpenKeeps,
     LoadKeeps, SignOutKeeps, SignInKeeps, LoseKeeps, ElsewhereKeeps DEF Next, Work
<1> QED
  BY <1>1, <1>2

LEMMA SessionInvariant == Spec => []SessionInv
BY InitSession, SessionStep, PTL DEF Spec

-----------------------------------------------------------------------------
(* Results *)

\* Tokens, tabs and calls keep their types, and who is signed in has a token.
THEOREM SessionTyped == Spec => []TypeOK
<1>1. SessionInv => TypeOK
  <2> SUFFICES ASSUME SessionInv PROVE TypeOK
    OBVIOUS
  <2> USE DEF SessionInv
  <2>1. ASSUME NEW t \in Tabs
        PROVE  IF tab[t].user = NoUser THEN tab[t].token = 0 ELSE issued[tab[t].token] = tab[t].user
    <3>1. tab[t].token \in 1 .. Len(issued) => issued[tab[t].token] \in Users
      BY IssuedTyped
    <3> QED
      BY <3>1 DEF StoreFits
  <2>2. ASSUME NEW r \in Requests
        PROVE  req[r].st \in {"idle", "sent", "wait"} /\ req[r].tok \in 0 .. Len(issued)
    BY DEF BrowserFits
  <2>3. ASSUME NEW c \in Calls PROVE call[c].st \in {"idle", "sent", "read", "ok", "no", "lost"}
    BY DEF CallsFit
  <2> QED
    BY <2>1, <2>2, <2>3 DEF TypeOK, ServerFits, BrowserFits, StoreFits
<1> QED
  BY SessionInvariant, <1>1, PTL

\* A user who has signed out has no session until the next login, unless a
\* refresh had read the row (refreshSession) before the logout revoked it.
THEOREM NobodyComesBack == Spec => []SignedOutStays
BY SessionInvariant, PTL DEF SessionInv, ServerFits

\* A tab shows the workspace of its user (login, logout and restoreSession of
\* the store), unless a refresh was answered with another user's token.
THEOREM TabsShowTheirUser == Spec => []WorkspaceIsMine
BY SessionInvariant, PTL DEF SessionInv, StoreFits

-----------------------------------------------------------------------------
(* Why a tab signs its user out *)

\* The reasons for which tab t may do so.
Reason(t) ==
  \/ ended \/ tab[t].page = "leaving"
  \/ \E c \in Free : call'[c].kind = "boot" /\ call'[c].tab = t
  \/ \E r \in Requests : HomeOf[r] = t /\ req[r].again
  \/ \E c \in Calls : call[c].tab = t /\ call[c].kind \in {"boot", "login"} /\ call[c].st = "no"

\* The answers that sign out come after the end of a session, or for that reason.
LEMMA DeliverSignsOut ==
  ASSUME SessionInv, NEW c \in Calls, Deliver(c), NEW t \in Tabs,
         tab[t].user # NoUser, tab'[t].user = NoUser
  PROVE  Reason(t)
<1> SUFFICES ASSUME ~ended PROVE Reason(t)
  BY DEF Reason
<1> DEFINE at == call[c].tab
           kind == call[c].kind
           st == call[c].st
<1>1. at \in Tabs /\ st \in {"ok", "no", "lost"} /\ tab \in [Tabs -> TabState]
  BY DEF Deliver, SessionInv, StoreFits
<1>2. st # "lost" /\ (kind = "logout" => st \notin {"ok", "no"}) /\ (kind \in {"boot", "refresh"} => st # "no")
  BY <1>1 DEF SessionInv, AllGood, Good, CallsFit, Fits
<1>3. ASSUME kind # "logout", st = "ok" PROVE call[c].got \in 1 .. Len(issued) /\ issued[call[c].got] \in Users
  BY <1>3, IssuedTyped DEF SessionInv, CallsFit, Fits, ServerFits
<1>4. \/ kind = "login" /\ st = "no" /\ Logout(at, TRUE, FALSE)
      \/ kind # "logout" /\ st = "ok" /\ (Login(at, call[c].got) \/ Restore(at, call[c].got))
  <2> HIDE DEF at
  <2> QED
    BY <1>1, <1>2 DEF Deliver, at
<1>5. CASE kind = "login" /\ st = "no" /\ Logout(at, TRUE, FALSE)
  <2>1. tab' = [tab EXCEPT ![at].user = NoUser, ![at].token = 0, ![at].work = NoUser]
    BY <1>5 DEF Logout
  <2>2. at = t
    BY <1>1, <2>1
  <2> QED
    BY <1>5, <2>2 DEF Reason
<1>6. CASE kind # "logout" /\ st = "ok" /\ (Login(at, call[c].got) \/ Restore(at, call[c].got))
  <2> DEFINE u == issued[call[c].got]
  <2>1. u \in Users /\ u # NoUser
    BY <1>3, <1>6
  <2>2. \E w \in Owners \cup {tab[at].work, recovery.work} :
          tab' = [tab EXCEPT ![at].user = u, ![at].token = call[c].got, ![at].work = w]
    <3>1. CASE Login(at, call[c].got)
      BY <3>1 DEF Login
    <3>2. CASE Restore(at, call[c].got)
      <4>1. tab' = [tab EXCEPT ![at].user = u, ![at].token = call[c].got]
        BY <3>2 DEF Restore
      <4>2. tab' = [tab EXCEPT ![at].user = u, ![at].token = call[c].got, ![at].work = tab[at].work]
        BY <1>1, <4>1
      <4> QED
        BY <4>2
    <3> QED
      BY <1>6, <3>1, <3>2
  <2> HIDE DEF u, at
  <2>3. tab'[t].user \in {tab[t].user, u}
    BY <1>1, <2>2
  <2> QED
    BY <2>1, <2>3
<1> QED
  BY <1>4, <1>5, <1>6

\* While no session has ended and nothing is lost, a tab signs its user out only
\* for one of the reasons that SignedOutForAReason names: refreshes of several
\* tabs with one cookie (refreshSession, one hash per user) do not refuse each other.
THEOREM NoTabEndsAnother == Spec => SignedOutForAReason
<1>1. ASSUME SessionInv, [Next]_vars, NEW t \in Tabs, tab[t].user # NoUser, tab'[t].user = NoUser
      PROVE  Reason(t)
  <2>1. tab \in [Tabs -> TabState] /\ ~ UNCHANGED tab
    BY <1>1 DEF SessionInv, StoreFits
  <2>2. CASE \E c \in Calls : Deliver(c)
    BY <1>1, <2>2, DeliverSignsOut
  <2>3. CASE \E r \in Requests : Fail(r)
    <3>1. PICK r \in Requests : Fail(r)
      BY <2>3
    <3> DEFINE at == HomeOf[r]
    <3>2. tab' = [tab EXCEPT ![at].user = NoUser, ![at].token = 0, ![at].work = NoUser]
      BY <3>1 DEF Fail, Logout
    <3>3. at = t
      BY <1>1, <2>1, <3>2
    <3> QED
      BY <3>1, <3>3 DEF Fail, Reason
  <2>4. CASE \E s \in Tabs : Open(s) \/ SignOut(s)
    <3>1. PICK s \in Tabs : \/ tab' = [tab EXCEPT ![s].work = tab[s].user]
                            \/ tab' = [tab EXCEPT ![s].page = "leaving"]
      BY <2>4 DEF Open, SignOut
    <3> QED
      BY <1>1, <2>1, <3>1
  <2>5. CASE \E s \in Tabs : Load(s)
    <3>1. PICK s \in Tabs : Load(s)
      BY <2>5
    <3>2. /\ Free # {} /\ tab' = [tab EXCEPT ![s] = [NewPage EXCEPT !.work = disk]]
          /\ call' = [c \in Calls |-> IF call[c].tab = s THEN [call[c] EXCEPT !.tab = "gone"]
                                     ELSE Sent("boot", s, cookie, NoUser)[c]]
      BY <3>1 DEF Load
    <3>3. s = t
      BY <1>1, <2>1, <3>2
    <3> DEFINE f == CHOOSE c \in Free : TRUE
               k == [kind |-> "boot", tab |-> s, tok |-> cookie, st |-> "sent", got |-> 0, user |-> NoUser]
    <3>4. f \in Free /\ f \in Calls /\ call[f].st = "idle"
      BY <3>2 DEF Free
    <3>5. call \in [Calls -> Call] /\ call[f].tab # s
      BY <1>1, <3>4 DEF SessionInv, CallsFit, Fits
    <3>6. Sent("boot", s, cookie, NoUser) = [call EXCEPT ![f] = k]
      BY DEF Sent
    <3>7. call'[f] = k
      <4> HIDE DEF f, k
      <4> QED
        BY <3>2, <3>4, <3>5, <3>6
    <3>8. call'[f].kind = "boot" /\ call'[f].tab = t
      BY <3>3, <3>7
    <3> QED
      BY <3>4, <3>8 DEF Reason
  <2>6. CASE UNCHANGED tab
    BY <2>1, <2>6
  <2> QED
    BY <1>1, <2>2, <2>3, <2>4, <2>5, <2>6
    DEF Next, Work, Serve, Ignore, Answered, Join, Refresh, Expire, SignIn, Request, Lose, Elsewhere,
        browser, vars
<1>2. SessionInv /\ [Next]_vars
        => [\A t \in Tabs : tab[t].user # NoUser /\ tab'[t].user = NoUser =>
              \/ ended \/ tab[t].page = "leaving"
              \/ \E c \in Free : call'[c].kind = "boot" /\ call'[c].tab = t
              \/ \E r \in Requests : HomeOf[r] = t /\ req[r].again
              \/ \E c \in Calls : call[c].tab = t /\ call[c].kind \in {"boot", "login"} /\ call[c].st = "no"]_vars
  BY <1>1 DEF Reason
<1> QED
  BY SessionInvariant, <1>2, PTL DEF Spec, SignedOutForAReason
=============================================================================
