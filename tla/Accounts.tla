------------------------------ MODULE Accounts ------------------------------
(***************************************************************************)
(* The password of one e-mail address and the codes mailed to it           *)
(* (auth/auth.service.ts, auth/social-auth.service.ts, changePassword and  *)
(* resetPassword in users/users.service.ts). Every call reads the row,     *)
(* waits for bcrypt, and writes the row by its id, whatever has become of  *)
(* it. Codes are numbered as they are stored, passwords by the calls that  *)
(* bring them; two codes never agree, and 0 is none. The sessions that     *)
(* follow are in Session.                                                  *)
(***************************************************************************)
EXTENDS Naturals, Sequences

CONSTANTS Requests, \* calls that may be under way at once
          MaxCalls  \* bound: the calls made

VARIABLES account,
          request,
          codes,    \* the kind of each code, and the password it was stored beside
          mailed,   \* codes that have reached the mailbox
          over,     \* codes that have expired
          calls,
          accepted, \* ghost: codes that were accepted,
          again,    \* and those accepted once more
          rivals,   \* ghost: codes two calls under way have found to be right
          undone,   \* ghost: codes taken away by a call that had seen another
          vouched,  \* ghost: passwords that the owner of the mailbox stands for
          raced     \* ghost: has a registration and an acceptance missed each other?

accountVars == <<account, request, codes, mailed, over, calls, accepted, again, rivals, undone, vouched, raced>>
codeGhosts == <<accepted, again, rivals, undone>>

Kinds == {"register", "verify", "resend", "forgot", "reset", "change", "admin", "oauth"}
NoAccount == [exists |-> FALSE, local |-> TRUE, verified |-> FALSE, password |-> 0, verifyOtp |-> 0, resetOtp |-> 0]
NoRequest == [kind |-> "none", st |-> "idle", seen |-> NoAccount, code |-> 0, password |-> 0]

Init ==
  /\ account = NoAccount /\ request = [r \in Requests |-> NoRequest]
  /\ codes = <<>> /\ mailed = {} /\ over = {} /\ calls = 0
  /\ accepted = {} /\ again = {} /\ rivals = {} /\ undone = {} /\ vouched = {} /\ raced = FALSE

-----------------------------------------------------------------------------
(* What a call finds *)

\* Mutant: a wrong code is treated as one that has expired.
ResetVerdictWiping(row, code) ==
  IF row.resetOtp = 0 THEN "refused"
  ELSE IF row.resetOtp \in over \/ row.resetOtp # code THEN "expired" ELSE "granted"

ResetVerdict(row, code) ==
  IF row.resetOtp = 0 THEN "refused"
  ELSE IF row.resetOtp \in over THEN "expired"
  ELSE IF row.resetOtp # code THEN "refused" ELSE "granted"

MayRegister(row) == ~row.verified
MayVerify(row, code) == ~row.verified /\ row.verifyOtp \notin over \cup {0} /\ row.verifyOtp = code
MayResend(row) == row.exists /\ ~row.verified
MayForget(row) == row.exists /\ row.local
MayChange(row) == row.password # 0 /\ (row.verified \/ ~row.local)

Granted(kind, row, code) ==
  \/ kind = "register" /\ MayRegister(row)
  \/ kind = "verify" /\ MayVerify(row, code)
  \/ kind = "resend" /\ MayResend(row)
  \/ kind = "forgot" /\ MayForget(row)
  \/ kind = "change" /\ MayChange(row)
  \/ kind = "admin" /\ row.exists
  \/ kind = "oauth"

Verdict(kind, row, code) ==
  IF kind = "reset" THEN ResetVerdict(row, code)
  ELSE IF Granted(kind, row, code) THEN "granted" ELSE "refused"

\* A call comes in and reads the row.  What is refused leaves everything as it is, and so
\* does the verification of a verified address; whoever changes a password is signed in
\* and knows the old one.
Ask(r, kind, code) ==
  LET verdict == Verdict(kind, account, code) IN
  /\ request[r].st = "idle" /\ calls < MaxCalls
  /\ code # 0 => kind \in {"verify", "reset"}
  /\ verdict # "refused"
  /\ calls' = calls + 1
  /\ request' = [request EXCEPT ![r] =
       [kind |-> kind, st |-> verdict, seen |-> account, code |-> code, password |-> calls + 1]]
  /\ rivals' = rivals \cup {k \in {code} \ {0} : verdict = "granted" /\ \E q \in Requests : request[q].code = k}
  /\ UNCHANGED <<account, codes, mailed, over, accepted, again, undone, vouched, raced>>

-----------------------------------------------------------------------------
(* What it writes *)

Granting(r, kind) == request[r].kind = kind /\ request[r].st = "granted"
Done(r) == request' = [request EXCEPT ![r] = NoRequest]

\* A code is stored, and its mail is on its way.
Store(r, kind, password) ==
  /\ codes' = Append(codes, [kind |-> kind, password |-> password])
  /\ request' = [request EXCEPT ![r].st = "mailing", ![r].code = Len(codes) + 1]

\* Mutant: a registration repeated keeps the code mailed for the first.
RegisteredKeeping(row, password) ==
  [row EXCEPT !.exists = TRUE, !.password = password,
              !.verifyOtp = IF row.verifyOtp = 0 THEN Len(codes) + 1 ELSE row.verifyOtp]

Registered(row, password) ==
  [row EXCEPT !.exists = TRUE, !.password = password, !.verifyOtp = Len(codes) + 1]

\* A row nobody has seen is created, which fails when there is one by now.
Register(r) ==
  LET seen == request[r].seen IN
  /\ Granting(r, "register")
  /\ IF ~seen.exists /\ account.exists
     THEN Done(r) /\ UNCHANGED <<account, codes, raced>>
     ELSE /\ account' = Registered(account, request[r].password)
          /\ Store(r, "verify", request[r].password)
          /\ raced' = (raced \/ account.verified)
  /\ UNCHANGED <<mailed, over, calls, codeGhosts, vouched>>

\* The code that was right when the row was read is accepted.
Spend(k, field) ==
  /\ again' = again \cup ({k} \cap accepted) /\ accepted' = accepted \cup {k}
  /\ undone' = undone \cup ({field} \ {0, k})
  /\ UNCHANGED rivals

Verify(r) ==
  LET k == request[r].code IN
  /\ Granting(r, "verify")
  /\ account' = [account EXCEPT !.verified = TRUE, !.verifyOtp = 0]
  /\ Spend(k, account.verifyOtp)
  /\ vouched' = vouched \cup {codes[k].password}
  /\ raced' = (raced \/ account.verifyOtp # k)
  /\ Done(r)
  /\ UNCHANGED <<codes, mailed, over, calls>>

\* resendVerificationEmail, also when the address was verified meanwhile.
Resend(r) ==
  /\ Granting(r, "resend")
  /\ account' = [account EXCEPT !.verifyOtp = Len(codes) + 1]
  /\ Store(r, "verify", account.password)
  /\ UNCHANGED <<mailed, over, calls, codeGhosts, vouched, raced>>

ForgotPassword(r) ==
  /\ Granting(r, "forgot")
  /\ account' = [account EXCEPT !.resetOtp = Len(codes) + 1]
  /\ Store(r, "reset", account.password)
  /\ UNCHANGED <<mailed, over, calls, codeGhosts, vouched, raced>>

\* Mutant: the code stays.
ResetKeeping(row, password) == [row EXCEPT !.password = password]

Reset(row, password) == [row EXCEPT !.password = password, !.resetOtp = 0]

ResetPassword(r) ==
  /\ Granting(r, "reset")
  /\ account' = Reset(account, request[r].password)
  /\ Spend(request[r].code, account.resetOtp)
  /\ vouched' = vouched \cup {request[r].password}
  /\ Done(r)
  /\ UNCHANGED <<codes, mailed, over, calls, raced>>

\* It takes an expired code away, or the one that has replaced it.
Erase(r) ==
  /\ request[r].st = "expired"
  /\ account' = [account EXCEPT !.resetOtp = 0]
  /\ undone' = undone \cup ({account.resetOtp} \ {0, request[r].seen.resetOtp})
  /\ Done(r)
  /\ UNCHANGED <<codes, mailed, over, calls, accepted, again, rivals, vouched, raced>>

\* changePassword, and resetPassword by an administrator.
ChangePassword(r) ==
  /\ Granting(r, "change") \/ Granting(r, "admin")
  /\ account' = [account EXCEPT !.password = request[r].password]
  /\ vouched' = vouched \cup {request[r].password}
  /\ Done(r)
  /\ UNCHANGED <<codes, mailed, over, calls, codeGhosts, raced>>

\* validateOAuthLogin: the row is linked to the provider, or created without a password.
Link(r) ==
  /\ Granting(r, "oauth")
  /\ account' = IF ~request[r].seen.exists /\ account.exists THEN account
                ELSE [account EXCEPT !.exists = TRUE, !.local = FALSE]
  /\ Done(r)
  /\ UNCHANGED <<codes, mailed, over, calls, codeGhosts, vouched, raced>>

\* The mail arrives, or it does not.
Mail(r) ==
  /\ request[r].st = "mailing"
  /\ mailed' \in {mailed, mailed \cup {request[r].code}}
  /\ Done(r)
  /\ UNCHANGED <<account, codes, over, calls, codeGhosts, vouched, raced>>

Expire(k) ==
  /\ k \in DOMAIN codes \ over /\ over' = over \cup {k}
  /\ UNCHANGED <<account, request, codes, mailed, calls, codeGhosts, vouched, raced>>

Next ==
  \/ \E k \in DOMAIN codes : Expire(k)
  \/ \E r \in Requests :
       \/ \E kind \in Kinds, code \in mailed \cup {0} : Ask(r, kind, code)
       \/ Register(r) \/ Verify(r) \/ Resend(r) \/ ForgotPassword(r) \/ ResetPassword(r)
       \/ Erase(r) \/ ChangePassword(r) \/ Link(r) \/ Mail(r)

Spec == Init /\ [][Next]_accountVars

-----------------------------------------------------------------------------
Newest(kind) == {k \in DOMAIN codes : codes[k].kind = kind /\ \A j \in DOMAIN codes : codes[j].kind = kind => j <= k}

\* A code is accepted once, unless two calls had both found it right before either wrote;
\* and the last code asked for is in force until it is accepted or expires, unless a call
\* that had seen the code before it took it away.
CodesGoodOnce ==
  /\ again \subseteq rivals
  /\ \A k \in (Newest("verify") \cup Newest("reset")) \ (accepted \cup over \cup undone) :
       k \in {account.verifyOtp, account.resetOtp}

\* Who has confirmed the address signs in with a password that the owner of the mailbox
\* stands for: that of the registration the code was mailed for, or one set by a reset,
\* a change or an administrator; unless another code was stored between the reading of the
\* code and its acceptance, or a registration that had not seen the acceptance came later.
VerifiedAsRegistered == account.verified /\ ~raced => account.password \in vouched
=============================================================================
