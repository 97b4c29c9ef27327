---------------------------- MODULE Editors_proofs ----------------------------
(***************************************************************************)
(* Proofs about the editors, each for itself and for any number of calls,  *)
(* restores, saves and tabs: the codes and the password of an account, the *)
(* restoration of a backup, the edits of the grid, and the statements that *)
(* the query tabs execute.                                                 *)
(***************************************************************************)
EXTENDS Editors, FiniteSetTheorems, SequenceTheorems, WellFoundedInduction, TLAPS

-----------------------------------------------------------------------------
(* Accounts *)

AccountRow == [exists : BOOLEAN, local : BOOLEAN, verified : BOOLEAN, password : Nat,
               verifyOtp : Nat, resetOtp : Nat]
Call == [kind : Accounts!Kinds \cup {"none"}, st : {"idle", "granted", "expired", "mailing"},
         seen : AccountRow, code : Nat, password : Nat]
Code == [kind : {"verify", "reset"}, password : Nat]

AccountTyped ==
  /\ account \in AccountRow /\ accountCall \in [Callers -> Call] /\ codes \in Seq(Code)
  /\ mailed \subseteq 1 .. Len(codes) /\ done \subseteq 1 .. Len(codes) /\ calls \in Nat

\* The codes in force are of their kind and not accepted yet; the password beside the code
\* of a verification is still that of the account, or its owner stands for the new one.
CodesInForce ==
  /\ account.verifyOtp # 0 =>
       /\ account.verifyOtp \in 1 .. Len(codes) \ done /\ codes[account.verifyOtp].kind = "verify"
       /\ account.password \in vouched \cup {codes[account.verifyOtp].password}
  /\ account.resetOtp # 0 =>
       account.resetOtp \in 1 .. Len(codes) \ done /\ codes[account.resetOtp].kind = "reset"

\* A call that has found its code right and has still to write.
Holds(c) == c.st = "granted" /\ c.kind \in {"verify", "reset"}

\* Whose code was accepted by another meanwhile is a rival, as are two with one code.
HeldInOrder ==
  \A r \in Callers :
    /\ Holds(accountCall[r]) =>
         /\ accountCall[r].code \in 1 .. Len(codes)
         /\ codes[accountCall[r].code].kind = accountCall[r].kind
         /\ accountCall[r].code \in done => accountCall[r].code \in rivals
    /\ accountCall[r].st = "expired" => accountCall[r].seen.resetOtp \in over
    /\ accountCall[r].st = "mailing" => accountCall[r].code \in 1 .. Len(codes)

RivalsAreKnown ==
  \A r, q \in Callers :
    r # q /\ Holds(accountCall[r]) /\ Holds(accountCall[q]) /\ accountCall[r].code = accountCall[q].code
      => accountCall[r].code \in rivals

\* The last code of each kind is in force, if nothing took it away.
InForce(row, kind) == IF kind = "verify" THEN row.verifyOtp ELSE row.resetOtp
LastCodes ==
  \A k \in 1 .. Len(codes) \ (done \cup over \cup undone) :
    (\A j \in 1 .. Len(codes) : codes[j].kind = codes[k].kind => j <= k)
      => k = InForce(account, codes[k].kind)

Vouched == account.verified /\ ~raced => account.password \in vouched

AccountInv ==
  /\ AccountTyped /\ CodesInForce /\ HeldInOrder /\ RivalsAreKnown /\ LastCodes /\ Vouched
  /\ again \subseteq rivals

LEMMA AccountInitial == Accounts!Init => AccountInv
<1> SUFFICES ASSUME Accounts!Init PROVE AccountInv
  OBVIOUS
<1>1. Accounts!NoAccount \in AccountRow /\ Accounts!NoRequest \in Call
  BY DEF Accounts!NoAccount, Accounts!NoRequest, AccountRow, Call
<1>2. codes = <<>> /\ Len(codes) = 0 /\ codes \in Seq(Code)
  BY DEF Accounts!Init
<1>3. AccountTyped
  BY <1>1, <1>2 DEF Accounts!Init, AccountTyped
<1>4. CodesInForce /\ Vouched
  BY DEF Accounts!Init, Accounts!NoAccount, CodesInForce, Vouched
<1>5. HeldInOrder /\ RivalsAreKnown
  BY DEF Accounts!Init, Accounts!NoRequest, HeldInOrder, RivalsAreKnown, Holds
<1>6. LastCodes /\ again \subseteq rivals
  BY <1>2 DEF Accounts!Init, LastCodes
<1> QED
  BY <1>3, <1>4, <1>5, <1>6 DEF AccountInv

\* A call comes in.
LEMMA AskKeeps ==
  ASSUME AccountInv, NEW r \in Callers, NEW kind \in Accounts!Kinds, NEW code \in mailed \cup {0},
         Accounts!Ask(r, kind, code)
  PROVE  AccountInv'
<1> DEFINE verdict == Accounts!Verdict(kind, account, code)
           new == [kind |-> kind, st |-> verdict, seen |-> account, code |-> code, password |-> calls + 1]
<1>1. /\ account \in AccountRow /\ accountCall \in [Callers -> Call] /\ codes \in Seq(Code) /\ calls \in Nat
      /\ code \in Nat
  BY DEF AccountInv, AccountTyped
<1>2. /\ verdict # "refused" /\ calls' = calls + 1 /\ accountCall' = [accountCall EXCEPT ![r] = new]
      /\ rivals' = rivals \cup {k \in {code} \ {0} : verdict = "granted" /\ \E q \in Callers : accountCall[q].code = k}
      /\ UNCHANGED <<account, codes, mailed, over, done, again, undone, vouched, raced>>
  BY DEF Accounts!Ask
<1>3. verdict \in {"granted", "expired"}
  BY <1>2 DEF Accounts!Verdict, Accounts!ResetVerdict
<1>4. /\ verdict = "granted" /\ kind = "verify" => code = account.verifyOtp /\ code # 0
      /\ verdict = "granted" /\ kind = "reset" => code = account.resetOtp /\ code # 0
      /\ verdict = "expired" => account.resetOtp \in over
  BY <1>2 DEF Accounts!Verdict, Accounts!ResetVerdict, Accounts!Granted, Accounts!MayVerify
<1> HIDE DEF verdict
<1>5. new \in Call
  BY <1>1, <1>3 DEF Call
<1>6. accountCall'[r] = new /\ \A q \in Callers \ {r} : accountCall'[q] = accountCall[q]
  BY <1>1, <1>2
<1>7. /\ new.st = verdict /\ new.kind = kind /\ new.code = code /\ new.seen = account
  OBVIOUS
<1> HIDE DEF new
<1>8. Holds(new) => code \in 1 .. Len(codes) \ done /\ codes[code].kind = kind
  BY <1>4, <1>7 DEF Holds, AccountInv, CodesInForce
<1>9. AccountTyped'
  BY <1>1, <1>2, <1>5 DEF AccountInv, AccountTyped
<1>10. HeldInOrder'
  BY <1>2, <1>3, <1>4, <1>6, <1>7, <1>8 DEF AccountInv, HeldInOrder
<1>11. RivalsAreKnown'
  <2>1. ASSUME NEW q \in Callers \ {r}, Holds(new), Holds(accountCall[q]), accountCall[q].code = code
        PROVE  code \in rivals'
    BY <1>2, <1>4, <1>7, <2>1 DEF Holds
  <2> QED
    BY <1>2, <1>6, <1>7, <2>1 DEF AccountInv, RivalsAreKnown
<1>12. CodesInForce' /\ LastCodes' /\ Vouched' /\ again' \subseteq rivals'
  BY <1>2 DEF AccountInv, CodesInForce, LastCodes, Vouched
<1> QED
  BY <1>9, <1>10, <1>11, <1>12 DEF AccountInv

\* A call that has written, and waits for its mail or for nothing.
LEMMA CallWrites ==
  ASSUME AccountInv, NEW r \in Callers, NEW new \in Call, new.st \in {"idle", "mailing"},
         new.st = "mailing" => new.code \in 1 .. Len(codes'),
         accountCall' = [accountCall EXCEPT ![r] = new],
         Len(codes) <= Len(codes'), \A k \in 1 .. Len(codes) : codes'[k] = codes[k], codes' \in Seq(Code),
         over \subseteq over', UNCHANGED rivals,
         done' = done \/ (Holds(accountCall[r]) /\ done' = done \cup {accountCall[r].code})
  PROVE  HeldInOrder' /\ RivalsAreKnown' /\ accountCall' \in [Callers -> Call]
<1>1. accountCall \in [Callers -> Call] /\ codes \in Seq(Code)
  BY DEF AccountInv, AccountTyped
<1>2. accountCall'[r] = new /\ ~Holds(new) /\ new.st # "expired"
  BY <1>1 DEF Holds
<1>3. \A q \in Callers \ {r} : accountCall'[q] = accountCall[q]
  BY <1>1
<1>4. 1 .. Len(codes) \subseteq 1 .. Len(codes')
  BY <1>1
<1>5. ASSUME NEW q \in Callers \ {r}, Holds(accountCall[q]), accountCall[q].code \in done'
      PROVE  accountCall[q].code \in rivals
  BY <1>5 DEF AccountInv, HeldInOrder, RivalsAreKnown
<1>6. HeldInOrder'
  BY <1>2, <1>3, <1>4, <1>5 DEF AccountInv, HeldInOrder
<1>7. RivalsAreKnown'
  BY <1>2, <1>3 DEF AccountInv, RivalsAreKnown
<1> QED
  BY <1>1, <1>6, <1>7

\* A code is stored: a verification's beside the password of the account, and in force.
LEMMA StoreKeeps ==
  ASSUME AccountInv, NEW r \in Callers, NEW kind \in {"verify", "reset"}, NEW password \in Nat,
         Accounts!Store(r, kind, password), account' \in AccountRow,
         InForce(account', kind) = Len(codes) + 1,
         kind = "verify" => account'.resetOtp = account.resetOtp /\ account'.password = password,
         kind = "reset" => account'.verifyOtp = account.verifyOtp /\ account'.password = account.password,
         UNCHANGED <<mailed, over, calls, done, again, rivals, undone, vouched>>, Vouched'
  PROVE  AccountInv'
<1> DEFINE n == Len(codes)
           code == [kind |-> kind, password |-> password]
           new == [accountCall[r] EXCEPT !.st = "mailing", !.code = n + 1]
<1>1. /\ account \in AccountRow /\ accountCall \in [Callers -> Call] /\ codes \in Seq(Code) /\ n \in Nat
      /\ codes' = Append(codes, code) /\ code \in Code
  BY DEF AccountInv, AccountTyped, Accounts!Store, Code
<1>2. /\ codes' \in Seq(Code) /\ Len(codes') = n + 1 /\ codes'[n + 1] = code
      /\ \A k \in 1 .. n : codes'[k] = codes[k]
  BY <1>1
<1>3. new \in Call /\ new.st = "mailing" /\ new.code = n + 1 /\ accountCall' = [accountCall EXCEPT ![r] = new]
  <2>1. accountCall' = [accountCall EXCEPT ![r].st = "mailing", ![r].code = n + 1]
    BY DEF Accounts!Store
  <2>2. accountCall[r] \in Call
    BY <1>1
  <2>3. new \in Call /\ new.st = "mailing" /\ new.code = n + 1
    <3> DEFINE m == n + 1
    <3>1. m \in Nat
      BY <1>1
    <3> HIDE DEF m
    <3>2. [accountCall[r] EXCEPT !.st = "mailing", !.code = m] \in Call
      BY <2>2, <3>1 DEF Call
    <3> QED
      BY <2>2, <3>2 DEF m, Call
  <2> QED
    BY <1>1, <2>1, <2>3
<1> HIDE DEF new
<1>4. HeldInOrder' /\ RivalsAreKnown' /\ accountCall' \in [Callers -> Call]
  <2>1. over \subseteq over' /\ UNCHANGED rivals /\ done' = done /\ n <= Len(codes') /\ new.code \in 1 .. Len(codes')
    BY <1>1, <1>2, <1>3
  <2> QED
    BY <1>2, <1>3, <2>1, CallWrites
<1>5. AccountTyped'
  BY <1>1, <1>2, <1>4 DEF AccountInv, AccountTyped
<1>6. CodesInForce'
  <2>1. n + 1 \notin done /\ \A k \in 1 .. n : k \in 1 .. n + 1
    BY <1>1 DEF AccountInv, AccountTyped
  <2>2. CASE kind = "verify"
    BY <1>1, <1>2, <2>1, <2>2 DEF AccountInv, CodesInForce, InForce
  <2>3. CASE kind = "reset"
    BY <1>1, <1>2, <2>1, <2>3 DEF AccountInv, CodesInForce, InForce
  <2> QED
    BY <2>2, <2>3
<1>7. LastCodes'
  <2> SUFFICES ASSUME NEW k \in 1 .. n + 1, k \notin done \cup over \cup undone,
                      \A j \in 1 .. n + 1 : codes'[j].kind = codes'[k].kind => j <= k
               PROVE  k = InForce(account', codes'[k].kind)
    BY <1>2 DEF LastCodes
  <2>1. CASE k = n + 1
    BY <1>2, <2>1
  <2>2. CASE k \in 1 .. n
    <3>1. codes[k].kind # kind /\ codes'[k] = codes[k] /\ codes[k].kind \in {"verify", "reset"}
      <4>1. codes[k] \in Code /\ codes'[k] = codes[k] /\ ~(n + 1 <= k) /\ n + 1 \in 1 .. n + 1
        BY <1>1, <1>2, <2>2, ElementOfSeq
      <4>2. codes[k].kind # kind
        BY <1>2, <4>1
      <4> QED
        BY <4>1, <4>2 DEF Code
    <3>2. \A j \in 1 .. n : codes[j].kind = codes[k].kind => j <= k
      BY <1>1, <1>2, <3>1
    <3>3. k = InForce(account, codes[k].kind)
      BY <2>2, <3>2 DEF AccountInv, LastCodes
    <3> QED
      BY <3>1, <3>3 DEF InForce
  <2> QED
    BY <1>1, <2>1, <2>2
<1> QED
  BY <1>4, <1>5, <1>6, <1>7 DEF AccountInv

\* A call ends with a write that stores no code: a code it takes out of force is accepted,
\* has expired, or counts as undone.
LEMMA WriteKeeps ==
  ASSUME AccountInv, NEW r \in Callers, Accounts!Done(r), account' \in AccountRow, UNCHANGED <<codes, rivals, calls>>,
         account'.verifyOtp = account.verifyOtp \/ account'.verifyOtp = 0,
         account'.resetOtp = account.resetOtp \/ account'.resetOtp = 0,
         account'.verifyOtp # account.verifyOtp => account.verifyOtp \in done' \cup over' \cup undone' \cup {0},
         account'.resetOtp # account.resetOtp => account.resetOtp \in done' \cup over' \cup undone' \cup {0},
         account'.password \in vouched' \cup {account.password}, Vouched',
         over \subseteq over', undone \subseteq undone', vouched \subseteq vouched', mailed' \subseteq 1 .. Len(codes),
         again' \subseteq rivals,
         \/ done' = done
         \/ /\ Holds(accountCall[r]) /\ done' = done \cup {accountCall[r].code}
            /\ accountCall[r].code \notin {account'.verifyOtp, account'.resetOtp}
  PROVE  AccountInv'
<1>1. Accounts!NoRequest \in Call /\ Accounts!NoRequest.st = "idle"
  BY DEF Accounts!NoRequest, Accounts!NoAccount, Call, AccountRow
<1>2. codes' = codes /\ codes \in Seq(Code) /\ Len(codes) \in Nat /\ calls' \in Nat
  BY DEF AccountInv, AccountTyped
<1>3. accountCall' = [accountCall EXCEPT ![r] = Accounts!NoRequest]
  BY DEF Accounts!Done
<1>4. HeldInOrder' /\ RivalsAreKnown' /\ accountCall' \in [Callers -> Call]
  <2>1. Len(codes) <= Len(codes') /\ (\A k \in 1 .. Len(codes) : codes'[k] = codes[k]) /\ codes' \in Seq(Code)
    BY <1>2
  <2>2. done' = done \/ (Holds(accountCall[r]) /\ done' = done \cup {accountCall[r].code})
    OBVIOUS
  <2> QED
    BY <1>1, <1>3, <2>1, <2>2, CallWrites
<1>5. done \subseteq done' /\ done' \subseteq 1 .. Len(codes)
  BY DEF AccountInv, AccountTyped, HeldInOrder
<1>6. AccountTyped'
  BY <1>2, <1>4, <1>5 DEF AccountInv, AccountTyped
<1>7. CodesInForce'
  BY <1>2 DEF AccountInv, CodesInForce
<1>8. LastCodes'
  <2> SUFFICES ASSUME NEW k \in 1 .. Len(codes), k \notin done' \cup over' \cup undone',
                      \A j \in 1 .. Len(codes) : codes[j].kind = codes[k].kind => j <= k
               PROVE  k = InForce(account', codes[k].kind)
    BY <1>2 DEF LastCodes
  <2>1. k = InForce(account, codes[k].kind)
    BY <1>5 DEF AccountInv, LastCodes
  <2>2. k # 0
    OBVIOUS
  <2> QED
    BY <2>1, <2>2 DEF InForce
<1> QED
  BY <1>4, <1>6, <1>7, <1>8 DEF AccountInv

LEMMA RegisterKeeps == ASSUME AccountInv, NEW r \in Callers, Accounts!Register(r) PROVE AccountInv'
<1> DEFINE seen == accountCall[r].seen
           password0 == accountCall[r].password
<1>1. account \in AccountRow /\ password0 \in Nat /\ Len(codes) \in Nat
      /\ UNCHANGED <<mailed, over, calls, done, again, rivals, undone, vouched>>
  BY DEF AccountInv, AccountTyped, Call, Accounts!Register, Accounts!codeGhosts
<1>2. CASE ~seen.exists /\ account.exists
  <2>1. Accounts!Done(r) /\ UNCHANGED <<account, codes, raced>>
    BY <1>2 DEF Accounts!Register
  <2>2. /\ Vouched' /\ again' \subseteq rivals /\ mailed' \subseteq 1 .. Len(codes)
        /\ account'.password \in vouched' \cup {account.password}
    BY <1>1, <2>1 DEF AccountInv, AccountTyped, Vouched
  <2> QED
    BY <1>1, <2>1, <2>2, WriteKeeps
<1>3. CASE ~(~seen.exists /\ account.exists)
  <2>1. /\ account' = Accounts!Registered(account, password0) /\ Accounts!Store(r, "verify", password0)
        /\ raced' = (raced \/ account.verified)
    BY <1>3 DEF Accounts!Register
  <2>2. /\ account' \in AccountRow /\ InForce(account', "verify") = Len(codes) + 1
        /\ account'.resetOtp = account.resetOtp /\ account'.password = password0
        /\ account'.verified = account.verified
    <3> DEFINE m == Len(codes) + 1
    <3>1. account' = [account EXCEPT !.exists = TRUE, !.password = password0, !.verifyOtp = m]
      BY <2>1 DEF Accounts!Registered
    <3>2. m \in Nat /\ password0 \in Nat /\ account \in AccountRow
      BY <1>1
    <3> HIDE DEF m, password0
    <3>3. /\ account' \in AccountRow /\ account'.verifyOtp = m /\ account'.resetOtp = account.resetOtp
          /\ account'.password = password0 /\ account'.verified = account.verified
      BY <3>1, <3>2 DEF AccountRow
    <3> QED
      BY <3>3 DEF m, InForce
  <2>3. Vouched'
    BY <2>1, <2>2 DEF Vouched
  <2> QED
    BY <1>1, <2>1, <2>2, <2>3, StoreKeeps
<1> QED
  BY <1>2, <1>3

LEMMA ResendKeeps == ASSUME AccountInv, NEW r \in Callers, Accounts!Resend(r) PROVE AccountInv'
<1>1. /\ account \in AccountRow /\ Len(codes) \in Nat /\ Accounts!Store(r, "verify", account.password)
      /\ account' = [account EXCEPT !.verifyOtp = Len(codes) + 1]
      /\ UNCHANGED <<mailed, over, calls, done, again, rivals, undone, vouched, raced>>
  BY DEF AccountInv, AccountTyped, Accounts!Resend, Accounts!codeGhosts
<1>2. /\ account' \in AccountRow /\ InForce(account', "verify") = Len(codes) + 1 /\ account.password \in Nat
      /\ account'.resetOtp = account.resetOtp /\ account'.password = account.password
      /\ account'.verified = account.verified
  BY <1>1 DEF AccountRow, InForce
<1>3. Vouched'
  BY <1>1, <1>2 DEF AccountInv, Vouched
<1> QED
  BY <1>1, <1>2, <1>3, StoreKeeps

LEMMA ForgotKeeps == ASSUME AccountInv, NEW r \in Callers, Accounts!ForgotPassword(r) PROVE AccountInv'
<1>1. /\ account \in AccountRow /\ Len(codes) \in Nat /\ Accounts!Store(r, "reset", account.password)
      /\ account' = [account EXCEPT !.resetOtp = Len(codes) + 1]
      /\ UNCHANGED <<mailed, over, calls, done, again, rivals, undone, vouched, raced>>
  BY DEF AccountInv, AccountTyped, Accounts!ForgotPassword, Accounts!codeGhosts
<1>2. /\ account' \in AccountRow /\ InForce(account', "reset") = Len(codes) + 1 /\ account.password \in Nat
      /\ account'.verifyOtp = account.verifyOtp /\ account'.password = account.password
      /\ account'.verified = account.verified
  BY <1>1 DEF AccountRow, InForce
<1>3. Vouched'
  BY <1>1, <1>2 DEF AccountInv, Vouched
<1> QED
  BY <1>1, <1>2, <1>3, StoreKeeps

LEMMA VerifyKeeps == ASSUME AccountInv, NEW r \in Callers, Accounts!Verify(r) PROVE AccountInv'
<1> DEFINE k == accountCall[r].code
<1>1. /\ account \in AccountRow /\ account' = [account EXCEPT !.verified = TRUE, !.verifyOtp = 0]
      /\ accountCall[r].kind = "verify" /\ accountCall[r].st = "granted"
      /\ again' = again \cup ({k} \cap done) /\ done' = done \cup {k}
      /\ undone' = undone \cup ({account.verifyOtp} \ {0, k})
      /\ vouched' = vouched \cup {codes[k].password} /\ raced' = (raced \/ account.verifyOtp # k)
      /\ Accounts!Done(r) /\ UNCHANGED <<codes, mailed, over, calls, rivals>>
  BY DEF AccountInv, AccountTyped, Accounts!Verify, Accounts!Spend, Accounts!Granting
<1>2. /\ account' \in AccountRow /\ account'.verifyOtp = 0 /\ account'.resetOtp = account.resetOtp
      /\ account'.password = account.password
  BY <1>1 DEF AccountRow
<1>3. k \in 1 .. Len(codes) /\ codes[k].kind = "verify" /\ (k \in done => k \in rivals) /\ Holds(accountCall[r])
  BY <1>1 DEF AccountInv, HeldInOrder, Holds
<1>4. k # 0 /\ k # account.resetOtp
  BY <1>3 DEF AccountInv, CodesInForce
<1>5. Vouched'
  BY <1>1, <1>2, <1>4 DEF AccountInv, CodesInForce, Vouched
<1>6. again' \subseteq rivals /\ mailed' \subseteq 1 .. Len(codes)
  BY <1>1, <1>3 DEF AccountInv, AccountTyped
<1>7. /\ account.verifyOtp \in done' \cup over' \cup undone' \cup {0}
      /\ undone \subseteq undone' /\ vouched \subseteq vouched' /\ over \subseteq over'
      /\ UNCHANGED <<codes, rivals, calls>> /\ k \notin {account'.verifyOtp, account'.resetOtp}
  BY <1>1, <1>2, <1>4
<1> HIDE DEF k
<1> QED
  BY <1>1, <1>2, <1>3, <1>5, <1>6, <1>7, WriteKeeps DEF k

LEMMA ResetKeeps == ASSUME AccountInv, NEW r \in Callers, Accounts!ResetPassword(r) PROVE AccountInv'
<1> DEFINE k == accountCall[r].code
           password0 == accountCall[r].password
<1>1. /\ account \in AccountRow /\ account' = [account EXCEPT !.password = password0, !.resetOtp = 0]
      /\ accountCall[r].kind = "reset" /\ accountCall[r].st = "granted" /\ password0 \in Nat
      /\ again' = again \cup ({k} \cap done) /\ done' = done \cup {k}
      /\ undone' = undone \cup ({account.resetOtp} \ {0, k})
      /\ vouched' = vouched \cup {password0}
      /\ Accounts!Done(r) /\ UNCHANGED <<codes, mailed, over, calls, rivals, raced>>
  BY DEF AccountInv, AccountTyped, Call, Accounts!ResetPassword, Accounts!Reset, Accounts!Spend, Accounts!Granting
<1>2. /\ account' \in AccountRow /\ account'.resetOtp = 0 /\ account'.verifyOtp = account.verifyOtp
      /\ account'.password = password0
  BY <1>1 DEF AccountRow
<1>3. k \in 1 .. Len(codes) /\ codes[k].kind = "reset" /\ (k \in done => k \in rivals) /\ Holds(accountCall[r])
  BY <1>1 DEF AccountInv, HeldInOrder, Holds
<1>4. k # 0 /\ k # account.verifyOtp
  BY <1>3 DEF AccountInv, CodesInForce
<1>5. Vouched'
  BY <1>1, <1>2 DEF Vouched
<1>6. again' \subseteq rivals /\ mailed' \subseteq 1 .. Len(codes)
  BY <1>1, <1>3 DEF AccountInv, AccountTyped
<1>7. /\ account.resetOtp \in done' \cup over' \cup undone' \cup {0}
      /\ undone \subseteq undone' /\ vouched \subseteq vouched' /\ over \subseteq over'
      /\ UNCHANGED <<codes, rivals, calls>> /\ k \notin {account'.verifyOtp, account'.resetOtp}
      /\ account'.password \in vouched'
  BY <1>1, <1>2, <1>4
<1> HIDE DEF k, password0
<1> QED
  BY <1>1, <1>2, <1>3, <1>5, <1>6, <1>7, WriteKeeps DEF k

\* Calls that accept no code.
LEMMA OthersKeep ==
  ASSUME AccountInv, NEW r \in Callers,
         Accounts!Erase(r) \/ Accounts!ChangePassword(r) \/ Accounts!Link(r) \/ Accounts!Mail(r)
  PROVE  AccountInv'
<1>1. /\ account \in AccountRow /\ accountCall[r] \in Call /\ again \subseteq rivals /\ mailed \subseteq 1 .. Len(codes)
      /\ Vouched /\ accountCall[r].password \in Nat
  BY DEF AccountInv, AccountTyped, Call
<1>2. /\ UNCHANGED <<codes, rivals, calls>> /\ Accounts!Done(r) /\ again' \subseteq rivals /\ done' = done
      /\ over \subseteq over' /\ undone \subseteq undone' /\ vouched \subseteq vouched' /\ raced' = raced
  BY <1>1 DEF Accounts!Erase, Accounts!ChangePassword, Accounts!Link, Accounts!Mail, Accounts!codeGhosts
<1>3. CASE Accounts!Erase(r)
  <2>1. /\ accountCall[r].st = "expired" /\ account' = [account EXCEPT !.resetOtp = 0]
        /\ undone' = undone \cup ({account.resetOtp} \ {0, accountCall[r].seen.resetOtp})
        /\ UNCHANGED <<mailed, over, vouched>>
    BY <1>3 DEF Accounts!Erase
  <2>2. /\ account' \in AccountRow /\ account'.resetOtp = 0 /\ account'.verifyOtp = account.verifyOtp
        /\ account'.password = account.password /\ account'.verified = account.verified
    BY <1>1, <2>1 DEF AccountRow
  <2>3. accountCall[r].seen.resetOtp \in over
    BY <2>1 DEF AccountInv, HeldInOrder
  <2>4. account.resetOtp \in done' \cup over' \cup undone' \cup {0} /\ mailed' \subseteq 1 .. Len(codes)
    BY <1>1, <2>1, <2>3
  <2>5. Vouched'
    BY <1>1, <1>2, <2>1, <2>2 DEF Vouched
  <2> QED
    BY <1>2, <2>2, <2>4, <2>5, WriteKeeps
<1>4. CASE Accounts!ChangePassword(r)
  <2>1. /\ account' = [account EXCEPT !.password = accountCall[r].password]
        /\ vouched' = vouched \cup {accountCall[r].password} /\ mailed' = mailed
    BY <1>4 DEF Accounts!ChangePassword
  <2>2. /\ account' \in AccountRow /\ account'.resetOtp = account.resetOtp /\ account'.verifyOtp = account.verifyOtp
        /\ account'.password \in vouched'
    BY <1>1, <2>1 DEF AccountRow
  <2>3. Vouched' /\ mailed' \subseteq 1 .. Len(codes)
    BY <1>1, <2>1, <2>2 DEF Vouched
  <2> QED
    BY <1>2, <2>2, <2>3, WriteKeeps
<1>5. CASE Accounts!Link(r)
  <2>1. /\ account' = account \/ account' = [account EXCEPT !.exists = TRUE, !.local = FALSE]
        /\ vouched' = vouched /\ mailed' = mailed
    BY <1>5 DEF Accounts!Link
  <2>2. /\ account' \in AccountRow /\ account'.resetOtp = account.resetOtp /\ account'.verifyOtp = account.verifyOtp
        /\ account'.password = account.password /\ account'.verified = account.verified
    BY <1>1, <2>1 DEF AccountRow
  <2>3. Vouched' /\ mailed' \subseteq 1 .. Len(codes)
    BY <1>1, <1>2, <2>1, <2>2 DEF Vouched
  <2> QED
    BY <1>2, <2>2, <2>3, WriteKeeps
<1>6. CASE Accounts!Mail(r)
  <2>1. UNCHANGED <<account, vouched, raced>> /\ mailed' \subseteq mailed \cup {accountCall[r].code}
        /\ accountCall[r].st = "mailing"
    BY <1>6 DEF Accounts!Mail
  <2>2. accountCall[r].code \in 1 .. Len(codes)
    BY <2>1 DEF AccountInv, HeldInOrder
  <2>3. Vouched'
    BY <1>1, <2>1 DEF Vouched
  <2>4. account' \in AccountRow /\ mailed' \subseteq 1 .. Len(codes) /\ account'.password \in vouched' \cup {account.password}
    BY <1>1, <2>1, <2>2
  <2> QED
    BY <1>2, <2>1, <2>3, <2>4, WriteKeeps
<1> QED
  BY <1>3, <1>4, <1>5, <1>6

LEMMA AccountStep == AccountInv /\ [Accounts!Next]_(Accounts!accountVars) => AccountInv'
<1>1. ASSUME AccountInv, UNCHANGED <<account, accountCall, codes, mailed, calls, done, again, rivals, undone, vouched, raced>>,
             over \subseteq over'
      PROVE  AccountInv'
  BY <1>1 DEF AccountInv, AccountTyped, CodesInForce, HeldInOrder, RivalsAreKnown, LastCodes, Vouched
<1>2. AccountInv /\ UNCHANGED Accounts!accountVars => AccountInv'
  BY <1>1 DEF Accounts!accountVars
<1>3. ASSUME AccountInv, NEW k \in DOMAIN codes, Accounts!Expire(k) PROVE AccountInv'
  BY <1>1, <1>3 DEF Accounts!Expire, Accounts!codeGhosts
<1> QED
  BY <1>2, <1>3, AskKeeps, RegisterKeeps, ResendKeeps, ForgotKeeps, VerifyKeeps, ResetKeeps, OthersKeep
     DEF Accounts!Next

\* For any number of calls at once: a code is accepted once, unless two calls found it right
\* before either wrote, and the last one asked for is good until it is accepted, expires, or is
\* taken away by a call that had seen another.
THEOREM AccountCodes == Accounts!Spec => []CodesGoodOnce
<1>1. AccountInv => CodesGoodOnce
  <2> SUFFICES ASSUME AccountInv,
                      NEW k \in (Accounts!Newest("verify") \cup Accounts!Newest("reset")) \ (done \cup over \cup undone)
               PROVE  k \in {account.verifyOtp, account.resetOtp}
    BY DEF CodesGoodOnce, Accounts!CodesGoodOnce, AccountInv
  <2>1. DOMAIN codes = 1 .. Len(codes)
    BY DEF AccountInv, AccountTyped
  <2> QED
    BY <2>1 DEF AccountInv, LastCodes, InForce, Accounts!Newest
<1> QED
  BY <1>1, AccountInitial, AccountStep, PTL DEF Accounts!Spec

\* A confirmed account opens with a password its owner stands for, whatever registrations,
\* confirmations and changes meet, unless a registration and an acceptance missed each other.
THEOREM AccountPassword == Accounts!Spec => []VerifiedAsRegistered
<1>1. AccountInv => VerifiedAsRegistered
  BY DEF AccountInv, Vouched, VerifiedAsRegistered, Accounts!VerifiedAsRegistered
<1> QED
  BY <1>1, AccountInitial, AccountStep, PTL DEF Accounts!Spec

-----------------------------------------------------------------------------
(* The restoration of a backup *)

Slug == Seq({"a", "b"} \cup Nat)
SpaceMaps == UNION {[D -> Nat] : D \in SUBSET Nat}
BackupCall == [pc : {"idle", "next", "probe", "create", "attach", "done", "failed"}, base : Slug, n : Nat,
               map : SpaceMaps, item : Items \cup {"none"}]

BackupTyped ==
  /\ created \in Nat /\ DOMAIN spaces \subseteq 1 .. created /\ spaces \in [DOMAIN spaces -> Slug]
  /\ DOMAIN backup.spaces \subseteq Nat /\ \A s \in DOMAIN backup.spaces : backup.spaces[s] \in Slug
  /\ backup = [read |-> backup.read, spaces |-> backup.spaces, policies |-> backup.policies]
  /\ request \in [Backup!Requests -> BackupCall] /\ copied \subseteq Restores \X Items

PoliciesLive == \A x \in DOMAIN policy : policy[x] \in DOMAIN spaces \cup {0}

\* Where a copy belongs: in the teamspace that was made for the one of its original.
Placed(c, i) ==
  IF Backup!Source(i) \in DOMAIN c.map /\ c.map[Backup!Source(i)] \in DOMAIN spaces
  THEN c.map[Backup!Source(i)] ELSE 0

Uncreated(c) == DOMAIN backup.spaces \ DOMAIN c.map

\* The copy of i is where it belongs, or is about to be put there, or somebody has moved it.
Settled(r, c, i) ==
  \/ c.pc = "attach" /\ c.item = i
  \/ <<r, i>> \in moved
  \/ <<r, i>> \in DOMAIN policy /\ policy[<<r, i>>] = Placed(c, i)

\* A restore creates teamspaces, then copies, each where it belongs.
RestoreInOrder(r, c) ==
  /\ IF c.pc = "idle" THEN DOMAIN c.map = {} /\ \A i \in Items : <<r, i>> \notin copied
     ELSE Backup!Exported
  /\ DOMAIN c.map \subseteq DOMAIN backup.spaces
  /\ \A s \in DOMAIN c.map : c.map[s] \in 1 .. created
  /\ \A s, t \in DOMAIN c.map : c.map[s] = c.map[t] => s = t
  /\ c.pc \in {"probe", "create"} => Uncreated(c) # {}
  /\ c.pc \in {"attach", "done"} => Uncreated(c) = {}
  /\ c.pc = "attach" => c.item \in Items
  /\ c.pc = "done" => \A i \in Items : <<r, i>> \in copied
  /\ c.pc # "failed" => \A i \in Items : <<r, i>> \in copied => Uncreated(c) = {} /\ Settled(r, c, i)

\* No two restores made the same teamspace.
MapsApart ==
  \A r, q \in Restores : r # q =>
    \A s \in DOMAIN request[r].map, t \in DOMAIN request[q].map : request[r].map[s] # request[q].map[t]

BackupInv ==
  /\ BackupTyped /\ PoliciesLive /\ MapsApart
  /\ \A r \in Restores : RestoreInOrder(r, request[r])

LEMMA LeastIsIn == ASSUME NEW S \in SUBSET Nat, S # {} PROVE Backup!Least(S) \in S
<1> DEFINE Below == OpToRel(<, Nat)
<1>1. \E x \in S : \A y \in S : <<y, x>> \notin Below
  BY NatLessThanWellFounded, WFMin
<1>2. \A x, y \in Nat : <<y, x>> \in Below <=> y < x
  BY DEF OpToRel
<1> HIDE DEF Below
<1>3. \E x \in S : \A y \in S : x <= y
  <2>1. PICK x \in S : \A y \in S : <<y, x>> \notin Below
    BY <1>1
  <2>2. \A y \in S : ~(y < x)
    BY <1>2, <2>1
  <2>3. \A y \in S : x <= y
    BY <2>2
  <2> QED
    BY <2>3
<1> QED
  BY <1>3 DEF Backup!Least

LEMMA MapsAre ==
  /\ \A f \in SpaceMaps : DOMAIN f \subseteq Nat /\ \A s \in DOMAIN f : f[s] \in Nat
  /\ \A D \in SUBSET Nat : [D -> Nat] \subseteq SpaceMaps
  /\ Backup!Empty \in SpaceMaps /\ DOMAIN Backup!Empty = {}
<1>1. \A D \in SUBSET Nat : [D -> Nat] \subseteq SpaceMaps
  BY DEF SpaceMaps
<1>2. Backup!Empty \in [{} -> Nat] /\ DOMAIN Backup!Empty = {} /\ {} \in SUBSET Nat
  BY DEF Backup!Empty
<1>3. Backup!Empty \in SpaceMaps
  BY <1>1, <1>2
<1>4. ASSUME NEW f \in SpaceMaps PROVE DOMAIN f \subseteq Nat /\ \A s \in DOMAIN f : f[s] \in Nat
  <2>1. PICK D \in SUBSET Nat : f \in [D -> Nat]
    BY <1>4 DEF SpaceMaps
  <2> QED
    BY <2>1
<1> QED
  BY <1>1, <1>2, <1>3, <1>4

LEMMA SlugsAre == <<"a">> \in Slug /\ <<"b">> \in Slug /\ <<>> \in Slug
<1>1. "a" \in {"a", "b"} \cup Nat /\ "b" \in {"a", "b"} \cup Nat
  OBVIOUS
<1> HIDE DEF Slug
<1> QED
  BY <1>1, SMT DEF Slug

LEMMA IdleIsCall ==
  /\ Backup!Idle \in BackupCall /\ [Backup!Idle EXCEPT !.pc = "failed"] \in BackupCall
  /\ DOMAIN Backup!Idle.map = {} /\ Backup!Idle.pc = "idle"
  /\ [Backup!Idle EXCEPT !.pc = "failed"].pc = "failed" /\ [Backup!Idle EXCEPT !.pc = "failed"].map = Backup!Idle.map
BY MapsAre, SlugsAre DEF Backup!Idle, BackupCall

LEMMA BackupInitial == Backup!Init => BackupInv
<1> SUFFICES ASSUME Backup!Init PROVE BackupInv
  OBVIOUS
<1>1. created = 2 /\ DOMAIN spaces = {1, 2} /\ spaces \in [{1, 2} -> Slug]
  <2>1. spaces = [s \in {1, 2} |-> <<IF s = 1 THEN "a" ELSE "b">>] /\ created = 2
    BY DEF Backup!Init
  <2>2. spaces[1] = <<"a">> /\ spaces[2] = <<"b">>
    BY <2>1
  <2> QED
    BY <2>1, <2>2, SlugsAre
<1>2. /\ backup = [read |-> {}, spaces |-> Backup!Empty, policies |-> Backup!Empty]
      /\ request = [p \in Backup!Requests |-> Backup!Idle]
  BY DEF Backup!Init
<1>3. BackupTyped
  BY <1>1, <1>2, MapsAre, IdleIsCall DEF BackupTyped, Backup!Init
<1>4. PICK shared \in SUBSET Items : policy \in [shared -> 0 .. 2]
  BY DEF Backup!Init
<1>5. PoliciesLive /\ copied = {}
  BY <1>1, <1>4 DEF PoliciesLive, Backup!Init
<1>6. \A r \in Restores : request[r] = Backup!Idle
  BY <1>2 DEF Backup!Requests
<1>7. MapsApart
  BY <1>6, IdleIsCall DEF MapsApart
<1>8. \A r \in Restores : RestoreInOrder(r, request[r])
  BY <1>5, <1>6, IdleIsCall DEF RestoreInOrder
<1> QED
  BY <1>3, <1>5, <1>7, <1>8 DEF BackupInv

\* A request moves on and nothing else changes; a restore keeps its teamspaces, or fails.
LEMMA RequestMoves ==
  ASSUME BackupInv, NEW p \in Backup!Requests, NEW new \in BackupCall, request' = [request EXCEPT ![p] = new],
         UNCHANGED <<spaces, created, policy, backup, copied, moved>>, p \in Restores => RestoreInOrder(p, new),
         new.map = request[p].map \/ DOMAIN new.map = {}
  PROVE  BackupInv'
<1>1. BackupTyped' /\ PoliciesLive'
  BY DEF BackupInv, BackupTyped, PoliciesLive
<1>2. \A r \in Restores : request'[r] = IF r = p THEN new ELSE request[r]
  BY DEF BackupInv, BackupTyped, Backup!Requests
<1>3. MapsApart'
  <2> SUFFICES ASSUME NEW r \in Restores, NEW q \in Restores, r # q,
                      NEW s \in DOMAIN request'[r].map, NEW t \in DOMAIN request'[q].map
               PROVE  request'[r].map[s] # request'[q].map[t]
    BY DEF MapsApart
  <2>1. request'[r].map = request[r].map /\ request'[q].map = request[q].map
    BY <1>2
  <2> QED
    BY <2>1 DEF BackupInv, MapsApart
<1>4. ASSUME NEW r \in Restores PROVE RestoreInOrder(r, request[r])' <=> RestoreInOrder(r, request'[r])
  BY DEF RestoreInOrder, Settled, Uncreated, Placed, Backup!Exported, Backup!Source
<1>5. \A r \in Restores : RestoreInOrder(r, request[r])'
  BY <1>2, <1>4 DEF BackupInv
<1> QED
  BY <1>1, <1>3, <1>5 DEF BackupInv

LEMMA RequestFails ==
  ASSUME BackupInv, NEW p \in Backup!Requests, Backup!Fails(p), UNCHANGED <<spaces, created, policy, backup, copied, moved>>,
         request[p].pc # "idle"
  PROVE  BackupInv'
<1>1. p \in Restores => RestoreInOrder(p, [Backup!Idle EXCEPT !.pc = "failed"])
  BY IdleIsCall DEF BackupInv, RestoreInOrder
<1>2. request' = [request EXCEPT ![p] = [Backup!Idle EXCEPT !.pc = "failed"]]
  BY DEF Backup!Fails
<1> QED
  BY <1>1, <1>2, IdleIsCall, RequestMoves

\* The steps that only move a request on.
LEMMA MovesKeep ==
  ASSUME BackupInv,
         \/ Backup!StartCreate \/ \E p \in Backup!Requests : Backup!Probe(p)
         \/ \E r \in Restores : Backup!Start(r) \/ Backup!NextSpace(r) \/ Backup!Finish(r)
  PROVE  BackupInv'
<1>0. request \in [Backup!Requests -> BackupCall] /\ Restores \subseteq Backup!Requests /\ Creator \in Backup!Requests
  BY DEF BackupInv, BackupTyped, Backup!Requests
<1>1. CASE Backup!StartCreate
  <2> DEFINE new == [request[Creator] EXCEPT !.pc = "probe", !.base = <<"a">>]
  <2>1. request[Creator] \in BackupCall /\ <<"a">> \in Slug
    BY <1>0, SlugsAre
  <2>2. new \in BackupCall /\ new.map = request[Creator].map
    BY <2>1 DEF BackupCall
  <2>3. request' = [request EXCEPT ![Creator] = new] /\ UNCHANGED <<spaces, created, policy, backup, copied, moved>>
    BY <1>0, <1>1, <2>1 DEF Backup!StartCreate, BackupCall
  <2> HIDE DEF new
  <2> QED
    BY <1>0, <2>2, <2>3, BackupAssumption, RequestMoves
<1>2. ASSUME NEW p \in Backup!Requests, Backup!Probe(p) PROVE BackupInv'
  <2> DEFINE c == request[p]
             new == IF Backup!Taken(Backup!Candidate(p)) THEN [c EXCEPT !.n = @ + 1] ELSE [c EXCEPT !.pc = "create"]
  <2>1. c \in BackupCall /\ c.pc = "probe" /\ UNCHANGED <<spaces, created, policy, backup, copied, moved>>
    BY <1>0, <1>2 DEF Backup!Probe
  <2>2. new \in BackupCall /\ new.map = c.map /\ new.pc \in {"probe", "create"}
    BY <2>1 DEF BackupCall
  <2>3. request' = [request EXCEPT ![p] = new]
    BY <1>0, <1>2, <2>1 DEF Backup!Probe, BackupCall
  <2> HIDE DEF new
  <2>4. p \in Restores => RestoreInOrder(p, new)
    BY <2>1, <2>2 DEF BackupInv, RestoreInOrder, Settled, Uncreated, Placed
  <2> QED
    BY <2>1, <2>2, <2>3, <2>4, RequestMoves
<1>3. ASSUME NEW r \in Restores, Backup!Start(r) PROVE BackupInv'
  <2> DEFINE c == request[r]
             new == [c EXCEPT !.pc = "next"]
  <2>1. c \in BackupCall /\ c.pc = "idle" /\ Backup!Exported /\ UNCHANGED <<spaces, created, policy, backup, copied, moved>>
    BY <1>0, <1>3 DEF Backup!Start
  <2>2. new \in BackupCall /\ new.map = c.map /\ new.pc = "next"
    BY <2>1 DEF BackupCall
  <2>3. request' = [request EXCEPT ![r] = new]
    BY <1>0, <1>3 DEF Backup!Start
  <2> HIDE DEF new
  <2>4. RestoreInOrder(r, new)
    BY <2>1, <2>2 DEF BackupInv, RestoreInOrder, Settled, Uncreated, Placed
  <2> QED
    BY <1>0, <2>1, <2>2, <2>3, <2>4, RequestMoves
<1>4. ASSUME NEW r \in Restores, Backup!NextSpace(r) PROVE BackupInv'
  <2> DEFINE c == request[r]
             slug == backup.spaces[Backup!Least(Backup!SpacesLeft(r))]
             new == [c EXCEPT !.pc = "probe", !.n = 1, !.base = slug]
  <2>1. c \in BackupCall /\ c.pc = "next" /\ Uncreated(c) # {} /\ UNCHANGED <<spaces, created, policy, backup, copied, moved>>
    BY <1>0, <1>4 DEF Backup!NextSpace, Backup!SpacesLeft, Uncreated
  <2>2. slug \in Slug
    <3>1. Backup!Least(Uncreated(c)) \in Uncreated(c)
      BY <2>1, LeastIsIn DEF BackupInv, BackupTyped, Uncreated
    <3> QED
      BY <3>1 DEF BackupInv, BackupTyped, Backup!SpacesLeft, Uncreated
  <2>3. request' = [request EXCEPT ![r].pc = "probe", ![r].n = 1, ![r].base = slug]
    BY <1>4 DEF Backup!NextSpace
  <2> HIDE DEF slug
  <2>4. new \in BackupCall /\ new.map = c.map /\ new.pc = "probe"
    BY <2>1, <2>2 DEF BackupCall
  <2>5. request' = [request EXCEPT ![r] = new]
    BY <1>0, <2>1, <2>3 DEF BackupCall
  <2> HIDE DEF new
  <2>6. RestoreInOrder(r, new)
    BY <2>1, <2>4 DEF BackupInv, RestoreInOrder, Settled, Uncreated, Placed
  <2> QED
    BY <1>0, <2>1, <2>4, <2>5, <2>6, RequestMoves
<1>5. ASSUME NEW r \in Restores, Backup!Finish(r) PROVE BackupInv'
  <2> DEFINE c == request[r]
             new == [c EXCEPT !.pc = "done"]
  <2>1. /\ c \in BackupCall /\ c.pc = "next" /\ Uncreated(c) = {} /\ \A i \in Items : <<r, i>> \in copied
        /\ UNCHANGED <<spaces, created, policy, backup, copied, moved>>
    BY <1>0, <1>5 DEF Backup!Finish, Backup!SpacesLeft, Backup!ItemsLeft, Uncreated
  <2>2. new \in BackupCall /\ new.map = c.map /\ new.pc = "done"
    BY <2>1 DEF BackupCall
  <2>3. request' = [request EXCEPT ![r] = new]
    BY <1>0, <1>5 DEF Backup!Finish
  <2> HIDE DEF new
  <2>4. RestoreInOrder(r, new)
    BY <2>1, <2>2 DEF BackupInv, RestoreInOrder, Settled, Uncreated, Placed
  <2> QED
    BY <1>0, <2>1, <2>2, <2>3, <2>4, RequestMoves
<1> QED
  BY <1>1, <1>2, <1>3, <1>4, <1>5

\* A teamspace is created, or its slug was taken since.
LEMMA CreateSpaceKeeps ==
  ASSUME BackupInv, NEW p \in Backup!Requests, Backup!CreateSpace(p) PROVE BackupInv'
<1> DEFINE c == request[p]
           slug == Backup!Candidate(p)
<1>0. c \in BackupCall /\ c.pc = "create" /\ UNCHANGED <<policy, backup, copied, moved>> /\ created \in Nat
      /\ DOMAIN spaces \subseteq 1 .. created /\ request \in [Backup!Requests -> BackupCall]
  BY DEF Backup!CreateSpace, BackupInv, BackupTyped
<1>1. CASE Backup!Taken(slug)
  <2>1. Backup!Fails(p) /\ UNCHANGED <<spaces, created, policy, backup, copied, moved>>
    BY <1>0, <1>1 DEF Backup!CreateSpace
  <2> QED
    BY <1>0, <2>1, RequestFails
<1>2. CASE ~Backup!Taken(slug)
  <2>1. slug \in Slug
    BY <1>0, SlugsAre DEF Backup!Candidate, BackupCall, Slug
  <2>2. /\ created' = created + 1
        /\ spaces' = [s \in DOMAIN spaces \cup {created'} |-> IF s = created' THEN slug ELSE spaces[s]]
    BY <1>2 DEF Backup!CreateSpace, Backup!Live
  <2> HIDE DEF slug
  <2>3. /\ DOMAIN spaces' = DOMAIN spaces \cup {created + 1} /\ DOMAIN spaces' \subseteq 1 .. created'
        /\ spaces' \in [DOMAIN spaces' -> Slug]
    BY <1>0, <2>1, <2>2 DEF BackupInv, BackupTyped
  <2>4. PoliciesLive'
    BY <1>0, <2>3 DEF BackupInv, PoliciesLive
  <2>5. ASSUME NEW q \in Restores, NEW d, RestoreInOrder(q, d) PROVE RestoreInOrder(q, d)'
    <3>1. \A s \in DOMAIN d.map : d.map[s] \in 1 .. created' /\ (d.map[s] \in DOMAIN spaces' <=> d.map[s] \in DOMAIN spaces)
      BY <1>0, <2>2, <2>3, <2>5 DEF RestoreInOrder
    <3>2. \A i \in Items : Placed(d, i)' = Placed(d, i)
      BY <1>0, <3>1 DEF Placed, Backup!Source
    <3> QED
      BY <1>0, <2>5, <3>1, <3>2 DEF RestoreInOrder, Settled, Uncreated, Backup!Exported
  <2>6. CASE p \notin Restores
    <3>1. request' = [request EXCEPT ![p] = Backup!Idle]
      BY <1>2, <2>6 DEF Backup!CreateSpace, Backup!Requests, slug
    <3>2. \A q \in Restores : request'[q] = request[q]
      BY <1>0, <2>6, <3>1 DEF Backup!Requests
    <3>3. BackupTyped'
      BY <1>0, <2>2, <2>3, <3>1, IdleIsCall DEF BackupInv, BackupTyped
    <3>4. MapsApart'
      BY <3>2 DEF BackupInv, MapsApart
    <3>5. ASSUME NEW q \in Restores PROVE RestoreInOrder(q, request[q])'
      <4>1. PICK d : d = request[q]
        OBVIOUS
      <4>2. RestoreInOrder(q, d)'
        BY <2>5, <4>1 DEF BackupInv
      <4>3. d = request'[q]
        BY <3>2, <4>1
      <4> QED
        BY <4>2, <4>3 DEF RestoreInOrder, Settled, Uncreated, Placed, Backup!Source, Backup!Exported
    <3> QED
      BY <2>4, <3>3, <3>4, <3>5 DEF BackupInv
  <2>7. CASE p \in Restores
    <3> DEFINE source == Backup!Least(Backup!SpacesLeft(p))
               D == DOMAIN c.map \cup {source}
               map == [s \in D |-> IF s = source THEN created' ELSE c.map[s]]
               new == [c EXCEPT !.pc = "next", !.map = map]
    <3>1. RestoreInOrder(p, c) /\ Uncreated(c) # {}
      BY <1>0, <2>7 DEF BackupInv, RestoreInOrder
    <3>2. source \in Uncreated(c) /\ source \in Nat
      <4>1. Uncreated(c) \in SUBSET Nat /\ Backup!SpacesLeft(p) = Uncreated(c)
        BY DEF BackupInv, BackupTyped, Uncreated, Backup!SpacesLeft
      <4> QED
        BY <3>1, <4>1, LeastIsIn
    <3>3. request' = [request EXCEPT ![p].pc = "next", ![p].map =
                        [s \in DOMAIN @ \cup {source} |-> IF s = source THEN created' ELSE @[s]]]
      BY <1>2, <2>7, BackupAssumption DEF Backup!CreateSpace, slug
    <3> HIDE DEF source
    <3>4. map \in SpaceMaps
      <4>1. c.map \in SpaceMaps
        BY <1>0 DEF BackupCall
      <4>2. D \in SUBSET Nat /\ \A s \in D : map[s] \in Nat
        BY <1>0, <2>2, <3>2, <4>1, MapsAre
      <4>3. map \in [D -> Nat]
        BY <4>2
      <4> HIDE DEF map, D
      <4> QED
        BY <4>2, <4>3, MapsAre
    <3>5. DOMAIN map = D /\ map[source] = created + 1 /\ \A s \in DOMAIN c.map : s # source /\ map[s] = c.map[s]
      BY <2>2, <3>2 DEF Uncreated
    <3>6. request' = [request EXCEPT ![p] = [request[p] EXCEPT !.pc = "next", !.map = map]]
      BY <1>0, <3>3 DEF BackupCall
    <3> HIDE DEF map
    <3>7. new \in BackupCall /\ new.pc = "next" /\ new.map = map
      BY <1>0, <3>4 DEF BackupCall
    <3>8. request' = [request EXCEPT ![p] = new]
      BY <3>6
    <3> HIDE DEF new
    <3>9. request' \in [Backup!Requests -> BackupCall] /\ \A q \in Restores : request'[q] = IF q = p THEN new ELSE request[q]
      BY <1>0, <3>7, <3>8 DEF Backup!Requests
    <3>10. BackupTyped'
      BY <1>0, <2>2, <2>3, <3>9 DEF BackupInv, BackupTyped
    <3>11. \A q \in Restores : \A t \in DOMAIN request[q].map : request[q].map[t] \in 1 .. created
      BY DEF BackupInv, RestoreInOrder
    <3>12. MapsApart'
      <4> SUFFICES ASSUME NEW r \in Restores, NEW q \in Restores, r # q,
                          NEW s \in DOMAIN request'[r].map, NEW t \in DOMAIN request'[q].map
                   PROVE  request'[r].map[s] # request'[q].map[t]
        BY DEF MapsApart
      <4>1. CASE r # p /\ q # p
        BY <3>9, <4>1 DEF BackupInv, MapsApart
      <4>2. CASE r = p
        <5>1. t \in DOMAIN request[q].map /\ request'[q].map[t] = request[q].map[t] /\ request[q].map[t] \in 1 .. created
          BY <3>9, <3>11, <4>2
        <5>2. request'[r].map[s] = created + 1 \/ (s \in DOMAIN c.map /\ request'[r].map[s] = c.map[s])
          BY <3>5, <3>7, <3>9, <4>2
        <5> QED
          BY <1>0, <4>2, <5>1, <5>2 DEF BackupInv, MapsApart
      <4>3. CASE q = p
        <5>1. s \in DOMAIN request[r].map /\ request'[r].map[s] = request[r].map[s] /\ request[r].map[s] \in 1 .. created
          BY <3>9, <3>11, <4>3
        <5>2. request'[q].map[t] = created + 1 \/ (t \in DOMAIN c.map /\ request'[q].map[t] = c.map[t])
          BY <3>5, <3>7, <3>9, <4>3
        <5> QED
          BY <1>0, <4>3, <5>1, <5>2 DEF BackupInv, MapsApart
      <4> QED
        BY <4>1, <4>2, <4>3
    <3>13. ASSUME NEW d, d = new PROVE RestoreInOrder(p, d)'
      <4>0. d.pc = "next" /\ d.map = map
        BY <3>7, <3>13
      <4>1. \A i \in Items : <<p, i>> \notin copied
        BY <1>0, <3>1 DEF RestoreInOrder
      <4>2. DOMAIN d.map \subseteq DOMAIN backup.spaces
        BY <3>1, <3>2, <3>5, <4>0 DEF RestoreInOrder, Uncreated
      <4>3. \A s \in DOMAIN d.map : d.map[s] \in 1 .. created'
        BY <1>0, <2>2, <3>1, <3>5, <4>0 DEF RestoreInOrder
      <4>4. \A s, t \in DOMAIN d.map : d.map[s] = d.map[t] => s = t
        BY <1>0, <3>1, <3>5, <4>0 DEF RestoreInOrder
      <4>5. Backup!Exported'
        BY <1>0, <3>1 DEF RestoreInOrder, Backup!Exported
      <4> QED
        BY <1>0, <4>0, <4>1, <4>2, <4>3, <4>4, <4>5 DEF RestoreInOrder
    <3>14. ASSUME NEW q \in Restores PROVE RestoreInOrder(q, request[q])'
      <4>1. PICK d : d = IF q = p THEN new ELSE request[q]
        OBVIOUS
      <4>2. RestoreInOrder(q, d)'
        BY <2>5, <3>13, <4>1 DEF BackupInv
      <4>3. d = request'[q]
        BY <3>9, <4>1
      <4> QED
        BY <4>2, <4>3 DEF RestoreInOrder, Settled, Uncreated, Placed, Backup!Source, Backup!Exported
    <3> QED
      BY <2>4, <3>10, <3>12, <3>14 DEF BackupInv
  <2> QED
    BY <2>6, <2>7
<1> QED
  BY <1>1, <1>2

\* Only policies change, all of them with teamspaces that are there.
LEMMA PoliciesChange ==
  ASSUME BackupInv, UNCHANGED <<created, backup>>, BackupTyped', PoliciesLive',
         \A q \in Restores : request'[q].map = request[q].map \/ DOMAIN request'[q].map = {},
         \A q \in Restores : RestoreInOrder(q, request[q])'
  PROVE  BackupInv'
BY DEF BackupInv, MapsApart

LEMMA CopyKeeps ==
  ASSUME BackupInv, NEW r \in Restores, NEW i \in Items, Backup!CopyItem(r, i) PROVE BackupInv'
<1> DEFINE c == request[r]
           new == [c EXCEPT !.pc = "attach", !.item = i]
<1>1. /\ c \in BackupCall /\ c.pc = "next" /\ Uncreated(c) = {} /\ copied' = copied \cup {<<r, i>>}
      /\ UNCHANGED <<spaces, created, policy, backup, moved>>
      /\ request \in [Backup!Requests -> BackupCall] /\ Restores \subseteq Backup!Requests
      /\ RestoreInOrder(r, c)
  BY DEF Backup!CopyItem, Backup!Requests, Backup!SpacesLeft, Uncreated, BackupInv, BackupTyped
<1>2. new \in BackupCall /\ new.map = c.map /\ new.pc = "attach" /\ new.item = i
  BY <1>1 DEF BackupCall
<1>3. request' = [request EXCEPT ![r] = new]
  BY <1>1 DEF Backup!CopyItem, BackupCall
<1> HIDE DEF new
<1>4. /\ request' \in [Backup!Requests -> BackupCall]
      /\ \A q \in Restores : request'[q] = IF q = r THEN new ELSE request[q]
  BY <1>1, <1>2, <1>3
<1>5. BackupTyped' /\ PoliciesLive'
  BY <1>1, <1>4 DEF BackupInv, BackupTyped, PoliciesLive
<1>6. ASSUME NEW q \in Restores PROVE RestoreInOrder(q, request[q])'
  <2>1. RestoreInOrder(q, request[q])
    BY DEF BackupInv
  <2>2. CASE q # r
    <3>1. \A j \in Items : <<q, j>> \in copied' <=> <<q, j>> \in copied
      BY <1>1, <2>2
    <3> QED
      BY <1>1, <1>4, <2>1, <2>2, <3>1 DEF RestoreInOrder, Settled, Uncreated, Placed, Backup!Exported, Backup!Source
  <2>3. CASE q = r
    <3>1. request'[q] = new
      BY <1>4, <2>3
    <3>2. \A j \in Items : <<r, j>> \in copied' => <<r, j>> \in copied \/ j = i
      BY <1>1
    <3>3. (\A j \in Items : Placed(request[q], j)' = Placed(c, j)) /\ Uncreated(request[q])' = {}
      BY <1>1, <1>2, <3>1 DEF Placed, Uncreated, Backup!Source
    <3> QED
      BY <1>1, <1>2, <2>3, <3>1, <3>2, <3>3 DEF RestoreInOrder, Settled, Backup!Exported
  <2> QED
    BY <2>2, <2>3
<1> QED
  BY <1>1, <1>2, <1>4, <1>5, <1>6, PoliciesChange

LEMMA AttachKeeps == ASSUME BackupInv, NEW r \in Restores, Backup!Attach(r) PROVE BackupInv'
<1> DEFINE c == request[r]
           i == c.item
           target == Backup!Target(r, i)
           new == [c EXCEPT !.pc = "next", !.item = "none"]
<1>0. /\ c \in BackupCall /\ c.pc = "attach" /\ UNCHANGED <<spaces, created, backup, copied>>
      /\ request \in [Backup!Requests -> BackupCall] /\ Restores \subseteq Backup!Requests
      /\ RestoreInOrder(r, c) /\ DOMAIN spaces \subseteq 1 .. created /\ created \in Nat
  BY DEF Backup!Attach, Backup!Requests, BackupInv, BackupTyped
<1>1. CASE ~(target \in DOMAIN spaces \cup {0})
  <2>1. Backup!Fails(r) /\ UNCHANGED <<spaces, created, policy, backup, copied, moved>>
    BY <1>0, <1>1 DEF Backup!Attach, Backup!Live
  <2> QED
    BY <1>0, <2>1, RequestFails
<1>2. CASE target \in DOMAIN spaces \cup {0}
  <2>1. /\ policy' = [x \in DOMAIN policy \cup {<<r, i>>} |-> IF x = <<r, i>> THEN target ELSE policy[x]]
        /\ request' = [request EXCEPT ![r].pc = "next", ![r].item = "none"]
        /\ moved' = moved \ {<<r, i>>}
    BY <1>2 DEF Backup!Attach, Backup!Live
  <2>2. target = Placed(c, i)
    BY <1>0, <1>2 DEF Placed, Backup!Target, RestoreInOrder
  <2> HIDE DEF target
  <2>3. new \in BackupCall /\ new.pc = "next" /\ new.map = c.map
    BY <1>0 DEF BackupCall
  <2>4. request' = [request EXCEPT ![r] = new]
    BY <1>0, <2>1 DEF BackupCall
  <2> HIDE DEF new
  <2>5. /\ request' \in [Backup!Requests -> BackupCall]
        /\ \A q \in Restores : request'[q] = IF q = r THEN new ELSE request[q]
    BY <1>0, <2>3, <2>4
  <2>6. BackupTyped' /\ PoliciesLive'
    BY <1>0, <1>2, <2>1, <2>5 DEF BackupInv, BackupTyped, PoliciesLive
  <2>7. i \in Items /\ Uncreated(c) = {}
    BY <1>0 DEF RestoreInOrder
  <2>8. \A q \in Restores, j \in Items :
          /\ <<q, j>> \in DOMAIN policy' <=> <<q, j>> \in DOMAIN policy \/ (q = r /\ j = i)
          /\ <<q, j>> \in DOMAIN policy' => policy'[<<q, j>>] = IF q = r /\ j = i THEN target ELSE policy[<<q, j>>]
          /\ ~(q = r /\ j = i) => (<<q, j>> \in moved' <=> <<q, j>> \in moved)
    BY <2>1
  <2>9. ASSUME NEW q \in Restores PROVE RestoreInOrder(q, request[q])'
    <3>1. RestoreInOrder(q, request[q])
      BY DEF BackupInv
    <3>2. CASE q # r
      BY <1>0, <2>5, <2>8, <3>1, <3>2 DEF RestoreInOrder, Settled, Uncreated, Placed, Backup!Exported, Backup!Source
    <3>3. CASE q = r
      <4>1. request'[q] = new
        BY <2>5, <3>3
      <4>2. ASSUME NEW j \in Items, <<r, j>> \in copied
            PROVE  <<r, j>> \in moved' \/ (<<r, j>> \in DOMAIN policy' /\ policy'[<<r, j>>] = Placed(c, j))
        <5>1. CASE j = i
          BY <2>2, <2>8, <5>1
        <5>2. CASE j # i
          <6>1. Settled(r, c, j)
            BY <1>0, <4>2 DEF RestoreInOrder
          <6> QED
            BY <2>8, <5>2, <6>1 DEF Settled
        <5> QED
          BY <5>1, <5>2
      <4>3. (\A j \in Items : Placed(request[q], j)' = Placed(c, j)) /\ Uncreated(request[q])' = {}
        BY <1>0, <2>3, <2>7, <4>1 DEF Placed, Uncreated, Backup!Source
      <4>4. \A j \in Items : <<r, j>> \in copied' => Settled(r, request[q], j)'
        BY <1>0, <4>2, <4>3 DEF Settled
      <4> QED
        BY <1>0, <2>3, <3>3, <4>1, <4>3, <4>4 DEF RestoreInOrder, Backup!Exported
    <3> QED
      BY <3>2, <3>3
  <2> QED
    BY <1>0, <2>3, <2>5, <2>6, <2>9, PoliciesChange
<1> QED
  BY <1>1, <1>2

\* Others write policies of resources and copies: a copy whose policy they write is moved.
LEMMA OthersMove ==
  ASSUME BackupInv, UNCHANGED <<spaces, created, backup, request, copied>>, PoliciesLive',
         \A q \in Restores, j \in Items :
           /\ <<q, j>> \in moved => <<q, j>> \in moved'
           /\ <<q, j>> \in copied /\ <<q, j>> \notin moved' =>
                /\ <<q, j>> \in DOMAIN policy' <=> <<q, j>> \in DOMAIN policy
                /\ <<q, j>> \in DOMAIN policy => policy'[<<q, j>>] = policy[<<q, j>>]
  PROVE  BackupInv'
<1>1. BackupTyped'
  BY DEF BackupInv, BackupTyped
<1>2. ASSUME NEW q \in Restores PROVE RestoreInOrder(q, request[q])'
  <2>1. RestoreInOrder(q, request[q])
    BY DEF BackupInv
  <2>2. /\ \A j \in Items : Placed(request[q], j)' = Placed(request[q], j)
        /\ Uncreated(request[q])' = Uncreated(request[q]) /\ (Backup!Exported' <=> Backup!Exported)
    BY DEF Uncreated, Placed, Backup!Source, Backup!Exported
  <2>3. ASSUME NEW j \in Items, <<q, j>> \in copied, Settled(q, request[q], j) PROVE Settled(q, request[q], j)'
    BY <2>2, <2>3 DEF Settled
  <2> QED
    BY <2>1, <2>2, <2>3 DEF RestoreInOrder
<1> QED
  BY <1>1, <1>2, PoliciesChange

LEMMA OtherActsKeep ==
  ASSUME BackupInv,
         \/ \E s \in DOMAIN spaces : Backup!Delete(s)
         \/ \E x \in Items \cup copied, s \in DOMAIN spaces \cup {0} : Backup!Assign(x, s)
         \/ \E x \in copied : Backup!Withdraw(x)
  PROVE  BackupInv'
<1>0. /\ created \in Nat /\ DOMAIN spaces \subseteq 1 .. created /\ PoliciesLive /\ BackupTyped
      /\ \A q \in Restores : RestoreInOrder(q, request[q])
  BY DEF BackupInv, BackupTyped
<1>1. ASSUME NEW s \in DOMAIN spaces, Backup!Delete(s) PROVE BackupInv'
  <2>1. /\ spaces' = [x \in DOMAIN spaces \ {s} |-> spaces[x]]
        /\ policy' = [x \in DOMAIN policy |-> IF policy[x] = s THEN 0 ELSE policy[x]]
        /\ UNCHANGED <<created, backup, request, copied, moved>>
    BY <1>1 DEF Backup!Delete, Backup!Restrict, Backup!Live
  <2>2. BackupTyped' /\ PoliciesLive'
    BY <1>0, <2>1 DEF BackupTyped, PoliciesLive
  <2>3. ASSUME NEW q \in Restores PROVE RestoreInOrder(q, request[q])'
    <3>1. \A i \in Items : <<q, i>> \in DOMAIN policy /\ policy[<<q, i>>] = Placed(request[q], i)
                             => policy'[<<q, i>>] = Placed(request[q], i)'
      BY <1>0, <2>1 DEF Placed, Backup!Source
    <3>2. DOMAIN policy' = DOMAIN policy /\ Uncreated(request[q])' = Uncreated(request[q])
      BY <2>1 DEF Uncreated
    <3>3. \A i \in Items : Settled(q, request[q], i) => Settled(q, request[q], i)'
      BY <2>1, <3>1, <3>2 DEF Settled
    <3> QED
      BY <1>0, <2>1, <3>2, <3>3 DEF RestoreInOrder, Backup!Exported
  <2> QED
    BY <2>1, <2>2, <2>3, PoliciesChange
<1>2. ASSUME NEW x \in Items \cup copied, NEW s \in DOMAIN spaces \cup {0}, Backup!Assign(x, s) PROVE BackupInv'
  <2>1. /\ policy' = [y \in DOMAIN policy \cup {x} |-> IF y = x THEN s ELSE policy[y]]
        /\ moved' = moved \cup ({x} \cap copied)
        /\ UNCHANGED <<spaces, created, backup, request, copied>>
    BY <1>2 DEF Backup!Assign
  <2>2. PoliciesLive'
    BY <1>0, <2>1 DEF PoliciesLive
  <2>3. ASSUME NEW q \in Restores, NEW j \in Items, <<q, j>> \in copied, <<q, j>> \notin moved'
        PROVE  /\ <<q, j>> \in DOMAIN policy' <=> <<q, j>> \in DOMAIN policy
               /\ <<q, j>> \in DOMAIN policy => policy'[<<q, j>>] = policy[<<q, j>>]
    <3>1. <<q, j>> # x
      BY <2>1, <2>3
    <3> QED
      BY <2>1, <3>1
  <2> QED
    BY <2>1, <2>2, <2>3, OthersMove
<1>3. ASSUME NEW x \in copied, Backup!Withdraw(x) PROVE BackupInv'
  <2>1. /\ policy' = [y \in DOMAIN policy \ {x} |-> policy[y]]
        /\ moved' = moved \cup {x}
        /\ UNCHANGED <<spaces, created, backup, request, copied>>
    BY <1>3 DEF Backup!Withdraw, Backup!Restrict
  <2>2. PoliciesLive'
    BY <1>0, <2>1 DEF PoliciesLive
  <2>3. ASSUME NEW q \in Restores, NEW j \in Items, <<q, j>> \notin moved'
        PROVE  /\ <<q, j>> \in DOMAIN policy' <=> <<q, j>> \in DOMAIN policy
               /\ <<q, j>> \in DOMAIN policy => policy'[<<q, j>>] = policy[<<q, j>>]
    BY <2>1, <2>3
  <2> QED
    BY <2>1, <2>2, <2>3, OthersMove
<1> QED
  BY <1>1, <1>2, <1>3

LEMMA ReadsKeep == BackupInv /\ (Backup!ReadSpaces \/ Backup!ReadPolicies) => BackupInv'
<1> SUFFICES ASSUME BackupInv, Backup!ReadSpaces \/ Backup!ReadPolicies PROVE BackupInv'
  OBVIOUS
<1>1. ~Backup!Exported /\ UNCHANGED <<spaces, created, policy, request, copied, moved>>
  BY DEF Backup!ReadSpaces, Backup!ReadPolicies, Backup!Exported
<1>2. \A r \in Restores : request[r].pc = "idle" /\ DOMAIN request[r].map = {} /\ \A i \in Items : <<r, i>> \notin copied
  BY <1>1 DEF BackupInv, RestoreInOrder
<1>3. /\ backup'.spaces = spaces \/ backup'.spaces = backup.spaces
      /\ backup' = [read |-> backup'.read, spaces |-> backup'.spaces, policies |-> backup'.policies]
  BY DEF Backup!ReadSpaces, Backup!ReadPolicies, BackupInv, BackupTyped
<1>4. BackupTyped'
  BY <1>1, <1>3 DEF BackupInv, BackupTyped
<1>5. \A r \in Restores : RestoreInOrder(r, request[r])'
  BY <1>1, <1>2 DEF RestoreInOrder
<1> QED
  BY <1>1, <1>4, <1>5 DEF BackupInv, PoliciesLive, MapsApart

LEMMA BackupStep == BackupInv /\ [Backup!Next]_(Backup!backupVars) => BackupInv'
<1>1. BackupInv /\ UNCHANGED Backup!backupVars => BackupInv'
  BY DEF Backup!backupVars, BackupInv, BackupTyped, PoliciesLive, MapsApart, RestoreInOrder, Settled,
     Uncreated, Placed, Backup!Exported, Backup!Source
<1>2. ASSUME BackupInv, NEW r \in Restores, Backup!Break(r) PROVE BackupInv'
  BY <1>2, RequestFails DEF Backup!Break, Backup!Requests
<1> QED
  BY <1>1, <1>2, MovesKeep, CreateSpaceKeeps, CopyKeeps, AttachKeeps, OtherActsKeep, ReadsKeep DEF Backup!Next, Backup!Live

\* For any number of restores, resources and teamspaces, whoever creates, deletes, assigns and
\* withdraws meanwhile: a restore that ends well has made a teamspace of its own for each in the
\* backup, and put a copy of each resource where its original was, there still unless somebody
\* has moved that copy.
THEOREM RestoresAreFaithful == Backup!Spec => []RestoreFaithful
<1>1. BackupInv => RestoreFaithful
  <2> SUFFICES ASSUME BackupInv PROVE RestoreFaithful
    OBVIOUS
  <2>1. \A x \in DOMAIN policy : policy[x] \in Backup!Live \cup {0}
    BY DEF BackupInv, PoliciesLive, Backup!Live
  <2>2. ASSUME NEW r \in Restores, request[r].pc = "done"
        PROVE  /\ DOMAIN request[r].map = DOMAIN backup.spaces /\ Backup!IsInjective(request[r].map)
               /\ \A q \in Restores \ {r} : Backup!Range(request[r].map) \cap Backup!Range(request[q].map) = {}
               /\ \A i \in Items : <<r, i>> \in copied
               /\ \A i \in Items : <<r, i>> \in moved \/
                    (<<r, i>> \in DOMAIN policy /\ policy[<<r, i>>] = Placed(request[r], i))
    <3>1. RestoreInOrder(r, request[r])
      BY DEF BackupInv
    <3>2. DOMAIN request[r].map = DOMAIN backup.spaces /\ Backup!IsInjective(request[r].map)
      BY <2>2, <3>1 DEF RestoreInOrder, Uncreated, Backup!IsInjective
    <3>3. \A q \in Restores \ {r} : Backup!Range(request[r].map) \cap Backup!Range(request[q].map) = {}
      BY DEF BackupInv, MapsApart, Backup!Range
    <3>4. \A i \in Items : <<r, i>> \in copied /\ Settled(r, request[r], i)
      BY <2>2, <3>1 DEF RestoreInOrder
    <3> QED
      BY <2>2, <3>2, <3>3, <3>4 DEF Settled
  <2> QED
    BY <2>1, <2>2 DEF RestoreFaithful, Backup!RestoreFaithful, Placed, Backup!Live
<1> QED
  BY <1>1, BackupInitial, BackupStep, PTL DEF Backup!Spec

-----------------------------------------------------------------------------
(* GridEditing *)

GridSave == [here : BOOLEAN, conn : Conns, changes : [Rows -> Nat], left : SUBSET Rows, busy : BOOLEAN]
GridTyped ==
  /\ conn \in Conns /\ pendingChanges \in [Rows -> Nat] /\ save \in [Saves -> GridSave]
  /\ stored \in [Conns -> [Rows -> Nat]] /\ latest \in [Conns -> [Rows -> Nat]]
  /\ edits \in Seq([row : Rows, conn : Conns]) /\ open \subseteq 1 .. Len(edits)

\* Edit e was typed on connection c, or the connection was switched under it.
TypedOn(e, c) == e # 0 => e \in 1 .. Len(edits) /\ (edits[e].conn = c \/ e \in carried)

EditsShown == \A e \in open : pendingChanges[edits[e].row] = e \/ e \in during \cup missed

\* What a save captured in a row is no newer than what is pending there.  A save that the grid
\* awaits is about to write every pending edit that is not stored, save those typed since.
\* A save that is alone has nothing older to write than what is stored.
SaveKnows(v) ==
  /\ v.here \/ v.left # {} => v.busy
  /\ \A r \in Rows :
       /\ TypedOn(v.changes[r], v.conn)
       /\ pendingChanges[r] # 0 => v.changes[r] <= pendingChanges[r]
       /\ v.here /\ pendingChanges[r] \in open =>
            pendingChanges[r] \in during \cup missed \/ (r \in v.left /\ pendingChanges[r] = v.changes[r])
       /\ ~overlapped /\ r \in v.left => \A c \in Conns : stored[c][r] <= v.changes[r]

RowsKnow ==
  \A r \in Rows :
    /\ TypedOn(pendingChanges[r], conn)
    /\ \A c \in Conns :
         /\ TypedOn(stored[c][r], c)
         /\ pendingChanges[r] # 0 => stored[c][r] <= pendingChanges[r]
         /\ ~overlapped => latest[c][r] = stored[c][r]

OneSaves == ~overlapped => \A s, q \in Saves : save[s].busy /\ save[q].busy => s = q

GridInv ==
  /\ GridTyped /\ EditsShown /\ RowsKnow /\ OneSaves
  /\ \A s \in Saves : SaveKnows(save[s])

LEMMA NothingSaved ==
  /\ GridEditing!Nothing \in [Rows -> Nat] /\ \A r \in Rows : GridEditing!Nothing[r] = 0
  /\ GridEditing!NoSave \in GridSave
  /\ GridEditing!NoSave.changes = GridEditing!Nothing
  /\ GridEditing!NoSave.left = {} /\ ~GridEditing!NoSave.here /\ ~GridEditing!NoSave.busy
BY ConnsAssumption DEF GridEditing!NoSave, GridEditing!Nothing, GridSave

LEMMA GridInitial == GridEditing!Init => GridInv
<1> SUFFICES ASSUME GridEditing!Init PROVE GridInv
  OBVIOUS
<1>1. GridTyped
  BY NothingSaved DEF GridEditing!Init, GridTyped
<1>2. EditsShown /\ RowsKnow /\ OneSaves
  BY NothingSaved DEF GridEditing!Init, EditsShown, RowsKnow, OneSaves, TypedOn
<1>3. \A s \in Saves : SaveKnows(save[s])
  BY NothingSaved DEF GridEditing!Init, SaveKnows, TypedOn
<1> QED
  BY <1>1, <1>2, <1>3 DEF GridInv

LEMMA Abandoned ==
  ASSUME NEW v \in GridSave
  PROVE  /\ [v EXCEPT !.here = FALSE] \in GridSave /\ [v EXCEPT !.here = FALSE].here = FALSE
         /\ [v EXCEPT !.here = FALSE].busy = v.busy /\ [v EXCEPT !.here = FALSE].left = v.left
         /\ [v EXCEPT !.here = FALSE].changes = v.changes /\ [v EXCEPT !.here = FALSE].conn = v.conn
BY DEF GridSave

\* A save that ends without a grid that awaits it, and steps that only the buttons see.
LEMMA GridQuiet ==
  ASSUME GridInv, UNCHANGED <<conn, pendingChanges, stored, latest, edits, open, during, carried, missed, overlapped>>,
         save' \in [Saves -> GridSave],
         \A s \in Saves : save'[s] \in {save[s], [save[s] EXCEPT !.here = FALSE], GridEditing!NoSave}
  PROVE  GridInv'
<1>1. GridTyped' /\ EditsShown' /\ RowsKnow'
  BY DEF GridInv, GridTyped, EditsShown, RowsKnow, TypedOn
<1>2. ASSUME NEW s \in Saves
      PROVE  \/ save'[s].busy = save[s].busy /\ save'[s].left = save[s].left
                /\ save'[s].changes = save[s].changes /\ save'[s].conn = save[s].conn /\ save'[s].here \in {FALSE, save[s].here}
             \/ save'[s] = GridEditing!NoSave
  BY DEF GridInv, GridTyped, GridSave
<1>3. OneSaves'
  BY <1>2, NothingSaved DEF GridInv, OneSaves
<1>4. ASSUME NEW s \in Saves PROVE SaveKnows(save[s])'
  <2>1. CASE save'[s] = GridEditing!NoSave
    BY <2>1, NothingSaved DEF SaveKnows, TypedOn, GridInv, GridTyped
  <2>2. CASE save'[s] # GridEditing!NoSave
    <3>1. save[s] \in GridSave /\ save'[s] \in GridSave /\ SaveKnows(save[s])
      BY DEF GridInv, GridTyped
    <3> QED
      BY <1>2, <2>2, <3>1 DEF SaveKnows, TypedOn, GridSave
  <2> QED
    BY <2>1, <2>2
<1> QED
  BY <1>1, <1>3, <1>4 DEF GridInv

LEMMA TypeKeeps == ASSUME GridInv, NEW r \in Rows, GridEditing!Type(r) PROVE GridInv'
<1> DEFINE row == [row |-> r, conn |-> conn]
<1>0. PICK e : e = Len(edits) + 1
  OBVIOUS
<1>1. /\ pendingChanges' = [pendingChanges EXCEPT ![r] = e]
      /\ edits' = Append(edits, row)
      /\ open' = (open \ {pendingChanges[r]}) \cup {e}
      /\ during' = IF \E s \in Saves : save[s].here THEN during \cup {e} ELSE during
      /\ UNCHANGED <<conn, save, stored, carried, missed, latest, overlapped>>
  BY <1>0 DEF GridEditing!Type, GridEditing!ghosts
<1>2. row \in [row : Rows, conn : Conns] /\ row.row = r /\ row.conn = conn
  BY DEF GridInv, GridTyped
<1> HIDE DEF row
<1>3. Len(edits) \in Nat /\ edits \in Seq([row : Rows, conn : Conns])
  BY LenProperties DEF GridInv, GridTyped
<1>4. /\ edits' \in Seq([row : Rows, conn : Conns]) /\ Len(edits') = e
      /\ edits'[e] = row /\ \A k \in 1 .. Len(edits) : edits'[k] = edits[k]
  BY <1>0, <1>1, <1>2, <1>3, AppendProperties
<1>5. e \in Nat /\ Len(edits) < e
  BY <1>0, <1>3
<1>6. GridTyped'
  <2>1. open' \subseteq 1 .. e
    <3>1. open' \subseteq open \cup {e} /\ open \subseteq 1 .. Len(edits)
      BY <1>1 DEF GridInv, GridTyped
    <3>2. e \in 1 .. e /\ 1 .. Len(edits) \subseteq 1 .. e
      BY <1>3, <1>5
    <3> QED
      BY <3>1, <3>2
  <2>2. pendingChanges' \in [Rows -> Nat]
    BY <1>1, <1>5 DEF GridInv, GridTyped
  <2> QED
    BY <1>1, <1>4, <2>1, <2>2 DEF GridInv, GridTyped
<1>7. \A k \in 1 .. Len(edits) : k \in 1 .. Len(edits') /\ k # e
  BY <1>3, <1>4, <1>5
<1>8. /\ pendingChanges'[r] = e /\ \A q \in Rows : q # r => pendingChanges'[q] = pendingChanges[q]
      /\ e \in 1 .. Len(edits') /\ edits'[e].row = r /\ edits'[e].conn = conn'
  BY <1>1, <1>2, <1>4, <1>5 DEF GridInv, GridTyped
<1>9. ASSUME NEW k, NEW c, TypedOn(k, c) PROVE TypedOn(k, c)' /\ (k = 0 \/ k < e)
  <2>1. CASE k = 0
    BY <2>1 DEF TypedOn
  <2>2. CASE k # 0
    <3>1. k \in 1 .. Len(edits) /\ (edits[k].conn = c \/ k \in carried)
      BY <1>9, <2>2 DEF TypedOn
    <3>2. edits'[k] = edits[k] /\ k \in 1 .. Len(edits') /\ carried' = carried
      BY <1>1, <1>4, <1>7, <3>1
    <3> QED
      BY <1>3, <1>5, <3>1, <3>2 DEF TypedOn
  <2> QED
    BY <2>1, <2>2
<1>10. EditsShown'
  <2>1. ASSUME NEW k \in open', k # e PROVE pendingChanges'[edits'[k].row] = k \/ k \in during' \cup missed'
    <3>1. k \in open /\ k # pendingChanges[r] /\ edits'[k] = edits[k] /\ edits[k] \in [row : Rows, conn : Conns]
      BY <1>1, <1>3, <1>4, <2>1, ElementOfSeq DEF GridInv, GridTyped
    <3> QED
      BY <1>1, <1>8, <3>1 DEF GridInv, EditsShown
  <2> QED
    BY <1>8, <2>1 DEF EditsShown
<1>11. RowsKnow'
  <2>1. ASSUME NEW c \in Conns, NEW q \in Rows PROVE stored[c][q] \in Nat /\ stored[c][q] <= e
    <3>1. stored[c][q] \in Nat /\ TypedOn(stored[c][q], c)
      BY DEF GridInv, GridTyped, RowsKnow
    <3> QED
      BY <1>5, <1>9, <3>1
  <2>2. TypedOn(e, conn)'
    BY <1>8 DEF TypedOn
  <2> QED
    BY <1>1, <1>8, <1>9, <2>1, <2>2 DEF GridInv, RowsKnow
<1>12. ASSUME NEW s \in Saves PROVE SaveKnows(save[s])'
  <2>1. save[s] \in GridSave /\ SaveKnows(save[s]) /\ save' = save
    BY <1>1 DEF GridInv, GridTyped
  <2>2. \A q \in Rows : save[s].changes[q] \in Nat /\ save[s].changes[q] <= e
    BY <1>5, <1>9, <2>1 DEF SaveKnows, GridSave
  <2>3. save[s].here => e \in during'
    BY <1>1
  <2>4. /\ \A q \in Rows : q # r /\ pendingChanges'[q] \in open' => pendingChanges'[q] \in open
        /\ during \subseteq during' /\ missed' = missed
    BY <1>1, <1>3, <1>8, <1>7, <1>9 DEF GridInv, RowsKnow, TypedOn, GridTyped
  <2> QED
    BY <1>1, <1>8, <1>9, <2>1, <2>2, <2>3, <2>4 DEF SaveKnows
<1> QED
  BY <1>1, <1>6, <1>10, <1>11, <1>12 DEF GridInv, OneSaves

\* Cancel, Leave and Switch.
LEMMA LeavesKeep ==
  ASSUME GridInv, GridEditing!Cancel \/ (\E goesOn \in BOOLEAN : GridEditing!Leave(goesOn)) \/ (\E c \in Conns : GridEditing!Switch(c))
  PROVE  GridInv'
<1>1. CASE GridEditing!Cancel \/ \E goesOn \in BOOLEAN : GridEditing!Leave(goesOn)
  <2>1. /\ pendingChanges' = GridEditing!Nothing /\ open' = open \ {pendingChanges[r] : r \in Rows}
        /\ UNCHANGED <<conn, stored, edits, during, carried, missed, latest, overlapped>>
        /\ \/ save' = save
           \/ save' = [s \in Saves |-> [save[s] EXCEPT !.here = FALSE]]
           \/ save' = [s \in Saves |-> GridEditing!NoSave]
    BY <1>1 DEF GridEditing!Cancel, GridEditing!Leave
  <2>2. save' \in [Saves -> GridSave]
    <3>1. \A s \in Saves : save[s] \in GridSave /\ [save[s] EXCEPT !.here = FALSE] \in GridSave
      BY Abandoned DEF GridInv, GridTyped
    <3> QED
      BY <2>1, <3>1, NothingSaved DEF GridInv, GridTyped
  <2>3. ASSUME NEW s \in Saves
        PROVE  \/ save'[s].busy = save[s].busy /\ save'[s].left = save[s].left
                  /\ save'[s].changes = save[s].changes /\ save'[s].conn = save[s].conn /\ save'[s].here \in {FALSE, save[s].here}
               \/ save'[s] = GridEditing!NoSave
    <3>1. save[s] \in GridSave
      BY DEF GridInv, GridTyped
    <3>2. save'[s] \in {save[s], [save[s] EXCEPT !.here = FALSE], GridEditing!NoSave}
      BY <2>1
    <3> QED
      BY <3>1, <3>2, Abandoned
  <2>4. GridTyped' /\ EditsShown' /\ RowsKnow'
    <3>1. GridTyped'
      BY <2>1, <2>2, NothingSaved DEF GridInv, GridTyped
    <3>2. ASSUME NEW e \in open PROVE edits[e].row \in Rows
      <4>1. edits[e] \in [row : Rows, conn : Conns]
        BY ElementOfSeq DEF GridInv, GridTyped
      <4> QED
        BY <4>1
    <3>3. EditsShown'
      BY <2>1, <3>2 DEF GridInv, EditsShown
    <3>4. RowsKnow'
      BY <2>1, NothingSaved DEF GridInv, RowsKnow, TypedOn
    <3> QED
      BY <3>1, <3>3, <3>4
  <2>5. OneSaves'
    BY <2>1, <2>3, NothingSaved DEF GridInv, OneSaves
  <2>6. 0 \notin open'
    BY <2>1, LenProperties DEF GridInv, GridTyped
  <2>7. ASSUME NEW s \in Saves PROVE SaveKnows(save[s])'
    <3>1. save[s] \in GridSave /\ SaveKnows(save[s])
      BY DEF GridInv, GridTyped
    <3>2. CASE save'[s] = GridEditing!NoSave
      BY <2>1, <2>6, <3>2, NothingSaved DEF SaveKnows, TypedOn
    <3>3. CASE save'[s] # GridEditing!NoSave
      BY <2>1, <2>3, <2>6, <3>1, <3>3, NothingSaved DEF SaveKnows, TypedOn, GridSave
    <3> QED
      BY <3>2, <3>3
  <2> QED
    BY <2>4, <2>5, <2>7 DEF GridInv
<1>2. CASE \E c \in Conns : GridEditing!Switch(c)
  <2>1. /\ conn' \in Conns /\ carried' = carried \cup {pendingChanges[r] : r \in GridEditing!Changed(pendingChanges)}
        /\ UNCHANGED <<pendingChanges, save, stored, edits, open, during, missed, latest, overlapped>>
    BY <1>2 DEF GridEditing!Switch
  <2>2. \A e, c : TypedOn(e, c) => TypedOn(e, c)'
    BY <2>1 DEF TypedOn
  <2>3. \A r \in Rows : TypedOn(pendingChanges[r], conn)'
    BY <2>1 DEF GridInv, RowsKnow, TypedOn, GridEditing!Changed
  <2>4. GridTyped' /\ EditsShown' /\ RowsKnow' /\ OneSaves'
    BY <2>1, <2>2, <2>3 DEF GridInv, GridTyped, EditsShown, RowsKnow, OneSaves
  <2>5. \A s \in Saves : SaveKnows(save[s])'
    BY <2>1, <2>2 DEF GridInv, SaveKnows
  <2> QED
    BY <2>4, <2>5 DEF GridInv
<1> QED
  BY <1>1, <1>2

LEMMA SaveKeeps == ASSUME GridInv, NEW s \in Saves, GridEditing!Save(s) PROVE GridInv'
<1> DEFINE new == [here |-> TRUE, conn |-> conn, changes |-> pendingChanges,
                   left |-> GridEditing!Changed(pendingChanges), busy |-> TRUE]
<1>1. /\ ~save[s].busy /\ save' = [save EXCEPT ![s] = new]
      /\ overlapped' = (overlapped \/ \E p \in Saves \ {s} : save[p].busy)
      /\ UNCHANGED <<conn, pendingChanges, stored, edits, open, during, carried, missed, latest>>
  BY DEF GridEditing!Save
<1>2. /\ new \in GridSave /\ new.conn = conn /\ new.changes = pendingChanges
      /\ new.left = {r \in Rows : pendingChanges[r] # 0} /\ new.busy
  BY DEF GridInv, GridTyped, GridSave, GridEditing!Changed
<1> HIDE DEF new
<1>3. /\ \A p \in Saves : save'[p] = IF p = s THEN new ELSE save[p]
      /\ save' \in [Saves -> GridSave]
  BY <1>1, <1>2 DEF GridInv, GridTyped
<1>4. GridTyped' /\ EditsShown'
  BY <1>1, <1>3 DEF GridInv, GridTyped, EditsShown
<1>5. overlapped => overlapped'
  BY <1>1
<1>6. RowsKnow' /\ \A e, c : TypedOn(e, c) => TypedOn(e, c)'
  BY <1>1, <1>5 DEF GridInv, RowsKnow, TypedOn
<1>7. OneSaves'
  BY <1>1, <1>3 DEF OneSaves
<1>8. ASSUME NEW p \in Saves PROVE SaveKnows(save[p])'
  <2>1. CASE p # s
    BY <1>1, <1>3, <1>5, <1>6, <2>1 DEF GridInv, SaveKnows
  <2>2. CASE p = s
    <3>1. 0 \notin open /\ \A r \in Rows : pendingChanges[r] \in Nat
      BY LenProperties DEF GridInv, GridTyped
    <3>2. save'[p] = new
      BY <1>3, <2>2
    <3> QED
      BY <1>1, <1>2, <1>5, <3>1, <3>2 DEF GridInv, RowsKnow, TypedOn, SaveKnows
  <2> QED
    BY <2>1, <2>2
<1> QED
  BY <1>4, <1>6, <1>7, <1>8 DEF GridInv

\* The edit of a row is stored, or written to a row that is gone, as the next of its save or
\* as the last one of a save that fails.
LEMMA UpdateKeeps ==
  ASSUME GridInv, NEW s \in Saves, NEW r \in save[s].left, GridEditing!Update(s, r),
         save' \in [Saves -> GridSave], \A p \in Saves \ {s} : save'[p] = save[p],
         save'[s] \in {[save[s] EXCEPT !.left = @ \ {r}], GridEditing!NoSave},
         UNCHANGED <<conn, pendingChanges, edits, during, carried, overlapped>>
  PROVE  GridInv'
<1>1. PICK c \in Conns, e \in Nat : c = save[s].conn /\ e = save[s].changes[r]
  BY DEF GridInv, GridTyped, GridSave
<1>2. r \in Rows /\ SaveKnows(save[s]) /\ save[s] \in GridSave /\ save[s].busy
  BY DEF GridInv, GridTyped, GridSave, SaveKnows
<1>3. /\ TypedOn(e, c) /\ (pendingChanges[r] # 0 => e <= pendingChanges[r])
      /\ ~overlapped => \A d \in Conns : stored[d][r] <= e
  BY <1>1, <1>2 DEF SaveKnows
<1>4. /\ stored' \in [Conns -> [Rows -> Nat]] /\ latest' \in [Conns -> [Rows -> Nat]]
      /\ \A d \in Conns, q \in Rows :
           \/ stored'[d][q] = stored[d][q] /\ latest'[d][q] = latest[d][q]
           \/ d = c /\ q = r /\ stored'[d][q] = e /\ latest'[d][q] = IF e > latest[d][q] THEN e ELSE latest[d][q]
      /\ open' \subseteq open /\ open \subseteq open' \cup missed' \cup {e} /\ missed \subseteq missed'
      /\ e \notin open' \/ e \in missed'
  <2>1. CASE <<c, r>> \in deleted
    BY <1>1, <2>1 DEF GridEditing!Update, GridInv, GridTyped
  <2>2. CASE <<c, r>> \notin deleted
    <3>1. /\ stored' = [stored EXCEPT ![c][r] = e]
          /\ latest' = [latest EXCEPT ![c][r] = IF e > @ THEN e ELSE @]
          /\ open' = open \ {e} /\ missed' = missed
      BY <1>1, <2>2 DEF GridEditing!Update
    <3>2. stored \in [Conns -> [Rows -> Nat]] /\ latest \in [Conns -> [Rows -> Nat]]
      BY DEF GridInv, GridTyped
    <3>3. stored' \in [Conns -> [Rows -> Nat]] /\ latest' \in [Conns -> [Rows -> Nat]]
      BY <1>1, <1>2, <3>1, <3>2
    <3>4. \A d \in Conns, q \in Rows :
           /\ stored'[d][q] = IF d = c /\ q = r THEN e ELSE stored[d][q]
           /\ latest'[d][q] = IF d = c /\ q = r THEN (IF e > latest[d][q] THEN e ELSE latest[d][q]) ELSE latest[d][q]
      BY <1>1, <1>2, <3>1, <3>2
    <3> QED
      BY <3>1, <3>3, <3>4
  <2> QED
    BY <2>1, <2>2
<1>5. GridTyped' /\ EditsShown'
  BY <1>4 DEF GridInv, GridTyped, EditsShown
<1>6. \A k, d : TypedOn(k, d) <=> TypedOn(k, d)'
  BY DEF TypedOn
<1>7. ASSUME NEW q \in Rows, NEW d \in Conns
      PROVE  /\ TypedOn(stored'[d][q], d)
             /\ pendingChanges[q] # 0 => stored'[d][q] <= pendingChanges[q]
             /\ ~overlapped => latest'[d][q] = stored'[d][q]
  <2>1. /\ TypedOn(stored[d][q], d)
        /\ pendingChanges[q] # 0 => stored[d][q] <= pendingChanges[q]
        /\ ~overlapped => latest[d][q] = stored[d][q]
        /\ stored[d][q] \in Nat /\ latest[d][q] \in Nat
    BY DEF GridInv, GridTyped, RowsKnow
  <2> QED
    BY <1>3, <1>4, <2>1
<1>8. RowsKnow'
  BY <1>6, <1>7 DEF GridInv, RowsKnow, TypedOn
<1>9. /\ save'[s].here \in {FALSE, save[s].here} /\ save'[s].busy \in {FALSE, save[s].busy}
      /\ save'[s].left = {} \/ save'[s].left = save[s].left \ {r}
      /\ save'[s].busy <=> save'[s] # GridEditing!NoSave
      /\ save'[s] # GridEditing!NoSave => save'[s].changes = save[s].changes /\ save'[s].conn = save[s].conn
                                          /\ save'[s].left = save[s].left \ {r}
  BY <1>2, NothingSaved DEF GridSave
<1>10. OneSaves'
  BY <1>9 DEF GridInv, OneSaves
<1>11. ASSUME NEW p \in Saves PROVE SaveKnows(save[p])'
  <2>1. \A q \in Rows : pendingChanges[q] \in open' => pendingChanges[q] \in open /\ (pendingChanges[q] = e => e \in missed')
    BY <1>4
  <2>2. CASE p # s
    <3>1. SaveKnows(save[p]) /\ save'[p] = save[p] /\ save[p] \in GridSave
      BY <2>2 DEF GridInv, GridTyped
    <3>2. ~overlapped => ~save[p].busy /\ save[p].left = {}
      BY <1>2, <2>2, <3>1 DEF GridInv, OneSaves, SaveKnows
    <3> QED
      BY <1>4, <1>6, <2>1, <3>1, <3>2 DEF SaveKnows
  <2>3. CASE p = s /\ save'[s] = GridEditing!NoSave
    BY <2>3, NothingSaved DEF SaveKnows, TypedOn, GridInv, GridTyped
  <2>4. CASE p = s /\ save'[s] # GridEditing!NoSave
    <3>1. /\ save'[s].changes = save[s].changes /\ save'[s].conn = save[s].conn
          /\ save'[s].left = save[s].left \ {r} /\ save'[s].busy /\ save'[s].here \in {FALSE, save[s].here}
      BY <1>9, <2>4
    <3>2. ASSUME NEW q \in Rows
          PROVE  /\ TypedOn(save[s].changes[q], save[s].conn)
                 /\ pendingChanges[q] # 0 => save[s].changes[q] <= pendingChanges[q]
                 /\ save[s].here /\ pendingChanges[q] \in open' =>
                      \/ pendingChanges[q] \in during \cup missed'
                      \/ q \in save[s].left \ {r} /\ pendingChanges[q] = save[s].changes[q]
                 /\ ~overlapped /\ q \in save[s].left \ {r} => \A d \in Conns : stored'[d][q] <= save[s].changes[q]
      <4>1. /\ TypedOn(save[s].changes[q], save[s].conn)
            /\ pendingChanges[q] # 0 => save[s].changes[q] <= pendingChanges[q]
            /\ save[s].here /\ pendingChanges[q] \in open =>
                 pendingChanges[q] \in during \cup missed \/ (q \in save[s].left /\ pendingChanges[q] = save[s].changes[q])
            /\ ~overlapped /\ q \in save[s].left => \A d \in Conns : stored[d][q] <= save[s].changes[q]
        BY <1>2 DEF SaveKnows
      <4>2. q # r => \A d \in Conns : stored'[d][q] = stored[d][q]
        BY <1>4
      <4>3. q = r => save[s].changes[q] = e
        BY <1>1
      <4> QED
        BY <1>4, <2>1, <4>1, <4>2, <4>3
    <3> QED
      BY <1>6, <2>4, <3>1, <3>2 DEF SaveKnows
  <2> QED
    BY <2>2, <2>3, <2>4
<1> QED
  BY <1>5, <1>8, <1>10, <1>11 DEF GridInv

LEMMA WriteRowKeeps ==
  ASSUME GridInv, NEW s \in Saves, NEW r \in Rows, GridEditing!WriteRow(s, r)
  PROVE  GridInv'
<1>1. /\ r \in save[s].left /\ GridEditing!Update(s, r) /\ save' = [save EXCEPT ![s].left = @ \ {r}]
      /\ UNCHANGED <<conn, pendingChanges, edits, during, carried, overlapped>>
  BY DEF GridEditing!WriteRow
<1>2. save \in [Saves -> GridSave]
  BY DEF GridInv, GridTyped
<1>3. [save[s] EXCEPT !.left = @ \ {r}] \in GridSave
  BY <1>2 DEF GridSave
<1>4. /\ save' \in [Saves -> GridSave] /\ \A p \in Saves \ {s} : save'[p] = save[p]
      /\ save'[s] = [save[s] EXCEPT !.left = @ \ {r}]
  BY <1>1, <1>2, <1>3
<1> QED
  BY <1>1, <1>4, UpdateKeeps

\* The grid that hears that every row is written drops all changes: no edit that waits is among
\* them but those typed during the save.
LEMMA SaveEndsKeeps == ASSUME GridInv, NEW s \in Saves, GridEditing!SaveEnds(s) PROVE GridInv'
<1>1. /\ save[s].busy /\ save[s].left = {} /\ save' = [save EXCEPT ![s] = GridEditing!NoSave]
      /\ IF save[s].here THEN pendingChanges' = GridEditing!Nothing ELSE pendingChanges' = pendingChanges
      /\ UNCHANGED <<conn, stored, edits, open, during, carried, missed, latest, overlapped>>
  BY DEF GridEditing!SaveEnds, GridEditing!ghosts
<1>2. /\ save' \in [Saves -> GridSave] /\ \A p \in Saves \ {s} : save'[p] = save[p]
      /\ save'[s] = GridEditing!NoSave
  BY <1>1, NothingSaved DEF GridInv, GridTyped
<1>3. CASE ~save[s].here
  BY <1>1, <1>2, <1>3, GridQuiet
<1>4. CASE save[s].here
  <2>1. pendingChanges' = GridEditing!Nothing
    BY <1>1, <1>4
  <2>2. ASSUME NEW e \in open PROVE e \in during \cup missed
    <3>1. edits[e] \in [row : Rows, conn : Conns]
      BY ElementOfSeq DEF GridInv, GridTyped
    <3> QED
      BY <1>1, <1>4, <3>1 DEF GridInv, EditsShown, SaveKnows
  <2>3. GridTyped' /\ EditsShown'
    BY <1>1, <1>2, <2>1, <2>2, NothingSaved DEF GridInv, GridTyped, EditsShown
  <2>4. RowsKnow' /\ OneSaves'
    BY <1>1, <1>2, <2>1, NothingSaved DEF GridInv, RowsKnow, OneSaves, TypedOn
  <2>5. 0 \notin open
    BY LenProperties DEF GridInv, GridTyped
  <2>6. ASSUME NEW p \in Saves PROVE SaveKnows(save[p])'
    <3>1. CASE p = s
      BY <1>1, <1>2, <2>1, <2>5, <3>1, NothingSaved DEF SaveKnows, TypedOn
    <3>2. CASE p # s
      BY <1>1, <1>2, <2>1, <2>5, <3>2, NothingSaved DEF GridInv, SaveKnows, TypedOn
    <3> QED
      BY <3>1, <3>2
  <2> QED
    BY <2>3, <2>4, <2>6 DEF GridInv
<1> QED
  BY <1>3, <1>4

LEMMA SaveFailsKeeps == ASSUME GridInv, NEW s \in Saves, GridEditing!SaveFails(s) PROVE GridInv'
<1>1. /\ save' = [save EXCEPT ![s] = GridEditing!NoSave] /\ pendingChanges' = pendingChanges
      /\ UNCHANGED <<conn, edits, during, carried, overlapped>>
  BY DEF GridEditing!SaveFails, GridEditing!KeepsChanges
<1>2. PICK r \in save[s].left : GridEditing!Update(s, r) \/ UNCHANGED <<stored, missed, latest, open>>
  BY DEF GridEditing!SaveFails
<1>3. /\ save' \in [Saves -> GridSave] /\ \A p \in Saves \ {s} : save'[p] = save[p]
      /\ save'[s] = GridEditing!NoSave
  BY <1>1, NothingSaved DEF GridInv, GridTyped
<1>4. CASE GridEditing!Update(s, r)
  BY <1>1, <1>3, <1>4, UpdateKeeps
<1>5. CASE UNCHANGED <<stored, missed, latest, open>>
  BY <1>1, <1>3, <1>5, GridQuiet
<1> QED
  BY <1>2, <1>4, <1>5

LEMMA GridStep == GridInv /\ [GridEditing!Next]_(GridEditing!gridVars) => GridInv'
<1> SUFFICES ASSUME GridInv, [GridEditing!Next]_(GridEditing!gridVars) PROVE GridInv'
  OBVIOUS
<1>1. ASSUME UNCHANGED <<conn, pendingChanges, save, stored, latest, edits, open, during, carried, missed, overlapped>>
      PROVE  GridInv'
  BY <1>1, GridQuiet DEF GridInv, GridTyped
<1>2. UNCHANGED GridEditing!gridVars \/ GridEditing!Edit => GridInv'
  BY <1>1 DEF GridEditing!gridVars, GridEditing!Edit, GridEditing!ghosts
<1>3. (\E op \in {"schema", "delete", "insert"}, r \in Rows : GridEditing!Start(op, r)) \/ (\E j \in jobs : GridEditing!End(j)) => GridInv'
  BY <1>1 DEF GridEditing!Start, GridEditing!End, GridEditing!ghosts
<1> QED
  BY <1>2, <1>3, TypeKeeps, LeavesKeep, SaveKeeps, WriteRowKeeps, SaveEndsKeeps, SaveFailsKeeps DEF GridEditing!Next

\* For any number of rows, connections and saves: an edit waits in the grid until it is stored,
\* replaced or discarded, unless it was typed during a save or its row is gone; and it is stored
\* on its connection, and over nothing newer, unless the code let it be otherwise.
THEOREM EditsReachTheirRow == GridEditing!Spec => []EditsLand
<1>1. GridInv => EditsLand
  BY DEF GridInv, EditsShown, RowsKnow, TypedOn, EditsLand, GridEditing!EditsLand
<1> QED
  BY <1>1, GridInitial, GridStep, PTL DEF GridEditing!Spec

-----------------------------------------------------------------------------
(* QueryTabs *)

TabRow == [sql : QueryTabs!Statements \cup {"none"}, nonce : Nat]
Query == [key : QueryTabs!Keys, pc : {"sent", "asked", "again"}, home : {"cache", "cleared", "gone"}, since : Nat]
Amounts == [QueryTabs!Statements -> Nat]

\* A tab that shows a statement has run it; it has run no oftener than Run was pressed, and once
\* more when the page was loaded.
TabsFit(tb, n) ==
  /\ tb \in [Tabs -> TabRow] /\ n \in Nat /\ n <= MaxRuns
  /\ \A t \in Tabs : tb[t].nonce <= n + 1 /\ (tb[t].sql # "none" => tb[t].nonce # 0)

TabsTyped ==
  /\ active \in Conns /\ TabsFit(tab, QueryTabs!Counts)
  /\ kept \in [Tabs -> QueryTabs!Statements \cup {"none"}] /\ \A t \in Tabs : kept[t] # "none" => tab[t].nonce # 0
  /\ cache \in [QueryTabs!Keys -> QueryTabs!Entry] /\ moves \in Nat
  /\ requests \subseteq Query /\ IsFiniteSet(requests)
  /\ pressed \in Amounts /\ occasions \in Amounts /\ confirms \in Amounts /\ ran \in Amounts

\* What is asked on screen is a request that waits.
AskedWaits == asking = QueryTabs!NoQuestion \/ (asking \in requests /\ asking.pc = "asked" /\ asking.key.sql = "drop")

\* A tab shows no number that it has still to reach, and somebody has shown whatever the cache
\* holds or fetches.
NoncesPast(S, tb) ==
  \A p \in S : p \in (Tabs \cup {"closed"}) \X QueryTabs!Keys /\ (p[1] \in Tabs => p[2].nonce <= tb[p[1]].nonce)
Covers(S, held, sent) ==
  /\ \A k \in QueryTabs!Keys : held[k] # "none" => \E p \in S : p[2] = k
  /\ \A r \in sent : r.home = "cache" => \E p \in S : p[2] = r.key
ShownKnown == NoncesPast(shown, tab) /\ Covers(shown, cache, requests)

\* Whatever may still execute a statement was asked for: the requests for it, and the tabs that
\* will fetch its result when they render.
Of(S, s) == {r \in S : r.key.sql = s}
Agains(S) == {r \in S : r.pc = "again"}
Bare(s) == {t \in Tabs : tab[t].sql = s /\ cache[QueryTabs!Key(t)] = "none"}
RunsBounded(s) == ran[s] + Cardinality(Of(requests, s)) + Cardinality(Bare(s)) <= pressed[s] + occasions[s]
AgainBounded == ran["drop"] + Cardinality(Of(Agains(requests), "drop")) <= confirms["drop"]

TabsInv ==
  /\ TabsTyped /\ AskedWaits /\ ShownKnown /\ AgainBounded
  /\ \A s \in QueryTabs!Statements : RunsBounded(s)

LEMMA ImageCount ==
  ASSUME NEW S, IsFiniteSet(S), NEW f
  PROVE  /\ IsFiniteSet({f[x] : x \in S}) /\ Cardinality({f[x] : x \in S}) <= Cardinality(S)
         /\ Cardinality({f[x] : x \in S}) \in Nat /\ Cardinality(S) \in Nat
<1> DEFINE T == {f[x] : x \in S}
           g == [x \in S |-> f[x]]
<1>1. g \in Surjection(S, T)
  BY DEF Surjection
<1> HIDE DEF g
<1>2. IsFiniteSet(T) /\ Cardinality(T) <= Cardinality(S)
  BY <1>1, FS_Surjection
<1> QED
  BY <1>2, FS_CardinalityType

LEMMA PartCount ==
  ASSUME NEW S, IsFiniteSet(S), NEW T, IsFiniteSet(T), NEW U, U \subseteq S \cup T
  PROVE  /\ IsFiniteSet(U) /\ Cardinality(U) <= Cardinality(S) + Cardinality(T)
         /\ Cardinality(U) \in Nat /\ Cardinality(S) \in Nat /\ Cardinality(T) \in Nat
<1>1. IsFiniteSet(S \cup T) /\ Cardinality(S \cup T) = Cardinality(S) + Cardinality(T) - Cardinality(S \cap T)
  BY FS_Union
<1>2. IsFiniteSet(S \cap T) /\ IsFiniteSet(U) /\ Cardinality(U) <= Cardinality(S \cup T)
  BY <1>1, FS_Subset
<1> QED
  BY <1>1, <1>2, FS_CardinalityType

LEMMA SubCount ==
  ASSUME NEW S, IsFiniteSet(S), NEW U, U \subseteq S
  PROVE  IsFiniteSet(U) /\ Cardinality(U) <= Cardinality(S) /\ Cardinality(U) \in Nat /\ Cardinality(S) \in Nat
BY FS_Subset, FS_CardinalityType

\* Some tabs send the requests for their keys.
RequestFor(k, m) == [key |-> k, pc |-> "sent", home |-> "cache", since |-> m]
Fetches(key, T, m) == {RequestFor(k, m) : k \in {key[t] : t \in T}}
Fetchers(key, T, s) == {t \in T : key[t].sql = s}

LEMMA SendsCount ==
  ASSUME NEW sent, IsFiniteSet(sent), NEW T \in SUBSET Tabs, NEW key, NEW m, NEW s,
         NEW all, all = sent \cup Fetches(key, T, m)
  PROVE  /\ IsFiniteSet(all) /\ Agains(all) = Agains(sent)
         /\ Cardinality(Of(all, s)) <= Cardinality(Of(sent, s)) + Cardinality(Fetchers(key, T, s))
<1> DEFINE f == [t \in Tabs |-> RequestFor(key[t], m)]
           mine == Fetchers(key, T, s)
<1>1. \A k : RequestFor(k, m).key = k /\ RequestFor(k, m).pc = "sent"
  BY DEF RequestFor
<1>2. IsFiniteSet(T) /\ IsFiniteSet(mine)
  BY TabsAssumption, FS_Subset DEF Fetchers
<1>3. Fetches(key, T, m) = {f[t] : t \in T}
  BY DEF Fetches
<1>4. \A t \in T : f[t] = RequestFor(key[t], m)
  OBVIOUS
<1> HIDE DEF f
<1>5. IsFiniteSet({f[t] : t \in T}) /\ IsFiniteSet({f[t] : t \in mine}) /\ Cardinality({f[t] : t \in mine}) <= Cardinality(mine)
  BY <1>2, ImageCount
<1>6. IsFiniteSet(all)
  BY <1>3, <1>5, FS_Union
<1>7. Agains(all) = Agains(sent)
  BY <1>1 DEF Agains, Fetches
<1>8. Of(all, s) \subseteq Of(sent, s) \cup {f[t] : t \in mine}
  BY <1>1, <1>3, <1>4 DEF Of, Fetchers
<1>9. IsFiniteSet(Of(sent, s))
  BY FS_Subset DEF Of
<1>10. /\ Cardinality(Of(all, s)) <= Cardinality(Of(sent, s)) + Cardinality({f[t] : t \in mine})
       /\ Cardinality(Of(all, s)) \in Nat /\ Cardinality(Of(sent, s)) \in Nat
       /\ Cardinality({f[t] : t \in mine}) \in Nat
  BY <1>5, <1>8, <1>9, PartCount
<1>11. Cardinality(mine) \in Nat
  BY <1>2, FS_CardinalityType
<1> QED
  BY <1>5, <1>6, <1>7, <1>10, <1>11

LEMMA KeysFit ==
  ASSUME NEW tb, NEW n, TabsFit(tb, n), NEW t \in Tabs, tb[t].sql # "none", NEW c \in Conns
  PROVE  [conn |-> c, sql |-> tb[t].sql, nonce |-> tb[t].nonce] \in QueryTabs!Keys
BY TabsAssumption DEF TabsFit, TabRow, QueryTabs!Keys

\* Every change renders every tab.
LEMMA Renders ==
  ASSUME NEW held \in [QueryTabs!Keys -> QueryTabs!Entry], NEW sent \in SUBSET Query, IsFiniteSet(sent), NEW before,
         QueryTabs!Render(held, sent, before), active' \in Conns, NEW n, TabsFit(tab', n), moves' \in Nat,
         NoncesPast(before, tab'), Covers(before, held, sent)
  PROVE  /\ cache' \in [QueryTabs!Keys -> QueryTabs!Entry] /\ requests' \subseteq Query /\ IsFiniteSet(requests')
         /\ sent \subseteq requests' /\ Agains(requests') = Agains(sent) /\ ShownKnown'
         /\ \A s \in QueryTabs!Statements :
              /\ Bare(s)' = {}
              /\ Cardinality(Of(requests', s))
                   <= Cardinality(Of(sent, s)) + Cardinality({t \in Tabs : QueryTabs!Wants(t, held) /\ tab'[t].sql = s})
<1> DEFINE key == [t \in Tabs |-> QueryTabs!Key(t)']
           T == {t \in Tabs : QueryTabs!Wants(t, held)}
           wanted == {key[t] : t \in T}
<1>1. /\ shown' = before \cup QueryTabs!Showing'
      /\ cache' = [k \in QueryTabs!Keys |-> IF k \in wanted THEN "waiting" ELSE held[k]]
      /\ requests' = sent \cup {RequestFor(k, moves') : k \in wanted}
  BY DEF QueryTabs!Render, RequestFor
<1>2. \A t \in Tabs : /\ key[t] = [conn |-> active', sql |-> tab'[t].sql, nonce |-> tab'[t].nonce]
                      /\ key[t] = QueryTabs!Key(t)' /\ key[t].sql = tab'[t].sql /\ key[t].nonce = tab'[t].nonce
  BY DEF QueryTabs!Key
<1>3. \A t \in Tabs : tab'[t].sql # "none" => key[t] \in QueryTabs!Keys
  BY <1>2, KeysFit
<1>4. \A t \in T : t \in Tabs /\ tab'[t].sql # "none"
  BY DEF QueryTabs!Wants
<1>5. QueryTabs!Showing' = {<<t, key[t]>> : t \in {u \in Tabs : tab'[u].sql # "none"}}
  BY <1>2 DEF QueryTabs!Showing
<1>6. \A t \in Tabs : tab'[t].sql # "none" /\ held[key[t]] = "none" => t \in T
  BY <1>2 DEF QueryTabs!Wants
<1> HIDE DEF key, T
<1>7. cache' \in [QueryTabs!Keys -> QueryTabs!Entry]
  BY <1>1 DEF QueryTabs!Entry
<1>8. requests' \subseteq Query
  <2>1. ASSUME NEW k \in wanted PROVE RequestFor(k, moves') \in Query
    BY <1>3, <1>4 DEF RequestFor, Query
  <2> QED
    BY <1>1, <2>1
<1>9. \A s \in QueryTabs!Statements :
        /\ IsFiniteSet(requests') /\ Agains(requests') = Agains(sent)
        /\ Cardinality(Of(requests', s)) <= Cardinality(Of(sent, s)) + Cardinality({t \in T : key[t].sql = s})
  <2>1. T \in SUBSET Tabs
    BY <1>4
  <2>2. PICK m, all : m = moves' /\ all = requests'
    OBVIOUS
  <2>3. all = sent \cup Fetches(key, T, m)
    BY <1>1, <2>2 DEF Fetches
  <2>4. \A s : /\ IsFiniteSet(all) /\ Agains(all) = Agains(sent)
              /\ Cardinality(Of(all, s)) <= Cardinality(Of(sent, s)) + Cardinality(Fetchers(key, T, s))
    BY <2>1, <2>3, SendsCount
  <2> QED
    BY <2>2, <2>4 DEF Fetchers
<1>10. IsFiniteSet(requests') /\ Agains(requests') = Agains(sent)
  BY <1>9 DEF QueryTabs!Statements
<1>11. ASSUME NEW s \in QueryTabs!Statements
       PROVE  /\ Bare(s)' = {}
              /\ {t \in T : key[t].sql = s} = {t \in Tabs : QueryTabs!Wants(t, held) /\ tab'[t].sql = s}
  <2>1. {t \in T : key[t].sql = s} = {t \in Tabs : QueryTabs!Wants(t, held) /\ tab'[t].sql = s}
    BY <1>2, <1>4 DEF T
  <2>2. ASSUME NEW t \in Tabs, tab'[t].sql = s PROVE cache'[key[t]] # "none"
    BY <1>1, <1>3, <1>6, <2>2 DEF QueryTabs!Statements
  <2>3. Bare(s)' = {t \in Tabs : tab'[t].sql = s /\ cache'[QueryTabs!Key(t)'] = "none"}
    BY DEF Bare
  <2>4. \A t \in Tabs : tab'[t].sql = s => cache'[QueryTabs!Key(t)'] # "none"
    BY <1>2, <2>2
  <2> QED
    BY <2>1, <2>3, <2>4
<1>12. NoncesPast(shown', tab')
  <2>1. ASSUME NEW p \in QueryTabs!Showing'
        PROVE  p \in (Tabs \cup {"closed"}) \X QueryTabs!Keys /\ p[1] \in Tabs /\ p[2].nonce <= tab'[p[1]].nonce
    <3>1. PICK t \in Tabs : tab'[t].sql # "none" /\ p = <<t, key[t]>>
      BY <1>5, <2>1
    <3>2. tab'[t].nonce \in Nat /\ key[t].nonce = tab'[t].nonce /\ key[t] \in QueryTabs!Keys
      BY <1>2, <1>3, <3>1 DEF TabsFit, TabRow
    <3> QED
      BY <3>1, <3>2
  <2> QED
    BY <1>1, <2>1 DEF NoncesPast
<1>13. \A t \in T : \E p \in shown' : p[2] = key[t]
  <2>1. ASSUME NEW t \in T PROVE <<t, key[t]>> \in shown'
    BY <1>1, <1>4, <1>5
  <2> QED
    BY <2>1
<1>14. Covers(shown', cache', requests')
  <2>1. \A k \in QueryTabs!Keys : cache'[k] # "none" => \E p \in shown' : p[2] = k
    BY <1>1, <1>13 DEF Covers
  <2>2. \A r \in requests' : r.home = "cache" => \E p \in shown' : p[2] = r.key
    BY <1>1, <1>13 DEF Covers, RequestFor
  <2> QED
    BY <2>1, <2>2 DEF Covers
<1> QED
  BY <1>1, <1>7, <1>8, <1>9, <1>10, <1>11, <1>12, <1>14 DEF ShownKnown

LEMMA TabsCounted ==
  ASSUME TabsTyped
  PROVE  \A s \in QueryTabs!Statements :
           /\ IsFiniteSet(Of(requests, s)) /\ IsFiniteSet(Bare(s)) /\ IsFiniteSet(Of(Agains(requests), s))
           /\ Cardinality(Of(requests, s)) \in Nat /\ Cardinality(Bare(s)) \in Nat
           /\ Cardinality(Of(Agains(requests), s)) \in Nat
           /\ ran[s] \in Nat /\ pressed[s] \in Nat /\ occasions[s] \in Nat /\ confirms[s] \in Nat
<1> SUFFICES ASSUME NEW s \in QueryTabs!Statements
             PROVE  /\ IsFiniteSet(Of(requests, s)) /\ IsFiniteSet(Bare(s)) /\ IsFiniteSet(Of(Agains(requests), s))
                    /\ Cardinality(Of(requests, s)) \in Nat /\ Cardinality(Bare(s)) \in Nat
                    /\ Cardinality(Of(Agains(requests), s)) \in Nat
                    /\ ran[s] \in Nat /\ pressed[s] \in Nat /\ occasions[s] \in Nat /\ confirms[s] \in Nat
  OBVIOUS
<1>1. IsFiniteSet(requests) /\ IsFiniteSet(Tabs)
  BY TabsAssumption DEF TabsTyped
<1>2. Of(requests, s) \subseteq requests /\ Bare(s) \subseteq Tabs /\ Of(Agains(requests), s) \subseteq requests
  BY DEF Of, Bare, Agains
<1>3. ran[s] \in Nat /\ pressed[s] \in Nat /\ occasions[s] \in Nat /\ confirms[s] \in Nat
  BY DEF TabsTyped, Amounts
<1> QED
  BY <1>1, <1>2, <1>3, SubCount

LEMMA TabsInitial == QueryTabs!Init => TabsInv
<1> SUFFICES ASSUME QueryTabs!Init PROVE TabsInv
  OBVIOUS
<1>1. /\ pressed = [s \in QueryTabs!Statements |-> 0] /\ occasions = pressed /\ confirms = pressed /\ ran = pressed
      /\ requests = {} /\ shown = {} /\ moves = 0 /\ asking = QueryTabs!NoQuestion /\ active \in Conns
      /\ tab = [t \in Tabs |-> [sql |-> "none", nonce |-> 0]] /\ kept = [t \in Tabs |-> "none"]
      /\ cache = [k \in QueryTabs!Keys |-> "none"]
  BY DEF QueryTabs!Init
<1>2. QueryTabs!Counts = 0
  BY <1>1 DEF QueryTabs!Counts, QueryTabs!Statements
<1>3. TabsFit(tab, 0)
  BY <1>1, TabsAssumption DEF TabsFit, TabRow
<1>4. TabsTyped
  BY <1>1, <1>2, <1>3, FS_EmptySet DEF TabsTyped, Amounts, QueryTabs!Entry
<1>5. AskedWaits /\ ShownKnown
  BY <1>1 DEF AskedWaits, ShownKnown, NoncesPast, Covers
<1>6. \A s \in QueryTabs!Statements : Of(requests, s) = {} /\ Bare(s) = {} /\ Of(Agains(requests), s) = {}
  BY <1>1 DEF Of, Bare, Agains, QueryTabs!Statements
<1> QED
  BY <1>1, <1>4, <1>5, <1>6, FS_EmptySet DEF TabsInv, AgainBounded, RunsBounded, QueryTabs!Statements

\* A step that renders every tab, in which no tab fetches what was not asked for.
LEMMA RendersKeep ==
  ASSUME TabsInv, NEW sent \in SUBSET Query, IsFiniteSet(sent), NEW before, QueryTabs!Render(cache, sent, before),
         active' \in Conns, TabsFit(tab', QueryTabs!Counts'), moves' \in Nat,
         NoncesPast(before, tab'), Covers(before, cache, sent),
         kept' \in [Tabs -> QueryTabs!Statements \cup {"none"}], \A t \in Tabs : kept'[t] # "none" => tab'[t].nonce # 0,
         pressed' \in Amounts, occasions' \in Amounts, confirms' \in Amounts, ran' = ran,
         asking' = QueryTabs!NoQuestion \/ (asking' \in sent /\ asking'.pc = "asked" /\ asking'.key.sql = "drop"),
         ran["drop"] + Cardinality(Of(Agains(sent), "drop")) <= confirms'["drop"],
         \A s \in QueryTabs!Statements :
           /\ Cardinality(Of(sent, s)) <= Cardinality(Of(requests, s))
           /\ Cardinality({t \in Tabs : QueryTabs!Wants(t, cache) /\ tab'[t].sql = s}) + pressed[s] + occasions[s]
                <= Cardinality(Bare(s)) + pressed'[s] + occasions'[s]
  PROVE  TabsInv'
<1>1. PICK n : n = QueryTabs!Counts'
  OBVIOUS
<1>2. /\ cache' \in [QueryTabs!Keys -> QueryTabs!Entry] /\ requests' \subseteq Query /\ IsFiniteSet(requests')
      /\ sent \subseteq requests' /\ Agains(requests') = Agains(sent) /\ ShownKnown'
      /\ \A s \in QueryTabs!Statements :
           /\ Bare(s)' = {}
           /\ Cardinality(Of(requests', s))
                <= Cardinality(Of(sent, s)) + Cardinality({t \in Tabs : QueryTabs!Wants(t, cache) /\ tab'[t].sql = s})
  <2>1. cache \in [QueryTabs!Keys -> QueryTabs!Entry] /\ TabsFit(tab', n)
    BY <1>1 DEF TabsInv, TabsTyped
  <2> QED
    BY <2>1, Renders
<1>3. TabsTyped'
  BY <1>2 DEF TabsInv, TabsTyped
<1>4. AskedWaits'
  BY <1>2 DEF AskedWaits
<1>5. AgainBounded'
  BY <1>2 DEF AgainBounded
<1>6. ASSUME NEW s \in QueryTabs!Statements PROVE RunsBounded(s)'
  <2> DEFINE W == {t \in Tabs : QueryTabs!Wants(t, cache) /\ tab'[t].sql = s}
  <2>1. Cardinality(Bare(s)') = 0
    BY <1>2, FS_EmptySet
  <2>2. Cardinality(W) \in Nat /\ Cardinality(Of(sent, s)) \in Nat /\ Cardinality(Of(requests', s)) \in Nat
    <3>1. W \subseteq Tabs /\ Of(sent, s) \subseteq sent /\ Of(requests', s) \subseteq requests'
      BY DEF Of
    <3> QED
      BY <1>2, <3>1, TabsAssumption, SubCount
  <2>3. /\ Cardinality(Of(requests, s)) \in Nat /\ Cardinality(Bare(s)) \in Nat
        /\ ran[s] \in Nat /\ pressed[s] \in Nat /\ occasions[s] \in Nat /\ pressed'[s] \in Nat /\ occasions'[s] \in Nat
        /\ ran[s] + Cardinality(Of(requests, s)) + Cardinality(Bare(s)) <= pressed[s] + occasions[s]
    BY TabsCounted DEF TabsInv, RunsBounded, Amounts
  <2>4. /\ Cardinality(Of(requests', s)) <= Cardinality(Of(sent, s)) + Cardinality(W)
        /\ Cardinality(Of(sent, s)) <= Cardinality(Of(requests, s))
        /\ Cardinality(W) + pressed[s] + occasions[s] <= Cardinality(Bare(s)) + pressed'[s] + occasions'[s]
    BY <1>2
  <2> HIDE DEF W
  <2>5. ran[s] + Cardinality(Of(requests', s)) + 0 <= pressed'[s] + occasions'[s]
    BY <2>2, <2>3, <2>4
  <2> QED
    BY <2>1, <2>5 DEF RunsBounded
<1> QED
  BY <1>2, <1>3, <1>4, <1>5, <1>6 DEF TabsInv

\* A tab that still shows what it showed fetches it only if the cache has lost it.
LEMMA StillBare ==
  ASSUME active' = active, NEW t \in Tabs, tab'[t] = tab[t], QueryTabs!Wants(t, cache), NEW s, tab'[t].sql = s
  PROVE  t \in Bare(s)
<1>1. QueryTabs!Key(t)' = QueryTabs!Key(t)
  BY DEF QueryTabs!Key
<1> QED
  BY <1>1 DEF QueryTabs!Wants, Bare

LEMMA RunKeeps == ASSUME TabsInv, NEW t \in Tabs, NEW s \in QueryTabs!Statements, QueryTabs!Run(t, s) PROVE TabsInv'
<1> DEFINE row == [sql |-> s, nonce |-> tab[t].nonce + 1]
<1>1. /\ QueryTabs!Counts < MaxRuns /\ tab' = [tab EXCEPT ![t] = row] /\ pressed' = [pressed EXCEPT ![s] = @ + 1]
      /\ UNCHANGED <<active, kept, asking, faults, moves, occasions, confirms, ran>>
      /\ QueryTabs!Render(cache, requests, shown)
  BY DEF QueryTabs!Run
<1>2. TabsTyped /\ tab[t] \in TabRow /\ tab \in [Tabs -> TabRow]
  BY DEF TabsInv, TabsTyped, TabsFit
<1>3. row \in TabRow /\ row.sql = s /\ row.nonce = tab[t].nonce + 1 /\ tab[t].nonce \in Nat
  BY <1>2 DEF TabRow
<1> HIDE DEF row
<1>4. /\ tab' \in [Tabs -> TabRow] /\ tab'[t] = row /\ \A u \in Tabs : u # t => tab'[u] = tab[u]
  BY <1>1, <1>2, <1>3
<1>5. /\ pressed' \in Amounts /\ \A q \in QueryTabs!Statements : pressed'[q] = IF q = s THEN pressed[q] + 1 ELSE pressed[q]
      /\ \A q \in QueryTabs!Statements : pressed[q] \in Nat
  BY <1>1 DEF TabsInv, TabsTyped, Amounts
<1>6. QueryTabs!Counts \in Nat /\ QueryTabs!Counts' = QueryTabs!Counts + 1
  BY <1>5 DEF QueryTabs!Counts, QueryTabs!Statements
<1>7. TabsFit(tab', QueryTabs!Counts')
  <2>1. PICK n \in Nat : n = QueryTabs!Counts
    BY <1>6
  <2>2. TabsFit(tab, n) /\ n < MaxRuns
    BY <1>1, <2>1 DEF TabsInv, TabsTyped
  <2>3. TabsFit(tab', n + 1)
    <3>1. \A u \in Tabs : tab[u].nonce \in Nat
      BY <1>2 DEF TabRow
    <3> QED
      BY <1>3, <1>4, <2>2, <3>1, TabsAssumption DEF TabsFit, TabRow
  <2> QED
    BY <1>6, <2>1, <2>3
<1>8. \A u \in Tabs : tab[u].nonce \in Nat /\ tab[u].nonce <= tab'[u].nonce /\ (tab[u].nonce # 0 => tab'[u].nonce # 0)
  BY <1>2, <1>3, <1>4 DEF TabRow
<1>9. NoncesPast(shown, tab')
  <2>1. NoncesPast(shown, tab)
    BY DEF TabsInv, ShownKnown
  <2>2. \A k \in QueryTabs!Keys : k.nonce \in Nat
    BY TabsAssumption DEF QueryTabs!Keys
  <2>3. ASSUME NEW p \in shown, p[1] \in Tabs PROVE p[2].nonce <= tab'[p[1]].nonce
    <3>1. p[2].nonce \in Nat /\ p[2].nonce <= tab[p[1]].nonce
      BY <2>1, <2>2, <2>3 DEF NoncesPast
    <3>2. tab'[p[1]].nonce \in Nat
      BY <1>4, <2>3 DEF TabRow
    <3> QED
      BY <1>8, <2>3, <3>1, <3>2
  <2> QED
    BY <2>1, <2>3 DEF NoncesPast
<1>10. ASSUME NEW q \in QueryTabs!Statements
       PROVE  Cardinality({u \in Tabs : QueryTabs!Wants(u, cache) /\ tab'[u].sql = q}) + pressed[q] + occasions[q]
                <= Cardinality(Bare(q)) + pressed'[q] + occasions'[q]
  <2> DEFINE W == {u \in Tabs : QueryTabs!Wants(u, cache) /\ tab'[u].sql = q}
             T == IF q = s THEN {t} ELSE {}
  <2>1. W \subseteq Bare(q) \cup T
    BY <1>1, <1>3, <1>4, StillBare
  <2>2. IsFiniteSet(T) /\ Cardinality(T) = IF q = s THEN 1 ELSE 0
    BY FS_EmptySet, FS_Singleton
  <2>3. IsFiniteSet(Bare(q)) /\ Cardinality(Bare(q)) \in Nat /\ pressed[q] \in Nat /\ occasions[q] \in Nat
    BY <1>2, TabsCounted
  <2> HIDE DEF W, T
  <2>4. Cardinality(W) <= Cardinality(Bare(q)) + Cardinality(T) /\ Cardinality(W) \in Nat
    BY <2>1, <2>2, <2>3, PartCount
  <2>5. pressed'[q] = IF q = s THEN pressed[q] + 1 ELSE pressed[q]
    BY <1>5
  <2>6. occasions'[q] = occasions[q]
    BY <1>1
  <2>7. Cardinality(W) + pressed[q] + occasions[q] <= Cardinality(Bare(q)) + pressed'[q] + occasions'[q]
    BY <2>2, <2>3, <2>4, <2>5, <2>6
  <2> QED
    BY <2>7 DEF W
<1>11. /\ requests \in SUBSET Query /\ IsFiniteSet(requests) /\ Covers(shown, cache, requests) /\ active' \in Conns /\ moves' \in Nat
       /\ kept' \in [Tabs -> QueryTabs!Statements \cup {"none"}] /\ \A u \in Tabs : kept'[u] # "none" => tab'[u].nonce # 0
       /\ occasions' \in Amounts /\ confirms' \in Amounts /\ ran' = ran
       /\ asking' = QueryTabs!NoQuestion \/ (asking' \in requests /\ asking'.pc = "asked" /\ asking'.key.sql = "drop")
       /\ ran["drop"] + Cardinality(Of(Agains(requests), "drop")) <= confirms'["drop"]
  BY <1>1, <1>8 DEF TabsInv, TabsTyped, ShownKnown, AskedWaits, AgainBounded
<1>12. \A q \in QueryTabs!Statements : Cardinality(Of(requests, q)) <= Cardinality(Of(requests, q))
  BY <1>2, TabsCounted
<1> QED
  BY <1>1, <1>5, <1>7, <1>9, <1>10, <1>11, <1>12, RendersKeep

\* Steps that render and leave the tabs and the requests as they are, and the active connection too.
LEMMA FetchesBare ==
  ASSUME TabsInv, UNCHANGED active, NEW q, q \in QueryTabs!Statements, \A u \in Tabs : tab'[u] = tab[u] \/ tab'[u].sql = "none"
  PROVE  /\ Cardinality({u \in Tabs : QueryTabs!Wants(u, cache) /\ tab'[u].sql = q}) + pressed[q] + occasions[q]
              <= Cardinality(Bare(q)) + pressed[q] + occasions[q]
         /\ Cardinality(Of(requests, q)) <= Cardinality(Of(requests, q))
<1> DEFINE W == {u \in Tabs : QueryTabs!Wants(u, cache) /\ tab'[u].sql = q}
<1>1. W \subseteq Bare(q)
  <2>1. ASSUME NEW u \in Tabs, QueryTabs!Wants(u, cache), tab'[u].sql = q PROVE tab'[u] = tab[u]
    BY <2>1 DEF QueryTabs!Wants
  <2> QED
    BY <2>1, StillBare
<1>2. /\ IsFiniteSet(Bare(q)) /\ Cardinality(Bare(q)) \in Nat /\ Cardinality(Of(requests, q)) \in Nat
      /\ pressed[q] \in Nat /\ occasions[q] \in Nat
  BY TabsCounted DEF TabsInv
<1> HIDE DEF W
<1>3. Cardinality(W) <= Cardinality(Bare(q)) /\ Cardinality(W) \in Nat
  BY <1>1, <1>2, SubCount
<1>4. Cardinality(W) + pressed[q] + occasions[q] <= Cardinality(Bare(q)) + pressed[q] + occasions[q]
  BY <1>2, <1>3
<1> QED
  BY <1>2, <1>4 DEF W

LEMMA KeepKeeps == ASSUME TabsInv, NEW t \in Tabs, QueryTabs!Keep(t) PROVE TabsInv'
<1>1. /\ kept' = [kept EXCEPT ![t] = tab[t].sql]
      /\ UNCHANGED <<active, tab, asking, faults, moves, pressed, occasions, confirms, ran>>
      /\ QueryTabs!Render(cache, requests, shown)
  BY DEF QueryTabs!Keep
<1>2. tab[t].sql \in QueryTabs!Statements \cup {"none"} /\ (tab[t].sql # "none" => tab[t].nonce # 0)
  BY DEF TabsInv, TabsTyped, TabsFit, TabRow
<1>3. kept' \in [Tabs -> QueryTabs!Statements \cup {"none"}] /\ \A u \in Tabs : kept'[u] # "none" => tab'[u].nonce # 0
  BY <1>1, <1>2 DEF TabsInv, TabsTyped
<1>4. /\ requests \in SUBSET Query /\ IsFiniteSet(requests) /\ Covers(shown, cache, requests) /\ NoncesPast(shown, tab')
      /\ active' \in Conns /\ moves' \in Nat
      /\ pressed' \in Amounts /\ occasions' \in Amounts /\ confirms' \in Amounts /\ ran' = ran
      /\ asking' = QueryTabs!NoQuestion \/ (asking' \in requests /\ asking'.pc = "asked" /\ asking'.key.sql = "drop")
      /\ ran["drop"] + Cardinality(Of(Agains(requests), "drop")) <= confirms'["drop"]
  BY <1>1 DEF TabsInv, TabsTyped, ShownKnown, AskedWaits, AgainBounded
<1>5. TabsFit(tab', QueryTabs!Counts')
  BY <1>1 DEF TabsInv, TabsTyped, QueryTabs!Counts
<1>6. \A q \in QueryTabs!Statements :
        /\ Cardinality({u \in Tabs : QueryTabs!Wants(u, cache) /\ tab'[u].sql = q}) + pressed[q] + occasions[q]
              <= Cardinality(Bare(q)) + pressed'[q] + occasions'[q]
        /\ Cardinality(Of(requests, q)) <= Cardinality(Of(requests, q))
  BY <1>1, FetchesBare
<1> QED
  BY <1>1, <1>3, <1>4, <1>5, <1>6, RendersKeep

\* The module of the tabs counts as this one does.
LEMMA CountsAlike == ASSUME NEW S PROVE QueryTabs!Cardinality(S) = Cardinality(S)
BY DEF QueryTabs!Cardinality, Cardinality

LEMMA OccasionsCount ==
  ASSUME TabsTyped, NEW executed, QueryTabs!Occasion(executed)
  PROVE  /\ occasions' \in Amounts
         /\ \A s \in QueryTabs!Statements :
              /\ occasions'[s] = occasions[s] + Cardinality({t \in Tabs : executed[t] = s})
              /\ occasions[s] \in Nat /\ pressed[s] \in Nat
              /\ IsFiniteSet({t \in Tabs : executed[t] = s}) /\ Cardinality({t \in Tabs : executed[t] = s}) \in Nat
<1> DEFINE had(s) == {t \in Tabs : executed[t] = s}
<1>1. \A s : IsFiniteSet(had(s)) /\ Cardinality(had(s)) \in Nat
  BY TabsAssumption, SubCount
<1>2. \A s \in QueryTabs!Statements : occasions[s] \in Nat /\ pressed[s] \in Nat
  BY DEF TabsTyped, Amounts
<1>3. occasions' = [s \in QueryTabs!Statements |-> occasions[s] + Cardinality(had(s))]
  <2>1. occasions' = [s \in QueryTabs!Statements |-> occasions[s] + QueryTabs!Cardinality(had(s))]
    BY DEF QueryTabs!Occasion
  <2> HIDE DEF had
  <2> QED
    BY <2>1, CountsAlike
<1> HIDE DEF had
<1>4. occasions' \in Amounts /\ \A s \in QueryTabs!Statements : occasions'[s] = occasions[s] + Cardinality(had(s))
  BY <1>1, <1>2, <1>3 DEF Amounts
<1> QED
  BY <1>1, <1>2, <1>4 DEF had

LEMMA SwitchKeeps == ASSUME TabsInv, NEW c \in Conns, QueryTabs!Switch(c) PROVE TabsInv'
<1> DEFINE showing == [t \in Tabs |-> tab[t].sql]
           shows(q) == {t \in Tabs : showing[t] = q}
<1>1. /\ active' = c /\ asking = QueryTabs!NoQuestion /\ moves' = moves + 1 /\ QueryTabs!Occasion(showing)
      /\ UNCHANGED <<tab, kept, asking, faults, pressed, confirms, ran>>
      /\ QueryTabs!Render(cache, requests, shown)
  BY DEF QueryTabs!Switch, QueryTabs!Move
<1>2. \A t \in Tabs : showing[t] = tab[t].sql
  OBVIOUS
<1> HIDE DEF showing
<1>3. \A q \in QueryTabs!Statements :
        /\ occasions[q] \in Nat /\ pressed[q] \in Nat /\ occasions'[q] = occasions[q] + Cardinality(shows(q))
        /\ IsFiniteSet(shows(q))
  BY <1>1, OccasionsCount DEF TabsInv
<1>4. occasions' \in Amounts
  BY <1>1, OccasionsCount DEF TabsInv
<1>5. ASSUME NEW q \in QueryTabs!Statements
       PROVE  Cardinality({u \in Tabs : QueryTabs!Wants(u, cache) /\ tab'[u].sql = q}) + pressed[q] + occasions[q]
                <= Cardinality(Bare(q)) + pressed'[q] + occasions'[q]
  <2> DEFINE W == {u \in Tabs : QueryTabs!Wants(u, cache) /\ tab'[u].sql = q}
  <2>1. W \subseteq shows(q)
    BY <1>1, <1>2
  <2>2. Cardinality(Bare(q)) \in Nat
    BY TabsCounted DEF TabsInv
  <2> HIDE DEF W, shows
  <2>3. Cardinality(W) <= Cardinality(shows(q)) /\ Cardinality(W) \in Nat /\ Cardinality(shows(q)) \in Nat
    BY <1>3, <2>1, SubCount
  <2>4. pressed'[q] = pressed[q]
    BY <1>1
  <2>5. Cardinality(W) + pressed[q] + occasions[q] <= Cardinality(Bare(q)) + pressed'[q] + occasions'[q]
    BY <1>3, <2>2, <2>3, <2>4
  <2> QED
    BY <2>5 DEF W
<1>6. /\ requests \in SUBSET Query /\ IsFiniteSet(requests) /\ Covers(shown, cache, requests) /\ NoncesPast(shown, tab')
      /\ active' \in Conns /\ moves' \in Nat
      /\ kept' \in [Tabs -> QueryTabs!Statements \cup {"none"}] /\ \A u \in Tabs : kept'[u] # "none" => tab'[u].nonce # 0
      /\ pressed' \in Amounts /\ confirms' \in Amounts /\ ran' = ran
      /\ asking' = QueryTabs!NoQuestion \/ (asking' \in requests /\ asking'.pc = "asked" /\ asking'.key.sql = "drop")
      /\ ran["drop"] + Cardinality(Of(Agains(requests), "drop")) <= confirms'["drop"]
  BY <1>1 DEF TabsInv, TabsTyped, ShownKnown, AskedWaits, AgainBounded
<1>7. TabsFit(tab', QueryTabs!Counts')
  BY <1>1 DEF TabsInv, TabsTyped, QueryTabs!Counts
<1>8. \A q \in QueryTabs!Statements : Cardinality(Of(requests, q)) <= Cardinality(Of(requests, q))
  BY TabsCounted DEF TabsInv
<1> QED
  BY <1>1, <1>4, <1>5, <1>6, <1>7, <1>8, RendersKeep

\* Who has closed a tab is somebody else from then on.
LEMMA CloseKeeps == ASSUME TabsInv, NEW t \in Tabs, QueryTabs!Close(t) PROVE TabsInv'
<1> DEFINE row == [sql |-> "none", nonce |-> 0]
           before == {<<IF p[1] = t THEN "closed" ELSE p[1], p[2]>> : p \in shown}
<1>1. /\ tab' = [tab EXCEPT ![t] = row] /\ kept' = [kept EXCEPT ![t] = "none"] /\ moves' = moves + 1
      /\ UNCHANGED <<active, asking, faults, pressed, occasions, confirms, ran>>
      /\ QueryTabs!Render(cache, requests, before)
  BY DEF QueryTabs!Close, QueryTabs!Move
<1>2. row \in TabRow /\ row.sql = "none" /\ row.nonce = 0
  BY DEF TabRow
<1> HIDE DEF row
<1>3. tab \in [Tabs -> TabRow]
  BY DEF TabsInv, TabsTyped, TabsFit
<1>4. /\ tab' \in [Tabs -> TabRow] /\ tab'[t] = row /\ \A u \in Tabs : u # t => tab'[u] = tab[u]
  BY <1>1, <1>2, <1>3
<1>5. TabsFit(tab', QueryTabs!Counts')
  <2>1. PICK n : n = QueryTabs!Counts /\ n = QueryTabs!Counts'
    BY <1>1 DEF QueryTabs!Counts
  <2>2. TabsFit(tab, n)
    BY <2>1 DEF TabsInv, TabsTyped
  <2>3. TabsFit(tab', n)
    BY <1>2, <1>4, <2>2 DEF TabsFit
  <2> QED
    BY <2>1, <2>3
<1>6. NoncesPast(before, tab')
  <2>1. NoncesPast(shown, tab)
    BY DEF TabsInv, ShownKnown
  <2>2. ASSUME NEW p \in shown
        PROVE  /\ <<IF p[1] = t THEN "closed" ELSE p[1], p[2]>> \in (Tabs \cup {"closed"}) \X QueryTabs!Keys
               /\ p[1] # t /\ p[1] \in Tabs => p[2].nonce <= tab'[p[1]].nonce
    BY <1>4, <2>1 DEF NoncesPast
  <2>3. ASSUME NEW x \in before PROVE x \in (Tabs \cup {"closed"}) \X QueryTabs!Keys /\ (x[1] \in Tabs => x[2].nonce <= tab'[x[1]].nonce)
    <3>1. PICK p \in shown : x = <<IF p[1] = t THEN "closed" ELSE p[1], p[2]>>
      BY <2>3
    <3> QED
      BY <2>2, <3>1, TabsAssumption
  <2> QED
    BY <2>3 DEF NoncesPast
<1>7. Covers(before, cache, requests)
  <2>1. Covers(shown, cache, requests)
    BY DEF TabsInv, ShownKnown
  <2>2. \A p \in shown : \E x \in before : x[2] = p[2]
    <3>1. ASSUME NEW p \in shown PROVE \E x \in before : x[2] = p[2]
      <4>1. <<IF p[1] = t THEN "closed" ELSE p[1], p[2]>> \in before
        OBVIOUS
      <4> QED
        BY <4>1
    <3> QED
      BY <3>1
  <2> HIDE DEF before
  <2> QED
    BY <2>1, <2>2 DEF Covers
<1> HIDE DEF before
<1>8. /\ requests \in SUBSET Query /\ IsFiniteSet(requests)
      /\ active' \in Conns /\ moves' \in Nat
      /\ kept' \in [Tabs -> QueryTabs!Statements \cup {"none"}] /\ \A u \in Tabs : kept'[u] # "none" => tab'[u].nonce # 0
      /\ pressed' \in Amounts /\ occasions' \in Amounts /\ confirms' \in Amounts /\ ran' = ran
      /\ asking' = QueryTabs!NoQuestion \/ (asking' \in requests /\ asking'.pc = "asked" /\ asking'.key.sql = "drop")
      /\ ran["drop"] + Cardinality(Of(Agains(requests), "drop")) <= confirms'["drop"]
  BY <1>1, <1>4 DEF TabsInv, TabsTyped, ShownKnown, AskedWaits, AgainBounded
<1>9. \A q \in QueryTabs!Statements :
        /\ Cardinality({u \in Tabs : QueryTabs!Wants(u, cache) /\ tab'[u].sql = q}) + pressed[q] + occasions[q]
              <= Cardinality(Bare(q)) + pressed'[q] + occasions'[q]
        /\ Cardinality(Of(requests, q)) <= Cardinality(Of(requests, q))
  BY <1>1, <1>2, <1>4, FetchesBare
<1> QED
  BY <1>1, <1>5, <1>6, <1>7, <1>8, <1>9, RendersKeep

\* A request that becomes another one for the same statement.
LEMMA SwapCount ==
  ASSUME NEW R, IsFiniteSet(R), NEW old \in R, NEW new, new.key = old.key
  PROVE  /\ IsFiniteSet((R \ {old}) \cup {new})
         /\ \A q : Cardinality(Of((R \ {old}) \cup {new}, q)) <= Cardinality(Of(R, q))
<1> DEFINE all == (R \ {old}) \cup {new}
<1>1. IsFiniteSet(R \ {old})
  BY FS_RemoveElement
<1>2. IsFiniteSet(all)
  BY <1>1, FS_AddElement
<1>3. ASSUME NEW q PROVE Cardinality(Of(all, q)) <= Cardinality(Of(R, q))
  <2>1. IsFiniteSet(Of(R, q)) /\ Cardinality(Of(R, q)) \in Nat
    <3>1. Of(R, q) \subseteq R
      BY DEF Of
    <3> QED
      BY <3>1, SubCount
  <2>2. CASE old.key.sql # q
    <3>1. Of(all, q) \subseteq Of(R, q)
      BY <2>2 DEF Of
    <3> QED
      BY <2>1, <3>1, SubCount
  <2>3. CASE old.key.sql = q
    <3>1. PICK rest : rest = Of(R, q) \ {old}
      OBVIOUS
    <3>2. old \in Of(R, q) /\ Of(all, q) \subseteq rest \cup {new}
      BY <2>3, <3>1 DEF Of
    <3>3. IsFiniteSet(rest) /\ Cardinality(rest) = Cardinality(Of(R, q)) - 1
      BY <2>1, <3>1, <3>2, FS_RemoveElement
    <3>4. IsFiniteSet({new}) /\ Cardinality({new}) = 1
      BY FS_Singleton
    <3>5. Cardinality(Of(all, q)) <= Cardinality(rest) + 1 /\ Cardinality(Of(all, q)) \in Nat
      BY <3>2, <3>3, <3>4, PartCount
    <3> QED
      BY <2>1, <3>3, <3>5
  <2> QED
    BY <2>2, <2>3
<1> QED
  BY <1>2, <1>3

LEMMA ConfirmKeeps == ASSUME TabsInv, QueryTabs!Confirm PROVE TabsInv'
<1> DEFINE new == [asking EXCEPT !.pc = "again"]
           sent == (requests \ {asking}) \cup {new}
<1>1. /\ asking # QueryTabs!NoQuestion /\ asking' = QueryTabs!NoQuestion
      /\ confirms' = [confirms EXCEPT ![asking.key.sql] = @ + 1]
      /\ UNCHANGED <<active, tab, kept, faults, moves, pressed, occasions, ran>>
      /\ QueryTabs!Render(cache, sent, shown)
  BY DEF QueryTabs!Confirm
<1>2. asking \in requests /\ asking.pc = "asked" /\ asking.key.sql = "drop" /\ asking \in Query
  BY <1>1 DEF TabsInv, AskedWaits, TabsTyped
<1>3. new \in Query /\ new.pc = "again" /\ new.key = asking.key /\ new.home = asking.home
  BY <1>2 DEF Query
<1> HIDE DEF new
<1>4. sent \in SUBSET Query /\ IsFiniteSet(sent)
  BY <1>2, <1>3, SwapCount DEF TabsInv, TabsTyped
<1>5. confirms' \in Amounts /\ confirms'["drop"] = confirms["drop"] + 1 /\ "drop" \in QueryTabs!Statements
  BY <1>1, <1>2 DEF TabsInv, TabsTyped, Amounts, QueryTabs!Statements
<1>6. ran["drop"] + Cardinality(Of(Agains(sent), "drop")) <= confirms'["drop"]
  <2>1. Of(Agains(sent), "drop") \subseteq Of(Agains(requests), "drop") \cup {new}
    BY DEF Of, Agains
  <2>2. /\ IsFiniteSet(Of(Agains(requests), "drop")) /\ Cardinality(Of(Agains(requests), "drop")) \in Nat
        /\ ran["drop"] \in Nat /\ confirms["drop"] \in Nat
        /\ ran["drop"] + Cardinality(Of(Agains(requests), "drop")) <= confirms["drop"]
    BY <1>5, TabsCounted DEF TabsInv, AgainBounded
  <2>3. IsFiniteSet({new}) /\ Cardinality({new}) = 1
    BY FS_Singleton
  <2>4. /\ Cardinality(Of(Agains(sent), "drop")) <= Cardinality(Of(Agains(requests), "drop")) + 1
        /\ Cardinality(Of(Agains(sent), "drop")) \in Nat
    BY <2>1, <2>2, <2>3, PartCount
  <2> QED
    BY <1>5, <2>2, <2>4
<1>7. \A q \in QueryTabs!Statements : Cardinality(Of(sent, q)) <= Cardinality(Of(requests, q))
  BY <1>2, <1>3, SwapCount DEF TabsInv, TabsTyped
<1>8. Covers(shown, cache, sent)
  BY <1>2, <1>3 DEF TabsInv, ShownKnown, Covers
<1> HIDE DEF sent
<1>9. /\ active' \in Conns /\ moves' \in Nat /\ NoncesPast(shown, tab')
      /\ kept' \in [Tabs -> QueryTabs!Statements \cup {"none"}] /\ \A u \in Tabs : kept'[u] # "none" => tab'[u].nonce # 0
      /\ pressed' \in Amounts /\ occasions' \in Amounts /\ ran' = ran /\ tab' = tab /\ active' = active
  BY <1>1 DEF TabsInv, TabsTyped, ShownKnown
<1>10. TabsFit(tab', QueryTabs!Counts')
  BY <1>1 DEF TabsInv, TabsTyped, QueryTabs!Counts
<1>11. \A q \in QueryTabs!Statements :
         Cardinality({u \in Tabs : QueryTabs!Wants(u, cache) /\ tab'[u].sql = q}) + pressed[q] + occasions[q]
           <= Cardinality(Bare(q)) + pressed'[q] + occasions'[q]
  BY <1>1, <1>9, FetchesBare
<1> QED
  BY <1>1, <1>4, <1>5, <1>6, <1>7, <1>8, <1>9, <1>10, <1>11, RendersKeep

\* A request that is answered or given up leaves the count for its execution.
LEMMA SettlesKeep ==
  ASSUME TabsInv, NEW r \in requests, NEW entry \in QueryTabs!Entry \ {"none"}, QueryTabs!Settle(r, entry),
         UNCHANGED <<active, tab, kept, moves, shown, pressed, occasions, confirms>>,
         asking' = QueryTabs!NoQuestion \/ (asking' = asking /\ asking # r),
         ran' = ran \/ (QueryTabs!Executed(r) /\ QueryTabs!Admitted(r))
  PROVE  TabsInv'
<1>1. /\ requests' = requests \ {r} /\ r \in Query
      /\ cache' = IF r.home = "cache" THEN [cache EXCEPT ![r.key] = entry] ELSE cache
  BY DEF QueryTabs!Settle, TabsInv, TabsTyped
<1>2. r.key \in QueryTabs!Keys /\ r.key.sql \in QueryTabs!Statements
  BY <1>1 DEF Query, QueryTabs!Keys
<1>3. /\ cache' \in [QueryTabs!Keys -> QueryTabs!Entry]
      /\ \A k \in QueryTabs!Keys : cache'[k] = cache[k] \/ (k = r.key /\ r.home = "cache" /\ cache'[k] # "none")
  BY <1>1, <1>2 DEF TabsInv, TabsTyped
<1>4. ran' \in Amounts
  BY <1>2 DEF TabsInv, TabsTyped, Amounts, QueryTabs!Executed
<1>5. IsFiniteSet(requests')
  BY <1>1, FS_RemoveElement DEF TabsInv, TabsTyped
<1>6. TabsTyped'
  <2>1. QueryTabs!Counts' = QueryTabs!Counts
    BY DEF QueryTabs!Counts
  <2> QED
    BY <1>1, <1>3, <1>4, <1>5, <2>1 DEF TabsInv, TabsTyped
<1>7. AskedWaits'
  BY <1>1 DEF TabsInv, AskedWaits
<1>8. ShownKnown'
  BY <1>1, <1>3 DEF TabsInv, ShownKnown, NoncesPast, Covers
<1>9. AgainBounded'
  <2>1. "drop" \in QueryTabs!Statements
    BY DEF QueryTabs!Statements
  <2>2. /\ IsFiniteSet(Of(Agains(requests), "drop")) /\ Cardinality(Of(Agains(requests), "drop")) \in Nat
        /\ ran["drop"] \in Nat /\ confirms["drop"] \in Nat
        /\ ran["drop"] + Cardinality(Of(Agains(requests), "drop")) <= confirms["drop"]
    BY <2>1, TabsCounted DEF TabsInv, AgainBounded
  <2>3. Of(Agains(requests'), "drop") = Of(Agains(requests), "drop") \ {r}
    BY <1>1 DEF Of, Agains
  <2>4. CASE r \in Of(Agains(requests), "drop")
    <3>1. Cardinality(Of(Agains(requests'), "drop")) = Cardinality(Of(Agains(requests), "drop")) - 1
      BY <2>2, <2>3, <2>4, FS_RemoveElement
    <3>2. ran'["drop"] <= ran["drop"] + 1 /\ ran'["drop"] \in Nat
      BY <1>2, <1>4, <2>1, <2>2 DEF TabsInv, TabsTyped, Amounts, QueryTabs!Executed
    <3> QED
      BY <2>2, <3>1, <3>2 DEF AgainBounded
  <2>5. CASE r \notin Of(Agains(requests), "drop")
    <3>1. Of(Agains(requests'), "drop") = Of(Agains(requests), "drop")
      BY <2>3, <2>5
    <3>2. r.pc = "again" => r.key.sql # "drop"
      BY <2>5 DEF Of, Agains
    <3>3. ran'["drop"] = ran["drop"]
      BY <1>2, <2>1, <3>2 DEF TabsInv, TabsTyped, Amounts, QueryTabs!Executed, QueryTabs!Admitted
    <3> QED
      BY <2>2, <3>1, <3>3 DEF AgainBounded
  <2> QED
    BY <2>4, <2>5
<1>10. ASSUME NEW s \in QueryTabs!Statements PROVE RunsBounded(s)'
  <2>1. /\ IsFiniteSet(Of(requests, s)) /\ Cardinality(Of(requests, s)) \in Nat
        /\ IsFiniteSet(Bare(s)) /\ Cardinality(Bare(s)) \in Nat
        /\ ran[s] \in Nat /\ pressed[s] \in Nat /\ occasions[s] \in Nat
        /\ ran[s] + Cardinality(Of(requests, s)) + Cardinality(Bare(s)) <= pressed[s] + occasions[s]
    BY TabsCounted DEF TabsInv, RunsBounded
  <2>2. Bare(s)' \subseteq Bare(s)
    <3>1. ASSUME NEW t \in Tabs, tab[t].sql = s PROVE QueryTabs!Key(t)' = QueryTabs!Key(t) /\ QueryTabs!Key(t) \in QueryTabs!Keys
      <4>1. PICK n : n = QueryTabs!Counts
        OBVIOUS
      <4>2. TabsFit(tab, n) /\ active \in Conns
        BY <4>1 DEF TabsInv, TabsTyped
      <4> QED
        BY <3>1, <4>2, KeysFit DEF QueryTabs!Key, QueryTabs!Statements
    <3> QED
      BY <1>3, <3>1 DEF Bare
  <2>3. Cardinality(Bare(s)') <= Cardinality(Bare(s)) /\ Cardinality(Bare(s)') \in Nat
    BY <2>1, <2>2, SubCount
  <2>4. Of(requests', s) = IF r.key.sql = s THEN Of(requests, s) \ {r} ELSE Of(requests, s)
    BY <1>1 DEF Of
  <2>5. r.key.sql = s => r \in Of(requests, s)
    BY DEF Of
  <2>6. Cardinality(Of(requests', s)) = IF r.key.sql = s THEN Cardinality(Of(requests, s)) - 1 ELSE Cardinality(Of(requests, s))
    <3>1. PICK mine : mine = Of(requests, s)
      OBVIOUS
    <3>2. r \in mine => Cardinality(mine \ {r}) = Cardinality(mine) - 1
      BY <2>1, <3>1, FS_RemoveElement
    <3> QED
      BY <2>4, <2>5, <3>1, <3>2
  <2>7. ran'[s] \in Nat /\ ran'[s] <= IF r.key.sql = s THEN ran[s] + 1 ELSE ran[s]
    BY <1>2, <1>4, <2>1 DEF TabsInv, TabsTyped, Amounts, QueryTabs!Executed
  <2>8. Cardinality(Of(requests', s)) + ran'[s] <= Cardinality(Of(requests, s)) + ran[s] /\ Cardinality(Of(requests', s)) \in Int
    BY <2>1, <2>6, <2>7
  <2>9. ran'[s] + Cardinality(Of(requests', s)) + Cardinality(Bare(s)') <= pressed[s] + occasions[s]
    BY <2>1, <2>3, <2>7, <2>8
  <2> QED
    BY <2>9 DEF RunsBounded
<1> QED
  BY <1>6, <1>7, <1>8, <1>9, <1>10 DEF TabsInv

LEMMA AnswersKeep ==
  ASSUME TabsInv, (\E r \in requests : QueryTabs!Answer(r) \/ QueryTabs!Fail(r)) \/ QueryTabs!Cancel
  PROVE  TabsInv'
<1>1. ASSUME NEW r \in requests, QueryTabs!Answer(r) \/ QueryTabs!Fail(r) PROVE TabsInv'
  <2>1. r.pc \in {"sent", "again"} /\ asking' = asking /\ \E entry \in {"done", "failed"} : QueryTabs!Settle(r, entry)
    BY <1>1 DEF QueryTabs!Answer, QueryTabs!Fail, QueryTabs!GivenUp, QueryTabs!Admitted
  <2>2. asking' = QueryTabs!NoQuestion \/ (asking' = asking /\ asking # r)
    BY <2>1 DEF TabsInv, AskedWaits
  <2>3. UNCHANGED <<active, tab, kept, moves, shown, pressed, occasions, confirms>>
    BY <1>1 DEF QueryTabs!Answer, QueryTabs!Fail
  <2>4. ran' = ran \/ (QueryTabs!Executed(r) /\ QueryTabs!Admitted(r))
    BY <1>1 DEF QueryTabs!Answer, QueryTabs!Fail
  <2> QED
    BY <2>1, <2>2, <2>3, <2>4, SettlesKeep DEF QueryTabs!Entry
<1>2. CASE QueryTabs!Cancel
  <2>1. asking \in requests
    BY <1>2 DEF QueryTabs!Cancel, TabsInv, AskedWaits
  <2>2. /\ QueryTabs!Settle(asking, "failed") /\ asking' = QueryTabs!NoQuestion /\ ran' = ran
        /\ UNCHANGED <<active, tab, kept, moves, shown, pressed, occasions, confirms>>
    BY <1>2 DEF QueryTabs!Cancel
  <2>3. PICK r \in requests : r = asking
    BY <2>1
  <2> QED
    BY <2>2, <2>3, SettlesKeep DEF QueryTabs!Entry
<1> QED
  BY <1>1, <1>2

\* The question is asked in the place of the request, or the page that would ask it is gone.
LEMMA QuestionKeeps == ASSUME TabsInv, NEW r \in requests, QueryTabs!Ask(r) PROVE TabsInv'
<1>1. CASE r.home = "gone"
  <2>1. /\ QueryTabs!Settle(r, "failed") /\ ran' = ran /\ asking' = asking /\ r.pc = "sent"
        /\ UNCHANGED <<active, tab, kept, moves, shown, pressed, occasions, confirms>>
    BY <1>1 DEF QueryTabs!Ask, QueryTabs!Settle
  <2>2. asking' = QueryTabs!NoQuestion \/ (asking' = asking /\ asking # r)
    BY <2>1 DEF TabsInv, AskedWaits
  <2> QED
    BY <2>1, <2>2, SettlesKeep DEF QueryTabs!Entry
<1>2. CASE r.home # "gone"
  <2> DEFINE new == [r EXCEPT !.pc = "asked"]
  <2>1. /\ asking' = new /\ requests' = (requests \ {r}) \cup {new} /\ r.pc = "sent" /\ r.key.sql = "drop"
        /\ UNCHANGED <<active, tab, kept, cache, faults, moves, shown, pressed, occasions, confirms, ran>>
    BY <1>2 DEF QueryTabs!Ask
  <2>2. r \in Query
    BY DEF TabsInv, TabsTyped
  <2>3. new \in Query /\ new.pc = "asked" /\ new.key = r.key /\ new.home = r.home
    BY <2>2 DEF Query
  <2> HIDE DEF new
  <2>4. IsFiniteSet(requests') /\ \A s : Cardinality(Of(requests', s)) <= Cardinality(Of(requests, s))
    BY <2>1, <2>3, SwapCount DEF TabsInv, TabsTyped
  <2>5. TabsTyped'
    <3>1. QueryTabs!Counts' = QueryTabs!Counts
      BY <2>1 DEF QueryTabs!Counts
    <3> QED
      BY <2>1, <2>3, <2>4, <3>1 DEF TabsInv, TabsTyped
  <2>6. AskedWaits' /\ ShownKnown'
    BY <2>1, <2>3 DEF TabsInv, AskedWaits, ShownKnown, NoncesPast, Covers
  <2>7. Agains(requests') = Agains(requests)
    BY <2>1, <2>3 DEF Agains
  <2>8. AgainBounded'
    BY <2>1, <2>7 DEF TabsInv, AgainBounded
  <2>9. ASSUME NEW s \in QueryTabs!Statements PROVE RunsBounded(s)'
    <3>1. Bare(s)' = Bare(s)
      BY <2>1 DEF Bare, QueryTabs!Key
    <3>2. /\ Cardinality(Of(requests, s)) \in Nat /\ Cardinality(Bare(s)) \in Nat
          /\ ran[s] \in Nat /\ pressed[s] \in Nat /\ occasions[s] \in Nat
          /\ ran[s] + Cardinality(Of(requests, s)) + Cardinality(Bare(s)) <= pressed[s] + occasions[s]
      BY TabsCounted DEF TabsInv, RunsBounded
    <3>3. Cardinality(Of(requests', s)) \in Nat
      <4>1. Of(requests', s) \subseteq requests'
        BY DEF Of
      <4> QED
        BY <2>4, <4>1, SubCount
    <3>4. ran[s] + Cardinality(Of(requests', s)) + Cardinality(Bare(s)) <= pressed[s] + occasions[s]
      BY <2>4, <3>2, <3>3
    <3> QED
      BY <2>1, <3>1, <3>4 DEF RunsBounded
  <2> QED
    BY <2>5, <2>6, <2>8, <2>9 DEF TabsInv
<1> QED
  BY <1>1, <1>2

LEMMA AgeKeeps == ASSUME TabsInv, NEW k \in QueryTabs!Keys, QueryTabs!Age(k) PROVE TabsInv'
<1>1. /\ cache[k] = "done" /\ cache' = [cache EXCEPT ![k] = "stale"]
      /\ UNCHANGED <<active, tab, kept, requests, asking, faults, moves, shown, pressed, occasions, confirms, ran>>
  BY DEF QueryTabs!Age
<1>2. cache \in [QueryTabs!Keys -> QueryTabs!Entry]
  BY DEF TabsInv, TabsTyped
<1>3. /\ cache' \in [QueryTabs!Keys -> QueryTabs!Entry]
      /\ \A q \in QueryTabs!Keys : cache'[q] # "none" <=> cache[q] # "none"
  BY <1>1, <1>2 DEF QueryTabs!Entry
<1>4. TabsTyped'
  BY <1>1, <1>3 DEF TabsInv, TabsTyped, QueryTabs!Counts
<1>5. AskedWaits' /\ ShownKnown' /\ AgainBounded'
  BY <1>1, <1>3 DEF TabsInv, AskedWaits, ShownKnown, NoncesPast, Covers, AgainBounded
<1>6. ASSUME NEW s \in QueryTabs!Statements PROVE RunsBounded(s)'
  <2>1. ASSUME NEW t \in Tabs, tab[t].sql = s PROVE QueryTabs!Key(t)' = QueryTabs!Key(t) /\ QueryTabs!Key(t) \in QueryTabs!Keys
    <3>1. PICK n : n = QueryTabs!Counts
      OBVIOUS
    <3>2. TabsFit(tab, n) /\ active \in Conns
      BY <3>1 DEF TabsInv, TabsTyped
    <3> QED
      BY <1>1, <2>1, <3>2, KeysFit DEF QueryTabs!Key, QueryTabs!Statements
  <2>2. Bare(s)' = Bare(s)
    BY <1>1, <1>3, <2>1 DEF Bare
  <2> QED
    BY <1>1, <2>2 DEF TabsInv, RunsBounded
<1> QED
  BY <1>4, <1>5, <1>6 DEF TabsInv

\* Requests that are answered into nothing from now on are as many as they were.
LEMMA ImagesCount ==
  ASSUME NEW R, IsFiniteSet(R), NEW f, \A r \in R : f[r].key = r.key /\ f[r].pc = r.pc,
         NEW images, images = {f[r] : r \in R}
  PROVE  /\ IsFiniteSet(images)
         /\ \A q : /\ Cardinality(Of(images, q)) <= Cardinality(Of(R, q))
                   /\ Cardinality(Of(Agains(images), q)) <= Cardinality(Of(Agains(R), q))
                   /\ Cardinality(Of(images, q)) \in Nat
                   /\ Cardinality(Of(Agains(images), q)) \in Nat
<1>1. IsFiniteSet(images)
  BY ImageCount
<1>2. ASSUME NEW q
      PROVE  /\ Cardinality(Of(images, q)) <= Cardinality(Of(R, q))
             /\ Cardinality(Of(Agains(images), q)) <= Cardinality(Of(Agains(R), q))
             /\ Cardinality(Of(images, q)) \in Nat
             /\ Cardinality(Of(Agains(images), q)) \in Nat
  <2>1. IsFiniteSet(Of(R, q)) /\ IsFiniteSet(Of(Agains(R), q))
    <3>1. Of(R, q) \subseteq R /\ Of(Agains(R), q) \subseteq R
      BY DEF Of, Agains
    <3> QED
      BY <3>1, SubCount
  <2>2. Of(images, q) = {f[r] : r \in Of(R, q)}
    BY DEF Of
  <2>3. Of(Agains(images), q) = {f[r] : r \in Of(Agains(R), q)}
    BY DEF Of, Agains
  <2>4. ASSUME NEW S, IsFiniteSet(S)
        PROVE  Cardinality({f[r] : r \in S}) <= Cardinality(S) /\ Cardinality({f[r] : r \in S}) \in Nat
    BY <2>4, ImageCount
  <2>5. /\ Cardinality({f[r] : r \in Of(R, q)}) <= Cardinality(Of(R, q))
        /\ Cardinality({f[r] : r \in Of(R, q)}) \in Nat
    BY <2>1, <2>4
  <2>6. /\ Cardinality({f[r] : r \in Of(Agains(R), q)}) <= Cardinality(Of(Agains(R), q))
        /\ Cardinality({f[r] : r \in Of(Agains(R), q)}) \in Nat
    BY <2>1, <2>4
  <2> QED
    BY <2>2, <2>3, <2>5, <2>6
<1> QED
  BY <1>1, <1>2

\* What is cleared from under the other tabs is an occasion for each to fetch it again.
LEMMA ClearKeeps == ASSUME TabsInv, NEW t \in Tabs, QueryTabs!Clear(t) PROVE TabsInv'
<1> DEFINE showing == [u \in Tabs |-> IF u = t THEN "none" ELSE tab[u].sql]
           row == [tab[t] EXCEPT !.sql = "none"]
           f == [r \in requests |-> IF r.key.conn = active /\ r.home = "cache" THEN [r EXCEPT !.home = "cleared"] ELSE r]
<1>1. /\ tab' = [tab EXCEPT ![t] = row] /\ moves' = moves + 1 /\ asking = QueryTabs!NoQuestion
      /\ cache' = [k \in QueryTabs!Keys |-> IF k.conn = active THEN "none" ELSE cache[k]]
      /\ requests' = {IF r.key.conn = active /\ r.home = "cache" THEN [r EXCEPT !.home = "cleared"] ELSE r : r \in requests}
      /\ QueryTabs!Occasion(showing)
      /\ UNCHANGED <<active, kept, asking, faults, shown, pressed, confirms, ran>>
  BY DEF QueryTabs!Clear, QueryTabs!Move
<1>2. requests' = {f[r] : r \in requests}
  BY <1>1
<1>3. ASSUME NEW r \in requests
      PROVE  f[r] \in Query /\ f[r].key = r.key /\ f[r].pc = r.pc /\ (f[r].home = "cache" => r.home = "cache")
  <2>1. r \in Query
    BY DEF TabsInv, TabsTyped
  <2>2. CASE r.key.conn = active /\ r.home = "cache"
    <3>1. f[r] = [r EXCEPT !.home = "cleared"]
      BY <2>2
    <3> HIDE DEF f
    <3> QED
      BY <2>1, <3>1 DEF Query
  <2>3. CASE ~(r.key.conn = active /\ r.home = "cache")
    <3>1. f[r] = r
      BY <2>3
    <3> HIDE DEF f
    <3> QED
      BY <2>1, <3>1
  <2> QED
    BY <2>2, <2>3
<1> HIDE DEF f
<1>4. /\ IsFiniteSet(requests')
      /\ \A q : /\ Cardinality(Of(requests', q)) <= Cardinality(Of(requests, q)) /\ Cardinality(Of(requests', q)) \in Nat
                /\ Cardinality(Of(Agains(requests'), q)) <= Cardinality(Of(Agains(requests), q))
                /\ Cardinality(Of(Agains(requests'), q)) \in Nat
  <2>1. PICK images : images = requests'
    OBVIOUS
  <2>2. IsFiniteSet(requests) /\ images = {f[r] : r \in requests}
    BY <1>2, <2>1 DEF TabsInv, TabsTyped
  <2>3. /\ IsFiniteSet(images)
        /\ \A q : /\ Cardinality(Of(images, q)) <= Cardinality(Of(requests, q)) /\ Cardinality(Of(images, q)) \in Nat
                  /\ Cardinality(Of(Agains(images), q)) <= Cardinality(Of(Agains(requests), q))
                  /\ Cardinality(Of(Agains(images), q)) \in Nat
    BY <1>3, <2>2, ImagesCount
  <2> QED
    BY <2>1, <2>3
<1>5. tab \in [Tabs -> TabRow]
  BY DEF TabsInv, TabsTyped, TabsFit
<1>6. row \in TabRow /\ row.sql = "none" /\ row.nonce = tab[t].nonce
  BY <1>5 DEF TabRow
<1> HIDE DEF row
<1>7. /\ tab' \in [Tabs -> TabRow]
      /\ \A u \in Tabs : tab'[u].nonce = tab[u].nonce /\ tab'[u].sql = IF u = t THEN "none" ELSE tab[u].sql
  BY <1>1, <1>5, <1>6
<1>8. \A u \in Tabs : showing[u] = tab'[u].sql
  BY <1>7
<1> HIDE DEF showing
<1>9. PICK n : n = QueryTabs!Counts /\ n = QueryTabs!Counts'
  BY <1>1 DEF QueryTabs!Counts
<1>10. TabsFit(tab', n)
  <2>1. TabsFit(tab, n)
    BY <1>9 DEF TabsInv, TabsTyped
  <2> QED
    BY <1>7, <2>1 DEF TabsFit
<1>11. TabsTyped'
  <2>1. occasions' \in Amounts
    BY <1>1, OccasionsCount DEF TabsInv
  <2>2. cache' \in [QueryTabs!Keys -> QueryTabs!Entry]
    BY <1>1 DEF TabsInv, TabsTyped, QueryTabs!Entry
  <2>3. requests' \subseteq Query
    BY <1>2, <1>3
  <2>4. \A u \in Tabs : kept'[u] # "none" => tab'[u].nonce # 0
    BY <1>1, <1>7 DEF TabsInv, TabsTyped
  <2>5. TabsFit(tab', QueryTabs!Counts')
    BY <1>9, <1>10
  <2>6. moves' \in Nat
    BY <1>1 DEF TabsInv, TabsTyped
  <2> QED
    BY <1>1, <1>4, <2>1, <2>2, <2>3, <2>4, <2>5, <2>6 DEF TabsInv, TabsTyped
<1>12. AskedWaits' /\ ShownKnown'
  <2>1. AskedWaits'
    BY <1>1 DEF AskedWaits
  <2>2. NoncesPast(shown, tab')
    BY <1>7 DEF TabsInv, ShownKnown, NoncesPast
  <2>3. Covers(shown, cache', requests')
    BY <1>1, <1>2, <1>3 DEF TabsInv, ShownKnown, Covers
  <2> QED
    BY <1>1, <2>1, <2>2, <2>3 DEF ShownKnown
<1>13. AgainBounded'
  <2>1. "drop" \in QueryTabs!Statements
    BY DEF QueryTabs!Statements
  <2>2. /\ Cardinality(Of(Agains(requests), "drop")) \in Nat /\ ran["drop"] \in Nat /\ confirms["drop"] \in Nat
        /\ ran["drop"] + Cardinality(Of(Agains(requests), "drop")) <= confirms["drop"]
    BY <2>1, TabsCounted DEF TabsInv, AgainBounded
  <2>3. ran'["drop"] = ran["drop"] /\ confirms'["drop"] = confirms["drop"]
    BY <1>1
  <2>4. /\ Cardinality(Of(Agains(requests'), "drop")) <= Cardinality(Of(Agains(requests), "drop"))
        /\ Cardinality(Of(Agains(requests'), "drop")) \in Nat
    BY <1>4
  <2> QED
    BY <2>2, <2>3, <2>4 DEF AgainBounded
<1>14. ASSUME NEW s \in QueryTabs!Statements PROVE RunsBounded(s)'
  <2> DEFINE shows == {u \in Tabs : showing[u] = s}
  <2>1. /\ Cardinality(Of(requests, s)) \in Nat /\ Cardinality(Bare(s)) \in Nat
        /\ ran[s] \in Nat /\ pressed[s] \in Nat /\ occasions[s] \in Nat
        /\ ran[s] + Cardinality(Of(requests, s)) + Cardinality(Bare(s)) <= pressed[s] + occasions[s]
    BY TabsCounted DEF TabsInv, RunsBounded
  <2>2. occasions'[s] = occasions[s] + Cardinality(shows) /\ IsFiniteSet(shows) /\ Cardinality(shows) \in Nat
    BY <1>1, OccasionsCount DEF TabsInv
  <2>3. Bare(s)' \subseteq shows
    BY <1>8 DEF Bare
  <2> HIDE DEF shows
  <2>4. Cardinality(Bare(s)') <= Cardinality(shows) /\ Cardinality(Bare(s)') \in Nat
    BY <2>2, <2>3, SubCount
  <2>5. Cardinality(Of(requests', s)) <= Cardinality(Of(requests, s)) /\ Cardinality(Of(requests', s)) \in Nat
    BY <1>4
  <2>6. ran[s] + Cardinality(Of(requests', s)) + Cardinality(Bare(s)') <= pressed[s] + occasions'[s]
    BY <2>1, <2>2, <2>4, <2>5
  <2> QED
    BY <1>1, <2>6 DEF RunsBounded
<1> QED
  BY <1>11, <1>12, <1>13, <1>14 DEF TabsInv

\* The page that is loaded fetches what its tabs had executed, each an occasion; what is asked
\* is forgotten, and the other requests left behind may still be carried out.
LEMMA LoadKeeps == ASSUME TabsInv, QueryTabs!Load PROVE TabsInv'
<1> DEFINE row(t) == [sql |-> kept[t], nonce |-> IF kept[t] = "none" THEN 0 ELSE 1]
           f == [r \in requests |-> [r EXCEPT !.home = "gone"]]
           R == {q \in requests : q.pc # "asked"}
           key == [t \in Tabs |-> QueryTabs!Key(t)']
           T == {t \in Tabs : tab'[t].sql # "none"}
           left == {f[r] : r \in R}
<1>1. /\ tab' = [t \in Tabs |-> row(t)] /\ asking' = QueryTabs!NoQuestion /\ moves' = moves + 1
      /\ QueryTabs!Occasion(kept) /\ shown' = QueryTabs!Showing'
      /\ UNCHANGED <<active, kept, faults, pressed, confirms, ran>>
  BY DEF QueryTabs!Load, QueryTabs!Move
<1>2. /\ cache' = [k \in QueryTabs!Keys |-> IF k \in {key[t] : t \in T} THEN "waiting" ELSE "none"]
      /\ requests' = left \cup Fetches(key, T, moves')
  BY DEF QueryTabs!Load, Fetches, RequestFor
<1>3. ASSUME NEW r \in requests
      PROVE  f[r] \in Query /\ f[r].key = r.key /\ f[r].pc = r.pc /\ f[r].home = "gone"
  <2>1. r \in Query /\ f[r] = [r EXCEPT !.home = "gone"]
    BY DEF TabsInv, TabsTyped
  <2> HIDE DEF f
  <2> QED
    BY <2>1 DEF Query
<1>4. \A t \in Tabs : /\ key[t] = [conn |-> active', sql |-> tab'[t].sql, nonce |-> tab'[t].nonce]
                      /\ key[t] = QueryTabs!Key(t)' /\ key[t].sql = tab'[t].sql /\ key[t].nonce = tab'[t].nonce
  BY DEF QueryTabs!Key
<1>5. QueryTabs!Showing' = {<<t, key[t]>> : t \in T}
  BY <1>4 DEF QueryTabs!Showing
<1> HIDE DEF f, key
<1>6. /\ tab' \in [Tabs -> TabRow]
      /\ \A t \in Tabs : tab'[t].sql = kept[t] /\ tab'[t].nonce = IF kept[t] = "none" THEN 0 ELSE 1
  <2>1. \A t \in Tabs : row(t) \in TabRow /\ row(t).sql = kept[t] /\ row(t).nonce = IF kept[t] = "none" THEN 0 ELSE 1
    BY DEF TabsInv, TabsTyped, TabRow
  <2> HIDE DEF row
  <2> QED
    BY <1>1, <2>1
<1>7. PICK n : n = QueryTabs!Counts /\ n = QueryTabs!Counts'
  BY <1>1 DEF QueryTabs!Counts
<1>8. TabsFit(tab', n)
  <2>1. TabsFit(tab, n)
    BY <1>7 DEF TabsInv, TabsTyped
  <2>2. n \in Nat /\ n <= MaxRuns
    BY <2>1 DEF TabsFit
  <2> QED
    BY <1>6, <2>2 DEF TabsFit
<1>9. \A t \in T : key[t] \in QueryTabs!Keys
  <2>1. active' \in Conns
    BY <1>1 DEF TabsInv, TabsTyped
  <2> QED
    BY <1>4, <1>8, <2>1, KeysFit
<1>10. /\ IsFiniteSet(R) /\ IsFiniteSet(left)
       /\ \A q : Cardinality(Of(left, q)) <= Cardinality(Of(R, q)) /\ Cardinality(Of(left, q)) \in Nat
                 /\ Cardinality(Of(Agains(left), q)) <= Cardinality(Of(Agains(R), q))
                 /\ Cardinality(Of(Agains(left), q)) \in Nat
  <2>1. IsFiniteSet(R)
    BY SubCount DEF TabsInv, TabsTyped
  <2>2. PICK images : images = left
    OBVIOUS
  <2>3. \A r \in R : f[r].key = r.key /\ f[r].pc = r.pc
    BY <1>3
  <2>4. /\ IsFiniteSet(images)
        /\ \A q : /\ Cardinality(Of(images, q)) <= Cardinality(Of(R, q)) /\ Cardinality(Of(images, q)) \in Nat
                  /\ Cardinality(Of(Agains(images), q)) <= Cardinality(Of(Agains(R), q))
                  /\ Cardinality(Of(Agains(images), q)) \in Nat
    <3> HIDE DEF R
    <3> QED
      BY <2>1, <2>2, <2>3, ImagesCount
  <2> QED
    BY <2>1, <2>2, <2>4
<1>11. /\ IsFiniteSet(requests') /\ Agains(requests') = Agains(left)
       /\ \A s : Cardinality(Of(requests', s)) <= Cardinality(Of(left, s)) + Cardinality(Fetchers(key, T, s))
  <2>1. PICK m, all : m = moves' /\ all = requests'
    OBVIOUS
  <2>2. all = left \cup Fetches(key, T, m) /\ T \in SUBSET Tabs
    BY <1>2, <2>1
  <2>3. \A s : /\ IsFiniteSet(all) /\ Agains(all) = Agains(left)
               /\ Cardinality(Of(all, s)) <= Cardinality(Of(left, s)) + Cardinality(Fetchers(key, T, s))
    <3> HIDE DEF left, T
    <3> QED
      BY <1>10, <2>2, SendsCount
  <2> QED
    BY <2>1, <2>3
<1>12. TabsTyped'
  <2>1. occasions' \in Amounts
    BY <1>1, OccasionsCount DEF TabsInv
  <2>2. cache' \in [QueryTabs!Keys -> QueryTabs!Entry]
    BY <1>2 DEF QueryTabs!Entry
  <2>3. moves' \in Nat
    BY <1>1 DEF TabsInv, TabsTyped
  <2>4. requests' \subseteq Query
    <3>1. ASSUME NEW t \in T PROVE RequestFor(key[t], moves') \in Query
      BY <1>9, <2>3 DEF RequestFor, Query
    <3>2. Fetches(key, T, moves') \subseteq Query
      BY <3>1 DEF Fetches
    <3> QED
      BY <1>2, <1>3, <3>2
  <2>5. \A t \in Tabs : kept'[t] # "none" => tab'[t].nonce # 0
    BY <1>1, <1>6
  <2>6. TabsFit(tab', QueryTabs!Counts')
    BY <1>7, <1>8
  <2> QED
    BY <1>1, <1>11, <2>1, <2>2, <2>3, <2>4, <2>5, <2>6 DEF TabsInv, TabsTyped
<1>13. AskedWaits' /\ ShownKnown'
  <2>1. AskedWaits'
    BY <1>1 DEF AskedWaits
  <2>2. ASSUME NEW p \in shown'
        PROVE  p \in (Tabs \cup {"closed"}) \X QueryTabs!Keys /\ (p[1] \in Tabs => p[2].nonce <= tab'[p[1]].nonce)
    <3>1. PICK t \in T : p = <<t, key[t]>>
      BY <1>1, <1>5, <2>2
    <3>2. tab'[t].nonce \in Nat /\ key[t].nonce = tab'[t].nonce /\ key[t] \in QueryTabs!Keys
      BY <1>4, <1>6, <1>9, <3>1 DEF TabRow
    <3> QED
      BY <3>1, <3>2
  <2>3. \A t \in T : \E p \in shown' : p[2] = key[t]
    <3>1. ASSUME NEW t \in T PROVE \E p \in shown' : p[2] = key[t]
      <4>1. <<t, key[t]>> \in shown'
        BY <1>1, <1>5
      <4> QED
        BY <4>1
    <3> QED
      BY <3>1
  <2>4. \A k \in QueryTabs!Keys : cache'[k] # "none" => \E p \in shown' : p[2] = k
    BY <1>2, <2>3
  <2>5. \A r \in requests' : r.home = "cache" => \E p \in shown' : p[2] = r.key
    BY <1>2, <1>3, <2>3 DEF Fetches, RequestFor
  <2> QED
    BY <2>1, <2>2, <2>4, <2>5 DEF ShownKnown, NoncesPast, Covers
<1>14. Of(Agains(R), "drop") = Of(Agains(requests), "drop") /\ \A q : Of(R, q) \subseteq Of(requests, q)
  BY DEF Of, Agains
<1>15. AgainBounded'
  <2>1. "drop" \in QueryTabs!Statements
    BY DEF QueryTabs!Statements
  <2>2. /\ Cardinality(Of(Agains(requests), "drop")) \in Nat /\ ran["drop"] \in Nat /\ confirms["drop"] \in Nat
        /\ ran["drop"] + Cardinality(Of(Agains(requests), "drop")) <= confirms["drop"]
    BY <2>1, TabsCounted DEF TabsInv, AgainBounded
  <2>3. /\ Cardinality(Of(Agains(requests'), "drop")) <= Cardinality(Of(Agains(requests), "drop"))
        /\ Cardinality(Of(Agains(requests'), "drop")) \in Nat
    BY <1>10, <1>11, <1>14
  <2> QED
    BY <1>1, <2>2, <2>3 DEF AgainBounded
<1>16. ASSUME NEW s \in QueryTabs!Statements PROVE RunsBounded(s)'
  <2> DEFINE shows == {t \in Tabs : kept[t] = s}
  <2>1. /\ IsFiniteSet(Of(requests, s)) /\ Cardinality(Of(requests, s)) \in Nat /\ Cardinality(Bare(s)) \in Nat
        /\ ran[s] \in Nat /\ pressed[s] \in Nat /\ occasions[s] \in Nat
        /\ ran[s] + Cardinality(Of(requests, s)) + Cardinality(Bare(s)) <= pressed[s] + occasions[s]
    BY TabsCounted DEF TabsInv, RunsBounded
  <2>2. occasions'[s] = occasions[s] + Cardinality(shows) /\ IsFiniteSet(shows) /\ Cardinality(shows) \in Nat
    BY <1>1, OccasionsCount DEF TabsInv
  <2>3. Fetchers(key, T, s) \subseteq shows
    BY <1>4, <1>6 DEF Fetchers
  <2> HIDE DEF shows
  <2>4. Cardinality(Fetchers(key, T, s)) <= Cardinality(shows) /\ Cardinality(Fetchers(key, T, s)) \in Nat
    BY <2>2, <2>3, SubCount
  <2>5. Bare(s)' = {}
    <3>1. Bare(s)' = {t \in Tabs : tab'[t].sql = s /\ cache'[QueryTabs!Key(t)'] = "none"}
      BY DEF Bare
    <3>2. \A t \in Tabs : tab'[t].sql = s => cache'[QueryTabs!Key(t)'] # "none"
      BY <1>2, <1>4, <1>9 DEF QueryTabs!Statements
    <3> QED
      BY <3>1, <3>2
  <2>6. Cardinality(Of(R, s)) <= Cardinality(Of(requests, s)) /\ Cardinality(Of(R, s)) \in Nat
    BY <1>14, <2>1, SubCount
  <2>7. Cardinality(Of(requests', s)) \in Nat
    <3>1. Of(requests', s) \subseteq requests'
      BY DEF Of
    <3> QED
      BY <1>11, <3>1, SubCount
  <2>8. /\ Cardinality(Of(requests', s)) <= Cardinality(Of(left, s)) + Cardinality(Fetchers(key, T, s))
        /\ Cardinality(Of(left, s)) <= Cardinality(Of(R, s)) /\ Cardinality(Of(left, s)) \in Nat
    BY <1>10, <1>11
  <2> HIDE DEF R, left, T
  <2>9. ran[s] + Cardinality(Of(requests', s)) + 0 <= pressed[s] + occasions'[s]
    BY <2>1, <2>2, <2>4, <2>6, <2>7, <2>8
  <2> QED
    BY <1>1, <2>5, <2>9, FS_EmptySet DEF RunsBounded
<1> QED
  BY <1>12, <1>13, <1>15, <1>16 DEF TabsInv

LEMMA TabsStep == TabsInv /\ [QueryTabs!Next]_(QueryTabs!queryTabsVars) => TabsInv'
<1>1. TabsInv /\ UNCHANGED QueryTabs!queryTabsVars => TabsInv'
  <2> SUFFICES ASSUME TabsInv, UNCHANGED QueryTabs!queryTabsVars PROVE TabsInv'
    OBVIOUS
  <2>1. UNCHANGED <<active, tab, kept, cache, requests, asking, faults, moves, shown, pressed, occasions, confirms, ran>>
    BY DEF QueryTabs!queryTabsVars
  <2>2. TabsTyped'
    BY <2>1 DEF TabsInv, TabsTyped, QueryTabs!Counts
  <2>3. AskedWaits' /\ ShownKnown' /\ AgainBounded'
    BY <2>1 DEF TabsInv, AskedWaits, ShownKnown, AgainBounded
  <2>4. \A s \in QueryTabs!Statements : RunsBounded(s)'
    BY <2>1 DEF TabsInv, RunsBounded, Bare, QueryTabs!Key
  <2> QED
    BY <2>2, <2>3, <2>4 DEF TabsInv
<1> QED
  BY <1>1, RunKeeps, KeepKeeps, ClearKeeps, CloseKeeps, SwitchKeeps, LoadKeeps, AgeKeeps, AnswersKeep, QuestionKeeps, ConfirmKeeps
  DEF QueryTabs!Next

\* Only Run gives a tab its next number.
LEMMA RunSends ==
  ASSUME TabsInv, QueryTabs!Next, NEW t \in Tabs, tab'[t].nonce = tab[t].nonce + 1,
         cache[QueryTabs!Key(t)'] \in {"waiting", "done"}
  PROVE  \E p \in shown : p[1] # t /\ p[2] = QueryTabs!Key(t)'
<1>1. TabsTyped /\ tab[t] \in TabRow /\ tab[t].nonce \in Nat
  BY DEF TabsInv, TabsTyped, TabsFit, TabRow
<1>2. tab'[t] # tab[t] /\ tab'[t].nonce # tab[t].nonce /\ tab'[t].nonce # 0
  BY <1>1
<1>3. ~QueryTabs!Load
  <2>1. ASSUME QueryTabs!Load PROVE FALSE
    <3>1. tab'[t].nonce = IF kept[t] = "none" THEN 0 ELSE 1
      BY <2>1 DEF QueryTabs!Load
    <3>2. kept[t] # "none" /\ tab[t].nonce = 0
      BY <1>1, <1>2, <3>1
    <3> QED
      BY <1>1, <3>2 DEF TabsTyped
  <2> QED
    BY <2>1
<1>4. \A u \in Tabs : ~QueryTabs!Close(u) /\ ~QueryTabs!Clear(u)
  <2>1. ASSUME NEW u \in Tabs, QueryTabs!Close(u) PROVE FALSE
    <3>1. tab' = [tab EXCEPT ![u] = [sql |-> "none", nonce |-> 0]]
      BY <2>1 DEF QueryTabs!Close
    <3>2. tab \in [Tabs -> TabRow]
      BY DEF TabsInv, TabsTyped, TabsFit
    <3>3. tab'[t] = tab[t] \/ tab'[t].nonce = 0
      BY <3>1, <3>2
    <3> QED
      BY <1>2, <3>3
  <2>2. ASSUME NEW u \in Tabs, QueryTabs!Clear(u) PROVE FALSE
    <3>1. tab' = [tab EXCEPT ![u] = [tab[u] EXCEPT !.sql = "none"]]
      BY <2>2 DEF QueryTabs!Clear
    <3>2. tab \in [Tabs -> TabRow]
      BY DEF TabsInv, TabsTyped, TabsFit
    <3>3. [tab[u] EXCEPT !.sql = "none"].nonce = tab[u].nonce
      BY <3>2 DEF TabRow
    <3>4. tab'[t] = tab[t] \/ tab'[t].nonce = tab[t].nonce
      BY <3>1, <3>2, <3>3
    <3> QED
      BY <1>2, <3>4
  <2> QED
    BY <2>1, <2>2
<1>5. PICK u \in Tabs, s \in QueryTabs!Statements : QueryTabs!Run(u, s)
  BY <1>2, <1>3, <1>4 DEF QueryTabs!Next, QueryTabs!Keep, QueryTabs!Switch, QueryTabs!Age, QueryTabs!Answer, QueryTabs!Fail,
     QueryTabs!Ask, QueryTabs!Confirm, QueryTabs!Cancel
<1>6. /\ tab' = [tab EXCEPT ![u] = [sql |-> s, nonce |-> tab[u].nonce + 1]] /\ active' = active
      /\ QueryTabs!Counts < MaxRuns
  BY <1>5 DEF QueryTabs!Run
<1>7. PICK n : n = QueryTabs!Counts
  OBVIOUS
<1>8. TabsFit(tab, n) /\ n < MaxRuns /\ active \in Conns /\ tab \in [Tabs -> TabRow]
  BY <1>6, <1>7 DEF TabsInv, TabsTyped, TabsFit
<1>9. tab'[t] = [sql |-> s, nonce |-> tab[t].nonce + 1]
  BY <1>2, <1>6, <1>8
<1>10. PICK k : k = QueryTabs!Key(t)'
  OBVIOUS
<1>11. k = [conn |-> active, sql |-> s, nonce |-> tab[t].nonce + 1]
  BY <1>6, <1>9, <1>10 DEF QueryTabs!Key
<1>12. tab[t].nonce + 1 \in 1 .. MaxRuns + 1
  BY <1>1, <1>8, TabsAssumption DEF TabsFit
<1>13. k \in QueryTabs!Keys /\ k.nonce = tab[t].nonce + 1
  BY <1>8, <1>11, <1>12 DEF QueryTabs!Keys
<1>14. PICK p \in shown : p[2] = k
  BY <1>10, <1>13 DEF TabsInv, ShownKnown, Covers
<1>15. p[1] = t => k.nonce <= tab[t].nonce
  BY <1>14 DEF TabsInv, ShownKnown, NoncesPast
<1>16. p[1] # t
  BY <1>1, <1>13, <1>15
<1> QED
  BY <1>10, <1>14, <1>16

\* For any number of tabs, connections and faults: nothing is executed more often than it was
\* asked for, a destructive statement never without a confirmation of its own, and Run is not
\* answered from what the tab itself has shown before.
THEOREM StatementsRunOnce == QueryTabs!Spec => RunsAreAskedFor
<1> DEFINE Bounds == /\ \A s \in QueryTabs!Statements : ran[s] <= pressed[s] + occasions[s]
                     /\ ran["drop"] <= confirms["drop"]
           Sends == \A t \in Tabs : tab'[t].nonce = tab[t].nonce + 1 /\ cache[QueryTabs!Key(t)'] \in {"waiting", "done"}
                      => \E p \in shown : p[1] # t /\ p[2] = QueryTabs!Key(t)'
<1>1. TabsInv => Bounds
  <2> SUFFICES ASSUME TabsInv PROVE Bounds
    OBVIOUS
  <2>1. \A s \in QueryTabs!Statements : ran[s] <= pressed[s] + occasions[s]
    BY TabsCounted DEF TabsInv, RunsBounded
  <2>2. "drop" \in QueryTabs!Statements
    BY DEF QueryTabs!Statements
  <2>3. ran["drop"] <= confirms["drop"]
    BY <2>2, TabsCounted DEF TabsInv, AgainBounded
  <2> QED
    BY <2>1, <2>3
<1>2. TabsInv /\ [QueryTabs!Next]_(QueryTabs!queryTabsVars) => [Sends]_(QueryTabs!queryTabsVars)
  BY RunSends
<1> HIDE DEF Bounds, Sends
<1>3. QueryTabs!Spec => []Bounds /\ [][Sends]_(QueryTabs!queryTabsVars)
  BY <1>1, <1>2, TabsInitial, TabsStep, PTL DEF QueryTabs!Spec
<1> QED
  BY <1>3 DEF Bounds, Sends, RunsAreAskedFor, QueryTabs!RunsAreAskedFor

-----------------------------------------------------------------------------
(* The composition *)

\* Whichever of them a behaviour exercises, each component behaves as its own specification
\* says, so the theorems above hold of the browser and the server that have them all.
THEOREM EditorsKeepApart ==
  Spec => QueryTabs!Spec /\ GridEditing!Spec /\ Backup!Spec /\ Accounts!Spec
<1>1. Init => QueryTabs!Init /\ GridEditing!Init /\ Backup!Init /\ Accounts!Init
  BY DEF Init
<1>2. [Next]_vars => [QueryTabs!Next]_(QueryTabs!queryTabsVars)
  BY DEF Next, vars, tabs, QueryTabs!queryTabsVars
<1>3. [Next]_vars => [GridEditing!Next]_(GridEditing!gridVars)
  BY DEF Next, vars, grid, GridEditing!gridVars
<1>4. [Next]_vars => [Backup!Next]_(Backup!backupVars)
  BY DEF Next, vars, restore, Backup!backupVars
<1>5. [Next]_vars => [Accounts!Next]_(Accounts!accountVars)
  BY DEF Next, vars, accounts, Accounts!accountVars
<1> QED
  BY <1>1, <1>2, <1>3, <1>4, <1>5, PTL
     DEF Spec, QueryTabs!Spec, GridEditing!Spec, Backup!Spec, Accounts!Spec
=============================================================================
