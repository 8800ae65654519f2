---------------------------- MODULE ClientProofs ----------------------------
(***************************************************************************)
(* Proofs about what clients do: ClientLogin, ClientCabinet and            *)
(* ClientDossier, for any number of clients, requests, cases and files.    *)
(*                                                                         *)
(* What LoginIsSound says of codes and tokens holds because a code waits   *)
(* for one phone only, and its attempts are what it was compared with      *)
(* (WaitingIsUnused); and because what a request carries from the lookup   *)
(* to the token is about one client all the way (ClientIsTheHolder).       *)
(*                                                                         *)
(* What CabinetIsSound says holds because the cases that requests hold and *)
(* items name are the client's (CasesAreOwn), and notifications and events *)
(* are just those of the stored items (AnnouncedIsStored).                 *)
(***************************************************************************)
EXTENDS ClientLogin, ClientCabinet, ClientDossier, FiniteSetTheorems, TLAPS

-----------------------------------------------------------------------------
(* Codes and tokens                                                        *)

Waiting ==
  [code : Codes, client : ClientRows, attempts : Nat, expired : BOOLEAN]
Asking ==
  [op : {"send"}, phone : Phones, client : ClientRows, having : SUBSET ClientRows]
Minting == [op : {"mint"}, phone : Phones, client : ClientRows, code : Codes]

LoginTypeOK ==
  /\ pending \in [Phones -> Waiting \cup {NoCode}]
  /\ entering \in [Requests -> {NotEntering} \cup Asking \cup Minting]
  /\ sent \in Nat
  /\ tokens \subseteq [client : ClientRows, phone : Phones, code : Codes]
  /\ holders \in [Codes -> SUBSET ClientRows]
  /\ guesses \in [Codes -> Nat]
  /\ accepted \in [Codes -> Nat]

\* A waiting code has been sent, has let nobody in, waits for one phone, and
\* its attempts are what it was compared with.
WaitingIsUnused ==
  \A p \in Phones : pending[p] # NoCode =>
    /\ pending[p].code <= sent
    /\ pending[p].attempts = guesses[pending[p].code]
    /\ accepted[pending[p].code] = 0
    /\ \A q \in Phones \ {p} :
         pending[q] # NoCode => pending[q].code # pending[p].code

\* No code is used before it is sent, nor too often after.
CodesAreFresh ==
  \A n \in Codes :
    /\ guesses[n] <= MaxAttempts /\ accepted[n] <= 1
    /\ n > sent => guesses[n] = 0 /\ accepted[n] = 0

\* Who is looked up, waits, enters or holds a token is the one of the phone.
ClientIsTheHolder ==
  /\ \A r \in Requests :
       /\ entering[r].op = "send" => entering[r].having = {entering[r].client}
       /\ entering[r].op = "mint" =>
            /\ entering[r].code <= sent
            /\ holders[entering[r].code] = {entering[r].client}
  /\ \A p \in Phones : pending[p] # NoCode =>
       holders[pending[p].code] = {pending[p].client}
  /\ \A t \in tokens : t.code <= sent /\ holders[t.code] = {t.client}

LoginInv == LoginTypeOK /\ WaitingIsUnused /\ CodesAreFresh /\ ClientIsTheHolder

\* What an ending request leaves of the others.
LEMMA EndLoginHolds ==
  ASSUME LoginTypeOK, NEW r \in Requests, EndLogin(r)
  PROVE  /\ entering' \in [Requests -> {NotEntering} \cup Asking \cup Minting]
         /\ \A q \in Requests : entering'[q] = IF q = r THEN NotEntering ELSE entering[q]
BY DEF LoginTypeOK, EndLogin

\* A waiting code that changes but in its attempts or its age.
LEMMA Sorts ==
  ASSUME LoginTypeOK
  PROVE  /\ \A p \in Phones : pending[p] # NoCode => pending[p] \in Waiting
         /\ \A r \in Requests :
              /\ entering[r].op = "send" => entering[r] \in Asking
              /\ entering[r].op = "mint" => entering[r] \in Minting
         /\ NotEntering.op = "idle"
BY DEF LoginTypeOK, NotEntering, Asking, Minting

\* Asking for a code.
LEMMA SendKeeps ==
  ASSUME LoginInv, NEW r \in Requests, NEW p \in Phones, SendCode(r, p)
  PROVE  LoginInv'
<1>1. PICK c \in OneOrNone(p) :
        entering' = [entering EXCEPT ![r] = [op |-> "send", phone |-> p, client |-> c,
                                      having |-> Having(p)]]
  BY DEF SendCode
<1>2. c \in ClientRows /\ Having(p) = {c}
  BY DEF OneOrNone
<1>3. \A q \in Requests : entering'[q] = IF q = r
        THEN [op |-> "send", phone |-> p, client |-> c,
          having |-> {c}] ELSE entering[q]
  BY <1>1, <1>2 DEF LoginInv, LoginTypeOK
<1>4. entering' \in [Requests -> {NotEntering} \cup Asking \cup Minting]
  BY <1>1, <1>2 DEF LoginInv, LoginTypeOK, Asking
<1>5. UNCHANGED <<pending, sent, tokens, loginHistory>>
  BY DEF SendCode
<1>6. ClientIsTheHolder'
  BY <1>3, <1>5 DEF LoginInv, ClientIsTheHolder, loginHistory
<1> QED
  BY <1>4, <1>5, <1>6
  DEF LoginInv, LoginTypeOK, WaitingIsUnused, CodesAreFresh, loginHistory

\* A new code is one that nobody has used, and it is for who was looked up.
LEMMA StoreKeeps ==
  ASSUME LoginInv, NEW r \in Requests, StoreCode(r)
  PROVE  LoginInv'
<1> DEFINE n == sent + 1
           q == entering[r]
<1>1. /\ q \in Asking /\ q.having = {q.client}
      /\ n \in Codes /\ n \in Nat /\ sent \in Nat /\ n > sent
  BY Sorts DEF StoreCode, LoginInv, ClientIsTheHolder, LoginTypeOK
<1>2. /\ sent' = n
      /\ pending' = [pending EXCEPT ![q.phone] =
           [code |-> n, client |-> q.client, attempts |-> 0, expired |-> FALSE]]
      /\ holders' = [holders EXCEPT ![n] = q.having]
      /\ EndLogin(r)
      /\ UNCHANGED <<tokens, guesses, accepted>>
  BY DEF StoreCode
<1> HIDE DEF n, q
<1>3. LoginTypeOK'
  <2>1. [code |-> n, client |-> q.client, attempts |-> 0,
          expired |-> FALSE] \in Waiting
    BY <1>1 DEF Waiting, Asking
  <2> QED
    BY <1>1, <1>2, <2>1, EndLoginHolds DEF LoginInv, LoginTypeOK, Asking
<1>4. \A p \in Phones : pending'[p] = IF p = q.phone
        THEN [code |-> n, client |-> q.client, attempts |-> 0, expired |-> FALSE]
        ELSE pending[p]
  BY <1>1, <1>2 DEF LoginInv, LoginTypeOK
<1>5. guesses[n] = 0 /\ accepted[n] = 0
  BY <1>1 DEF LoginInv, CodesAreFresh
<1>6. ASSUME NEW p \in Phones, pending[p] # NoCode
      PROVE  /\ pending[p].code \in Codes
             /\ pending[p].code <= n
             /\ pending[p].code # n
  <2>1. pending[p].code \in Codes /\ pending[p].code <= sent
    BY <1>6, Sorts DEF LoginInv, WaitingIsUnused, Waiting
  <2>2. \A m \in Codes : m <= sent => m <= n /\ m # n
    BY <1>1, LoginAssumption DEF n
  <2> QED
    BY <2>1, <2>2
<1>7. WaitingIsUnused'
  <2> SUFFICES ASSUME NEW p \in Phones, pending'[p] # NoCode
      PROVE /\ pending'[p].code <= n
            /\ pending'[p].attempts = guesses[pending'[p].code]
            /\ accepted[pending'[p].code] = 0
            /\ \A o \in Phones \ {p} :
                 pending'[o] # NoCode => pending'[o].code # pending'[p].code
    BY <1>2 DEF WaitingIsUnused
  <2>1. CASE p = q.phone
    <3>1. pending'[p] = [code |-> n, client |-> q.client, attempts |-> 0,
            expired |-> FALSE]
      BY <1>4, <2>1
    <3> QED BY <1>1, <1>4, <1>5, <1>6, <2>1, <3>1
  <2>2. CASE p # q.phone
    <3>1. pending'[p] = pending[p]
      BY <1>4, <2>2
    <3>2. \A o \in Phones \ {p} : pending'[o] # NoCode =>
            pending'[o].code # pending[p].code
      BY <1>4, <1>6, <3>1 DEF LoginInv, WaitingIsUnused
    <3> QED BY <1>6, <3>1, <3>2 DEF LoginInv, WaitingIsUnused
  <2> QED BY <2>1, <2>2
<1>8. CodesAreFresh'
  <2>1. \A m \in Codes : m > n => m > sent
    BY <1>1, LoginAssumption DEF n
  <2> QED
    BY <1>2, <2>1 DEF LoginInv, CodesAreFresh
<1>9. ClientIsTheHolder'
  <2>1. \A m \in Codes : m # n => holders'[m] = holders[m]
    BY <1>2 DEF LoginInv, LoginTypeOK
  <2>2. holders'[n] = {q.client}
    BY <1>1, <1>2 DEF LoginInv, LoginTypeOK
  <2>3. \A m \in Codes : m <= sent => m # n /\ m <= n
    BY <1>1, LoginAssumption
  <2>4. \A o \in Requests : entering'[o] = IF o = r THEN NotEntering ELSE entering[o]
    BY <1>2, EndLoginHolds DEF LoginInv
  <2>5. ASSUME NEW o \in Requests
        PROVE  /\ entering'[o].op = "send" =>
                    entering'[o].having = {entering'[o].client}
               /\ entering'[o].op = "mint" =>
                    /\ entering'[o].code <= n
                    /\ holders'[entering'[o].code] = {entering'[o].client}
    <3>1. CASE o = r
      BY <2>4, <3>1 DEF NotEntering
    <3>2. CASE o # r
      <4>1. entering[o].op = "mint" => entering[o].code \in Codes
        BY Sorts DEF LoginInv, Minting
      <4> QED BY <2>1, <2>3, <2>4, <3>2, <4>1 DEF LoginInv, ClientIsTheHolder
    <3> QED BY <3>1, <3>2
  <2>6. \A p \in Phones : pending'[p] # NoCode =>
          holders'[pending'[p].code] = {pending'[p].client}
    BY <1>4, <1>6, <2>1, <2>2 DEF LoginInv, ClientIsTheHolder
  <2>7. \A t \in tokens : t.code <= n /\ holders'[t.code] = {t.client}
    BY <2>1, <2>3 DEF LoginInv, ClientIsTheHolder, LoginTypeOK
  <2> QED BY <1>2, <2>5, <2>6, <2>7 DEF ClientIsTheHolder
<1> QED BY <1>3, <1>7, <1>8, <1>9 DEF LoginInv

\* A waiting code that is dropped, or grows old.
LEMMA AgeKeeps ==
  ASSUME LoginInv,
         \A p \in Phones : pending'[p] # NoCode =>
           /\ pending[p] # NoCode /\ pending'[p].code = pending[p].code
           /\ pending'[p].client = pending[p].client
                /\ pending'[p].attempts = pending[p].attempts,
         pending' \in [Phones -> Waiting \cup {NoCode}],
         entering' = entering \/ entering' = [r \in Requests |-> NotEntering],
         UNCHANGED <<sent, tokens, loginHistory>>
  PROVE  LoginInv'
<1>1. LoginTypeOK'
  BY DEF LoginInv, LoginTypeOK, loginHistory
<1>2. WaitingIsUnused'
  BY DEF LoginInv, WaitingIsUnused, loginHistory
<1>3. CodesAreFresh'
  BY DEF LoginInv, CodesAreFresh, loginHistory
<1>4. ClientIsTheHolder'
  BY DEF LoginInv, ClientIsTheHolder, loginHistory, NotEntering
<1> QED BY <1>1, <1>2, <1>3, <1>4 DEF LoginInv

\* A wrong input is one attempt more, and there are attempts left.
LEMMA WrongKeeps ==
  ASSUME LoginInv, NEW p \in Phones, WrongCode(p)
  PROVE  LoginInv'
<1> DEFINE n == pending[p].code
<1>1. /\ pending[p] # NoCode /\ pending[p] \in Waiting /\ n \in Codes
      /\ pending[p].attempts = guesses[n] /\ guesses[n] < MaxAttempts
      /\ pending[p].attempts \in Nat
  BY Sorts DEF WrongCode, MayTry, LoginInv, WaitingIsUnused, Waiting
<1>2. /\ pending' = [pending EXCEPT ![p].attempts = @ + 1]
      /\ guesses' = [guesses EXCEPT ![n] = @ + 1]
      /\ UNCHANGED <<entering, sent, tokens, holders, accepted>>
  BY DEF WrongCode, Compared
<1>3. pending'[p] = [pending[p] EXCEPT !.attempts = @ + 1]
      /\ \A q \in Phones : q # p => pending'[q] = pending[q]
  BY <1>2 DEF LoginInv, LoginTypeOK
<1>4. pending'[p] \in Waiting /\ pending'[p].code = n
        /\ pending'[p].attempts = guesses[n] + 1
      /\ pending'[p].client = pending[p].client
  BY <1>1, <1>3 DEF Waiting
<1>5. guesses'[n] = guesses[n] + 1 /\ \A m \in Codes : m # n =>
        guesses'[m] = guesses[m]
  BY <1>1, <1>2 DEF LoginInv, LoginTypeOK
<1>6. LoginTypeOK'
  BY <1>1, <1>2, <1>3, <1>4 DEF LoginInv, LoginTypeOK
<1>7. \A q \in Phones \ {p} : pending[q] # NoCode => pending[q].code # n
        /\ pending[q].code \in Codes
  BY <1>1, Sorts DEF LoginInv, WaitingIsUnused, Waiting
<1>8. n <= sent /\ accepted[n] = 0 /\ n \in Nat /\ sent \in Nat
  BY <1>1, LoginAssumption DEF LoginInv, WaitingIsUnused, LoginTypeOK
<1> HIDE DEF n
<1>9. WaitingIsUnused'
  <2> SUFFICES ASSUME NEW o \in Phones, pending'[o] # NoCode
      PROVE /\ pending'[o].code <= sent
            /\ pending'[o].attempts = guesses'[pending'[o].code]
            /\ accepted[pending'[o].code] = 0
            /\ \A q \in Phones \ {o} :
                 pending'[q] # NoCode => pending'[q].code # pending'[o].code
    BY <1>2 DEF WaitingIsUnused
  <2>1. CASE o = p
    BY <1>3, <1>4, <1>5, <1>7, <1>8, <2>1
  <2>2. CASE o # p
    <3>1. pending'[o] = pending[o] /\ pending[o].code # n /\ pending[o].code \in Codes
      BY <1>3, <1>7, <2>2
    <3>2. guesses'[pending[o].code] = guesses[pending[o].code]
      BY <1>5, <3>1
    <3>3. ASSUME NEW q \in Phones \ {o}, pending'[q] # NoCode
          PROVE  pending'[q].code # pending[o].code
      <4>1. CASE q = p
        BY <1>4, <3>1, <4>1
      <4>2. CASE q # p
        <5>1. pending'[q] = pending[q] /\ pending[q] # NoCode /\ pending[o] # NoCode
          BY <1>3, <2>2, <3>3, <4>2
        <5> QED
          BY <5>1 DEF LoginInv, WaitingIsUnused
      <4> QED
        BY <4>1, <4>2
    <3> QED BY <3>1, <3>2, <3>3 DEF LoginInv, WaitingIsUnused
  <2> QED BY <2>1, <2>2
<1>10. CodesAreFresh'
  <2>1. guesses[n] + 1 <= MaxAttempts
    BY <1>1, LoginAssumption DEF LoginInv, LoginTypeOK
  <2>2. ~ (n > sent)
    BY <1>8
  <2> QED BY <1>2, <1>5, <2>1, <2>2 DEF LoginInv, CodesAreFresh
<1>11. ClientIsTheHolder'
  <2>1. \A o \in Phones : pending'[o] # NoCode => pending[o] # NoCode
          /\ pending'[o].code = pending[o].code
               /\ pending'[o].client = pending[o].client
    BY <1>1, <1>3, <1>4 DEF n
  <2> QED BY <1>2, <2>1 DEF LoginInv, ClientIsTheHolder
<1> QED BY <1>6, <1>9, <1>10, <1>11 DEF LoginInv

\* The right input takes the code away, so that it is accepted once.
LEMMA RightKeeps ==
  ASSUME LoginInv, NEW r \in Requests, NEW p \in Phones, RightCode(r, p)
  PROVE  LoginInv'
<1> DEFINE n == pending[p].code
           mint == [op |-> "mint", phone |-> p, client |-> pending[p].client,
             code |-> n]
<1>1. /\ pending[p] # NoCode /\ pending[p] \in Waiting /\ n \in Codes
      /\ pending[p].attempts = guesses[n] /\ guesses[n] < MaxAttempts
      /\ accepted[n] = 0 /\ n <= sent
  BY Sorts DEF RightCode, MayTry, LoginInv, WaitingIsUnused, Waiting
<1>2. /\ pending' = [pending EXCEPT ![p] = NoCode]
      /\ guesses' = [guesses EXCEPT ![n] = @ + 1]
      /\ accepted' = [accepted EXCEPT ![n] = @ + 1]
      /\ entering' = [entering EXCEPT ![r] = mint]
      /\ UNCHANGED <<sent, tokens, holders>>
  BY DEF RightCode, Compared, Forget
<1>3. mint \in Minting /\ mint.op = "mint" /\ mint.code = n
        /\ mint.client = pending[p].client
  BY <1>1 DEF Waiting, Minting
<1>4. holders[n] = {pending[p].client}
  BY <1>1 DEF LoginInv, ClientIsTheHolder
<1>5. \A q \in Phones \ {p} : pending[q] # NoCode => pending[q].code # n
        /\ pending[q].code \in Codes
  BY <1>1, Sorts DEF LoginInv, WaitingIsUnused, Waiting
<1>6. n \in Nat /\ sent \in Nat
  BY <1>1, LoginAssumption DEF LoginInv, LoginTypeOK
<1> HIDE DEF n, mint
<1>7. LoginTypeOK'
  BY <1>1, <1>2, <1>3 DEF LoginInv, LoginTypeOK
<1>8. /\ guesses'[n] = guesses[n] + 1 /\ accepted'[n] = 1
      /\ \A m \in Codes : m # n => guesses'[m] = guesses[m]
           /\ accepted'[m] = accepted[m]
  BY <1>1, <1>2 DEF LoginInv, LoginTypeOK
<1>9. \A q \in Phones : pending'[q] = IF q = p THEN NoCode ELSE pending[q]
  BY <1>2 DEF LoginInv, LoginTypeOK
<1>10. WaitingIsUnused'
  BY <1>2, <1>5, <1>8, <1>9 DEF LoginInv, WaitingIsUnused
<1>11. CodesAreFresh'
  <2>1. guesses[n] + 1 <= MaxAttempts
    BY <1>1, LoginAssumption DEF LoginInv, LoginTypeOK
  <2>2. ~ (n > sent)
    BY <1>1, <1>6
  <2> QED BY <1>2, <1>8, <2>1, <2>2 DEF LoginInv, CodesAreFresh
<1>12. ClientIsTheHolder'
  <2>1. \A o \in Requests : entering'[o] = IF o = r THEN mint ELSE entering[o]
    BY <1>2 DEF LoginInv, LoginTypeOK
  <2>2. ASSUME NEW o \in Requests
        PROVE  /\ entering'[o].op = "send" =>
                    entering'[o].having = {entering'[o].client}
               /\ entering'[o].op = "mint" =>
                    /\ entering'[o].code <= sent
                    /\ holders[entering'[o].code] = {entering'[o].client}
    <3>1. CASE o = r
      BY <1>1, <1>3, <1>4, <2>1, <3>1
    <3>2. CASE o # r
      BY <2>1, <3>2 DEF LoginInv, ClientIsTheHolder
    <3> QED
      BY <3>1, <3>2
  <2>3. \A q \in Phones : pending'[q] # NoCode =>
          holders[pending'[q].code] = {pending'[q].client}
    BY <1>9 DEF LoginInv, ClientIsTheHolder
  <2> QED
    BY <1>2, <2>2, <2>3 DEF LoginInv, ClientIsTheHolder
<1> QED BY <1>7, <1>10, <1>11, <1>12 DEF LoginInv

\* A token is issued to the client the code was accepted for.
LEMMA IssueKeeps ==
  ASSUME LoginInv, NEW r \in Requests, IssueToken(r)
  PROVE  LoginInv'
<1> DEFINE q == entering[r]
           token == [client |-> q.client, phone |-> q.phone, code |-> q.code]
<1>1. q \in Minting /\ q.code <= sent /\ holders[q.code] = {q.client}
  BY Sorts DEF IssueToken, LoginInv, ClientIsTheHolder
<1>2. tokens' = tokens \cup {token} /\ UNCHANGED <<pending, sent, loginHistory>>
        /\ EndLogin(r)
  BY DEF IssueToken
<1>3. token \in [client : ClientRows, phone : Phones, code : Codes]
      /\ token.code <= sent /\ holders[token.code] = {token.client}
  BY <1>1 DEF Minting
<1> HIDE DEF token
<1>4. /\ entering' \in [Requests -> {NotEntering} \cup Asking \cup Minting]
      /\ \A o \in Requests : entering'[o] = IF o = r THEN NotEntering ELSE entering[o]
  BY <1>2, EndLoginHolds DEF LoginInv
<1>5. ClientIsTheHolder'
  BY <1>2, <1>3, <1>4
  DEF LoginInv, ClientIsTheHolder, loginHistory, NotEntering
<1> QED
  BY <1>2, <1>3, <1>4, <1>5
  DEF LoginInv, LoginTypeOK, WaitingIsUnused, CodesAreFresh, loginHistory

\* The invariant holds at first.
LEMMA LoginInvInit == ASSUME LoginInit PROVE LoginInv
  BY LoginAssumption
  DEF LoginInit, LoginInv, LoginTypeOK, WaitingIsUnused, CodesAreFresh,
      ClientIsTheHolder, NotEntering

\* No step breaks it.
LEMMA LoginInvStep ==
  ASSUME LoginInv, [LoginNext]_loginVars
  PROVE  LoginInv'
<1>1. CASE UNCHANGED loginVars
  BY <1>1
  DEF LoginInv, LoginTypeOK, WaitingIsUnused, CodesAreFresh, ClientIsTheHolder,
      loginVars
<1>2. ASSUME NEW c \in ClientRows, NEW p \in Phones, AddClient(c, p)
      PROVE  LoginInv'
  BY <1>2
  DEF AddClient, LoginInv, LoginTypeOK, WaitingIsUnused, CodesAreFresh,
      ClientIsTheHolder, loginHistory
<1>3. ASSUME NEW p \in Phones, LoginCodeExpires(p) PROVE LoginInv'
  <2>1. pending[p] \in Waiting
          /\ pending' = [pending EXCEPT ![p].expired = TRUE] /\ pending[p] # NoCode
    BY <1>3, Sorts DEF LoginCodeExpires, LoginInv
  <2>2. pending'[p] = [pending[p] EXCEPT !.expired = TRUE]
          /\ \A q \in Phones : q # p => pending'[q] = pending[q]
    BY <2>1 DEF LoginInv, LoginTypeOK
  <2>3. /\ pending'[p] \in Waiting
        /\ pending'[p].code = pending[p].code
        /\ pending'[p].client = pending[p].client
        /\ pending'[p].attempts = pending[p].attempts
    <3>1. pending[p] \in [code : Codes, client : ClientRows, attempts : Nat,
            expired : BOOLEAN]
      BY <2>1 DEF Waiting
    <3>2. [pending[p] EXCEPT !.expired = TRUE] \in [code : Codes,
            client : ClientRows, attempts : Nat, expired : BOOLEAN]
      BY <3>1
    <3> QED BY <2>2, <3>1, <3>2 DEF Waiting
  <2>4. pending' \in [Phones -> Waiting \cup {NoCode}]
    BY <2>1, <2>2, <2>3 DEF LoginInv, LoginTypeOK
  <2> QED BY <1>3, <2>1, <2>2, <2>3, <2>4, AgeKeeps DEF LoginCodeExpires
<1>4. ASSUME NEW p \in Phones, DropCode(p) PROVE LoginInv'
  <2>1. pending' = [pending EXCEPT ![p] = NoCode]
    BY <1>4 DEF DropCode, Forget
  <2>2. pending' \in [Phones -> Waiting \cup {NoCode}]
          /\ \A q \in Phones : pending'[q] = IF q = p THEN NoCode ELSE pending[q]
    BY <2>1 DEF LoginInv, LoginTypeOK
  <2> QED BY <1>4, <2>2, AgeKeeps DEF DropCode
<1>5. CASE Restart
  <2>1. pending' \in [Phones -> Waiting \cup {NoCode}]
          /\ \A q \in Phones : pending'[q] = NoCode
    BY <1>5 DEF Restart
  <2> QED BY <1>5, <2>1, AgeKeeps DEF Restart
<1> QED
  BY <1>1, <1>2, <1>3, <1>4, <1>5, SendKeeps, StoreKeeps, WrongKeeps, RightKeeps,
     IssueKeeps
  DEF LoginNext

\* However requests, restarts and expiries interleave, codes are spent once,
\* within their attempts, and tokens go to who alone had the phone.
THEOREM LoginsStaySound == LoginSpec => []LoginIsSound
<1>1. LoginInv => LoginIsSound
  BY DEF LoginInv, LoginIsSound, CodesAreSpent, TokensMatchPhones, WaitingIsUnused,
     CodesAreFresh, ClientIsTheHolder
<1> QED
  BY <1>1, LoginInvInit, LoginInvStep, PTL DEF LoginSpec

-----------------------------------------------------------------------------
(* The cabinet                                                             *)

CaseRow == [client : Clients, lawyer : Lawyers \cup {Nobody}, status : Activity]
ItemRow == [kind : ItemKinds, case : Cases, client : Clients,
            lawyer : Lawyers \cup {Nobody},
            status : {"scheduled", "cancelled"}, over : BOOLEAN]
Writing == [op : {"write"}, kind : ItemKinds, client : Clients, case : Cases,
            lawyer : Lawyers \cup {Nobody}]
Cancelling == [op : {"cancel"}, item : Items]

CabinetTypeOK ==
  /\ case \in [Cases -> CaseRow \cup {Nothing}]
  /\ item \in [Items -> ItemRow \cup {Nothing}]
  /\ told \subseteq [user : Lawyers \cup {Nobody}, about : Items]
  /\ timeline \subseteq [case : Cases, about : Items]
  /\ writing \in [Requests -> {NotWriting} \cup Writing \cup Cancelling]
  /\ overtaken \subseteq Requests /\ outdated \subseteq Items

\* A case that exists and is the client's.
IsCaseOf(k, c) == case[k] # Nothing /\ case[k].client = c

\* What requests hold and items name are cases of the client.
CasesAreOwn ==
  /\ \A r \in Requests :
       /\ writing[r].op = "write" => IsCaseOf(writing[r].case, writing[r].client)
       /\ writing[r].op = "cancel" => IsStored(writing[r].item)
  /\ \A i \in Items : IsStored(i) => IsCaseOf(item[i].case, item[i].client)

\* Notifications and events are those of the stored items, and all of them.
AnnouncedIsStored ==
  /\ \A t \in told : IsStored(t.about) /\ t.user = item[t.about].lawyer
                     /\ t.user # Nobody
  /\ \A e \in timeline : IsStored(e.about) /\ e.case = item[e.about].case
                         /\ item[e.about].kind # "message"
  /\ \A i \in Items : IsStored(i) =>
       /\ item[i].lawyer # Nobody => [user |-> item[i].lawyer, about |-> i] \in told
       /\ item[i].kind # "message" => [case |-> item[i].case,
            about |-> i] \in timeline

\* The case and the lawyer that a write or an item names are the present ones.
IsPresent(w) == ActiveCases(w.client) = {w.case} /\ case[w.case].lawyer = w.lawyer

\* They are, unless staff have moved the cases since.
PresentUnlessMoved ==
  /\ \A r \in Requests : writing[r].op = "write" /\ r \notin overtaken =>
       IsPresent(writing[r])
  /\ \A i \in Items : IsStored(i) /\ i \notin outdated => IsPresent(item[i])

CabinetInv == CabinetTypeOK /\ CasesAreOwn /\ AnnouncedIsStored /\ PresentUnlessMoved

\* Rows and requests by what they are.
LEMMA CabinetSorts ==
  ASSUME CabinetTypeOK
  PROVE  /\ \A k \in Cases : case[k] # Nothing => case[k] \in CaseRow
         /\ \A i \in Items : IsStored(i) => item[i] \in ItemRow
         /\ \A r \in Requests :
              /\ writing[r].op = "write" => writing[r] \in Writing
              /\ writing[r].op = "cancel" => writing[r] \in Cancelling
BY DEF CabinetTypeOK, IsStored, NotWriting, Writing, Cancelling

\* The one active case of a client is the client's.
LEMMA TheCaseIsOwn ==
  ASSUME NEW c \in Clients, Opens(c)
  PROVE  /\ TheCase(c) \in Cases /\ IsCaseOf(TheCase(c), c)
         /\ ActiveCases(c) = {TheCase(c)}
<1>1. ActiveCases(c) = {TheCase(c)} /\ TheCase(c) \in Cases
  BY DEF Opens, TheCase
<1> QED
  BY <1>1 DEF ActiveCases, IsCaseOf

\* Cases that come, close or get a lawyer remain the client's.
LEMMA CaseKeeps ==
  ASSUME CabinetInv, NEW k \in Cases, NEW row \in CaseRow, Nothing \notin CaseRow,
         case' = [case EXCEPT ![k] = row],
         case[k] # Nothing => row.client = case[k].client,
         Moves(row.client),
         UNCHANGED <<item, told, timeline, writing>>
  PROVE  CabinetInv'
<1>1. CabinetTypeOK'
  BY DEF CabinetInv, CabinetTypeOK, Moves
<1>2. \A j \in Cases : case'[j] = IF j = k THEN row ELSE case[j]
  BY DEF CabinetInv, CabinetTypeOK
<1>3. \A j \in Cases, c \in Clients : IsCaseOf(j, c) => IsCaseOf(j, c)'
  BY <1>2 DEF IsCaseOf
<1>4. CasesAreOwn'
  <2>1. \A r \in Requests : writing[r].op = "write" => writing[r].case \in Cases
          /\ writing[r].client \in Clients
    BY CabinetSorts DEF CabinetInv, Writing
  <2>2. \A i \in Items : IsStored(i) => item[i].case \in Cases
          /\ item[i].client \in Clients
    BY CabinetSorts DEF CabinetInv, ItemRow
  <2> QED BY <1>3, <2>1, <2>2 DEF CabinetInv, CasesAreOwn, IsStored
<1>5. AnnouncedIsStored'
  BY DEF CabinetInv, AnnouncedIsStored, IsStored
<1>6. \A c \in Clients : c # row.client => ActiveCases(c)' = ActiveCases(c)
  BY <1>2 DEF ActiveCases
<1>7. ASSUME NEW w, w.client \in Clients, w.client # row.client, w.case \in Cases,
             IsCaseOf(w.case, w.client), IsPresent(w)
      PROVE  ActiveCases(w.client)' = {w.case} /\ case'[w.case].lawyer = w.lawyer
  <2>1. w.case # k
    BY <1>7 DEF IsCaseOf
  <2> QED BY <1>2, <1>6, <1>7, <2>1 DEF IsPresent
<1>8. PresentUnlessMoved'
  <2>1. ASSUME NEW r \in Requests, writing[r].op = "write", r \notin overtaken'
        PROVE  IsPresent(writing[r])'
    <3>1. writing[r].client # row.client /\ r \notin overtaken
      BY <2>1 DEF Moves
    <3>2. writing[r] \in Writing /\ IsCaseOf(writing[r].case, writing[r].client)
      BY <2>1, CabinetSorts DEF CabinetInv, CasesAreOwn
    <3>3. IsPresent(writing[r])
      BY <2>1, <3>1 DEF CabinetInv, PresentUnlessMoved
    <3>4. PICK w \in Writing : w = writing[r]
      BY <3>2
    <3>5. w.client \in Clients /\ w.case \in Cases /\ w.client # row.client
          /\ IsCaseOf(w.case, w.client) /\ IsPresent(w)
      BY <3>1, <3>2, <3>3, <3>4 DEF Writing
    <3>6. ActiveCases(w.client)' = {w.case} /\ case'[w.case].lawyer = w.lawyer
      BY <1>7, <3>5
    <3>7. (IsPresent(w))'
      BY <3>6 DEF IsPresent
    <3>8. writing'[r] = w
      BY <3>4
    <3> QED BY <3>7, <3>8 DEF IsPresent, ActiveCases
  <2>2. ASSUME NEW i \in Items, IsStored(i), i \notin outdated'
        PROVE  IsPresent(item[i])'
    <3>1. item[i].client # row.client /\ i \notin outdated
      BY <2>2 DEF Moves
    <3>2. item[i] \in ItemRow /\ IsCaseOf(item[i].case, item[i].client)
      BY <2>2, CabinetSorts DEF CabinetInv, CasesAreOwn
    <3>3. IsPresent(item[i])
      BY <2>2, <3>1 DEF CabinetInv, PresentUnlessMoved
    <3>4. PICK w \in ItemRow : w = item[i]
      BY <3>2
    <3>5. w.client \in Clients /\ w.case \in Cases /\ w.client # row.client
          /\ IsCaseOf(w.case, w.client) /\ IsPresent(w)
      BY <3>1, <3>2, <3>3, <3>4 DEF ItemRow
    <3>6. ActiveCases(w.client)' = {w.case} /\ case'[w.case].lawyer = w.lawyer
      BY <1>7, <3>5
    <3>7. (IsPresent(w))'
      BY <3>6 DEF IsPresent
    <3>8. item'[i] = w
      BY <3>4
    <3> QED BY <3>7, <3>8 DEF IsPresent, ActiveCases
  <2> QED BY <2>1, <2>2 DEF PresentUnlessMoved, IsStored
<1> QED BY <1>1, <1>4, <1>5, <1>8 DEF CabinetInv

\* A request that ends holds nothing.
LEMMA EndWritingHolds ==
  ASSUME CabinetTypeOK, NEW r \in Requests, EndWriting(r)
  PROVE  /\ writing' \in [Requests -> {NotWriting} \cup Writing \cup Cancelling]
         /\ \A q \in Requests : writing'[q] = IF q = r THEN NotWriting ELSE writing[q]
         /\ \A q \in Requests : q # r => (q \in overtaken' <=> q \in overtaken)
         /\ overtaken' \subseteq Requests
BY DEF CabinetTypeOK, EndWriting

\* A request that loads something holds what is there.
LEMMA LoadWritingKeeps ==
  ASSUME CabinetInv, NEW r \in Requests, NEW w \in Writing \cup Cancelling,
         w.op = "write" => case[w.case] # Nothing /\ case[w.case].client = w.client,
         w.op = "write" => IsPresent(w),
         w.op = "cancel" => IsStored(w.item),
         writing' = [writing EXCEPT ![r] = w],
         UNCHANGED <<case, item, told, timeline, overtaken, outdated>>
  PROVE  CabinetInv'
<1>1. CabinetTypeOK'
  BY DEF CabinetInv, CabinetTypeOK
<1>2. \A q \in Requests : writing'[q] = IF q = r THEN w ELSE writing[q]
  BY DEF CabinetInv, CabinetTypeOK
<1>3. \A q \in Requests :
       /\ writing'[q].op = "write" => IsCaseOf(writing'[q].case, writing'[q].client)
       /\ writing'[q].op = "cancel" => IsStored(writing'[q].item)
  BY <1>2 DEF CabinetInv, CasesAreOwn, Writing, Cancelling, IsCaseOf
<1>4. CasesAreOwn'
  BY <1>3 DEF CabinetInv, CasesAreOwn, IsStored, IsCaseOf
<1>5. AnnouncedIsStored'
  BY DEF CabinetInv, AnnouncedIsStored, IsStored
<1>6. PresentUnlessMoved'
  BY <1>2 DEF CabinetInv, PresentUnlessMoved, IsStored, IsPresent, ActiveCases
<1> QED BY <1>1, <1>4, <1>5, <1>6 DEF CabinetInv

\* An item that is cancelled or over is still the item it was.
LEMMA AlterKeeps ==
  ASSUME CabinetInv, NEW i \in Items, NEW row \in ItemRow, Nothing \notin ItemRow,
         IsStored(i), row.kind = item[i].kind, row.case = item[i].case,
           row.client = item[i].client,
         row.lawyer = item[i].lawyer,
         item' = [item EXCEPT ![i] = row],
         UNCHANGED <<writing, overtaken>> \/ \E r \in Requests : EndWriting(r),
         UNCHANGED <<case, told, timeline, outdated>>
  PROVE  CabinetInv'
<1>1. /\ writing' \in [Requests -> {NotWriting} \cup Writing \cup Cancelling]
      /\ overtaken' \subseteq Requests
      /\ \A q \in Requests : \/ writing'[q] = NotWriting
                            \/ /\ writing'[q] = writing[q]
                               /\ q \in overtaken' <=> q \in overtaken
  BY EndWritingHolds DEF CabinetInv, CabinetTypeOK
<1>2. CabinetTypeOK'
  BY <1>1 DEF CabinetInv, CabinetTypeOK
<1>3. \A j \in Items : item'[j] = IF j = i THEN row ELSE item[j]
  BY DEF CabinetInv, CabinetTypeOK
<1>4. \A j \in Items : /\ IsStored(j)' <=> IsStored(j)
                       /\ item'[j].kind = item[j].kind
                       /\ item'[j].case = item[j].case
                       /\ item'[j].client = item[j].client
                       /\ item'[j].lawyer = item[j].lawyer
  BY <1>3 DEF IsStored
<1>5. CasesAreOwn'
  <2>1. \A r \in Requests : writing[r].op = "cancel" => writing[r].item \in Items
    BY CabinetSorts DEF CabinetInv, Cancelling
  <2> QED BY <1>1, <1>4, <2>1 DEF CabinetInv, CasesAreOwn, IsCaseOf, NotWriting
<1>6. AnnouncedIsStored'
  <2>1. (\A t \in told : t.about \in Items) /\ \A e \in timeline : e.about \in Items
    BY DEF CabinetInv, CabinetTypeOK
  <2> QED BY <1>4, <2>1 DEF CabinetInv, AnnouncedIsStored
<1>7. PresentUnlessMoved'
  <2>1. \A w : (IsPresent(w))' <=> IsPresent(w)
    BY DEF IsPresent, ActiveCases
  <2>2. \A q \in Requests : writing'[q].op = "write" /\ q \notin overtaken' =>
          IsPresent(writing'[q])
    BY <1>1 DEF CabinetInv, PresentUnlessMoved, NotWriting
  <2>3. \A j \in Items : IsStored(j) /\ j \notin outdated => IsPresent(item'[j])
    BY <1>4 DEF CabinetInv, PresentUnlessMoved, IsPresent
  <2> QED BY <1>4, <2>2, <2>3 DEF PresentUnlessMoved, IsPresent, ActiveCases
<1> QED BY <1>2, <1>5, <1>6, <1>7 DEF CabinetInv

\* An item is stored with its notification and its event.
LEMMA CommitItemKeeps ==
  ASSUME CabinetInv, NEW r \in Requests, NEW i \in Items, Commit(r, i)
  PROVE  CabinetInv'
<1> DEFINE q == writing[r]
           row == [kind |-> q.kind, case |-> q.case, client |-> q.client,
             lawyer |-> q.lawyer,
                   status |-> "scheduled", over |-> FALSE]
<1>1. q \in Writing /\ IsCaseOf(q.case, q.client) /\ ~IsStored(i)
  BY CabinetSorts DEF Commit, CabinetInv, CasesAreOwn
<1>2. /\ item' = [item EXCEPT ![i] = row]
      /\ told' = told \cup {[user |-> l, about |-> i] : l \in {q.lawyer} \ {Nobody}}
      /\ timeline' = IF q.kind = "message" THEN timeline
                     ELSE timeline \cup {[case |-> q.case, about |-> i]}
      /\ outdated' = outdated \cup {j \in {i} : r \in overtaken}
      /\ EndWriting(r)
      /\ case' = case
  BY DEF Commit, Notified
<1>3. row \in ItemRow
  BY <1>1 DEF Writing, ItemRow
<1>4. row # Nothing
  BY <1>3, CabinetAssumption DEF ItemRow
<1>5. row.kind = q.kind /\ row.case = q.case /\ row.client = q.client
        /\ row.lawyer = q.lawyer
  OBVIOUS
<1> HIDE DEF row
<1>6. CabinetTypeOK'
  <2>1. q.case \in Cases /\ q.lawyer \in Lawyers \cup {Nobody}
    BY <1>1 DEF Writing
  <2>2. told' \subseteq [user : Lawyers \cup {Nobody}, about : Items]
    BY <1>2, <2>1 DEF CabinetInv, CabinetTypeOK
  <2>3. timeline' \subseteq [case : Cases, about : Items]
    BY <1>2, <2>1 DEF CabinetInv, CabinetTypeOK
  <2>4. /\ writing' \in [Requests -> {NotWriting} \cup Writing \cup Cancelling]
        /\ overtaken' \subseteq Requests /\ outdated' \subseteq Items
    BY <1>2, EndWritingHolds DEF CabinetInv, CabinetTypeOK
  <2> QED BY <1>2, <1>3, <2>2, <2>3, <2>4 DEF CabinetInv, CabinetTypeOK
<1>7. \A j \in Items : item'[j] = IF j = i THEN row ELSE item[j]
  BY <1>2 DEF CabinetInv, CabinetTypeOK
<1>8. \A j \in Items : IsStored(j)' <=> IsStored(j) \/ j = i
  BY <1>4, <1>7 DEF IsStored
<1>9. CasesAreOwn'
  <2>1. \A o \in Requests : writing'[o] = IF o = r THEN NotWriting ELSE writing[o]
    BY <1>2, EndWritingHolds DEF CabinetInv
  <2>2. \A o \in Requests : writing[o].op = "cancel" => writing[o].item \in Items
    BY CabinetSorts DEF CabinetInv, Cancelling
  <2>3. \A o \in Requests :
       /\ writing'[o].op = "write" => (IsCaseOf(writing[o].case, writing[o].client))'
       /\ writing'[o].op = "cancel" => (IsStored(writing[o].item))'
    BY <1>2, <1>8, <2>1, <2>2 DEF CabinetInv, CasesAreOwn, IsCaseOf, NotWriting
  <2>4. \A j \in Items : IsStored(j)' => (IsCaseOf(item[j].case, item[j].client))'
    BY <1>1, <1>2, <1>5, <1>7, <1>8 DEF CabinetInv, CasesAreOwn, IsCaseOf
  <2> QED BY <2>3, <2>4 DEF CasesAreOwn
<1>10. AnnouncedIsStored'
  <2>1. \A t \in told : t.about \in Items /\ t.about # i
    BY <1>1 DEF CabinetInv, CabinetTypeOK, AnnouncedIsStored
  <2>2. \A e \in timeline : e.about \in Items /\ e.about # i
    BY <1>1 DEF CabinetInv, CabinetTypeOK, AnnouncedIsStored
  <2>3. \A t \in told' : IsStored(t.about)' /\ t.user = item'[t.about].lawyer
          /\ t.user # Nobody
    <3>1. \A t \in told : IsStored(t.about)' /\ t.user = item'[t.about].lawyer
            /\ t.user # Nobody
      BY <1>7, <1>8, <2>1 DEF CabinetInv, AnnouncedIsStored
    <3>2. ASSUME NEW t \in told' \ told
          PROVE IsStored(t.about)' /\ t.user = item'[t.about].lawyer
                  /\ t.user # Nobody
      <4>1. t = [user |-> q.lawyer, about |-> i] /\ q.lawyer # Nobody
        BY <1>2, <3>2
      <4>2. t.about = i /\ t.user = q.lawyer
        BY <4>1
      <4> QED BY <1>5, <1>7, <1>8, <4>1, <4>2
    <3> QED BY <3>1, <3>2
  <2>4. \A e \in timeline' : IsStored(e.about)' /\ e.case = item'[e.about].case
                         /\ item'[e.about].kind # "message"
    <3>1. \A e \in timeline : IsStored(e.about)' /\ e.case = item'[e.about].case
                         /\ item'[e.about].kind # "message"
      BY <1>7, <1>8, <2>2 DEF CabinetInv, AnnouncedIsStored
    <3>2. ASSUME NEW e \in timeline' \ timeline
          PROVE IsStored(e.about)' /\ e.case = item'[e.about].case
                         /\ item'[e.about].kind # "message"
      <4>1. e = [case |-> q.case, about |-> i] /\ q.kind # "message"
        BY <1>2, <3>2
      <4>2. e.about = i /\ e.case = q.case
        BY <4>1
      <4> QED BY <1>5, <1>7, <1>8, <4>1, <4>2
    <3> QED BY <3>1, <3>2
  <2>5. ASSUME NEW j \in Items, IsStored(j)'
        PROVE  /\ item'[j].lawyer # Nobody =>
                    [user |-> item'[j].lawyer, about |-> j] \in told'
               /\ item'[j].kind # "message" =>
                    [case |-> item'[j].case, about |-> j] \in timeline'
    <3>1. CASE j = i
      <4>1. item'[j].lawyer = q.lawyer /\ item'[j].kind = q.kind
            /\ item'[j].case = q.case
        BY <1>5, <1>7, <3>1
      <4>2. q.lawyer # Nobody => [user |-> q.lawyer, about |-> i] \in told'
        BY <1>2
      <4>3. q.kind # "message" => [case |-> q.case, about |-> i] \in timeline'
        BY <1>2
      <4> QED
        BY <3>1, <4>1, <4>2, <4>3
    <3>2. CASE j # i
      BY <1>2, <1>7, <1>8, <2>5, <3>2 DEF CabinetInv, AnnouncedIsStored
    <3> QED BY <3>1, <3>2
  <2> QED BY <2>3, <2>4, <2>5 DEF AnnouncedIsStored
<1>11. PresentUnlessMoved'
  <2>1. \A w : (IsPresent(w))' <=> IsPresent(w)
    BY <1>2 DEF IsPresent, ActiveCases
  <2>2. \A o \in Requests : writing'[o].op = "write" /\ o \notin overtaken' =>
          (IsPresent(writing[o]))' /\ writing'[o] = writing[o]
    <3>1. \A o \in Requests : writing'[o].op = "write" =>
            /\ o # r /\ writing'[o] = writing[o]
            /\ o \in overtaken' <=> o \in overtaken
      BY <1>2, EndWritingHolds DEF CabinetInv, NotWriting
    <3>2. \A o \in Requests : writing'[o].op = "write" /\ o \notin overtaken' =>
            IsPresent(writing[o]) /\ writing'[o] = writing[o]
      BY <3>1 DEF CabinetInv, PresentUnlessMoved
    <3> QED BY <1>2, <3>2 DEF IsPresent, ActiveCases
  <2>3. ASSUME NEW j \in Items, IsStored(j)', j \notin outdated'
        PROVE  IsPresent(item'[j])
    <3>1. CASE j = i
      <4>1. r \notin overtaken /\ q.op = "write"
        BY <1>2, <2>3, <3>1 DEF Commit
      <4>2. IsPresent(q)
        BY <4>1 DEF CabinetInv, PresentUnlessMoved
      <4> QED BY <1>5, <1>7, <3>1, <4>2 DEF IsPresent
    <3>2. CASE j # i
      BY <1>2, <1>7, <1>8, <2>3, <3>2 DEF CabinetInv, PresentUnlessMoved
    <3> QED BY <3>1, <3>2
  <2>4. \A j \in Items : IsStored(j)' /\ j \notin outdated' => (IsPresent(item[j]))'
    BY <1>2, <2>3 DEF IsPresent, ActiveCases
  <2>5. \A o \in Requests : writing'[o].op = "write" /\ o \notin overtaken' =>
          (IsPresent(writing[o]))'
    BY <2>2 DEF IsPresent
  <2> QED BY <2>4, <2>5 DEF PresentUnlessMoved
<1> QED BY <1>6, <1>9, <1>10, <1>11 DEF CabinetInv

\* The invariant holds at first.
LEMMA CabinetInvInit == ASSUME CabinetInit PROVE CabinetInv
BY DEF CabinetInit, CabinetInv, CabinetTypeOK, CasesAreOwn, AnnouncedIsStored,
   PresentUnlessMoved, NotWriting, IsStored

\* No step breaks it.
LEMMA CabinetInvStep ==
  ASSUME CabinetInv, [CabinetNext]_cabinetVars
  PROVE  CabinetInv'
<1>0. Nothing \notin CaseRow /\ Nothing \notin ItemRow
  BY CabinetAssumption DEF CaseRow, ItemRow
<1>1. CASE UNCHANGED cabinetVars
  BY <1>1
  DEF CabinetInv, CabinetTypeOK, CasesAreOwn, AnnouncedIsStored, IsStored,
      IsCaseOf, cabinetVars, PresentUnlessMoved, IsPresent, ActiveCases
<1>2. ASSUME NEW k \in Cases, NEW c \in Clients, OpenCase(k, c) PROVE CabinetInv'
  <2>1. [client |-> c, lawyer |-> Nobody, status |-> "active"] \in CaseRow
    BY DEF CaseRow, Activity
  <2> DEFINE row == [client |-> c, lawyer |-> Nobody, status |-> "active"]
  <2>2. row \in CaseRow /\ row.client = c /\ case' = [case EXCEPT ![k] = row]
    BY <1>2, <2>1 DEF OpenCase
  <2> HIDE DEF row
  <2> QED BY <1>0, <1>2, <2>2, CaseKeeps DEF OpenCase
<1>3. ASSUME NEW k \in Cases, CloseCase(k) PROVE CabinetInv'
  <2> DEFINE row == [case[k] EXCEPT !.status = "closed"]
  <2>1. case[k] \in CaseRow
    BY <1>3, CabinetSorts DEF CloseCase, CabinetInv
  <2>2. row \in CaseRow /\ row.client = case[k].client
    BY <2>1 DEF CaseRow, Activity
  <2>3. case' = [case EXCEPT ![k] = row]
    BY <1>3 DEF CloseCase
  <2> HIDE DEF row
  <2> QED BY <1>0, <1>3, <2>2, <2>3, CaseKeeps DEF CloseCase
<1>4. ASSUME NEW k \in Cases, NEW l \in Lawyers, AssignLawyer(k, l) PROVE CabinetInv'
  <2> DEFINE row == [case[k] EXCEPT !.lawyer = l]
  <2>1. case[k] \in CaseRow
    BY <1>4, CabinetSorts DEF AssignLawyer, CabinetInv
  <2>2. row \in CaseRow /\ row.client = case[k].client
    BY <2>1 DEF CaseRow, Activity
  <2>3. case' = [case EXCEPT ![k] = row]
    BY <1>4 DEF AssignLawyer
  <2> HIDE DEF row
  <2> QED BY <1>0, <1>4, <2>2, <2>3, CaseKeeps DEF AssignLawyer
<1>5. ASSUME NEW r \in Requests, NEW c \in Clients, NEW kind \in ItemKinds,
               LoadCase(r, c, kind)
      PROVE  CabinetInv'
  <2> DEFINE w == [op |-> "write", kind |-> kind, client |-> c, case |-> TheCase(c),
                   lawyer |-> case[TheCase(c)].lawyer]
  <2>1. TheCase(c) \in Cases /\ IsCaseOf(TheCase(c), c)
    BY <1>5, TheCaseIsOwn DEF LoadCase
  <2>2. case[TheCase(c)].lawyer \in Lawyers \cup {Nobody}
    BY <2>1, CabinetSorts DEF IsCaseOf, CaseRow, CabinetInv
  <2>3. /\ w \in Writing /\ w.case = TheCase(c) /\ w.client = c
        /\ w.lawyer = case[TheCase(c)].lawyer
    BY <2>1, <2>2 DEF Writing
  <2>4. writing' = [writing EXCEPT ![r] = w]
    BY <1>5 DEF LoadCase
  <2> HIDE DEF w
  <2>5. case[w.case] # Nothing /\ case[w.case].client = w.client
    BY <2>1, <2>3 DEF IsCaseOf
  <2>8. IsPresent(w)
    BY <1>5, <2>3, TheCaseIsOwn DEF IsPresent, LoadCase
  <2>6. UNCHANGED <<case, item, told, timeline, overtaken, outdated>>
    BY <1>5 DEF LoadCase
  <2>7. w.op = "write"
    BY <2>3 DEF Writing
  <2> QED
    BY <2>3, <2>4, <2>5, <2>6, <2>7, <2>8, LoadWritingKeeps
<1>6. ASSUME NEW r \in Requests, NEW c \in Clients, NEW i \in Items, LoadMeeting(r,
               c, i)
      PROVE  CabinetInv'
  <2> DEFINE w == [op |-> "cancel", item |-> i]
  <2>1. w \in Cancelling /\ w.item = i /\ w.op = "cancel"
    BY DEF Cancelling
  <2>2. writing' = [writing EXCEPT ![r] = w] /\ IsStored(i)
    BY <1>6 DEF LoadMeeting, Booked
  <2> HIDE DEF w
  <2> QED BY <1>6, <2>1, <2>2, LoadWritingKeeps DEF LoadMeeting
<1>7. ASSUME NEW r \in Requests, CommitCancel(r) PROVE CabinetInv'
  <2> DEFINE i == writing[r].item
             row == [item[i] EXCEPT !.status = "cancelled"]
  <2>1. i \in Items /\ IsStored(i)
    BY <1>7, CabinetSorts DEF CommitCancel, CabinetInv, CasesAreOwn, Cancelling
  <2>2. item[i] \in ItemRow
    BY <2>1, CabinetSorts DEF CabinetInv
  <2>3. /\ row \in ItemRow /\ row.kind = item[i].kind /\ row.case = item[i].case
        /\ row.client = item[i].client /\ row.lawyer = item[i].lawyer
    BY <2>2 DEF ItemRow
  <2>4. item' = [item EXCEPT ![i] = row] /\ EndWriting(r)
    BY <1>7 DEF CommitCancel
  <2> HIDE DEF row, i
  <2> QED BY <1>0, <1>7, <2>1, <2>3, <2>4, AlterKeeps DEF CommitCancel
<1>8. ASSUME NEW r \in Requests, Abort(r) PROVE CabinetInv'
  <2>1. /\ writing' \in [Requests -> {NotWriting} \cup Writing \cup Cancelling]
        /\ \A q \in Requests : writing'[q] = IF q = r THEN NotWriting ELSE writing[q]
    BY <1>8, EndWritingHolds DEF Abort, CabinetInv
  <2> QED
    BY <1>8, <2>1
    DEF Abort, CabinetInv, CabinetTypeOK, CasesAreOwn, AnnouncedIsStored,
        IsStored, IsCaseOf, NotWriting, PresentUnlessMoved, IsPresent,
        ActiveCases, EndWriting
<1>9. ASSUME NEW i \in Items, Passes(i) PROVE CabinetInv'
  <2> DEFINE row == [item[i] EXCEPT !.over = TRUE]
  <2>1. IsStored(i) /\ item[i] \in ItemRow
    BY <1>9, CabinetSorts DEF CabinetInv, Passes
  <2>2. /\ row \in ItemRow /\ row.kind = item[i].kind /\ row.case = item[i].case
        /\ row.client = item[i].client /\ row.lawyer = item[i].lawyer
    BY <2>1 DEF ItemRow
  <2>3. item' = [item EXCEPT ![i] = row]
    BY <1>9 DEF Passes
  <2> HIDE DEF row
  <2> QED BY <1>0, <1>9, <2>1, <2>2, <2>3, AlterKeeps DEF Passes
<1> QED
  BY <1>1, <1>2, <1>3, <1>4, <1>5, <1>6, <1>7, <1>8, <1>9, CommitItemKeeps
  DEF CabinetNext

\* What the invariant says of what clients are shown.
LEMMA CabinetShows ==
  ASSUME CabinetInv
  PROVE  CabinetIsSound
<1>1. ASSUME NEW i \in Items, IsStored(i), i \notin outdated
      PROVE  /\ Opens(item[i].client) /\ TheCase(item[i].client) = item[i].case
             /\ ActiveCases(item[i].client) = {item[i].case}
             /\ {t.user : t \in {u \in told : u.about = i}}
                  = {case[item[i].case].lawyer} \ {Nobody}
             /\ item[i].kind # "message" =>
                  \E e \in Events(item[i].client) : e.about = i
  <2>1. /\ ActiveCases(item[i].client) = {item[i].case}
        /\ case[item[i].case].lawyer = item[i].lawyer
    BY <1>1 DEF CabinetInv, PresentUnlessMoved, IsPresent
  <2>2. Opens(item[i].client) /\ TheCase(item[i].client) = item[i].case
    <3>1. item[i] \in ItemRow
      BY <1>1, CabinetSorts DEF CabinetInv
    <3>2. item[i].case \in Cases /\ item[i].client \in Clients
      BY <3>1 DEF ItemRow
    <3>3. Opens(item[i].client)
      BY <2>1, <3>2 DEF Opens
    <3>4. ActiveCases(item[i].client) = {TheCase(item[i].client)}
      BY <3>2, <3>3, TheCaseIsOwn
    <3> QED BY <2>1, <3>3, <3>4
  <2>3. \A t \in told : t.about = i => t.user = item[i].lawyer
          /\ item[i].lawyer # Nobody
    BY DEF CabinetInv, AnnouncedIsStored
  <2>4. item[i].lawyer # Nobody => \E t \in told : t.about = i
          /\ t.user = item[i].lawyer
    <3>1. ASSUME item[i].lawyer # Nobody
          PROVE  \E t \in told : t.about = i /\ t.user = item[i].lawyer
      <4>1. [user |-> item[i].lawyer, about |-> i] \in told
        BY <1>1, <3>1 DEF CabinetInv, AnnouncedIsStored
      <4> QED BY <4>1
    <3> QED BY <3>1
  <2>5. {t.user : t \in {u \in told : u.about = i}} = {item[i].lawyer} \ {Nobody}
    BY <2>3, <2>4
  <2>6. ASSUME item[i].kind # "message"
        PROVE  \E e \in Events(item[i].client) : e.about = i
    <3>1. [case |-> item[i].case, about |-> i] \in timeline
      BY <1>1, <2>6 DEF CabinetInv, AnnouncedIsStored
    <3>2. [case |-> item[i].case, about |-> i] \in Events(item[i].client)
      BY <2>2, <3>1 DEF Events
    <3> QED BY <3>2
  <2> QED BY <2>1, <2>2, <2>5, <2>6
<1>2. PartedByStaffOnly
  BY <1>1 DEF PartedByStaffOnly
<1>3. ASSUME NEW c \in Clients, NEW i \in Meetings(c) PROVE item[i].client = c
  BY TheCaseIsOwn DEF Meetings, CabinetInv, CasesAreOwn, IsCaseOf
<1>4. ASSUME NEW c \in Clients, NEW e \in Events(c) PROVE item[e.about].client = c
  <2>1. e \in timeline /\ Opens(c) /\ e.case = TheCase(c)
    BY DEF Events
  <2>2. e.about \in Items /\ IsStored(e.about) /\ e.case = item[e.about].case
    BY <2>1 DEF CabinetInv, CabinetTypeOK, AnnouncedIsStored
  <2>3. case[TheCase(c)].client = c
    BY <2>1, TheCaseIsOwn DEF IsCaseOf
  <2>4. case[item[e.about].case].client = item[e.about].client
    BY <2>2 DEF CabinetInv, CasesAreOwn, IsCaseOf
  <2> QED BY <2>1, <2>2, <2>3, <2>4
<1>5. ItemsAreOwn
  BY <1>3, <1>4 DEF ItemsAreOwn, CabinetInv, CasesAreOwn, IsCaseOf
<1>6. CalendarIsInReach
  <2>1. ASSUME NEW c \in Clients, NEW i \in Items, IsStored(i), i \notin outdated,
               item[i].kind = "meeting", item[i].client = c
        PROVE  i \in Meetings(c)
    BY <1>1, <2>1 DEF Meetings
  <2>2. \A c \in Clients : Calendar(c) \cup Upcoming(c) \subseteq Booked(c)
    BY <1>3 DEF Calendar, Upcoming, Booked, Meetings
  <2>3. \A c \in Clients :
          /\ Booked(c) \ outdated \subseteq Calendar(c)
          /\ {i \in Booked(c) \ outdated : ~item[i].over} \subseteq Upcoming(c)
    BY <2>1 DEF Calendar, Upcoming, Booked
  <2>4. \A c \in Clients, i \in Items \ outdated :
          IsStored(i) /\ item[i].kind = "meeting" /\ item[i].client = c =>
            i \in Upcoming(c) \cup Past(c)
    BY <2>1 DEF Past
  <2> QED BY <2>2, <2>3, <2>4 DEF CalendarIsInReach
<1> QED BY <1>2, <1>5, <1>6 DEF CabinetIsSound

\* However requests overlap with what staff do, what clients are shown is their
\* own, and only staff can part it from the active case and its lawyer.
THEOREM CabinetStaysSound == CabinetSpec => []CabinetIsSound
BY CabinetInvInit, CabinetInvStep, CabinetShows, PTL DEF CabinetSpec

-----------------------------------------------------------------------------
(* The state of the case                                                   *)

\* No status comes twice in the order.
LEMMA OrderIsInjective ==
  ASSUME NEW i \in 1..18, NEW j \in 1..18, StatusOrder[i] = StatusOrder[j]
  PROVE  i = j
BY DEF StatusOrder

\* There are 18 stages.
LEMMA OrderLength == Len(StatusOrder) = 18
BY DEF StatusOrder

\* The place of a status is its index.
LEMMA IndexOf ==
  ASSUME NEW i \in 1..18
  PROVE  StageIndex(StatusOrder[i]) = i - 1
BY OrderIsInjective, OrderLength DEF StageIndex

\* A status that is no stage has index 0.
LEMMA Unlisted ==
  ASSUME NEW s \in {"on_hold", "settlement", "rejected", "cancelled"}
  PROVE  StageIndex(s) = 0
<1>1. \A i \in 1..18 : StatusOrder[i] # s
  BY DEF StatusOrder
<1> QED BY <1>1, OrderLength DEF StageIndex

\* The index of each stage.
LEMMA Indices ==
  /\ StageIndex("lead") = 0 /\ StageIndex("qualification") = 1
  /\ StageIndex("consultation") = 2 /\ StageIndex("contract_signing") = 3
  /\ StageIndex("document_collection") = 4 /\ StageIndex("document_review") = 5
  /\ StageIndex("application_preparation") = 6
  /\ StageIndex("application_filed") = 7 /\ StageIndex("court_accepted") = 8
  /\ StageIndex("hearing_scheduled") = 9 /\ StageIndex("procedure_started") = 10
  /\ StageIndex("creditors_registry") = 11 /\ StageIndex("creditors_meeting") = 12
  /\ StageIndex("asset_realization") = 13 /\ StageIndex("restructuring") = 14
  /\ StageIndex("fu_report") = 15 /\ StageIndex("completion") = 16
  /\ StageIndex("debt_discharged") = 17
<1>1. /\ StatusOrder[1] = "lead" /\ StatusOrder[2] = "qualification"
      /\ StatusOrder[3] = "consultation" /\ StatusOrder[4] = "contract_signing"
      /\ StatusOrder[5] = "document_collection" /\ StatusOrder[6] = "document_review"
      /\ StatusOrder[7] = "application_preparation"
      /\ StatusOrder[8] = "application_filed" /\ StatusOrder[9] = "court_accepted"
      /\ StatusOrder[10] = "hearing_scheduled"
           /\ StatusOrder[11] = "procedure_started"
      /\ StatusOrder[12] = "creditors_registry"
           /\ StatusOrder[13] = "creditors_meeting"
      /\ StatusOrder[14] = "asset_realization" /\ StatusOrder[15] = "restructuring"
      /\ StatusOrder[16] = "fu_report" /\ StatusOrder[17] = "completion"
      /\ StatusOrder[18] = "debt_discharged"
  BY DEF StatusOrder
<1>2. \A i \in 1..18 : StageIndex(StatusOrder[i]) = i - 1
  BY IndexOf
<1>3. /\ StageIndex(StatusOrder[1]) = 0 /\ StageIndex(StatusOrder[2]) = 1
      /\ StageIndex(StatusOrder[3]) = 2 /\ StageIndex(StatusOrder[4]) = 3
      /\ StageIndex(StatusOrder[5]) = 4 /\ StageIndex(StatusOrder[6]) = 5
      /\ StageIndex(StatusOrder[7]) = 6 /\ StageIndex(StatusOrder[8]) = 7
      /\ StageIndex(StatusOrder[9]) = 8 /\ StageIndex(StatusOrder[10]) = 9
      /\ StageIndex(StatusOrder[11]) = 10 /\ StageIndex(StatusOrder[12]) = 11
      /\ StageIndex(StatusOrder[13]) = 12 /\ StageIndex(StatusOrder[14]) = 13
      /\ StageIndex(StatusOrder[15]) = 14 /\ StageIndex(StatusOrder[16]) = 15
      /\ StageIndex(StatusOrder[17]) = 16 /\ StageIndex(StatusOrder[18]) = 17
  BY <1>2
<1> QED BY <1>1, <1>3

\* Rounding: the whole is a hundred percent, and no less is.
LEMMA Rounding ==
  ASSUME NEW part \in Nat, NEW whole \in 1..17, part <= whole
  PROVE  /\ part = whole => Tenths(part, whole) = 1000
         /\ part < whole => Tenths(part, whole) < 1000
<1>1. CASE whole \in {1, 2, 3, 4, 5, 6, 7, 8, 9}
  BY <1>1 DEF Tenths
<1>2. CASE whole \in {10, 11, 12, 13, 14, 15, 16, 17}
  BY <1>2 DEF Tenths
<1> QED BY <1>1, <1>2

\* The percentage shown at the n-th stage.
LEMMA PercentType == ASSUME NEW s, NEW n \in 0..17, StageIndex(s) = n
  PROVE Percent(s) = (200 * n + 17) \div 34
BY OrderLength DEF Percent

\* The names a list may hold.
AllNames == <<"passport", "snils", "inn_cert", "income_2ndfl", "credit_report",
  "bank_statement",
  "bankruptcy_application", "creditors_registry", "asset_inventory",
    "power_of_attorney",
  "marriage_cert", "divorce_cert", "egrn_extract", "vehicle_title",
    "unemployment_cert",
  "credit_contract", "payment_schedule">>

\* A list requires something, and no more than there are names.
LEMMA RequiredBound ==
  ASSUME NEW m, NEW e, NEW p, NEW n
  PROVE  /\ IsFiniteSet(Required(Checklist(m, e, p, n)))
         /\ Cardinality(Required(Checklist(m, e, p, n))) \in 1..17
<1> DEFINE R == Required(Checklist(m, e, p, n))
           All == {AllNames[i] : i \in 1..17}
           f == [i \in 1..17 |-> AllNames[i]]
<1>1. f \in Surjection(1..17, All)
  <2>1. f \in [1..17 -> All]
    OBVIOUS
  <2>2. ASSUME NEW x \in All PROVE \E i \in 1..17 : f[i] = x
    <3>1. PICK i \in 1..17 : x = AllNames[i]
      OBVIOUS
    <3>2. f[i] = x
      BY <3>1
    <3> QED BY <3>2
  <2> HIDE DEF f, All
  <2> QED BY <2>1, <2>2 DEF Surjection
<1>2. IsFiniteSet(1..17) /\ Cardinality(1..17) = 17
  <2> HIDE DEF R, All, f
  <2>1. 1 \in Int /\ 17 \in Int
    OBVIOUS
  <2>2. /\ IsFiniteSet(1..17)
        /\ Cardinality(1..17) = IF 1 > 17 THEN 0 ELSE 17 - 1 + 1
    BY <2>1, FS_Interval
  <2> QED
    BY <2>2
<1>3. IsFiniteSet(All) /\ Cardinality(All) <= 17
  <2> HIDE DEF f, All
  <2> QED BY <1>1, <1>2, FS_Surjection
<1>4. R \in SUBSET All
  <2>1. All = {"passport", "snils", "inn_cert", "income_2ndfl", "credit_report",
          "bank_statement",
  "bankruptcy_application", "creditors_registry", "asset_inventory",
    "power_of_attorney",
  "marriage_cert", "divorce_cert", "egrn_extract", "vehicle_title",
    "unemployment_cert",
  "credit_contract", "payment_schedule"}
    <3>1. ASSUME NEW x
          PROVE x \in All <=>
                  \E i \in {1,2,3,4,5,6,7,8,9,10,11,12,13,14,15,16,17} : x = AllNames[i]
      OBVIOUS
    <3> HIDE DEF All
    <3> QED BY <3>1 DEF AllNames
  <2>2. Conditional(m, e, p, n) \subseteq {"marriage_cert", "divorce_cert",
          "egrn_extract", "vehicle_title", "unemployment_cert",
  "credit_contract", "payment_schedule"}
    BY DEF Conditional
  <2> HIDE DEF All
  <2> QED BY <2>1, <2>2 DEF Required, Checklist, Base, Process
<1> HIDE DEF All
<1>5. IsFiniteSet(R) /\ Cardinality(R) <= 17 /\ Cardinality(R) \in Nat
  BY <1>3, <1>4, FS_Subset, FS_CardinalityType
<1>6. R # {}
  <2>1. "passport" \in R
    BY DEF Required, Checklist, Base, Optional
  <2> QED BY <2>1
<1>7. Cardinality(R) # 0
  BY <1>5, <1>6, FS_EmptySet
<1> QED BY <1>5, <1>7

\* The list is at a hundred percent just when nothing required is missing.
LEMMA WholeIsComplete ==
  ASSUME NEW m, NEW e, NEW p, NEW n, NEW collected
  PROVE  LET list == Checklist(m, e, p, n) IN
           /\ Progress(list, collected) = 1000 <=> IsComplete(list, collected)
           /\ Missing(list, collected) # {} => Progress(list, collected) < 1000
<1> DEFINE R == Required(Checklist(m, e, p, n))
<1>1. IsFiniteSet(R) /\ Cardinality(R) \in 1..17
  BY RequiredBound
<1>2. /\ IsFiniteSet(R \cap collected) /\ Cardinality(R \cap collected) \in Nat
      /\ Cardinality(R \cap collected) <= Cardinality(R)
      /\ Cardinality(R \cap collected) = Cardinality(R) => R \cap collected = R
  BY <1>1, FS_Subset, FS_CardinalityType
<1> HIDE DEF R
<1>3. CASE R \cap collected = R
  <2>1. R \ collected = {}
    BY <1>3
  <2>2. Tenths(Cardinality(R \cap collected), Cardinality(R)) = 1000
    <3>1. Cardinality(R \cap collected) = Cardinality(R)
      BY <1>3
    <3>2. Cardinality(R) \in Nat /\ Cardinality(R) <= Cardinality(R)
      BY <1>1
    <3> QED BY <1>1, <3>1, <3>2, Rounding
  <2> QED BY <2>1, <2>2 DEF Progress, IsComplete, Missing, R
<1>4. CASE R \cap collected # R
  <2>1. R \ collected # {}
    BY <1>4
  <2>2. Tenths(Cardinality(R \cap collected), Cardinality(R)) < 1000
    BY <1>1, <1>2, <1>4, Rounding
  <2>3. Tenths(Cardinality(R \cap collected), Cardinality(R)) # 1000
    <3>1. Tenths(Cardinality(R \cap collected), Cardinality(R)) \in Int
      BY <1>1, <1>2 DEF Tenths
    <3> QED BY <2>2, <3>1
  <2> QED BY <2>1, <2>2, <2>3 DEF Progress, IsComplete, Missing, R
<1> QED BY <1>3, <1>4

\* What is stored of a document.
FileRow == [type : DocumentTypes,
            status : {"uploaded", "processing", "extracted", "validated", "rejected"},
            queued : BOOLEAN]

\* A document that changes to a row of the types keeps them.
LEMMA FileTypes ==
  ASSUME DossierTypeOK, NEW f \in Files, NEW row \in FileRow,
           file' = [file EXCEPT ![f] = row],
         UNCHANGED <<caseStatus, marital, employed, creditors>>
  PROVE  DossierTypeOK'
BY DEF DossierTypeOK, FileRow

\* A new document has a type of the enumeration.
LEMMA NewFile ==
  ASSUME NEW name, NEW s \in {"uploaded", "processing"}, NEW q \in BOOLEAN
  PROVE  [type |-> TypeOf(name), status |-> s, queued |-> q] \in FileRow
<1>1. TypeOf(name) \in DocumentTypes
  BY DEF TypeOf, DocumentTypes
<1> QED BY <1>1 DEF FileRow

\* No step breaks the types.
LEMMA DossierTypeStep ==
  ASSUME DossierTypeOK, [DossierNext]_dossierVars
  PROVE  DossierTypeOK'
<1>1. CASE UNCHANGED dossierVars
  BY <1>1 DEF DossierTypeOK, dossierVars
<1>2. CASE MoveCase
  BY <1>2 DEF MoveCase, DossierTypeOK, AvailableTransitions
<1>3. CASE AddCreditor
  BY <1>3 DEF AddCreditor, DossierTypeOK, MaxCreditors
<1>4. ASSUME NEW f \in Files, NEW name, Upload(f, name) \/ StaffUpload(f, name)
      PROVE  DossierTypeOK'
  BY <1>4, NewFile, FileTypes DEF Upload, StaffUpload
<1>5. ASSUME NEW f \in Files, Read(f) \/ Validate(f) PROVE DossierTypeOK'
  <2>1. PICK s \in {"extracted", "uploaded", "validated", "rejected"} :
           file' = [file EXCEPT ![f].status = s]
    BY <1>5 DEF Read, Validate
  <2>2. file[f] \in [type : DocumentTypes,
            status : {"uploaded", "processing", "extracted", "validated", "rejected"},
            queued : BOOLEAN]
    BY <1>5 DEF Read, Validate, DossierTypeOK
  <2>3. [file[f] EXCEPT !.status = s] \in FileRow
    BY <2>2 DEF FileRow
  <2>4. file' = [file EXCEPT ![f] = [file[f] EXCEPT !.status = s]]
    BY <2>1
  <2>5. UNCHANGED <<caseStatus, marital, employed, creditors>>
    BY <1>5 DEF Read, Validate
  <2> QED BY <2>3, <2>4, <2>5, FileTypes
<1> QED BY <1>1, <1>2, <1>3, <1>4, <1>5 DEF DossierNext

\* What is shown of a case with its types in order.
LEMMA DossierShows ==
  ASSUME DossierTypeOK
  PROVE  DossierIsSound
<1>1. DoneWhenDischarged
  <2>1. caseStatus \in CaseStatus
    BY DEF DossierTypeOK
  <2>2. CASE caseStatus \in {"on_hold", "settlement", "rejected", "cancelled"}
    BY <2>2, Unlisted, PercentType DEF DoneWhenDischarged
  <2>3. CASE caseStatus = "debt_discharged"
    BY <2>3, Indices, PercentType DEF DoneWhenDischarged
  <2>4. CASE caseStatus \notin {"on_hold", "settlement", "rejected", "cancelled",
               "debt_discharged"}
    <3>1. StageIndex(caseStatus) \in 0..16
      BY <2>1, <2>4, Indices DEF CaseStatus
    <3> QED BY <2>4, <3>1, PercentType DEF DoneWhenDischarged
  <2> QED BY <2>2, <2>3, <2>4
<1>2. ListsAgree
  <2>1. Missing(StaffList, Collected) \ Process = Missing(Shown, Collected)
    BY DEF Missing, Required, Shown, StaffList, ClientList
  <2>2. Progress(ClientList, Collected) = 1000 <=> IsComplete(ClientList, Collected)
    BY WholeIsComplete DEF ClientList
  <2> QED BY <2>1, <2>2 DEF ListsAgree, StaffList, ClientList
<1>3. RejectedIsMissing
  <2> SUFFICES ASSUME NEW f \in Files, file[f] # NoFile,
                        file[f].type \in Required(ClientList) \ Held,
          \A g \in Files : file[g] # NoFile /\ file[g].type = file[f].type =>
            file[g].status = "rejected"
      PROVE ~IsComplete(ClientList, Collected) /\ Progress(ClientList,
              Collected) < 1000
    BY DEF RejectedIsMissing
  <2>1. file[f].type \notin Collected
    BY DEF Collected
  <2>2. Missing(ClientList, Collected) # {}
    BY <2>1 DEF Missing
  <2> QED BY <2>2, WholeIsComplete DEF ClientList, IsComplete
<1> QED BY <1>1, <1>2, <1>3 DEF DossierIsSound

\* The table leads on, but for the steps back.
LEMMA IndexGrows ==
  ASSUME NEW s \in CaseStatus, NEW t \in AvailableTransitions(s),
         t \notin {"rejected", "cancelled", "on_hold", "settlement"}, <<s,
           t>> \notin StepsBack
  PROVE  /\ StageIndex(s) \in 0..17 /\ StageIndex(t) \in 0..17
         /\ StageIndex(s) < StageIndex(t)
<1>1. t \in Transitions[s] /\ t \in CaseStatus
  BY DEF AvailableTransitions, IsValidTransition
<1>2. CASE s \in {"lead", "qualification", "consultation", "contract_signing",
             "document_collection"}
  BY <1>1, <1>2, Indices DEF Transitions, StepsBack
<1>3. CASE s \in {"document_review", "application_preparation",
             "application_filed", "court_accepted"}
  BY <1>1, <1>3, Indices DEF Transitions, StepsBack
<1>4. CASE s \in {"hearing_scheduled", "procedure_started", "creditors_registry",
             "creditors_meeting"}
  BY <1>1, <1>4, Indices DEF Transitions, StepsBack
<1>5. CASE s \in {"asset_realization", "restructuring", "fu_report", "completion"}
  BY <1>1, <1>5, Indices DEF Transitions, StepsBack
<1>6. CASE s \in {"on_hold", "settlement", "rejected", "cancelled", "debt_discharged"}
  BY <1>1, <1>6, Indices, Unlisted DEF Transitions, StepsBack
<1> QED BY <1>2, <1>3, <1>4, <1>5, <1>6 DEF CaseStatus

\* A step that moves the case moves what is shown.
LEMMA ProgressStep ==
  ASSUME DossierTypeOK, [DossierNext]_dossierVars, caseStatus' # caseStatus
  PROVE  \/ caseStatus' \in {"rejected", "cancelled", "on_hold", "settlement"}
         \/ <<caseStatus, caseStatus'>> \in StepsBack
         \/ /\ Percent(caseStatus') > Percent(caseStatus)
            /\ CompletedStages(caseStatus) \subseteq CompletedStages(caseStatus')
<1>1. PICK t \in AvailableTransitions(caseStatus) : caseStatus' = t
  BY DEF DossierNext, dossierVars, MoveCase, AddCreditor, Upload, StaffUpload, Read,
     Validate
<1>2. PICK s \in CaseStatus : caseStatus = s
  BY DEF DossierTypeOK
<1>3. SUFFICES ASSUME t \notin {"rejected", "cancelled", "on_hold", "settlement"},
                        <<s, t>> \notin StepsBack
               PROVE  Percent(t) > Percent(s)
                        /\ CompletedStages(s) \subseteq CompletedStages(t)
  BY <1>1, <1>2
<1>4. PICK i \in 0..17, j \in 0..17 : StageIndex(s) = i /\ StageIndex(t) = j /\ i < j
  BY <1>1, <1>2, <1>3, IndexGrows
<1>5. Percent(s) = (200 * i + 17) \div 34 /\ Percent(t) = (200 * j + 17) \div 34
  BY <1>4, PercentType
<1>6. (200 * j + 17) \div 34 > (200 * i + 17) \div 34
  BY <1>4
<1>7. CompletedStages(s) \subseteq CompletedStages(t)
  BY <1>4 DEF CompletedStages
<1> QED BY <1>5, <1>6, <1>7

\* Whatever documents come and are judged, the lists of client and staff agree,
\* a rejected document is missing, and only a discharged case is done.
THEOREM DossierStaysSound == DossierSpec => []DossierIsSound
<1>1. DossierInit => DossierTypeOK
  BY DEF DossierInit, DossierTypeOK, CaseStatus, MaxCreditors
<1> QED BY <1>1, DossierTypeStep, DossierShows, PTL DEF DossierSpec

\* Along the table the progress a client sees grows.
THEOREM ProgressOnlyGrows == DossierSpec => ProgressGrows
<1>1. DossierInit => DossierTypeOK
  BY DEF DossierInit, DossierTypeOK, CaseStatus, MaxCreditors
<1>2. DossierTypeOK /\ [DossierNext]_dossierVars =>
  [caseStatus' # caseStatus =>
       \/ caseStatus' \in {"rejected", "cancelled", "on_hold", "settlement"}
       \/ <<caseStatus, caseStatus'>> \in StepsBack
       \/ /\ Percent(caseStatus') > Percent(caseStatus)
          /\ CompletedStages(caseStatus) \subseteq CompletedStages(caseStatus')]_dossierVars
  BY ProgressStep
<1> QED BY <1>1, <1>2, DossierTypeStep, PTL DEF DossierSpec, ProgressGrows
=============================================================================
