---------------------------- MODULE ClientLogin ----------------------------
(* Clients enter their cabinet with a code sent to their phone             *)
(* (api/v1/client_auth.py).  The codes live in a dictionary of the one API *)
(* process; the clients are rows, and nothing makes their phones unique.   *)
EXTENDS Sessions, Naturals, FiniteSets

CONSTANTS
  ClientRows, Phones,
  Codes,         \* codes that get sent, in this order: 1..n
  MaxAttempts,   \* attempts at a code (5)
  NoPhone, NoCode

ASSUME LoginAssumption == Codes \subseteq Nat /\ MaxAttempts \in Nat

VARIABLES
  phone,         \* a client's phone (NoPhone: there is no such client)
  pending,       \* _pending_codes: per phone the code that is waiting
  entering,      \* per request what it holds while it waits for the database
  sent,          \* the number of codes sent so far
  tokens,        \* tokens that were issued
  holders,       \* who had the phone when its client was looked up (history)
  guesses,       \* how often something was compared with the code (history)
  accepted       \* how often the code was accepted (history)

loginVars == <<phone, pending, entering, sent, tokens, holders, guesses, accepted>>
loginHistory == <<holders, guesses, accepted>>

NotEntering == [op |-> "idle"]
Having(p) == {c \in ClientRows : phone[c] = p}

LoginInit ==
  /\ phone = [c \in ClientRows |-> NoPhone]
  /\ pending = [p \in Phones |-> NoCode]
  /\ entering = [r \in Requests |-> NotEntering]
  /\ sent = 0 /\ tokens = {}
  /\ holders = [n \in Codes |-> {}]
  /\ guesses = [n \in Codes |-> 0] /\ accepted = [n \in Codes |-> 0]

EndLogin(r) == entering' = [entering EXCEPT ![r] = NotEntering]

\* A client is added.
AddClient(c, p) ==
  /\ phone[c] = NoPhone
  /\ phone' = [phone EXCEPT ![c] = p]
  /\ UNCHANGED <<pending, entering, sent, tokens, loginHistory>>

\* Mutant: the first of several clients.
FirstOf(p) == Having(p)
\* scalar_one_or_none()
OneOrNone(p) == {c \in ClientRows : Having(p) = {c}}

\* With two clients of one phone the request fails; for
\* an unknown phone it answers as if a code had been sent.
SendCode(r, p) ==
  /\ entering[r] = NotEntering
  /\ \E c \in OneOrNone(p) :
       entering' = [entering EXCEPT ![r] = [op |-> "send", phone |-> p, client |-> c,
                                      having |-> Having(p)]]
  /\ UNCHANGED <<phone, pending, sent, tokens, loginHistory>>

\* The new code takes the place of one that may be waiting.
StoreCode(r) ==
  LET q == entering[r] IN
  /\ q.op = "send" /\ sent + 1 \in Codes
  /\ sent' = sent + 1
  /\ pending' = [pending EXCEPT ![q.phone] =
       [code |-> sent + 1, client |-> q.client, attempts |-> 0, expired |-> FALSE]]
  /\ holders' = [holders EXCEPT ![sent + 1] = q.having]
  /\ EndLogin(r)
  /\ UNCHANGED <<phone, tokens, guesses, accepted>>

\* Five minutes have passed.
LoginCodeExpires(p) ==
  /\ pending[p] # NoCode /\ ~pending[p].expired
  /\ pending' = [pending EXCEPT ![p].expired = TRUE]
  /\ UNCHANGED <<phone, entering, sent, tokens, loginHistory>>

Forget(p) == pending' = [pending EXCEPT ![p] = NoCode]

\* An expired code, or one too many attempts at it.
DropCode(p) ==
  /\ pending[p] # NoCode
  /\ pending[p].expired \/ pending[p].attempts >= MaxAttempts
  /\ Forget(p)
  /\ UNCHANGED <<phone, entering, sent, tokens, loginHistory>>

MayTry(p) == ~pending[p].expired /\ pending[p].attempts < MaxAttempts

Compared(p) == guesses' = [guesses EXCEPT ![pending[p].code] = @ + 1]

WrongCode(p) ==
  /\ pending[p] # NoCode /\ MayTry(p)
  /\ pending' = [pending EXCEPT ![p].attempts = @ + 1]
  /\ Compared(p)
  /\ UNCHANGED <<phone, entering, sent, tokens, holders, accepted>>

\* The code is used up before the client is loaded again.
RightCode(r, p) ==
  /\ entering[r] = NotEntering
  /\ pending[p] # NoCode /\ MayTry(p)
  /\ Compared(p)
  /\ accepted' = [accepted EXCEPT ![pending[p].code] = @ + 1]
  /\ entering' = [entering EXCEPT ![r] =
       [op |-> "mint", phone |-> p, client |-> pending[p].client, code |-> pending[p].code]]
  /\ Forget(p)
  /\ UNCHANGED <<phone, sent, tokens, holders>>

IssueToken(r) ==
  LET q == entering[r] IN
  /\ q.op = "mint"
  /\ tokens' = tokens \cup {[client |-> q.client, phone |-> q.phone, code |-> q.code]}
  /\ EndLogin(r)
  /\ UNCHANGED <<phone, pending, sent, loginHistory>>

\* The process starts again: codes and requests are gone, tokens stay valid.
Restart ==
  /\ pending' = [p \in Phones |-> NoCode]
  /\ entering' = [r \in Requests |-> NotEntering]
  /\ UNCHANGED <<phone, sent, tokens, loginHistory>>

LoginNext ==
  \/ \E c \in ClientRows, p \in Phones : AddClient(c, p)
  \/ \E r \in Requests :
       \/ \E p \in Phones : SendCode(r, p) \/ RightCode(r, p)
       \/ StoreCode(r) \/ IssueToken(r)
  \/ \E p \in Phones : LoginCodeExpires(p) \/ DropCode(p) \/ WrongCode(p)
  \/ Restart

LoginSpec == LoginInit /\ [][LoginNext]_loginVars

-----------------------------------------------------------------------------
\* However requests, restarts and expiries come, a code is compared with
\* MaxAttempts inputs at most, lets somebody in once at most, and is never
\* both waiting and used.
CodesAreSpent ==
  /\ \A n \in Codes : guesses[n] <= MaxAttempts /\ accepted[n] <= 1
  /\ \A p \in Phones : pending[p] # NoCode => accepted[pending[p].code] = 0

\* A token is for the one client who had the phone when the code was asked
\* for, whoever has it as well by the time the code is entered.
TokensMatchPhones ==
  \A t \in tokens : holders[t.code] = {t.client}

\* Codes and tokens are as good as the SMS they came with.
LoginIsSound == CodesAreSpent /\ TokensMatchPhones
=============================================================================
