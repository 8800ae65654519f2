---------------------------- MODULE TelegramBot ----------------------------
(* backend/integrations/telegram_bot.py: one loop that fetches the updates *)
(* of all chats and handles them one after the other, with the sessions of *)
(* the chats in the memory of the process.                                 *)
EXTENDS Naturals, Sequences, FiniteSets

CONSTANTS
  Chats,
  MaxUpdates, MaxRestarts,   \* bounds
  NoSession

ASSUME BotAssumption == MaxUpdates \in Nat

\* The command /start, any other text, and the buttons; "lawyer" stands for
\* contact_lawyer and schedule_consultation, which only answer.
UpdateKinds == {"start", "text", "ask_question", "start_qualification", "check_status", "lawyer"}

VARIABLES
  updates,        \* all updates so far, numbered by update_id
  confirmed,      \* those Telegram will not send again
  offset,         \* those the loop has begun to handle
  fetched,        \* the end of the batch in hand
  session,        \* per chat its state and the updates it has said (replies
                  \* and session_id are left out: nothing depends on them)
  restarts,
  handled         \* how often each update was begun (a history variable)

botVars == <<updates, confirmed, offset, fetched, session, restarts, handled>>

BotInit ==
  /\ updates = << >>
  /\ confirmed = 0 /\ offset = 0 /\ fetched = 0
  /\ session = [c \in Chats |-> NoSession]
  /\ restarts = 0
  /\ handled = [u \in 1 .. MaxUpdates |-> 0]

NewSession(s) == [state |-> s, messages |-> << >>]
Present(c) == IF session[c] = NoSession THEN NewSession("idle") ELSE session[c]

-----------------------------------------------------------------------------
(* Telegram.                                                               *)

Send(c, k) ==
  /\ Len(updates) < MaxUpdates
  /\ updates' = Append(updates, [chat |-> c, kind |-> k])
  /\ UNCHANGED <<confirmed, offset, fetched, session, restarts, handled>>

Advanced == offset + 1

\* Mutant: the whole batch is confirmed when it is fetched.
FetchedAtOnce == Len(updates)
\* Mutant: the offset is not sent.
NeverSent == confirmed

\* getUpdates with an offset confirms everything before it, and may return
\* nothing.  (One that fails or times out is made again.)
ConfirmedBy == offset

Poll ==
  /\ offset = fetched
  /\ confirmed' = ConfirmedBy
  /\ fetched' = Len(updates)
  /\ UNCHANGED <<updates, offset, session, restarts, handled>>

\* Sessions, offset and batch are gone; Telegram starts from the first update
\* that was not confirmed.
Restart ==
  /\ restarts < MaxRestarts
  /\ restarts' = restarts + 1
  /\ offset' = confirmed /\ fetched' = confirmed
  /\ session' = [c \in Chats |-> NoSession]
  /\ UNCHANGED <<updates, confirmed, handled>>

-----------------------------------------------------------------------------
(* Handling an update.                                                     *)

Current == updates[offset + 1]
Chat == Current.chat

\* An exception that leaves the handler ends the batch; the rest is fetched
\* again.
Turns(raised) ==
  /\ offset' = IF raised THEN Advanced ELSE offset + 1
  /\ fetched' = IF raised THEN offset' ELSE fetched
  /\ handled' = [handled EXCEPT ![offset + 1] = @ + 1]
  /\ UNCHANGED <<updates, confirmed, restarts>>

Is(k) == offset < fetched /\ Current.kind = k
Text == Is("text") /\ session[Chat] # NoSession

Becomes(s) == session' = [session EXCEPT ![Chat] = s]

\* The first text of a chat starts it, whatever it says.
HandleStart(raised) ==
  /\ Is("start") \/ (Is("text") /\ session[Chat] = NoSession)
  /\ Becomes(NewSession("idle"))
  /\ Turns(raised)

AskQuestion(raised) ==
  /\ Is("ask_question")
  /\ Becomes([Present(Chat) EXCEPT !.state = "idle"])
  /\ Turns(raised)

\* The state changes between the message and the receipt of the button.
CheckStatus(raised) ==
  /\ Is("check_status")
  /\ \/ raised /\ UNCHANGED session
     \/ Becomes([Present(Chat) EXCEPT !.state = "client"])
  /\ Turns(raised)

\* Numbers of cases and questions to the consultant are only answered.
OnlyAnswer(raised) ==
  /\ \/ Is("lawyer")
     \/ Text /\ session[Chat].state \in {"client", "idle"}
  /\ Turns(raised) /\ UNCHANGED session

Said(s) == [s EXCEPT !.messages = Append(@, offset + 1)]

\* /chat replies, or fails and an apology is sent; so does /qualify.
GoesOn(s, raised) == Becomes(Said(s)) /\ Turns(raised)

\* /chat asks for the estimate, /qualify gives it, and the person is shown it.
\* Nothing can be raised after that but by the receipt of a button.
Qualified(s, raised) ==
  /\ raised => Is("start_qualification")
  /\ Becomes([Said(s) EXCEPT !.state = "idle"])
  /\ Turns(raised)

ProcessQualification(s, raised) == GoesOn(s, raised) \/ Qualified(s, raised)

\* Mutant: the messages of the last dialogue stay.
KeepsMessages(s) == [s EXCEPT !.state = "qualifying"]
Qualifying(s) == [state |-> "qualifying", messages |-> << >>]

StartQualification(raised) ==
  Is("start_qualification") /\ ProcessQualification(Qualifying(Present(Chat)), raised)

Continue(raised) ==
  /\ Text /\ session[Chat].state = "qualifying"
  /\ ProcessQualification(session[Chat], raised)

Handle ==
  \E raised \in BOOLEAN :
    \/ HandleStart(raised) \/ AskQuestion(raised) \/ CheckStatus(raised)
    \/ OnlyAnswer(raised) \/ StartQualification(raised) \/ Continue(raised)

BotNext ==
  \/ \E c \in Chats, k \in UpdateKinds : Send(c, k)
  \/ Poll \/ Handle \/ Restart

BotSpec == BotInit /\ [][BotNext]_botVars

\* The loop goes on: every request has a timeout and every exception is caught.
BotFairness == WF_botVars(Poll) /\ WF_botVars(Handle)
BotFairSpec == BotSpec /\ BotFairness

-----------------------------------------------------------------------------
\* No update is lost: what Telegram forgets was begun, whatever was raised and
\* whenever the process was restarted.
NothingIsSkipped == \A u \in 1 .. confirmed : handled[u] > 0

\* Only a restart has an update handled again: one that cannot be handled does
\* not come back, and keeps nobody waiting.
RepeatsAreRestarts == \A u \in 1 .. MaxUpdates : handled[u] <= 1 + restarts

\* Every update is handled once, and again only because of a restart.
UpdatesAreHandled == NothingIsSkipped /\ RepeatsAreRestarts

\* Texts since the button was last pressed.
Begun(c, u) == updates[u].chat = c /\ u <= offset
Since(c) ==
  {u \in 1 .. offset : Begun(c, u) /\ updates[u].kind = "text" /\
     \A v \in u .. offset : Begun(c, v) => updates[v].kind # "start_qualification"}

\* The model is sent every text of this dialogue, in this order, and none of an
\* earlier dialogue or of another chat, after the greeting.
DialogueIsComplete ==
  \A c \in Chats : session[c] # NoSession /\ session[c].state = "qualifying" =>
    LET m == session[c].messages IN
      /\ \A i, k \in DOMAIN m : i < k => m[i] < m[k]
      /\ {m[i] : i \in 2 .. Len(m)} = Since(c)
      /\ updates[m[1]].kind = "start_qualification"

\* Every update is begun in the end, and Telegram told so.
EveryUpdateIsConfirmed ==
  \A u \in 1 .. MaxUpdates : u <= Len(updates) ~> u <= confirmed
=============================================================================
