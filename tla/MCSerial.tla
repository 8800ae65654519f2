------------------------------ MODULE MCSerial ------------------------------
(* One request at a time: what holds as long as nobody overtakes anybody.  *)
(* Drafts are written, approved and signed, or a checklist is worked       *)
(* through, or the Telegram bot handles its updates; they share no row.    *)
EXTENDS Signing, Completeness, TelegramBot, TLC

VARIABLE which

\* Only the first document has a type the checklist knows; the name of every
\* document resembles every item.
MCByType == [d \in Documents |->
  IF d = CHOOSE e \in Documents : TRUE
  THEN CHOOSE i \in Items : TRUE ELSE NoItem]
MCByName == [d \in Documents |-> Items]

SerialInit ==
  /\ which \in {"signing", "checklist", "bot"}
  /\ Init /\ ChecklistInit /\ BotInit

SerialNext ==
  /\ UNCHANGED which
  /\ \/ which = "signing" /\ Next /\ UNCHANGED <<checklistVars, botVars>>
     \/ which = "checklist" /\ ChecklistNext /\ UNCHANGED <<vars, botVars>>
     \/ which = "bot" /\ BotNext /\ UNCHANGED <<vars, checklistVars>>

\* Only the bot's loop is sure to go on.
SerialSpec ==
  /\ SerialInit /\ [][SerialNext]_<<which, vars, checklistVars, botVars>>
  /\ WF_botVars(which = "bot" /\ Poll) /\ WF_botVars(which = "bot" /\ Handle)
=============================================================================
