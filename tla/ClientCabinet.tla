--------------------------- MODULE ClientCabinet ---------------------------
(* What clients do in their cabinet (api/v1/client_cabinet.py): they book  *)
(* and cancel consultations, ask for one, and write to their lawyer, in    *)
(* their one active case.  Staff open, close and assign cases meanwhile.   *)
EXTENDS Sessions, FiniteSets

CONSTANTS
  Clients, Lawyers,
  Cases,
  Items,         \* consultations, requests and messages that get written
  Nobody, Nothing

VARIABLES
  case,          \* the row of a case
  item,          \* the row of a consultation or message
  told,          \* notifications: who is told of which item
  timeline,      \* events: in which case the client sees which item
  writing,       \* per request what it has loaded
  overtaken,
    \* history: writes whose client's cases staff moved since they loaded them
  outdated       \* history: items whose client's cases staff moved since then

cabinetVars == <<case, item, told, timeline, writing, overtaken, outdated>>

\* "Closed" is rejected or cancelled; every other status, debts discharged and
\* on hold too, is active.
Activity == {"active", "closed"}
NotWriting == [op |-> "idle"]
ItemKinds == {"meeting", "wish", "message"}

\* The value for a missing row is no row.
ASSUME CabinetAssumption ==
  /\ Nothing \notin [client : Clients, lawyer : Lawyers \cup {Nobody},
       status : Activity]
  /\ Nothing \notin [kind : ItemKinds, case : Cases, client : Clients,
                     lawyer : Lawyers \cup {Nobody},
                     status : {"scheduled", "cancelled"}, over : BOOLEAN]

CabinetInit ==
  /\ case = [k \in Cases |-> Nothing]
  /\ item = [i \in Items |-> Nothing]
  /\ told = {} /\ timeline = {}
  /\ writing = [r \in Requests |-> NotWriting]
  /\ overtaken = {} /\ outdated = {}

IsStored(i) == item[i] # Nothing
EndWriting(r) ==
  /\ writing' = [writing EXCEPT ![r] = NotWriting]
  /\ overtaken' = overtaken \ {r}

-----------------------------------------------------------------------------
(* Staff.                                                                  *)

\* The cases of a client are no longer what its requests and items were made in.
Moves(c) ==
  /\ overtaken' = overtaken \cup
       {r \in Requests : writing[r].op = "write" /\ writing[r].client = c}
  /\ outdated' = outdated \cup {i \in Items : IsStored(i) /\ item[i].client = c}

\* Nothing asks whether the client has a case already.
OpenCase(k, c) ==
  /\ case[k] = Nothing
  /\ case' = [case EXCEPT ![k] = [client |-> c, lawyer |-> Nobody,
       status |-> "active"]]
  /\ Moves(c)
  /\ UNCHANGED <<item, told, timeline, writing>>

CloseCase(k) ==
  /\ case[k] # Nothing /\ case[k].status = "active"
  /\ case' = [case EXCEPT ![k].status = "closed"]
  /\ Moves(case[k].client)
  /\ UNCHANGED <<item, told, timeline, writing>>

AssignLawyer(k, l) ==
  /\ case[k] # Nothing /\ case[k].lawyer # l
  /\ case' = [case EXCEPT ![k].lawyer = l]
  /\ Moves(case[k].client)
  /\ UNCHANGED <<item, told, timeline, writing>>

-----------------------------------------------------------------------------
(* The client.                                                             *)

\* Mutant: the case is looked for by its status.
AnyActive(c) == {k \in Cases : case[k] # Nothing /\ case[k].status = "active"}
ActiveCases(c) ==
  {k \in Cases : case[k] # Nothing /\ case[k].client = c /\ case[k].status = "active"}

\* scalar_one_or_none(): with two active cases every request fails.
Opens(c) == \E k \in Cases : ActiveCases(c) = {k}
TheCase(c) == CHOOSE k \in Cases : ActiveCases(c) = {k}

\* What the handler writes goes by the case and the lawyer it has loaded.
LoadCase(r, c, kind) ==
  /\ writing[r] = NotWriting /\ Opens(c)
  /\ writing' = [writing EXCEPT ![r] =
       [op |-> "write", kind |-> kind, client |-> c, case |-> TheCase(c),
        lawyer |-> case[TheCase(c)].lawyer]]
  /\ UNCHANGED <<case, item, told, timeline, overtaken, outdated>>

\* A notification, if there is a lawyer.
Notified(r, i) == {[user |-> l, about |-> i] : l \in {writing[r].lawyer} \ {Nobody}}

\* A message is no event; a wish for a consultation is nothing else.
Commit(r, i) ==
  LET q == writing[r] IN
  /\ q.op = "write" /\ ~IsStored(i)
  /\ item' = [item EXCEPT ![i] =
       [kind |-> q.kind, case |-> q.case, client |-> q.client, lawyer |-> q.lawyer,
        status |-> "scheduled", over |-> FALSE]]
  /\ told' = told \cup Notified(r, i)
  /\ timeline' = IF q.kind = "message" THEN timeline
                 ELSE timeline \cup {[case |-> q.case, about |-> i]}
  /\ outdated' = outdated \cup {j \in {i} : r \in overtaken}
  /\ EndWriting(r)
  /\ UNCHANGED case

\* What the client may cancel goes by its own name, not by the case.
Booked(c) ==
  {i \in Items : /\ IsStored(i) /\ item[i].kind = "meeting"
                 /\ item[i].client = c /\ item[i].status = "scheduled"}

LoadMeeting(r, c, i) ==
  /\ writing[r] = NotWriting
  /\ i \in Booked(c)
  /\ writing' = [writing EXCEPT ![r] = [op |-> "cancel", item |-> i]]
  /\ UNCHANGED <<case, item, told, timeline, overtaken, outdated>>

\* Nobody is told.
CommitCancel(r) ==
  /\ writing[r].op = "cancel"
  /\ item' = [item EXCEPT ![writing[r].item].status = "cancelled"]
  /\ EndWriting(r)
  /\ UNCHANGED <<case, told, timeline, outdated>>

Abort(r) ==
  /\ writing[r] # NotWriting
  /\ EndWriting(r)
  /\ UNCHANGED <<case, item, told, timeline, outdated>>

\* The time of a consultation passes (of one that was cancelled: unseen).
Passes(i) ==
  /\ IsStored(i) /\ item[i].kind = "meeting" /\ item[i].status = "scheduled"
       /\ ~item[i].over
  /\ item' = [item EXCEPT ![i].over = TRUE]
  /\ UNCHANGED <<case, told, timeline, writing, overtaken, outdated>>

CabinetNext ==
  \/ \E k \in Cases :
       \/ \E c \in Clients : OpenCase(k, c)
       \/ CloseCase(k)
       \/ \E l \in Lawyers : AssignLawyer(k, l)
  \/ \E r \in Requests :
       \/ \E c \in Clients :
            \/ \E kind \in ItemKinds : LoadCase(r, c, kind)
            \/ \E i \in Items : LoadMeeting(r, c, i)
       \/ \E i \in Items : Commit(r, i)
       \/ CommitCancel(r) \/ Abort(r)
  \/ \E i \in Items : Passes(i)

CabinetSpec == CabinetInit /\ [][CabinetNext]_cabinetVars

-----------------------------------------------------------------------------
(* What the cabinet shows.                                                 *)

Meetings(c) ==
  {i \in Items : Opens(c) /\ IsStored(i) /\ item[i].kind = "meeting"
    /\ item[i].case = TheCase(c)}

Upcoming(c) == {i \in Meetings(c) : ~item[i].over /\ item[i].status = "scheduled"}
Past(c) == Meetings(c) \ Upcoming(c)

Calendar(c) == {i \in Meetings(c) : item[i].status = "scheduled"}

Events(c) == {e \in timeline : Opens(c) /\ e.case = TheCase(c)}

-----------------------------------------------------------------------------
\* What a client has written is in a case of its own, and so is every event
\* and every meeting that it is shown, whatever staff have done to the cases.
ItemsAreOwn ==
  /\ \A i \in Items : IsStored(i) => case[item[i].case].client = item[i].client
  /\ \A c \in Clients :
       /\ \A i \in Meetings(c) : item[i].client = c
       /\ \A e \in Events(c) : item[e.about].client = c

\* Only staff who open, close or assign a case of the client, after the request
\* has loaded it, can part an item from its case: until then it is in the one
\* active case, the lawyer of that case and nobody else has been told of it,
\* and its event is on the client's timeline.
PartedByStaffOnly ==
  \A i \in Items : IsStored(i) /\ i \notin outdated =>
    /\ ActiveCases(item[i].client) = {item[i].case}
    /\ {t.user : t \in {u \in told : u.about = i}} = {case[item[i].case].lawyer} \ {Nobody}
    /\ item[i].kind # "message" => \E e \in Events(item[i].client) : e.about = i

\* The lists go by the case and the cancelling by the client, and they fit: what
\* the client sees ahead of it, it can cancel; unless staff have moved its cases,
\* it sees what it can cancel, and what was cancelled or is over stays in sight.
CalendarIsInReach ==
  \A c \in Clients :
    /\ Calendar(c) \cup Upcoming(c) \subseteq Booked(c)
    /\ Booked(c) \ outdated \subseteq Calendar(c)
    /\ {i \in Booked(c) \ outdated : ~item[i].over} \subseteq Upcoming(c)
    /\ \A i \in Items \ outdated :
         IsStored(i) /\ item[i].kind = "meeting" /\ item[i].client = c =>
           i \in Upcoming(c) \cup Past(c)

\* What is stored, announced and shown belongs to the client, and together.
CabinetIsSound == ItemsAreOwn /\ PartedByStaffOnly /\ CalendarIsInReach
=============================================================================
