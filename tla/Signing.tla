------------------------------ MODULE Signing ------------------------------
(***************************************************************************)
(* The drafts of one document (one template, one case) and the SMS         *)
(* signatures of its client: backend/app/api/v1/billing.py with            *)
(* document_service.py and esign_service.py.                               *)
(*                                                                         *)
(* Every handler loads a row, checks its status, and commits later; a      *)
(* commit writes the columns that differ from the loaded ones.  A refusal  *)
(* is raised as ValueError: the router answers 400 and the session is      *)
(* closed without a commit, so what the service had changed is undone.     *)
(***************************************************************************)
EXTENDS Sessions, Naturals, FiniteSets

CONSTANTS
  Drafts,        \* identities of the drafts
  Signatures,    \* identities of the signature records
  NoDraft, NoSignature

ASSUME SigningAssumption ==
  /\ NoDraft \notin Drafts
  /\ NoSignature \notin Signatures

VARIABLES
  status,        \* document_drafts.status ("absent": no such row)
  version,       \* document_drafts.version
  signedBy,      \* document_drafts.signature_id
  sigStatus,     \* e_signatures.status ("absent": no such row)
  sigDraft,      \* e_signatures.document_draft_id
  expired,       \* signatures whose code is past its expiry
  job,           \* what each request is doing, with what it has loaded
  \* history
  approvals      \* drafts that a lawyer's approval was committed for

rowVars == <<status, version, signedBy, sigStatus, sigDraft>>
history == <<approvals>>
vars    == <<rowVars, expired, job, history>>

DraftStatus == {"draft", "review", "approved", "sent_for_signing", "signed"}
SigStatus   == {"code_sent", "signed"}

Idle == [kind |-> "idle", draft |-> NoDraft, signature |-> NoSignature,
         seen |-> "absent", version |-> 0]

Kinds == {"idle", "generate", "approve", "send", "initiate", "verify", "sign"}

TypeOK ==
  /\ status \in [Drafts -> DraftStatus \cup {"absent"}]
  /\ version \in [Drafts -> Nat]
  /\ signedBy \in [Drafts -> Signatures \cup {NoSignature}]
  /\ sigStatus \in [Signatures -> SigStatus \cup {"absent"}]
  /\ sigDraft \in [Signatures -> Drafts \cup {NoDraft}]
  /\ expired \subseteq Signatures
  /\ job \in [Requests -> [kind      : Kinds,
                           draft     : Drafts \cup {NoDraft},
                           signature : Signatures \cup {NoSignature},
                           seen      : DraftStatus \cup {"absent"},
                           version   : Nat]]
  /\ approvals \subseteq Drafts

Init ==
  /\ status = [d \in Drafts |-> "absent"]
  /\ version = [d \in Drafts |-> 0]
  /\ signedBy = [d \in Drafts |-> NoSignature]
  /\ sigStatus = [s \in Signatures |-> "absent"]
  /\ sigDraft = [s \in Signatures |-> NoDraft]
  /\ expired = {}
  /\ job = [r \in Requests |-> Idle]
  /\ approvals = {}

IsIdle(r) == job[r].kind = "idle"
EndJob(r) == job' = [job EXCEPT ![r] = Idle]
Stored    == {d \in Drafts : status[d] # "absent"}

-----------------------------------------------------------------------------
(* POST /drafts/generate                                                   *)

\* One more than the version of the draft there is.
NextVersion ==
  IF Stored = {} THEN 1 ELSE version[CHOOSE d \in Stored : TRUE] + 1

\* The drafts of the document are read; the request fails if there are two
\* (scalar_one_or_none() raises), so that no document has a third version.
\* The new draft has an id of its own.
GenerateDraft(r, d) ==
  /\ IsIdle(r)
  /\ status[d] = "absent"
  /\ \A q \in Requests : job[q].draft # d
  /\ \A d1, d2 \in Stored : d1 = d2
  /\ job' = [job EXCEPT ![r] = [Idle EXCEPT !.kind = "generate", !.draft = d,
                                           !.version = NextVersion]]
  /\ UNCHANGED <<rowVars, expired, history>>

CommitGenerate(r) ==
  LET d == job[r].draft IN
    /\ job[r].kind = "generate"
    /\ status' = [status EXCEPT ![d] = "draft"]
    /\ version' = [version EXCEPT ![d] = job[r].version]
    /\ EndJob(r)
    /\ UNCHANGED <<signedBy, sigStatus, sigDraft, expired, history>>

-----------------------------------------------------------------------------
(* POST /drafts/{id}/approve and POST /drafts/{id}/send-for-signing        *)

LoadDraft(r, kind, d) ==
  job' = [job EXCEPT ![r] = [Idle EXCEPT !.kind = kind, !.draft = d,
                                         !.seen = status[d]]]

ApproveDraft(r, d) ==
  /\ IsIdle(r)
  /\ status[d] \in {"draft", "review"}
  /\ LoadDraft(r, "approve", d)
  /\ UNCHANGED <<rowVars, expired, history>>

CommitApprove(r) ==
  /\ job[r].kind = "approve"
  /\ status' = [status EXCEPT ![job[r].draft] = "approved"]
  /\ approvals' = approvals \cup {job[r].draft}
  /\ EndJob(r)
  /\ UNCHANGED <<version, signedBy, sigStatus, sigDraft, expired>>

\* Mutant: what is not signed yet may be sent.
MaySendAny(d) == status[d] \in {"draft", "review", "approved"}

MaySend(d) == status[d] = "approved"

SendForSigning(r, d) ==
  /\ IsIdle(r)
  /\ MaySend(d)
  /\ LoadDraft(r, "send", d)
  /\ UNCHANGED <<rowVars, expired, history>>

CommitSend(r) ==
  /\ job[r].kind = "send"
  /\ status' = [status EXCEPT ![job[r].draft] = "sent_for_signing"]
  /\ EndJob(r)
  /\ UNCHANGED <<version, signedBy, sigStatus, sigDraft, expired, history>>

-----------------------------------------------------------------------------
(* POST /sign/initiate                                                     *)

\* Mutant: a draft can be signed as soon as it is approved.
MaySignApproved(d) == status[d] \in {"approved", "sent_for_signing"}

MayInitiate(d) == status[d] = "sent_for_signing"

\* A signature record with a fresh code; earlier codes stay valid.
InitiateSigning(r, d, s) ==
  /\ IsIdle(r)
  /\ MayInitiate(d)
  /\ sigStatus[s] = "absent"
  /\ \A q \in Requests : job[q].signature # s
  /\ job' = [job EXCEPT ![r] = [Idle EXCEPT !.kind = "initiate",
                                            !.draft = d, !.signature = s]]
  /\ UNCHANGED <<rowVars, expired, history>>

CommitInitiate(r) ==
  LET s == job[r].signature IN
    /\ job[r].kind = "initiate"
    /\ sigStatus' = [sigStatus EXCEPT ![s] = "code_sent"]
    /\ sigDraft' = [sigDraft EXCEPT ![s] = job[r].draft]
    /\ EndJob(r)
    /\ UNCHANGED <<status, version, signedBy, expired, history>>

\* Ten minutes have passed.
CodeExpires(s) ==
  /\ sigStatus[s] = "code_sent"
  /\ s \notin expired
  /\ expired' = expired \cup {s}
  /\ UNCHANGED <<rowVars, job, history>>

-----------------------------------------------------------------------------
(* POST /sign/verify                                                       *)

\* The signature is loaded and the code is right.  (After a wrong code, the
\* sixth attempt in one session or an expired code, the service sets "failed"
\* or "expired", or counts the attempt, and raises: the session is rolled
\* back, so such a request is no step.)
VerifyCode(r, s) ==
  /\ IsIdle(r)
  /\ sigStatus[s] = "code_sent"
  /\ s \notin expired
  /\ job' = [job EXCEPT ![r] = [Idle EXCEPT !.kind = "verify",
                                            !.signature = s]]
  /\ UNCHANGED <<rowVars, expired, history>>

\* The draft is loaded after the signature was checked.
LoadSigned(r) ==
  LET d == sigDraft[job[r].signature] IN
    /\ job[r].kind = "verify"
    /\ job' = [job EXCEPT ![r].kind = "sign", ![r].draft = d,
                          ![r].seen = status[d]]
    /\ UNCHANGED <<rowVars, expired, history>>

\* Mutant: the signature is recorded, the draft is not told.
SignsRecordOnly(r) == status

\* The draft becomes signed whatever it was when it was loaded.
StatusSigned(r) ==
  IF job[r].seen = "signed" THEN status
  ELSE [status EXCEPT ![job[r].draft] = "signed"]

SignatureNamed(r) == [signedBy EXCEPT ![job[r].draft] = job[r].signature]

CommitSign(r) ==
  /\ job[r].kind = "sign"
  /\ sigStatus' = [sigStatus EXCEPT ![job[r].signature] = "signed"]
  /\ status' = StatusSigned(r)
  /\ signedBy' = SignatureNamed(r)
  /\ EndJob(r)
  /\ UNCHANGED <<version, sigDraft, expired, history>>

-----------------------------------------------------------------------------
\* The handler dies or its commit fails: everything is rolled back.
AbortJob(r) ==
  /\ ~IsIdle(r)
  /\ EndJob(r)
  /\ UNCHANGED <<rowVars, expired, history>>

DraftStep(r) ==
  \/ \E d \in Drafts :
       GenerateDraft(r, d) \/ ApproveDraft(r, d) \/ SendForSigning(r, d)
  \/ CommitGenerate(r)
  \/ CommitApprove(r)
  \/ CommitSend(r)

SigningStep(r) ==
  \/ \E d \in Drafts, s \in Signatures : InitiateSigning(r, d, s)
  \/ CommitInitiate(r)
  \/ \E s \in Signatures : VerifyCode(r, s)
  \/ LoadSigned(r)
  \/ CommitSign(r)

Next ==
  \/ \E r \in Requests : DraftStep(r) \/ SigningStep(r) \/ AbortJob(r)
  \/ \E s \in Signatures : CodeExpires(s)

Spec == Init /\ [][Next]_vars

-----------------------------------------------------------------------------
(* Properties                                                              *)

\* Nothing is signed that no lawyer has approved, however requests overlap.
SignedWasApproved ==
  \A d \in Drafts : status[d] = "signed" => d \in approvals

\* A signed draft names a completed signature of its own.
SignedHasSignature ==
  \A d \in Drafts : status[d] = "signed" =>
    \E s \in Signatures :
      signedBy[d] = s /\ sigStatus[s] = "signed" /\ sigDraft[s] = d

\* With one request at a time a completed signature binds its draft for
\* good: no later step takes the draft out of "signed".
SignatureBinds ==
  \A s \in Signatures :
    sigStatus[s] = "signed" => status[sigDraft[s]] = "signed"

\* With one request at a time a draft goes forward only.
Lifecycle == INSTANCE DraftLifecycle
ImplementsLifecycle == Lifecycle!Spec
=============================================================================
