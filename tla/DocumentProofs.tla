--------------------------- MODULE DocumentProofs ---------------------------
(***************************************************************************)
(* Proofs about Signing, for any number of drafts, signatures and requests *)
(* that overlap in any way.                                                *)
(*                                                                         *)
(* An approval is the beginning of a chain (approved, sent, code sent,     *)
(* verified, signed) whose links different requests forge, each with what  *)
(* it has loaded.  The invariant carries the approval along the chain      *)
(* (RowsAreApproved, JobsAreApproved) and keeps the signature records of   *)
(* different requests apart (JobsAreApart).                                *)
(***************************************************************************)
EXTENDS Signing, Completeness, TLAPS

USE SigningAssumption

\* What a request that is past its checks has in its hands.
JobsHold ==
  \A r \in Requests :
    /\ job[r].kind \in {"generate", "approve", "send", "initiate", "sign"}
         => job[r].draft \in Drafts
    /\ job[r].kind \in {"initiate", "verify", "sign"}
         => job[r].signature \in Signatures
    /\ job[r].kind = "initiate" => sigStatus[job[r].signature] = "absent"
    /\ job[r].kind \in {"verify", "sign"}
         => sigStatus[job[r].signature] \in {"code_sent", "signed"}
    /\ job[r].kind = "sign" => sigDraft[job[r].signature] = job[r].draft

\* No two requests make the same signature record.
JobsAreApart ==
  \A q, r \in Requests :
    /\ job[q].kind = "initiate" /\ job[r].kind = "initiate"
    /\ job[q].signature = job[r].signature
    => q = r

\* The approval behind what a request is going to write.
JobsAreApproved ==
  \A r \in Requests :
    job[r].kind \in {"send", "initiate"} => job[r].draft \in approvals

\* The approval behind the rows.
RowsAreApproved ==
  /\ \A d \in Drafts :
       status[d] \in {"approved", "sent_for_signing", "signed"}
         => d \in approvals
  /\ \A s \in Signatures : sigStatus[s] # "absent" => sigDraft[s] \in approvals

Inv ==
  /\ TypeOK
  /\ JobsHold
  /\ JobsAreApart
  /\ JobsAreApproved
  /\ RowsAreApproved
  /\ SignedHasSignature

Job == [kind      : Kinds,
        draft     : Drafts \cup {NoDraft},
        signature : Signatures \cup {NoSignature},
        seen      : DraftStatus \cup {"absent"},
        version   : Nat]

-----------------------------------------------------------------------------
(* Types                                                                   *)

\* A request that does nothing is a job.
LEMMA IdleType == Idle \in Job
BY DEF Idle, Job, Kinds, DraftStatus

\* A request that ends is idle.
LEMMA EndType ==
  ASSUME TypeOK, NEW r \in Requests, EndJob(r)
  PROVE  job' \in [Requests -> Job]
BY IdleType DEF TypeOK, EndJob, Job

\* A request that begins is a job with what it has loaded.
LEMMA LoadType ==
  ASSUME TypeOK, NEW r \in Requests, NEW kind \in Kinds, NEW d \in Drafts,
         LoadDraft(r, kind, d)
  PROVE  job' \in [Requests -> Job]
<1>1. [Idle EXCEPT !.kind = kind, !.draft = d, !.seen = status[d]] \in Job
  BY DEF Idle, Job, TypeOK
<1> QED
  BY <1>1 DEF LoadDraft, TypeOK, Job

\* The version of a new draft is a number.
LEMMA NextVersionType ==
  ASSUME TypeOK
  PROVE  NextVersion \in Nat
BY DEF TypeOK, NextVersion, Stored

\* The initial state is well typed.
LEMMA InitTypeOK ==
  ASSUME Init
  PROVE  TypeOK
<1>1. job \in [Requests -> Job]
  BY IdleType DEF Init
<1>2. /\ status \in [Drafts -> DraftStatus \cup {"absent"}]
      /\ version \in [Drafts -> Nat]
      /\ signedBy \in [Drafts -> Signatures \cup {NoSignature}]
      /\ sigStatus \in [Signatures -> SigStatus \cup {"absent"}]
      /\ sigDraft \in [Signatures -> Drafts \cup {NoDraft}]
  BY DEF Init
<1> QED
  BY <1>1, <1>2 DEF Init, TypeOK, Job

\* Every step on drafts keeps the types.
LEMMA DraftTypes ==
  ASSUME TypeOK, JobsHold, NEW r \in Requests, DraftStep(r)
  PROVE  TypeOK'
<1> USE DEF rowVars, history
<1>1. ASSUME NEW d \in Drafts, GenerateDraft(r, d)
      PROVE  TypeOK'
  <2>1. [Idle EXCEPT !.kind = "generate", !.draft = d, !.version = NextVersion]
          \in Job
    BY NextVersionType DEF Idle, Job, Kinds, DraftStatus
  <2>2. job' = [job EXCEPT ![r] =
          [Idle EXCEPT !.kind = "generate", !.draft = d,
                       !.version = NextVersion]]
    BY <1>1 DEF GenerateDraft
  <2>3. job' \in [Requests -> Job]
    <3>1. job \in [Requests -> Job]
      BY DEF TypeOK, Job
    <3> QED
      BY <2>1, <2>2, <3>1
  <2>4. UNCHANGED <<rowVars, expired, approvals>>
    BY <1>1 DEF GenerateDraft
  <2> QED
    BY <2>3, <2>4 DEF TypeOK, Job
<1>2. ASSUME NEW d \in Drafts, ApproveDraft(r, d) \/ SendForSigning(r, d)
      PROVE  TypeOK'
  <2>1. job' \in [Requests -> Job]
    BY <1>2, LoadType DEF ApproveDraft, SendForSigning, Kinds
  <2> QED
    BY <1>2, <2>1 DEF TypeOK, ApproveDraft, SendForSigning, Job
<1>3. CASE CommitGenerate(r)
  <2>1. job[r].draft \in Drafts /\ job[r].version \in Nat
    BY <1>3 DEF JobsHold, CommitGenerate, TypeOK
  <2> QED
    BY <1>3, <2>1, EndType DEF TypeOK, CommitGenerate, DraftStatus, Job
<1>4. CASE CommitApprove(r) \/ CommitSend(r)
  <2>1. job[r].draft \in Drafts
    BY <1>4 DEF JobsHold, CommitApprove, CommitSend
  <2>2. CASE CommitApprove(r)
    BY <2>1, <2>2, EndType DEF TypeOK, CommitApprove, DraftStatus, Job
  <2>3. CASE CommitSend(r)
    BY <2>1, <2>3, EndType DEF TypeOK, CommitSend, DraftStatus, Job
  <2> QED
    BY <1>4, <2>2, <2>3
<1> QED
  BY <1>1, <1>2, <1>3, <1>4 DEF DraftStep

\* A signature record that exists is for a draft.
LEMMA LoadedDraft ==
  ASSUME TypeOK, RowsAreApproved, NEW s \in Signatures,
         sigStatus[s] # "absent"
  PROVE  sigDraft[s] \in Drafts
BY DEF TypeOK, RowsAreApproved

\* Every step on signatures keeps the types.
LEMMA SigningTypes ==
  ASSUME TypeOK, JobsHold, RowsAreApproved, NEW r \in Requests, SigningStep(r)
  PROVE  TypeOK'
<1> USE DEF rowVars, history
<1>1. ASSUME NEW d \in Drafts, NEW s \in Signatures, InitiateSigning(r, d, s)
      PROVE  TypeOK'
  <2>1. [Idle EXCEPT !.kind = "initiate", !.draft = d, !.signature = s] \in Job
    BY DEF Idle, Job, Kinds, DraftStatus
  <2> QED
    BY <1>1, <2>1 DEF TypeOK, InitiateSigning, Job
<1>2. CASE CommitInitiate(r)
  <2>1. job[r].draft \in Drafts /\ job[r].signature \in Signatures
    BY <1>2 DEF JobsHold, CommitInitiate
  <2> QED
    BY <1>2, <2>1, EndType DEF TypeOK, CommitInitiate, SigStatus, Job
<1>3. ASSUME NEW s \in Signatures, VerifyCode(r, s)
      PROVE  TypeOK'
  <2>1. [Idle EXCEPT !.kind = "verify", !.signature = s] \in Job
    BY DEF Idle, Job, Kinds, DraftStatus
  <2> QED
    BY <1>3, <2>1 DEF TypeOK, VerifyCode, Job
<1>4. CASE LoadSigned(r)
  <2>1. /\ job[r] \in Job
        /\ sigDraft[job[r].signature] \in Drafts \cup {NoDraft}
        /\ status[sigDraft[job[r].signature]] \in DraftStatus \cup {"absent"}
    BY <1>4, LoadedDraft
    DEF LoadSigned, TypeOK, Job, JobsHold
  <2>2. job' \in [Requests -> Job]
    BY <1>4, <2>1 DEF TypeOK, LoadSigned, Job, Kinds
  <2> QED
    BY <1>4, <2>2 DEF TypeOK, LoadSigned, Job
<1>5. CASE CommitSign(r)
  <2>1. job[r].draft \in Drafts /\ job[r].signature \in Signatures
    BY <1>5 DEF JobsHold, CommitSign
  <2>2. status' \in [Drafts -> DraftStatus \cup {"absent"}]
    BY <1>5, <2>1 DEF TypeOK, CommitSign, StatusSigned, DraftStatus
  <2>3. signedBy' \in [Drafts -> Signatures \cup {NoSignature}]
    BY <1>5, <2>1 DEF TypeOK, CommitSign, SignatureNamed
  <2>4. sigStatus' \in [Signatures -> SigStatus \cup {"absent"}]
    BY <1>5, <2>1 DEF TypeOK, CommitSign, SigStatus
  <2>5. job' \in [Requests -> Job]
    BY <1>5, EndType DEF CommitSign
  <2> QED
    BY <1>5, <2>2, <2>3, <2>4, <2>5 DEF TypeOK, CommitSign, Job
<1> QED
  BY <1>1, <1>2, <1>3, <1>4, <1>5 DEF SigningStep

\* Every action keeps the types.
LEMMA TypeStep ==
  ASSUME Inv, [Next]_vars
  PROVE  TypeOK'
<1>1. ASSUME NEW r \in Requests, AbortJob(r)
      PROVE  TypeOK'
  BY <1>1, EndType DEF Inv, TypeOK, AbortJob, rowVars, history, Job
<1>2. ASSUME NEW s \in Signatures, CodeExpires(s)
      PROVE  TypeOK'
  BY <1>2 DEF Inv, TypeOK, CodeExpires, rowVars, history
<1>3. CASE UNCHANGED vars
  BY <1>3 DEF Inv, TypeOK, vars, rowVars, history
<1> QED
  BY <1>1, <1>2, <1>3, DraftTypes, SigningTypes DEF Inv, Next

-----------------------------------------------------------------------------
(* The rest of the invariant                                               *)

\* What makes up the invariant beside the types.
Rest == JobsHold /\ JobsAreApart /\ JobsAreApproved /\ RowsAreApproved
        /\ SignedHasSignature

\* The initial state satisfies the invariant.
LEMMA InvInit ==
  ASSUME Init
  PROVE  Inv
<1>1. \A r \in Requests : job[r].kind = "idle"
  BY DEF Init, Idle
<1>2. JobsHold /\ JobsAreApart /\ JobsAreApproved
  BY <1>1 DEF JobsHold, JobsAreApart, JobsAreApproved
<1>3. RowsAreApproved /\ SignedHasSignature
  BY DEF Init, RowsAreApproved, SignedHasSignature
<1> QED
  BY <1>2, <1>3, InitTypeOK DEF Inv

\* A job that takes the place of another and writes nothing.
LEMMA NewJobKeeps ==
  ASSUME Inv, NEW r \in Requests, NEW j \in Job,
         job' = [job EXCEPT ![r] = j],
         UNCHANGED <<rowVars, approvals>>,
         j.kind \in {"generate", "approve", "send", "initiate", "sign"}
           => j.draft \in Drafts,
         j.kind \in {"initiate", "verify", "sign"} => j.signature \in Signatures,
         j.kind = "initiate" =>
           /\ sigStatus[j.signature] = "absent"
           /\ \A q \in Requests \ {r} : job[q].signature # j.signature,
         j.kind \in {"verify", "sign"} =>
           sigStatus[j.signature] \in {"code_sent", "signed"},
         j.kind = "sign" => sigDraft[j.signature] = j.draft,
         j.kind \in {"send", "initiate"} => j.draft \in approvals
  PROVE  Rest'
<1>1. \A q \in Requests : job'[q] = IF q = r THEN j ELSE job[q]
  BY DEF Inv, TypeOK
<1>2. UNCHANGED <<status, signedBy, sigStatus, sigDraft, approvals>>
  BY DEF rowVars
<1>3. JobsHold'
  BY <1>1, <1>2 DEF Inv, JobsHold
<1>4. JobsAreApart'
  BY <1>1 DEF Inv, JobsAreApart
<1>5. JobsAreApproved'
  BY <1>1, <1>2 DEF Inv, JobsAreApproved
<1>6. RowsAreApproved' /\ SignedHasSignature'
  BY <1>2 DEF Inv, RowsAreApproved, SignedHasSignature
<1> QED
  BY <1>3, <1>4, <1>5, <1>6 DEF Rest

\* A job that ends without writing anything.
LEMMA EndKeeps ==
  ASSUME Inv, NEW r \in Requests, EndJob(r), UNCHANGED <<rowVars, approvals>>
  PROVE  Rest'
BY NewJobKeeps, IdleType DEF EndJob, Idle

\* A commit that gives its draft a status other than "signed", with an
\* approval if the status takes one.
LEMMA RowsKeep ==
  ASSUME Inv, NEW r \in Requests, EndJob(r),
         NEW new \in {"draft", "approved", "sent_for_signing"},
         status' = [status EXCEPT ![job[r].draft] = new],
         UNCHANGED <<signedBy, sigStatus, sigDraft>>,
         approvals \subseteq approvals',
         new = "draft" \/ job[r].draft \in approvals'
  PROVE  Rest'
<1>1. \A q \in Requests : job'[q] = IF q = r THEN Idle ELSE job[q]
  BY DEF Inv, TypeOK, EndJob
<1>2. \A d \in Drafts :
        status'[d] = IF d = job[r].draft THEN new ELSE status[d]
  BY DEF Inv, TypeOK
<1>3. JobsHold'
  BY <1>1 DEF Inv, JobsHold, Idle
<1>4. JobsAreApart' /\ JobsAreApproved'
  BY <1>1 DEF Inv, JobsAreApart, JobsAreApproved, Idle
<1>5. RowsAreApproved' /\ SignedHasSignature'
  BY <1>2 DEF Inv, RowsAreApproved, SignedHasSignature
<1> QED
  BY <1>3, <1>4, <1>5 DEF Rest

\* The commit of a signature record: no draft is signed with it yet.
LEMMA InitiateKeeps ==
  ASSUME Inv, NEW r \in Requests, CommitInitiate(r)
  PROVE  Rest'
<1> DEFINE s == job[r].signature
<1>1. /\ s \in Signatures
      /\ sigStatus[s] = "absent"
      /\ job[r].draft \in approvals
      /\ job[r].kind = "initiate"
  BY DEF CommitInitiate, Inv, JobsHold, JobsAreApproved
<1>2. \A q \in Requests : job'[q] = IF q = r THEN Idle ELSE job[q]
  BY DEF CommitInitiate, Inv, TypeOK, EndJob
<1>3. \A t \in Signatures :
        /\ sigStatus'[t] = IF t = s THEN "code_sent" ELSE sigStatus[t]
        /\ sigDraft'[t] = IF t = s THEN job[r].draft ELSE sigDraft[t]
  BY <1>1 DEF CommitInitiate, Inv, TypeOK
<1>4. UNCHANGED <<status, signedBy, approvals>>
  BY DEF CommitInitiate, history
<1>5. \A q \in Requests : q # r /\ job[q].kind \in {"initiate", "verify", "sign"}
        => job[q].signature # s
  BY <1>1 DEF Inv, JobsHold, JobsAreApart
<1> HIDE DEF s
<1>6. JobsHold'
  BY <1>2, <1>3, <1>5 DEF Inv, JobsHold, Idle
<1>7. JobsAreApart' /\ JobsAreApproved'
  BY <1>2, <1>4 DEF Inv, JobsAreApart, JobsAreApproved, Idle
<1>8. RowsAreApproved'
  BY <1>1, <1>3, <1>4 DEF Inv, RowsAreApproved
<1>9. SignedHasSignature'
  BY <1>1, <1>3, <1>4 DEF Inv, SignedHasSignature
<1> QED
  BY <1>6, <1>7, <1>8, <1>9 DEF Rest

\* The commit of a verified signature.
LEMMA SignKeeps ==
  ASSUME Inv, NEW r \in Requests, CommitSign(r)
  PROVE  Rest'
<1> DEFINE s == job[r].signature
           d == job[r].draft
<1>1. /\ s \in Signatures
      /\ d \in Drafts
      /\ sigStatus[s] \in {"code_sent", "signed"}
      /\ sigDraft[s] = d
      /\ job[r].kind = "sign"
  BY DEF CommitSign, Inv, JobsHold
<1>2. \A q \in Requests : job'[q] = IF q = r THEN Idle ELSE job[q]
  BY DEF CommitSign, Inv, TypeOK, EndJob
<1>3. \A t \in Signatures :
        sigStatus'[t] = IF t = s THEN "signed" ELSE sigStatus[t]
  BY <1>1 DEF CommitSign, Inv, TypeOK
<1>4. /\ \A e \in Drafts :
           status'[e] = status[e] \/ (e = d /\ status'[e] = "signed")
      /\ \A e \in Drafts : signedBy'[e] = IF e = d THEN s ELSE signedBy[e]
  <2>1. \/ status' = status
        \/ status' = [status EXCEPT ![d] = "signed"]
    BY DEF CommitSign, StatusSigned
  <2>2. signedBy' = [signedBy EXCEPT ![d] = s]
    BY DEF CommitSign, SignatureNamed
  <2> HIDE DEF d, s
  <2>3. \A e \in Drafts : signedBy'[e] = IF e = d THEN s ELSE signedBy[e]
    BY <2>2 DEF Inv, TypeOK
  <2>4. \A e \in Drafts :
          status'[e] = status[e] \/ (e = d /\ status'[e] = "signed")
    BY <2>1 DEF Inv, TypeOK
  <2> QED
    BY <2>3, <2>4
<1>5. UNCHANGED <<sigDraft, approvals>>
  BY DEF CommitSign, history
<1>6. d \in approvals
  BY <1>1 DEF Inv, RowsAreApproved
<1> HIDE DEF s, d
<1>7. JobsHold'
  BY <1>1, <1>2, <1>3, <1>5 DEF Inv, JobsHold, Idle
<1>8. JobsAreApart' /\ JobsAreApproved'
  BY <1>2, <1>5 DEF Inv, JobsAreApart, JobsAreApproved, Idle
<1>9. RowsAreApproved'
  BY <1>1, <1>3, <1>4, <1>5, <1>6 DEF Inv, RowsAreApproved
<1>10. SignedHasSignature'
  BY <1>1, <1>3, <1>4, <1>5 DEF Inv, SignedHasSignature
<1> QED
  BY <1>7, <1>8, <1>9, <1>10 DEF Rest

\* Steps on drafts keep the invariant.
LEMMA DraftKeeps ==
  ASSUME Inv, NEW r \in Requests, DraftStep(r)
  PROVE  Rest'
<1>1. ASSUME NEW d \in Drafts, GenerateDraft(r, d)
      PROVE  Rest'
  <2> DEFINE j == [Idle EXCEPT !.kind = "generate", !.draft = d,
                               !.version = NextVersion]
  <2>1. j \in Job /\ j.kind = "generate" /\ j.draft = d
    BY NextVersionType DEF Inv, Idle, Job, Kinds, DraftStatus
  <2>2. job' = [job EXCEPT ![r] = j]
    BY <1>1 DEF GenerateDraft
  <2>3. UNCHANGED <<rowVars, approvals>>
    BY <1>1 DEF GenerateDraft, history
  <2> HIDE DEF j
  <2> QED
    BY <2>1, <2>2, <2>3, NewJobKeeps
<1>2. ASSUME NEW d \in Drafts, NEW kind \in {"approve", "send"},
             LoadDraft(r, kind, d),
             UNCHANGED <<rowVars, approvals>>,
             kind = "send" => status[d] = "approved"
      PROVE  Rest'
  <2> DEFINE j == [Idle EXCEPT !.kind = kind, !.draft = d, !.seen = status[d]]
  <2>1. j \in Job /\ j.kind = kind /\ j.draft = d
    BY DEF Inv, TypeOK, Idle, Job, Kinds
  <2>2. job' = [job EXCEPT ![r] = j]
    BY <1>2 DEF LoadDraft
  <2>3. kind = "send" => d \in approvals
    BY <1>2 DEF Inv, RowsAreApproved
  <2> HIDE DEF j
  <2> QED
    BY <1>2, <2>1, <2>2, <2>3, NewJobKeeps
<1>3. CASE CommitGenerate(r)
  <2>1. /\ status' = [status EXCEPT ![job[r].draft] = "draft"]
        /\ UNCHANGED <<signedBy, sigStatus, sigDraft, approvals>>
        /\ EndJob(r)
    BY <1>3 DEF CommitGenerate, history
  <2> QED
    BY <2>1, RowsKeep
<1>4. CASE CommitApprove(r)
  <2>1. /\ status' = [status EXCEPT ![job[r].draft] = "approved"]
        /\ approvals' = approvals \cup {job[r].draft}
        /\ UNCHANGED <<signedBy, sigStatus, sigDraft>>
        /\ EndJob(r)
    BY <1>4 DEF CommitApprove
  <2> QED
    BY <2>1, RowsKeep
<1>5. CASE CommitSend(r)
  <2>1. /\ status' = [status EXCEPT ![job[r].draft] = "sent_for_signing"]
        /\ UNCHANGED <<signedBy, sigStatus, sigDraft, approvals>>
        /\ EndJob(r)
        /\ job[r].draft \in approvals
    BY <1>5 DEF CommitSend, history, Inv, JobsAreApproved
  <2> QED
    BY <2>1, RowsKeep
<1> QED
  BY <1>1, <1>2, <1>3, <1>4, <1>5
  DEF DraftStep, ApproveDraft, SendForSigning, MaySend, history

\* Steps on signatures keep the invariant.
LEMMA SigningKeeps ==
  ASSUME Inv, NEW r \in Requests, SigningStep(r)
  PROVE  Rest'
<1>1. ASSUME NEW d \in Drafts, NEW s \in Signatures, InitiateSigning(r, d, s)
      PROVE  Rest'
  <2> DEFINE j == [Idle EXCEPT !.kind = "initiate", !.draft = d,
                               !.signature = s]
  <2>1. j \in Job /\ j.kind = "initiate" /\ j.draft = d /\ j.signature = s
    BY DEF Idle, Job, Kinds, DraftStatus
  <2>2. /\ job' = [job EXCEPT ![r] = j]
        /\ UNCHANGED <<rowVars, approvals>>
        /\ sigStatus[s] = "absent"
        /\ \A q \in Requests : job[q].signature # s
    BY <1>1 DEF InitiateSigning, history
  <2>3. d \in approvals
    BY <1>1 DEF InitiateSigning, MayInitiate, Inv, RowsAreApproved
  <2> HIDE DEF j
  <2> QED
    BY <2>1, <2>2, <2>3, NewJobKeeps
<1>2. ASSUME NEW s \in Signatures, VerifyCode(r, s)
      PROVE  Rest'
  <2> DEFINE j == [Idle EXCEPT !.kind = "verify", !.signature = s]
  <2>1. j \in Job /\ j.kind = "verify" /\ j.signature = s
    BY DEF Idle, Job, Kinds, DraftStatus
  <2>2. /\ job' = [job EXCEPT ![r] = j]
        /\ UNCHANGED <<rowVars, approvals>>
        /\ sigStatus[s] = "code_sent"
    BY <1>2 DEF VerifyCode, history
  <2> HIDE DEF j
  <2> QED
    BY <2>1, <2>2, NewJobKeeps
<1>3. CASE LoadSigned(r)
  <2> DEFINE d == sigDraft[job[r].signature]
             j == [job[r] EXCEPT !.kind = "sign", !.draft = d,
                                 !.seen = status[d]]
  <2>1. /\ job[r].signature \in Signatures
        /\ sigStatus[job[r].signature] \in {"code_sent", "signed"}
        /\ job[r] \in Job
    BY <1>3 DEF LoadSigned, Inv, JobsHold, TypeOK, Job
  <2>2. d \in Drafts
    BY <2>1, LoadedDraft DEF Inv
  <2>3. status[d] \in DraftStatus \cup {"absent"}
    BY <2>2 DEF Inv, TypeOK
  <2>4. /\ job' = [job EXCEPT ![r] = j]
        /\ UNCHANGED <<rowVars, approvals>>
    BY <1>3 DEF LoadSigned, history, Inv, TypeOK
  <2> HIDE DEF d
  <2>5. /\ j \in Job
        /\ j.kind = "sign"
        /\ j.draft = d
        /\ j.signature = job[r].signature
    BY <2>1, <2>2, <2>3 DEF Job, Kinds
  <2>6. sigDraft[j.signature] = j.draft
    BY <2>5 DEF d
  <2> HIDE DEF j
  <2> QED
    BY <2>1, <2>2, <2>4, <2>5, <2>6, NewJobKeeps
<1>4. CASE CommitInitiate(r)
  BY <1>4, InitiateKeeps
<1>5. CASE CommitSign(r)
  BY <1>5, SignKeeps
<1> QED
  BY <1>1, <1>2, <1>3, <1>4, <1>5 DEF SigningStep

\* No step breaks the invariant.
LEMMA InvStep ==
  ASSUME Inv, [Next]_vars
  PROVE  Inv'
<1>1. TypeOK'
  BY TypeStep
<1>2. ASSUME NEW r \in Requests, AbortJob(r)
      PROVE  Rest'
  BY <1>2, EndKeeps DEF AbortJob, history
<1>3. ASSUME \/ \E s \in Signatures : CodeExpires(s)
             \/ UNCHANGED vars
      PROVE  Rest'
  <2>1. UNCHANGED <<rowVars, job, approvals>>
    BY <1>3 DEF CodeExpires, vars, history
  <2> QED
    BY <2>1
    DEF rowVars, Inv, Rest, JobsHold, JobsAreApart, JobsAreApproved,
        RowsAreApproved, SignedHasSignature
<1>4. Rest'
  BY <1>2, <1>3, DraftKeeps, SigningKeeps DEF Next
<1> QED
  BY <1>1, <1>4 DEF Inv, Rest

\* The invariant holds in every state.
THEOREM Invariance == Spec => []Inv
BY InvInit, InvStep, PTL DEF Spec

-----------------------------------------------------------------------------
(* What follows from it                                                    *)

\* Every variable keeps its type.
THEOREM TypeCorrect == Spec => []TypeOK
<1>1. Inv => TypeOK
  BY DEF Inv
<1> QED
  BY <1>1, Invariance, PTL

\* Nothing is signed that no lawyer has approved, however requests overlap.
THEOREM NothingSignedUnapproved == Spec => []SignedWasApproved
<1>1. Inv => SignedWasApproved
  BY DEF Inv, RowsAreApproved, SignedWasApproved
<1> QED
  BY <1>1, Invariance, PTL

\* A signed draft always names a completed signature of its own.
THEOREM SignaturesAreReal == Spec => []SignedHasSignature
<1>1. Inv => SignedHasSignature
  BY DEF Inv
<1> QED
  BY <1>1, Invariance, PTL

-----------------------------------------------------------------------------
(* One request at a time                                                   *)

\* What the request has checked is still true when it commits.
JobsAreFresh ==
  \A r \in Requests :
    /\ job[r].kind = "generate" => status[job[r].draft] = "absent"
    /\ job[r].kind = "approve" => status[job[r].draft] = "draft"
    /\ job[r].kind = "send" => status[job[r].draft] = "approved"
    /\ job[r].kind \in {"verify", "sign"}
         => sigStatus[job[r].signature] = "code_sent"
    /\ job[r].kind = "sign" => job[r].seen = status[job[r].draft]
    /\ job[r].kind = "initiate"
         => status[job[r].draft] = "sent_for_signing"

\* A signature record is for a draft that was sent; no draft is in review.
RowsAreInOrder ==
  /\ \A d \in Drafts : status[d] # "review"
  /\ \A s \in Signatures : sigStatus[s] # "absent" =>
       /\ status[sigDraft[s]] \in {"sent_for_signing", "signed"}
       /\ sigStatus[s] = "signed" => status[sigDraft[s]] = "signed"

SerialInv == JobsAreFresh /\ RowsAreInOrder

\* A request that loads what it needs, or ends without writing.
LEMMA SerialLoad ==
  ASSUME NEW p, Requests = {p}, Inv, SerialInv, NEW j \in Job,
         job' = [job EXCEPT ![p] = j],
         UNCHANGED rowVars,
         j.kind = "generate" => status[j.draft] = "absent",
         j.kind = "approve" => status[j.draft] = "draft",
         j.kind = "send" => status[j.draft] = "approved",
         j.kind \in {"verify", "sign"} => sigStatus[j.signature] = "code_sent",
         j.kind = "sign" => j.seen = status[j.draft],
         j.kind = "initiate" => status[j.draft] = "sent_for_signing"
  PROVE  SerialInv' /\ status' = status
<1>1. job'[p] = j
  BY DEF Inv, TypeOK
<1>2. UNCHANGED <<status, sigStatus, sigDraft>>
  BY DEF rowVars
<1> QED
  BY <1>1, <1>2 DEF SerialInv, JobsAreFresh, RowsAreInOrder

\* A commit that moves its draft along the lifecycle.
LEMMA SerialMove ==
  ASSUME NEW p, Requests = {p}, Inv, SerialInv, EndJob(p),
         NEW d \in Drafts, NEW new \in {"draft", "approved", "sent_for_signing"},
         status[d] \in {"absent", "draft", "approved"},
         Lifecycle!Follows[status[d]] = new,
         status' = [status EXCEPT ![d] = new],
         UNCHANGED <<sigStatus, sigDraft>>
  PROVE  SerialInv' /\ Lifecycle!Next
<1>1. job'[p].kind = "idle"
  BY DEF Inv, TypeOK, EndJob, Idle
<1>2. JobsAreFresh'
  BY <1>1 DEF JobsAreFresh
<1>3. \A e \in Drafts : status'[e] = IF e = d THEN new ELSE status[e]
  BY DEF Inv, TypeOK
<1>4. \A s \in Signatures : sigStatus[s] # "absent" =>
        sigDraft[s] \in Drafts /\ sigDraft[s] # d
  BY LoadedDraft DEF Inv, SerialInv, RowsAreInOrder
<1>5. RowsAreInOrder'
  BY <1>3, <1>4 DEF SerialInv, RowsAreInOrder
<1>6. Lifecycle!Advance(d)
  BY DEF Lifecycle!Advance
<1> QED
  BY <1>2, <1>5, <1>6 DEF SerialInv, Lifecycle!Next

\* Every step of the one request keeps its checks fresh and moves a draft
\* along the lifecycle, or none.
LEMMA SerialStep ==
  ASSUME NEW p, Requests = {p}, Inv, SerialInv, [Next]_vars
  PROVE  SerialInv' /\ [Lifecycle!Next]_status
<1>1. ASSUME NEW d \in Drafts, GenerateDraft(p, d)
      PROVE  SerialInv' /\ status' = status
  <2> DEFINE j == [Idle EXCEPT !.kind = "generate", !.draft = d,
                               !.version = NextVersion]
  <2>1. j \in Job /\ j.kind = "generate" /\ j.draft = d
    BY NextVersionType DEF Inv, Idle, Job, Kinds, DraftStatus
  <2>2. job' = [job EXCEPT ![p] = j] \/ job' = job
    BY <1>1 DEF GenerateDraft
  <2>3. UNCHANGED rowVars /\ status[d] = "absent"
    BY <1>1 DEF GenerateDraft
  <2> HIDE DEF j
  <2>4. CASE job' = [job EXCEPT ![p] = j]
    BY <2>1, <2>3, <2>4, SerialLoad
  <2>5. CASE job' = job
    BY <2>3, <2>5 DEF rowVars, SerialInv, JobsAreFresh, RowsAreInOrder
  <2> QED
    BY <2>2, <2>4, <2>5
<1>2. ASSUME NEW d \in Drafts, NEW kind \in {"approve", "send"},
             LoadDraft(p, kind, d), UNCHANGED rowVars,
             kind = "approve" => status[d] = "draft",
             kind = "send" => status[d] = "approved"
      PROVE  SerialInv' /\ status' = status
  <2> DEFINE j == [Idle EXCEPT !.kind = kind, !.draft = d, !.seen = status[d]]
  <2>1. j \in Job /\ j.kind = kind /\ j.draft = d
    BY DEF Inv, TypeOK, Idle, Job, Kinds
  <2>2. job' = [job EXCEPT ![p] = j]
    BY <1>2 DEF LoadDraft
  <2> HIDE DEF j
  <2> QED
    BY <1>2, <2>1, <2>2, SerialLoad
<1>3. ASSUME NEW d \in Drafts, ApproveDraft(p, d)
      PROVE  SerialInv' /\ status' = status
  BY <1>2, <1>3 DEF ApproveDraft, SerialInv, RowsAreInOrder
<1>4. ASSUME NEW d \in Drafts, SendForSigning(p, d)
      PROVE  SerialInv' /\ status' = status
  BY <1>2, <1>4 DEF SendForSigning, MaySend
<1>5. ASSUME \/ CommitGenerate(p)
             \/ CommitApprove(p)
             \/ CommitSend(p)
      PROVE  SerialInv' /\ Lifecycle!Next
  <2> DEFINE d == job[p].draft
  <2>1. d \in Drafts
    BY <1>5 DEF CommitGenerate, CommitApprove, CommitSend, Inv, JobsHold
  <2>2. EndJob(p) /\ UNCHANGED <<sigStatus, sigDraft>>
    BY <1>5 DEF CommitGenerate, CommitApprove, CommitSend
  <2>3. \/ status[d] = "absent" /\ status' = [status EXCEPT ![d] = "draft"]
        \/ status[d] = "draft" /\ status' = [status EXCEPT ![d] = "approved"]
        \/ /\ status[d] = "approved"
           /\ status' = [status EXCEPT ![d] = "sent_for_signing"]
    BY <1>5
    DEF CommitGenerate, CommitApprove, CommitSend, SerialInv, JobsAreFresh
  <2> HIDE DEF d
  <2>4. /\ Lifecycle!Follows["absent"] = "draft"
        /\ Lifecycle!Follows["draft"] = "approved"
        /\ Lifecycle!Follows["approved"] = "sent_for_signing"
    BY DEF Lifecycle!Follows
  <2> QED
    BY <2>1, <2>2, <2>3, <2>4, SerialMove
<1>6. ASSUME NEW d \in Drafts, NEW s \in Signatures, InitiateSigning(p, d, s)
      PROVE  SerialInv' /\ status' = status
  <2> DEFINE j == [Idle EXCEPT !.kind = "initiate", !.draft = d,
                               !.signature = s]
  <2>1. j \in Job /\ j.kind = "initiate" /\ j.draft = d
    BY DEF Idle, Job, Kinds, DraftStatus
  <2>2. /\ job' = [job EXCEPT ![p] = j]
        /\ UNCHANGED rowVars
        /\ status[d] = "sent_for_signing"
    BY <1>6 DEF InitiateSigning, MayInitiate
  <2> HIDE DEF j
  <2> QED
    BY <2>1, <2>2, SerialLoad
<1>7. ASSUME CommitInitiate(p)
      PROVE  SerialInv' /\ status' = status
  <2> DEFINE s == job[p].signature
  <2>1. /\ s \in Signatures
        /\ status[job[p].draft] = "sent_for_signing"
        /\ status' = status
        /\ EndJob(p)
    BY <1>7 DEF CommitInitiate, Inv, JobsHold, SerialInv, JobsAreFresh
  <2>2. \A t \in Signatures :
          /\ sigStatus'[t] = IF t = s THEN "code_sent" ELSE sigStatus[t]
          /\ sigDraft'[t] = IF t = s THEN job[p].draft ELSE sigDraft[t]
    BY <1>7, <2>1 DEF CommitInitiate, Inv, TypeOK
  <2>3. job'[p].kind = "idle"
    BY <2>1 DEF Inv, TypeOK, EndJob, Idle
  <2> HIDE DEF s
  <2>4. JobsAreFresh'
    BY <2>3 DEF JobsAreFresh
  <2>5. RowsAreInOrder'
    BY <2>1, <2>2 DEF SerialInv, RowsAreInOrder
  <2> QED
    BY <2>1, <2>4, <2>5 DEF SerialInv
<1>8. ASSUME NEW s \in Signatures, VerifyCode(p, s)
      PROVE  SerialInv' /\ status' = status
  <2> DEFINE j == [Idle EXCEPT !.kind = "verify", !.signature = s]
  <2>1. j \in Job /\ j.kind = "verify" /\ j.signature = s
    BY DEF Idle, Job, Kinds, DraftStatus
  <2>2. /\ job' = [job EXCEPT ![p] = j]
        /\ UNCHANGED rowVars
        /\ sigStatus[s] = "code_sent"
    BY <1>8 DEF VerifyCode
  <2> HIDE DEF j
  <2> QED
    BY <2>1, <2>2, SerialLoad
<1>9. ASSUME \/ \E s \in Signatures : CodeExpires(s)
             \/ UNCHANGED vars
      PROVE  SerialInv' /\ status' = status
  <2>1. UNCHANGED <<rowVars, job>>
    BY <1>9 DEF CodeExpires, vars
  <2> QED
    BY <2>1 DEF rowVars, SerialInv, JobsAreFresh, RowsAreInOrder
<1>10. ASSUME LoadSigned(p)
       PROVE  SerialInv' /\ status' = status
  <2> DEFINE d == sigDraft[job[p].signature]
             j == [job[p] EXCEPT !.kind = "sign", !.draft = d,
                                 !.seen = status[d]]
  <2>1. /\ job[p].signature \in Signatures
        /\ sigStatus[job[p].signature] = "code_sent"
        /\ job[p] \in Job
    BY <1>10 DEF LoadSigned, Inv, JobsHold, TypeOK, Job, SerialInv, JobsAreFresh
  <2>2. d \in Drafts
    BY <2>1, LoadedDraft DEF Inv
  <2>3. status[d] \in DraftStatus \cup {"absent"}
    BY <2>2 DEF Inv, TypeOK
  <2>4. /\ job' = [job EXCEPT ![p] = j]
        /\ UNCHANGED rowVars
    BY <1>10 DEF LoadSigned, Inv, TypeOK
  <2> HIDE DEF d
  <2>5. /\ j \in Job
        /\ j.kind = "sign"
        /\ j.draft = d
        /\ j.signature = job[p].signature
        /\ j.seen = status[d]
    BY <2>1, <2>2, <2>3 DEF Job, Kinds
  <2> HIDE DEF j
  <2> QED
    BY <2>1, <2>4, <2>5, SerialLoad
<1>11. ASSUME CommitSign(p)
       PROVE  SerialInv' /\ [Lifecycle!Next]_status
  <2> DEFINE s == job[p].signature
             d == job[p].draft
  <2>1. /\ s \in Signatures
        /\ d \in Drafts
        /\ sigDraft[s] = d
        /\ sigStatus[s] = "code_sent"
        /\ job[p].seen = status[d]
    BY <1>11 DEF CommitSign, Inv, JobsHold, SerialInv, JobsAreFresh
  <2>2. status[d] \in {"sent_for_signing", "signed"}
    BY <2>1 DEF SerialInv, RowsAreInOrder
  <2>3. /\ sigStatus' = [sigStatus EXCEPT ![s] = "signed"]
        /\ sigDraft' = sigDraft
        /\ EndJob(p)
        /\ status[d] = "signed" => status' = status
        /\ status[d] # "signed" => status' = [status EXCEPT ![d] = "signed"]
    BY <1>11, <2>1 DEF CommitSign, StatusSigned
  <2> HIDE DEF s, d
  <2>4. job'[p].kind = "idle"
    BY <2>3 DEF Inv, TypeOK, EndJob, Idle
  <2>5. \A e \in Drafts : status'[e] = IF e = d THEN "signed" ELSE status[e]
    BY <2>1, <2>2, <2>3 DEF Inv, TypeOK
  <2>6. \A t \in Signatures :
          sigStatus'[t] = IF t = s THEN "signed" ELSE sigStatus[t]
    BY <2>1, <2>3 DEF Inv, TypeOK
  <2>7. \A t \in Signatures : sigStatus[t] # "absent" => sigDraft[t] \in Drafts
    BY LoadedDraft DEF Inv
  <2>8. RowsAreInOrder'
    BY <2>1, <2>3, <2>5, <2>6, <2>7 DEF SerialInv, RowsAreInOrder
  <2>9. [Lifecycle!Next]_status
    <3>1. CASE status[d] = "sent_for_signing"
      <4>1. Lifecycle!Advance(d)
        BY <2>3, <3>1 DEF Lifecycle!Advance, Lifecycle!Follows
      <4> QED
        BY <2>1, <4>1 DEF Lifecycle!Next
    <3> QED
      BY <2>2, <2>3, <3>1
  <2> QED
    BY <2>4, <2>8, <2>9 DEF SerialInv, JobsAreFresh
<1>12. ASSUME AbortJob(p)
       PROVE  SerialInv' /\ status' = status
  BY <1>12, IdleType, SerialLoad DEF AbortJob, EndJob, Idle
<1>13. CASE DraftStep(p)
  BY <1>1, <1>3, <1>4, <1>5, <1>13 DEF DraftStep
<1>14. CASE SigningStep(p)
  BY <1>6, <1>7, <1>8, <1>9, <1>10, <1>11, <1>14 DEF SigningStep
<1> QED
  BY <1>9, <1>12, <1>13, <1>14 DEF Next

\* The initial state is in order.
LEMMA SerialInit ==
  ASSUME Init
  PROVE  SerialInv /\ Lifecycle!Init
<1>1. \A r \in Requests : job[r].kind = "idle"
  BY DEF Init, Idle
<1>2. JobsAreFresh
  BY <1>1 DEF JobsAreFresh
<1>3. RowsAreInOrder /\ Lifecycle!Init
  BY DEF Init, RowsAreInOrder, Lifecycle!Init
<1> QED
  BY <1>2, <1>3 DEF SerialInv

\* Served one request at a time, a draft goes forward only.
THEOREM OneRequestRefines ==
  ASSUME NEW p, Requests = {p}
  PROVE  Spec => ImplementsLifecycle
<1>1. Inv /\ SerialInv /\ [Next]_vars => SerialInv' /\ [Lifecycle!Next]_status
  BY SerialStep
<1> QED
  BY <1>1, SerialInit, Invariance, PTL
  DEF Spec, ImplementsLifecycle, Lifecycle!Spec

\* Served one request at a time, a completed signature binds its draft.
THEOREM OneRequestBinds ==
  ASSUME NEW p, Requests = {p}
  PROVE  Spec => []SignatureBinds
<1>1. Inv /\ SerialInv /\ [Next]_vars => SerialInv'
  BY SerialStep
<1>2. SerialInv => SignatureBinds
  BY DEF SerialInv, RowsAreInOrder, SignatureBinds
<1> QED
  BY <1>1, <1>2, SerialInit, Invariance, PTL DEF Spec

-----------------------------------------------------------------------------
(***************************************************************************)
(* Proofs about Completeness, for any checklist, any documents and any     *)
(* number of requests that overwrite each other's rows.                    *)
(*                                                                         *)
(* The rows alone are not inductive: a commit writes what its request has  *)
(* decided on rows that may be gone since.  What is true of the decision   *)
(* when it is made must stay true until it is written (EditsAreSound).     *)
(***************************************************************************)

USE CompletenessAssumption

\* What a request is going to write: no approval of an item that was never in
\* review, no unbinding of a document, no automatic match without a document.
SoundEdit(e) ==
  /\ e.new.status # e.old.status /\ e.new.status = "approved"
       => e.item \in reviewed
  /\ e.new.document # e.old.document => e.new.document # NoDocument
  /\ e.new.method # e.old.method /\ e.new.method = "auto"
       => e.new.document # e.old.document

EditsAreSound == \A r \in Requests : \A e \in edits[r] : SoundEdit(e)

\* What the table promises of every row.
SoundRow(i) ==
  /\ row[i].status \in {"review", "approved"} => i \in reviewed
  /\ row[i].method = "auto" => row[i].document # NoDocument

RowsAreSound == \A i \in Items : SoundRow(i)

ChecklistInv == ChecklistTypeOK /\ EditsAreSound /\ RowsAreSound

-----------------------------------------------------------------------------
(* Rows and what is written to them                                        *)

\* A new row is a row.
LEMMA NewRowType == NewRow \in Row
BY DEF NewRow, Row, ItemStatus

\* What the review endpoint makes of a row is a row.
LEMMA UpdatedType ==
  ASSUME NEW old \in Row, NEW to \in ItemStatus,
         NEW d \in Documents \cup {NoDocument}, NEW u \in Reviewers
  PROVE  Updated(old, to, d, u) \in Row
BY DEF Updated, ReviewerFor, Row, ItemStatus

\* What auto-match makes of a row is a row.
LEMMA MatchedType ==
  ASSUME NEW old \in Row, NEW d \in Documents
  PROVE  /\ Matched(old, d) \in Row
         /\ Matched(old, d).status = "uploaded"
         /\ Matched(old, d).document = d
         /\ Matched(old, d).method = "auto"
BY DEF Matched, Row, ItemStatus

\* A row written over another, column by column, is a row.
LEMMA MergeType ==
  ASSUME NEW current \in Row, NEW old \in Row, NEW new \in Row
  PROVE  /\ Merge(current, old, new) \in Row
         /\ \A c \in {"status", "document", "method"} :
              Merge(current, old, new)[c] =
                IF new[c] # old[c] THEN new[c] ELSE current[c]
<1>1. DOMAIN current = {"status", "document", "method", "reviewer"}
  BY DEF Row
<1> DEFINE m == Merge(current, old, new)
<1>2. /\ m.status \in ItemStatus
      /\ m.document \in Documents \cup {NoDocument}
      /\ m.method \in {"manual", "auto"}
      /\ m.reviewer \in Reviewers \cup {NoReviewer}
  BY <1>1 DEF Merge, Row
<1>3. m = [status |-> m.status, document |-> m.document,
           method |-> m.method, reviewer |-> m.reviewer]
  BY <1>1 DEF Merge
<1> QED
  BY <1>1, <1>2, <1>3 DEF Merge, Row

\* A commit leaves a row alone, or writes one of the request's edits over it.
LEMMA RowAfterCommit ==
  ASSUME ChecklistTypeOK, NEW r \in Requests, CommitEdits(r), NEW i \in Items
  PROVE  /\ row'[i] \in Row
         /\ \/ row'[i] = row[i]
            \/ \E e \in edits[r] :
                 e.item = i /\ row'[i] = Merge(row[i], e.old, e.new)
<1> DEFINE held == CHOOSE e \in edits[r] : e.item = i
<1>1. row[i] \in Row
  BY DEF ChecklistTypeOK
<1>2. CASE \E e \in edits[r] : e.item = i
  <2>1. held \in edits[r] /\ held.item = i
    BY <1>2
  <2>2. row'[i] = Merge(row[i], held.old, held.new)
    BY <1>2 DEF CommitEdits
  <2> HIDE DEF held
  <2>3. held.old \in Row /\ held.new \in Row
    BY <2>1 DEF ChecklistTypeOK, Edit
  <2> QED
    BY <1>1, <2>1, <2>2, <2>3, MergeType
<1>3. CASE ~ \E e \in edits[r] : e.item = i
  BY <1>1, <1>3 DEF CommitEdits
<1> QED
  BY <1>2, <1>3

-----------------------------------------------------------------------------
(* Types                                                                   *)

\* The initial state is well typed.
LEMMA ChecklistInitTypeOK == ChecklistInit => ChecklistTypeOK
BY NewRowType DEF ChecklistInit, ChecklistTypeOK, PhaseName

\* A request that ends is idle and holds nothing.
LEMMA ChecklistEndType ==
  ASSUME ChecklistTypeOK, NEW r \in Requests, EndRequest(r)
  PROVE  /\ phase' \in [Requests -> PhaseName]
         /\ listed' \in [Requests -> SUBSET Documents]
         /\ edits' \in [Requests -> SUBSET Edit]
BY DEF ChecklistTypeOK, EndRequest, PhaseName

\* Every action keeps the types.
LEMMA ChecklistTypeStep ==
  ASSUME ChecklistTypeOK, [ChecklistNext]_checklistVars
  PROVE  ChecklistTypeOK'
<1>1. ASSUME NEW r \in Requests, ReadChecklist(r)
      PROVE  ChecklistTypeOK'
  <2>1. {[item |-> i, old |-> NewRow, new |-> NewRow] : i \in Items \ items}
          \subseteq Edit
    BY NewRowType DEF Edit
  <2> QED
    BY <1>1, <2>1 DEF ChecklistTypeOK, ReadChecklist, PhaseName
<1>2. ASSUME NEW r \in Requests, CreateItems(r)
      PROVE  ChecklistTypeOK'
  <2>1. Creates(r) \subseteq Items
    BY DEF ChecklistTypeOK, Creates, Edit
  <2>2. items' \subseteq Items /\ row' \in [Items -> Row]
    BY <1>2, <2>1, NewRowType DEF ChecklistTypeOK, CreateItems
  <2> QED
    BY <1>2, <2>2, ChecklistEndType DEF ChecklistTypeOK, CreateItems
<1>3. ASSUME NEW r \in Requests, NEW i \in Items, NEW to \in ItemStatus,
             NEW d \in Documents \cup {NoDocument}, NEW u \in Reviewers,
             UpdateItem(r, i, to, d, u)
      PROVE  ChecklistTypeOK'
  <2>1. [item |-> i, old |-> row[i], new |-> Updated(row[i], to, d, u)] \in Edit
    BY UpdatedType DEF ChecklistTypeOK, Edit
  <2> QED
    BY <1>3, <2>1 DEF ChecklistTypeOK, UpdateItem, PhaseName
<1>4. ASSUME NEW r \in Requests, ListDocuments(r)
      PROVE  ChecklistTypeOK'
  BY <1>4 DEF ChecklistTypeOK, ListDocuments, PhaseName
<1>5. ASSUME NEW r \in Requests, MatchItems(r)
      PROVE  ChecklistTypeOK'
  <2>1. PICK m \in Matchings(listed[r], Unmatched) :
          IF m = {}
            THEN EndRequest(r)
            ELSE /\ phase' = [phase EXCEPT ![r] = "matching"]
                 /\ listed' = [listed EXCEPT ![r] = {}]
                 /\ edits' = [edits EXCEPT ![r] =
                      {[item |-> p.item, old |-> row[p.item],
                        new |-> Matched(row[p.item], p.document)] : p \in m}]
    BY <1>5 DEF MatchItems
  <2>2. {[item |-> p.item, old |-> row[p.item],
          new |-> Matched(row[p.item], p.document)] : p \in m} \subseteq Edit
    <3>1. ASSUME NEW p \in m
          PROVE  [item |-> p.item, old |-> row[p.item],
                  new |-> Matched(row[p.item], p.document)] \in Edit
      <4>1. p.item \in Items /\ p.document \in Documents
        BY DEF Matchings, Pair
      <4> QED
        BY <4>1, MatchedType DEF ChecklistTypeOK, Edit
    <3> QED
      BY <3>1
  <2>3. CASE m = {}
    BY <1>5, <2>1, <2>3, ChecklistEndType DEF ChecklistTypeOK, MatchItems
  <2>4. CASE m # {}
    BY <1>5, <2>1, <2>2, <2>4 DEF ChecklistTypeOK, MatchItems, PhaseName
  <2> QED
    BY <2>3, <2>4
<1>6. ASSUME NEW r \in Requests, CommitEdits(r)
      PROVE  ChecklistTypeOK'
  <2>1. ASSUME NEW i \in Items
        PROVE  row'[i] \in Row
    BY <1>6, RowAfterCommit
  <2>2. row' \in [Items -> Row]
    BY <1>6, <2>1 DEF CommitEdits
  <2>3. reviewed' \subseteq Items
    BY <1>6 DEF ChecklistTypeOK, CommitEdits
  <2> QED
    BY <1>6, <2>2, <2>3, ChecklistEndType DEF ChecklistTypeOK, CommitEdits
<1>7. ASSUME NEW r \in Requests, AbortRequest(r)
      PROVE  ChecklistTypeOK'
  BY <1>7, ChecklistEndType DEF ChecklistTypeOK, AbortRequest
<1>8. ASSUME NEW d \in Documents, AddDocument(d)
      PROVE  ChecklistTypeOK'
  BY <1>8 DEF ChecklistTypeOK, AddDocument, requestVars
<1>9. CASE UNCHANGED checklistVars
  BY <1>9 DEF ChecklistTypeOK, checklistVars, requestVars
<1> QED
  BY <1>1, <1>2, <1>3, <1>4, <1>5, <1>6, <1>7, <1>8, <1>9
  DEF ChecklistNext, RequestStep

-----------------------------------------------------------------------------
(* The invariant                                                           *)

\* The initial state satisfies the invariant.
LEMMA ChecklistInvInit == ChecklistInit => ChecklistInv
BY ChecklistInitTypeOK DEF ChecklistInit, ChecklistInv, EditsAreSound, RowsAreSound, SoundRow, NewRow

\* A request that ends leaves the edits of the others; history only grows.
LEMMA ChecklistEndKeeps ==
  ASSUME ChecklistInv, NEW r \in Requests, EndRequest(r), reviewed \subseteq reviewed'
  PROVE  EditsAreSound'
<1>1. ASSUME NEW q \in Requests, NEW e \in edits'[q]
      PROVE  e \in edits[q]
  BY <1>1 DEF ChecklistInv, ChecklistTypeOK, EndRequest
<1> QED
  BY <1>1 DEF ChecklistInv, EditsAreSound, SoundEdit

\* An approval is decided on an item in review; a document is only added.
LEMMA UpdateKeeps ==
  ASSUME ChecklistInv, NEW r \in Requests, NEW i \in Items, NEW to \in ItemStatus,
         NEW d \in Documents \cup {NoDocument}, NEW u \in Reviewers,
         UpdateItem(r, i, to, d, u)
  PROVE  EditsAreSound' /\ RowsAreSound'
<1> DEFINE e == [item |-> i, old |-> row[i], new |-> Updated(row[i], to, d, u)]
<1>1. SoundEdit(e)
  <2>1. Updated(row[i], to, d, u).status = "approved" => to = "approved"
    BY DEF Updated
  <2>2. to = "approved" => row[i].status = "review"
    <3>1. row[i].status \in ItemStatus
      BY DEF ChecklistInv, ChecklistTypeOK, Row
    <3> QED
      BY <3>1 DEF UpdateItem, ValidTransition, Targets, ItemStatus
  <2>3. Updated(row[i], to, d, u).document # row[i].document =>
          Updated(row[i], to, d, u).document # NoDocument
    BY DEF Updated
  <2>4. Updated(row[i], to, d, u).method # row[i].method =>
          Updated(row[i], to, d, u).method = "manual"
    BY DEF Updated
  <2>5. e.item = i /\ e.old = row[i] /\ e.new = Updated(row[i], to, d, u)
    OBVIOUS
  <2> HIDE DEF e
  <2> QED
    BY <2>1, <2>2, <2>3, <2>4, <2>5 DEF SoundEdit, ChecklistInv, RowsAreSound, SoundRow
<1>2. /\ edits' = [edits EXCEPT ![r] = {e}]
      /\ row' = row
      /\ reviewed' = reviewed
  BY DEF UpdateItem
<1> HIDE DEF e
<1> QED
  BY <1>1, <1>2
  DEF ChecklistInv, ChecklistTypeOK, EditsAreSound, SoundEdit, RowsAreSound, SoundRow

\* Auto-match decides on items without a document.
LEMMA MatchKeeps ==
  ASSUME ChecklistInv, NEW r \in Requests, MatchItems(r)
  PROVE  EditsAreSound' /\ RowsAreSound'
<1>1. row' = row /\ reviewed' = reviewed
  BY DEF MatchItems
<1>2. RowsAreSound'
  BY <1>1 DEF ChecklistInv, RowsAreSound, SoundRow
<1>3. PICK m \in Matchings(listed[r], Unmatched) :
        IF m = {}
          THEN EndRequest(r)
          ELSE edits' = [edits EXCEPT ![r] =
                 {[item |-> p.item, old |-> row[p.item],
                   new |-> Matched(row[p.item], p.document)] : p \in m}]
  BY DEF MatchItems
<1>4. CASE m = {}
  BY <1>1, <1>2, <1>3, <1>4, ChecklistEndKeeps
<1>5. CASE m # {}
  <2>1. ASSUME NEW q \in Requests, NEW e \in edits'[q]
        PROVE  SoundEdit(e)
    <3>1. CASE q # r
      BY <1>3, <1>5, <2>1, <3>1 DEF ChecklistInv, ChecklistTypeOK, EditsAreSound
    <3>2. CASE q = r
      <4>1. PICK p \in m :
              e = [item |-> p.item, old |-> row[p.item],
                   new |-> Matched(row[p.item], p.document)]
        BY <1>3, <1>5, <2>1, <3>2 DEF ChecklistInv, ChecklistTypeOK
      <4>2. /\ p.item \in Items
            /\ p.document \in Documents
            /\ p.item \in Unmatched
        BY DEF Matchings, Pair
      <4>3. row[p.item] \in Row
        BY <4>2 DEF ChecklistInv, ChecklistTypeOK
      <4>4. /\ e.new.status = "uploaded"
            /\ e.new.document = p.document
            /\ e.old.document = NoDocument
        BY <4>1, <4>2, <4>3, MatchedType DEF Unmatched
      <4>5. p.document # NoDocument
        BY <4>2 DEF CompletenessAssumption
      <4> QED
        BY <4>4, <4>5 DEF SoundEdit
    <3> QED
      BY <3>1, <3>2
  <2> QED
    BY <1>1, <1>2, <2>1 DEF EditsAreSound, SoundEdit
<1> QED
  BY <1>4, <1>5

\* Sound edits written over sound rows leave sound rows, whatever the rows
\* were when the edits were made.
LEMMA ChecklistCommitKeeps ==
  ASSUME ChecklistInv, NEW r \in Requests, CommitEdits(r)
  PROVE  EditsAreSound' /\ RowsAreSound'
<1>1. reviewed' = reviewed \cup {i \in Items : row'[i].status = "review"}
  BY DEF CommitEdits
<1>2. ASSUME NEW i \in Items
      PROVE  SoundRow(i)'
  <2>1. CASE row'[i] = row[i]
    BY <1>1, <2>1 DEF ChecklistInv, RowsAreSound, SoundRow
  <2>2. ASSUME NEW e \in edits[r], e.item = i,
               row'[i] = Merge(row[i], e.old, e.new)
        PROVE  SoundRow(i)'
    <3>1. SoundEdit(e) /\ SoundRow(i)
      BY DEF ChecklistInv, EditsAreSound, RowsAreSound
    <3>2. row[i] \in Row /\ e.old \in Row /\ e.new \in Row
      BY DEF ChecklistInv, ChecklistTypeOK, Edit
    <3>3. /\ row'[i].status = IF e.new.status # e.old.status
                              THEN e.new.status ELSE row[i].status
          /\ row'[i].document = IF e.new.document # e.old.document
                                THEN e.new.document ELSE row[i].document
          /\ row'[i].method = IF e.new.method # e.old.method
                              THEN e.new.method ELSE row[i].method
      BY <2>2, <3>2, MergeType
    <3>4. row'[i].status = "review" => i \in reviewed'
      BY <1>1
    <3>5. row'[i].status = "approved" => i \in reviewed'
      BY <1>1, <2>2, <3>1, <3>3 DEF SoundEdit, SoundRow
    <3>6. row'[i].method = "auto" => row'[i].document # NoDocument
      BY <3>1, <3>3 DEF SoundEdit, SoundRow
    <3> QED
      BY <3>4, <3>5, <3>6 DEF SoundRow
  <2> QED
    BY <2>1, <2>2, RowAfterCommit DEF ChecklistInv
<1>3. EditsAreSound'
  BY <1>1, ChecklistEndKeeps DEF CommitEdits
<1> QED
  BY <1>2, <1>3 DEF RowsAreSound

\* No step breaks the invariant.
LEMMA ChecklistInvStep ==
  ASSUME ChecklistInv, [ChecklistNext]_checklistVars
  PROVE  ChecklistInv'
<1>1. ChecklistTypeOK'
  BY ChecklistTypeStep DEF ChecklistInv
<1>2. ASSUME NEW r \in Requests, ReadChecklist(r)
      PROVE  EditsAreSound' /\ RowsAreSound'
  <2>1. row' = row /\ reviewed' = reviewed
    BY <1>2 DEF ReadChecklist
  <2>2. ASSUME NEW q \in Requests, NEW e \in edits'[q]
        PROVE  SoundEdit(e)
    <3>1. CASE q # r
      BY <1>2, <2>2, <3>1 DEF ChecklistInv, ChecklistTypeOK, EditsAreSound, ReadChecklist
    <3>2. CASE q = r
      <4>1. e.old = e.new
        BY <1>2, <2>2, <3>2 DEF ChecklistInv, ChecklistTypeOK, ReadChecklist
      <4> QED
        BY <4>1 DEF SoundEdit
    <3> QED
      BY <3>1, <3>2
  <2> QED
    BY <2>1, <2>2
    DEF ChecklistInv, EditsAreSound, SoundEdit, RowsAreSound, SoundRow
<1>3. ASSUME NEW r \in Requests, CreateItems(r)
      PROVE  EditsAreSound' /\ RowsAreSound'
  <2>1. reviewed' = reviewed /\ EndRequest(r)
    BY <1>3 DEF CreateItems
  <2>2. ASSUME NEW i \in Items
        PROVE  row'[i] = row[i] \/ row'[i] = NewRow
    BY <1>3, <2>2 DEF CreateItems
  <2>3. RowsAreSound'
    BY <2>1, <2>2 DEF ChecklistInv, RowsAreSound, SoundRow, NewRow
  <2> QED
    BY <2>1, <2>3, ChecklistEndKeeps
<1>4. ASSUME NEW r \in Requests, ListDocuments(r)
      PROVE  EditsAreSound' /\ RowsAreSound'
  BY <1>4
  DEF ChecklistInv, ListDocuments, EditsAreSound, SoundEdit, RowsAreSound, SoundRow
<1>5. ASSUME NEW r \in Requests, AbortRequest(r)
      PROVE  EditsAreSound' /\ RowsAreSound'
  <2>1. reviewed' = reviewed /\ row' = row /\ EndRequest(r)
    BY <1>5 DEF AbortRequest
  <2> QED
    BY <2>1, ChecklistEndKeeps DEF ChecklistInv, RowsAreSound, SoundRow
<1>6. ASSUME \/ \E d \in Documents : AddDocument(d)
             \/ UNCHANGED checklistVars
      PROVE  EditsAreSound' /\ RowsAreSound'
  <2>1. edits' = edits /\ row' = row /\ reviewed' = reviewed
    BY <1>6 DEF AddDocument, checklistVars, requestVars
  <2> QED
    BY <2>1 DEF ChecklistInv, EditsAreSound, SoundEdit, RowsAreSound, SoundRow
<1>7. ASSUME NEW r \in Requests, RequestStep(r)
      PROVE  EditsAreSound' /\ RowsAreSound'
  <2>1. CASE \E i \in Items, to \in ItemStatus,
                d \in Documents \cup {NoDocument}, u \in Reviewers :
               UpdateItem(r, i, to, d, u)
    BY <2>1, UpdateKeeps
  <2> QED
    BY <1>2, <1>3, <1>4, <1>5, <1>7, <2>1, MatchKeeps, ChecklistCommitKeeps
    DEF RequestStep
<1>8. EditsAreSound' /\ RowsAreSound'
  BY <1>6, <1>7 DEF ChecklistNext
<1> QED
  BY <1>1, <1>8 DEF ChecklistInv

\* The invariant holds in every state.
THEOREM ChecklistInvariance == ChecklistSpec => []ChecklistInv
BY ChecklistInvInit, ChecklistInvStep, PTL DEF ChecklistSpec

-----------------------------------------------------------------------------
(* What follows from it                                                    *)

\* Every variable keeps its type.
THEOREM ChecklistTypeCorrect == ChecklistSpec => []ChecklistTypeOK
<1>1. ChecklistInv => ChecklistTypeOK
  BY DEF ChecklistInv
<1> QED
  BY <1>1, ChecklistInvariance, PTL

\* No overlap of requests approves an item that was never in review.
THEOREM HumanInTheLoop == ChecklistSpec => []ApprovedWasReviewed
<1>1. ChecklistInv => ApprovedWasReviewed
  BY DEF ChecklistInv, ChecklistTypeOK, RowsAreSound, SoundRow, ApprovedWasReviewed
<1> QED
  BY <1>1, ChecklistInvariance, PTL

\* No overlap of requests takes away the document of an automatic match.
THEOREM AutoMatchesAreBacked == ChecklistSpec => []AutoMatchedHasDocument
<1>1. ChecklistInv => AutoMatchedHasDocument
  BY DEF ChecklistInv, ChecklistTypeOK, RowsAreSound, SoundRow, AutoMatchedHasDocument
<1> QED
  BY <1>1, ChecklistInvariance, PTL

-----------------------------------------------------------------------------
(* One request at a time                                                   *)

\* What auto-match is about to attach has found its items without a document.
MatchesFreeItems ==
  \A r \in Requests : phase[r] = "matching" =>
    \A e \in edits[r] : row[e.item].document = NoDocument

\* Only auto-match itself comes between its decision and its commit.
LEMMA FreeItemsStep ==
  ASSUME NEW p, Requests = {p}, ChecklistTypeOK, MatchesFreeItems,
         [ChecklistNext]_checklistVars
  PROVE  MatchesFreeItems'
<1> SUFFICES ASSUME phase'[p] = "matching", NEW e \in edits'[p]
             PROVE  row'[e.item].document = NoDocument
  BY DEF MatchesFreeItems
<1>1. CASE RequestStep(p)
  <2>1. CASE MatchItems(p)
    <3>1. PICK m \in Matchings(listed[p], Unmatched) :
            IF m = {}
              THEN EndRequest(p)
              ELSE edits' = [edits EXCEPT ![p] =
                     {[item |-> x.item, old |-> row[x.item],
                       new |-> Matched(row[x.item], x.document)] : x \in m}]
      BY <2>1 DEF MatchItems
    <3>2. m # {}
      BY <3>1 DEF EndRequest, ChecklistTypeOK
    <3>3. PICK x \in m :
            e = [item |-> x.item, old |-> row[x.item],
                 new |-> Matched(row[x.item], x.document)]
      BY <3>1, <3>2 DEF ChecklistTypeOK
    <3>4. x.item \in Unmatched
      BY DEF Matchings
    <3>5. row' = row
      BY <2>1 DEF MatchItems
    <3> QED
      BY <3>3, <3>4, <3>5 DEF Unmatched
  <2>2. CASE ~ MatchItems(p)
    <3>1. phase'[p] # "matching"
      BY <1>1, <2>2
      DEF RequestStep, ReadChecklist, CreateItems, UpdateItem, ListDocuments,
          CommitEdits, AbortRequest, EndRequest, ChecklistTypeOK
    <3> QED
      BY <3>1
  <2> QED
    BY <2>1, <2>2
<1>2. CASE (\E d \in Documents : AddDocument(d)) \/ UNCHANGED checklistVars
  <2>1. UNCHANGED <<phase, edits, row>>
    BY <1>2 DEF AddDocument, checklistVars, requestVars
  <2> QED
    BY <2>1 DEF MatchesFreeItems
<1> QED
  BY <1>1, <1>2 DEF ChecklistNext

\* Auto-match gives a document only to items that still have none when it
\* commits, as long as requests are served one at a time.
THEOREM OneRequestKeepsLinks ==
  ASSUME NEW p, Requests = {p}
  PROVE  ChecklistSpec => AutoMatchKeepsLinks
<1>1. ChecklistInit => MatchesFreeItems
  BY DEF ChecklistInit, MatchesFreeItems
<1>2. ChecklistTypeOK /\ MatchesFreeItems /\ [ChecklistNext]_checklistVars
        => MatchesFreeItems'
  BY FreeItemsStep
<1>3. ChecklistTypeOK /\ MatchesFreeItems /\ [ChecklistNext]_checklistVars
        => [\A r \in Requests, i \in items :
              /\ phase[r] = "matching" /\ phase'[r] = "idle"
              /\ row[i].document # NoDocument
              => row'[i].document = row[i].document]_checklistVars
  <2> SUFFICES ASSUME ChecklistTypeOK, MatchesFreeItems, ChecklistNext,
                      NEW i \in items, phase[p] = "matching", phase'[p] = "idle",
                      row[i].document # NoDocument
               PROVE  row'[i].document = row[i].document
    OBVIOUS
  <2>1. i \in Items
    BY DEF ChecklistTypeOK
  <2>2. CASE CommitEdits(p)
    <3>1. \A e \in edits[p] : e.item # i
      BY DEF MatchesFreeItems
    <3>2. row'[i] = row[i]
      BY <2>1, <2>2, <3>1, RowAfterCommit
    <3> QED
      BY <3>2
  <2>3. CASE AbortRequest(p)
    BY <2>3 DEF AbortRequest
  <2>4. CASE \E d \in Documents : AddDocument(d)
    BY <2>4 DEF AddDocument, requestVars
  <2> QED
    BY <2>2, <2>3, <2>4
    DEF ChecklistNext, RequestStep, ReadChecklist, CreateItems, UpdateItem,
        ListDocuments, MatchItems
<1> QED
  BY <1>1, <1>2, <1>3, ChecklistTypeCorrect, PTL
  DEF ChecklistSpec, AutoMatchKeepsLinks
=============================================================================
