-------------------------- MODULE Credentials_proofs --------------------------
(***************************************************************************)
(* Two calls that share a client are confused only when they overlap: for  *)
(* every number of calls, issuers, verifiers and definitions.  A call that *)
(* overlapped no other holds the session and sends its own token; a        *)
(* presentation whose definition id nobody resolves meanwhile finds the    *)
(* authorization request it started from.  And overlapping or not, a token *)
(* buys one credential, for its own offer (VaultInv, on top of IssueInv),  *)
(* and what is presented was bought that way (PresentedIsEarned).          *)
(***************************************************************************)
EXTENDS CredentialPresentation, SequenceTheorems, WellFoundedInduction, TLAPS

IssueCall == [stage : IssueStages, issuer : Issuers \cup {None}, bearer : Issuances \cup {None},
              why : {None, "invalid_token", "invalid_proof"}, alone : BOOLEAN]

\* What a call of acceptOffer that met no other may rely on, and what all may.
IssueOk(i) ==
  /\ issue[i].alone /\ issue[i].stage \in {"proof", "posted", "verifying", "answered"} =>
       session = i
  /\ issue[i].alone /\ issue[i].stage \in {"posted", "verifying"} => issue[i].bearer = i
  /\ issue[i].stage \in {"granted", "proof", "posted"} => i \in tokens \cup lapsed
  /\ issue[i].why # None => /\ issue[i].stage = "failed"
                            /\ ~issue[i].alone \/ issue[i].bearer \in lapsed

IssueInv == /\ issue \in [Issuances -> IssueCall]
            /\ session \in Issuances \cup {None}
            /\ \A i \in Issuances : IssueOk(i)

-----------------------------------------------------------------------------
(* Receiving. *)

LEMMA IssueInitInv == IssueInit => IssueInv
  BY DEF IssueInit, IssueInv, IssueCall, IssueStages, NoIssue, IssueOk

\* A step of call i that leaves the session alone keeps what the others rely on,
\* as long as it takes no token of theirs.
LEMMA OneCallKeeps ==
  ASSUME IssueInv, NEW i \in Issuances, NEW r \in IssueCall, issue' = [issue EXCEPT ![i] = r],
         session' = session, lapsed \subseteq lapsed', tokens \ {i} \subseteq tokens',
         r.alone /\ r.stage \in {"proof", "posted", "verifying", "answered"} => session = i,
         r.alone /\ r.stage \in {"posted", "verifying"} => r.bearer = i,
         r.stage \in {"granted", "proof", "posted"} => i \in tokens' \cup lapsed',
         r.why # None => r.stage = "failed" /\ (~r.alone \/ r.bearer \in lapsed')
  PROVE  IssueInv'
<1>1. issue' \in [Issuances -> IssueCall] /\ session' \in Issuances \cup {None}
  BY DEF IssueInv
<1>2. ASSUME NEW j \in Issuances
      PROVE  IssueOk(j)'
  <2>1. CASE j = i
    <3>1. issue'[j] = r
      BY <2>1 DEF IssueInv
    <3> QED  BY <2>1, <3>1 DEF IssueOk
  <2>2. CASE j # i
    <3>1. issue'[j] = issue[j]
      BY <2>2 DEF IssueInv
    <3>2. IssueOk(j)
      BY DEF IssueInv
    <3>3. j \in tokens => j \in tokens'
      BY <2>2
    <3> QED  BY <3>1, <3>2, <3>3 DEF IssueOk
  <2> QED  BY <2>1, <2>2
<1> QED  BY <1>1, <1>2 DEF IssueInv

\* The same of a step that only changes the stage, to one where the call relies on
\* no more than before.
LEMMA StageKeeps ==
  ASSUME IssueInv, NEW i \in Issuances, NEW s \in IssueStages, Goes(i, s), ~At(i, "failed"),
         session' = session, lapsed \subseteq lapsed', tokens \ {i} \subseteq tokens',
         s \in {"proof", "posted"} => FALSE,
         s = "granted" => i \in tokens',
         s \in {"verifying", "answered"} => issue[i].stage \in {"posted", "verifying"}
  PROVE  IssueInv'
<1> DEFINE r == [issue[i] EXCEPT !.stage = s]
<1>1. issue[i] \in IssueCall /\ IssueOk(i)
  BY DEF IssueInv
<1>2. /\ r \in IssueCall /\ r.stage = s /\ r.bearer = issue[i].bearer
      /\ r.why = issue[i].why /\ r.alone = issue[i].alone
  BY <1>1 DEF IssueCall
<1>3. issue' = [issue EXCEPT ![i] = r]
  BY DEF Goes
<1> HIDE DEF r
<1> QED  BY <1>1, <1>2, <1>3, OneCallKeeps DEF IssueOk, At

\* A call that writes the session marks the calls between their token and their
\* credential.
LEMMA CrossedKeeps ==
  ASSUME IssueInv, NEW i \in Issuances, NEW s \in {"proof", "received"}, Crossed(i, s),
         session' \in Issuances \cup {None}, UNCHANGED <<tokens, lapsed>>,
         issue[i].stage # "failed",
         s = "proof" => session' = i /\ issue[i].stage = "granted"
  PROVE  IssueInv'
<1>1. ASSUME NEW j \in Issuances
      PROVE  issue'[j] \in IssueCall /\ IssueOk(j)'
  <2>1. issue[j] \in IssueCall /\ IssueOk(j)
    BY DEF IssueInv
  <2>2. CASE j = i
    <3> DEFINE r == [issue[i] EXCEPT !.stage = s, !.alone = @ /\ Others(i) = {}]
    <3>1. issue'[i] = r
      BY DEF Crossed
    <3>2. /\ r \in IssueCall /\ r.stage = s /\ r.bearer = issue[i].bearer
          /\ r.why = issue[i].why /\ (r.alone => issue[i].alone)
      BY <2>1, <2>2 DEF IssueCall, IssueStages
    <3> HIDE DEF r
    <3>3. r.why = None
      BY <2>1, <2>2, <3>2 DEF IssueOk
    <3>4. s = "proof" => i \in tokens' \cup lapsed'
      <4>1. issue[i].stage = "granted" => i \in tokens \cup lapsed
        BY <2>1, <2>2 DEF IssueOk
      <4>2. tokens' = tokens /\ lapsed' = lapsed
        OBVIOUS
      <4> QED  BY <4>1, <4>2
    <3> QED  BY <2>2, <3>1, <3>2, <3>3, <3>4 DEF IssueOk
  <2>3. CASE j # i /\ j \in Others(i)
    <3> DEFINE r == [issue[j] EXCEPT !.alone = FALSE]
    <3>1. issue'[j] = r
      BY <2>3 DEF Crossed
    <3>2. /\ r \in IssueCall /\ ~r.alone /\ r.stage = issue[j].stage
          /\ r.why = issue[j].why
      BY <2>1 DEF IssueCall
    <3>3. tokens' = tokens /\ lapsed' = lapsed
      OBVIOUS
    <3> HIDE DEF r
    <3> QED  BY <2>1, <3>1, <3>2, <3>3 DEF IssueOk
  <2>4. CASE j # i /\ j \notin Others(i)
    <3>1. issue'[j] = issue[j]
      BY <2>4 DEF Crossed
    <3>2. ~Exchanging(j)
      BY <2>4 DEF Others
    <3> QED  BY <2>1, <3>1, <3>2 DEF IssueOk, Exchanging
  <2> QED  BY <2>2, <2>3, <2>4
<1>2. issue' = [j \in Issuances |-> issue'[j]]
  BY DEF Crossed
<1> QED  BY <1>1, <1>2 DEF IssueInv

LEMMA AcceptOfferKeeps ==
  ASSUME IssueInv, NEW i \in Issuances, NEW issuer \in Issuers, AcceptOffer(i, issuer)
  PROVE  IssueInv'
<1> DEFINE r == [issue[i] EXCEPT !.stage = "offer", !.issuer = issuer]
<1>1. issue[i] \in IssueCall /\ IssueOk(i)
  BY DEF IssueInv
<1>2. /\ r \in IssueCall /\ r.stage = "offer" /\ r.bearer = issue[i].bearer
      /\ r.why = issue[i].why /\ r.alone = issue[i].alone
  BY <1>1 DEF IssueCall, IssueStages
<1>3. issue' = [issue EXCEPT ![i] = r]
  BY DEF AcceptOffer
<1> HIDE DEF r
<1> QED  BY <1>1, <1>2, <1>3, OneCallKeeps DEF IssueOk, AcceptOffer, At

\* The steps that change the stage only.
LEMMA StagesKeep ==
  ASSUME IssueInv, NEW i \in Issuances,
         \/ Metadata(i) \/ OpenDisplay(i) \/ Approve(i) \/ Token(i) \/ Admitted(i)
         \/ Store(i) \/ Accepted(i) \/ FailIssue(i)
  PROVE  IssueInv'
<1>1. CASE Token(i)
  BY <1>1, StageKeeps DEF Token, IssueStages, At
<1>2. CASE Admitted(i)
  BY <1>2, StageKeeps DEF Admitted, IssueStages, At
<1>3. CASE Metadata(i) \/ OpenDisplay(i) \/ Approve(i)
  BY <1>3, StageKeeps DEF Metadata, OpenDisplay, Approve, IssueStages, At
<1>4. CASE Store(i) \/ Accepted(i) \/ FailIssue(i)
  BY <1>4, StageKeeps DEF Store, Accepted, FailIssue, IssueStages, At
<1> QED  BY <1>1, <1>2, <1>3, <1>4

LEMMA RequestCredentialKeeps ==
  ASSUME IssueInv, NEW i \in Issuances, RequestCredential(i)
  PROVE  IssueInv'
<1> DEFINE r == [issue[i] EXCEPT !.stage = "posted", !.bearer = session]
<1>1. issue[i] \in IssueCall /\ IssueOk(i) /\ session \in Issuances \cup {None}
  BY DEF IssueInv
<1>2. /\ r \in IssueCall /\ r.stage = "posted" /\ r.bearer = session
      /\ r.why = issue[i].why /\ r.alone = issue[i].alone
  BY <1>1 DEF IssueCall, IssueStages
<1>3. issue' = [issue EXCEPT ![i] = r] /\ issue[i].stage = "proof"
      /\ UNCHANGED <<session, tokens, lapsed>>
  BY DEF RequestCredential, At
<1> HIDE DEF r
<1>4. r.alone => session = i
  BY <1>1, <1>2, <1>3 DEF IssueOk
<1>5. i \in tokens' \cup lapsed'
  BY <1>1, <1>3 DEF IssueOk
<1>6. r.why = None
  BY <1>1, <1>2, <1>3 DEF IssueOk
<1> QED  BY <1>2, <1>3, <1>4, <1>5, <1>6, OneCallKeeps

\* The issuer refuses the token: if the call was alone, it was its own, and it
\* expired.
LEMMA RefusedKeeps ==
  ASSUME IssueInv, NEW i \in Issuances, Refused(i)
  PROVE  IssueInv'
<1> DEFINE r == [issue[i] EXCEPT !.stage = "failed", !.why = "invalid_token"]
<1>1. issue[i] \in IssueCall /\ IssueOk(i) /\ issue[i].stage = "posted"
  BY DEF IssueInv, Refused, At
<1>2. /\ r \in IssueCall /\ r.stage = "failed" /\ r.bearer = issue[i].bearer
      /\ r.alone = issue[i].alone
  BY <1>1 DEF IssueCall, IssueStages
<1>3. issue' = [issue EXCEPT ![i] = r] /\ UNCHANGED <<session, tokens, lapsed>>
  BY DEF Refused
<1> HIDE DEF r
<1>4. r.alone => r.bearer \in lapsed
  <2>1. issue[i].alone => issue[i].bearer = i
    BY <1>1 DEF IssueOk
  <2>2. issue[i].alone => i \notin tokens
    BY <2>1 DEF Refused, Known
  <2> QED  BY <1>1, <1>2, <2>1, <2>2 DEF IssueOk
<1> QED  BY <1>2, <1>3, <1>4, OneCallKeeps

\* The issuer compares the proof with the token: those of a call alone fit.
LEMMA IssuedKeeps ==
  ASSUME IssueInv, NEW i \in Issuances, Issued(i)
  PROVE  IssueInv'
<1>1. issue[i] \in IssueCall /\ IssueOk(i) /\ issue[i].stage = "verifying"
      /\ UNCHANGED <<session, lapsed>>
  BY DEF IssueInv, Issued, At
<1>2. CASE ProofFits(i)
  BY <1>1, <1>2, StageKeeps DEF Issued, IssueStages, At
<1>3. CASE ~ProofFits(i)
  <2> DEFINE r == [issue[i] EXCEPT !.stage = "failed", !.why = "invalid_proof"]
  <2>1. r \in IssueCall /\ r.stage = "failed" /\ r.alone = issue[i].alone
    BY <1>1 DEF IssueCall, IssueStages
  <2>2. issue' = [issue EXCEPT ![i] = r] /\ tokens' = tokens
    BY <1>3 DEF Issued
  <2> HIDE DEF r
  <2>3. ~r.alone
    BY <1>1, <1>3, <2>1 DEF IssueOk, ProofFits
  <2> QED  BY <1>1, <2>1, <2>2, <2>3, OneCallKeeps
<1> QED  BY <1>2, <1>3

LEMMA IssueStep == IssueInv /\ IssueNext => IssueInv'
<1> SUFFICES ASSUME IssueInv, IssueNext
             PROVE  IssueInv'
  OBVIOUS
<1>1. ASSUME NEW i \in Issuances, Prepared(i)
      PROVE  IssueInv'
  BY <1>1, CrossedKeeps DEF Prepared, At
<1>2. ASSUME NEW i \in Issuances, Received(i)
      PROVE  IssueInv'
  <2>1. session' \in Issuances \cup {None}
    BY <1>2 DEF Received, IssueInv, IssueCall
  <2> QED  BY <1>2, <2>1, CrossedKeeps DEF Received, At
<1>3. ASSUME NEW t \in Issuances, Expire(t)
      PROVE  IssueInv'
  <2>1. ASSUME NEW i \in Issuances
        PROVE  IssueOk(i)'
    BY <1>3 DEF Expire, IssueInv, IssueOk
  <2> QED  BY <1>3, <2>1 DEF Expire, IssueInv
<1>4. ASSUME NEW k \in 1..Len(vault), Delete(k)
      PROVE  IssueInv'
  BY <1>4 DEF Delete, issueVars, IssueInv, IssueOk
<1> QED
  BY <1>1, <1>2, <1>3, <1>4, AcceptOfferKeeps, StagesKeep, RequestCredentialKeeps,
     RefusedKeeps, IssuedKeeps DEF IssueNext

-----------------------------------------------------------------------------
(* Presenting. *)

\* What a presentation whose definition id nobody else resolved finds there.
PresentOk(p) ==
  LET r == present[p]
  IN /\ r.alone /\ r.stage \in {"display", "consent"} =>
          byDefinitionId[r.id] \in {None, r.known}
     /\ r.alone /\ r.stage \in {"approved", "posting"} => r.auth \in {None, r.known}
     /\ r.stage = "posting" => r.auth # None
     /\ r.stage \notin {"unused", "failed"} => r.id \in DefinitionIds
     /\ r.stage = "asked" => r.known = r.verifier

\* A call as far as the argument needs its type.
IsPresent(r) ==
  r \in [stage : PresentStages, verifier : {r.verifier}, id : {r.id}, only : {r.only},
         credential : {r.credential}, auth : {r.auth}, known : {r.known}, alone : BOOLEAN]

PresentInv ==
  /\ present = [p \in Presents |-> present[p]]
  /\ byDefinitionId = [d \in DefinitionIds |-> byDefinitionId[d]]
  /\ \A p \in Presents : IsPresent(present[p]) /\ PresentOk(p)
  /\ \A d \in delivered : d[2] \in Presents /\ present[d[2]].stage # "unused"
  /\ DeliveredWhereApproved

\* Whatever a call finds in the vault, it opens a display or fails.
LEMMA SelectedCall ==
  ASSUME NEW r, IsPresent(r)
  PROVE  /\ IsPresent(Selected(r)) /\ Selected(r).stage \in {"display", "failed"}
         /\ Selected(r).verifier = r.verifier /\ Selected(r).id = r.id /\ Selected(r).known = r.known
         /\ Selected(r).auth = r.auth /\ Selected(r).alone = r.alone
<1>1. \/ Selected(r) = [r EXCEPT !.stage = "failed"]
      \/ \E c : Selected(r) = [r EXCEPT !.stage = "display", !.credential = c]
  BY DEF Selected
<1>2. ASSUME NEW c, Selected(r) = [r EXCEPT !.stage = "display", !.credential = c]
      PROVE  /\ IsPresent(Selected(r)) /\ Selected(r).stage \in {"display", "failed"}
             /\ Selected(r).verifier = r.verifier /\ Selected(r).id = r.id /\ Selected(r).known = r.known
             /\ Selected(r).auth = r.auth /\ Selected(r).alone = r.alone
  BY <1>2 DEF IsPresent, PresentStages
<1>3. CASE Selected(r) = [r EXCEPT !.stage = "failed"]
  BY <1>3 DEF IsPresent, PresentStages
<1> QED  BY <1>1, <1>2, <1>3

\* A step of one presentation.
LEMMA OnePresentKeeps ==
  ASSUME PresentInv, NEW p \in Presents, NEW r, IsPresent(r),
         present' = [present EXCEPT ![p] = r], byDefinitionId' = byDefinitionId,
         r.stage # "unused", delivered' \in {delivered, delivered \cup {<<present[p].auth, p>>}},
         r.alone /\ r.stage \in {"display", "consent"} =>
           byDefinitionId[r.id] \in {None, r.known},
         r.alone /\ r.stage \in {"approved", "posting"} => r.auth \in {None, r.known},
         r.stage = "posting" => r.auth # None,
         r.stage \notin {"unused", "failed"} => r.id \in DefinitionIds,
         r.stage = "asked" => r.known = r.verifier,
         present[p].stage # "unused" => r.alone = present[p].alone /\ r.known = present[p].known,
         delivered' # delivered => present[p].stage = "posting"
  PROVE  PresentInv'
<1>1. \A q \in Presents : present'[q] = IF q = p THEN r ELSE present[q]
  BY DEF PresentInv
<1>2. ASSUME NEW q \in Presents
      PROVE  IsPresent(present'[q]) /\ PresentOk(q)'
  <2>1. IsPresent(present[q]) /\ PresentOk(q)
    BY DEF PresentInv
  <2> QED  BY <1>1, <2>1 DEF PresentOk
<1>3. \A d \in delivered' : d[2] \in Presents /\ present'[d[2]].stage # "unused"
  BY <1>1 DEF PresentInv
<1>4. DeliveredWhereApproved'
  <2>1. ASSUME NEW d \in delivered
        PROVE  present'[d[2]].alone => d[1] = present'[d[2]].known
    BY <1>1 DEF PresentInv, DeliveredWhereApproved
  <2>2. ASSUME delivered' # delivered
        PROVE  r.alone => present[p].auth = r.known
    BY <2>2 DEF PresentInv, PresentOk
  <2> QED  BY <1>1, <2>1, <2>2 DEF DeliveredWhereApproved
<1> QED  BY <1>1, <1>2, <1>3, <1>4 DEF PresentInv

\* A step to a stage where the call looks nothing up any more.
Moves(p, s) ==
  /\ present' = [present EXCEPT ![p].stage = s]
  /\ byDefinitionId' = byDefinitionId
  /\ present[p].stage # "unused"
  /\ s # "failed" => present[p].stage # "failed"
  /\ \/ s \in {"presented", "returned", "failed"}
     \/ s = "consent" /\ present[p].stage = "display"
     \/ s = "posting" /\ present[p].stage = "approved" /\ present[p].auth # None
  /\ \/ delivered' = delivered
     \/ delivered' = delivered \cup {<<present[p].auth, p>>} /\ present[p].stage = "posting"

LEMMA PresentStageKeeps ==
  ASSUME PresentInv, NEW p \in Presents, NEW s \in PresentStages, Moves(p, s)
  PROVE  PresentInv'
<1> DEFINE r == [present[p] EXCEPT !.stage = s]
<1>1. IsPresent(present[p]) /\ PresentOk(p)
  BY DEF PresentInv
<1>2. /\ IsPresent(r) /\ r.stage = s /\ r.id = present[p].id /\ r.auth = present[p].auth
      /\ r.known = present[p].known /\ r.alone = present[p].alone
  BY <1>1 DEF IsPresent
<1>3. present' = [present EXCEPT ![p] = r]
  BY DEF Moves
<1> HIDE DEF r
<1> QED  BY <1>1, <1>2, <1>3, OnePresentKeeps DEF PresentOk, Moves

LEMMA PresentInitInv == Init => PresentInv
  BY DEF Init, PresentInv, NoPresent, IsPresent, PresentStages, PresentOk,
         DeliveredWhereApproved

LEMMA PresentUriKeeps ==
  ASSUME PresentInv, NEW p \in Presents, NEW v \in Verifiers, NEW d \in DefinitionIds,
         NEW only, PresentUri(p, v, d, only)
  PROVE  PresentInv'
<1> DEFINE r == [NoPresent EXCEPT !.stage = "asked", !.verifier = v, !.id = d, !.only = only,
                                  !.known = v]
<1>1. IsPresent(r) /\ r.stage = "asked" /\ r.id = d /\ r.known = v /\ r.verifier = v
  BY DEF NoPresent, IsPresent, PresentStages
<1>2. present' = [present EXCEPT ![p] = r] /\ byDefinitionId' = byDefinitionId
      /\ delivered' = delivered /\ present[p].stage = "unused"
  BY DEF PresentUri, Is
<1> HIDE DEF r
<1> QED  BY <1>1, <1>2, OnePresentKeeps

LEMMA PresentRequestKeeps ==
  ASSUME PresentInv, NEW p \in Presents, NEW v \in Verifiers, NEW d \in DefinitionIds,
         NEW only, PresentRequest(p, v, d, only)
  PROVE  PresentInv'
<1> DEFINE r == [NoPresent EXCEPT !.verifier = v, !.id = d, !.only = only,
                                  !.known = byDefinitionId[d]]
           t == Selected(r)
<1>1. IsPresent(r) /\ r.id = d /\ r.known = byDefinitionId[d]
  BY DEF NoPresent, IsPresent, PresentStages
<1>2. present' = [present EXCEPT ![p] = t] /\ byDefinitionId' = byDefinitionId
      /\ delivered' = delivered /\ present[p].stage = "unused"
  BY DEF PresentRequest, Is
<1> HIDE DEF r
<1>3. /\ IsPresent(t) /\ t.stage \in {"display", "failed"} /\ t.id = d
      /\ t.known = byDefinitionId[d]
  BY <1>1, SelectedCall
<1> HIDE DEF t
<1> QED  BY <1>2, <1>3, OnePresentKeeps

LEMMA ConsentKeeps ==
  ASSUME PresentInv, NEW p \in Presents, Consent(p)
  PROVE  PresentInv'
<1> DEFINE r == [present[p] EXCEPT !.stage = "approved", !.auth = byDefinitionId[present[p].id]]
<1>1. IsPresent(present[p]) /\ PresentOk(p) /\ present[p].stage = "consent"
  BY DEF PresentInv, Consent, Is
<1>2. /\ IsPresent(r) /\ r.stage = "approved" /\ r.id = present[p].id
      /\ r.auth = byDefinitionId[present[p].id]
      /\ r.known = present[p].known /\ r.alone = present[p].alone
  BY <1>1 DEF IsPresent, PresentStages
<1>3. present' = [present EXCEPT ![p] = r] /\ byDefinitionId' = byDefinitionId
      /\ delivered' = delivered
  BY DEF Consent
<1> HIDE DEF r
<1> QED  BY <1>1, <1>2, <1>3, OnePresentKeeps DEF PresentOk

\* The steps that look nothing up.
LEMMA PresentStagesKeep ==
  ASSUME PresentInv, NEW p \in Presents,
         ShowConsent(p) \/ Build(p) \/ Post(p) \/ Return(p) \/ FailPresent(p)
  PROVE  PresentInv'
<1>1. CASE ShowConsent(p)
  <2>1. Moves(p, "consent") /\ "consent" \in PresentStages
    BY <1>1 DEF ShowConsent, Is, PresentStages, Moves
  <2> QED  BY <2>1, PresentStageKeeps
<1>2. CASE Build(p)
  <2>1. CASE present[p].auth = None
    <3>1. Moves(p, "presented") /\ "presented" \in PresentStages
      BY <1>2, <2>1 DEF Build, Is, PresentStages, Moves
    <3> QED  BY <3>1, PresentStageKeeps
  <2>2. CASE present[p].auth # None
    <3>1. Moves(p, "posting") /\ "posting" \in PresentStages
      BY <1>2, <2>2 DEF Build, Is, PresentStages, Moves
    <3> QED  BY <3>1, PresentStageKeeps
  <2> QED  BY <2>1, <2>2
<1>3. CASE Post(p)
  <2>1. Moves(p, "presented") /\ "presented" \in PresentStages
    BY <1>3 DEF Post, Is, PresentStages, Moves
  <2> QED  BY <2>1, PresentStageKeeps
<1>4. CASE Return(p)
  <2>1. Moves(p, "returned") /\ "returned" \in PresentStages
    BY <1>4 DEF Return, Is, PresentStages, Moves
  <2> QED  BY <2>1, PresentStageKeeps
<1>5. CASE FailPresent(p)
  <2>1. Moves(p, "failed") /\ "failed" \in PresentStages
    BY <1>5 DEF FailPresent, Is, PresentStages, Moves
  <2> QED  BY <2>1, PresentStageKeeps
<1> QED  BY <1>1, <1>2, <1>3, <1>4, <1>5

\* A request that is resolved takes its id from the calls that wait with it.
LEMMA ResolvedKeeps ==
  ASSUME PresentInv, NEW p \in Presents, Resolved(p)
  PROVE  PresentInv'
<1> DEFINE t == Selected(present[p])
<1>1. /\ present[p].stage = "asked" /\ IsPresent(present[p]) /\ PresentOk(p)
      /\ present[p].id \in DefinitionIds /\ present[p].known = present[p].verifier
      /\ delivered' = delivered
  BY DEF PresentInv, PresentOk, Resolved, Is
<1>2. /\ IsPresent(t) /\ t.stage \in {"display", "failed"} /\ t.id = present[p].id
      /\ t.known = present[p].known /\ t.alone = present[p].alone
  BY <1>1, SelectedCall
<1>3. \A q \in Presents : present'[q] = IF q = p THEN t
                            ELSE IF Shares(p, q) THEN [present[q] EXCEPT !.alone = FALSE]
                            ELSE present[q]
  BY DEF Resolved, Resolving
<1>4. \A d \in DefinitionIds : byDefinitionId'[d] = IF d = present[p].id THEN present[p].verifier
                                                   ELSE byDefinitionId[d]
  BY DEF Resolved, PresentInv
<1>5. /\ present' = [q \in Presents |-> present'[q]]
      /\ byDefinitionId' = [d \in DefinitionIds |-> byDefinitionId'[d]]
  BY DEF Resolved, Resolving, PresentInv
<1> HIDE DEF t
<1>6. ASSUME NEW q \in Presents
      PROVE  /\ IsPresent(present'[q]) /\ PresentOk(q)'
             /\ present[q].stage # "unused" => present'[q].stage # "unused"
             /\ present'[q].known = present[q].known
             /\ present'[q].alone => present[q].alone
  <2>1. IsPresent(present[q]) /\ PresentOk(q)
    BY DEF PresentInv
  <2>2. CASE q = p
    <3>1. present'[q] = t
      BY <1>3, <2>2
    <3>2. byDefinitionId'[t.id] = t.known
      BY <1>1, <1>2, <1>4
    <3> QED  BY <1>1, <1>2, <2>2, <3>1, <3>2 DEF PresentOk
  <2>3. CASE q # p /\ Shares(p, q)
    <3> DEFINE u == [present[q] EXCEPT !.alone = FALSE]
    <3>1. present'[q] = u
      BY <1>3, <2>3
    <3>2. /\ IsPresent(u) /\ u.stage = present[q].stage /\ ~u.alone /\ u.auth = present[q].auth
          /\ u.known = present[q].known /\ u.verifier = present[q].verifier /\ u.id = present[q].id
      BY <2>1 DEF IsPresent
    <3> HIDE DEF u
    <3> QED  BY <2>1, <3>1, <3>2 DEF PresentOk
  <2>4. CASE q # p /\ ~Shares(p, q)
    <3>1. present'[q] = present[q]
      BY <1>3, <2>4
    <3>2. present[q].stage \in {"display", "consent"} =>
            byDefinitionId'[present[q].id] = byDefinitionId[present[q].id]
      BY <1>4, <2>1, <2>4 DEF Shares, PresentOk
    <3> QED  BY <2>1, <3>1, <3>2 DEF PresentOk
  <2> QED  BY <2>2, <2>3, <2>4
<1>7. \A d \in delivered' : d[2] \in Presents /\ present'[d[2]].stage # "unused"
  BY <1>1, <1>6 DEF PresentInv
<1>8. DeliveredWhereApproved'
  <2>1. ASSUME NEW d \in delivered
        PROVE  present'[d[2]].alone => d[1] = present'[d[2]].known
    BY <1>6 DEF PresentInv, DeliveredWhereApproved
  <2> QED  BY <1>1, <2>1 DEF DeliveredWhereApproved
<1> QED  BY <1>5, <1>6, <1>7, <1>8 DEF PresentInv

LEMMA PresentStep == PresentInv /\ PresentNext => PresentInv'
  BY PresentUriKeeps, PresentRequestKeeps, ResolvedKeeps, ConsentKeeps, PresentStagesKeep
     DEF PresentNext

-----------------------------------------------------------------------------
(* What is bought and what is kept. *)

\* The stages after the issuer has answered with a credential, and those in which
\* the vault may have it.
Paid  == {"answered", "received", "stored", "done"}
Kept  == {"stored", "done", "failed"}

\* A call's token has bought what its stage says, and beyond the offer its issuer
\* is a trusted one.
Bought(i) ==
  /\ spent[i] \in {0, 1}
  /\ issue[i].stage \in Paid => spent[i] = 1
  /\ issue[i].stage \notin Paid \cup {"failed"} => spent[i] = 0
  /\ issue[i].stage \notin {"unused", "offer", "failed"} => issue[i].issuer \in Trusted

\* What is in the vault was bought by a call that has stored it.
Earned(c) ==
  c.id \in Issuances => /\ issue[c.id].stage \in Kept
                        /\ spent[c.id] = 1
                        /\ c.issuer = issue[c.id].issuer
                        /\ c.issuer \in Trusted

VaultInv == /\ spent = [i \in Issuances |-> spent[i]]
            /\ vault \in Seq(Credential)
            /\ \A i \in Issuances : Bought(i)
            /\ \A k \in 1..Len(vault) : Earned(vault[k])

\* The vault starts with what it held before.
LEMMA VaultInit == Init => VaultInv
<1> SUFFICES ASSUME Init
             PROVE  VaultInv
  OBVIOUS
<1>1. /\ issue = [i \in Issuances |-> NoIssue] /\ spent = [i \in Issuances |-> 0]
      /\ vault = <<>> \/ \E h \in Held, issuer \in Trusted : vault = <<[id |-> h, issuer |-> issuer]>>
  BY DEF Init, IssueInit
<1>2. \A i \in Issuances : Bought(i)
  BY <1>1 DEF Bought, NoIssue, Paid
<1>3. CASE vault = <<>>
  <2>1. vault \in Seq(Credential) /\ Len(vault) = 0
    BY <1>3, EmptySeq
  <2> QED  BY <1>1, <1>2, <2>1 DEF VaultInv
<1>4. CASE vault # <<>>
  <2>1. PICK h \in Held, issuer \in Trusted : vault = <<[id |-> h, issuer |-> issuer]>>
    BY <1>1, <1>4
  <2> DEFINE c == [id |-> h, issuer |-> issuer]
  <2>2. c \in Credential /\ c.id = h
    BY TrustAssumption DEF Credential
  <2> HIDE DEF c
  <2>3. vault \in Seq(Credential) /\ Len(vault) = 1 /\ vault[1] = c
    BY <2>1, <2>2 DEF c
  <2>4. h \notin Issuances
    BY NamesAssumption
  <2>5. \A k \in 1..Len(vault) : Earned(vault[k])
    BY <2>2, <2>3, <2>4 DEF Earned
  <2> QED  BY <1>1, <1>2, <2>3, <2>5 DEF VaultInv
<1> QED  BY <1>3, <1>4

\* A step of call i: the others keep what they bought, and what the vault has of
\* it stays bought.
Moved(i) ==
  /\ \A j \in Issuances \ {i} : /\ issue'[j].stage = issue[j].stage
                                /\ issue'[j].issuer = issue[j].issuer
                                /\ spent'[j] = spent[j]
  /\ issue[i].stage \in Kept => /\ issue'[i].stage \in Kept
                                /\ issue'[i].issuer = issue[i].issuer
                                /\ spent'[i] = spent[i]
  /\ spent' = [j \in Issuances |-> spent'[j]]

\* Such a step keeps the purchases of all calls.
LEMMA MovedKeeps ==
  ASSUME VaultInv, NEW i \in Issuances, Moved(i), Bought(i)'
  PROVE  /\ \A j \in Issuances : Bought(j)'
         /\ \A c : Earned(c) => Earned(c)'
<1>1. ASSUME NEW j \in Issuances
      PROVE  Bought(j)'
  BY DEF VaultInv, Bought, Moved
<1>2. ASSUME NEW c, Earned(c)
      PROVE  Earned(c)'
  BY <1>2 DEF Earned, Moved
<1> QED  BY <1>1, <1>2

\* Which calls move, and how, when only stages change.
LEMMA StageMoves ==
  ASSUME IssueInv, VaultInv, NEW i \in Issuances, NEW s \in IssueStages,
         \/ \A j \in Issuances \ {i} : issue'[j] = issue[j]
         \/ Crossed(i, s),
         issue'[i].stage = s, issue'[i].issuer = issue[i].issuer, spent' = spent, vault' = vault,
         s \in Paid => issue[i].stage \in Paid,
         s \notin Paid \cup {"failed"} => issue[i].stage \notin Paid \cup {"failed"},
         issue[i].stage \in Kept => s \in Kept,
         s \notin {"unused", "offer", "failed"} => issue[i].issuer \in Trusted
  PROVE  VaultInv' /\ \A c : Earned(c) => Earned(c)'
<1>1. \A j \in Issuances \ {i} : issue'[j].stage = issue[j].stage
                                   /\ issue'[j].issuer = issue[j].issuer
  <2> SUFFICES ASSUME NEW j \in Issuances \ {i}
               PROVE  issue'[j].stage = issue[j].stage /\ issue'[j].issuer = issue[j].issuer
    OBVIOUS
  <2>1. issue[j] \in IssueCall
    BY DEF IssueInv
  <2>2. \/ issue'[j] = issue[j]
        \/ issue'[j] = [issue[j] EXCEPT !.alone = FALSE]
    BY DEF Crossed
  <2> QED  BY <2>1, <2>2 DEF IssueCall
<1>2. Moved(i)
  BY <1>1 DEF Moved, VaultInv
<1>3. Bought(i)'
  BY DEF VaultInv, Bought
<1>4. (\A j \in Issuances : Bought(j)') /\ \A c : Earned(c) => Earned(c)'
  BY <1>2, <1>3, MovedKeeps
<1> QED  BY <1>2, <1>4 DEF VaultInv, Moved

\* A step that goes from one stage to the next, or fails.
LEMMA GoesKeeps ==
  ASSUME IssueInv, VaultInv, NEW i \in Issuances,
         \/ Metadata(i) \/ OpenDisplay(i) \/ Approve(i) \/ Token(i) \/ Admitted(i)
         \/ Accepted(i) \/ FailIssue(i) \/ RequestCredential(i) \/ Refused(i)
         \/ Prepared(i) \/ Received(i)
  PROVE  VaultInv' /\ \A c : Earned(c) => Earned(c)'
<1>1. /\ issue[i] \in IssueCall /\ issue[i].stage \in IssueStages
      /\ issue = [j \in Issuances |-> issue[j]] /\ Bought(i)
      /\ spent' = spent /\ vault' = vault
  BY DEF IssueInv, VaultInv, IssueCall, Metadata, OpenDisplay, Approve, Token, Admitted, Accepted,
         FailIssue, RequestCredential, Refused, Prepared, Received
<1>2. ASSUME NEW s \in IssueStages, Goes(i, s)
      PROVE  /\ \A j \in Issuances \ {i} : issue'[j] = issue[j]
             /\ issue'[i].stage = s /\ issue'[i].issuer = issue[i].issuer
  BY <1>1, <1>2 DEF Goes, IssueCall
<1>3. CASE Metadata(i)
  <2>1. PICK s \in {"display", "failed"} :
          Goes(i, s) /\ issue[i].stage = "offer" /\ (s = "display" => issue[i].issuer \in Trusted)
    BY <1>3 DEF Metadata, At
  <2> QED  BY <1>1, <1>2, <2>1, StageMoves DEF IssueStages, Paid, Kept
<1>4. CASE OpenDisplay(i) \/ Approve(i) \/ Token(i) \/ Admitted(i)
  <2>1. PICK s \in {"consent", "approved", "granted", "verifying"} :
          Goes(i, s) /\ issue[i].stage \in {"display", "consent", "approved", "posted"}
    BY <1>4 DEF OpenDisplay, Approve, Token, Admitted, At
  <2> QED  BY <1>1, <1>2, <2>1, StageMoves DEF IssueStages, Paid, Kept, Bought
<1>5. CASE Accepted(i)
  <2>1. Goes(i, "done") /\ issue[i].stage = "stored"
    BY <1>5 DEF Accepted, At
  <2> QED  BY <1>1, <1>2, <2>1, StageMoves DEF IssueStages, Paid, Kept, Bought
<1>6. CASE FailIssue(i)
  <2>1. Goes(i, "failed")
    BY <1>6 DEF FailIssue
  <2> QED  BY <1>1, <1>2, <2>1, StageMoves DEF IssueStages, Paid, Kept
<1>7. CASE RequestCredential(i)
  <2>1. /\ \A j \in Issuances \ {i} : issue'[j] = issue[j]
        /\ issue'[i].stage = "posted" /\ issue'[i].issuer = issue[i].issuer
        /\ issue[i].stage = "proof"
    BY <1>1, <1>7 DEF RequestCredential, At, IssueCall
  <2> QED  BY <1>1, <2>1, StageMoves DEF IssueStages, Paid, Kept, Bought
<1>8. CASE Refused(i)
  <2>1. /\ \A j \in Issuances \ {i} : issue'[j] = issue[j]
        /\ issue'[i].stage = "failed" /\ issue'[i].issuer = issue[i].issuer
        /\ issue[i].stage = "posted"
    BY <1>1, <1>8 DEF Refused, At, IssueCall
  <2> QED  BY <1>1, <2>1, StageMoves DEF IssueStages, Paid, Kept
<1>9. ASSUME NEW s \in {"proof", "received"}, Crossed(i, s)
      PROVE  issue'[i].stage = s /\ issue'[i].issuer = issue[i].issuer
  BY <1>1, <1>9 DEF Crossed, IssueCall
<1>10. CASE Prepared(i)
  <2>1. Crossed(i, "proof") /\ issue[i].stage = "granted"
    BY <1>10 DEF Prepared, At
  <2> QED  BY <1>1, <1>9, <2>1, StageMoves DEF IssueStages, Paid, Kept, Bought
<1>11. CASE Received(i)
  <2>1. Crossed(i, "received") /\ issue[i].stage = "answered"
    BY <1>11 DEF Received, At
  <2> QED  BY <1>1, <1>9, <2>1, StageMoves DEF IssueStages, Paid, Kept, Bought
<1> QED  BY <1>3, <1>4, <1>5, <1>6, <1>7, <1>8, <1>10, <1>11

\* A new call has bought nothing, and the vault has nothing of it.
LEMMA OfferKeeps ==
  ASSUME IssueInv, VaultInv, NEW i \in Issuances, NEW issuer \in Issuers, AcceptOffer(i, issuer)
  PROVE  VaultInv' /\ \A c : Earned(c) => Earned(c)'
<1>1. issue[i] \in IssueCall /\ issue = [j \in Issuances |-> issue[j]] /\ Bought(i)
  BY DEF IssueInv, VaultInv
<1>2. /\ issue[i].stage = "unused" /\ spent' = spent /\ vault' = vault
      /\ \A j \in Issuances \ {i} : issue'[j] = issue[j]
      /\ issue'[i].stage = "offer"
  BY <1>1 DEF AcceptOffer, At, IssueCall
<1>3. Moved(i)
  BY <1>2 DEF Moved, VaultInv, Kept
<1>4. Bought(i)'
  BY <1>1, <1>2 DEF Bought, Paid
<1>5. (\A j \in Issuances : Bought(j)') /\ \A c : Earned(c) => Earned(c)'
  BY <1>3, <1>4, MovedKeeps
<1> QED  BY <1>2, <1>3, <1>5 DEF VaultInv, Moved

\* The issuer issues once: a call is at this stage once, and for its own token.
LEMMA IssuedBuys ==
  ASSUME IssueInv, VaultInv, NEW i \in Issuances, Issued(i)
  PROVE  VaultInv' /\ \A c : Earned(c) => Earned(c)'
<1>1. issue[i] \in IssueCall /\ issue = [j \in Issuances |-> issue[j]] /\ Bought(i)
      /\ issue[i].stage = "verifying" /\ vault' = vault
  BY DEF IssueInv, VaultInv, Issued, At
<1>2. CASE ProofFits(i)
  <2>1. /\ \A j \in Issuances \ {i} : issue'[j] = issue[j] /\ spent'[j] = spent[j]
        /\ issue'[i].stage = "answered" /\ issue'[i].issuer = issue[i].issuer
        /\ spent'[i] = spent[i] + 1 /\ spent' = [j \in Issuances |-> spent'[j]]
    BY <1>1, <1>2 DEF Issued, Goes, IssueCall, VaultInv
  <2>2. Moved(i)
    BY <1>1, <2>1 DEF Moved, Kept
  <2>3. spent[i] = 0 /\ issue[i].issuer \in Trusted
    BY <1>1 DEF Bought, Paid
  <2>4. Bought(i)'
    BY <2>1, <2>3 DEF Bought, Paid
  <2>5. (\A j \in Issuances : Bought(j)') /\ \A c : Earned(c) => Earned(c)'
    BY <2>2, <2>4, MovedKeeps
  <2> QED  BY <1>1, <2>1, <2>5 DEF VaultInv
<1>3. CASE ~ProofFits(i)
  <2>1. /\ \A j \in Issuances \ {i} : issue'[j] = issue[j]
        /\ issue'[i].stage = "failed" /\ issue'[i].issuer = issue[i].issuer /\ spent' = spent
    BY <1>1, <1>3 DEF Issued, IssueCall
  <2> QED  BY <1>1, <2>1, StageMoves DEF IssueStages, Paid, Kept
<1> QED  BY <1>2, <1>3

\* A credential is stored by the call that bought it.
LEMMA StoreKeeps ==
  ASSUME IssueInv, VaultInv, NEW i \in Issuances, Store(i)
  PROVE  VaultInv' /\ \A c : Earned(c) => Earned(c)'
<1>0. PICK c : c = [id |-> i, issuer |-> issue[i].issuer]
  OBVIOUS
<1>1. issue[i] \in IssueCall /\ issue = [j \in Issuances |-> issue[j]] /\ Bought(i)
      /\ issue[i].stage = "received"
  BY DEF IssueInv, VaultInv, Store, At
<1>2. /\ \A j \in Issuances \ {i} : issue'[j] = issue[j]
      /\ issue'[i].stage = "stored" /\ issue'[i].issuer = issue[i].issuer
      /\ spent' = spent /\ vault' = Append(vault, c)
  BY <1>0, <1>1 DEF Store, Goes, IssueCall
<1>3. spent[i] = 1 /\ issue[i].issuer \in Trusted
  BY <1>1 DEF Bought, Paid
<1>4. c \in Credential /\ c.id = i /\ c.issuer = issue[i].issuer
  BY <1>0, <1>3, TrustAssumption DEF Credential
<1>5. Moved(i)
  BY <1>1, <1>2 DEF Moved, VaultInv, Kept
<1>6. Bought(i)'
  BY <1>1, <1>2, <1>3 DEF Bought, Paid
<1>7. (\A j \in Issuances : Bought(j)') /\ \A d : Earned(d) => Earned(d)'
  BY <1>5, <1>6, MovedKeeps
<1>8. Earned(c)'
  BY <1>2, <1>3, <1>4 DEF Earned, Kept
<1>9. /\ vault' \in Seq(Credential)
      /\ \A k \in 1..Len(vault') : 
           (k \in 1..Len(vault) /\ vault'[k] = vault[k]) \/ vault'[k] = c
  BY <1>2, <1>4 DEF VaultInv
<1>10. \A k \in 1..Len(vault') : \E d : d = vault'[k] /\ Earned(d)'
  BY <1>7, <1>8, <1>9 DEF VaultInv
<1> QED  BY <1>5, <1>7, <1>9, <1>10 DEF VaultInv, Moved, Earned

\* Deleting one credential leaves the others.
LEMMA DeleteKeeps ==
  ASSUME VaultInv, NEW k \in 1..Len(vault), Delete(k)
  PROVE  VaultInv' /\ \A c : Earned(c) => Earned(c)'
<1> DEFINE before == SubSeq(vault, 1, k - 1)
           after  == SubSeq(vault, k + 1, Len(vault))
<1>1. vault \in Seq(Credential) /\ Len(vault) \in Nat /\ k \in Nat
      /\ vault' = before \o after /\ UNCHANGED <<issue, spent>>
  BY DEF VaultInv, Delete, issueVars
<1>2. /\ before \in Seq(Credential) /\ Len(before) = k - 1
      /\ \A j \in 1..Len(before) : before[j] = vault[j] /\ j \in 1..Len(vault)
  BY <1>1, SubSeqProperties
<1>3. /\ after \in Seq(Credential) /\ Len(after) = Len(vault) - k
      /\ \A j \in 1..Len(after) : after[j] = vault[k + j] /\ k + j \in 1..Len(vault)
  <2>1. k + 1 \in 1..Len(vault) + 1 /\ Len(vault) \in (k + 1) - 1..Len(vault)
    BY <1>1
  <2>2. /\ after \in Seq(Credential) /\ Len(after) = Len(vault) - (k + 1) + 1
        /\ \A j \in 1..Len(vault) - (k + 1) + 1 : after[j] = vault[(k + 1) + j - 1]
    BY <1>1, <2>1, SubSeqProperties
  <2>3. \A j \in 1..Len(after) : (k + 1) + j - 1 = k + j /\ k + j \in 1..Len(vault)
    BY <1>1, <2>2
  <2> QED  BY <1>1, <2>2, <2>3
<1> HIDE DEF before, after
<1>4. /\ vault' \in Seq(Credential) /\ Len(vault') = Len(before) + Len(after)
      /\ \A j \in 1..Len(before) + Len(after) :
           vault'[j] = IF j <= Len(before) THEN before[j] ELSE after[j - Len(before)]
  <2>1. before \o after \in Seq(Credential)
    BY <1>2, <1>3, ConcatProperties
  <2>2. Len(before \o after) = Len(before) + Len(after)
    BY <1>2, <1>3, ConcatProperties
  <2>3. \A j \in 1..Len(before) + Len(after) :
          (before \o after)[j] = IF j <= Len(before) THEN before[j] ELSE after[j - Len(before)]
    BY <1>2, <1>3, ConcatProperties
  <2> QED  BY <1>1, <2>1, <2>2, <2>3
<1>5. \A j \in 1..Len(vault') : \E h \in 1..Len(vault) : vault'[j] = vault[h]
  <2> SUFFICES ASSUME NEW j \in 1..Len(vault')
               PROVE  \E h \in 1..Len(vault) : vault'[j] = vault[h]
    OBVIOUS
  <2>0. /\ j \in Nat /\ j >= 1 /\ j <= Len(vault) - 1 /\ Len(before) = k - 1
        /\ j \in 1..Len(before) + Len(after) /\ k \in Nat
    BY <1>1, <1>2, <1>3, <1>4
  <2>1. CASE j <= Len(before)
    <3>1. j \in 1..Len(before) /\ vault'[j] = before[j]
      BY <1>4, <2>0, <2>1
    <3> QED  BY <1>2, <3>1
  <2>2. CASE ~(j <= Len(before))
    <3>1. j - Len(before) \in 1..Len(after)
      BY <1>1, <1>2, <1>3, <2>0, <2>2
    <3>2. vault'[j] = after[j - Len(before)]
      BY <1>4, <2>0, <2>2
    <3> QED  BY <1>3, <3>1, <3>2
  <2> QED  BY <2>1, <2>2
<1>6. \A c : Earned(c)' <=> Earned(c)
  BY <1>1 DEF Earned
<1>7. \A j \in 1..Len(vault') : \E d : d = vault'[j] /\ Earned(d)'
  BY <1>5, <1>6 DEF VaultInv
<1> QED  BY <1>1, <1>4, <1>7 DEF VaultInv, Bought, Earned

\* A step that touches neither calls nor tokens' use nor the vault.
LEMMA VaultStays ==
  ASSUME VaultInv, UNCHANGED <<issue, spent, vault>>
  PROVE  VaultInv' /\ \A c : Earned(c) => Earned(c)'
  BY DEF VaultInv, Bought, Earned

\* Every step keeps the accounts of tokens and vault.
LEMMA VaultStep ==
  IssueInv /\ VaultInv /\ [Next]_vars => VaultInv' /\ \A c : Earned(c) => Earned(c)'
<1> SUFFICES ASSUME IssueInv, VaultInv, [Next]_vars
             PROVE  VaultInv' /\ \A c : Earned(c) => Earned(c)'
  OBVIOUS
<1>1. CASE IssueNext
  <2>1. ASSUME NEW t \in Issuances, Expire(t)
        PROVE  VaultInv' /\ \A c : Earned(c) => Earned(c)'
    BY <2>1, VaultStays DEF Expire
  <2> QED  BY <1>1, <2>1, OfferKeeps, GoesKeeps, IssuedBuys, StoreKeeps, DeleteKeeps DEF IssueNext
<1>2. CASE PresentNext \/ UNCHANGED vars
  <2>1. UNCHANGED <<issue, spent, vault>>
    BY <1>2 DEF PresentNext, PresentUri, PresentRequest, Resolved, ShowConsent, Consent,
                Build, Post, Return, FailPresent, issueVars, vars
  <2> QED  BY <2>1, VaultStays
<1> QED  BY <1>1, <1>2 DEF Next

-----------------------------------------------------------------------------
(* What is presented, and the type of the whole. *)

\* A presentation shows a credential of an issuer that the wallet trusts and the
\* host page accepts, and one the wallet has bought on its own offer, whatever
\* became of the vault since (credentials-helper.ts present).
PresentedIsEarned ==
  \A p \in Presents : present[p].credential # None =>
    /\ Fits(present[p].credential, present[p].only)
    /\ Earned(present[p].credential)

PresentCall == [stage : PresentStages,
                verifier : Verifiers \cup {None}, id : DefinitionIds \cup {None},
                only : SUBSET Issuers, credential : Credential \cup {None},
                auth : Verifiers \cup {None}, known : Verifiers \cup {None}, alone : BOOLEAN]

\* A call has a definition and a verifier once it is made, and posts for one.
CallOk(r) ==
  /\ r \in PresentCall
  /\ r.stage # "unused" => r.verifier \in Verifiers /\ r.id \in DefinitionIds
  /\ r.stage = "posting" => r.auth \in Verifiers
  /\ r.credential # None => Fits(r.credential, r.only) /\ Earned(r.credential)

TypedInv ==
  /\ tokens \subseteq Issuances /\ lapsed \subseteq Issuances
  /\ displays \subseteq Issuances \cup Presents
  /\ byDefinitionId \in [DefinitionIds -> Verifiers \cup {None}]
  /\ delivered \subseteq Verifiers \X Presents
  /\ present \in [Presents -> PresentCall]
  /\ \A p \in Presents : CallOk(present[p])

LEMMA TypedInit == Init => TypedInv
<1>1. NoPresent \in PresentCall /\ NoPresent.stage = "unused" /\ NoPresent.credential = None
  BY DEF NoPresent, PresentCall, PresentStages
<1> QED  BY <1>1 DEF Init, IssueInit, TypedInv, CallOk

LEMMA LeastNatural ==
  ASSUME NEW T \in SUBSET Nat, T # {}
  PROVE  \E n \in T : \A m \in T : n <= m
<1>1. PICK R : R = OpToRel(<, Nat)
  OBVIOUS
<1>2. IsWellFoundedOn(R, Nat)
  BY <1>1, NatLessThanWellFounded
<1>3. PICK n \in T : \A m \in T : <<m, n>> \notin R
  BY <1>2, WFMin
<1>4. \A m \in T : ~(m < n)
  <2>1. R = {ss \in Nat \X Nat : ss[1] < ss[2]}
    BY <1>1 DEF OpToRel
  <2>2. \A m \in Nat, k \in Nat : m < k => <<m, k>> \in R
    BY <2>1
  <2> QED  BY <1>3, <2>2
<1> QED  BY <1>4

\* What a call selects fits, and was in the vault.
LEMMA SelectedOk ==
  ASSUME VaultInv, NEW r, CallOk(r), r.verifier \in Verifiers, r.id \in DefinitionIds
  PROVE  CallOk(Selected(r))
<1> DEFINE matches == Matches(r.only)
           first == CHOOSE k \in matches : \A l \in matches : k <= l
<1>0. r \in PresentCall
  BY DEF CallOk
<1>1. CASE matches = {}
  <2>1. Selected(r) = [r EXCEPT !.stage = "failed"]
    BY <1>1 DEF Selected
  <2> HIDE DEF matches
  <2>2. /\ Selected(r) \in PresentCall /\ Selected(r).stage = "failed"
        /\ Selected(r).verifier = r.verifier /\ Selected(r).id = r.id
        /\ Selected(r).only = r.only /\ Selected(r).credential = r.credential
    BY <1>0, <2>1 DEF PresentCall, PresentStages
  <2> QED  BY <2>2 DEF CallOk
<1>2. CASE matches # {}
  <2>1. vault \in Seq(Credential) /\ matches \subseteq 1..Len(vault) /\ Len(vault) \in Nat
    BY DEF VaultInv, Matches
  <2>2. PICK n \in matches : \A m \in matches : n <= m
    BY <1>2, <2>1, LeastNatural
  <2>3. first \in matches
    BY <2>2
  <2>4. PICK c : c = vault[first]
    OBVIOUS
  <2>5. c \in Credential /\ Fits(c, r.only) /\ Earned(c)
    BY <2>1, <2>3, <2>4 DEF Matches, VaultInv
  <2>6. Selected(r) = [r EXCEPT !.stage = "display", !.credential = c]
    BY <1>2, <2>4 DEF Selected
  <2> HIDE DEF matches, first
  <2>7. /\ Selected(r) \in PresentCall /\ Selected(r).stage = "display"
        /\ Selected(r).verifier = r.verifier /\ Selected(r).id = r.id
        /\ Selected(r).only = r.only /\ Selected(r).credential = c
    BY <1>0, <2>5, <2>6 DEF PresentCall, PresentStages
  <2> QED  BY <2>5, <2>7 DEF CallOk
<1> QED  BY <1>1, <1>2

\* What is earned stays earned, so that a call stays as it should be.
LEMMA CallsStay ==
  ASSUME TypedInv, \A c : Earned(c) => Earned(c)', UNCHANGED present
  PROVE  /\ present' \in [Presents -> PresentCall]
         /\ \A p \in Presents : CallOk(present[p])'
  BY DEF TypedInv, CallOk, Fits

LEMMA CallMoves ==
  ASSUME TypedInv, UNCHANGED <<issue, spent>>,
         NEW p \in Presents, NEW r, CallOk(r), present' = [present EXCEPT ![p] = r]
  PROVE  /\ present' \in [Presents -> PresentCall]
         /\ \A q \in Presents : CallOk(present[q])'
<1>1. present' \in [Presents -> PresentCall]
  BY DEF TypedInv, CallOk
<1>2. ASSUME NEW q \in Presents
      PROVE  CallOk(present[q])'
  <2>1. CallOk(present[q])
    BY DEF TypedInv
  <2>2. present'[q] = IF q = p THEN r ELSE present[q]
    BY DEF TypedInv
  <2> QED  BY <2>1, <2>2 DEF CallOk, Fits, Earned
<1> QED  BY <1>1, <1>2

\* A step of acceptOffer, or of the vault.
LEMMA IssueTyped ==
  ASSUME IssueInv, VaultInv, TypedInv, IssueNext, UNCHANGED presentVars,
         \A c : Earned(c) => Earned(c)'
  PROVE  TypedInv'
<1>1. /\ present' \in [Presents -> PresentCall]
      /\ \A p \in Presents : CallOk(present[p])'
  BY CallsStay DEF presentVars
<1>2. /\ tokens' \subseteq Issuances /\ lapsed' \subseteq Issuances
      /\ displays' \subseteq Issuances \cup Presents
  <2>1. ASSUME NEW i \in Issuances, \E issuer \in Issuers : AcceptOffer(i, issuer)
        PROVE  UNCHANGED <<tokens, lapsed, displays>>
    BY <2>1 DEF AcceptOffer
  <2>2. ASSUME NEW i \in Issuances,
               \/ Metadata(i) \/ OpenDisplay(i) \/ Approve(i) \/ Token(i) \/ Prepared(i)
               \/ RequestCredential(i) \/ Refused(i) \/ Admitted(i) \/ Issued(i) \/ Received(i)
               \/ Store(i) \/ Accepted(i) \/ FailIssue(i)
        PROVE  /\ tokens' \subseteq tokens \cup {i} /\ lapsed' = lapsed
               /\ displays' \subseteq displays \cup {i}
    BY <2>2 DEF Metadata, OpenDisplay, Approve, Token, Prepared, RequestCredential, Refused,
                Admitted, Issued, Received, Store, Accepted, FailIssue
  <2>3. ASSUME NEW t \in Issuances, Expire(t)
        PROVE  tokens' \subseteq tokens /\ lapsed' = lapsed \cup {t} /\ displays' = displays
    BY <2>3 DEF Expire
  <2>4. ASSUME NEW k \in 1..Len(vault), Delete(k)
        PROVE  UNCHANGED <<tokens, lapsed, displays>>
    BY <2>4 DEF Delete, issueVars
  <2> QED  BY <2>1, <2>2, <2>3, <2>4 DEF IssueNext, TypedInv
<1> QED  BY <1>1, <1>2 DEF TypedInv, presentVars

\* A step of one call of present that opens, closes or leaves displays, and may
\* deliver to the verifier the call posts to.
LEMMA OnePresentTyped ==
  ASSUME TypedInv, UNCHANGED <<issueVars, byDefinitionId>>, NEW p \in Presents, NEW r, CallOk(r),
         present' = [present EXCEPT ![p] = r], displays' \subseteq displays \cup {p},
         delivered' \subseteq delivered \cup (Verifiers \X {p})
  PROVE  TypedInv'
<1>1. /\ present' \in [Presents -> PresentCall]
      /\ \A q \in Presents : CallOk(present[q])'
  BY CallMoves DEF issueVars
<1> QED  BY <1>1 DEF TypedInv, issueVars

\* A step of present.
LEMMA PresentTyped ==
  ASSUME VaultInv, TypedInv, PresentNext
  PROVE  TypedInv'
<1>0. UNCHANGED issueVars
  BY DEF PresentNext, PresentUri, PresentRequest, Resolved, ShowConsent, Consent, Build, Post,
         Return, FailPresent
<1>1. NoPresent \in PresentCall /\ NoPresent.stage = "unused" /\ NoPresent.credential = None
  BY DEF NoPresent, PresentCall, PresentStages
<1>2. ASSUME NEW p \in Presents, NEW v \in Verifiers, NEW d \in DefinitionIds,
             NEW only \in HostLists, PresentUri(p, v, d, only)
      PROVE  TypedInv'
  <2> DEFINE r == [NoPresent EXCEPT !.stage = "asked", !.verifier = v, !.id = d, !.only = only,
                                  !.known = v]
  <2>1. CallOk(r)
    BY <1>1, ListsAssumption DEF CallOk, PresentCall, PresentStages
  <2>2. present' = [present EXCEPT ![p] = r] /\ UNCHANGED <<displays, byDefinitionId, delivered>>
    BY <1>2 DEF PresentUri
  <2> HIDE DEF r
  <2> QED  BY <1>0, <2>1, <2>2, OnePresentTyped
<1>3. ASSUME NEW p \in Presents, NEW v \in Verifiers, NEW d \in DefinitionIds,
             NEW only \in HostLists, PresentRequest(p, v, d, only)
      PROVE  TypedInv'
  <2> DEFINE r == [NoPresent EXCEPT !.verifier = v, !.id = d, !.only = only,
                                    !.known = byDefinitionId[d]]
  <2>1. CallOk(r) /\ r.verifier \in Verifiers /\ r.id \in DefinitionIds
    BY <1>1, ListsAssumption DEF TypedInv, CallOk, PresentCall, PresentStages
  <2>2. /\ present' = [present EXCEPT ![p] = Selected(r)]
        /\ UNCHANGED <<displays, byDefinitionId, delivered>>
    BY <1>3 DEF PresentRequest
  <2> HIDE DEF r
  <2>3. CallOk(Selected(r))
    BY <2>1, SelectedOk
  <2> QED  BY <1>0, <2>2, <2>3, OnePresentTyped
<1>4. ASSUME NEW p \in Presents, Resolved(p)
      PROVE  TypedInv'
  <2>1. CallOk(present[p]) /\ present[p].stage = "asked"
    BY <1>4 DEF TypedInv, Resolved, Is
  <2>2. present[p].verifier \in Verifiers /\ present[p].id \in DefinitionIds
    BY <2>1 DEF CallOk
  <2>3. CallOk(Selected(present[p]))
    BY <2>1, <2>2, SelectedOk
  <2>4. ASSUME NEW q \in Presents
        PROVE  \E r : r = present'[q] /\ CallOk(r)
    <3>1. CallOk(present[q])
      BY DEF TypedInv
    <3>2. CallOk([present[q] EXCEPT !.alone = FALSE])
      BY <3>1 DEF CallOk, PresentCall
    <3>3. present'[q] \in {Selected(present[p]), [present[q] EXCEPT !.alone = FALSE], present[q]}
      BY <1>4 DEF Resolved, Resolving
    <3> QED  BY <2>3, <3>1, <3>2, <3>3
  <2>5. \A q \in Presents : CallOk(present[q])'
    BY <1>0, <2>4 DEF CallOk, Fits, Earned, issueVars
  <2>6. present' \in [Presents -> PresentCall]
    BY <1>4, <2>4 DEF CallOk, Resolved, Resolving
  <2>7. byDefinitionId' \in [DefinitionIds -> Verifiers \cup {None}]
    BY <1>4, <2>2 DEF Resolved, TypedInv
  <2> QED  BY <1>0, <1>4, <2>5, <2>6, <2>7 DEF TypedInv, Resolved, issueVars
<1>5. ASSUME NEW p \in Presents, present[p].stage # "unused", NEW s \in PresentStages,
             s = "posting" => present[p].auth # None
      PROVE  CallOk([present[p] EXCEPT !.stage = s])
  BY <1>5 DEF TypedInv, CallOk, PresentCall
<1>6. ASSUME NEW p \in Presents, ShowConsent(p) \/ Build(p) \/ Post(p) \/ Return(p) \/ FailPresent(p)
      PROVE  TypedInv'
  <2>1. present[p].stage # "unused"
    BY <1>6 DEF ShowConsent, Build, Post, Return, FailPresent, Is
  <2>2. PICK s \in PresentStages : /\ present' = [present EXCEPT ![p].stage = s]
                                   /\ s = "posting" => present[p].auth # None
    BY <1>6 DEF ShowConsent, Build, Post, Return, FailPresent, PresentStages
  <2>3. CallOk([present[p] EXCEPT !.stage = s])
    BY <1>5, <2>1, <2>2
  <2>4. present' = [present EXCEPT ![p] = [present[p] EXCEPT !.stage = s]]
    BY <2>2 DEF TypedInv
  <2>5. displays' \subseteq displays \cup {p} /\ byDefinitionId' = byDefinitionId
    BY <1>6 DEF ShowConsent, Build, Post, Return, FailPresent
  <2>6. delivered' \subseteq delivered \cup (Verifiers \X {p})
    <3>1. CASE Post(p)
      <4>1. present[p].auth \in Verifiers
        BY <3>1 DEF Post, Is, TypedInv, CallOk
      <4> QED  BY <3>1, <4>1 DEF Post
    <3>2. CASE ~Post(p)
      BY <1>6, <3>2 DEF ShowConsent, Build, Return, FailPresent
    <3> QED  BY <3>1, <3>2
  <2> QED  BY <1>0, <2>3, <2>4, <2>5, <2>6, OnePresentTyped
<1>7. ASSUME NEW p \in Presents, Consent(p)
      PROVE  TypedInv'
  <2> DEFINE r == [present[p] EXCEPT !.stage = "approved",
                                     !.auth = byDefinitionId[present[p].id]]
  <2>1. CallOk(present[p]) /\ present[p].stage = "consent"
    BY <1>7 DEF TypedInv, Consent, Is
  <2>2. byDefinitionId[present[p].id] \in Verifiers \cup {None}
    BY <2>1 DEF TypedInv, CallOk
  <2>3. CallOk(r)
    BY <2>1, <2>2 DEF CallOk, PresentCall, PresentStages
  <2>4. present' = [present EXCEPT ![p] = r] /\ UNCHANGED <<displays, byDefinitionId, delivered>>
    BY <1>7 DEF Consent, TypedInv
  <2> HIDE DEF r
  <2> QED  BY <1>0, <2>3, <2>4, OnePresentTyped
<1> QED  BY <1>2, <1>3, <1>4, <1>6, <1>7 DEF PresentNext

LEMMA TypedStep ==
  IssueInv /\ VaultInv /\ TypedInv /\ [Next]_vars => TypedInv'
<1> SUFFICES ASSUME IssueInv, VaultInv, TypedInv, [Next]_vars
             PROVE  TypedInv'
  OBVIOUS
<1>1. \A c : Earned(c) => Earned(c)'
  BY VaultStep
<1>2. CASE UNCHANGED vars
  <2>1. /\ present' \in [Presents -> PresentCall]
        /\ \A p \in Presents : CallOk(present[p])'
    BY <1>1, <1>2, CallsStay DEF vars, presentVars
  <2> QED  BY <1>2, <2>1 DEF vars, issueVars, presentVars, TypedInv
<1> QED  BY <1>1, <1>2, IssueTyped, PresentTyped DEF Next

-----------------------------------------------------------------------------
(* Together. *)

LEMMA CallsInv == Spec => [](IssueInv /\ PresentInv)
<1>1. Init => IssueInv /\ PresentInv
  BY IssueInitInv, PresentInitInv DEF Init
<1>2. IssueInv /\ PresentInv /\ [Next]_vars => IssueInv' /\ PresentInv'
  <2> SUFFICES ASSUME IssueInv, PresentInv, [Next]_vars
               PROVE  IssueInv' /\ PresentInv'
    OBVIOUS
  <2>1. CASE IssueNext /\ UNCHANGED presentVars
    <3>1. PresentInv'
      BY <2>1 DEF presentVars, PresentInv, PresentOk, DeliveredWhereApproved
    <3> QED  BY <2>1, <3>1, IssueStep
  <2>2. CASE PresentNext
    <3>1. UNCHANGED issueVars
      BY <2>2 DEF PresentNext, PresentUri, PresentRequest, Resolved, ShowConsent, Consent,
                  Build, Post, Return, FailPresent
    <3>2. IssueInv'
      BY <3>1 DEF issueVars, IssueInv, IssueOk
    <3> QED  BY <2>2, <3>2, PresentStep
  <2>3. CASE UNCHANGED vars
    BY <2>3 DEF vars, issueVars, presentVars, IssueInv, IssueOk, PresentInv, PresentOk,
                DeliveredWhereApproved
  <2> QED  BY <2>1, <2>2, <2>3 DEF Next
<1> QED  BY <1>1, <1>2, PTL DEF Spec

\* A call that overlapped no other is refused only because its own token
\* expired: HttpOid4vciClient.requestCredential sends the token of the session
\* it keeps for all calls, and an issuer compares the proof with it.
THEOREM RefusedCorrect == Spec => []RefusedOnlyWhenCrossed
<1>1. IssueInv => RefusedOnlyWhenCrossed
  BY DEF IssueInv, IssueOk, RefusedOnlyWhenCrossed
<1> QED  BY <1>1, CallsInv, PTL

\* A presentation reaches the verifier whose request its call started from, its
\* own for a request_uri, unless HttpOid4vpClient resolved another request with
\* its definition id while it was waiting.
THEOREM DeliveredCorrect == Spec => []DeliveredWhereApproved
<1>1. PresentInv => DeliveredWhereApproved
  BY DEF PresentInv
<1> QED  BY <1>1, CallsInv, PTL

\* An access token buys one credential, for the offer it was granted for, and the
\* vault holds nothing else but what it held before: whatever token the client
\* sends, the issuer's check of the proof tells it apart.
THEOREM OneCredentialCorrect == Spec => []OneCredentialPerToken
<1>1. VaultInv => OneCredentialPerToken
  BY DEF VaultInv, Bought, Earned, OneCredentialPerToken
<1> QED  BY <1>1, CallsInv, VaultInit, VaultStep, PTL DEF Spec

\* What is presented was bought by a call that stored it, is of a trusted issuer
\* and of one the host page accepts.
THEOREM PresentedCorrect == Spec => []PresentedIsEarned
<1>1. TypedInv => PresentedIsEarned
  BY DEF TypedInv, CallOk, PresentedIsEarned
<1> QED  BY <1>1, CallsInv, VaultInit, VaultStep, TypedInit, TypedStep, PTL DEF Spec

\* Every variable of the wallet, its clients, the issuers and the verifiers keeps
\* its type.
THEOREM TypeCorrect == Spec => []TypeOK
<1>1. IssueInv /\ VaultInv /\ TypedInv => TypeOK
  <2> SUFFICES ASSUME IssueInv, VaultInv, TypedInv
               PROVE  TypeOK
    OBVIOUS
  <2>1. spent \in [Issuances -> Nat]
    BY DEF VaultInv, Bought
  <2>2. IssueTypeOK
    BY <2>1 DEF IssueInv, IssueCall, VaultInv, TypedInv, IssueTypeOK
  <2>3. PresentTypeOK
    BY DEF TypedInv, PresentCall, PresentTypeOK
  <2> QED  BY <2>2, <2>3 DEF TypedInv, TypeOK
<1> QED  BY <1>1, CallsInv, VaultInit, VaultStep, TypedInit, TypedStep, PTL DEF Spec
=============================================================================
