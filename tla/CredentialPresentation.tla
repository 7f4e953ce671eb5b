----------------------- MODULE CredentialPresentation -----------------------
(***************************************************************************)
(* Presenting a credential, next to the calls that receive one: the other  *)
(* half of CredentialsHelper and registerCredentialsProvider,              *)
(* HttpOid4vpClient with its map of authorization requests by definition   *)
(* id, and the verifier of the example (oid4vp-plugin).                    *)
(***************************************************************************)
EXTENDS CredentialIssuance, FiniteSets

CONSTANTS Verifiers,
          DefinitionIds,
          Presents,    \* calls of present
          HostLists,   \* the acceptedIssuers a host page may give; {} for none
          MaxCalls     \* bound: calls of either kind

ASSUME ListsAssumption == HostLists \subseteq SUBSET Issuers

VARIABLES
  present,        \* each call of present
  byDefinitionId, \* HttpOid4vpClient: the verifier of the request held under an id
  delivered       \* what reached a response_uri

presentVars == <<present, byDefinitionId, delivered>>
vars == <<issueVars, vault, displays, presentVars>>

PresentStages == {"unused", "asked", "display", "consent", "approved",
                  "posting", "presented", "returned", "failed"}

\* credential: what repository.get gave before the display opened; auth: the
\* verifier whose authorization request was found after the consent.  Histories:
\* known, whose request the call starts from, its own or, for a definition the
\* host gave, the one held under its id at that time; alone, no other request was
\* resolved under the id while the call waited.
NoPresent == [stage |-> "unused", verifier |-> None, id |-> None, only |-> {},
              credential |-> None, auth |-> None, known |-> None, alone |-> TRUE]

PresentTypeOK ==
  /\ present \in [Presents -> [stage : PresentStages,
                               verifier : Verifiers \cup {None}, id : DefinitionIds \cup {None},
                               only : SUBSET Issuers, credential : Credential \cup {None},
                               auth : Verifiers \cup {None},
                               known : Verifiers \cup {None}, alone : BOOLEAN]]
  /\ byDefinitionId \in [DefinitionIds -> Verifiers \cup {None}]
  /\ delivered \subseteq Verifiers \X Presents

TypeOK == IssueTypeOK /\ PresentTypeOK /\ displays \subseteq Issuances \cup Presents

\* The vault outlives the page; what it holds was received from trusted issuers.
Init ==
  /\ IssueInit
  /\ vault \in {<<>>} \cup {<<[id |-> h, issuer |-> issuer]>> : h \in Held, issuer \in Trusted}
  /\ displays = {}
  /\ present = [p \in Presents |-> NoPresent]
  /\ byDefinitionId = [d \in DefinitionIds |-> None]
  /\ delivered = {}

Is(p, stage) == present[p].stage = stage

-----------------------------------------------------------------------------
(* CredentialsHelper.present. *)

\* credentialMatchesDefinition: every credential here is of the type that is
\* asked for, so the host's acceptedIssuers and then the registry decide.
Fits(c, only) ==
  /\ only = {} \/ c.issuer \in only
  /\ c.issuer \in Trusted

\* Where they are in the vault.
Matches(only) == {k \in DOMAIN vault : Fits(vault[k], only)}

\* From the definition to the display: list, match, filter, get, checkStatus
\* run without giving way.  The first match is presented.
Selected(r) ==
  LET matches == Matches(r.only)
      first   == CHOOSE k \in matches : \A l \in matches : k <= l
  IN IF matches = {} THEN [r EXCEPT !.stage = "failed"]
     ELSE [r EXCEPT !.stage = "display", !.credential = vault[first]]

\* The host page gives a request_uri; GET /request/demo answers it with a
\* fresh nonce.
PresentUri(p, v, d, only) ==
  /\ Is(p, "unused")
  /\ present' = [present EXCEPT ![p] = [NoPresent EXCEPT
                   !.stage = "asked", !.verifier = v, !.id = d, !.only = only, !.known = v]]
  /\ UNCHANGED <<issueVars, vault, displays, byDefinitionId, delivered>>

\* The host page gives the definition itself; nothing is resolved, and a request
\* of an earlier call, over or not, is still held under the id: the map is never
\* cleared.
PresentRequest(p, v, d, only) ==
  /\ Is(p, "unused")
  /\ present' = [present EXCEPT ![p] = Selected([NoPresent EXCEPT
                   !.verifier = v, !.id = d, !.only = only,
                   !.known = byDefinitionId[d]])]
  /\ UNCHANGED <<issueVars, vault, displays, byDefinitionId, delivered>>

\* Another request is held under the id: the calls that have yet to look
\* theirs up are no longer alone.
Shares(p, q) ==
  /\ q # p
  /\ present[q].id = present[p].id
  /\ present[q].stage \in {"display", "consent"}

Resolving(p) ==
  [q \in Presents |-> IF q = p THEN Selected(present[p])
                      ELSE IF Shares(p, q) THEN [present[q] EXCEPT !.alone = FALSE]
                      ELSE present[q]]

\* Fault: an id that is known keeps its request.
ResolvedOnce(p) ==
  /\ Is(p, "asked")
  /\ present' = Resolving(p)
  /\ byDefinitionId' = [byDefinitionId EXCEPT ![present[p].id] =
                          IF @ = None THEN present[p].verifier ELSE @]
  /\ UNCHANGED <<issueVars, vault, displays, delivered>>

\* The end of resolveRequest: the request is held under its definition's id.
Resolved(p) ==
  /\ Is(p, "asked")
  /\ present' = Resolving(p)
  /\ byDefinitionId' = [byDefinitionId EXCEPT ![present[p].id] = present[p].verifier]
  /\ UNCHANGED <<issueVars, vault, displays, delivered>>

ShowConsent(p) ==
  /\ Is(p, "display")
  /\ present' = [present EXCEPT ![p].stage = "consent"]
  /\ displays' = displays \cup {p}
  /\ UNCHANGED <<issueVars, vault, byDefinitionId, delivered>>

\* presentCredentialAfterApproval looks the authorization request up again,
\* by the definition's id.
Consent(p) ==
  /\ Is(p, "consent")
  /\ present' = [present EXCEPT ![p].stage = "approved",
                                ![p].auth = byDefinitionId[present[p].id]]
  /\ UNCHANGED <<issueVars, vault, displays, byDefinitionId, delivered>>

\* The presentation is built for the definition's nonce and audience, the
\* holder key signs; without an authorization request it is not posted.
Build(p) ==
  /\ Is(p, "approved")
  /\ present' = [present EXCEPT ![p].stage = IF present[p].auth = None THEN "presented" ELSE "posting"]
  /\ UNCHANGED <<issueVars, vault, displays, byDefinitionId, delivered>>

\* POST /response, decrypted with the key of the request it was encrypted for.
Post(p) ==
  /\ Is(p, "posting")
  /\ present' = [present EXCEPT ![p].stage = "presented"]
  /\ delivered' = delivered \cup {<<present[p].auth, p>>}
  /\ UNCHANGED <<issueVars, vault, displays, byDefinitionId>>

Return(p) ==
  /\ Is(p, "presented")
  /\ present' = [present EXCEPT ![p].stage = "returned"]
  /\ displays' = displays \ {p}
  /\ UNCHANGED <<issueVars, vault, byDefinitionId, delivered>>

\* No match, the display, the user, the passkey or the verifier says no.
FailPresent(p) ==
  /\ present[p].stage \in {"asked", "display", "consent", "approved", "posting", "presented"}
  /\ present' = [present EXCEPT ![p].stage = "failed"]
  /\ displays' = displays \ {p}
  /\ UNCHANGED <<issueVars, vault, byDefinitionId, delivered>>

Calls == {i \in Issuances : issue[i].stage # "unused"}
         \cup {p \in Presents : present[p].stage # "unused"}

PresentNext ==
  \E p \in Presents :
    \/ \E v \in Verifiers, d \in DefinitionIds, only \in HostLists :
         PresentUri(p, v, d, only) \/ PresentRequest(p, v, d, only)
    \/ Resolved(p) \/ ShowConsent(p) \/ Consent(p) \/ Build(p)
    \/ Post(p) \/ Return(p) \/ FailPresent(p)

Next ==
  /\ \/ IssueNext /\ UNCHANGED presentVars
     \/ PresentNext
  /\ Cardinality(Calls') <= MaxCalls

Spec == Init /\ [][Next]_vars

-----------------------------------------------------------------------------
(* Properties. *)

\* A presentation reaches the verifier whose request the call started from,
\* unless the client resolved another request with the same definition id while
\* the call waited for the user.  A request_uri starts from its own request; a
\* definition the host page gives starts from the request of an earlier call
\* with that id, if there was one: HttpOid4vpClient looks the authorization
\* request up by the id alone and never clears its map (http-oid4vp-client.ts:41-58,
\* credentials-helper.ts:402).
DeliveredWhereApproved ==
  \A d \in delivered : present[d[2]].alone => d[1] = present[d[2]].known

\* Not so in the code: whatever was resolved before or meanwhile, a presentation
\* reaches the verifier whose request the user agreed to.
DeliveredToTheApproved ==
  \A d \in delivered : d[1] = present[d[2]].verifier
=============================================================================
