------------------------- MODULE CredentialIssuance -------------------------
(***************************************************************************)
(* Receiving a credential: CredentialsHelper.acceptOffer and               *)
(* issueCredentialAfterApproval (packages/ows-oid4), the one               *)
(* HttpOid4vciClient they share, the wallet's registerCredentialsProvider, *)
(* the vault in localStorage, and the issuer of the example                *)
(* (oid4vci-plugin).  Every call of acceptOffer is a process of its own;   *)
(* the client keeps ONE access token for all of them.                      *)
(***************************************************************************)
EXTENDS Naturals, Sequences

CONSTANTS Issuers,
          Trusted,   \* what InMemoryIssuerTrustRegistry answers for
          Issuances, \* calls of acceptOffer; also names each one's token
          Held,      \* credentials the vault holds when the page loads
          None

ASSUME TrustAssumption == Trusted \subseteq Issuers
ASSUME NamesAssumption == Issuances \cap Held = {} /\ None \notin Issuances \cup Issuers

VARIABLES
  issue,      \* each call of acceptOffer
  session,    \* HttpOid4vciClient.session: the token, by the call it was for
  tokens,     \* ACCESS_TOKENS of the issuers
  spent,      \* history: for each token, the credentials issued on it
  lapsed,     \* history: the tokens that expired
  vault,      \* LocalStorageCredentialRepository, in insertion order
  displays    \* the calls that hold a display session

issueVars == <<issue, session, tokens, spent, lapsed>>

IssueStages == {"unused", "offer", "display", "consent", "approved", "granted", "proof",
                "posted", "verifying", "answered", "received", "stored", "done", "failed"}

\* bearer: the access token that was sent; why: what the issuer refused;
\* alone: history, no other call asked for a token or was answered meanwhile.
NoIssue == [stage |-> "unused", issuer |-> None, bearer |-> None, why |-> None, alone |-> TRUE]

Credential == [id : Issuances \cup Held, issuer : Issuers]

IssueTypeOK ==
  /\ issue \in [Issuances -> [stage : IssueStages, issuer : Issuers \cup {None},
                              bearer : Issuances \cup {None},
                              why : {None, "invalid_token", "invalid_proof"},
                              alone : BOOLEAN]]
  /\ session \in Issuances \cup {None}
  /\ tokens \subseteq Issuances
  /\ spent \in [Issuances -> Nat]
  /\ lapsed \subseteq Issuances
  /\ vault \in Seq(Credential)

IssueInit ==
  /\ issue = [i \in Issuances |-> NoIssue]
  /\ session = None
  /\ tokens = {}
  /\ spent = [i \in Issuances |-> 0]
  /\ lapsed = {}

At(i, stage) == issue[i].stage = stage
Goes(i, stage) == issue' = [issue EXCEPT ![i].stage = stage]

\* Between the request for a token and the end of the credential response.
Exchanging(i) == issue[i].stage \in 
  {"approved", "granted", "proof", "posted", "verifying", "answered"}
Others(i) == {j \in Issuances \ {i} : Exchanging(j)}

-----------------------------------------------------------------------------
(* The wallet: CredentialsHelper and approveAndAcceptOffer. *)

\* The offer is given, or its URI is resolved.
AcceptOffer(i, issuer) ==
  /\ At(i, "unused")
  /\ issue' = [issue EXCEPT ![i].stage = "offer", ![i].issuer = issuer]
  /\ UNCHANGED <<session, tokens, spent, lapsed, vault, displays>>

\* fetchIssuerMetadata, then the trust registry, which answers at once.
Metadata(i) ==
  /\ At(i, "offer")
  /\ Goes(i, IF issue[i].issuer \in Trusted THEN "display" ELSE "failed")
  /\ UNCHANGED <<session, tokens, spent, lapsed, vault, displays>>

OpenDisplay(i) ==
  /\ At(i, "display")
  /\ Goes(i, "consent")
  /\ displays' = displays \cup {i}
  /\ UNCHANGED <<session, tokens, spent, lapsed, vault>>

\* ensureOnboarded and the user's consent; then the holder key, and
\* prepareCredentialRequest asks for a token.
Approve(i) ==
  /\ At(i, "consent")
  /\ Goes(i, "approved")
  /\ UNCHANGED <<session, tokens, spent, lapsed, vault, displays>>

-----------------------------------------------------------------------------
(* The issuer and the client. *)

\* POST /token: a fresh access token and c_nonce for every request.
Token(i) ==
  /\ At(i, "approved")
  /\ Goes(i, "granted")
  /\ tokens' = tokens \cup {i}
  /\ UNCHANGED <<session, spent, lapsed, vault, displays>>

Expire(t) ==
  /\ t \in tokens
  /\ tokens' = tokens \ {t}
  /\ lapsed' = lapsed \cup {t}
  /\ UNCHANGED <<issue, session, spent, vault, displays>>

\* What happens to the others when the shared session is overwritten.
Crossed(i, stage) ==
  issue' = [j \in Issuances |->
              IF j = i THEN [issue[i] EXCEPT !.stage = stage,
                                             !.alone = @ /\ Others(i) = {}]
              ELSE IF j \in Others(i) THEN [issue[j] EXCEPT !.alone = FALSE]
              ELSE issue[j]]

\* Fault: a session that is there is kept.
PreparedOnce(i) ==
  /\ At(i, "granted")
  /\ Crossed(i, "proof")
  /\ session' = IF session = None THEN i ELSE session
  /\ UNCHANGED <<tokens, spent, lapsed, vault, displays>>

\* The token response: prepareCredentialRequest overwrites the session; the
\* c_nonce goes to its own caller.
Prepared(i) ==
  /\ At(i, "granted")
  /\ Crossed(i, "proof")
  /\ session' = i
  /\ UNCHANGED <<tokens, spent, lapsed, vault, displays>>

\* The attestation and the proof JWT for the own c_nonce are signed, and
\* requestCredential posts them with the token the session holds by now.
RequestCredential(i) ==
  /\ At(i, "proof")
  /\ issue' = [issue EXCEPT ![i].stage = "posted", ![i].bearer = session]
  /\ UNCHANGED <<session, tokens, spent, lapsed, vault, displays>>

\* getAccessTokenSession, of the issuer the call is posted to.
Known(i) == 
  /\ issue[i].bearer \in tokens
  /\ issue[issue[i].bearer].issuer = issue[i].issuer

\* POST /credential, its head.
Refused(i) ==
  /\ At(i, "posted")
  /\ ~Known(i)
  /\ issue' = [issue EXCEPT ![i].stage = "failed", ![i].why = "invalid_token"]
  /\ displays' = displays \ {i}
  /\ UNCHANGED <<session, tokens, spent, lapsed, vault>>

\* The token is known: the body is read and the proof is verified.
Admitted(i) ==
  /\ At(i, "posted")
  /\ Known(i)
  /\ Goes(i, "verifying")
  /\ UNCHANGED <<session, tokens, spent, lapsed, vault, displays>>

\* Fault: the nonce of the proof is not compared with the token's.
IssuedUnverified(i) ==
  /\ At(i, "verifying")
  /\ Goes(i, "answered")
  /\ tokens' = tokens \ {issue[i].bearer}
  /\ spent' = [spent EXCEPT ![issue[i].bearer] = @ + 1]
  /\ UNCHANGED <<session, lapsed, vault, displays>>

\* verifyOid4vciProofJwt: the proof is for i's own nonce, the one expected is
\* that of the token sent with it.
ProofFits(i) == issue[i].bearer = i

\* The credential is sent and only now is the token deleted, whether or not it
\* still is in ACCESS_TOKENS.
Issued(i) ==
  /\ At(i, "verifying")
  /\ IF ProofFits(i)
     THEN /\ Goes(i, "answered")
          /\ tokens' = tokens \ {i}
          /\ spent' = [spent EXCEPT ![i] = @ + 1]
          /\ displays' = displays
     ELSE /\ issue' = [issue EXCEPT ![i].stage = "failed", ![i].why = "invalid_proof"]
          /\ displays' = displays \ {i}
          /\ UNCHANGED <<tokens, spent>>
  /\ UNCHANGED <<session, lapsed, vault>>

\* The response carries the c_nonce again, so its token is written back.
Received(i) ==
  /\ At(i, "answered")
  /\ Crossed(i, "received")
  /\ session' = issue[i].bearer
  /\ UNCHANGED <<tokens, spent, lapsed, vault, displays>>

\* The credential is parsed, found active and stored.
Store(i) ==
  /\ At(i, "received")
  /\ Goes(i, "stored")
  /\ vault' = Append(vault, [id |-> i, issuer |-> issue[i].issuer])
  /\ UNCHANGED <<session, tokens, spent, lapsed, displays>>

\* onAuthenticated is over and the display is released.
Accepted(i) ==
  /\ At(i, "stored")
  /\ Goes(i, "done")
  /\ displays' = displays \ {i}
  /\ UNCHANGED <<session, tokens, spent, lapsed, vault>>

\* A fetch, the display, the user, the passkey, the status or onAuthenticated
\* says no; what the issuer has done by then stands.
FailIssue(i) ==
  /\ issue[i].stage \in IssueStages \ {"unused", "done", "failed"}
  /\ Goes(i, "failed")
  /\ displays' = displays \ {i}
  /\ UNCHANGED <<session, tokens, spent, lapsed, vault>>

\* LocalStorageCredentialRepository.delete, after ensureReady: one credential is
\* kept under every id.
Delete(k) ==
  /\ k \in 1..Len(vault)
  /\ vault' = SubSeq(vault, 1, k - 1) \o SubSeq(vault, k + 1, Len(vault))
  /\ UNCHANGED <<issueVars, displays>>

IssueNext ==
  \/ \E i \in Issuances :
       \/ \E issuer \in Issuers : AcceptOffer(i, issuer)
       \/ Metadata(i) \/ OpenDisplay(i) \/ Approve(i)
       \/ Token(i) \/ Prepared(i) \/ RequestCredential(i)
       \/ Refused(i) \/ Admitted(i) \/ Issued(i) \/ Received(i)
       \/ Store(i) \/ Accepted(i) \/ FailIssue(i)
  \/ \E t \in Issuances : Expire(t)
  \/ \E k \in 1..Len(vault) : Delete(k)

-----------------------------------------------------------------------------
(* Properties. *)

\* An access token buys one credential at most, and it buys it for the offer
\* it was granted for; what the vault received was bought that way, from a
\* trusted issuer.  The issuer looks the token up before it awaits and deletes
\* it after (oid4vci-plugin.ts:174,228), and the client may send a token that
\* is another call's (http-oid4vci-client.ts:164,194).
OneCredentialPerToken ==
  /\ \A t \in Issuances : spent[t] <= 1
  /\ \A k \in 1..Len(vault) : vault[k].id \in Issuances =>
       /\ spent[vault[k].id] = 1
       /\ vault[k].issuer = issue[vault[k].id].issuer
       /\ vault[k].issuer \in Trusted

\* The issuer refuses a call's token or proof only when the token expired or
\* another call was between its token request and its credential response at
\* the same time: then they share one session (http-oid4vci-client.ts:58).
RefusedOnlyWhenCrossed ==
  \A i \in Issuances : issue[i].why # None => ~issue[i].alone \/ issue[i].bearer \in lapsed
=============================================================================
