--------------------------- MODULE SigningContract ---------------------------
(***************************************************************************)
(* What the Branding Layer may rely on of the Signing Layer, seen from the *)
(* events it posts: a request is accepted once, its key may be reported    *)
(* once, it is answered at most once and last, and a method that needs a   *)
(* key does not succeed before that key was reported.  SigningLayer        *)
(* implements it; SignerClient is composed with it.                        *)
(***************************************************************************)
EXTENDS SignerMethods

CONSTANTS Requests, Methods

VARIABLES method, reply, derived

contractVars == <<method, reply, derived>>

ContractInit ==
  /\ method = [r \in Requests |-> "none"]
  /\ reply = [r \in Requests |-> "none"]
  /\ derived = {}

\* Requests that were accepted and not answered.
Open == {r \in Requests : method[r] # "none" /\ reply[r] = "none"}

\* At most one Confirm waits, so at most one request is denied by a step of
\* another or by a cancel.
Deniable == {{}} \cup {{r} : r \in Open}
Deny(S) == [r \in Requests |-> IF r \in S THEN "SignDenied" ELSE reply[r]]

Accept(r, m) ==
  /\ method[r] = "none"
  /\ method' = [method EXCEPT ![r] = m]
  /\ \E S \in Deniable : reply' = Deny(S)
  /\ UNCHANGED derived

\* A cancel, or a step that takes another's panel and posts nothing itself.
Drop == /\ \E S \in Deniable : reply' = Deny(S)
        /\ UNCHANGED <<method, derived>>

\* A step of r's handler posts KeyDerived, an answer or both.
Post(r, derives, e) ==
  /\ r \in Open
  /\ derives => method[r] \in MayDerive /\ r \notin derived
  /\ derived' = IF derives THEN derived \cup {r} ELSE derived
  /\ e = Success(method[r]) /\ method[r] \in AlwaysDerive => r \in derived'
  /\ derives /\ method[r] \in AtOnce => e # "none"
  /\ \E S \in Deniable : r \notin S /\ reply' = [Deny(S) EXCEPT ![r] = e]
  /\ UNCHANGED method

ContractNext ==
  \/ Drop
  \/ \E r \in Requests :
       \/ \E m \in Methods : Accept(r, m)
       \/ \E derives \in BOOLEAN, e \in Failures \cup {"none", Success(method[r])} :
            Post(r, derives, e)

ContractSpec == ContractInit /\ [][ContractNext]_contractVars
=============================================================================
