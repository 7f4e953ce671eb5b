----------------------------- MODULE RpcContract -----------------------------
(***************************************************************************)
(* What the host's RPC promises its callers: a call runs its handler at    *)
(* most once, its promise settles at most once, and it is resolved only by *)
(* the handler of that very call.                                          *)
(***************************************************************************)
CONSTANT Calls

VARIABLES called, ran, resolved, rejected

ContractInit == called = {} /\ ran = {} /\ resolved = {} /\ rejected = {}

\* The host page calls.
Call(id) == /\ id \notin called
            /\ called' = called \cup {id}
            /\ UNCHANGED <<ran, resolved, rejected>>

\* The Branding Layer starts the handler.
Run(id) == /\ id \in called \ ran
           /\ ran' = ran \cup {id}
           /\ UNCHANGED <<called, resolved, rejected>>

Resolve(id) == /\ id \in ran \ (resolved \cup rejected)
               /\ resolved' = resolved \cup {id}
               /\ UNCHANGED <<called, ran, rejected>>

\* One call fails, or all that are open do because the proxy is destroyed.
Reject(S) == /\ S \subseteq called \ (resolved \cup rejected)
             /\ rejected' = rejected \cup S
             /\ UNCHANGED <<called, ran, resolved>>

ContractNext == \/ \E id \in Calls : Call(id) \/ Run(id) \/ Resolve(id)
                \/ \E S \in SUBSET Calls : Reject(S)

ContractSpec == ContractInit /\ [][ContractNext]_<<called, ran, resolved, rejected>>
=============================================================================
