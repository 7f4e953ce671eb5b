------------------------------ MODULE ChainRpc ------------------------------
(***************************************************************************)
(* The active EVM chain of the Branding Layer and what is signed for it:   *)
(* RpcHelper (packages/ows-wallet-utils), SignHelper with                  *)
(* prepareEvmTransaction (packages/ows-signer-utils), and the way the      *)
(* general wallet joins them (registerApprovalSigning, useWalletBoot), up  *)
(* to EIP1193Provider in the host page, which shares one ordered channel   *)
(* between the answers to its requests and the events pushed to it.        *)
(***************************************************************************)
EXTENDS Naturals, Sequences

CONSTANTS Chains,
          Configured, \* keys of RpcHelper.providers
          Default,
          Switches,   \* calls of switchChain
          Requests,   \* signing requests of the host page
          MaxQueue,   \* bound: messages on their way to the host page
          None

ASSUME ChainsAssumption == Configured \subseteq Chains /\ None \notin Chains
ASSUME DefaultAssumption == Default \in Configured
ASSUME QueueAssumption == MaxQueue \in Nat

VARIABLES
  currentChainId,
  subscribed, \* useWalletBoot listens to rpcHelper.events: after ready
  missed,     \* history: the chain changed while nobody listened
  toHost,     \* answers and events on their way to EIP1193Provider
  listening,  \* the dapp has a chainChanged listener
  known,      \* the chain the dapp has learned since it listens
  switch,     \* each call of switchChain
  req,        \* each signing request
  held        \* requests that hold a display session

chainVars == <<currentChainId, subscribed, missed>>
hostVars  == <<toHost, listening, known>>
vars      == <<chainVars, hostVars, switch, req, held>>

Stages == {"unused", "display", "ready", "consent", "preparing", "signing",
           "authenticated", "sending", "resolved", "rejected"}
Kinds  == {"message", "transaction"}

\* shown: chainId of the approval request; signed: chainId of the prepared
\* transaction; used: the chains its RPCs went to; still: history, no switch
\* since the handler started.
NoRequest == [stage |-> "unused", kind |-> None, named |-> None, shown |-> None,
              signed |-> None, used |-> {}, still |-> TRUE]
NoSwitch  == [stage |-> "unused", chainId |-> None]

\* An event, or the answer to eth_chainId; the other answers tell no chain.
Message == [kind : {"chainChanged", "chainId"}, chain : Chains]

TypeOK ==
  /\ currentChainId \in Configured
  /\ subscribed \in BOOLEAN
  /\ missed \in BOOLEAN
  /\ toHost \in Seq(Message)
  /\ listening \in BOOLEAN
  /\ known \in Chains \cup {None}
  /\ switch \in [Switches -> [stage : {"unused", "asked", "switched", "refused", "failed"},
                              chainId : Chains \cup {None}]]
  /\ req \in [Requests -> [stage : Stages, kind : Kinds \cup {None}, named : Chains \cup {None},
                           shown : Chains \cup {None}, signed : Chains \cup {None},
                           used : SUBSET Chains, still : BOOLEAN]]
  /\ held \subseteq Requests

Init ==
  /\ currentChainId = Default
  /\ subscribed = FALSE
  /\ missed = FALSE
  /\ toHost = <<>>
  /\ listening = FALSE
  /\ known = None
  /\ switch = [s \in Switches |-> NoSwitch]
  /\ req = [r \in Requests |-> NoRequest]
  /\ held = {}

Room == Len(toHost) < MaxQueue

-----------------------------------------------------------------------------
(* RpcHelper: reading and switching the chain. *)

\* The effect of useWalletBoot that waits for ready, which comes after
\* wallet.start(): the host page may call before it.
Subscribe ==
  /\ ~subscribed
  /\ subscribed' = TRUE
  /\ UNCHANGED <<currentChainId, missed, hostVars, switch, req, held>>

\* eth_chainId.
ReadChainId ==
  /\ Room
  /\ toHost' = Append(toHost, [kind |-> "chainId", chain |-> currentChainId])
  /\ UNCHANGED <<chainVars, listening, known, switch, req, held>>

\* To whoever listens to rpcHelper.events.
Emitted(c) == IF subscribed THEN <<[kind |-> "chainChanged", chain |-> c]>> ELSE <<>>

Settled(r) == req[r].stage \in {"resolved", "rejected"}
Unsettled  == [r \in Requests |-> IF req[r].stage = "unused" \/ Settled(r)
                                  THEN req[r] ELSE [req[r] EXCEPT !.still = FALSE]]

\* Fault: the event carries the chain that is left.
SwitchedEmittingOld(c) ==
  IF c = currentChainId THEN toHost' = toHost /\ UNCHANGED <<currentChainId, missed, req>>
  ELSE /\ currentChainId' = c
       /\ toHost' = toHost \o Emitted(currentChainId)
       /\ missed' = (missed \/ ~subscribed)
       /\ req' = Unsettled

\* The end of switchChain once it is allowed.
Switched(c) ==
  IF c = currentChainId THEN toHost' = toHost /\ UNCHANGED <<currentChainId, missed, req>>
  ELSE /\ currentChainId' = c
       /\ toHost' = toHost \o Emitted(c)
       /\ missed' = (missed \/ ~subscribed)
       /\ req' = Unsettled

\* wallet_switchEthereumChain, or the chain select of the wallet's own page. With
\* no beforeSwitchChain (the general wallet has none), or one that decides at
\* once, the switch is made before anything else happens.
switchChain(s, c) ==
  /\ Room
  /\ switch[s].stage = "unused"
  /\ LET to(stage) == switch' = [switch EXCEPT ![s] = [stage |-> stage, chainId |-> c]]
     IN \/ /\ c \notin Configured
           /\ to("failed")
           /\ UNCHANGED <<currentChainId, missed, toHost, req>>
        \/ /\ c \in Configured
           /\ to("asked")
           /\ UNCHANGED <<currentChainId, missed, toHost, req>>
        \/ /\ c \in Configured
           /\ to("switched")
           /\ Switched(c)
  /\ UNCHANGED <<subscribed, listening, known, held>>

\* beforeSwitchChain has settled: false leaves the chain, an exception rejects.
BeforeSwitch(s) ==
  /\ Room
  /\ switch[s].stage = "asked"
  /\ \/ /\ switch' = [switch EXCEPT ![s].stage = "switched"]
        /\ Switched(switch[s].chainId)
     \/ /\ \E stage \in {"refused", "failed"} : switch' = [switch EXCEPT ![s].stage = stage]
        /\ UNCHANGED <<currentChainId, missed, toHost, req>>
  /\ UNCHANGED <<subscribed, listening, known, held>>

-----------------------------------------------------------------------------
(* The host page. *)

\* A dapp installs its listener before it asks for the chain.
Listen ==
  /\ ~listening
  /\ listening' = TRUE
  /\ UNCHANGED <<chainVars, toHost, known, switch, req, held>>

removeListener ==
  /\ listening
  /\ listening' = FALSE
  /\ known' = None
  /\ UNCHANGED <<chainVars, toHost, switch, req, held>>

\* Eip1193EventHostHandler and RpcHostClient: messages arrive in order.
Deliver ==
  /\ toHost # <<>>
  /\ toHost' = Tail(toHost)
  /\ known' = IF listening THEN Head(toHost).chain ELSE known
  /\ UNCHANGED <<chainVars, listening, switch, req, held>>

-----------------------------------------------------------------------------
(* SignHelper and registerApprovalSigning. *)

requestVars == <<chainVars, hostVars, switch>>

At(r, stage)   == req[r].stage = stage
Step(r, stage) == req' = [req EXCEPT ![r].stage = stage] /\ UNCHANGED <<held, requestVars>>

\* Fault: the session is released when run() returns, not when it throws.
SettleReleasingResults(r, stage) ==
  /\ req' = [req EXCEPT ![r].stage = stage]
  /\ held' = IF stage = "resolved" THEN held \ {r} ELSE held
  /\ UNCHANGED requestVars

\* withDisplay releases the session however run() ends.
Settle(r, stage) == /\ req' = [req EXCEPT ![r].stage = stage]
                    /\ held' = held \ {r}
                    /\ UNCHANGED requestVars

\* handlePersonalSign and handleTypedData.
SignMessage(r) ==
  /\ At(r, "unused")
  /\ req' = [req EXCEPT ![r].stage = "display", ![r].kind = "message"]
  /\ UNCHANGED <<held, requestVars>>

\* handleSendTransaction up to its first await: a chainId in the request has to
\* be the active one.
SendTransaction(r, named) ==
  /\ At(r, "unused")
  /\ LET begun == [NoRequest EXCEPT !.kind = "transaction", !.named = named]
     IN req' = [req EXCEPT ![r] =
          IF named \in {None, currentChainId}
          THEN [begun EXCEPT !.stage = "display", !.shown = currentChainId]
          ELSE [begun EXCEPT !.stage = "rejected"]]
  /\ UNCHANGED <<held, requestVars>>

\* requestDisplay is answered, or times out in the child.
Display(r) ==
  /\ At(r, "display")
  /\ \/ /\ req' = [req EXCEPT ![r].stage = "ready"]
        /\ held' = held \cup {r}
        /\ UNCHANGED requestVars
     \/ Step(r, "rejected")

\* resolveAccount and ensureReady: another account, or no wallet, rejects.
Ready(r) ==
  /\ At(r, "ready")
  /\ \/ Step(r, "consent")
     \/ Settle(r, "rejected")

\* Fault: the chain to sign for is the first provider's.
ConsentOnDefault(r) ==
  /\ At(r, "consent")
  /\ \/ /\ req[r].kind = "message" /\ Step(r, "signing")
     \/ /\ req[r].kind = "transaction"
        /\ req' = [req EXCEPT ![r].stage = "preparing", ![r].signed = Default]
        /\ UNCHANGED <<held, requestVars>>
     \/ Settle(r, "rejected")

\* The user answers the prompt; prepareEvmTransaction then reads the active
\* chain, which the transaction is signed for.
Consent(r) ==
  /\ At(r, "consent")
  /\ \/ /\ req[r].kind = "message" /\ Step(r, "signing")
     \/ /\ req[r].kind = "transaction"
        /\ req' = [req EXCEPT ![r].stage = "preparing", ![r].signed = currentChainId]
        /\ UNCHANGED <<held, requestVars>>
     \/ Settle(r, "rejected")

\* viem asks for the nonce and the fees through RpcHelper.request, each call on
\* the chain that is active then; one of them may fail.
Prepare(r) ==
  /\ At(r, "preparing")
  /\ \/ /\ req' = [req EXCEPT ![r].used = @ \cup {currentChainId}]
        /\ UNCHANGED <<held, requestVars>>
     \/ Step(r, "signing")
     \/ Settle(r, "rejected")

\* The Signing Layer's ceremony.
Sign(r) ==
  /\ At(r, "signing")
  /\ \/ Step(r, "authenticated")
     \/ Settle(r, "rejected")

\* onAuthenticated has refreshed the addresses; a transaction is then broadcast
\* on the active chain. An exception of it loses the signature.
Authenticated(r) ==
  /\ At(r, "authenticated")
  /\ \/ /\ req[r].kind = "message"
        /\ Settle(r, "resolved")
     \/ /\ req[r].kind = "transaction"
        /\ req' = [req EXCEPT ![r].stage = "sending", ![r].used = @ \cup {currentChainId}]
        /\ UNCHANGED <<held, requestVars>>
     \/ Settle(r, "rejected")

\* eth_sendRawTransaction is answered: a hash, or anything else.
Sent(r) ==
  /\ At(r, "sending")
  /\ \E stage \in {"resolved", "rejected"} : Settle(r, stage)

-----------------------------------------------------------------------------
HostPage == Listen \/ removeListener \/ Deliver \/ ReadChainId

Signing(r) == \/ SignMessage(r) \/ \E named \in Chains \cup {None} : SendTransaction(r, named)
              \/ Display(r) \/ Ready(r) \/ Consent(r) \/ Prepare(r) \/ Sign(r)
              \/ Authenticated(r) \/ Sent(r)

Next == \/ HostPage \/ Subscribe
        \/ \E s \in Switches : BeforeSwitch(s) \/ \E c \in Chains : switchChain(s, c)
        \/ \E r \in Requests : Signing(r)

Spec == Init /\ [][Next]_vars

-----------------------------------------------------------------------------
(* Properties. *)

\* A dapp that listens and then reads eth_chainId is never wrong once nothing is
\* on its way, unless the chain changed before useWalletBoot subscribed: the
\* events and the answers share one ordered channel, and every change is told.
DappFollows ==
  known # None /\ toHost = <<>> /\ ~missed => known = currentChainId

\* While nobody switches, a transaction is shown, prepared, signed and broadcast
\* for one chain, though each of the four reads the active chain anew
\* (sign-helper.ts handleSendTransaction, prepareEvmTransaction).
OneChainWhileStill ==
  \A r \in Requests : req[r].still =>
    /\ req[r].signed \in {None, req[r].shown}
    /\ req[r].used \subseteq {req[r].shown}

\* A display session is held exactly while its request is under way: no way out
\* of the approval forgets it or gives it back early (SignHelper.withDisplay).
SessionsOfRequestsUnderWay ==
  held = {r \in Requests : req[r].stage \in Stages \ {"unused", "display", "resolved", "rejected"}}

\* Not so in the code: what handleSendTransaction checks, that a transaction that
\* names a chain is signed for it (sign-helper.ts:187-190).  The chain is checked
\* before the approval and read again after it (sign-helper.ts:297).
SignedForNamed ==
  \A r \in Requests : req[r].named # None => req[r].signed \in {None, req[r].named}
=============================================================================
