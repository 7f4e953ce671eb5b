----------------------------- MODULE SolanaWallet -----------------------------
(***************************************************************************)
(* SolanaHostClient and OwsSolanaStandardWallet (packages/ows-provider),   *)
(* the Wallet Standard wallet that applications in the host page use, on   *)
(* top of the RPC of HostRpc.                                              *)
(*                                                                         *)
(* The continuation of an awaited RPC is a step of its own: it runs in a   *)
(* microtask after the message that settled the call, and what could come  *)
(* between might as well have come before that message.                    *)
(***************************************************************************)
EXTENDS HostRpc

CONSTANTS Features,  \* features that applications use
          Ops,       \* calls of the standard features by applications
          Apps,      \* Wallet Standard applications in the page
          Addresses, \* accounts the Branding Layer may answer with
          MaxInputs  \* bound: inputs of one feature call

ASSUME AddressesAssumption == None \notin Addresses
ASSUME InputsAssumption    == MaxInputs \in Nat
ASSUME FeaturesAssumption  ==
  Features \subseteq {"connect", "signMessage", "signTransaction", "signIn", "signAndSend"}

VARIABLES
  op,          \* each feature call: what it is, its inputs and the call it awaits
  accounts,    \* OwsSolanaStandardWallet.accounts: None or one address
  sent,        \* how many inputs of each signAndSendTransaction the wallet sent
  registered,  \* SolanaHostClient.#registered
  listening,   \* #appReadyListener is installed
  ready,       \* applications that look for wallets
  listed,      \* applications that list this wallet
  unregisterFns \* whose register returned an unregister function, in order

walletVars == <<op, accounts, sent>>
listVars   == <<registered, listening, ready, listed, unregisterFns>>
solanaVars == <<rpcVars, walletVars, listVars>>

Unused   == [feature |-> None, inputs |-> 0, done |-> 0, call |-> None, state |-> "unused"]

WalletTypeOK ==
  /\ TypeOK
  /\ op \in [Ops -> [feature : Features \cup {None}, inputs : 0..MaxInputs, done : Nat,
                     call : Calls \cup {None},
                     state : {"unused", "waiting", "resolved", "rejected"}]]
  /\ accounts \in Addresses \cup {None}
  /\ sent \in [Ops -> 0..MaxInputs]
  /\ registered \in BOOLEAN
  /\ listening \in BOOLEAN
  /\ ready \in SUBSET Apps
  /\ listed \in SUBSET Apps
  /\ unregisterFns \in SUBSET Apps

SolanaInit ==
  /\ RpcInit
  /\ op = [o \in Ops |-> Unused]
  /\ accounts = None
  /\ sent = [o \in Ops |-> 0]
  /\ registered = FALSE
  /\ listening = FALSE
  /\ ready = {}
  /\ listed = {}
  /\ unregisterFns = {}

-----------------------------------------------------------------------------
(* Features of the standard wallet. *)

Wire(feature) ==
  CASE feature = "connect"         -> "solana.getAccountAddress"
    [] feature = "signMessage"     -> "solana.signMessage"
    [] feature = "signTransaction" -> "solana.signTransaction"
    [] feature = "signIn"          -> "solana.signIn"
    [] feature = "signAndSend"     -> "solana.signAndSendTransaction"

ASSUME WiresAssumption == \A f \in Features : Wire(f) \in Methods

\* Features that make one call per input, one after the other.
PerInput(feature) == feature \in {"signIn", "signAndSend"}

\* signAndSendTransaction without inputs makes no call; signIn makes one.
StartFeature(o, feature, n) ==
  /\ op[o] = Unused
  /\ feature = "connect" => n = 0
  /\ feature = "signAndSend" => n > 0
  /\ \E id \in Calls :
       /\ request(id, Wire(feature))
       /\ op' = [op EXCEPT ![o] = [feature |-> feature, inputs |-> n, done |-> 0,
                                   call |-> id, state |-> "waiting"]]
  /\ UNCHANGED <<accounts, sent, listVars>>

\* An input that cannot be decoded, the first one or any of a signTransaction:
\* nothing is called.
Malformed(o, feature, n) ==
  /\ proxy # "creating"
  /\ op[o] = Unused
  /\ n > 0 /\ feature \in {"signTransaction", "signIn", "signAndSend"}
  /\ op' = [op EXCEPT ![o] = [feature |-> feature, inputs |-> n, done |-> 0,
                              call |-> None, state |-> "rejected"]]
  /\ UNCHANGED <<rpcVars, accounts, sent, listVars>>

Disconnect ==
  /\ proxy # "creating"
  /\ accounts' = None
  /\ UNCHANGED <<rpcVars, op, sent, listVars>>

Close(o, state) == op' = [op EXCEPT ![o].state = state, ![o].call = None]

Waits(o) == op[o].state = "waiting"

\* The awaited call was rejected; what earlier inputs did stays done.
Fail(o) ==
  /\ Waits(o)
  /\ promise[op[o].call] = "rejected"
  /\ Close(o, "rejected")
  /\ UNCHANGED <<rpcVars, accounts, sent, listVars>>

\* Outside src/: the provider the wallet registered signs and sends a transaction
\* once in a handler, before it answers with the signature.
Sending(o) == Waits(o) /\ op[o].feature = "signAndSend"
Broadcast(o) ==
  /\ Sending(o)
  /\ op[o].call \in running
  /\ sent[o] = op[o].done
  /\ sent' = [sent EXCEPT ![o] = @ + 1]
  /\ UNCHANGED <<rpcVars, op, accounts, listVars>>

\* A handler that ends with a success has sent; one that fails may have.
HandlerEnds(id) ==
  /\ Finish(id)
  /\ toHost' = Append(toHost, Response(id, TRUE)) =>
       \A o \in Ops : Sending(o) /\ op[o].call = id => sent[o] > op[o].done
  /\ UNCHANGED <<walletVars, listVars>>

\* The state changes of an accepted answer: connect and signIn set the account.
Accept(o) == IF op[o].feature \in {"connect", "signIn"}
             THEN accounts' \in Addresses
             ELSE UNCHANGED accounts

Last(o) == ~PerInput(op[o].feature) \/ op[o].done + 1 >= op[o].inputs

\* An answer the adapter refuses: an address that is not 32 bytes, as many
\* signatures as there are not inputs, or a signature that cannot be decoded;
\* signIn has set the account by then.  The wallet may have sent the input.
Refuse(o) ==
  /\ Waits(o)
  /\ promise[op[o].call] = "resolved"
  /\ \/ UNCHANGED accounts
     \/ op[o].feature = "signIn" /\ Accept(o)
  /\ Close(o, "rejected")
  /\ UNCHANGED <<rpcVars, sent, listVars>>

\* Fault: a per-input feature returns after the first answer.
CompleteEarly(o) ==
  /\ Waits(o)
  /\ promise[op[o].call] = "resolved"
  /\ Accept(o)
  /\ op' = [op EXCEPT ![o].state = "resolved", ![o].call = None, ![o].done = @ + 1]
  /\ UNCHANGED <<rpcVars, sent, listVars>>

Complete(o) ==
  /\ Waits(o)
  /\ promise[op[o].call] = "resolved"
  /\ Last(o)
  /\ Accept(o)
  /\ op' = [op EXCEPT ![o].state = "resolved", ![o].call = None, ![o].done = @ + 1]
  /\ UNCHANGED <<rpcVars, sent, listVars>>

NextInput(o) ==
  /\ Waits(o)
  /\ promise[op[o].call] = "resolved"
  /\ ~Last(o)
  /\ Accept(o)
  /\ \E id \in Calls :
       /\ request(id, Wire(op[o].feature))
       /\ op' = [op EXCEPT ![o].call = id, ![o].done = @ + 1]
  /\ UNCHANGED <<sent, listVars>>

\* The answer is accepted, and the next input cannot be decoded.
NextMalformed(o) ==
  /\ Waits(o)
  /\ promise[op[o].call] = "resolved"
  /\ ~Last(o)
  /\ Accept(o)
  /\ op' = [op EXCEPT ![o].state = "rejected", ![o].call = None, ![o].done = @ + 1]
  /\ UNCHANGED <<rpcVars, sent, listVars>>

-----------------------------------------------------------------------------
(* Registration with the applications of the page. *)

\* An application's register adds the wallet once; its unregister removes it.
RegisterWith(S) == /\ listed' = listed \cup S
                   /\ unregisterFns' = unregisterFns \cup S

\* The register-wallet event reaches the applications that already listen.
registerSolanaWallet ==
  /\ proxy = "open"
  /\ ~registered
  /\ RegisterWith(ready)
  /\ listening' = TRUE
  /\ registered' = TRUE
  /\ UNCHANGED <<rpcVars, walletVars, ready>>

\* An application starts: it listens, and dispatches app-ready.
AppReady(a) ==
  /\ proxy # "creating"
  /\ a \notin ready
  /\ ready' = ready \cup {a}
  /\ IF listening THEN RegisterWith({a}) ELSE UNCHANGED <<listed, unregisterFns>>
  /\ UNCHANGED <<rpcVars, walletVars, registered, listening>>

\* unregisterSolanaWallet.
Unlist ==
  /\ listed' = listed \ unregisterFns
  /\ unregisterFns' = {}
  /\ listening' = FALSE
  /\ registered' = FALSE

unregisterSolanaWallet ==
  /\ proxy # "creating"
  /\ Unlist
  /\ UNCHANGED <<rpcVars, walletVars, ready>>

\* OWSProxy.destroy begins with SolanaHostClient.destroy.
Destroy ==
  /\ destroy
  /\ Unlist
  /\ UNCHANGED <<walletVars, ready>>

-----------------------------------------------------------------------------
\* Other parts of the page call methods that no feature uses.
OtherCall ==
  /\ \E id \in Calls, m \in Methods \ {Wire(f) : f \in Features} : request(id, m)
  /\ UNCHANGED <<walletVars, listVars>>

Transport ==
  /\ \/ Start \/ Pulse \/ HandshakeReply \/ handleCallback \/ dispatch
     \/ \E m \in Methods : Register(m)
  /\ UNCHANGED <<walletVars, listVars>>

Wallet == \/ Disconnect \/ registerSolanaWallet \/ unregisterSolanaWallet \/ Destroy
          \/ \E a \in Apps : AppReady(a)
          \/ \E o \in Ops :
               \/ Fail(o) \/ Refuse(o) \/ Complete(o) \/ NextInput(o) \/ NextMalformed(o)
               \/ \E f \in Features, n \in 0..MaxInputs :
                    StartFeature(o, f, n) \/ Malformed(o, f, n)

Handlers == (\E id \in Calls : HandlerEnds(id)) \/ (\E o \in Ops : Broadcast(o))

SolanaNext == Transport \/ OtherCall \/ Handlers \/ Wallet

\* The page's timers and message queue keep running (the handshake only).
Fairness == WF_solanaVars(Pulse /\ UNCHANGED <<walletVars, listVars>>)
            /\ WF_solanaVars(HandshakeReply /\ UNCHANGED <<walletVars, listVars>>)

SolanaSpec == SolanaInit /\ [][SolanaNext]_solanaVars /\ Fairness

-----------------------------------------------------------------------------
(* Properties. *)

\* A signAndSendTransaction that resolves has sent every input.  At any time, and
\* for good once it rejects, the wallet has sent the inputs it answered for and at
\* most one more: the inputs after the one under way are never asked for, and
\* none is asked for twice (standard-wallet.ts #signAndSendTransaction).
SentAsReported ==
  \A o \in Ops : op[o].feature = "signAndSend" =>
    /\ op[o].state = "resolved" => sent[o] = op[o].inputs
    /\ sent[o] \in {op[o].done, op[o].done + 1} /\ sent[o] <= op[o].inputs

\* Not so in the code: a signAndSendTransaction that rejects has an input that was
\* not sent.  The last one may be sent and its answer lost with the proxy, be an
\* error, or carry a signature that base58.decode refuses (standard-wallet.ts:251).
RejectedIsPartial ==
  \A o \in Ops : op[o].feature = "signAndSend" /\ op[o].state = "rejected" =>
    sent[o] < op[o].inputs
=============================================================================
