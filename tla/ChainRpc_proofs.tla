---------------------------- MODULE ChainRpc_proofs ----------------------------
(***************************************************************************)
(* The chain a dapp follows, the chain a transaction is made for and the   *)
(* display sessions of requests, for every number of switches and requests *)
(* and every set of chains.  DappFollows is not inductive: while messages  *)
(* are on their way, it is the last of them that tells the active chain.   *)
(* OneChainWhileStill needs that the chain shown is still the active one,  *)
(* and that only transactions are prepared and sent.                       *)
(***************************************************************************)
EXTENDS ChainRpc, SequenceTheorems, TLAPS

\* What is known of a request, and its type.
Request == [stage : Stages, kind : Kinds \cup {None}, named : Chains \cup {None},
            shown : Chains \cup {None}, signed : Chains \cup {None},
            used : SUBSET Chains, still : BOOLEAN]

\* The last message on its way tells the active chain, or the dapp knows it.
LastIsCurrent ==
  /\ ~listening => known = None
  /\ ~missed => IF toHost = <<>> THEN known \in {None, currentChainId}
                ELSE toHost[Len(toHost)].chain = currentChainId

\* A switch that waits for consent is to a chain with a provider.
AskedIsConfigured ==
  \A s \in Switches : switch[s].stage = "asked" => switch[s].chainId \in Configured

\* What a request has learned of the active chain.
ShownIsCurrent(r) ==
  /\ req[r].stage = "unused" => req[r].signed = None /\ req[r].used = {}
  /\ req[r].stage \in {"preparing", "sending"} => req[r].kind = "transaction"
  /\ req[r].kind # "transaction" => req[r].signed = None /\ req[r].used = {}
  /\ /\ req[r].kind = "transaction" /\ req[r].still
     /\ req[r].stage \notin {"unused", "resolved", "rejected"}
     => req[r].shown = currentChainId

IInv == /\ TypeOK
        /\ LastIsCurrent
        /\ AskedIsConfigured
        /\ \A r \in Requests : ShownIsCurrent(r)
        /\ OneChainWhileStill
        /\ SessionsOfRequestsUnderWay

RequestInv == /\ \A r \in Requests : ShownIsCurrent(r)
              /\ OneChainWhileStill
              /\ SessionsOfRequestsUnderWay

-----------------------------------------------------------------------------
(* Lemmas about the queue to the host page and the switch. *)

\* An appended message is the last one.
LEMMA AppendLast ==
  ASSUME NEW S, NEW q \in Seq(S), NEW e \in S
  PROVE  /\ Append(q, e) \in Seq(S) /\ Append(q, e) # <<>>
         /\ Append(q, e)[Len(Append(q, e))] = e
         /\ q \o <<e>> = Append(q, e)
  OBVIOUS

\* Delivering the first message leaves the last one, unless it was the last.
LEMMA TailLast ==
  ASSUME NEW S, NEW q \in Seq(S), q # <<>>
  PROVE  /\ Tail(q) \in Seq(S) /\ Head(q) \in S
         /\ Tail(q) # <<>> => Tail(q)[Len(Tail(q))] = q[Len(q)]
         /\ Tail(q) = <<>> => Head(q) = q[Len(q)]
<1>1. /\ Tail(q) \in Seq(S) /\ Head(q) \in S
      /\ Len(Tail(q)) = Len(q) - 1
      /\ \A i \in 1..Len(Tail(q)) : Tail(q)[i] = q[i + 1]
  BY HeadTailProperties
<1>2. Len(q) \in Nat \ {0} /\ (Tail(q) # <<>> => Len(Tail(q)) \in Nat \ {0})
  BY <1>1, EmptySeq
<1>3. ASSUME Tail(q) # <<>>
      PROVE  Tail(q)[Len(Tail(q))] = q[Len(q)]
  BY <1>1, <1>2, <1>3
<1>4. ASSUME Tail(q) = <<>>
      PROVE  Head(q) = q[Len(q)]
  <2>1. Len(q) = 1
    <3>1. Len(Tail(q)) = 0
      BY <1>4, EmptySeq
    <3>2. Len(Tail(q)) = Len(q) - 1
      BY <1>1
    <3>3. Len(q) \in Nat
      BY <1>2
    <3> QED
      BY <3>1, <3>2, <3>3
  <2>2. Head(q) = q[1]
    BY <2>1, SubSeqFull, HeadTailOfSubSeq
  <2> QED
    BY <2>1, <2>2
<1> QED
  BY <1>1, <1>3, <1>4

\* A switch tells whoever listens, and what is under way stands still no more
\* (rpc-helper.ts switchChain).
LEMMA SwitchedKeeps ==
  ASSUME IInv, NEW c \in Configured, Switched(c),
         UNCHANGED <<subscribed, listening, known, held>>
  PROVE  /\ currentChainId' \in Configured /\ missed' \in BOOLEAN /\ toHost' \in Seq(Message)
         /\ LastIsCurrent'
         /\ req' \in [Requests -> Request]
         /\ RequestInv'
<1> USE DEF IInv
<1>1. CASE c = currentChainId
  BY <1>1 DEF Switched, TypeOK, Request, LastIsCurrent, RequestInv, ShownIsCurrent,
     OneChainWhileStill, SessionsOfRequestsUnderWay
<1>2. CASE c # currentChainId
  <2> DEFINE e == [kind |-> "chainChanged", chain |-> c]
  <2>1. e \in Message /\ e.chain = c
    BY ChainsAssumption DEF Message
  <2>2. /\ currentChainId' = c
        /\ toHost' = IF subscribed THEN Append(toHost, e) ELSE toHost
        /\ missed' = (missed \/ ~subscribed)
        /\ req' = Unsettled
    <3>1. toHost \in Seq(Message)
      BY DEF TypeOK
    <3>2. toHost \o <<e>> = Append(toHost, e) /\ toHost \o <<>> = toHost
      BY <2>1, <3>1
    <3> QED
      BY <1>2, <3>2 DEF Switched, Emitted
  <2>3. currentChainId' \in Configured /\ missed' \in BOOLEAN /\ toHost' \in Seq(Message)
    BY <2>1, <2>2 DEF TypeOK
  <2>4. LastIsCurrent'
    <3>1. CASE subscribed
      <4>1. toHost' # <<>> /\ toHost'[Len(toHost')] = e
        BY <2>1, <2>2, <3>1, AppendLast DEF TypeOK
      <4> QED
        BY <2>1, <2>2, <4>1 DEF LastIsCurrent
    <3>2. CASE ~subscribed
      BY <2>2, <3>2 DEF LastIsCurrent
    <3> QED
      BY <3>1, <3>2
  <2>5. /\ req' \in [Requests -> Request]
        /\ \A r \in Requests :
             /\ req'[r].stage = req[r].stage /\ req'[r].kind = req[r].kind
             /\ req'[r].shown = req[r].shown /\ req'[r].signed = req[r].signed
             /\ req'[r].used = req[r].used
             /\ req'[r].still => /\ req[r].still
                                 /\ req[r].stage \in {"unused", "resolved", "rejected"}
    <3>1. req \in [Requests -> Request]
      BY DEF TypeOK, Request
    <3>2. \A r \in Requests :
            req'[r] = IF req[r].stage = "unused" \/ Settled(r)
                      THEN req[r] ELSE [req[r] EXCEPT !.still = FALSE]
      BY <2>2 DEF Unsettled
    <3>3. req' = [r \in Requests |-> req'[r]]
      BY <2>2 DEF Unsettled
    <3>4. ASSUME NEW r \in Requests
          PROVE  /\ req'[r] \in Request
                 /\ req'[r].stage = req[r].stage /\ req'[r].kind = req[r].kind
                 /\ req'[r].shown = req[r].shown /\ req'[r].signed = req[r].signed
                 /\ req'[r].used = req[r].used
                 /\ req'[r].still => /\ req[r].still
                                     /\ req[r].stage \in {"unused", "resolved", "rejected"}
      BY <3>1, <3>2 DEF Request, Settled
    <3> QED
      BY <3>3, <3>4
  <2>6. RequestInv'
    BY <2>5 DEF RequestInv, ShownIsCurrent, OneChainWhileStill, SessionsOfRequestsUnderWay
  <2> QED
    BY <2>3, <2>4, <2>5, <2>6
<1> QED
  BY <1>1, <1>2

-----------------------------------------------------------------------------
(* The invariant is inductive. *)

LEMMA InitInv == ASSUME Init PROVE IInv
<1>1. TypeOK
  <2>1. toHost \in Seq(Message)
    BY EmptySeq DEF Init
  <2>2. NoSwitch \in [stage : {"unused", "asked", "switched", "refused", "failed"},
                      chainId : Chains \cup {None}]
    BY DEF NoSwitch
  <2>3. NoRequest \in Request
    BY DEF NoRequest, Request, Stages
  <2> QED
    BY <2>1, <2>2, <2>3, DefaultAssumption DEF Init, TypeOK, Request
<1>2. LastIsCurrent
  BY DEF Init, LastIsCurrent
<1>3. RequestInv /\ AskedIsConfigured
  BY DEF Init, NoRequest, NoSwitch, AskedIsConfigured, RequestInv, ShownIsCurrent, OneChainWhileStill,
     SessionsOfRequestsUnderWay
<1> QED
  BY <1>1, <1>2, <1>3 DEF IInv, RequestInv

\* A call of switchChain that leaves the chain alone or makes the switch.
LEMMA SwitchEffect ==
  ASSUME IInv, NEW s \in Switches, NEW stage \in {"asked", "switched", "refused", "failed"},
         NEW c \in Chains \cup {None}, stage = "asked" => c \in Configured,
         switch' = [switch EXCEPT ![s] = [stage |-> stage, chainId |-> c]],
         UNCHANGED <<subscribed, listening, known, held>>,
         \/ UNCHANGED <<currentChainId, missed, toHost, req>>
         \/ c \in Configured /\ Switched(c)
  PROVE  IInv'
<1>1. /\ switch' \in [Switches -> [stage : {"unused", "asked", "switched", "refused", "failed"},
                                   chainId : Chains \cup {None}]]
      /\ AskedIsConfigured'
  BY DEF IInv, TypeOK, AskedIsConfigured
<1>2. CASE UNCHANGED <<currentChainId, missed, toHost, req>>
  BY <1>1, <1>2 DEF IInv, TypeOK, LastIsCurrent, ShownIsCurrent, OneChainWhileStill,
     SessionsOfRequestsUnderWay
<1>3. CASE c \in Configured /\ Switched(c)
  <2>1. /\ currentChainId' \in Configured /\ missed' \in BOOLEAN /\ toHost' \in Seq(Message)
        /\ LastIsCurrent' /\ req' \in [Requests -> Request] /\ RequestInv'
    BY <1>3, SwitchedKeeps
  <2> QED
    BY <1>1, <2>1 DEF IInv, TypeOK, Request, RequestInv
<1> QED
  BY <1>2, <1>3

\* switchChain and the end of its consent; the chain of a switch that waits for
\* consent has a provider.
LEMMA SwitchStep ==
  ASSUME IInv, NEW s \in Switches,
         BeforeSwitch(s) \/ \E c \in Chains : switchChain(s, c)
  PROVE  IInv'
<1>1. ASSUME NEW c \in Chains, switchChain(s, c)
      PROVE  IInv'
  <2>1. PICK stage \in {"asked", "switched", "failed"} :
          /\ switch' = [switch EXCEPT ![s] = [stage |-> stage, chainId |-> c]]
          /\ stage = "asked" => c \in Configured
          /\ \/ UNCHANGED <<currentChainId, missed, toHost, req>>
             \/ c \in Configured /\ Switched(c)
    BY <1>1 DEF switchChain
  <2> QED
    BY <1>1, <2>1, SwitchEffect DEF switchChain
<1>2. ASSUME BeforeSwitch(s)
      PROVE  IInv'
  <2> DEFINE c == switch[s].chainId
  <2>1. /\ switch[s].stage = "asked"
        /\ switch[s] \in [stage : {"unused", "asked", "switched", "refused", "failed"},
                          chainId : Chains \cup {None}]
        /\ c \in Configured
    BY <1>2 DEF BeforeSwitch, IInv, TypeOK, AskedIsConfigured
  <2>2. PICK stage \in {"switched", "refused", "failed"} :
          /\ switch' = [switch EXCEPT ![s].stage = stage]
          /\ \/ UNCHANGED <<currentChainId, missed, toHost, req>>
             \/ Switched(c)
    BY <1>2 DEF BeforeSwitch
  <2>3. switch' = [switch EXCEPT ![s] = [stage |-> stage, chainId |-> c]]
    <3>1. [switch[s] EXCEPT !.stage = stage] = [stage |-> stage, chainId |-> c]
      BY <2>1
    <3> QED
      BY <2>2, <3>1
  <2> QED
    BY <1>2, <2>1, <2>2, <2>3, SwitchEffect DEF BeforeSwitch
<1> QED
  BY <1>1, <1>2

\* Everything the requests do leaves the chain, the queue and the switches alone.
LEMMA HostPageStep ==
  ASSUME IInv, HostPage \/ Subscribe
  PROVE  IInv'
<1>1. UNCHANGED <<currentChainId, missed, switch, req, held>>
  BY DEF HostPage, Subscribe, Listen, removeListener, Deliver, ReadChainId, chainVars
<1>2. RequestInv' /\ AskedIsConfigured'
  BY <1>1 DEF IInv, AskedIsConfigured, RequestInv, ShownIsCurrent, OneChainWhileStill, SessionsOfRequestsUnderWay
<1>3. CASE Subscribe
  <2>1. TypeOK' /\ LastIsCurrent'
    BY <1>1, <1>3 DEF IInv, TypeOK, LastIsCurrent, Subscribe, hostVars
  <2> QED
    BY <1>2, <2>1 DEF IInv, RequestInv
<1>4. CASE Listen \/ removeListener
  <2>1. TypeOK' /\ LastIsCurrent'
    BY <1>1, <1>4 DEF IInv, TypeOK, LastIsCurrent, Listen, removeListener, chainVars
  <2> QED
    BY <1>2, <2>1 DEF IInv, RequestInv
<1>5. CASE Deliver
  <2>1. /\ toHost \in Seq(Message) /\ toHost # <<>> /\ toHost' = Tail(toHost)
        /\ known' = IF listening THEN Head(toHost).chain ELSE known
        /\ UNCHANGED <<subscribed, listening>>
    BY <1>5 DEF Deliver, IInv, TypeOK, chainVars
  <2>2. TypeOK'
    <3>1. toHost' \in Seq(Message) /\ Head(toHost) \in Message
      BY <2>1, TailLast
    <3>2. known' \in Chains \cup {None}
      BY <2>1, <3>1 DEF IInv, TypeOK, Message
    <3> QED
      BY <1>1, <2>1, <3>1, <3>2 DEF IInv, TypeOK
  <2>3. LastIsCurrent'
    BY <1>1, <2>1, TailLast DEF IInv, LastIsCurrent
  <2> QED
    BY <1>2, <2>2, <2>3 DEF IInv, RequestInv
<1>6. CASE ReadChainId
  <2> DEFINE e == [kind |-> "chainId", chain |-> currentChainId]
  <2>1. e \in Message
    BY ChainsAssumption DEF IInv, TypeOK, Message
  <2>2. toHost' = Append(toHost, e) /\ UNCHANGED <<subscribed, listening, known>>
    BY <1>6 DEF ReadChainId, chainVars
  <2>3. TypeOK'
    BY <1>1, <2>1, <2>2 DEF IInv, TypeOK
  <2>4. LastIsCurrent'
    <3>1. toHost' # <<>> /\ toHost'[Len(toHost')] = e
      BY <2>1, <2>2, AppendLast DEF IInv, TypeOK
    <3> QED
      BY <1>1, <2>2, <3>1 DEF IInv, LastIsCurrent
  <2> QED
    BY <1>2, <2>3, <2>4 DEF IInv, RequestInv
<1> QED
  BY <1>3, <1>4, <1>5, <1>6 DEF HostPage

\* A step of a request that keeps what it knows of the chain, or learns the
\* active one, and that holds its display session while it is under way.
LEMMA RequestKeeps ==
  ASSUME IInv, NEW r \in Requests, NEW q \in Request, requestVars' = requestVars,
         req' = [req EXCEPT ![r] = q],
         held' = IF q.stage \in Stages \ {"unused", "display", "resolved", "rejected"}
                 THEN held \cup {r} ELSE held \ {r},
         q.stage \in {"preparing", "sending"} => q.kind = "transaction",
         q.stage # "unused",
         q.kind # "transaction" => q.signed = None /\ q.used = {},
         q.still => /\ q.signed \in {None, q.shown} /\ q.used \subseteq {q.shown},
         /\ q.kind = "transaction" /\ q.still /\ q.stage \notin {"resolved", "rejected"}
         => q.shown = currentChainId
  PROVE  IInv'
<1>1. UNCHANGED <<currentChainId, subscribed, missed, toHost, listening, known, switch>>
  BY DEF requestVars, chainVars, hostVars
<1>2. /\ req' \in [Requests -> Request] /\ req'[r] = q
      /\ \A x \in Requests \ {r} : req'[x] = req[x]
  BY DEF IInv, TypeOK, Request
<1>3. TypeOK'
  BY <1>1, <1>2 DEF IInv, TypeOK, Request
<1>4. LastIsCurrent' /\ AskedIsConfigured'
  BY <1>1 DEF IInv, LastIsCurrent, AskedIsConfigured
<1>5. (\A x \in Requests : ShownIsCurrent(x))'
  BY <1>1, <1>2 DEF IInv, ShownIsCurrent
<1>6. OneChainWhileStill'
  BY <1>2 DEF IInv, OneChainWhileStill
<1>7. SessionsOfRequestsUnderWay'
  BY <1>2 DEF IInv, TypeOK, SessionsOfRequestsUnderWay
<1> QED
  BY <1>3, <1>4, <1>5, <1>6, <1>7 DEF IInv

\* A step of a request under way to another stage, on its kind's way.
LEMMA StageKeeps ==
  ASSUME IInv, NEW r \in Requests, NEW stage \in Stages \ {"unused"},
         req[r].stage \notin {"unused", "resolved", "rejected"},
         stage \in {"preparing", "sending"} => req[r].kind = "transaction",
         req' = [req EXCEPT ![r].stage = stage], requestVars' = requestVars,
         held' = IF stage \in {"display", "resolved", "rejected"} THEN held \ {r} ELSE held \cup {r}
  PROVE  IInv'
<1> DEFINE p == req[r]
           q == [p EXCEPT !.stage = stage]
<1>1. /\ p \in Request /\ ShownIsCurrent(r)
      /\ p.still => p.signed \in {None, p.shown} /\ p.used \subseteq {p.shown}
  BY DEF IInv, TypeOK, Request, OneChainWhileStill
<1>2. /\ q \in Request /\ q.stage = stage /\ q.kind = p.kind /\ q.shown = p.shown
      /\ q.signed = p.signed /\ q.used = p.used /\ q.still = p.still
  BY <1>1 DEF Request
<1>3. /\ q.stage \in {"preparing", "sending"} => q.kind = "transaction"
      /\ q.stage # "unused"
      /\ q.kind # "transaction" => q.signed = None /\ q.used = {}
      /\ q.still => /\ q.signed \in {None, q.shown} /\ q.used \subseteq {q.shown}
      /\ /\ q.kind = "transaction" /\ q.still /\ q.stage \notin {"resolved", "rejected"}
         => q.shown = currentChainId
  BY <1>1, <1>2 DEF ShownIsCurrent
<1>4. held' = IF q.stage \in Stages \ {"unused", "display", "resolved", "rejected"}
              THEN held \cup {r} ELSE held \ {r}
  BY <1>2
<1> QED
  BY <1>2, <1>3, <1>4, RequestKeeps

\* A transaction under way learns something on the active chain.
LEMMA LearnKeeps ==
  ASSUME IInv, NEW r \in Requests, NEW q \in Request,
         req[r].stage \notin {"unused", "display", "resolved", "rejected"},
         req[r].kind = "transaction", q.kind = "transaction",
         q.stage \in {"preparing", "sending"},
         q.shown = req[r].shown, q.still = req[r].still,
         q.signed \in {req[r].signed, currentChainId},
         q.used \subseteq req[r].used \cup {currentChainId},
         req' = [req EXCEPT ![r] = q], requestVars' = requestVars, held' = held
  PROVE  IInv'
<1> DEFINE p == req[r]
<1>1. /\ ShownIsCurrent(r)
      /\ p.still => p.signed \in {None, p.shown} /\ p.used \subseteq {p.shown}
      /\ r \in held
  BY DEF IInv, TypeOK, OneChainWhileStill, SessionsOfRequestsUnderWay
<1>2. q.still => q.shown = currentChainId
  BY <1>1 DEF ShownIsCurrent
<1>3. q.still => /\ q.signed \in {None, q.shown} /\ q.used \subseteq {q.shown}
  BY <1>1, <1>2
<1>4. held' = IF q.stage \in Stages \ {"unused", "display", "resolved", "rejected"}
              THEN held \cup {r} ELSE held \ {r}
  BY <1>1 DEF Stages
<1> QED
  BY <1>2, <1>3, <1>4, RequestKeeps

\* Each step of a request.
LEMMA SigningStep ==
  ASSUME IInv, NEW r \in Requests, Signing(r)
  PROVE  IInv'
<1> DEFINE p == req[r]
<1>1. /\ p \in Request /\ ShownIsCurrent(r) /\ req \in [Requests -> Request]
      /\ p.still => p.signed \in {None, p.shown} /\ p.used \subseteq {p.shown}
      /\ r \in held <=> p.stage \in Stages \ {"unused", "display", "resolved", "rejected"}
      /\ currentChainId \in Chains
  BY ChainsAssumption DEF IInv, TypeOK, Request, OneChainWhileStill, SessionsOfRequestsUnderWay
<1>2. CASE SignMessage(r)
  <2> DEFINE q == [p EXCEPT !.stage = "display", !.kind = "message"]
  <2>1. /\ q \in Request /\ q.stage = "display" /\ q.kind = "message"
        /\ q.signed = None /\ q.used = {}
    BY <1>1, <1>2 DEF SignMessage, At, Request, Stages, Kinds, ShownIsCurrent
  <2>2. req' = [req EXCEPT ![r] = q] /\ held' = held \ {r} /\ requestVars' = requestVars
    BY <1>1, <1>2 DEF SignMessage, At
  <2> QED
    BY <2>1, <2>2, RequestKeeps
<1>3. ASSUME NEW named \in Chains \cup {None}, SendTransaction(r, named)
      PROVE  IInv'
  <2> DEFINE begun == [NoRequest EXCEPT !.kind = "transaction", !.named = named]
             q == IF named \in {None, currentChainId}
                  THEN [begun EXCEPT !.stage = "display", !.shown = currentChainId]
                  ELSE [begun EXCEPT !.stage = "rejected"]
  <2>1. /\ q \in Request /\ q.stage \in {"display", "rejected"} /\ q.kind = "transaction"
        /\ q.signed = None /\ q.used = {}
        /\ q.stage = "display" => q.shown = currentChainId
    BY <1>1 DEF NoRequest, Request, Stages, Kinds
  <2>2. req' = [req EXCEPT ![r] = q] /\ held' = held \ {r} /\ requestVars' = requestVars
    BY <1>1, <1>3 DEF SendTransaction, At
  <2> QED
    BY <2>1, <2>2, RequestKeeps
<1>4. CASE Display(r)
  <2>1. \E stage \in {"ready", "rejected"} :
          /\ req' = [req EXCEPT ![r].stage = stage] /\ requestVars' = requestVars
          /\ held' = IF stage = "rejected" THEN held \ {r} ELSE held \cup {r}
    BY <1>1, <1>4 DEF Display, At, Step
  <2> QED
    BY <1>4, <2>1, StageKeeps DEF Display, At, Stages
<1>5. CASE Ready(r) \/ Sign(r) \/ Sent(r)
  <2>1. \E stage \in {"consent", "authenticated", "resolved", "rejected"} :
          /\ req' = [req EXCEPT ![r].stage = stage] /\ requestVars' = requestVars
          /\ held' = IF stage \in {"resolved", "rejected"} THEN held \ {r} ELSE held \cup {r}
    BY <1>1, <1>5 DEF Ready, Sign, Sent, At, Step, Settle, Stages
  <2> QED
    BY <1>5, <2>1, StageKeeps DEF Ready, Sign, Sent, At, Stages
<1>6. CASE Consent(r)
  <2>1. CASE Step(r, "signing") \/ Settle(r, "rejected")
    <3>1. \E stage \in {"signing", "rejected"} :
            /\ req' = [req EXCEPT ![r].stage = stage] /\ requestVars' = requestVars
            /\ held' = IF stage = "rejected" THEN held \ {r} ELSE held \cup {r}
      BY <1>1, <1>6, <2>1 DEF Consent, At, Step, Settle, Stages
    <3> QED
      BY <1>6, <3>1, StageKeeps DEF Consent, At, Stages
  <2>2. CASE /\ p.kind = "transaction"
             /\ req' = [req EXCEPT ![r].stage = "preparing", ![r].signed = currentChainId]
             /\ UNCHANGED <<held, requestVars>>
    <3> DEFINE q == [p EXCEPT !.stage = "preparing", !.signed = currentChainId]
    <3>1. /\ q \in Request /\ q.stage = "preparing" /\ q.kind = "transaction"
          /\ q.shown = p.shown /\ q.still = p.still /\ q.used = p.used
          /\ q.signed = currentChainId
      BY <1>1, <2>2 DEF Request, Stages
    <3>2. req' = [req EXCEPT ![r] = q]
      BY <2>2
    <3> QED
      BY <1>6, <2>2, <3>1, <3>2, LearnKeeps DEF Consent, At
  <2> QED
    BY <1>6, <2>1, <2>2 DEF Consent
<1>7. CASE Prepare(r) \/ Authenticated(r)
  <2>1. CASE Step(r, "signing") \/ Settle(r, "rejected") \/ Settle(r, "resolved")
    <3>1. \E stage \in {"signing", "resolved", "rejected"} :
            /\ req' = [req EXCEPT ![r].stage = stage] /\ requestVars' = requestVars
            /\ held' = IF stage \in {"resolved", "rejected"} THEN held \ {r} ELSE held \cup {r}
      BY <1>1, <1>7, <2>1 DEF Prepare, Authenticated, At, Step, Settle, Stages
    <3> QED
      BY <1>7, <3>1, StageKeeps DEF Prepare, Authenticated, At, Stages
  <2>2. ASSUME NEW stage \in {"preparing", "sending"}, p.kind = "transaction",
               req' = [req EXCEPT ![r].stage = stage, ![r].used = @ \cup {currentChainId}],
               UNCHANGED <<held, requestVars>>
        PROVE  IInv'
    <3> DEFINE q == [p EXCEPT !.stage = stage, !.used = @ \cup {currentChainId}]
    <3>1. /\ q \in Request /\ q.stage = stage /\ q.kind = "transaction"
          /\ q.shown = p.shown /\ q.still = p.still /\ q.signed = p.signed
          /\ q.used = p.used \cup {currentChainId}
      BY <1>1, <2>2 DEF Request, Stages
    <3>2. req' = [req EXCEPT ![r] = q]
      BY <2>2
    <3> QED
      BY <1>7, <2>2, <3>1, <3>2, LearnKeeps DEF Prepare, Authenticated, At
  <2>3. CASE /\ Prepare(r)
             /\ req' = [req EXCEPT ![r].used = @ \cup {currentChainId}]
             /\ UNCHANGED <<held, requestVars>>
    <3>1. p.stage = "preparing" /\ p.kind = "transaction"
      BY <1>1, <2>3 DEF Prepare, At, ShownIsCurrent
    <3>2. req' = [req EXCEPT ![r].stage = "preparing", ![r].used = @ \cup {currentChainId}]
      BY <1>1, <2>3, <3>1 DEF Request
    <3> QED
      BY <2>2, <2>3, <3>1, <3>2
  <2> QED
    BY <1>7, <2>1, <2>2, <2>3 DEF Prepare, Authenticated
<1> QED
  BY <1>2, <1>3, <1>4, <1>5, <1>6, <1>7 DEF Signing

LEMMA Inductive == Spec => []IInv
<1>1. Init => IInv
  BY InitInv
<1>2. IInv /\ [Next]_vars => IInv'
  <2> SUFFICES ASSUME IInv, [Next]_vars
               PROVE  IInv'
    OBVIOUS
  <2>1. CASE UNCHANGED vars
    BY <2>1 DEF vars, chainVars, hostVars, IInv, TypeOK, LastIsCurrent, AskedIsConfigured,
       ShownIsCurrent, OneChainWhileStill, SessionsOfRequestsUnderWay
  <2>2. CASE HostPage \/ Subscribe
    BY <2>2, HostPageStep
  <2>3. ASSUME NEW s \in Switches, BeforeSwitch(s) \/ \E c \in Chains : switchChain(s, c)
        PROVE  IInv'
    BY <2>3, SwitchStep
  <2>4. ASSUME NEW r \in Requests, Signing(r)
        PROVE  IInv'
    BY <2>4, SigningStep
  <2> QED
    BY <2>1, <2>2, <2>3, <2>4 DEF Next
<1> QED
  BY <1>1, <1>2, PTL DEF Spec

-----------------------------------------------------------------------------
\* Every variable keeps its type: the active chain always has a provider
\* (rpc-helper.ts switchChain).
THEOREM TypeCorrect == Spec => []TypeOK
<1>1. IInv => TypeOK
  BY DEF IInv
<1> QED
  BY <1>1, Inductive, PTL

\* A dapp that listens and then reads the chain follows it, however many
\* switches and reads overlap (rpc-helper.ts switchChain, EIP1193Provider.ts).
THEOREM DappCorrect == Spec => []DappFollows
<1>1. IInv => DappFollows
  BY DEF IInv, LastIsCurrent, DappFollows
<1> QED
  BY <1>1, Inductive, PTL

\* A transaction is shown, prepared, signed and broadcast for one chain as long
\* as nobody switches (sign-helper.ts prepareEvmTransaction).
THEOREM OneChainCorrect == Spec => []OneChainWhileStill
<1>1. IInv => OneChainWhileStill
  BY DEF IInv
<1> QED
  BY <1>1, Inductive, PTL

\* The display sessions held are those of the requests under way
\* (sign-helper.ts withDisplay).
THEOREM SessionsCorrect == Spec => []SessionsOfRequestsUnderWay
<1>1. IInv => SessionsOfRequestsUnderWay
  BY DEF IInv
<1> QED
  BY <1>1, Inductive, PTL
=============================================================================
