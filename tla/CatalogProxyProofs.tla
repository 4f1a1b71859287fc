-------------------------- MODULE CatalogProxyProofs --------------------------
(***************************************************************************)
(* Proofs about module CatalogProxy, for any set of hosts, any cap on the  *)
(* chain of redirects and any limits.                                      *)
(***************************************************************************)
EXTENDS CatalogProxy, TLAPS

\* TypeOK is inductive once a call under way is known to be within the cap.
WithinCap ==
    /\ pc = "receive" => requests = 0
    /\ pc = "call" => requests < MaxRequests
TypeInv   == TypeOK /\ WithinCap

\* The forwarded limit never exceeds what a body of JSON has room for: the clamp
\* of parseListParams and ExternalSearch (catalog/handler.go:47-52, 190-194).
LEMMA ForwardedLimitFits ==
  ASSUME TypeOK
  PROVE  ~(ForwardedLimit > FittingLimit)
<1>1. request.limit \in Int
  <2>1. request.limit \in LimitParams
    BY DEF TypeOK, Request
  <2> QED
    BY <2>1, LimitAssumption
<1>2. MaxCatalogLimit \in Nat /\ FittingLimit \in Nat /\ MaxCatalogLimit <= FittingLimit
  BY LimitAssumption
<1>3. Clamp(request.limit) \in Int /\ Clamp(request.limit) <= FittingLimit
  BY <1>1, <1>2 DEF Clamp
<1> QED
  BY <1>2, <1>3 DEF ForwardedLimit

\* A call that is answered or redirected stays within the cap of CheckRedirect.
LEMMA CallStep ==
  ASSUME TypeInv, Called
  PROVE  /\ request' \in Request /\ keyHosts' \subseteq Hosts
         /\ requests' \in 0..MaxRequests
         /\ MayFollow => requests' < MaxRequests
<1>1. requests < MaxRequests /\ requests \in Nat /\ MaxRequests \in Nat
  BY HopAssumption DEF TypeInv, TypeOK, WithinCap, Called
<1>2. requests' = requests + 1 /\ UNCHANGED request
  BY DEF Called
<1>3. keyHosts' \subseteq Hosts
  BY DEF TypeInv, TypeOK, Called
<1> QED
  BY <1>1, <1>2, <1>3 DEF TypeInv, TypeOK, MayFollow

LEMMA AnswerTypes ==
  ASSUME NEW status \in Statuses \cup {0, 400, 404, 413, 502, 503}, NEW body \in Bodies,
         Answer(status, body)
  PROVE  pc' = "done" /\ answer' \in Answers
BY DEF Answer, Answers

\* What the plugin answers of its own accord is well typed.
LEMMA OwnAnswers ==
  ASSUME NEW status \in {200, 400, 404, 413, 502, 503}, Answer(status, "whole")
  PROVE  pc' = "done" /\ answer' \in Answers
<1>1. status \in Statuses \cup {0, 400, 404, 413, 502, 503} /\ "whole" \in Bodies
  BY DEF Statuses, Bodies
<1> QED
  BY <1>1, AnswerTypes

LEMMA TypeInit == Init => TypeInv
<1> SUFFICES ASSUME Init PROVE TypeInv
  OBVIOUS
<1>1. NoReply \in Replies /\ NoReply \in Answers
  BY DEF NoReply, Bodies, Replies, Answers
<1> QED
  BY <1>1, HostAssumption, HopAssumption DEF Init, TypeInv, TypeOK, WithinCap

LEMMA TypeStep == TypeInv /\ [Next]_vars => TypeInv'
<1> SUFFICES ASSUME TypeInv, [Next]_vars PROVE TypeInv'
  OBVIOUS
<1>0. TypeOK /\ WithinCap
  BY DEF TypeInv
<1> SUFFICES TypeOK' /\ WithinCap'
  BY DEF TypeInv
<1>1. CASE Receive
  <2>1. CASE request.flaw = ""
    <3>1. pc' = "call" /\ answer' = answer /\ requests = 0
      BY <1>0, <1>1, <2>1 DEF Receive, WithinCap
    <3>2. UNCHANGED <<request, host, keyed, requests, keyHosts, reply, healthy>>
      BY <1>1 DEF Receive
    <3>3. requests' = 0 /\ 0 < MaxRequests
      BY <3>1, <3>2, HopAssumption
    <3> QED
      BY <1>0, <3>1, <3>2, <3>3 DEF TypeOK, WithinCap
  <2>2. CASE request.flaw # ""
    <3>1. request.flaw \in Flaws \ {""}
      BY <1>0, <2>2 DEF TypeOK, Request
    <3>2. Refusal[request.flaw] \in {200, 400, 404, 413, 502, 503}
      <4>1. CASE request.flaw = "notReady"
        BY <3>1, <4>1 DEF Refusal
      <4>2. CASE request.flaw = "tooLarge"
        BY <3>1, <4>2 DEF Refusal
      <4>3. CASE request.flaw = "noClient"
        BY <3>1, <4>3 DEF Refusal
      <4>4. CASE request.flaw \notin {"notReady", "tooLarge", "noClient"}
        BY <3>1, <4>4 DEF Refusal
      <4> QED
        BY <4>1, <4>2, <4>3, <4>4
    <3>3. Answer(Refusal[request.flaw], "whole")
      BY <1>1, <2>2 DEF Receive
    <3>4. pc' = "done" /\ answer' \in Answers
      BY <3>2, <3>3, OwnAnswers
    <3>5. UNCHANGED <<request, host, keyed, requests, keyHosts, reply, healthy>>
      BY <1>1 DEF Receive
    <3> QED
      BY <1>0, <3>4, <3>5 DEF TypeOK, WithinCap
  <2> QED
    BY <2>1, <2>2
<1>2. CASE FollowRedirect \/ ServeProperly \/ ServeBadly \/ CallFails
  <2>1. Called
    BY <1>2 DEF FollowRedirect, ServeProperly, ServeBadly, CallFails
  <2>2. /\ request' \in Request /\ keyHosts' \subseteq Hosts
        /\ requests' \in 0..MaxRequests
        /\ MayFollow => requests' < MaxRequests
    BY <2>1, CallStep
  <2>3. CASE FollowRedirect
    <3>1. pc' = "call" /\ host' \in Hosts
      BY <2>1, <2>3 DEF FollowRedirect, Called
    <3>2. keyed' \in BOOLEAN
      BY <2>3 DEF FollowRedirect, KeyGoesTo
    <3> QED
      BY <1>0, <2>2, <2>3, <3>1, <3>2 DEF FollowRedirect, TypeOK, WithinCap
  <2>4. CASE ServeProperly
    <3>1. reply' \in Replies
      BY <2>4 DEF ServeProperly, Reply, Replies, Statuses, Bodies
    <3> QED
      BY <1>0, <2>2, <2>4, <3>1 DEF ServeProperly, Reply, TypeOK, WithinCap
  <2>5. CASE ServeBadly
    <3>1. reply' \in Replies
      BY <2>5 DEF ServeBadly, Reply, Replies
    <3> QED
      BY <1>0, <2>2, <2>5, <3>1 DEF ServeBadly, Reply, TypeOK, WithinCap
  <2>6. CASE CallFails
    <3>1. pc' = "done" /\ answer' \in Answers
      BY <2>6, OwnAnswers DEF CallFails
    <3> QED
      BY <1>0, <2>2, <2>6, <3>1 DEF CallFails, TypeOK, WithinCap
  <2> QED
    BY <1>2, <2>3, <2>4, <2>5, <2>6
<1>3. CASE ReadJSON
  <2>1. Answer(200, "whole") \/ Answer(502, "whole")
    BY <1>3 DEF ReadJSON
  <2>2. pc' = "done" /\ answer' \in Answers
    BY <2>1, OwnAnswers
  <2> QED
    BY <1>0, <1>3, <2>2 DEF ReadJSON, TypeOK, WithinCap
<1>4. CASE RelayStream
  <2>1. reply.status \in Statuses \cup {0, 400, 404, 413, 502, 503} /\ reply.body \in Bodies
    BY <1>0 DEF TypeOK, Replies
  <2>2. Answer(reply.status, reply.body) \/ Answer(502, "whole")
    BY <1>4 DEF RelayStream
  <2>3. pc' = "done" /\ answer' \in Answers
    BY <2>1, <2>2, AnswerTypes, OwnAnswers
  <2> QED
    BY <1>0, <1>4, <2>3 DEF RelayStream, TypeOK, WithinCap
<1>5. CASE UNCHANGED vars
  BY <1>0, <1>5 DEF vars, TypeOK, WithinCap
<1> QED
  BY <1>1, <1>2, <1>3, <1>4, <1>5 DEF Next

\* Every reachable state is well typed; above all, no chain of redirects makes
\* the client call more often than the cap allows (client.go:97-100).
THEOREM CatalogTypeCorrect == Spec => []TypeOK
<1>1. TypeInv => TypeOK
  BY DEF TypeInv
<1> QED
  BY TypeInit, TypeStep, <1>1, PTL DEF Spec

-----------------------------------------------------------------------------
\* What CheckRedirect keeps true between two calls: a request that carries the
\* key is on its way home.
KeyInv == KeyStaysHome /\ (keyed => host = Home)

\* The key is shown to the configured host only, however long the chain and
\* however often it leaves and returns (client.go:97-105).
THEOREM KeyStaysHomeHolds == Spec => []KeyStaysHome
<1>1. Init => KeyInv
  BY DEF Init, KeyInv, KeyStaysHome
<1>2. KeyInv /\ [Next]_vars => KeyInv'
  <2> SUFFICES ASSUME KeyInv, [Next]_vars PROVE KeyInv'
    OBVIOUS
  <2> USE DEF KeyInv, KeyStaysHome
  <2>1. Called => KeyStaysHome'
    BY DEF Called
  <2>2. CASE FollowRedirect
    BY <2>1, <2>2 DEF FollowRedirect, KeyGoesTo
  <2>3. CASE ServeProperly \/ ServeBadly \/ CallFails
    BY <2>1, <2>3 DEF ServeProperly, ServeBadly, CallFails, Reply
  <2>4. CASE Receive \/ ReadJSON \/ RelayStream \/ UNCHANGED vars
    <3>1. UNCHANGED <<host, keyed, keyHosts>>
      BY <2>4 DEF Receive, ReadJSON, RelayStream, vars
    <3> QED
      BY <3>1
  <2> QED
    BY <2>2, <2>3, <2>4 DEF Next
<1>3. KeyInv => KeyStaysHome
  BY DEF KeyInv
<1> QED
  BY <1>1, <1>2, <1>3, PTL DEF Spec

-----------------------------------------------------------------------------
\* While a healthy upstream is being asked: a call home carries the key, which
\* KeyGoesTo gives back to a chain that returns, and so the reply is the one
\* that was asked for.
AskedWell ==
    /\ pc = "receive" => host = Home /\ keyed
    /\ pc = "call" => request.flaw = "" /\ (host = Home => keyed)
    /\ pc = "read" => request.flaw = ""
    /\ pc = "read" /\ healthy =>
          /\ reply.status = IF Streamed /\ request.ranged THEN 206 ELSE 200
          /\ reply.body = "whole"
HealthyInv == TypeInv /\ AskedWell /\ HealthyIsServed

LEMMA HealthyStep == HealthyInv /\ [Next]_vars => HealthyInv'
<1> SUFFICES ASSUME HealthyInv, [Next]_vars PROVE HealthyInv'
  OBVIOUS
<1>1. TypeInv /\ TypeInv'
  BY TypeStep DEF HealthyInv
<1>2. TypeOK
  BY <1>1 DEF TypeInv
<1> SUFFICES AskedWell' /\ HealthyIsServed'
  BY <1>1 DEF HealthyInv
<1>a. AskedWell /\ HealthyIsServed
  BY DEF HealthyInv
<1>3. CASE Receive
  <2>1. CASE request.flaw = ""
    BY <1>a, <1>3, <2>1 DEF AskedWell, HealthyIsServed, Receive
  <2>2. CASE request.flaw # ""
    BY <1>3, <2>2 DEF AskedWell, HealthyIsServed, Receive, Answer
  <2> QED
    BY <2>1, <2>2
<1>4. CASE FollowRedirect
  BY <1>a, <1>4 DEF AskedWell, HealthyIsServed, FollowRedirect, Called, KeyGoesTo
<1>5. CASE ServeProperly
  <2>1. ~(ForwardedLimit > FittingLimit)
    BY <1>2, ForwardedLimitFits
  <2>2. ~(host = Home /\ ~keyed) /\ request.flaw = ""
    BY <1>a, <1>5 DEF AskedWell, ServeProperly, Called
  <2>3. /\ reply'.status = IF Streamed /\ request.ranged THEN 206 ELSE 200
        /\ reply'.body = "whole"
    BY <1>5, <2>1, <2>2 DEF ServeProperly, Reply
  <2> QED
    BY <1>5, <2>2, <2>3 DEF AskedWell, HealthyIsServed, ServeProperly, Called, Reply, Streamed
<1>6. CASE ServeBadly \/ CallFails
  BY <1>a, <1>6 DEF AskedWell, HealthyIsServed, ServeBadly, CallFails, Called, Reply, Answer
<1>7. CASE ReadJSON
  <2>1. CASE healthy
    <3>1. reply.status = 200 /\ reply.body = "whole"
      BY <1>a, <1>7, <2>1 DEF AskedWell, ReadJSON
    <3>2. Accepted /\ Decodes
      BY <3>1 DEF Accepted, Decodes
    <3>3. Answer(200, "whole")
      BY <1>7, <3>2 DEF ReadJSON
    <3> QED
      BY <1>7, <3>3 DEF AskedWell, HealthyIsServed, ReadJSON, Answer, Streamed
  <2>2. CASE ~healthy
    BY <1>7, <2>2 DEF AskedWell, HealthyIsServed, ReadJSON, Answer
  <2> QED
    BY <2>1, <2>2
<1>8. CASE RelayStream
  <2>1. CASE healthy
    <3>1. reply.status \in {200, 206} /\ reply.body = "whole"
      BY <1>a, <1>8, <2>1 DEF AskedWell, RelayStream
    <3>2. Accepted
      BY <3>1 DEF Accepted
    <3>3. Answer(reply.status, reply.body)
      BY <1>8, <3>2 DEF RelayStream
    <3> QED
      BY <1>a, <1>8, <2>1, <3>1, <3>3 DEF AskedWell, HealthyIsServed, RelayStream, Answer, Streamed
  <2>2. CASE ~healthy
    BY <1>8, <2>2 DEF AskedWell, HealthyIsServed, RelayStream, Answer
  <2> QED
    BY <2>1, <2>2
<1>9. CASE UNCHANGED vars
  BY <1>a, <1>9 DEF AskedWell, HealthyIsServed, vars, Streamed
<1> QED
  BY <1>3, <1>4, <1>5, <1>6, <1>7, <1>8, <1>9 DEF Next

\* A healthy upstream is served whole, through any chain of redirects it sends
\* within the cap (client.go:97-105, handler.go:17-21).
THEOREM HealthyIsServedHolds == Spec => []HealthyIsServed
<1>1. Init => HealthyInv
  <2>1. Init => TypeInv
    BY TypeInit
  <2> QED
    BY <2>1 DEF Init, HealthyInv, AskedWell, HealthyIsServed
<1>2. HealthyInv => HealthyIsServed
  BY DEF HealthyInv
<1> QED
  BY <1>1, <1>2, HealthyStep, PTL DEF Spec

-----------------------------------------------------------------------------
\* An error, a cut or an unreadable body never becomes a successful answer
\* (client.go:133-146, 171-179, handler.go:56-63, 135-144).
GenuineInv == TypeInv /\ AnswerIsGenuine

LEMMA GenuineStep == GenuineInv /\ [Next]_vars => GenuineInv'
<1> SUFFICES ASSUME GenuineInv, [Next]_vars PROVE GenuineInv'
  OBVIOUS
<1>1. TypeInv /\ TypeInv'
  BY TypeStep DEF GenuineInv
<1> SUFFICES AnswerIsGenuine'
  BY <1>1 DEF GenuineInv
<1> USE DEF AnswerIsGenuine
<1>2. CASE Receive
  <2>1. requests' = 0
    BY <1>1, <1>2 DEF Receive, TypeInv, WithinCap
  <2> QED
    BY <2>1
<1>3. CASE FollowRedirect \/ ServeProperly \/ ServeBadly
  BY <1>3 DEF FollowRedirect, ServeProperly, ServeBadly, Called, Reply
<1>4. CASE CallFails
  BY <1>4 DEF CallFails, Answer
<1>5. CASE ReadJSON
  <2>1. CASE Accepted /\ Decodes
    BY <1>5, <2>1 DEF ReadJSON, Answer, Accepted, Decodes, Streamed
  <2>2. CASE ~(Accepted /\ Decodes)
    BY <1>5, <2>2 DEF ReadJSON, Answer
  <2> QED
    BY <2>1, <2>2
<1>6. CASE RelayStream
  <2>1. CASE Accepted
    <3>1. reply = [status |-> reply.status, body |-> reply.body]
      BY <1>1 DEF TypeInv, TypeOK, Replies
    <3>2. reply.status < 400 \/ reply.status = 416
      BY <2>1 DEF Accepted
    <3>3. answer' = reply /\ reply' = reply /\ Streamed'
      BY <1>6, <2>1, <3>1 DEF RelayStream, Answer, Streamed
    <3> QED
      BY <3>2, <3>3
  <2>2. CASE ~Accepted
    BY <1>6, <2>2 DEF RelayStream, Answer
  <2> QED
    BY <2>1, <2>2
<1>7. CASE UNCHANGED vars
  BY <1>1, <1>7 DEF GenuineInv, vars, Streamed
<1> QED
  BY <1>2, <1>3, <1>4, <1>5, <1>6, <1>7 DEF Next

THEOREM AnswerIsGenuineHolds == Spec => []AnswerIsGenuine
<1>1. Init => GenuineInv
  <2>1. Init => TypeInv
    BY TypeInit
  <2> QED
    BY <2>1 DEF Init, GenuineInv, AnswerIsGenuine
<1>2. GenuineInv => AnswerIsGenuine
  BY DEF GenuineInv
<1> QED
  BY <1>1, <1>2, GenuineStep, PTL DEF Spec
=============================================================================
