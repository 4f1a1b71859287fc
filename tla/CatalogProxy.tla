---------------------------- MODULE CatalogProxy ----------------------------
(***************************************************************************)
(* One HTTP request from the host to the catalogue routes: Handle of       *)
(* internal/httproutes, the handlers of internal/catalog, and the client   *)
(* of internal/ebookdb with the redirects it follows.  Nothing is kept     *)
(* from one request to the next, so one request at a time is all there is. *)
(*                                                                         *)
(* A body is "whole", "long" (whole, but longer than the 10 MiB the client *)
(* reads of JSON), "cut" (the connection or the 30 s of the http.Client    *)
(* ended first) or "other" (not the JSON that was asked for).              *)
(***************************************************************************)
EXTENDS Integers

CONSTANTS
    Hosts,          \* hosts a redirect may lead to
    Home,           \* the host of base_url
    MaxRequests,    \* 10: requests the client makes for one call
    LimitParams,    \* what limit may say; negative also for "not a number"
    MaxCatalogLimit,\* 100
    FittingLimit    \* with how many items a JSON body stays below 10 MiB

ASSUME HostAssumption  == Home \in Hosts
ASSUME HopAssumption   == MaxRequests \in Nat \ {0}
ASSUME LimitAssumption ==
    /\ LimitParams \subseteq Int
    /\ MaxCatalogLimit \in Nat /\ FittingLimit \in Nat
    /\ MaxCatalogLimit <= FittingLimit

VARIABLES
    request,    \* the request: route, limit, Range header, and what is wrong with it
    pc,         \* where it is
    host,       \* the host that is going to be called
    keyed,      \* whether that call carries X-API-Key
    requests,   \* how many calls were made
    keyHosts,   \* history: the hosts that were sent the key
    reply,      \* the upstream's last reply
    healthy,    \* history: the upstream did all it should
    answer      \* what the host gets

vars == <<request, pc, host, keyed, requests, keyHosts, reply, healthy, answer>>

Flaws   == {"", "notReady", "tooLarge", "badMethod", "noClient", "noQuery"}
Routes  == {"books", "external", "item", "stream"}
Request == [route : Routes, limit : LimitParams, ranged : BOOLEAN, flaw : Flaws]

Statuses == {200, 206, 302, 401, 416, 429, 500}
Bodies   == {"whole", "long", "cut", "other"}
Replies  == [status : Statuses \cup {0}, body : Bodies]
Answers  == [status : Statuses \cup {0, 400, 404, 413, 502, 503}, body : Bodies]
NoReply  == [status |-> 0, body |-> "other"]

TypeOK ==
    /\ request \in Request
    /\ pc \in {"receive", "call", "read", "done"}
    /\ host \in Hosts /\ keyed \in BOOLEAN /\ keyHosts \subseteq Hosts
    /\ requests \in 0..MaxRequests
    /\ reply \in Replies /\ answer \in Answers
    /\ healthy \in BOOLEAN

Init ==
    /\ request \in Request
    /\ request.flaw = "noQuery" => request.route = "external"
    /\ pc = "receive"
    /\ host = Home /\ keyed = TRUE /\ requests = 0 /\ keyHosts = {}
    /\ reply = NoReply /\ healthy = TRUE /\ answer = NoReply

Streamed == request.route = "stream"

Answer(status, body) ==
    /\ pc' = "done"
    /\ answer' = [status |-> status, body |-> body]

-----------------------------------------------------------------------------
(* The plugin's own checks. *)

Refusal == [flaw \in Flaws \ {""} |->
              CASE flaw = "notReady" -> 503     \* SetHandler was never called
                [] flaw = "tooLarge" -> 413
                [] flaw = "noClient" -> 404     \* routes mounted only with a provider
                [] OTHER             -> 400]

Receive ==
    /\ pc = "receive"
    /\ IF request.flaw = ""
       THEN pc' = "call" /\ UNCHANGED answer
       ELSE Answer(Refusal[request.flaw], "whole")
    /\ UNCHANGED <<request, host, keyed, requests, keyHosts, reply, healthy>>

\* Mutant of Clamp: the limit is forwarded as it came.
Unclamped(n) == n

Clamp(n) == IF n > MaxCatalogLimit THEN MaxCatalogLimit ELSE n

\* parseListParams and ExternalSearch; 0 leaves the size to the upstream.
ForwardedLimit ==
    IF request.route \in {"books", "external"} /\ request.limit > 0
    THEN Clamp(request.limit) ELSE 0

-----------------------------------------------------------------------------
(* The upstream and the client's redirects. *)

\* Every call that is made is seen by its host.
Called ==
    /\ pc = "call"
    /\ requests' = requests + 1
    /\ keyHosts' = IF keyed THEN keyHosts \cup {host} ELSE keyHosts
    /\ UNCHANGED request

\* Mutant of KeyGoesTo: the host is compared with that of the hop before.
KeyGoesWithin(from, to) == to = from

\* http.Client copies the header of the first request to every redirected
\* one; CheckRedirect deletes it where the host is not that of the first.
KeyGoesTo(from, to) == to = Home

\* Mutant of MayFollow: one redirect more.
MayFollowOneMore == requests <= MaxRequests

\* len(via) < 10, where via holds the calls made, this one included
MayFollow == requests + 1 < MaxRequests

FollowRedirect ==
    /\ Called /\ MayFollow
    /\ host' \in Hosts
    /\ keyed' = KeyGoesTo(host, host')
    /\ UNCHANGED <<pc, reply, healthy, answer>>

Reply(status, body) ==
    /\ reply' = [status |-> status, body |-> body]
    /\ pc' = "read"
    /\ UNCHANGED <<host, keyed, answer>>

\* The upstream serves what was asked for, if it is shown its key.
ServeProperly ==
    /\ Called
    /\ Reply(IF host = Home /\ ~keyed THEN 401
             ELSE IF Streamed /\ request.ranged THEN 206 ELSE 200,
             IF ~Streamed /\ ForwardedLimit > FittingLimit THEN "long" ELSE "whole")
    /\ UNCHANGED healthy

\* Anything else: an error, a body that is cut off, is too long or is not
\* JSON, or a redirect that is not followed: one too many (ErrUseLastResponse)
\* or without a Location.
ServeBadly ==
    /\ Called
    /\ \E status \in Statuses, body \in Bodies : Reply(status, body)
    /\ healthy' = FALSE

\* No reply: refused, reset, or out of time
CallFails ==
    /\ Called
    /\ Answer(502, "whole")
    /\ healthy' = FALSE
    /\ UNCHANGED <<host, keyed, reply>>

-----------------------------------------------------------------------------
(* What the plugin makes of the reply. *)

\* Mutant of Accepted: every status but 429 counts as success, as it would
\* without the second check of Get.
AcceptedUnlessLimited == reply.status # 429

\* Get and GetStreamWithRange
Accepted == reply.status < 400 \/ (Streamed /\ reply.status = 416)

Decodes == reply.body = "whole"

ReadJSON ==
    /\ pc = "read" /\ ~Streamed
    /\ IF Accepted /\ Decodes THEN Answer(200, "whole") ELSE Answer(502, "whole")
    /\ UNCHANGED <<request, host, keyed, requests, keyHosts, reply, healthy>>

\* proxyStream ignores the error of io.Copy, and Handle buffers the rest: a
\* body that was cut off goes out with the status and the headers of a whole.
RelayStream ==
    /\ pc = "read" /\ Streamed
    /\ IF Accepted THEN Answer(reply.status, reply.body) ELSE Answer(502, "whole")
    /\ UNCHANGED <<request, host, keyed, requests, keyHosts, reply, healthy>>

Next ==
    \/ Receive
    \/ FollowRedirect \/ ServeProperly \/ ServeBadly \/ CallFails
    \/ ReadJSON \/ RelayStream

Spec == Init /\ [][Next]_vars

-----------------------------------------------------------------------------
\* However a chain of redirects leaves the configured host and comes back, no
\* other host is sent the key (client.go:91-105).
KeyStaysHome == keyHosts \subseteq {Home}

\* If the upstream does all it should, the caller gets what it asked for: the
\* key is there again when a redirect leads back home, and a page is never
\* larger than what the client reads (client.go:97-105, handler.go:17-21).
HealthyIsServed ==
    pc = "done" /\ healthy /\ request.flaw = ""
        => /\ answer.status = IF Streamed /\ request.ranged THEN 206 ELSE 200
           /\ answer.body = "whole"

\* JSON answers are 200 only on the strength of a whole, readable reply that
\* was not an error, after whatever chain; a stream is relayed with the status
\* it came with, 416 included, and an error is never relayed as success
\* (client.go:133-146, 171-179, handler.go:56-63, 135-144).
AnswerIsGenuine ==
    pc = "done" /\ requests > 0 /\ answer.status # 502 =>
        /\ reply.status < 400 \/ reply.status = 416
        /\ IF Streamed THEN answer = reply
           ELSE answer.status = 200 /\ reply.body = "whole" /\ reply.status < 400
=============================================================================
