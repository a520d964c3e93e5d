---------------------------- MODULE HTTPRequests -----------------------------
(***************************************************************************)
(* One loop of an HTTP probe, for one target: runs of requests that are    *)
(* sent at the same time, share a request, its body and a token source,    *)
(* and count their responses, which validators look at, in one result.     *)
(* Callers of the token source (module Tokens) are the requests.           *)
(***************************************************************************)
EXTENDS Tokens, Validation

LOCAL INSTANCE FiniteSetsExt

CONSTANTS
  MinRead,       \* largeBodyThreshold: the transport reads that much at a time
  RqBodies,      \* lengths of the body
  RqValidators,  \* sets of validators
  RqResponses,   \* responses: name -> response
  RqTargets,     \* targets, [name, fqdn, port, ip, url]
  RqConfs,       \* [header, port, url, resolveFirst]
  RqNone,        \* no request
  MaxBatches     \* bound: runs of the loop

VARIABLES
  rqConf, rqTarget, rqVs, rqBody,  \* the probe: configuration, target, validators, length of the body
  rqReq,      \* the request made for the target, or none
  rqShared,   \* bytes that were read from the request's own body
  rqPc,       \* request: "idle", "token", "ready", "sent" or "done"
  rqSent,     \* request: bytes of the body and token that it sent
  rqRes,      \* result: total, success, timeouts and latency
  rqCodes,    \* result: respCodes
  rqFails,    \* result: validationFailure
  rqHad,      \* history: what all requests got
  rqRuns      \* runs so far

rqVars == <<rqConf, rqTarget, rqVs, rqBody, rqReq, rqShared, rqPc, rqSent, rqRes,
            rqCodes, rqFails, rqHad, rqRuns>>
rqProbe == <<rqConf, rqTarget, rqVs, rqBody>>
rqResult == <<rqRes, rqCodes, rqFails, rqHad>>

Failures == {"timeout", "error", "unread"}
Answers == DOMAIN RqResponses

-----------------------------------------------------------------------------
(* The request for a target *)

urlHostForTarget(t) == IF t.fqdn # "" THEN t.fqdn ELSE t.name

hostHeaderForTarget(t, header, port) ==
  IF header # "" THEN <<header>> ELSE <<urlHostForTarget(t), port>>

relURLForTarget(t, url) == IF url # "" THEN url ELSE t.url

\* httpRequestForTarget: resolve_first is by default what the target has an address
\* for.  A target that does not resolve has no request.
httpRequestForTarget(t, c, resolved) ==
  LET port == IF c.port # 0 THEN c.port ELSE t.port
      resolveFirst == IF c.resolveFirst = VdUnset THEN t.ip # "" ELSE c.resolveFirst
      ip == IF t.ip # "" THEN t.ip ELSE resolved
  IN IF resolveFirst /\ ip = "" THEN RqNone
     ELSE [url |-> <<IF resolveFirst THEN ip ELSE urlHostForTarget(t), port>>,
           rel |-> relURLForTarget(t, c.url),
           host |-> hostHeaderForTarget(t, c.header, port)]

\* newResult: validationFailure has a key for each validator.
RqInit ==
  /\ TkInit
  /\ rqConf \in RqConfs /\ rqTarget \in RqTargets /\ rqBody \in RqBodies
  /\ rqVs \in {vs \in RqValidators : \A v \in vs : initValidator(v)}
  /\ rqReq = RqNone /\ rqShared = 0
  /\ rqPc = [r \in TkCallers |-> "idle"]
  /\ rqSent = [r \in TkCallers |-> RqNone]
  /\ rqRes = [total |-> 0, success |-> 0, timeouts |-> 0, latency |-> 0]
  /\ rqCodes = [code \in {RqResponses[g].code : g \in Answers} |-> 0]
  /\ rqFails = [n \in {v.name : v \in rqVs} |-> 0]
  /\ rqHad = [g \in Answers \union Failures |-> 0]
  /\ rqRuns = 0

\* RequestBody.Buffered: a large body is read through a reader with a position.
Buffered == rqBody > MinRead

-----------------------------------------------------------------------------
(* A run *)

\* The loop begins a run, with a request that was made at the start or after the last
\* export; without one it skips the run.
RqRun ==
  /\ \A r \in TkCallers : rqPc[r] \in {"idle", "done"}
  /\ rqRuns < MaxBatches /\ rqRuns' = rqRuns + 1
  /\ \E resolved \in {"", "ip"} :
       rqReq' = httpRequestForTarget(rqTarget, rqConf, resolved)
  /\ rqShared' = 0
  /\ rqPc' = [r \in TkCallers |-> IF rqReq' = RqNone THEN "idle" ELSE "token"]
  /\ rqSent' = [r \in TkCallers |-> RqNone]
  /\ tkPc' = [r \in TkCallers |-> "idle"]
  /\ UNCHANGED <<rqProbe, rqResult, tkSource, tkInterval, tkNow, tkCache, tkRefresher,
                 tkFetched, tkFetches, tkTok, tkSince, tkFailed>>

\* prepareRequest asks for a token.
RqToken(r) == rqPc[r] = "token" /\ tkSource # "none" /\ TokenBegin(r) /\ UNCHANGED rqVars

\* request.go getToken: a token without access_token is an error, and the request is
\* sent with no token.
RqPrepared(r) ==
  /\ rqPc[r] = "token" /\ (tkSource = "none" \/ tkPc[r] \in {"have", "error"})
  /\ rqPc' = [rqPc EXCEPT ![r] = "ready"]
  /\ UNCHANGED <<rqProbe, rqReq, rqShared, rqSent, rqResult, rqRuns, tkVars>>

\* Mutant of OwnBody: the reader of the shared request is used.
OwnBody_Shared == FALSE

\* prepareRequest: a request with a large body gets a reader of its own.
OwnBody == Buffered

\* client.Do: the transport reads the body.  RequestBody.Read has no position: it
\* returns all that there is room for, and the end.
RqSend(r) ==
  /\ rqPc[r] = "ready" /\ rqPc' = [rqPc EXCEPT ![r] = "sent"]
  /\ LET shared == Buffered /\ ~OwnBody
         read == IF shared THEN rqBody - rqShared ELSE rqBody
     IN /\ rqSent' = [rqSent EXCEPT ![r] =
                        [body |-> read, at |-> tkNow,
                         token |-> IF tkPc[r] = "have" /\ tkTok[r].text THEN tkTok[r]
                                   ELSE NoToken]]
        /\ rqShared' = IF shared THEN rqBody ELSE rqShared
  /\ UNCHANGED <<rqProbe, rqReq, rqResult, rqRuns, tkVars>>

\* doHTTPRequest after the response, under resultMu: the counters, response codes,
\* validators, and success with its latency.
RqDone(r) ==
  /\ rqPc[r] = "sent" /\ rqPc' = [rqPc EXCEPT ![r] = "done"]
  /\ \E g \in Answers \union Failures :
       /\ rqHad' = [rqHad EXCEPT ![g] = @ + 1]
       /\ LET failed == IF g \in Failures THEN {} ELSE RunValidators(rqVs, RqResponses[g])
              ok == IF g \notin Failures /\ failed = {} THEN 1 ELSE 0
          IN /\ rqCodes' = IF g \in Failures THEN rqCodes
                          ELSE [rqCodes EXCEPT ![RqResponses[g].code] = @ + 1]
             /\ rqFails' = [n \in DOMAIN rqFails |-> rqFails[n] + IF n \in failed THEN 1 ELSE 0]
             /\ rqRes' = [total |-> rqRes.total + 1, success |-> rqRes.success + ok,
                          timeouts |-> rqRes.timeouts + IF g = "timeout" THEN 1 ELSE 0,
                          latency |-> rqRes.latency + ok]
  /\ UNCHANGED <<rqProbe, rqReq, rqShared, rqSent, rqRuns, tkVars>>

RqNext ==
  \/ RqRun
  \/ TkStep /\ UNCHANGED rqVars
  \/ \E r \in TkCallers : RqToken(r) \/ RqPrepared(r) \/ RqSend(r) \/ RqDone(r)

RqSpec == RqInit /\ [][RqNext]_<<rqVars, tkVars>>

-----------------------------------------------------------------------------
(* Properties *)

\* Every request has the whole body, whatever other requests of the run read of it,
\* and a token that has not expired, if the backend answered and the probe was not
\* held up for longer than the expiry buffer: older tokens that other requests or
\* the refreshing goroutine put into the cache meanwhile do no harm.  A token that
\* the backend gives out for no longer than the buffer, or without an expiry, or
\* without an access_token is left aside.
RequestsIntact ==
  \A r \in TkCallers : rqSent[r] # RqNone =>
    LET s == rqSent[r] IN
      /\ s.body = rqBody
      /\ /\ ~tkFailed[r] /\ s.at - tkSince[r] <= ExpiryBuffer
         /\ s.token # NoToken /\ s.token.expiry # -1
         /\ \A ttl \in TTLs : ttl > ExpiryBuffer
         => s.token.expiry > s.at

\* What the configuration of a validator says of a response.
Meets(v, resp) ==
  LET listed(s) == \E k \in DOMAIN s : resp.code \in s[k][1] .. s[k][Len(s[k])]
      matching(h) == h.name \in DOMAIN resp.headers
                     /\ (h.regex = VdUnset \/ \E i \in DOMAIN resp.headers[h.name] :
                                                resp.headers[h.name][i] \in h.regex)
      c == v.conf
      n == IF v.type = "integrity" THEN (IF c.pattern # <<>> THEN Len(c.pattern) ELSE c.numBytes)
           ELSE 0
  IN CASE v.type = "http" ->
            /\ c.successCodes = VdUnset \/ listed(c.successCodes)
            /\ c.failureCodes = VdUnset \/ ~listed(c.failureCodes)
            /\ c.successHeader = VdUnset \/ matching(c.successHeader)
            /\ c.failureHeader = VdUnset \/ ~matching(c.failureHeader)
       [] v.type = "regex" -> resp.body \in c.regex
       [] v.type = "integrity" ->
            LET pattern == IF c.pattern # <<>> THEN c.pattern ELSE resp.body
            IN Len(resp.body) < n \/ resp.body = PatternPayload(Len(resp.body), SubSeq(pattern, 1, n))
       [] v.type = "json" ->
            resp.jq # NotJSON /\ c.filter /\ resp.jq # <<>> /\ resp.jq[Len(resp.jq)] = "false"
            => \E i \in DOMAIN resp.jq : resp.jq[i] = "error"

\* The counters of a result add up over the requests of all runs: every request is
\* counted, timeouts and response codes as they came, a validator's failures are
\* the responses that do not meet its configuration, and a success, with a latency,
\* is a response that meets all of them.  A response that a validator cannot judge,
\* such as a body that is not JSON, meets it.
ResponsesCounted ==
  LET had(S) == MapThenSumSet(LAMBDA g : rqHad[g], S)
      meeting(vs) == {g \in Answers : \A v \in vs : Meets(v, RqResponses[g])}
  IN /\ rqRes.total = had(Answers \union Failures)
     /\ rqRes.timeouts = rqHad["timeout"]
     /\ \A code \in DOMAIN rqCodes :
          rqCodes[code] = had({g \in Answers : RqResponses[g].code = code})
     /\ \A v \in rqVs : rqFails[v.name] = had(Answers \ meeting({v}))
     /\ rqRes.success = had(meeting(rqVs)) /\ rqRes.latency = rqRes.success
=============================================================================
