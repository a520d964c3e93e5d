------------------------------- MODULE Tokens -------------------------------
(***************************************************************************)
(* OAuth tokens of a probe: a token source with a cache, the callers that  *)
(* ask it for a token at the same time, and the goroutine that refreshes   *)
(* tokens without an expiry.  The cache is locked to be read and to be     *)
(* written, but not in between: the call of the backend, and the set that  *)
(* follows it, happen after those of other callers.                        *)
(***************************************************************************)
EXTENDS Integers, FiniteSets

CONSTANTS
  TkCallers,      \* goroutines that send requests
  TkSources,      \* "file", "cmd", "gce", "k8s", "http", or "none"
  ExpiryBuffer,   \* refresh_expiry_buffer_sec
  TTLs,           \* values of expires_in
  NoToken,        \* nil
  TkMaxClock,     \* bound: time
  MaxFetches      \* bound: calls of the backend

ASSUME TokenAssumption ==
  /\ ExpiryBuffer \in Int /\ TTLs \subseteq Int /\ "refresher" \notin TkCallers
  /\ TkSources \subseteq {"file", "cmd", "gce", "k8s", "http", "none"}

VARIABLES
  tkSource,     \* the type of the source
  tkInterval,   \* refresh_interval_sec
  tkNow,
  tkCache,      \* tokenCache.tok
  tkRefresher,  \* the refreshing goroutine: "none", "wait" or "set"
  tkFetched,    \* caller or "refresher" -> the token it got from the backend
  tkFetches,    \* calls of the backend
  tkPc,         \* caller: "idle", "fetch", "set", "have" or "error"
  tkTok,        \* caller: the token that it read, then the one that it returns
  tkSince,      \* history: when the caller asked
  tkFailed      \* history: did the backend fail for the caller?

tkVars == <<tkSource, tkInterval, tkNow, tkCache, tkRefresher, tkFetched, tkFetches, tkPc,
            tkTok, tkSince, tkFailed>>

\* What a backend answers: nothing, or a token with its access_token, which a JSON
\* token may lack, and its expiry, which only a JSON token has.
Plain == [text |-> TRUE, expiry |-> -1]

\* bytesToToken, at time now.
bytesToToken(now) ==
  {Plain} \union {[text |-> text, expiry |-> now + ttl] : text \in BOOLEAN, ttl \in TTLs}

\* tokenFromHTTP: an answer without an access_token is an error.
tokenFromHTTP(now) == {[text |-> TRUE, expiry |-> now + ttl] : ttl \in TTLs}

\* The backend of the source: tokenFunctions, or tokenFromHTTP.
getToken(now) ==
  {NoToken} \union
  CASE tkSource = "none" -> {}
    [] tkSource \in {"file", "cmd"} -> bytesToToken(now)
    [] tkSource = "k8s" -> {Plain}
    [] tkSource \in {"gce", "http"} -> tokenFromHTTP(now)

\* TokenSourceFromConfig.  newBearerTokenSource: the first token is there from the
\* beginning, and a goroutine refreshes it if it does not expire and the interval is
\* not 0.  newHTTPTokenSource: there is no token yet.
TkInit ==
  /\ tkSource \in TkSources /\ tkInterval \in {0, 1}
  /\ tkNow = 0
  /\ tkCache \in IF tkSource \in {"http", "none"} THEN {NoToken} ELSE getToken(0) \ {NoToken}
  /\ tkRefresher = IF tkCache # NoToken /\ tkCache.expiry = -1 /\ tkInterval # 0
                   THEN "wait" ELSE "none"
  /\ tkFetched = [c \in TkCallers \union {"refresher"} |-> NoToken]
  /\ tkFetches = 0
  /\ tkPc = [c \in TkCallers |-> "idle"] /\ tkTok = [c \in TkCallers |-> NoToken]
  /\ tkSince = [c \in TkCallers |-> 0] /\ tkFailed = [c \in TkCallers |-> FALSE]

TkTick ==
  /\ tkNow < TkMaxClock /\ tkNow' = tkNow + 1
  /\ UNCHANGED <<tkSource, tkInterval, tkCache, tkRefresher, tkFetched, tkFetches, tkPc, tkTok,
                 tkSince, tkFailed>>

\* Mutant of StillGood: a token is used up to its expiry.
StillGood_NoBuffer(tok, now) ==
  tok # NoToken /\ ((tok.expiry = -1 /\ tkSource # "http") \/ tok.expiry > now)

\* Token: may the cached token be used?  ignoreExpiryIfZero is set for bearer tokens.
StillGood(tok, now) ==
  tok # NoToken /\ ((tok.expiry = -1 /\ tkSource # "http") \/ tok.expiry - now > ExpiryBuffer)

\* Token up to the call of the backend, if it is needed.
TokenBegin(c) ==
  /\ tkPc[c] = "idle"
  /\ tkPc' = [tkPc EXCEPT ![c] = IF StillGood(tkCache, tkNow) THEN "have" ELSE "fetch"]
  /\ tkTok' = [tkTok EXCEPT ![c] = tkCache]
  /\ tkSince' = [tkSince EXCEPT ![c] = tkNow] /\ tkFailed' = [tkFailed EXCEPT ![c] = FALSE]
  /\ UNCHANGED <<tkSource, tkInterval, tkNow, tkCache, tkRefresher, tkFetched, tkFetches>>

\* The backend answers.  If it fails, the token that was read is returned, if any.
TokenFetch(c) ==
  /\ tkPc[c] = "fetch" /\ tkFetches < MaxFetches /\ tkFetches' = tkFetches + 1
  /\ \E tok \in getToken(tkNow) :
       /\ tkFetched' = [tkFetched EXCEPT ![c] = tok]
       /\ tkFailed' = [tkFailed EXCEPT ![c] = tok = NoToken]
       /\ tkPc' = [tkPc EXCEPT ![c] = CASE tok # NoToken -> "set"
                                        [] tok = NoToken /\ tkTok[c] # NoToken -> "have"
                                        [] OTHER -> "error"]
  /\ UNCHANGED <<tkSource, tkInterval, tkNow, tkCache, tkRefresher, tkTok, tkSince>>

\* setToken, and the return of the new token.
TokenSet(c) ==
  /\ tkPc[c] = "set" /\ tkPc' = [tkPc EXCEPT ![c] = "have"]
  /\ tkCache' = tkFetched[c] /\ tkTok' = [tkTok EXCEPT ![c] = tkFetched[c]]
  /\ UNCHANGED <<tkSource, tkInterval, tkNow, tkRefresher, tkFetched, tkFetches, tkSince,
                 tkFailed>>

\* The refreshing goroutine, at a tick and then at its set.
RefreshTick ==
  /\ tkRefresher = "wait" /\ tkFetches < MaxFetches /\ tkFetches' = tkFetches + 1
  /\ \E tok \in getToken(tkNow) :
       /\ tkFetched' = [tkFetched EXCEPT !["refresher"] = tok]
       /\ tkRefresher' = IF tok = NoToken THEN "wait" ELSE "set"
  /\ UNCHANGED <<tkSource, tkInterval, tkNow, tkCache, tkPc, tkTok, tkSince, tkFailed>>

RefreshSet ==
  /\ tkRefresher = "set" /\ tkRefresher' = "wait"
  /\ tkCache' = tkFetched["refresher"]
  /\ UNCHANGED <<tkSource, tkInterval, tkNow, tkFetched, tkFetches, tkPc, tkTok, tkSince,
                 tkFailed>>

\* The goroutines of the source, and the calls that are under way.
TkStep ==
  \/ TkTick \/ RefreshTick \/ RefreshSet
  \/ \E c \in TkCallers : TokenFetch(c) \/ TokenSet(c)
=============================================================================
