----------------------------- MODULE Validation ------------------------------
(***************************************************************************)
(* The validators of a probe: from their configuration to what they say of *)
(* a response.  A response has a status code, headers, and a body, which   *)
(* is a sequence of bytes and what a JSON decoder and the configured jq    *)
(* filter make of it.  A regular expression is the set of what it matches. *)
(***************************************************************************)
EXTENDS Integers, Sequences

CONSTANTS
  VdUnset,     \* a field that the configuration leaves out
  NotJSON      \* a body that does not decode

Verdict(ok) == IF ok THEN "pass" ELSE "fail"

-----------------------------------------------------------------------------
(* HTTP validator *)

\* Mutant of find: the upper bound is not in the range.
find_Below(nr, i) == i >= nr.lower /\ i < nr.upper

find(nr, i) == i >= nr.lower /\ i <= nr.upper

\* parseNumRange, of the numbers between dashes.
ParsesNumRange(fields) == Len(fields) = 1 \/ (Len(fields) = 2 /\ fields[2] >= fields[1])
parseNumRange(fields) == [lower |-> fields[1], upper |-> fields[Len(fields)]]

\* parseStatusCodeConfig, of the ranges between commas.
ParsesStatusCodes(s) == s = VdUnset \/ \A i \in DOMAIN s : ParsesNumRange(s[i])
parseStatusCodeConfig(s) == [i \in DOMAIN s |-> parseNumRange(s[i])]

lookupStatusCode(code, ranges) == \E i \in DOMAIN ranges : find(ranges[i], code)

\* lookupHTTPHeader: without a regular expression the header has to be there.
lookupHTTPHeader(headers, h) ==
  /\ h.name \in DOMAIN headers
  /\ h.regex = VdUnset \/ \E i \in DOMAIN headers[h.name] : headers[h.name][i] \in h.regex

\* initHeaderValidators.
ParsesHeader(h) == h = VdUnset \/ h.name # ""

HTTPInitOK(c) ==
  /\ ParsesStatusCodes(c.successCodes) /\ ParsesStatusCodes(c.failureCodes)
  /\ ParsesHeader(c.successHeader) /\ ParsesHeader(c.failureHeader)

\* Validate: the tests in their order.
HTTPValidate(c, resp) ==
  CASE c.failureCodes # VdUnset
       /\ lookupStatusCode(resp.code, parseStatusCodeConfig(c.failureCodes)) -> "fail"
    [] c.failureHeader # VdUnset /\ lookupHTTPHeader(resp.headers, c.failureHeader) -> "fail"
    [] c.successCodes # VdUnset
       /\ ~lookupStatusCode(resp.code, parseStatusCodeConfig(c.successCodes)) -> "fail"
    [] c.successHeader # VdUnset /\ ~lookupHTTPHeader(resp.headers, c.successHeader) -> "fail"
    [] OTHER -> "pass"

-----------------------------------------------------------------------------
(* Integrity validator *)

\* PatternPayload: the pattern, again and again.
PatternPayload(n, pattern) == [i \in 1 .. n |-> pattern[((i - 1) % Len(pattern)) + 1]]

\* VerifyPayloadPattern: whole copies of the pattern, then the beginning of one.
VerifyPayloadPattern(payload, pattern) ==
  LET size == Len(pattern)
      nReplica == Len(payload) \div size
      rest == SubSeq(payload, nReplica * size + 1, Len(payload))
  IN /\ \A i \in 0 .. nReplica - 1 : SubSeq(payload, i * size + 1, (i + 1) * size) = pattern
     /\ rest = SubSeq(pattern, 1, Len(rest))

IntegrityInitOK(c) == c.pattern # <<>> \/ c.numBytes # 0

\* Validate: "error" for a body that has no pattern.
IntegrityValidate(c, body) ==
  IF c.pattern # <<>> THEN Verdict(VerifyPayloadPattern(body, c.pattern))
  ELSE IF Len(body) < c.numBytes THEN "error"
  ELSE Verdict(VerifyPayloadPattern(body, SubSeq(body, 1, c.numBytes)))

-----------------------------------------------------------------------------
(* JSON and regex validators *)

\* Validate of the JSON validator: a filter has outputs, of which the last one counts,
\* unless one before it is an error.
JSONValidate(c, resp) ==
  LET out == resp.jq
  IN IF resp.jq = NotJSON THEN "error"
     ELSE IF ~c.filter THEN "pass"
     ELSE IF \E i \in DOMAIN out : out[i] = "error" THEN "error"
     ELSE IF out = <<>> \/ out[Len(out)] \notin {"true", "false"} THEN "error"
     ELSE Verdict(out[Len(out)] = "true")

RegexInitOK(c) == c.regex # VdUnset
RegexValidate(c, resp) == Verdict(resp.body \in c.regex)

-----------------------------------------------------------------------------
(* All of them *)

\* initValidator.
initValidator(v) ==
  CASE v.type = "http" -> HTTPInitOK(v.conf)
    [] v.type = "integrity" -> IntegrityInitOK(v.conf)
    [] v.type = "json" -> TRUE
    [] v.type = "regex" -> RegexInitOK(v.conf)
    [] OTHER -> FALSE

\* What a validator says: "pass", "fail" or "error".
Validate(v, resp) ==
  CASE v.type = "http" -> HTTPValidate(v.conf, resp)
    [] v.type = "integrity" -> IntegrityValidate(v.conf, resp.body)
    [] v.type = "json" -> JSONValidate(v.conf, resp)
    [] v.type = "regex" -> RegexValidate(v.conf, resp)

\* RunValidators: the names of those that failed.  An error is not a failure.
RunValidators(vs, resp) == {v.name : v \in {w \in vs : Validate(w, resp) = "fail"}}
=============================================================================
