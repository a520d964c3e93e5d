------------------------------- MODULE Logging -------------------------------
(***************************************************************************)
(* The loggers of the process: on GCE each has a client of the cloud's     *)
(* logging service, which holds entries back and sends them in batches;    *)
(* otherwise, or without a logger, messages go to glog.  A message is      *)
(* known by its number and has a length.                                   *)
(***************************************************************************)
EXTENDS Integers, Sequences, FiniteSets, SequencesExt

CONSTANTS
  LogComponents,    \* parts of the process that have a logger
  LogEnvs,          \* flags and environment of the process
  LogPayloads,      \* payloads: the lengths of their strings
  MaxLogEntrySize,
  TruncateMsgLen,   \* length of "... (truncated)"
  MaxMessages,      \* bound: messages logged
  NilLogger         \* nil

VARIABLES
  gEnv,      \* flags and environment
  gLoggers,  \* component -> its logger, for those that asked for one
  gBuffer,   \* component -> entries that its client holds back
  gCloud,    \* entries the service has
  gLocal,    \* entries that glog has
  gLogged,   \* history: the messages, [by, severity, size]
  gEnd       \* "no", "panic", or the component whose Critical ended the process

logVars == <<gEnv, gLoggers, gBuffer, gCloud, gLocal, gLogged, gEnd>>

\* init: an environment variable that is set to anything but "no" and "false", even
\* to nothing, is as good as the flag.
envVarSet(v) == v \notin {"unset", "no", "false"}
disableCloudLogging == gEnv.disable \/ envVarSet(gEnv.disableVar)
debugLog == gEnv.debug \/ envVarSet(gEnv.debugVar)

\* The regex is the set of the names it matches; {} is for none.
enableDebugLog(name) ==
  /\ debugLog \/ gEnv.debugRe # {}
  /\ gEnv.debugRe # {} => name \in gEnv.debugRe
DebugPanics == gEnv.debugRe = {"bad"}

\* EnableStackdriverLogging.
EnablesStackdriver(name) ==
  gEnv.onGCE /\ gEnv.project /\ name \notin gEnv.invalidNames /\ gEnv.client

\* New, with the prefix of NewCloudproberLog.  Its own messages, of before there is
\* a client, are left out.
LogName(component) == gEnv.prefix \o component
New(component) ==
  LET name  == LogName(component)
      cloud == gEnv.onGCE /\ ~disableCloudLogging
  IN IF cloud /\ ~EnablesStackdriver(name) THEN NilLogger
     ELSE [name |-> name, debug |-> enableDebugLog(name), cloud |-> cloud,
           labels |-> IF cloud /\ gEnv.instance THEN {"instance_name"} ELSE {}]

LogInit ==
  /\ gEnv \in LogEnvs
  /\ gLoggers = <<>> /\ gBuffer = [c \in LogComponents |-> <<>>]
  /\ gCloud = <<>> /\ gLocal = <<>> /\ gLogged = <<>> /\ gEnd = "no"

NewCloudproberLog(c) ==
  /\ gEnd = "no" /\ c \notin DOMAIN gLoggers
  /\ IF DebugPanics
     THEN gEnd' = "panic" /\ UNCHANGED gLoggers
     ELSE /\ gLoggers' = [d \in DOMAIN gLoggers \union {c} |->
                            IF d = c THEN New(c) ELSE gLoggers[d]]
          /\ UNCHANGED gEnd
  /\ UNCHANGED <<gEnv, gBuffer, gCloud, gLocal, gLogged>>

payloadToString(payload) == FoldLeft(LAMBDA n, s : n + s, 0, payload)

\* Mutant of Truncated: the note on the truncation comes on top.
Truncated_Longer(size) ==
  IF size > MaxLogEntrySize THEN [kept |-> MaxLogEntrySize, note |-> TRUE]
                            ELSE [kept |-> size, note |-> FALSE]

Truncated(size) ==
  IF size > MaxLogEntrySize THEN [kept |-> MaxLogEntrySize - TruncateMsgLen, note |-> TRUE]
                            ELSE [kept |-> size, note |-> FALSE]

Entry(c, severity, payload) ==
  [id |-> Len(gLogged) + 1, by |-> c, severity |-> severity, text |-> Truncated(payloadToString(payload))]

ToCloud(c) == gLoggers[c] # NilLogger /\ gLoggers[c].cloud

\* log, and genericLog for those without a client.
log(c, severity, payload) ==
  IF ToCloud(c)
  THEN gBuffer' = [gBuffer EXCEPT ![c] = Append(@, Entry(c, severity, payload))] /\ UNCHANGED gLocal
  ELSE gLocal' = Append(gLocal, Entry(c, severity, payload)) /\ UNCHANGED gBuffer

Logged(c, severity, payload) ==
  /\ gEnd = "no" /\ c \in DOMAIN gLoggers /\ Len(gLogged) < MaxMessages
  /\ gLogged' = Append(gLogged, [by |-> c, severity |-> severity, size |-> payloadToString(payload)])
  /\ UNCHANGED <<gEnv, gLoggers>>

\* Debug and Debugf.
Debug(c, payload) ==
  /\ Logged(c, "debug", payload)
  /\ IF gLoggers[c] # NilLogger /\ gLoggers[c].debug
     THEN log(c, "debug", payload) ELSE UNCHANGED <<gBuffer, gLocal>>
  /\ UNCHANGED <<gCloud, gEnd>>

\* Info, Warning, Error, and the same with a format.
Message(c, severity, payload) ==
  /\ Logged(c, severity, payload)
  /\ log(c, severity, payload)
  /\ UNCHANGED <<gCloud, gEnd>>

\* Critical and Criticalf.  The client's Close sends what it holds back, or fails;
\* glog ends the process itself, before Close.
Critical(c, payload) ==
  /\ Logged(c, "critical", payload)
  /\ IF ToCloud(c)
     THEN \/ /\ gCloud' = gCloud \o gBuffer[c] \o <<Entry(c, "critical", payload)>>
             /\ gBuffer' = [gBuffer EXCEPT ![c] = <<>>]
             /\ gEnd' = c /\ UNCHANGED gLocal
          \/ log(c, "critical", payload) /\ gEnd' = "panic" /\ UNCHANGED gCloud
     ELSE log(c, "critical", payload) /\ gEnd' = c /\ UNCHANGED gCloud

\* (logging.Logger) 1000 entries, or 10 seconds.
LogFlush(c) ==
  /\ gEnd = "no" /\ gBuffer[c] # <<>>
  /\ gCloud' = gCloud \o gBuffer[c] /\ gBuffer' = [gBuffer EXCEPT ![c] = <<>>]
  /\ UNCHANGED <<gEnv, gLoggers, gLocal, gLogged, gEnd>>

LogNext ==
  \E c \in LogComponents :
    \/ NewCloudproberLog(c) \/ LogFlush(c)
    \/ \E payload \in LogPayloads :
         Debug(c, payload) \/ Message(c, "info", payload) \/ Message(c, "error", payload)
           \/ Critical(c, payload)

-----------------------------------------------------------------------------
(* Properties *)

Entries(es) == {es[i] : i \in DOMAIN es}
Of(c, es) == SelectSeq(es, LAMBDA e : e.by = c)

\* Each message is logged once, in the order of its logger, whole or cut to the
\* size of an entry; those for debugging only when they are on.  When Critical ends
\* the process, all that was logged with its logger is out; other loggers may
\* still hold entries back, which are lost.
LogsKept ==
  /\ \A i \in DOMAIN gLogged :
       LET m  == gLogged[i]
           l  == gLoggers[m.by]
           es == Of(m.by, gLocal) \o Of(m.by, gCloud) \o gBuffer[m.by]
           at == {j \in DOMAIN es : es[j].id = i}
       IN IF m.severity = "debug" /\ (l = NilLogger \/ ~l.debug) THEN at = {}
          ELSE /\ Cardinality(at) = 1
               /\ \A j \in at :
                    LET text == es[j].text
                    IN /\ text.kept + (IF text.note THEN TruncateMsgLen ELSE 0) <= MaxLogEntrySize
                       /\ text.note = (m.size > MaxLogEntrySize)
                       /\ ~text.note => text.kept = m.size
                       /\ \A k \in DOMAIN es : k < j => es[k].id < i
  /\ gEnd \in LogComponents => gBuffer[gEnd] = <<>>
=============================================================================
