----------------------------- MODULE Definitions -----------------------------
(***************************************************************************)
(* From the definition of a probe to the probe: BuildProbeOptions, the     *)
(* targets and the source address it asks for, CreateProbe with the types  *)
(* registered by extensions of cloudprober, and additional labels, whose   *)
(* value for a target the probe updates while others read it.              *)
(*                                                                         *)
(* Times are seconds.  Text that is split or joined is a sequence of its   *)
(* parts.                                                                  *)
(***************************************************************************)
EXTENDS Integers, Sequences, FiniteSets, TLC

LOCAL INSTANCE SequencesExt

CONSTANTS
  Unset,      \* a field that the definition leaves out
  Malformed,  \* text that does not parse
  Refused,    \* an error
  DfProbes,   \* definitions of probes
  DfLabels,   \* values of additional labels, split at "@"
  DfTargets,  \* endpoints, [name, port, labels]
  IntWidth,   \* bits of an int32
  DfIPs,      \* addresses that targets resolve to, and "" if they do not
  MaxUpdates  \* bound: updates of labels

VARIABLES
  dReg,      \* what is registered: probes, probe types, shared targets, types of targets
  dProbes,   \* probes created: name -> options
  dLast,     \* the last request: its definition, and why it was refused
  dLabels,   \* valueForTarget of each label
  dArgs,     \* history: arguments of the last update of a label for a target
  dUpdates   \* updates so far

defVars == <<dReg, dProbes, dLast>>
labelVars == <<dLabels, dArgs, dUpdates>>

-----------------------------------------------------------------------------
(* Targets and addresses *)

\* staticTargets, for one host: its parts between colons, is there a "/" in it, and
\* what ParseIP and SplitHostPort make of more than two parts.
StaticHost(h) ==
  LET n == Len(h.parts)
      withPort(name, port) ==
        IF port = Malformed THEN Refused ELSE [name |-> name, port |-> port]
  IN IF h.slash THEN Refused
     ELSE IF n = 1 THEN [name |-> h.parts[1], port |-> 0]
     ELSE IF n = 2 THEN withPort(h.parts[1], h.parts[2])
     ELSE IF h.isIP THEN [name |-> h.parts, port |-> 0]
     ELSE IF h.hostPort = Malformed THEN Refused
     ELSE withPort(h.hostPort[1], h.hostPort[2])

staticTargets(hosts) == \A i \in DOMAIN hosts : StaticHost(hosts[i]) # Refused

\* rdsClientConf: a server from the targets, from the global options, or the local
\* one, and a provider in the resource path.
rdsClientConf(def) == (def.server # Unset \/ def.localRDS) /\ def.provider # Unset

\* getExtensionTargets and getExtensionProbe.
Extension(fields, registered) ==
  Cardinality(fields) = 1 /\ fields \subseteq registered

\* targets.New: is there an error?  Those of the clients it makes are in def.ok.
NewTargets(def) ==
  /\ def.regex # Malformed
  /\ CASE def.type = "host_names" -> staticTargets(def.hosts)
       [] def.type = "shared_targets" -> def.name \in dReg.targets
       [] def.type = "rds_targets" -> rdsClientConf(def) /\ def.ok
       [] def.type \in {"gce_targets", "file_targets", "k8s"} -> def.ok
       [] def.type = "dummy_targets" -> TRUE
       [] OTHER -> Extension(def.fields, dReg.targetTypes)

\* ResolveIntfAddr: the first address of the version.  An address is its version.
ResolveIntfAddr(addrs, ipVer) ==
  LET i == SelectInSeq(addrs, LAMBDA v : ipVer = 0 \/ v = ipVer)
  IN IF i = 0 THEN Refused ELSE addrs[i]

getSourceIPFromConfig(src, ipVer) ==
  IF src.type = "source_ip"
  THEN IF src.ip = Malformed \/ (ipVer # 0 /\ src.ip # ipVer) THEN Refused ELSE src.ip
  ELSE ResolveIntfAddr(src.addrs, ipVer)

-----------------------------------------------------------------------------
(* Options *)

defaultStatsExportIntv == 10
defaultIntervalPeriod == 2
defaultTimeoutPeriod == 1

Larger(a, b) == IF a > b THEN a ELSE b

\* Mutant of defaultStatsExportInterval: the timeout does not count.
defaultStatsExportInterval_Interval(type, interval, timeout) ==
  Larger(defaultStatsExportIntv, IF type = "UDP" THEN 2 * interval ELSE interval)

defaultStatsExportInterval(type, interval, timeout) ==
  LET minIntv == Larger(interval, timeout)
  IN Larger(defaultStatsExportIntv, IF type = "UDP" THEN 2 * minIntv ELSE minIntv)

\* interval and timeout: in milliseconds, or as text, but not both.
DurationOf(msec, text, default) ==
  CASE msec # 0 /\ text # Unset -> Refused
    [] msec # 0 /\ text = Unset -> msec
    [] msec = 0 /\ text # Unset -> IF text = Malformed THEN Refused ELSE text
    [] msec = 0 /\ text = Unset -> default

\* validators.Init: names are unique.
ValidatorsInit(vs) ==
  /\ \A i, j \in DOMAIN vs : vs[i].name = vs[j].name => i = j
  /\ \A i \in DOMAIN vs : vs[i].ok

\* BuildProbeOptions: the options, or the field that is wrong.
BuildProbeOptions(def) ==
  LET interval == DurationOf(def.intervalMsec, def.interval, defaultIntervalPeriod)
      timeout == DurationOf(def.timeoutMsec, def.timeout, defaultTimeoutPeriod)
      source == IF def.source = Unset THEN Unset
                ELSE getSourceIPFromConfig(def.source, def.ipVersion)
      stats == IF def.stats = Unset
               THEN defaultStatsExportInterval(def.type, interval, timeout) ELSE def.stats
      wrong(what) == [wrong |-> what]
  IN IF interval = Refused THEN wrong("interval")
     ELSE IF timeout = Refused THEN wrong("timeout")
     ELSE IF def.negative /\ def.type \notin {"TCP", "PING"} THEN wrong("negative_test")
     ELSE IF ~NewTargets(def.targets) THEN wrong("targets")
     ELSE IF def.latency = Malformed THEN wrong("latency")
     ELSE IF ~ValidatorsInit(def.validators) THEN wrong("validator")
     ELSE IF source = Refused THEN wrong("source")
     ELSE IF def.stats # Unset /\ stats < interval THEN wrong("stats")
     ELSE [interval |-> interval, timeout |-> timeout, stats |-> stats,
           negative |-> def.negative, source |-> source,
           ipVersion |-> IF def.ipVersion = 0 /\ source # Unset THEN source
                         ELSE def.ipVersion,
           wrong |-> "none"]

-----------------------------------------------------------------------------
(* Probes *)

\* Init of the UDP probe: the intervals it flushes its buffers at.
UDPFlush(opts) == 2 * Larger(opts.interval, opts.timeout)

\* int32 arithmetic.
Int32(n) == ((n + 2 ^ (IntWidth - 1)) % 2 ^ IntWidth) - 2 ^ (IntWidth - 1)

\* Init of the HTTP probe: do all requests of a run fit into the interval?
HTTPInitFits(requests, opts) ==
  Int32(requests.interval * requests.perProbe) + opts.timeout <= opts.interval

\* initProbe: what is wrong, if anything.  The rest of Init is in def.ok.
initProbe(def, opts) ==
  IF def.type = "EXTENSION" /\ ~Extension(def.fields, dReg.probeTypes) THEN "extension"
  ELSE IF def.type = "USER_DEFINED" /\ def.name \notin dReg.probes THEN "unregistered"
  ELSE IF def.type = "UDP" /\ opts.stats < UDPFlush(opts) THEN "stats"
  ELSE IF def.type = "HTTP" /\ ~HTTPInitFits(def.requests, opts) THEN "requests"
  ELSE IF ~def.ok THEN "init"
  ELSE "none"

DefInit ==
  /\ dReg = [probes |-> {}, probeTypes |-> {}, targets |-> {}, targetTypes |-> {}]
  /\ dProbes = <<>> /\ dLast = [wrong |-> "none"]

\* RegisterUserDefined, RegisterProbeType, SetSharedTargets, RegisterTargetsType.
DfRegister(kind, what) ==
  /\ what \notin dReg[kind]
  /\ dReg' = [dReg EXCEPT ![kind] = @ \union {what}]
  /\ UNCHANGED <<dProbes, dLast, labelVars>>

\* BuildProbeOptions and CreateProbe for a name that is free.
CreateProbe(def) ==
  /\ def.name \notin DOMAIN dProbes
  /\ LET opts == BuildProbeOptions(def)
         wrong == IF opts.wrong # "none" THEN opts.wrong ELSE initProbe(def, opts)
     IN /\ dLast' = [def |-> def, wrong |-> wrong]
        /\ dProbes' = IF wrong = "none" THEN dProbes @@ (def.name :> (opts @@ [def |-> def]))
                      ELSE dProbes
  /\ UNCHANGED <<dReg, labelVars>>

DefNext ==
  \/ \E def \in DfProbes : CreateProbe(def)
  \/ \E kind \in DOMAIN dReg : \E what \in {"x"} : DfRegister(kind, what)

-----------------------------------------------------------------------------
(* Additional labels *)

\* No value is known of any target yet.
LabelInit ==
  /\ dLabels = [l \in DfLabels |-> <<>>] /\ dArgs = [l \in DfLabels |-> <<>>]
  /\ dUpdates = 0

\* What a part between two "@" stands for.  The regular expression for labels matches
\* anywhere in it.
TokenType(p) ==
  CASE p = <<"target.name">> -> "name"
    [] p = <<"target.port">> -> "port"
    [] p = <<"target.ip">> -> "ip"
    [] Len(p) >= 2 /\ p[Len(p) - 1] = "target.label." -> "label"
    [] OTHER -> "notTargetLabel"

IsToken(p) == TokenType(p) # "notTargetLabel"

\* The value that was split.
Unsplit(value) ==
  FlattenSeq([i \in DOMAIN value |-> IF i = 1 THEN value[1] ELSE <<"@">> \o value[i]])

\* ParseAdditionalLabel: after an odd number of "@" the last one is text.
ParseAdditionalLabel(value) ==
  LET n == Len(value)
      parts == IF n % 2 = 0 THEN [value EXCEPT ![n] = <<"@">> \o @] ELSE value
      tokens == SelectSeq([i \in 1 .. (n - 1) \div 2 |-> parts[2 * i]], IsToken)
  IN [parts |-> parts, tokens |-> tokens,
      static |-> IF tokens = <<>> THEN Unsplit(value) ELSE <<>>]

TokenValue(token, ep, ip, port) ==
  CASE TokenType(token) = "name" -> <<ep.name>>
    [] TokenType(token) = "port" -> <<ToString(port)>>
    [] TokenType(token) = "ip" -> <<ip>>
    [] TokenType(token) = "label" ->
         LET key == token[Len(token)]
         IN IF key \in DOMAIN ep.labels THEN <<ep.labels[key]>> ELSE <<"">>

\* Endpoint.Key.
EndpointKey(ep) == <<ep.name, ep.port, ep.labels>>

\* Mutant of UpdateForTarget: values are stored by name.
UpdateForTarget_ByName(al, values, ep, ip, probePort) ==
  LET port == IF probePort = 0 THEN ep.port ELSE probePort
      substituted == [i \in DOMAIN al.parts |->
        IF i % 2 = 0 /\ i \div 2 \in DOMAIN al.tokens
        THEN TokenValue(al.tokens[i \div 2], ep, ip, port) ELSE al.parts[i]]
  IN (<<ep.name, 0, <<>>>> :> FlattenSeq(substituted)) @@ values

\* UpdateForTarget: token i takes the place of the part 2 * i.
UpdateForTarget(al, values, ep, ip, probePort) ==
  LET port == IF probePort = 0 THEN ep.port ELSE probePort
      substituted == [i \in DOMAIN al.parts |->
        IF i % 2 = 0 /\ i \div 2 \in DOMAIN al.tokens
        THEN TokenValue(al.tokens[i \div 2], ep, ip, port) ELSE al.parts[i]]
  IN (EndpointKey(ep) :> FlattenSeq(substituted)) @@ values

KeyValueForTarget(al, values, ep) ==
  IF al.static # <<>> THEN al.static
  ELSE IF EndpointKey(ep) \in DOMAIN values THEN values[EndpointKey(ep)] ELSE <<>>

\* A probe learns the address of a target, and updates its labels.
DfUpdate(l, ep, ip, probePort) ==
  /\ dUpdates < MaxUpdates /\ dUpdates' = dUpdates + 1
  /\ LET al == ParseAdditionalLabel(l)
     IN dLabels' = IF al.static # <<>> THEN dLabels
                   ELSE [dLabels EXCEPT ![l] = UpdateForTarget(al, @, ep, ip, probePort)]
  /\ dArgs' = [dArgs EXCEPT ![l] = (ep :> <<ip, probePort>>) @@ @]
  /\ UNCHANGED defVars

LabelNext ==
  \E l \in DfLabels, ep \in DfTargets, ip \in DfIPs, port \in {0, 8} :
    DfUpdate(l, ep, ip, port)

-----------------------------------------------------------------------------
(* Properties *)

\* The value of an additional label for a target has the target's own name, port
\* and labels and its last address at each token, and all the rest of the text as it
\* is configured, whatever other targets of the same name were updated before or
\* after it.  For values whose tokens are all known, or all unknown.
LabelsFollow ==
  \A l \in DfLabels : LET al == ParseAdditionalLabel(l) IN
    \A ep \in DOMAIN dArgs[l] :
      LET args == dArgs[l][ep]
          port == IF args[2] = 0 THEN ep.port ELSE args[2]
          tokens == {2 * i : i \in 1 .. (Len(l) - 1) \div 2}
          meant == [i \in DOMAIN l |->
            IF i \in tokens THEN TokenValue(l[i], ep, args[1], port)
            ELSE IF i \div 2 > Cardinality(tokens) THEN <<"@">> \o l[i] ELSE l[i]]
      IN CASE tokens = {} \/ \A i \in tokens : ~IsToken(l[i]) ->
                KeyValueForTarget(al, dLabels[l], ep) = Unsplit(l)
           [] tokens # {} /\ \A i \in tokens : IsToken(l[i]) ->
                KeyValueForTarget(al, dLabels[l], ep) = FlattenSeq(meant)
           [] OTHER -> TRUE

\* Every probe that is created runs at least once before it exports its stats, if
\* its interval is not 0.  A probe whose definition leaves the export interval out
\* is never refused for it, neither by BuildProbeOptions nor by Init of the UDP
\* probe, which asks for more.  The source address, given or taken from an
\* interface, has the IP version that the probe resolves its targets to.  All
\* requests of a run of an HTTP probe are over before the next run, unless the
\* product of their number and the gap between them is no int32.
ExportFits ==
  /\ \A name \in DOMAIN dProbes : LET opts == dProbes[name] IN
       /\ opts.interval > 0 => opts.stats \div opts.interval >= 1
       /\ opts.source # Unset => opts.ipVersion = opts.source
       /\ opts.def.type = "HTTP" =>
            LET total == opts.def.requests.interval * opts.def.requests.perProbe
            IN total < 2 ^ (IntWidth - 1) => total + opts.timeout <= opts.interval
  /\ dLast.wrong = "stats" => dLast.def.stats # Unset

\* What a definition becomes follows it: the additional labels of every target
\* (LabelsFollow), and the intervals, addresses and requests of every probe that
\* InitFromConfig or AddProbe creates with BuildProbeOptions (ExportFits).
ProbesAsDefined == LabelsFollow /\ ExportFits
=============================================================================
