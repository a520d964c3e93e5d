------------------------------ MODULE MCProcess ------------------------------
(***************************************************************************)
(* The process, one component at a time, on a small instance: the prober,  *)
(* its life, the definitions of its probes and their labels, the requests  *)
(* of an HTTP probe, the rows that surfacers make of EventMetrics, main    *)
(* with its flags, config and signals, and the loggers.                    *)
(***************************************************************************)
EXTENDS Prober, Lifecycle, Definitions, HTTPRequests, Conversions, Startup, Packets

CONSTANTS a, b, x, c1, c2

VARIABLE part  \* which component

ProcessParts == {"prober", "lifecycle", "definitions", "labels", "requests", "conversions",
                 "startup", "logging",
                 "ping", "socket", "flow", "pipe"}

-----------------------------------------------------------------------------
(* Probes: a and x are in the config file, x with a run_on that excludes this host. *)

MCNames == {a, b, x}
MCConfigProbes == {a, x}
MCRunHere == {a}
MCCallers == {c1, c2}
CallerSymmetry == Permutations(MCCallers)

-----------------------------------------------------------------------------
(* Configs of the process *)

Config(fault, grpc, tls, servers, surfacers) ==
  [fault |-> fault, grpc |-> grpc, tls |-> tls, servers |-> servers, surfacers |-> surfacers]
MCConfigs ==
  {Config("none", FALSE, TRUE, <<"udp", "https">>, <<>>),
   Config("none", TRUE, TRUE, <<"grpc_default", "udp">>, <<"none">>),
   Config("config", FALSE, TRUE, <<>>, <<>>), Config("none", TRUE, FALSE, <<>>, <<>>),
   Config("probe", TRUE, TRUE, <<>>, <<>>), Config("probe", FALSE, TRUE, <<"udp">>, <<>>),
   Config("none", FALSE, TRUE, <<"udp", "grpc_default">>, <<>>),
   Config("none", FALSE, TRUE, <<"udp", "https_nocert">>, <<>>),
   Config("none", FALSE, TRUE, <<"udp">>, <<"probestatus", "probestatus">>),
   Config("none", FALSE, TRUE, <<"external">>, <<"prometheus", "prometheus">>)}

-----------------------------------------------------------------------------
(* Definitions of probes *)

Hosts(parts, slash, isIP, hostPort) ==
  [type |-> "host_names", regex |-> "", hosts |-> <<
     [parts |-> parts, slash |-> slash, isIP |-> isIP, hostPort |-> hostPort]>>]
OneHost == Hosts(<<"h">>, FALSE, FALSE, Malformed)
MCTargetsDefs ==
  {Hosts(<<"h", 80>>, FALSE, FALSE, Malformed), Hosts(<<"h", Malformed>>, FALSE, FALSE, Malformed),
   Hosts(<<"h">>, TRUE, FALSE, Malformed), Hosts(<<"", "", "1">>, FALSE, TRUE, Malformed),
   Hosts(<<"[", "]", "1">>, FALSE, FALSE, <<"h", 80>>), Hosts(<<"a", "b", "c">>, FALSE, FALSE, Malformed),
   [type |-> "shared_targets", regex |-> Malformed, name |-> "x"],
   [type |-> "shared_targets", regex |-> "", name |-> "x"],
   [type |-> "rds_targets", regex |-> "", server |-> Unset, localRDS |-> TRUE, provider |-> "gcp", ok |-> TRUE],
   [type |-> "rds_targets", regex |-> "", server |-> Unset, localRDS |-> FALSE, provider |-> "gcp", ok |-> TRUE],
   [type |-> "k8s", regex |-> "", ok |-> FALSE], [type |-> "dummy_targets", regex |-> ""],
   [type |-> "extension", regex |-> "", fields |-> {"x"}], [type |-> "extension", regex |-> "", fields |-> {}]}
AnyDef ==
  [name |-> "p", type |-> "PING", intervalMsec |-> 0, interval |-> Unset, timeoutMsec |-> 0,
   timeout |-> Unset, negative |-> FALSE, ipVersion |-> 0, source |-> Unset, stats |-> Unset,
   targets |-> OneHost, latency |-> "us", validators |-> <<>>, fields |-> {}, ok |-> TRUE,
   requests |-> [interval |-> 0, perProbe |-> 1]]
MCDfProbes ==
  {[AnyDef EXCEPT !.targets = t] : t \in MCTargetsDefs} \union
  {[AnyDef EXCEPT !.type = type, !.intervalMsec = i, !.timeout = t, !.stats = s] :
     type \in {"HTTP", "UDP"}, i \in {0, 4}, t \in {Unset, 8}, s \in {Unset, 3, 12}} \union
  {[AnyDef EXCEPT !.type = "HTTP", !.intervalMsec = 8, !.requests.interval = 2,
                  !.requests.perProbe = n] : n \in {1, 3, 4, 8}} \union
  {[AnyDef EXCEPT !.source = src, !.ipVersion = v] :
     v \in {0, 6}, src \in {[type |-> "source_ip", ip |-> 4], [type |-> "source_ip", ip |-> Malformed],
                           [type |-> "source_interface", addrs |-> <<4, 6>>],
                           [type |-> "source_interface", addrs |-> <<>>]}} \union
  {[AnyDef EXCEPT !.type = "EXTENSION", !.fields = {"x"}],
   [AnyDef EXCEPT !.type = "USER_DEFINED", !.name = "x"],
   [AnyDef EXCEPT !.interval = 0], [AnyDef EXCEPT !.interval = Malformed],
   [AnyDef EXCEPT !.timeoutMsec = 1, !.timeout = 1], [AnyDef EXCEPT !.negative = TRUE],
   [AnyDef EXCEPT !.type = "HTTP", !.negative = TRUE], [AnyDef EXCEPT !.latency = Malformed],
   [AnyDef EXCEPT !.validators = <<[name |-> "v", ok |-> TRUE], [name |-> "v", ok |-> TRUE]>>],
   [AnyDef EXCEPT !.ok = FALSE]}

Name == <<"target.name">>
App == <<"target.label.", "app">>
MCDfLabels ==
  {<<<<"text">>>>, <<<<"p">>, Name, <<":">>, <<"target.port">>, <<>>>>,
   <<<<>>, <<"target.ip">>, <<"/">>, App>>, <<<<>>, App, <<>>>>,
   <<<<>>, <<"foo">>, <<>>>>, <<<<>>, <<"foo">>, <<":">>, Name, <<>>>>}
MCDfTargets ==
  {[name |-> "a", port |-> 0, labels |-> <<>>], [name |-> "a", port |-> 80, labels |-> <<>>],
   [name |-> "a", port |-> 0, labels |-> [app |-> "x"]]}

-----------------------------------------------------------------------------
(* Requests and responses *)

Response(code, headers, body, jq) ==
  [code |-> code, headers |-> headers, body |-> body, jq |-> jq]
MCResponses ==
  [ok |-> Response(200, [h |-> <<"v", "w">>], PatternPayload(5, <<1, 2>>), <<"false", "true">>),
   moved |-> Response(299, [g |-> <<"v">>], <<1, 2, 1, 1>>, <<"true", "false">>),
   odd |-> Response(404, <<>>, <<1>>, <<"error", "false">>),
   bad |-> Response(299, [h |-> <<"x">>], <<2, 2>>, NotJSON)]
HttpV(name, success, failure, sHeader, fHeader) ==
  [name |-> name, type |-> "http",
   conf |-> [successCodes |-> success, failureCodes |-> failure,
             successHeader |-> sHeader, failureHeader |-> fHeader]]
V(name, type, conf) == [name |-> name, type |-> type, conf |-> conf]
Header(name, regex) == [name |-> name, regex |-> regex]
MCValidators ==
  {{}, {HttpV("a", <<<<302>>, <<200, 299>>>>, VdUnset, VdUnset, VdUnset),
        HttpV("b", VdUnset, <<<<404>>, <<500, 599>>>>, Header("h", {"w", "x"}), VdUnset)},
   {HttpV("a", VdUnset, <<<<299>>>>, VdUnset, Header("h", VdUnset)),
    V("b", "regex", [regex |-> {<<1>>, <<2, 2>>}])},
   {V("a", "integrity", [pattern |-> <<1, 2>>, numBytes |-> 0]),
    V("b", "integrity", [pattern |-> <<>>, numBytes |-> 2]), V("c", "json", [filter |-> TRUE])},
   {V("a", "json", [filter |-> FALSE]), HttpV("b", <<<<200, 100>>>>, VdUnset, VdUnset, VdUnset)}}
MCRqTargets ==
  {[name |-> "n", fqdn |-> "", port |-> 0, ip |-> "", url |-> "/t"],
   [name |-> "n", fqdn |-> "f", port |-> 80, ip |-> "i", url |-> ""]}
MCRqConfs ==
  {[header |-> h, port |-> p, url |-> u, resolveFirst |-> r] :
     h \in {"", "x"}, p \in {0, 8}, u \in {"", "/p"}, r \in {VdUnset, TRUE, FALSE}}

-----------------------------------------------------------------------------
(* EventMetrics and surfacers *)

Em(kind, unit, ls, metrics) == [kind |-> kind, unit |-> unit, labels |-> ls, metrics |-> metrics]
W(w) == <<w>>
Probe(dst) == <<<<W("ptype"), "http">>, <<W("probe"), "p">>, <<W("dst"), dst>>>>
Explicit == [type |-> "explicit", bounds |-> <<2, 5>>]
Exponential == [type |-> "exponential", base |-> 2, scale |-> 1, n |-> 2]
RespCode == <<"resp", "-", "code">>
MCCvEMs ==
  {Em("CUMULATIVE", 1, Probe("a"), <<<<W("total"), NewInt(6)>>, <<W("latency"), NewFloat(5)>>,
        <<RespCode, MapOf(W("code"), ("200" :> 4) @@ ("500" :> 8))>>, <<W("total"), NewInt(8)>>>>),
   Em("CUMULATIVE", 1000, Probe("b"), <<<<W("total"), NewInt(4)>>,
        <<W("latency"), DistOf(Explicit, <<1, 2, 7, 4>>, <<9>>)>>,
        <<RespCode, MapOf(W("code"), ("200" :> 2))>>>>),
   Em("GAUGE", 1, <<<<W("dst"), "7">>, <<<<"a", "-", "b">>, "x">>>>,
      <<<<W("latency"), DistOf(Exponential, <<0, 1, 3>>, <<>>)>>, <<W("version"), NewString("v")>>>>),
   Em("GAUGE", 1, <<<<W("dst"), "07">>, <<<<"1">>, "x">>, <<W("dst"), "8">>>>,
      <<<<<<"a", "-", "b">>, NewInt(2)>>, <<<<"a", "_", "b">>, NewInt(4)>>, <<W("1"), NewInt(2)>>>>),
   Em("OTHER", 1, <<<<W("code"), "x">>>>, <<<<RespCode, MapOf(W("code"), ("200" :> 2))>>, <<W("total"), NewInt(2)>>>>)}
Conf(type) == [type |-> type, allow |-> NoRegex, ignore |-> NoRegex, prefix |-> <<>>, columns |-> <<>>,
               metricsPrefix |-> "NONE", allowedRegex |-> NoRegex, maxLength |-> 8]
Column(label, type) == [label |-> W(label), column |-> W("col_" \o label), type |-> type]
MCCvConfs ==
  {Conf(type) : type \in {"prometheus", "stackdriver", "postgres", "bigquery", "cloudwatch", "datadog"}} \union
  {[Conf("prometheus") EXCEPT !.prefix = <<"cp", "-">>, !.ignore = {W("total")}],
   [Conf("stackdriver") EXCEPT !.metricsPrefix = "PTYPE_PROBE", !.maxLength = 6],
   [Conf("stackdriver") EXCEPT !.metricsPrefix = "PROBE", !.allowedRegex = {<<"p", "/", "total">>}],
   [Conf("postgres") EXCEPT !.columns = <<Column("dst", "string"), Column("code", "string")>>],
   [Conf("bigquery") EXCEPT !.columns = <<Column("dst", "integer")>>],
   [Conf("bigquery") EXCEPT !.columns = <<Column("dst", "string"), Column("code", "float")>>],
   [Conf("cloudwatch") EXCEPT !.allow = {W("total"), W("latency")}],
   [Conf("datadog") EXCEPT !.prefix = <<"cloudprober", ".">>]}
MCCvNumbers == ("7" :> 7) @@ ("07" :> 7)
MCNegInf == -100

-----------------------------------------------------------------------------
(* Flags, metadata and configs of main, and the loggers *)

Cfg(parts) == [parts |-> parts, parses |-> TRUE, port |-> 0, stop |-> 0, urls |-> {"/metrics"}]
P(type, val) == [type |-> type, val |-> val, n |-> 1]
ZoneCfg == Cfg(<<P("text", <<"t">>), P("var", <<"zone">>), P("var", <<"project">>)>>)
MetaCfg == [Cfg(<<P("metadata", "lb"), P("metadata", "nil"), P("var", <<"instance_id">>)>>) EXCEPT !.stop = 1]
DiskCfg == [Cfg(<<P("env", "E"), P("env", "F"), P("extract", <<"zone">>), P("map", <<"k", "v">>), P("slice", <<"k">>)>>) EXCEPT !.port = 80]
OddCfg == Cfg(<<P("map", <<"k">>)>>)
AnyFlags == [mode |-> "run", file |-> "", profile |-> "none", stop |-> 0, cloud |-> "auto", port |-> "",
             env |-> [E |-> <<"e">>], vars |-> <<>>]
MCFlags ==
  {[AnyFlags EXCEPT !.mode = m] : m \in {"run", "package", "dump", "test", "version", "bad"}} \union
  {[AnyFlags EXCEPT !.mode = m, !.file = "f"] : m \in {"test", "package"}} \union
  {[AnyFlags EXCEPT !.cloud = c, !.stop = 2, !.file = "f", !.vars = <<<<"zone", "z">>, <<"bad">>>>] : c \in {"gce", "ec2", "none", "other"}} \union
  {[AnyFlags EXCEPT !.port = p] : p \in {"bad", "tcp://", "80"}} \union {[AnyFlags EXCEPT !.profile = "bad"]}
MCMetadata ==
  (<<"project">> :> <<"p">>) @@ (<<"project_id">> :> <<"1">>) @@ (<<"instance_id">> :> <<"2">>) @@
  (<<"instance">> :> <<"i">>) @@ (<<"zone">> :> <<"us", "east", "b">>) @@ (<<"internal_ip">> :> <<"10">>) @@
  (<<"external_ip">> :> <<"8">>) @@ (<<"machine_type">> :> <<"zones", "e2">>) @@
  (<<"nic", "0", "ip">> :> <<"10">>) @@ (<<"nic", "0", "ipv6s">> :> <<"x">>) @@ (<<"nic", "1", "ipv6s">> :> <<"x">>) @@
  (<<"label_", "app">> :> <<"a">>)
MCOutages == {{}, {<<"project_id">>}, {<<"internal_ip">>}, {<<"instance">>}, {<<"hostname">>}, {<<"attribute">>}}
MCAttributes == [instance |-> [lb |-> <<"lb">>], project |-> [cloudprober_config |-> MetaCfg]]
MCDisks == {<<>>, [f |-> ZoneCfg, default |-> DiskCfg], [f |-> [OddCfg EXCEPT !.parses = FALSE], default |-> Unreadable],
  [f |-> OddCfg], [f |-> [ZoneCfg EXCEPT !.urls = {"/config"}]]}
MCTestVars == (<<"zone">> :> <<"us", "central1", "a">>)
MCBuiltIn == Cfg(<<>>)
Env(gce, debug, re) == [onGCE |-> gce, disable |-> FALSE, disableVar |-> "unset", debug |-> debug, debugVar |-> "no",
  debugRe |-> re, project |-> TRUE, client |-> TRUE, instance |-> TRUE, invalidNames |-> {"cp.a b"}, prefix |-> "cp."]
MCEnvs == {Env(g, d, re) : g \in BOOLEAN, d \in BOOLEAN, re \in {{}, {"cp.global"}}} \union
 {Env(FALSE, FALSE, {"bad"}), [Env(TRUE, FALSE, {}) EXCEPT !.disableVar = ""], [Env(TRUE, FALSE, {}) EXCEPT !.client = FALSE, !.debugVar = "1"]}
MCPayloads == {<<2, 3>>, <<4>>}

-----------------------------------------------------------------------------
(* Packets, sockets, messages and pipes *)

Ping(ipVer, datagram, darwin, size) == [ipVer |-> ipVer, datagram |-> datagram, darwin |-> darwin, size |-> size]
MCPingConfs ==
  {Ping(4, FALSE, FALSE, 3), Ping(4, FALSE, FALSE, 8), Ping(4, TRUE, FALSE, 7), Ping(4, TRUE, TRUE, 5),
   Ping(6, TRUE, FALSE, 4), Ping(6, FALSE, FALSE, 7)}
MCSocketConfs ==
  {[ipVer |-> v[1], source |-> v[2]] :
     v \in {<<4, NoSource>>, <<6, NoSource>>, <<4, IPv4(<<10, 0, 0, 1>>)>>, <<6, [i \in 1 .. 16 |-> i]>>}}
MCReplies == {<<>>, <<5, 10>>, <<10, 1001, 10, 10, 6>>}
MCChatter == {<<7>>, <<7, 10>>, <<10>>}
MCExtValues ==
  {<<"a">>, <<"", "target", ":", "port", "">>, <<"x", "address", "">>, <<"", "target.label.app", "b", "target.label.env", "">>,
   <<"", "b", "target", "port", "">>, <<"a", "", "b">>, <<"a", "probe">>}
ExtTarget(address, ls) == [name |-> "n", port |-> "80", address |-> address, labels |-> ls]
MCExtTargets ==
  {ExtTarget("", <<>>), ExtTarget("10", "target.label.app" :> "v"),
   ExtTarget("10", ("target.label.app" :> "v") @@ ("target.label.env" :> "target"))}

-----------------------------------------------------------------------------

processVars == <<vars, cfgVars, defVars, labelVars, tkVars, rqVars, cvVars, mainVars, logVars,
                 icmpVars, socketVars, flowVars, pipeVars>>

\* The settings of the other components do not matter.
MCInit ==
  /\ part \in ProcessParts
  /\ Init /\ DefInit /\ LabelInit
  /\ LifeInit /\ (part # "lifecycle" => cPatient)
  /\ CvInit /\ (part # "conversions" => cvConf = Conf("postgres"))
  /\ RqInit
  /\ part # "requests" \/ rqVs # {} \/ tkSource # "none" =>
       /\ rqConf = [header |-> "", port |-> 0, url |-> "", resolveFirst |-> FALSE]
       /\ rqTarget.fqdn = "f" /\ rqBody = 0
  /\ part # "requests" \/ rqVs # {} => tkSource = "none"
  /\ part # "requests" => rqVs = {}
  /\ tkInterval = IF tkCache = Plain THEN 1 ELSE 0
  /\ mFlags \in (IF part = "startup" THEN Flags ELSE {AnyFlags})
  /\ mPlatform \in (IF part = "startup" THEN Platforms ELSE {"none"})
  /\ mDisk \in (IF part = "startup" THEN Disks ELSE {<<>>})
  /\ mFailing \in (IF part = "startup" THEN Outages ELSE {{}})
  /\ MainInit
  /\ gEnv \in (IF part = "logging" THEN LogEnvs ELSE {Env(FALSE, FALSE, {})})
  /\ LogInit
  /\ icConf \in (IF part = "ping" THEN PingConfs ELSE {Ping(4, TRUE, FALSE, 7)})
  /\ IcmpInit
  /\ sdConf \in (IF part = "socket" THEN SocketConfs ELSE {[ipVer |-> 4, source |-> NoSource]})
  /\ SocketInit
  /\ flFirst \in (IF part = "flow" THEN FirstSeqs ELSE {0})
  /\ FlowInit /\ PipeInit

\* The other components stay as they are.
Still(p, vs) == IF part = p THEN TRUE ELSE UNCHANGED vs

MCNext ==
  /\ UNCHANGED part
  /\ Still("prober", vars)
  /\ Still("lifecycle", cfgVars)
  /\ Still("definitions", defVars)
  /\ Still("labels", labelVars)
  /\ Still("requests", <<tkVars, rqVars>>)
  /\ Still("conversions", cvVars)
  /\ Still("startup", mainVars)
  /\ Still("logging", logVars)
  /\ Still("ping", icmpVars)
  /\ Still("socket", socketVars)
  /\ Still("flow", flowVars)
  /\ Still("pipe", pipeVars)
  /\ \/ part = "prober" /\ Next
     \/ part = "lifecycle" /\ LifeNext
     \/ part = "definitions" /\ DefNext
     \/ part = "labels" /\ LabelNext
     \/ part = "requests" /\ RqNext
     \/ part = "conversions" /\ CvNext
     \/ part = "startup" /\ MainNext
     \/ part = "logging" /\ LogNext
     \/ part = "ping" /\ IcmpNext
     \/ part = "socket" /\ SocketNext
     \/ part = "flow" /\ FlowNext
     \/ part = "pipe" /\ PipeNext

MCSpec == MCInit /\ [][MCNext]_<<part, processVars>>

\* Bound: a program that does not wait initializes twice.
FewAttempts == ~cPatient => cAttempt <= 2

\* Bound: one run where there are validators or tokens, one kind of response where
\* there are no validators, and time passes where there are tokens.
FewRequests ==
  /\ rqVs # {} \/ tkSource # "none" => rqRuns <= 1
  /\ rqVs = {} => \A g \in DOMAIN rqHad \ {"ok"} : rqHad[g] = 0
  /\ tkSource = "none" => tkNow = 0
=============================================================================
