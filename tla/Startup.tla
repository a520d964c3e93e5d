------------------------------- MODULE Startup -------------------------------
(***************************************************************************)
(* main, from the flags to the end of the process: where the config comes  *)
(* from, the system variables and the template that uses them, the web     *)
(* pages, and the goroutines that wait for signals.  A program that has    *)
(* cloudprober as a package may call InitFromConfig again when it fails.   *)
(* Names of variables and values are sequences of their tokens.            *)
(***************************************************************************)
EXTENDS Logging, Functions

CONSTANTS
  Flags,       \* flags and environment: [mode, file, profile, stop, cloud, port, env, vars]
  Platforms,   \* what the process runs on, by the environment
  Metadata,    \* what the metadata server knows: name -> value
  Outages,     \* sets of names that the metadata server may fail for
  Attributes,  \* custom metadata, by "instance" and "project": key -> value
  Disks,       \* file -> its config, or Unreadable
  TestVars,    \* configTestVars
  BuiltIn,     \* DefaultConfig
  MaxInits,    \* bound: calls of InitFromConfig
  Unreadable, NotDefined, Failed, NoVars

VARIABLES
  mFlags, mPlatform, mDisk,
  mFailing,  \* names that the metadata server fails for now
  mPc,       \* main: "flags", "config", "init", "web", "notify", "run" or "over"
  mConfig,   \* the config that main has read
  mVars,     \* sysVars, NoVars before Init
  mText,     \* the text of the config, Failed before there is one
  mUrls,     \* URLs that the default ServeMux handles
  mProf,     \* the goroutine of setupProfiling: "off", "waits" or "signal"
  mStop,     \* the one of stop_time: "off", "waits", "signal" or "sleeps"
  mLeft,     \* what is left of its sleep
  mSys,      \* sysvars.Start: "off", "runs" or "done"
  mSent,     \* the EventMetrics it sent last
  mExit,     \* exit code: "running", "0", "1", or "killed" by a signal
  mInits,    \* history: outcomes of InitFromConfig
  mSignals   \* history: signals received

mainVars == <<mFlags, mPlatform, mDisk, mFailing, mPc, mConfig, mVars, mText, mUrls, mProf,
              mStop, mLeft, mSys, mSent, mExit, mInits, mSignals>>

-----------------------------------------------------------------------------
(* sysvars *)

OnGCE == mPlatform \in {"gce", "gke", "job", "service"}
Gets(name) == name \in DOMAIN Metadata /\ name \notin mFailing
Only(names) == Restrict(Metadata, names)
Over(vars, more) == [n \in DOMAIN vars \union DOMAIN more |->
                       IF n \in DOMAIN more THEN more[n] ELSE vars[n]]
Set(vars, name, val) == Over(vars, <<name>> :> val)
Result(vars, err) == [vars |-> vars, err |-> err]

CommonVars == {<<"project">>, <<"project_id">>, <<"instance_id">>}

\* Mutant of commonGCEGKEVars: a variable that fails is left out.
commonGCEGKEVars_Skip(vars) == {Result(Over(vars, Only({n \in CommonVars : Gets(n)})), FALSE)}

\* It ranges over a map: any of those that do not fail may be set before the first
\* that does.
commonGCEGKEVars(vars) ==
  LET good == {n \in CommonVars : Gets(n)}
  IN IF good = CommonVars THEN {Result(Over(vars, Only(good)), FALSE)}
     ELSE {Result(Over(vars, Only(some)), TRUE) : some \in SUBSET good}

\* One turn of the loop over zone, internal_ip, ...; getLastToken for the last two.
InstanceVars == <<"zone", "internal_ip", "external_ip", "instance_template", "machine_type">>
InstanceVar(r, k) ==
  IF r.err THEN r
  ELSE IF k \in {"instance_template", "machine_type"}
  THEN Result(Set(r.vars, k, IF Gets(<<k>>) THEN <<Last(Metadata[<<k>>])>> ELSE <<"undefined">>), FALSE)
  ELSE IF Gets(<<k>>) THEN Result(Set(r.vars, k, Metadata[<<k>>]), FALSE) ELSE Result(r.vars, TRUE)

\* addGceNicInfo: the IPv6 address of a NIC has the path as its name.
NicVars ==
  LET nics == {n \in DOMAIN Metadata : n[1] = "nic" /\ Gets(n) /\ Gets(<<"nic", n[2], "ip">>)}
  IN Over(Only(nics), IF <<"nic", "0", "ipv6s">> \in nics
                      THEN <<"internal_ipv6_ip">> :> Metadata[<<"nic", "0", "ipv6s">>] ELSE <<>>)

\* labelsFromGCE: without access to the API there are no labels.
GCELabels == Only({n \in DOMAIN Metadata : n[1] = "label_" /\ n \notin mFailing})

gceVars(vars) ==
  LET common == commonGCEGKEVars(vars)
      Rest(v) ==
        CASE mPlatform = "gke"     -> Result(Set(v, "namespace", <<"ns">>), FALSE)
          [] mPlatform = "job"     -> Result(Set(v, "job_name", <<"job">>), FALSE)
          [] mPlatform = "service" -> Result(Set(v, "service_name", <<"svc">>), FALSE)
          [] mPlatform = "gce" /\ ~Gets(<<"instance">>) -> Result(Set(v, "instance", <<"HOSTNAME">>), FALSE)
          [] mPlatform = "gce" /\ Gets(<<"instance">>) ->
               LET r == FoldLeft(InstanceVar, Result(Set(v, "instance", Metadata[<<"instance">>]), FALSE),
                                 InstanceVars)
                   region == Set(r.vars, "region", Front(r.vars[<<"zone">>]))
               IN IF r.err THEN r ELSE Result(Over(Over(region, NicVars), GCELabels), FALSE)
  IN {IF c.err THEN c ELSE Rest(c.vars) : c \in common}

\* ec2Vars, when the document is there; an error is the same as not being on EC2.
ec2Vars(vars) == Set(vars, "EC2_Region", <<"r">>)

initCloudMetadata(vars) ==
  LET fv == mFlags.cloud
  IN CASE fv \in {"auto", "gce"} /\ OnGCE -> gceVars(vars)
       [] fv \in {"auto", "ec2"} /\ mPlatform = "ec2" -> {Result(ec2Vars(vars), FALSE)}
       [] fv \notin {"", "none", "auto", "gce", "ec2"} -> {Result(vars, TRUE)}
       [] OTHER -> {Result(vars, FALSE)}

\* Init.  Variables that are there already, whatever came of the call that made
\* them, are left alone.
SysvarsInit(userVars) ==
  LET version == <<"version">> :> <<"v">>
      host    == Set(version, "hostname", <<"h">>)
  IN IF mVars # NoVars THEN {Result(mVars, FALSE)}
     ELSE IF <<"hostname">> \in mFailing THEN {Result(version, TRUE)}
     ELSE {IF r.err THEN r ELSE Result(Over(r.vars, userVars), FALSE) : r \in initCloudMetadata(host)}

\* Of <<key, value>>; others are skipped.
parseEnvVars(vars) ==
  FoldLeft(LAMBDA m, kv : IF Len(kv) = 2 THEN Set(m, kv[1], <<kv[2]>>) ELSE m, <<>>, vars)

Vars(vars) == IF vars = NoVars THEN <<>> ELSE vars

-----------------------------------------------------------------------------
(* config: a config has parts, which are text or what the template replaces *)

\* The value of a key in custom metadata: the instance's, or the project's when the
\* instance has none.
Attribute(key) ==
  IF ~OnGCE \/ <<"attribute">> \in mFailing THEN Failed
  ELSE IF key \in DOMAIN Attributes.instance THEN Attributes.instance[key]
  ELSE IF key \in DOMAIN Attributes.project THEN Attributes.project[key] ELSE NotDefined

gceCustomMetadata(key, test) ==
  IF test THEN <<key, "-test-value">>
  ELSE IF Attribute(key) = NotDefined THEN <<"undefined">> ELSE Attribute(key)

Field(vars, name) == IF name \in DOMAIN vars THEN vars[name] ELSE <<"<no value>">>

\* extractSubstring: match n of the tokens; mkMap: keys and values.
extractSubstring(val, n) == IF Len(val) <= n THEN Failed ELSE <<val[n + 1]>>
mkMap(args) == IF Len(args) % 2 = 0 THEN args ELSE Failed

Part(p, vars, test) ==
  CASE p.type = "text"     -> p.val
    [] p.type = "var"      -> Field(vars, p.val)
    [] p.type = "env"      -> IF p.val \in DOMAIN mFlags.env THEN mFlags.env[p.val] ELSE <<>>
    [] p.type = "metadata" -> gceCustomMetadata(p.val, test)
    [] p.type = "extract"  -> extractSubstring(Field(vars, p.val), p.n)
    [] p.type = "map"      -> mkMap(p.val)
    [] p.type = "slice"    -> p.val

parseTemplate(config, vars, test) ==
  LET text == [i \in DOMAIN config.parts |-> Part(config.parts[i], vars, test)]
  IN IF \E i \in DOMAIN text : text[i] = Failed THEN Failed ELSE text

\* Parse and ParseForTest: not every text is a ProberConfig.
Parse(config, vars, test) == IF config.parses THEN parseTemplate(config, vars, test) ELSE Failed

ReadFile(name) == IF name \in DOMAIN mDisk THEN mDisk[name] ELSE Unreadable

\* getConfig: the flag, custom metadata, the default file if there is one, nothing.
getConfig ==
  LET attribute == Attribute("cloudprober_config")
  IN IF mFlags.file # "" THEN ReadFile(mFlags.file)
     ELSE IF OnGCE /\ attribute \notin {Failed, NotDefined} THEN attribute
     ELSE IF "default" \in DOMAIN mDisk THEN ReadFile("default") ELSE BuiltIn

\* getDefaultServerPort: Kubernetes sets the variable to a URL.
defaultServerPort == 9313
getDefaultServerPort(config) ==
  IF config.port # 0 THEN config.port
  ELSE IF mFlags.port \in {"", "tcp://"} THEN defaultServerPort
  ELSE IF mFlags.port = "bad" THEN Failed ELSE 80

-----------------------------------------------------------------------------
(* main *)

MainInit ==
  /\ mFlags \in Flags /\ mPlatform \in Platforms /\ mDisk \in Disks /\ mFailing \in Outages
  /\ mPc = "flags" /\ mConfig = BuiltIn /\ mVars = NoVars /\ mText = Failed /\ mUrls = {}
  /\ mProf = "off" /\ mStop = "off" /\ mLeft = 0 /\ mSys = "off" /\ mSent = <<>>
  /\ mExit = "running" /\ mInits = <<>> /\ mSignals = {}

Exits(code) == mPc' = "over" /\ mExit' = code
Asleep == UNCHANGED <<mStop, mLeft, mSys, mSent>>
World == UNCHANGED <<mFlags, mPlatform, mDisk, mFailing>>

\* Arguments or a build timestamp that are not good, -version and -buildinfo.
PrintVersion ==
  /\ mPc = "flags" /\ mFlags.mode \in {"bad", "version"}
  /\ Exits(IF mFlags.mode = "bad" THEN "1" ELSE "0")
  /\ World /\ Asleep /\ UNCHANGED <<mConfig, mVars, mText, mUrls, mProf, mInits, mSignals>>

\* -dumpconfig and -configtest: errors of sysvars.Init are ignored.
DryRun ==
  /\ mPc = "flags" /\ mFlags.mode \in {"dump", "test"}
  /\ \E r \in SysvarsInit(TestVars) :
       /\ mVars' = r.vars
       /\ mConfig' = IF mFlags.mode = "dump" THEN getConfig ELSE ReadFile(mFlags.file)
       /\ mText' = IF mConfig' = Unreadable THEN Failed
                   ELSE IF mFlags.mode = "dump" THEN parseTemplate(mConfig', Vars(r.vars), FALSE)
                   ELSE Parse(mConfig', Vars(r.vars), TRUE)
       /\ Exits(IF mText' = Failed THEN "1" ELSE "0")
  /\ World /\ Asleep /\ UNCHANGED <<mUrls, mProf, mInits, mSignals>>

\* Only main profiles.
SetupProfiling ==
  /\ mPc = "flags" /\ mFlags.mode \in {"run", "package"}
  /\ mProf' = IF mFlags.mode = "run" THEN "waits" ELSE "off"
  /\ IF mFlags.profile = "bad" THEN Exits("1") ELSE mPc' = "config" /\ UNCHANGED mExit
  /\ World /\ Asleep /\ UNCHANGED <<mConfig, mVars, mText, mUrls, mInits, mSignals>>

ReadConfig ==
  /\ mPc = "config" /\ mConfig' = getConfig
  /\ IF mConfig' = Unreadable THEN Exits("1") ELSE mPc' = "init" /\ UNCHANGED mExit
  /\ World /\ Asleep /\ UNCHANGED <<mVars, mText, mUrls, mProf, mInits, mSignals>>

\* InitFromConfig, of a config whose probes, servers and surfacers are good.
InitFromConfig ==
  /\ mPc = "init" /\ Len(mInits) < MaxInits
  /\ \E r \in SysvarsInit(<<>>) :
       LET text == IF r.err THEN Failed ELSE Parse(mConfig, Vars(r.vars), FALSE)
           ok   == text # Failed /\ getDefaultServerPort(mConfig) # Failed
       IN /\ mVars' = r.vars /\ mInits' = Append(mInits, ok)
          /\ IF ok THEN mPc' = "web" /\ mText' = text /\ mUrls' = mConfig.urls /\ UNCHANGED mExit
             ELSE /\ IF mFlags.mode = "run" THEN Exits("1") ELSE UNCHANGED <<mPc, mExit>>
                  /\ UNCHANGED <<mText, mUrls>>
  /\ World /\ Asleep /\ UNCHANGED <<mConfig, mProf, mSignals>>

\* The metadata server fails for other names when the program tries again.
OutageMoves ==
  /\ mPc = "init" /\ mInits # <<>> /\ mFailing' \in Outages
  /\ UNCHANGED <<mFlags, mPlatform, mDisk, mPc, mConfig, mVars, mText, mUrls, mProf, mExit,
                 mInits, mSignals>> /\ Asleep

webUrls == {"/config", "/config-running", "/static/"}

\* web.Init.
WebInit ==
  /\ mPc = "web"
  /\ IF webUrls \intersect mUrls # {} THEN Exits("1") /\ UNCHANGED mUrls
     ELSE mPc' = "notify" /\ mUrls' = mUrls \union webUrls /\ UNCHANGED mExit
  /\ World /\ Asleep /\ UNCHANGED <<mConfig, mVars, mText, mProf, mInits, mSignals>>

stopTime == IF mFlags.stop = 0 THEN mConfig.stop ELSE mFlags.stop

\* The end of main: the goroutine of stop_time, and Start.
StartProber ==
  /\ mPc = "notify" /\ mPc' = "run" /\ mSys' = "runs"
  /\ mStop' = IF mFlags.mode = "run" /\ stopTime # 0 THEN "waits" ELSE "off"
  /\ World
  /\ UNCHANGED <<mConfig, mVars, mText, mUrls, mProf, mLeft, mSent, mExit, mInits, mSignals>>

\* The metrics of a process; that of the CPU may be missing.
runtimeVars(cpu) ==
  <<[kind |-> "CUMULATIVE", metrics |-> cpu],
    [kind |-> "CUMULATIVE", metrics |-> {"uptime_msec", "gc_time_msec", "mallocs", "frees"}],
    [kind |-> "GAUGE", metrics |-> {"goroutines", "mem_stats_sys_bytes"}]>>

\* sysvars.Start: the variables of the environment are laid over the others.
SysvarsTick ==
  /\ mSys = "runs" /\ mExit = "running"
  /\ IF mStop = "sleeps" THEN mSys' = "done" /\ UNCHANGED mSent
     ELSE /\ LET static == Set(Over(mVars, parseEnvVars(mFlags.vars)), "start_timestamp", <<"t">>)
             IN \E cpu \in {{}, {"cpu_usage_msec"}} :
                  mSent' = <<[kind |-> "GAUGE", metrics |-> static]>> \o runtimeVars(cpu)
          /\ UNCHANGED mSys
  /\ World /\ UNCHANGED <<mPc, mConfig, mVars, mText, mUrls, mProf, mStop, mLeft, mExit, mInits,
                          mSignals>>

\* A signal that nobody asked for kills the process; a channel has room for one.
Signal(sig) ==
  LET prof == mProf # "off" /\ sig = "INT"
      stop == mStop # "off"
  IN /\ mPc # "over" /\ mExit = "running" /\ sig \notin mSignals
     /\ mSignals' = mSignals \union {sig}
     /\ mProf' = IF prof THEN "signal" ELSE mProf
     /\ mStop' = IF mStop = "waits" THEN "signal" ELSE mStop
     /\ IF prof \/ stop THEN UNCHANGED <<mPc, mExit>> ELSE Exits("killed")
     /\ World /\ UNCHANGED <<mConfig, mVars, mText, mUrls, mLeft, mSys, mSent, mInits>>

\* The goroutine of setupProfiling.
ProfilingExit ==
  /\ mProf = "signal" /\ mExit = "running" /\ Exits("1")
  /\ World /\ Asleep /\ UNCHANGED <<mConfig, mVars, mText, mUrls, mProf, mInits, mSignals>>

\* The goroutine of stop_time: it cancels the context of Start and sleeps.
StopCancel ==
  /\ mStop = "signal" /\ mExit = "running"
  /\ mStop' = "sleeps" /\ mLeft' = stopTime
  /\ World /\ UNCHANGED <<mPc, mConfig, mVars, mText, mUrls, mProf, mSys, mSent, mExit, mInits,
                          mSignals>>

StopSleep ==
  /\ mStop = "sleeps" /\ mExit = "running"
  /\ IF mLeft = 0 THEN Exits("0") /\ UNCHANGED mLeft
                  ELSE mLeft' = mLeft - 1 /\ UNCHANGED <<mPc, mExit>>
  /\ World /\ UNCHANGED <<mConfig, mVars, mText, mUrls, mProf, mStop, mSys, mSent, mInits, mSignals>>

MainNext ==
  \/ PrintVersion \/ DryRun \/ SetupProfiling \/ ReadConfig \/ InitFromConfig \/ OutageMoves \/ WebInit
  \/ StartProber \/ SysvarsTick \/ ProfilingExit \/ StopCancel \/ StopSleep
  \/ \E sig \in {"INT", "TERM"} : Signal(sig)

-----------------------------------------------------------------------------
(* Properties *)

\* The variables there are on this platform.
Known ==
  {<<"version">>, <<"hostname">>} \union
  (IF ~OnGCE \/ mFlags.cloud \notin {"auto", "gce"} THEN {}
   ELSE CommonVars \union
        CASE mPlatform = "gke"     -> {<<"namespace">>}
          [] mPlatform = "job"     -> {<<"job_name">>}
          [] mPlatform = "service" -> {<<"service_name">>}
          [] mPlatform = "gce"     -> {<<"instance">>} \union
               (IF Gets(<<"instance">>) THEN {<<k>> : k \in ToSet(InstanceVars)} \union {<<"region">>} ELSE {}))

Initialized == mInits # <<>> /\ Last(mInits)
FirstTry == Len(mInits) = 1

\* The config is from the first place that has one.  Custom metadata is passed over
\* only if the server does not answer.
FromFirst ==
  LET key    == "cloudprober_config"
      places == {w \in DOMAIN Attributes : key \in DOMAIN Attributes[w]}
      first  == IF "instance" \in places THEN "instance" ELSE "project"
  IN IF mFlags.file # "" THEN mConfig = mDisk[mFlags.file]
     ELSE /\ OnGCE /\ places # {} /\ FirstTry /\ <<"attribute">> \notin mFailing =>
               mConfig = Attributes[first][key]
          /\ mConfig = BuiltIn => "default" \notin DOMAIN mDisk

\* A process that runs has all variables of its platform, each with its value,
\* and its config is the text that they make of a config from the first place that has
\* one.  After an InitFromConfig that failed variables may be missing, since
\* Init is not repeated.  The environment alone changes what is exported of them.
\* With a stop time, SIGTERM ends the process with 0 once it has slept for that
\* time; SIGINT may end it at once, since setupProfiling waits for it too.
RunsAsTold ==
  /\ Initialized =>
       /\ FromFirst
       /\ FirstTry => Known \subseteq DOMAIN mVars
       /\ \A n \in DOMAIN mVars \intersect DOMAIN Metadata :
            mVars[n] \in {Metadata[n], <<Last(Metadata[n])>>, <<"undefined">>, <<"HOSTNAME">>}
       /\ \A i \in DOMAIN mConfig.parts :
            LET p == mConfig.parts[i]
            IN p.type = "var" /\ p.val \in Known /\ FirstTry => mText[i] = mVars[p.val]
       /\ \A n \in DOMAIN mVars :
            mSent = <<>> \/ (\E i \in DOMAIN mFlags.vars : <<mFlags.vars[i][1]>> = n) \/ mSent[1].metrics[n] = mVars[n]
  /\ mPc = "over" /\ mStop # "off" /\ "INT" \notin mSignals =>
       mExit = "0" /\ mLeft = 0 /\ mSignals = {"TERM"}
  /\ mExit = "0" /\ mFlags.mode = "run" => mStop = "sleeps" /\ mSignals # {}
  /\ LogsKept
=============================================================================
