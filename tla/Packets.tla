------------------------------ MODULE Packets -------------------------------
(***************************************************************************)
(* What probes send and read, down to its bytes: the echo requests and     *)
(* replies of the ping probe and the socket they use, the messages of UDP  *)
(* flows, and the framed messages and options that an external probe       *)
(* exchanges with its process.  A byte is a number below 256; numbers have *)
(* fewer bytes than in the code.                                           *)
(***************************************************************************)
EXTENDS Validation, FiniteSets

LOCAL INSTANCE SequencesExt
LOCAL INSTANCE FiniteSetsExt

CONSTANTS
  timeBytesSize,  \* bytes of a time in a ping packet: 8
  WordBytes,      \* bytes of a sequence number: bytesInUint64, 8
  PingConfs,      \* settings of a ping probe: [ipVer, datagram, darwin, size]
  RunIDs16,       \* run IDs
  PingTimes,      \* times at which packets are sent
  Fds,            \* file descriptors
  SocketConfs,    \* [ipVer, source]; source is the bytes of an address, or NoSource
  NoSource,
  FirstSeqs,      \* sequence numbers of a flow before its first message
  Senders,        \* goroutines that send on one flow
  MaxMsgs,        \* bound: messages created
  Replies,        \* messages of an external process, as bytes
  Chatter,        \* what else it prints
  MaxPrints,      \* bound: messages and prints
  ExtValues,      \* values of options and arguments, as the words between their @s
  ExtTargets      \* targets: [name, port, address, labels]; address is "" if it does not resolve

byte == 256

\* Big endian: prepareRequestPayload, PutUint16, Uint64ToNetworkBytes.
BytesOf(n, k) == [i \in 1 .. k |-> (n \div byte ^ (k - i)) % byte]

\* bytesToTime, Uint16.
ValueOf(b) == FoldLeft(LAMBDA n, x : n * byte + x, 0, b)

-----------------------------------------------------------------------------
(* Ping packets *)

VARIABLES
  icConf,  \* the probe's settings
  icBuf,   \* pktbuf of sendPackets, used for all requests
  icReq,   \* history: the request that is under way
  icNet,   \* what the socket delivers: bytes, control messages, what happened to it
  icGot    \* the packet that was read, until the next request

icmpVars == <<icConf, icBuf, icReq, icNet, icGot>>

icmpHeaderSize == 8
minPacketSize == icmpHeaderSize + timeBytesSize
NoPacket == [bytes |-> <<>>]
NoReply == [pkt |-> "none"]
Dropped(fault, err) == [pkt |-> "dropped", fault |-> fault, err |-> err]

EchoRequest == IF icConf.ipVer = 6 THEN 128 ELSE 8
EchoReply == IF icConf.ipVer = 6 THEN 129 ELSE 0

\* One's complement sum of little-endian words, folded twice.
WordSum(b) ==
  LET word(i) == b[i] + (IF i < Len(b) THEN byte * b[i + 1] ELSE 0)
      s == FoldLeft(LAMBDA n, i : n + word(2 * i - 1), 0, [i \in 1 .. (Len(b) + 1) \div 2 |-> i])
      once == (s \div 65536) + (s % 65536)
  IN (once + (once \div 65536)) % 65536

checksum(b) == 65535 - WordSum(b)

ComputesChecksum == icConf.ipVer = 4 /\ (~icConf.datagram \/ icConf.darwin)

Packet(sum, runID, seq, time) ==
  <<EchoRequest, 0>> \o sum \o BytesOf(runID, 2) \o BytesOf(seq, 2)
    \o PatternPayload(icConf.size, BytesOf(time, timeBytesSize))

\* Mutant of prepareRequestPacket: the checksum of the last packet stays in the buffer.
prepareRequestPacket_KeepsSum(buf, runID, seq, time) ==
  LET pkt == Packet(SubSeq(buf, 3, 4), runID, seq, time)
      csum == checksum(pkt)
  IN IF ComputesChecksum THEN [pkt EXCEPT ![3] = csum % byte, ![4] = csum \div byte] ELSE pkt

\* prepareRequestPacket: all of the buffer is written.
prepareRequestPacket(buf, runID, seq, time) ==
  LET pkt == Packet(<<0, 0>>, runID, seq, time)
      csum == checksum(pkt)
  IN IF ComputesChecksum THEN [pkt EXCEPT ![3] = csum % byte, ![4] = csum \div byte] ELSE pkt

IcmpInit ==
  /\ icConf \in PingConfs
  /\ icBuf = [i \in 1 .. icmpHeaderSize + icConf.size |-> 0]
  /\ icReq = NoPacket /\ icNet = NoPacket /\ icGot = NoReply

\* sendPackets writes a request.
IcmpWrite ==
  /\ icReq = NoPacket
  /\ \E runID \in RunIDs16, n \in {0, 255}, time \in PingTimes :
       LET seq == (runID \div byte) * byte + n
       IN /\ icBuf' = prepareRequestPacket(icBuf, runID, seq, time)
          /\ icReq' = [bytes |-> icBuf', id |-> runID, seq |-> seq, time |-> time]
  /\ icGot' = NoReply
  /\ UNCHANGED <<icConf, icNet>>

\* The kernel's part in a socket of this kind: with a datagram socket it puts in an
\* ID of its own and the checksum; it strips the IP header except from IPv4
\* packets of raw sockets, and on darwin.
localPort == 513
OnWire == IF icConf.datagram THEN localPort ELSE icReq.id
KeepsHeader == icConf.ipVer = 4 /\ (~icConf.datagram \/ icConf.darwin)
IPHeaders == IF KeepsHeader THEN {20, 24} ELSE {0}
IPHeader(n) == [i \in 1 .. n |-> IF i = 1 THEN 64 + n \div 4 ELSE 0]

\* Control messages of a read: the timestamp, of one size or the other, or not at
\* all, among others.
Timestamp(len, time) == [level |-> "SOL_SOCKET", type |-> "SCM_TIMESTAMP", len |-> len, time |-> time]
Control(time) ==
  {<<Timestamp(16, time)>>, <<[Timestamp(16, 1) EXCEPT !.level = "IPPROTO_IP"], Timestamp(8, time)>>,
   <<[Timestamp(16, 1) EXCEPT !.type = "SCM_OTHER"]>>, <<Timestamp(4, time)>>}

\* Faults of the network; a positive one is the byte of the payload that changes.
NoFault == 0
Short == -1
OtherType == -2

\* The target answers, and the network may change a byte of the payload, cut the
\* reply short, or deliver another kind of ICMP message.
IcmpEcho ==
  /\ icReq # NoPacket /\ icNet = NoPacket
  /\ \E hdr \in IPHeaders, rtt \in {1, 300}, fault \in OtherType .. icConf.size :
       LET body == SubSeq(icReq.bytes, icmpHeaderSize + 1, Len(icReq.bytes))
           data == IF fault > 0 THEN [body EXCEPT ![fault] = (@ + 1) % byte] ELSE body
           type == IF fault = OtherType THEN 3 ELSE EchoReply
           reply == IPHeader(hdr) \o <<type, 0, 0, 0>> \o BytesOf(OnWire, 2) \o SubSeq(icReq.bytes, 7, 8) \o data
       IN \E oob \in Control(icReq.time + rtt) :
            icNet' = [bytes |-> IF fault = Short THEN SubSeq(reply, 1, hdr + minPacketSize - 1) ELSE reply,
                      oob |-> oob, fault |-> fault, rtt |-> rtt]
  /\ UNCHANGED <<icConf, icBuf, icReq, icGot>>

\* timestampFromControlMessage: none, or an error for one that is too small.
timestampFromControlMessage(oob) ==
  LET of == SelectSeq(oob, LAMBDA m : m.level = "SOL_SOCKET" /\ m.type = "SCM_TIMESTAMP")
  IN [zero |-> of = <<>>, err |-> of # <<>> /\ of[1].len # 8 /\ of[1].len < 16,
      time |-> IF of = <<>> THEN 0 ELSE of[1].time]

\* The IP header in front of a packet, if there is one.
Offset(b) == IF icConf.ipVer = 4 /\ b[1] \div 16 = 4 THEN (b[1] % 16) * 4 ELSE 0

validEchoReply(b) == b[Offset(b) + 1] = EchoReply

\* recvPackets reads a packet, up to matchPacket; with no timestamp it takes the
\* time of the read.
IcmpRead ==
  /\ icNet # NoPacket
  /\ LET raw == icNet.bytes
         ts == timestampFromControlMessage(icNet.oob)
     IN IF \/ ts.err \/ Len(raw) < minPacketSize
           \/ Len(raw) < Offset(raw) + minPacketSize \/ ~validEchoReply(raw)
        THEN icGot' = Dropped(icNet.fault, ts.err)
        ELSE \E late \in {0, 2} :
          LET at(from, to) == SubSeq(raw, Offset(raw) + from, to)
              data == at(9, Len(raw))
              now == icReq.time + icNet.rtt + late
              sentAt == ValueOf(SubSeq(data, 1, timeBytesSize))
          IN icGot' = [pkt |-> "reply", fault |-> icNet.fault, late |-> IF ts.zero THEN late ELSE 0,
                       id |-> ValueOf(at(5, Offset(raw) + 6)), seq |-> ValueOf(at(7, Offset(raw) + 8)),
                       sent |-> icReq, rtt |-> (IF ts.zero THEN now ELSE ts.time) - sentAt, took |-> icNet.rtt,
                       valid |-> IntegrityValidate([pattern |-> <<>>, numBytes |-> timeBytesSize], data)]
  /\ icReq' = NoPacket /\ icNet' = NoPacket
  /\ UNCHANGED <<icConf, icBuf>>

IcmpNext == IcmpWrite \/ IcmpEcho \/ IcmpRead

-----------------------------------------------------------------------------
(* The ICMP socket *)

VARIABLES
  sdConf,    \* settings of the probe
  sdFds,     \* descriptor -> who has it open: "free", "icmp", "conn" or "other"
  sdPc,      \* listenPacket: "socket", "setup", "file", "cerr"; "failed", "open", "closed"
  sdSock,    \* s, the descriptor of the socket
  sdBound,   \* the address that the socket is bound to
  sdStolen   \* history: was a descriptor of somebody else closed?

socketVars == <<sdConf, sdFds, sdPc, sdSock, sdBound, sdStolen>>

Zeros(n) == [i \in 1 .. n |-> 0]

\* net.IPv4 and ParseIP: an IPv4 address has 16 bytes, like an IPv6 one.
IPv4(b) == Zeros(10) \o <<255, 255>> \o b

\* listen: without a source address, the one for all addresses.
sourceIP == IF sdConf.source # NoSource THEN sdConf.source
            ELSE IF sdConf.ipVer = 4 THEN IPv4(Zeros(4))
            ELSE Zeros(16)

\* sockaddr: as many bytes as an address of the version has, from the first one on.
sockaddr(ip, ipVer) == SubSeq(ip, 1, IF ipVer = 4 THEN 4 ELSE 16)

SocketInit ==
  /\ sdConf \in SocketConfs /\ sdFds = [f \in Fds |-> "free"] /\ sdPc = "socket" /\ sdSock = 0
  /\ sdBound = <<>> /\ sdStolen = FALSE

\* The kernel hands out the lowest descriptor that is free.
Free == {f \in Fds : sdFds[f] = "free"}
Opened(who) == [sdFds EXCEPT ![Min(Free)] = who]

Socket ==
  /\ sdPc = "socket"
  /\ \/ sdPc' = "failed" /\ UNCHANGED <<sdFds, sdSock>>
     \/ Free # {} /\ sdFds' = Opened("icmp") /\ sdSock' = Min(Free) /\ sdPc' = "setup"
  /\ UNCHANGED <<sdConf, sdBound, sdStolen>>

\* Options and Bind, each of which may fail.
Setup ==
  /\ sdPc = "setup"
  /\ \/ sdPc' = "failed" /\ sdFds' = [sdFds EXCEPT ![sdSock] = "free"] /\ UNCHANGED sdBound
     \/ sdPc' = "file" /\ sdBound' = sockaddr(sourceIP, sdConf.ipVer) /\ UNCHANGED sdFds
  /\ UNCHANGED <<sdConf, sdSock, sdStolen>>

\* FilePacketConn duplicates the socket, f.Close closes it.
FilePacketConn ==
  /\ sdPc = "file"
  /\ \/ sdPc' = "cerr" /\ sdFds' = [sdFds EXCEPT ![sdSock] = "free"]
     \/ Free # {} /\ sdPc' = "open" /\ sdFds' = [Opened("conn") EXCEPT ![sdSock] = "free"]
  /\ UNCHANGED <<sdConf, sdSock, sdBound, sdStolen>>

\* After an error of FilePacketConn the descriptor is closed once more.
CloseAgain ==
  /\ sdPc = "cerr" /\ sdPc' = "failed"
  /\ sdStolen' = (sdFds[sdSock] # "free")
  /\ sdFds' = [sdFds EXCEPT ![sdSock] = "free"]
  /\ UNCHANGED <<sdConf, sdSock, sdBound>>

ConnClose ==
  /\ sdPc = "open" /\ sdPc' = "closed"
  /\ sdFds' = [f \in Fds |-> IF sdFds[f] = "conn" THEN "free" ELSE sdFds[f]]
  /\ UNCHANGED <<sdConf, sdSock, sdBound, sdStolen>>

\* Other goroutines open and close files and connections.
OthersOpen ==
  /\ \/ Free # {} /\ sdFds' = Opened("other")
     \/ \E f \in Fds : sdFds[f] = "other" /\ sdFds' = [sdFds EXCEPT ![f] = "free"]
  /\ UNCHANGED <<sdConf, sdPc, sdSock, sdBound, sdStolen>>

SocketNext == Socket \/ Setup \/ FilePacketConn \/ CloseAgain \/ ConnClose \/ OthersOpen

-----------------------------------------------------------------------------
(* Messages of a UDP flow *)

VARIABLES
  flSeq,    \* FlowState.seq
  flFirst,  \* history: its first value
  flPc,     \* sender -> the sequence number of its message, or -1
  flNet,    \* messages on the network
  flSent,   \* history: sequence numbers that were sent
  flGaps,   \* history: sequence numbers that could not be withdrawn
  flRead,   \* history: sequence numbers that were read
  flMade    \* messages created

flowVars == <<flSeq, flFirst, flPc, flNet, flSent, flGaps, flRead, flMade>>

Words == byte ^ WordBytes
Uint64ToNetworkBytes(n) == BytesOf(n, WordBytes)

\* NetworkBytesToUint64: of more bytes than a number has, the first ones.
NetworkBytesToUint64(b) == ValueOf(SubSeq(b, 1, IF Len(b) > WordBytes THEN WordBytes ELSE Len(b)))

Magic == 257
Msg(seq) == [magic |-> Magic, src |-> TRUE, dst |-> TRUE, seq |-> Uint64ToNetworkBytes(seq)]

FlowInit ==
  /\ flFirst \in FirstSeqs /\ flSeq = flFirst
  /\ flPc = [g \in Senders |-> -1]
  /\ flNet = {} /\ flSent = <<>> /\ flGaps = {} /\ flRead = {} /\ flMade = 0

NextSeq == (flSeq + 1) % Words

\* CreateMessage; one that is too long takes no sequence number.
CreateMessage(g) ==
  /\ flPc[g] = -1 /\ flMade < MaxMsgs /\ flMade' = flMade + 1
  /\ \/ flSeq' = NextSeq /\ flPc' = [flPc EXCEPT ![g] = NextSeq]
     \/ UNCHANGED <<flSeq, flPc>>
  /\ UNCHANGED <<flFirst, flNet, flSent, flGaps, flRead>>

\* Mutant of WithdrawMessage: the last number is taken back, whoever has it.
WithdrawMessage_Any(seq) == flSeq' = (flSeq + Words - 1) % Words /\ UNCHANGED flGaps

WithdrawMessage(seq) ==
  IF flSeq = seq
  THEN flSeq' = (flSeq + Words - 1) % Words /\ UNCHANGED flGaps
  ELSE UNCHANGED flSeq /\ flGaps' = flGaps \union {seq}

\* WriteToUDP succeeds, or fails and the message is withdrawn.
WriteMsg(g) ==
  /\ flPc[g] # -1 /\ flPc' = [flPc EXCEPT ![g] = -1]
  /\ \/ /\ flNet' = flNet \union {Msg(flPc[g])} /\ flSent' = Append(flSent, flPc[g])
        /\ UNCHANGED <<flSeq, flGaps>>
     \/ WithdrawMessage(flPc[g]) /\ UNCHANGED <<flNet, flSent>>
  /\ UNCHANGED <<flFirst, flRead, flMade>>

\* What a listener may get for a message: itself, or what is no message.
Arrivals(m) == {m, [m EXCEPT !.src = FALSE], [m EXCEPT !.dst = FALSE], [m EXCEPT !.magic = 0]}

\* NewMessage: which bytes are a message.
NewMessage(m) == m.src /\ m.dst /\ m.magic = Magic

ReadMsg ==
  /\ \E m \in flNet : \E got \in Arrivals(m) :
       /\ flNet' = flNet \ {m}
       /\ flRead' = IF NewMessage(got) THEN flRead \union {NetworkBytesToUint64(got.seq)} ELSE flRead
  /\ UNCHANGED <<flSeq, flFirst, flPc, flSent, flGaps, flMade>>

FlowNext == (\E g \in Senders : CreateMessage(g) \/ WriteMsg(g)) \/ ReadMsg

-----------------------------------------------------------------------------
(* The pipe from an external process, and what it is asked *)

VARIABLES
  piStream,   \* bytes in the pipe
  piOpen,     \* has the process not ended?
  piReading,  \* is readProbeReplies reading?
  piWritten,  \* history: messages that were written as a whole
  piRead,     \* history: messages that were read
  piPrints,   \* messages and prints
  piArg       \* the last value that was made for a target

pipeVars == <<piStream, piOpen, piReading, piWritten, piRead, piPrints, piArg>>

newline == 10

\* The text "Content-Length: n", which no other byte is like.
ContentLength(n) == 1000 + n

\* Mutant of WriteMessage: the header does not start a line.
WriteMessage_SameLine(pb) == <<ContentLength(Len(pb)), newline, newline>> \o pb

WriteMessage(pb) == <<newline, ContentLength(Len(pb)), newline, newline>> \o pb

\* Where the lines of what is read begin, and the end of the line from i on, 0 if there
\* is none yet.
LineStarts(s) == {i \in DOMAIN s : i = 1 \/ s[i - 1] = newline}
LineEnd(s, i) == LET ends == {j \in i .. Len(s) : s[j] = newline} IN IF ends = {} THEN 0 ELSE Min(ends)

\* readPayload: lines up to the header, the line after it, and as many bytes as the
\* header says.  rest is what is left; "more" if a read would block, or finds the
\* end of the pipe.
More == [more |-> TRUE, payload |-> <<>>, rest |-> <<>>]
readPayload(s) ==
  LET headers == {i \in LineStarts(s) : s[i] >= ContentLength(0) /\ LineEnd(s, i) > 0}
      header == Min(headers)
      blank == LineEnd(s, LineEnd(s, header) + 1)
      end == blank + s[header] - ContentLength(0)
  IN IF headers = {} \/ blank = 0 \/ end > Len(s)
     THEN More
     ELSE [more |-> FALSE, payload |-> SubSeq(s, blank + 1, end), rest |-> SubSeq(s, end + 1, Len(s))]

\* Which words of a value validLabelRe finds: matches do not share an @.
ValidLabels == {"target", "address", "port", "probe", "target.label.app", "target.label.env"}
updateLabelKeys(words) ==
  LET found[i \in DOMAIN words] ==
        i > 1 /\ i < Len(words) /\ words[i] \in ValidLabels /\ ~found[i - 1]
  IN {words[i] : i \in {j \in DOMAIN words : found[j]}}

\* labels: what is known of a target, of what is asked for.
labels(keys, ep) ==
  LET known == {"probe", "target", "port"} \union (IF ep.address = "" THEN {} ELSE {"address"}) \union DOMAIN ep.labels
      value(k) == CASE k = "probe" -> "p" [] k = "target" -> ep.name [] k = "port" -> ep.port
                    [] k = "address" -> ep.address [] OTHER -> ep.labels[k]
  IN [k \in known \intersect keys |-> value(k)]

Joined(words) == FoldLeft(LAMBDA s, w : s \o <<"@", w>>, <<Head(words)>>, Tail(words))

\* SubstituteLabels: every other word is a label, if an @ follows.
Missing(words, ls) ==
  {j \in 2 .. Len(words) - 1 : j % 2 = 0 /\ words[j] # "" /\ words[j] \notin DOMAIN ls}
SubstituteLabels(words, ls) ==
  LET part(j) == IF j % 2 = 1 THEN <<words[j]>>
                 ELSE IF j = Len(words) THEN <<"@", words[j]>>
                 ELSE IF words[j] = "" THEN <<"@">>
                 ELSE IF words[j] \in DOMAIN ls THEN <<ls[words[j]]>>
                 ELSE <<"@", words[j], "@">>
  IN IF DOMAIN ls = {} THEN [out |-> Joined(words), found |-> Len(words) = 1]
     ELSE [out |-> FlattenSeq([j \in DOMAIN words |-> part(j)]), found |-> Missing(words, ls) = {}]

\* The value of an option of sendRequest, which is as configured if a label is
\* missing, or of an argument of runOnceProbe, which has the others.
Value(mode, words, keys, ep) ==
  LET res == SubstituteLabels(words, labels(keys, ep))
  IN IF keys = {} \/ (mode = "server" /\ ~res.found) THEN Joined(words) ELSE res.out

PipeInit ==
  /\ piStream = <<>> /\ piOpen = TRUE /\ piReading = TRUE /\ piWritten = <<>> /\ piRead = <<>>
  /\ piPrints = 0 /\ piArg = [mode |-> "none"]

\* A value is made for a target.
PipeRequest ==
  /\ piPrints = 0 /\ piArg.mode = "none"
  /\ \E mode \in {"server", "once"}, words \in ExtValues, other \in ExtValues, ep \in ExtTargets :
       piArg' = [mode |-> mode, words |-> words, ep |-> ep,
                 out |-> Value(mode, words, updateLabelKeys(words) \union updateLabelKeys(other), ep)]
  /\ UNCHANGED <<piStream, piOpen, piReading, piWritten, piRead, piPrints>>

\* The process writes a reply, or prints something else.
PipeWrite ==
  /\ piOpen /\ piPrints < MaxPrints /\ piPrints' = piPrints + 1
  /\ \/ \E pb \in Replies : piStream' = piStream \o WriteMessage(pb) /\ piWritten' = Append(piWritten, pb)
     \/ \E text \in Chatter : piStream' = piStream \o text /\ UNCHANGED piWritten
  /\ piArg' = [mode |-> "none"]
  /\ UNCHANGED <<piOpen, piReading, piRead>>

\* The process ends, maybe in the middle of a reply.
PipeEnds ==
  /\ piOpen /\ piOpen' = FALSE /\ piArg' = [mode |-> "none"]
  /\ \E pb \in Replies, n \in 0 .. 4 + Max({Len(r) : r \in Replies}) :
       piStream' = piStream \o SubSeq(WriteMessage(pb), 1, IF n < Len(WriteMessage(pb)) THEN n ELSE 0)
  /\ UNCHANGED <<piReading, piWritten, piRead, piPrints>>

\* readProbeReplies: a reply, or the end of the pipe.  (An end in the middle of a
\* reply is an error, after which the next read finds the end.)
PipeRead ==
  /\ piReading
  /\ LET r == readPayload(piStream)
     IN IF r.more
        THEN ~piOpen /\ piReading' = FALSE /\ piStream' = <<>> /\ UNCHANGED piRead
        ELSE piStream' = r.rest /\ piRead' = Append(piRead, r.payload) /\ UNCHANGED piReading
  /\ UNCHANGED <<piOpen, piWritten, piPrints, piArg>>

PipeNext == PipeRequest \/ PipeWrite \/ PipeEnds \/ PipeRead

-----------------------------------------------------------------------------
(* Properties *)

\* Every echo request has a correct checksum where the probe computes it, although
\* all of them are made in one buffer.  A reply is dropped only if it is
\* short, of another type or has an unusable timestamp; the others have the ID, the
\* sequence number and the round trip time of the request, with and without an
\* IP header.  The integrity check finds a byte that was changed on the way, unless
\* it belongs to the time and the payload has no second copy of it.
PingDecodes ==
  /\ icReq # NoPacket /\ ComputesChecksum => WordSum(icReq.bytes) = 65535
  /\ icGot.pkt = "dropped" => icGot.fault < 0 \/ icGot.err
  /\ icGot.pkt = "reply" =>
       /\ icGot.fault >= 0 /\ icGot.seq = icGot.sent.seq
       /\ icGot.id = IF icConf.datagram THEN localPort ELSE icGot.sent.id
       /\ icGot.valid = IF \/ icGot.fault > timeBytesSize
                           \/ icGot.fault > 0 /\ icGot.fault + timeBytesSize <= icConf.size
                        THEN "fail" ELSE "pass"
       /\ icGot.fault = NoFault \/ icGot.fault > timeBytesSize => icGot.rtt = icGot.took + icGot.late

\* listenPacket leaves a descriptor open only as the connection it returns, and closes none
\* of others, unless FilePacketConn fails and somebody got the number of the
\* socket before it is closed again.  The socket has the source address that was
\* configured, if it is an IPv6 one; with an IPv4 one, whose first bytes of 16 are
\* 0, it is bound to all addresses.
SocketsAccounted ==
  /\ sdPc \in {"socket", "failed", "closed"} => \A f \in Fds : sdFds[f] \in {"free", "other"}
  /\ sdPc = "open" =>
       /\ \E c \in Fds : sdFds[c] = "conn" /\ \A f \in Fds \ {c} : sdFds[f] \in {"free", "other"}
       /\ sdBound = IF sdConf.ipVer = 6 /\ sdConf.source # NoSource THEN sdConf.source
                    ELSE Zeros(IF sdConf.ipVer = 4 THEN 4 ELSE 16)
  /\ sdStolen => sdPc = "failed"

\* Goroutines of a UDP probe that send on one flow (targets of the same name) never
\* send the same sequence number, also where it wraps around and where writes
\* fail; a number is left out only if a message with a higher one was created
\* before it could be withdrawn.  What a receiver reads was sent.
FlowsNumbered ==
  /\ IsInjective(flSent)
  /\ \A i \in 1 .. (flSeq + Words - flFirst) % Words :
       LET n == (flFirst + i) % Words
       IN n \in ToSet(flSent) \union flGaps \union {flPc[g] : g \in Senders}
  /\ flRead \subseteq ToSet(flSent)

\* The replies of an external process are read as they were written, in that order
\* and all of them, whatever the process prints in between and wherever it ends.
RepliesFramed ==
  /\ IsPrefix(piRead, piWritten)
  /\ ~piReading => piRead = piWritten

\* If every other word of a value is a label that is known of the target, the
\* value has all of them, and the text in between as it is configured.
ValuesSubstituted ==
  piArg.mode # "none" =>
    LET words == piArg.words
        ls == labels(ValidLabels, piArg.ep)
    IN (Len(words) % 2 = 1 /\ \A j \in DOMAIN words : j % 2 = 0 => words[j] \in DOMAIN ls) =>
         piArg.out = [j \in DOMAIN words |-> IF j % 2 = 0 THEN ls[words[j]] ELSE words[j]]

\* What is sent arrives as what it was: echo packets, the socket that carries them,
\* numbered messages, and the messages and values of external probes.
PacketsIntact ==
  PingDecodes /\ SocketsAccounted /\ FlowsNumbered /\ RepliesFramed /\ ValuesSubstituted
=============================================================================
