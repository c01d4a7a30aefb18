------------------------------- MODULE Handshake -------------------------------
(***************************************************************************)
(* The blocking handshake one pool thread runs for one session: createProxy *)
(* (session.cpp), Socks4::init (socks4.cpp) or Socks5::init (socks5.cpp),   *)
(* TcpSession::connect, and the row createRecord inserts.                   *)
(*                                                                          *)
(* pc names the field about to be read, or the call about to be made.  The  *)
(* client may stop sending (end of file) or vanish (reset) between any two  *)
(* steps; a stream error is sticky, which is what lets Socks4::init ignore  *)
(* the result of readPort.  ProxyServer takes the handshake as one step with *)
(* two outcomes: OutcomeSummary is what it relies on.                       *)
(***************************************************************************)
EXTENDS Naturals, Sequences, Wire

CONSTANTS
    MaxEndpoints,       \* bound on the addresses a name resolves to
    Words               \* the ports and address groups there can be, as pairs of bytes

ASSUME EndpointsAssumption == MaxEndpoints \in Nat \ {0}
ASSUME WordsAssumption == Words \subseteq Pairs

VARIABLES
    auth,       \* Socks5::AUTH_FLAG, fixed when the server starts
    pc,         \* the next read or call
    ver,        \* the SOCKS version of the session, 0 before it is known
    stream,     \* the client's side of the socket: "open", "eof" or "reset"
    peer,       \* _server_socket: "none", "connected" or "gone"
    fields,     \* the request fields read so far
    cmd,        \* _cmd of a SOCKS5 request: "none", "connect" or "other"
    group,      \* a group of an IPv6 DST.ADDR, <<>> for another kind of address
    tried,      \* what each connection attempt of connect() gave, in order
    left,       \* endpoints of the resolved name that are not tried yet
    ec,         \* the error code connect() works with
    bound,      \* the port _server_socket is bound to, <<>> before it is
    reply,      \* the reply code about to be written
    replies,    \* the replies the client was sent
    told,       \* BND.PORT of the reply of success
    row,        \* the session's row in the statistics database
    result      \* "running", then "true", "false" or "threw"

request == <<auth, ver, stream, fields, cmd, group>>
connection == <<peer, tried, left, ec, bound>>
vars == <<request, connection, pc, reply, replies, told, row, result>>

Errors == {"host_not_found", "host_unreachable", "connection_aborted",
           "connection_refused", "timed_out", "network_unreachable", "other"}

\* The fields of a SOCKS4 request, and of a SOCKS5 negotiation and request.
Fields4 == {"cd", "port", "address", "userid"}
Credentials == {"authver", "uname", "passwd"}
Fields5 == {"methods", "version", "cmd", "address", "port"} \cup Credentials

\* The fields each protocol has the code read before a connection is made.
Required == IF ver = 4 THEN Fields4 ELSE IF auth THEN Fields5 ELSE Fields5 \ Credentials

\* The reply code Socks5::connect sends for an error code.
Rep(e) ==
    CASE e \in {"host_not_found", "host_unreachable"} -> "host_unreachable"
      [] e = "connection_aborted" -> "not_allowed"
      [] e = "connection_refused" -> "refused"
      [] e = "timed_out" -> "ttl_expired"
      [] e = "network_unreachable" -> "net_unreachable"
      [] OTHER -> "failure"

Init ==
    /\ auth \in BOOLEAN
    /\ pc = "ver" /\ ver = 0 /\ stream = "open" /\ peer = "none"
    /\ fields = {} /\ cmd = "none" /\ group = <<>> /\ bound = <<>> /\ told = <<>> /\ tried = <<>> /\ left = 0 /\ ec = "none"
    /\ reply = "none" /\ replies = <<>> /\ row = "none" /\ result = "running"
--------------------------------------------------------------------------------
(* Reading and writing. *)

\* The blocking read of field f gets its bytes, or fails.
Reads(f) == pc = f /\ stream = "open"
CannotRead(f) == pc = f /\ stream # "open"

\* The handshake ends.
Ends(r) == pc' = "done" /\ result' = r
Fails == Ends("false") /\ UNCHANGED <<reply, replies, told>>
\* The handshake goes on; a field that was read is recorded.
GoesTo(p) == pc' = p /\ UNCHANGED <<result, reply, replies, told>>
GoesToReply(p, code) == pc' = p /\ reply' = code /\ UNCHANGED <<result, replies, told>>
Got(f) == fields' = fields \cup {f} /\ UNCHANGED <<auth, ver, stream, cmd, group>>

\* A field whose content does not matter is read, or the session is dropped.
ReadField(f, next) ==
    /\ \/ Reads(f) /\ Got(f) /\ GoesTo(next)
       \/ CannotRead(f) /\ Fails /\ UNCHANGED request
    /\ UNCHANGED <<connection, row>>

\* A field that may also have a content the code drops the session for.
ReadChecked(f, next) ==
    \/ ReadField(f, next)
    \/ Reads(f) /\ Fails /\ UNCHANGED <<request, connection, row>>

\* A write: it fails, as far as the code can tell, only on a reset connection.
\* The SOCKS5 reply of success carries the bound port.
Sends(token) ==
    /\ stream # "reset" /\ replies' = Append(replies, token)
    /\ told' = IF ver = 5 /\ token = "granted" THEN BindPortBytes(Word(bound)) ELSE told
Unsent == stream = "reset" /\ UNCHANGED <<replies, told>>
--------------------------------------------------------------------------------
(* createProxy *)

CreateProxy ==
    /\ \/ Reads("ver") /\ ver' = 4 /\ GoesTo("cd")
       \/ Reads("ver") /\ ver' = 5 /\ GoesTo("methods")
       \/ pc = "ver" /\ Fails /\ UNCHANGED ver
    /\ UNCHANGED <<auth, stream, fields, cmd, group, connection, row>>
--------------------------------------------------------------------------------
(* Socks4::init *)

Cd == ver = 4 /\ ReadChecked("cd", "port")

\* The result of readPort is ignored: an error shows at the next read.
Port4 ==
    /\ ver = 4 /\ pc = "port"
    /\ IF stream = "open" THEN Got("port") ELSE UNCHANGED request
    /\ GoesTo("address")
    /\ UNCHANGED <<connection, row>>

Address4 == ver = 4 /\ ReadField("address", "userid")

UserId == ver = 4 /\ ReadField("userid", "resolve")
--------------------------------------------------------------------------------
(* Socks5::init up to the request *)

\* Seeded bug: the next step does not look at the answer of checkMethod.
MethodsUnchecked ==
    /\ ver = 5 /\ pc = "methods"
    /\ \/ Reads("methods") /\ Got("methods") /\ GoesToReply("sendmethod", "method")
       \/ GoesToReply("sendmethod", "method") /\ UNCHANGED request
    /\ UNCHANGED <<connection, row>>

\* checkMethod: the server's method is among those offered, or the answer is 0xFF.
Methods ==
    /\ ver = 5 /\ pc = "methods"
    /\ \/ Reads("methods") /\ Got("methods") /\ GoesToReply("sendmethod", "method")
       \/ GoesToReply("sendmethod", "no_method") /\ UNCHANGED request
    /\ UNCHANGED <<connection, row>>

\* Seeded bug: the handshake goes on although no method was acceptable.
SendMethodGoesOn ==
    /\ pc = "sendmethod"
    /\ pc' = (IF auth THEN "authver" ELSE "version")
    /\ Sends(reply) \/ Unsent
    /\ UNCHANGED <<request, connection, reply, row, result>>

\* sendMethodResponse: the handshake goes on if the server's method was sent.
SendMethod ==
    /\ pc = "sendmethod"
    /\ IF reply = "method" /\ stream # "reset"
       THEN pc' = (IF auth THEN "authver" ELSE "version") /\ UNCHANGED result
       ELSE Ends("false")
    /\ Sends(reply) \/ Unsent
    /\ UNCHANGED <<request, connection, reply, row>>

AuthVersion == ReadChecked("authver", "uname")

UserName == ReadChecked("uname", "passwd")

\* hasUser decides what is answered.
Password ==
    /\ \/ /\ Reads("passwd") /\ Got("passwd")
          /\ \E code \in {"auth_ok", "auth_denied"} : GoesToReply("sendauth", code)
       \/ CannotRead("passwd") /\ Fails /\ UNCHANGED request
    /\ UNCHANGED <<connection, row>>

\* The answer to the credentials; they were accepted if it says so.
SendAuth ==
    /\ pc = "sendauth"
    /\ IF reply = "auth_ok" /\ stream # "reset"
       THEN pc' = "version" /\ UNCHANGED result
       ELSE Ends("false")
    /\ Sends(reply) \/ Unsent
    /\ UNCHANGED <<request, connection, reply, row>>

\* readCommandRequest; a wrong version, and a read that failed, get an error reply.
Version ==
    /\ pc = "version"
    /\ \/ Reads("version") /\ Got("version") /\ GoesTo("cmd")
       \/ GoesToReply("sendrefusal", "failure") /\ UNCHANGED request
    /\ UNCHANGED <<connection, row>>

\* The command is kept, and only looked at after the whole request.
Command ==
    /\ \/ /\ Reads("cmd") /\ GoesTo("address")
          /\ cmd' \in {"connect", "other"} /\ fields' = fields \cup {"cmd"}
          /\ UNCHANGED <<auth, ver, stream, group>>
       \/ CannotRead("cmd") /\ Fails /\ UNCHANGED request
    /\ UNCHANGED <<connection, row>>

\* readAddress: an unknown address type is refused, an empty name is dropped silently; of
\* the eight groups of an IPv6 address one stands for all.
Address5 ==
    \/ ver = 5 /\ ReadChecked("address", "port")
    \/ /\ ver = 5 /\ Reads("address") /\ GoesTo("port")
       /\ group' \in Words /\ fields' = fields \cup {"address"}
       /\ UNCHANGED <<auth, ver, stream, cmd, connection, row>>
    \/ /\ ver = 5 /\ Reads("address") /\ GoesToReply("sendrefusal", "addr_type")
       /\ UNCHANGED <<request, connection, row>>

Port5 ==
    /\ ver = 5
    /\ \/ /\ Reads("port") /\ Got("port")
          /\ IF cmd = "connect" THEN GoesTo("resolve")
                                ELSE GoesToReply("sendrefusal", "command")
       \/ CannotRead("port") /\ Fails /\ UNCHANGED request
    /\ UNCHANGED <<connection, row>>
--------------------------------------------------------------------------------
(* TcpSession::connect *)

Resolve ==
    /\ pc = "resolve"
    /\ \/ \E n \in 1 .. MaxEndpoints :
             left' = n /\ ec' = "host_not_found" /\ GoesTo("connect")
       \/ \E e \in {"host_not_found", "other"} :
             ec' = e /\ UNCHANGED left /\ GoesTo("connected")
    /\ UNCHANGED <<request, peer, tried, bound, row>>

\* One turn of the loop: the socket is closed and the next endpoint tried.
ConnectWhile(goesOn) ==
    /\ pc = "connect"
    /\ IF goesOn
       THEN /\ \E e \in Errors \cup {"none"} :
                  /\ ec' = e /\ tried' = Append(tried, e)
                  /\ \/ e = "none" /\ peer' = "connected" /\ bound' \in Words
                     \/ e # "none" /\ peer' = "none" /\ UNCHANGED bound
            /\ left' = left - 1
            /\ GoesTo("connect")
       ELSE GoesTo("connected") /\ UNCHANGED connection
    /\ UNCHANGED <<request, row>>

\* Seeded bug: the loop does not stop when no endpoint is left.
ConnectPastEnd == ConnectWhile(ec # "none" /\ left >= 0)

\* The loop: while there is an error and an endpoint, it is tried on a fresh socket.
Connect == ConnectWhile(ec # "none" /\ left > 0)

\* Past the loop with a connection: remote_endpoint() throws if the server has gone since.
ConnectThrows ==
    /\ pc = "connected" /\ ec = "none" /\ peer = "gone"
    /\ Ends("threw") /\ UNCHANGED <<reply, replies, told, request, connection, row>>

\* What each protocol answers: to an error code, or to a connection that is still there.
Connected4 ==
    /\ pc = "connected" /\ ver = 4
    /\ \/ ec = "none" /\ peer = "connected" /\ GoesToReply("sendgrant", "granted")
       \/ ec # "none" /\ GoesToReply("sendrefusal", "rejected")
    /\ UNCHANGED <<request, connection, row>>

\* The same for Socks5::connect, with its code for every error.
Connected5 ==
    /\ pc = "connected" /\ ver = 5
    /\ \/ ec = "none" /\ peer = "connected" /\ GoesToReply("sendgrant", "granted")
       \/ ec # "none" /\ GoesToReply("sendrefusal", Rep(ec))
    /\ UNCHANGED <<request, connection, row>>

\* Seeded bug: the row is created before the reply is sent.
SendGrant4AfterRecord ==
    /\ pc = "sendgrant" /\ ver = 4
    /\ Sends(reply) \/ Unsent
    /\ row' = "active"
    /\ IF stream = "reset" THEN Ends("false") ELSE pc' = "record" /\ UNCHANGED result
    /\ UNCHANGED <<request, connection, reply>>

\* Socks4 goes on only if the reply GRANTED was written.
SendGrant4 ==
    /\ pc = "sendgrant" /\ ver = 4
    /\ Sends(reply) \/ Unsent
    /\ IF stream = "reset" THEN Ends("false") ELSE pc' = "record" /\ UNCHANGED result
    /\ UNCHANGED <<request, connection, reply, row>>

\* Socks5 ignores what sendCommandResponse returns.
SendGrant5 ==
    /\ pc = "sendgrant" /\ ver = 5
    /\ Sends(reply) \/ Unsent
    /\ pc' = "record"
    /\ UNCHANGED <<request, connection, reply, row, result>>

\* sendErrorResponse, and the REJECTED reply of Socks4.
SendRefusal ==
    /\ pc = "sendrefusal"
    /\ Sends(reply) \/ Unsent
    /\ Ends("false")
    /\ UNCHANGED <<request, connection, reply, row>>

\* Seeded bug: a session without a row is dropped.
CreateRecordOrFail ==
    /\ pc = "record"
    /\ \/ stream = "reset" /\ Ends("threw") /\ UNCHANGED row
       \/ Ends("true") /\ row' = "active"
       \/ Ends("false") /\ UNCHANGED row
    /\ UNCHANGED <<request, connection, reply, replies, told>>

\* createRecord: remote_endpoint() throws if the client is gone; a database error
\* leaves the session without a row, and the handshake succeeds all the same.
CreateRecord ==
    /\ pc = "record"
    /\ \/ stream = "reset" /\ Ends("threw") /\ UNCHANGED row
       \/ stream # "reset" /\ Ends("true") /\ row' = "active"
       \/ stream # "reset" /\ Ends("true") /\ UNCHANGED row
    /\ UNCHANGED <<request, connection, reply, replies, told>>
--------------------------------------------------------------------------------
(* The environment: the client stops sending or vanishes, the server vanishes. *)

ClientLeaves ==
    /\ result = "running"
    /\ \/ stream = "open" /\ stream' = "eof"
       \/ stream \in {"open", "eof"} /\ stream' = "reset"
    /\ UNCHANGED <<auth, pc, ver, fields, cmd, group, connection, reply, replies, told, row, result>>

ServerLeaves ==
    /\ result = "running" /\ peer = "connected" /\ peer' = "gone"
    /\ UNCHANGED <<request, pc, tried, left, ec, bound, reply, replies, told, row, result>>

Socks4Step == Cd \/ Port4 \/ Address4 \/ UserId
Socks5Step == \/ Methods \/ SendMethod \/ AuthVersion \/ UserName \/ Password \/ SendAuth
              \/ Version \/ Command \/ Address5 \/ Port5
ConnectStep == \/ Resolve \/ Connect \/ ConnectThrows \/ Connected4 \/ Connected5
               \/ SendGrant4 \/ SendGrant5 \/ SendRefusal \/ CreateRecord
Step == CreateProxy \/ Socks4Step \/ Socks5Step \/ ConnectStep

Next == Step \/ ClientLeaves \/ ServerLeaves

Spec == Init /\ [][Next]_vars
--------------------------------------------------------------------------------
(* Properties. *)

Codes == {"none", "method", "no_method", "auth_ok", "auth_denied", "granted", "rejected",
          "failure", "addr_type", "command"} \cup {Rep(e) : e \in Errors}
Refusals == {"rejected", "failure", "addr_type", "command"} \cup {Rep(e) : e \in Errors}

\* Type invariant.
TypeOK ==
    /\ auth \in BOOLEAN /\ ver \in {0, 4, 5}
    /\ pc \in Fields4 \cup Fields5 \cup {"ver", "sendmethod", "sendauth", "resolve", "connect",
                "connected", "sendgrant", "sendrefusal", "record", "done"}
    /\ stream \in {"open", "eof", "reset"} /\ peer \in {"none", "connected", "gone"}
    /\ {group, bound} \subseteq Words \cup {<<>>} /\ told \in Pairs \cup {<<>>}
    /\ fields \subseteq Fields4 \cup Fields5 /\ cmd \in {"none", "connect", "other"}
    /\ tried \in Seq(Errors \cup {"none"}) /\ left \in 0 .. MaxEndpoints
    /\ ec \in Errors \cup {"none"} /\ reply \in Codes
    /\ replies \in Seq(Codes \ {"none"})
    /\ row \in {"none", "active"} /\ result \in {"running", "true", "false", "threw"}

\* The conversations the two protocols allow, as the server's half of them: at most one
\* final answer, nothing after a refusal, the method and the credentials before it.
Final == {<<>>} \cup {<<c>> : c \in Refusals \cup {"granted"}}
Negotiation ==
    IF auth THEN {<<"method", "auth_ok">>} ELSE {<<"method">>}
Dialogues ==
    IF ver = 4 THEN Final
    ELSE {<<>>, <<"no_method">>, <<"method">>}
         \cup (IF auth THEN {<<"method", "auth_denied">>} ELSE {})
         \cup {n \o f : n \in Negotiation, f \in Final}
RepliesInProtocol == replies \in Dialogues

\* No connection is attempted for a request that was cut short or refused, although
\* Socks4::init does not look at the result of readPort, and none by SOCKS5 before the
\* negotiation the server is set to, the credentials included.  A SOCKS4 client is never
\* asked for credentials, whatever the server is set to: that is not what is promised
\* (CredentialsChecked).
ConnectsOnFullRequest ==
    pc \in {"resolve", "connect", "connected", "sendgrant", "record"} \/ tried # <<>> =>
        /\ Required \subseteq fields
        /\ ver = 5 => cmd = "connect" /\ \E n \in Negotiation : SubSeq(replies, 1, Len(n)) = n

\* config.txt:24 of the setting auth: "Is server checking client credentials
\* (login/password)", "0 - off, 1 - on".  With auth on nobody gets a connection without
\* having sent them, whichever protocol the first byte chooses.
CredentialsChecked ==
    auth /\ (pc \in {"resolve", "connect", "connected", "sendgrant", "record"} \/ tried # <<>>) =>
        Credentials \subseteq fields

\* The first reachable endpoint is the one used, and a refusal comes only after all
\* of them have failed.
FirstReachable ==
    /\ \A i \in 1 .. Len(tried) : tried[i] = "none" => i = Len(tried)
    /\ peer # "none" <=> tried # <<>> /\ tried[Len(tried)] = "none"
    /\ pc = "sendrefusal" /\ tried # <<>> => left = 0

\* A client that was told its request is granted is relayed, unless it or the server
\* has gone: a failing statistics database does not break the promise.
GrantKept ==
    (\E i \in 1 .. Len(replies) : replies[i] = "granted") /\ result \in {"false", "threw"}
        => stream = "reset" \/ peer = "gone"

\* A SOCKS5 client whose request was read in full is told the outcome, unless the
\* connection to it, or the one made for it, is gone.
RefusalTold ==
    ver = 5 /\ "port" \in fields /\ result # "running" /\ stream # "reset" /\ peer # "gone"
        => replies # <<>> /\ replies[Len(replies)] \in Refusals \cup {"granted"}

\* A refusal of such a request names its cause: the command, or the error of the last
\* endpoint that was tried, or why there was none to try.
RefusalTrue ==
    ver = 5 /\ "port" \in fields /\ replies # <<>> /\ replies[Len(replies)] \in Refusals =>
        replies[Len(replies)] = CASE cmd # "connect" -> "command"
                                  [] cmd = "connect" /\ tried # <<>> -> Rep(tried[Len(tried)])
                                  [] cmd = "connect" /\ tried = <<>> -> Rep(ec)

\* A client's last answer is true and kept, for grants and for refusals.
OutcomeTold == GrantKept /\ RefusalTold /\ RefusalTrue

\* What ProxyServer takes the handshake for: true with a connected server, the
\* first that could be reached, and a row unless the database refused; otherwise no row
\* that nobody would close.
OutcomeSummary ==
    /\ FirstReachable
    /\ result = "true" => peer # "none" /\ ec = "none"
    /\ result \in {"false", "threw"} => row = "none"

\* The BND.PORT a client is told is its port modulo 256, so the right one only below 256.
BindPortToldBelow256 ==
    told # <<>> => Word(told) = bound[2] /\ (Word(told) = Word(bound) <=> Word(bound) < 256)

\* The address the resolver is asked for is the one in the request exactly when no group
\* of it needs a zero between the digits of its two bytes.
GroupExactUnlessPadded ==
    "address" \in fields /\ group # <<>> =>
        (GroupValue(group) = Word(group) <=> group[1] = 0 \/ group[2] >= 16)

\* What becomes of the two 16-bit numbers of a request on their way out.
WordsPassedOn == BindPortToldBelow256 /\ GroupExactUnlessPadded
================================================================================
