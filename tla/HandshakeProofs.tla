---------------------------- MODULE HandshakeProofs ----------------------------
(***************************************************************************)
(* Theorems about Handshake, for every set of ports and address groups and  *)
(* every number of endpoints a name resolves to.                            *)
(*                                                                          *)
(* The invariant says, for every place the handshake can be at, what has    *)
(* been read, said and tried when it gets there (Placed, FieldsRead, Said,  *)
(* Attempts); what a client was told at the end follows from that.          *)
(***************************************************************************)
EXTENDS Handshake, SequenceTheorems, TLAPS

\* The places at which a field is read or an intermediate answer sent, and those after.
Asking4 == {"cd", "port", "address", "userid"}
Negotiating == {"methods", "sendmethod"}
Authenticating == {"authver", "uname", "passwd", "sendauth"}
Asking5 == {"version", "cmd", "address", "port"}
Reading == {"ver"} \cup Asking4 \cup Negotiating \cup Authenticating \cup Asking5
Connecting == {"resolve", "connect", "connected", "sendgrant", "record"}

Typed ==
    /\ ver \in {0, 4, 5} /\ pc \in Reading \cup Connecting \cup {"sendrefusal", "done"}
    /\ stream \in {"open", "eof", "reset"} /\ peer \in {"none", "connected", "gone"}
    /\ fields \subseteq Fields4 \cup Fields5 /\ cmd \in {"none", "connect", "other"}
    /\ ec \in Errors \cup {"none"} /\ reply \in Codes
    /\ row \in {"none", "active"} /\ result \in {"running", "true", "false", "threw"}

\* The protocol version and the reply about to be written, at each place.
Placed ==
    /\ pc = "done" <=> result # "running"
    /\ pc = "ver" => ver = 0
    /\ pc \in {"cd", "userid"} => ver = 4
    /\ pc \in Negotiating \cup Authenticating \cup {"version", "cmd"} => ver = 5
    /\ pc \in Authenticating => auth
    /\ pc \notin {"ver", "done"} => ver \in {4, 5}
    /\ pc = "sendmethod" => reply \in {"method", "no_method"}
    /\ pc = "sendauth" => reply \in {"auth_ok", "auth_denied"}
    /\ pc = "sendgrant" => reply = "granted"
    /\ pc = "sendrefusal" => reply \in Refusals

\* The fields that have been read when a place is reached.  Socks4::init reads on after a
\* port it did not get, but the stream is no longer open then, and it gets no further.
FieldsRead ==
    /\ ver = 0 => fields = {}
    /\ ver = 4 =>
        /\ pc \in {"port", "address", "userid"} => "cd" \in fields
        /\ pc = "address" => "port" \in fields \/ stream # "open"
        /\ pc = "userid" => "port" \in fields /\ "address" \in fields
    /\ ver = 5 =>
        /\ pc = "sendmethod" /\ reply = "method" => "methods" \in fields
        /\ pc \in Authenticating \cup Asking5 => "methods" \in fields
        /\ pc \in {"uname", "passwd", "sendauth"} => "authver" \in fields
        /\ pc \in {"passwd", "sendauth"} => "uname" \in fields
        /\ pc = "sendauth" => "passwd" \in fields
        /\ pc \in Asking5 /\ auth => Credentials \subseteq fields
        /\ pc \in {"cmd", "address", "port"} => "version" \in fields
        /\ pc \in {"address", "port"} => "cmd" \in fields
        /\ pc = "port" => "address" \in fields
        /\ pc \in Reading => "port" \notin fields

\* A connection is tried, and used, for a full request only.
FullRequest == Required \subseteq fields /\ (ver = 5 => cmd = "connect")
ConnectsOnFull == pc \in Connecting \/ tried # <<>> => FullRequest

\* What the client was sent before the final answer.
Base == IF ver = 4 THEN <<>> ELSE IF auth THEN <<"method", "auth_ok">> ELSE <<"method">>

\* All there is to say was said, or the negotiation broke off before.
Answered ==
    /\ ver \in {4, 5}
    /\ replies = Base \/ \E c \in Refusals \cup {"granted"} : replies = Append(Base, c)
BrokenOff ==
    /\ tried = <<>>
    /\ \/ replies = <<>>
       \/ ver = 5 /\ replies \in {<<"no_method">>, <<"method">>}
       \/ ver = 5 /\ auth /\ replies = <<"method", "auth_denied">>

\* What has been said at each place.
Said ==
    /\ pc \in {"ver"} \cup Negotiating => replies = <<>>
    /\ pc \in Authenticating => replies = <<"method">>
    /\ pc \in Asking4 \cup Asking5 \cup (Connecting \ {"record"}) \cup {"sendrefusal"} =>
          replies = Base
    /\ pc \in {"record", "done"} => Answered \/ BrokenOff

\* The connection attempts: only the last of them may have succeeded.
Attempts ==
    /\ pc \in Reading \cup {"resolve"} => tried = <<>>
    /\ \A i \in 1 .. Len(tried) : tried[i] = "none" => i = Len(tried)
    /\ peer # "none" <=> tried # <<>> /\ tried[Len(tried)] = "none"
    /\ tried # <<>> => ec = tried[Len(tried)]
    /\ pc \in {"connect", "connected"} /\ tried = <<>> => ec # "none"
    /\ pc \in {"sendgrant", "record"} => ec = "none" /\ tried # <<>>
    /\ pc \in {"connected", "sendrefusal"} /\ tried # <<>> /\ ec # "none" => left = 0
    /\ pc = "sendrefusal" /\ tried # <<>> => ec # "none"

\* A row is there only for a session that is going to be relayed.
RowKept ==
    /\ pc # "done" \/ result \in {"false", "threw"} => row = "none"
    /\ result = "true" => peer # "none" /\ ec = "none"

\* A grant that was sent is kept, and the last word of a request read in full is sent,
\* unless a peer is gone.
NoGrant == \A i \in 1 .. Len(replies) : replies[i] # "granted"
LastWord == replies # <<>> /\ replies[Len(replies)] \in Refusals \cup {"granted"}
Told ==
    /\ pc \notin {"record", "done"} => NoGrant
    /\ result \in {"false", "threw"} => NoGrant \/ stream = "reset"
    /\ pc = "record" => LastWord \/ stream = "reset"
    /\ RefusalTold

\* A refusal that is about to be sent, or was, after a full request: it names the cause.
CauseCode == IF cmd = "connect" THEN Rep(ec) ELSE "command"
Cause ==
    /\ ver = 5 /\ "port" \in fields /\ pc = "sendrefusal" => reply = CauseCode
    /\ ver = 5 /\ "port" \in fields /\ replies # <<>> /\ replies[Len(replies)] \in Refusals =>
          replies[Len(replies)] = CauseCode

\* The port told is the one of the connection, and was not told before there was one.
Ports ==
    /\ group \in Words \cup {<<>>} /\ bound \in Words \cup {<<>>}
    /\ peer # "none" => bound \in Words
    /\ pc \notin {"record", "done"} => told = <<>>
    /\ told # <<>> => bound \in Words /\ told = BindPortBytes(Word(bound))

Sequences == tried \in Seq(Errors \cup {"none"}) /\ replies \in Seq(Codes \ {"none"})
Numbers == left \in 0 .. MaxEndpoints

IndInv ==
    /\ Typed /\ Placed /\ FieldsRead /\ ConnectsOnFull /\ Said /\ Attempts /\ RowKept
    /\ Told /\ Cause /\ Ports /\ Sequences /\ Numbers /\ auth \in BOOLEAN
--------------------------------------------------------------------------------
(* Conversions and sequences. *)

\* A refusal is no grant, and what the code sends are codes.
LEMMA RefusalsAreCodes ==
    /\ "granted" \notin Refusals /\ Refusals \subseteq Codes \ {"none"}
    /\ {"rejected", "failure", "addr_type", "command"} \subseteq Refusals
    /\ \A e \in Errors : Rep(e) \in Refusals
    /\ {"method", "no_method", "auth_ok", "auth_denied", "granted"} \subseteq Codes \ {"none"}
  <1>1. \A e \in Errors : Rep(e) # "granted" /\ Rep(e) # "none"
    BY DEF Errors, Rep
  <1> QED
    BY <1>1 DEF Refusals, Codes

\* The bytes of BND.PORT are a pair of bytes, the first of them 0 and the second right.
LEMMA BindPortLowByte ==
  ASSUME NEW w \in Pairs
  PROVE  /\ BindPortBytes(Word(w)) = <<0, w[2]>> /\ BindPortBytes(Word(w)) \in Pairs
         /\ Word(BindPortBytes(Word(w))) = w[2]
         /\ w[2] = Word(w) <=> Word(w) < 256
  <1>1. PICK a \in 0 .. 255, b \in 0 .. 255 : a = w[1] /\ b = w[2]
    BY DEF Pairs, Byte
  <1>2. (256 * a + b) % 256 = b /\ b \div 256 = 0 /\ (b = 256 * a + b <=> 256 * a + b < 256)
    OBVIOUS
  <1>3. Word(w) = 256 * a + b
    BY <1>1 DEF Word
  <1>4. BindPortBytes(Word(w)) = <<0, b>>
    BY <1>2, <1>3 DEF BindPortBytes
  <1>5. Word(<<0, b>>) = b
    BY DEF Word
  <1> QED
    BY <1>1, <1>2, <1>3, <1>4, <1>5 DEF Pairs, Byte

\* A group of an IPv6 address keeps its value in the text made of it exactly when no zero
\* is missing between the digits of its two bytes.
LEMMA GroupKeepsValue ==
  ASSUME NEW w \in Pairs
  PROVE  GroupValue(w) = Word(w) <=> w[1] = 0 \/ w[2] >= 16
  <1>1. w[1] \in 0 .. 255 /\ w[2] \in 0 .. 255
    BY DEF Pairs, Byte
  <1>2. CASE w[2] < 16
    <2>1. HexWidth(w[2]) = 16
      BY <1>2 DEF HexWidth
    <2>2. GroupValue(w) = 16 * w[1] + w[2] /\ Word(w) = 256 * w[1] + w[2]
      BY <1>1, <2>1 DEF GroupValue, Word
    <2> DEFINE a == w[1]
               b == w[2]
    <2>3. a \in 0 .. 255 /\ b \in 0 .. 255 /\ b < 16
      BY <1>1, <1>2
    <2> HIDE DEF a, b
    <2>4. (16 * a + b = 256 * a + b <=> a = 0) /\ ~(b >= 16)
      BY <2>3
    <2> QED
      BY <2>2, <2>4 DEF a, b
  <1>3. CASE ~(w[2] < 16)
    BY <1>1, <1>3 DEF GroupValue, Word, HexWidth
  <1> QED
    BY <1>2, <1>3

\* What appending does to a sequence: its last element, and the ones before.
LEMMA Appended ==
  ASSUME NEW S, NEW s \in Seq(S), NEW e \in S
  PROVE  /\ Append(s, e) \in Seq(S) /\ Append(s, e) # <<>>
         /\ Len(Append(s, e)) = Len(s) + 1 /\ Append(s, e)[Len(s) + 1] = e
         /\ \A i \in 1 .. Len(s) : Append(s, e)[i] = s[i]
         /\ Len(s) \in Nat
  BY AppendProperties, LenProperties

\* A sequence of one element with a second.
LEMMA AppendToOne ==
  ASSUME NEW a, NEW b
  PROVE  Append(<<a>>, b) = <<a, b>>
  <1> DEFINE s == Append(<<a>>, b)
             S == {a, b}
  <1>1. <<a>> \in Seq(S) /\ Len(<<a>>) = 1 /\ <<a>>[1] = a
    OBVIOUS
  <1>2. s \in Seq(S) /\ Len(s) = 2 /\ s[1] = a /\ s[2] = b
    BY <1>1, AppendProperties
  <1>3. <<a, b>> \in Seq(S) /\ Len(<<a, b>>) = 2 /\ <<a, b>>[1] = a /\ <<a, b>>[2] = b
    OBVIOUS
  <1>4. \A i \in 1 .. Len(s) : s[i] = <<a, b>>[i]
    BY <1>2, <1>3
  <1>5. s = <<a, b>>
    BY <1>2, <1>3, <1>4, SeqEqual
  <1> QED
    BY <1>5 DEF s

\* The beginning of a sequence with one element more is the sequence.
LEMMA BeginningOfAppend ==
  ASSUME NEW S, NEW s \in Seq(S), NEW e \in S
  PROVE  SubSeq(Append(s, e), 1, Len(s)) = s /\ SubSeq(s, 1, Len(s)) = s
  BY SubSeqFull
--------------------------------------------------------------------------------
(* What a step changes. *)

USE EndpointsAssumption, WordsAssumption

Sending == SendMethod \/ SendAuth \/ SendGrant4 \/ SendGrant5 \/ SendRefusal

\* Only the steps that send change what was sent.
LEMMA SendingSteps ==
  ASSUME TRUE, [Next]_vars
  PROVE  Sending \/ UNCHANGED <<replies, told>>
  <1> USE DEF Sending, Reads, CannotRead, Ends, Fails, GoesTo, GoesToReply, Got, Sends, Unsent, request, connection
  <1>1. CASE CreateProxy
    BY <1>1 DEF CreateProxy
  <1>2. CASE Cd
    BY <1>2 DEF Cd, ReadChecked, ReadField
  <1>3. CASE Port4
    BY <1>3 DEF Port4
  <1>4. CASE Address4
    BY <1>4 DEF Address4, ReadField
  <1>5. CASE UserId
    BY <1>5 DEF UserId, ReadField
  <1>6. CASE Methods
    BY <1>6 DEF Methods
  <1>7. CASE SendMethod
    BY <1>7 DEF SendMethod
  <1>8. CASE AuthVersion
    BY <1>8 DEF AuthVersion, ReadChecked, ReadField
  <1>9. CASE UserName
    BY <1>9 DEF UserName, ReadChecked, ReadField
  <1>10. CASE Password
    BY <1>10 DEF Password
  <1>11. CASE SendAuth
    BY <1>11 DEF SendAuth
  <1>12. CASE Version
    BY <1>12 DEF Version
  <1>13. CASE Command
    BY <1>13 DEF Command
  <1>14. CASE Address5
    BY <1>14 DEF Address5, ReadChecked, ReadField
  <1>15. CASE Port5
    BY <1>15 DEF Port5
  <1>16. CASE Resolve
    BY <1>16 DEF Resolve
  <1>17. CASE Connect
    BY <1>17 DEF Connect, ConnectWhile
  <1>18. CASE ConnectThrows
    BY <1>18 DEF ConnectThrows
  <1>19. CASE Connected4
    BY <1>19 DEF Connected4
  <1>20. CASE Connected5
    BY <1>20 DEF Connected5
  <1>21. CASE SendGrant4
    BY <1>21 DEF SendGrant4
  <1>22. CASE SendGrant5
    BY <1>22 DEF SendGrant5
  <1>23. CASE SendRefusal
    BY <1>23 DEF SendRefusal
  <1>24. CASE CreateRecord
    BY <1>24 DEF CreateRecord
  <1>25. CASE ClientLeaves
    BY <1>25 DEF ClientLeaves
  <1>26. CASE ServerLeaves
    BY <1>26 DEF ServerLeaves
  <1>27. CASE UNCHANGED vars
    BY <1>27 DEF vars
  <1> QED
    BY <1>1, <1>2, <1>3, <1>4, <1>5, <1>6, <1>7, <1>8, <1>9, <1>10, <1>11, <1>12, <1>13, <1>14, <1>15, <1>16, <1>17, <1>18, <1>19, <1>20, <1>21, <1>22, <1>23, <1>24, <1>25, <1>26, <1>27
       DEF Next, Step, Socks4Step, Socks5Step, ConnectStep

\* Only the steps of connect() change the connection, and the server, by leaving.
LEMMA ConnectionSteps ==
  ASSUME TRUE, [Next]_vars
  PROVE  Resolve \/ Connect \/ ServerLeaves \/ UNCHANGED connection
  <1> USE DEF Reads, CannotRead, Ends, Fails, GoesTo, GoesToReply, Got, Sends, Unsent, request, connection
  <1>1. CASE CreateProxy
    BY <1>1 DEF CreateProxy
  <1>2. CASE Cd
    BY <1>2 DEF Cd, ReadChecked, ReadField
  <1>3. CASE Port4
    BY <1>3 DEF Port4
  <1>4. CASE Address4
    BY <1>4 DEF Address4, ReadField
  <1>5. CASE UserId
    BY <1>5 DEF UserId, ReadField
  <1>6. CASE Methods
    BY <1>6 DEF Methods
  <1>7. CASE SendMethod
    BY <1>7 DEF SendMethod
  <1>8. CASE AuthVersion
    BY <1>8 DEF AuthVersion, ReadChecked, ReadField
  <1>9. CASE UserName
    BY <1>9 DEF UserName, ReadChecked, ReadField
  <1>10. CASE Password
    BY <1>10 DEF Password
  <1>11. CASE SendAuth
    BY <1>11 DEF SendAuth
  <1>12. CASE Version
    BY <1>12 DEF Version
  <1>13. CASE Command
    BY <1>13 DEF Command
  <1>14. CASE Address5
    BY <1>14 DEF Address5, ReadChecked, ReadField
  <1>15. CASE Port5
    BY <1>15 DEF Port5
  <1>16. CASE Resolve
    BY <1>16 DEF Resolve
  <1>17. CASE Connect
    BY <1>17 DEF Connect, ConnectWhile
  <1>18. CASE ConnectThrows
    BY <1>18 DEF ConnectThrows
  <1>19. CASE Connected4
    BY <1>19 DEF Connected4
  <1>20. CASE Connected5
    BY <1>20 DEF Connected5
  <1>21. CASE SendGrant4
    BY <1>21 DEF SendGrant4
  <1>22. CASE SendGrant5
    BY <1>22 DEF SendGrant5
  <1>23. CASE SendRefusal
    BY <1>23 DEF SendRefusal
  <1>24. CASE CreateRecord
    BY <1>24 DEF CreateRecord
  <1>25. CASE ClientLeaves
    BY <1>25 DEF ClientLeaves
  <1>26. CASE ServerLeaves
    BY <1>26 DEF ServerLeaves
  <1>27. CASE UNCHANGED vars
    BY <1>27 DEF vars
  <1> QED
    BY <1>1, <1>2, <1>3, <1>4, <1>5, <1>6, <1>7, <1>8, <1>9, <1>10, <1>11, <1>12, <1>13, <1>14, <1>15, <1>16, <1>17, <1>18, <1>19, <1>20, <1>21, <1>22, <1>23, <1>24, <1>25, <1>26, <1>27
       DEF Next, Step, Socks4Step, Socks5Step, ConnectStep

\* Every step keeps the version and the reply that belong to its place.
LEMMA PlacedNext ==
  ASSUME Placed, [Next]_vars
  PROVE  Placed'
  <1> USE DEF Placed, Refusals, Rep, Errors, Reading, Asking4, Negotiating, Authenticating, Asking5, Connecting, Reads, CannotRead, Ends, Fails, GoesTo, GoesToReply, Got, Sends, Unsent, request, connection
  <1>1. CASE CreateProxy
    BY <1>1 DEF CreateProxy
  <1>2. CASE Cd
    BY <1>2 DEF Cd, ReadChecked, ReadField
  <1>3. CASE Port4
    BY <1>3 DEF Port4
  <1>4. CASE Address4
    BY <1>4 DEF Address4, ReadField
  <1>5. CASE UserId
    BY <1>5 DEF UserId, ReadField
  <1>6. CASE Methods
    BY <1>6 DEF Methods
  <1>7. CASE SendMethod
    BY <1>7 DEF SendMethod
  <1>8. CASE AuthVersion
    BY <1>8 DEF AuthVersion, ReadChecked, ReadField
  <1>9. CASE UserName
    BY <1>9 DEF UserName, ReadChecked, ReadField
  <1>10. CASE Password
    BY <1>10 DEF Password
  <1>11. CASE SendAuth
    BY <1>11 DEF SendAuth
  <1>12. CASE Version
    BY <1>12 DEF Version
  <1>13. CASE Command
    BY <1>13 DEF Command
  <1>14. CASE Address5
    BY <1>14 DEF Address5, ReadChecked, ReadField
  <1>15. CASE Port5
    BY <1>15 DEF Port5
  <1>16. CASE Resolve
    BY <1>16 DEF Resolve
  <1>17. CASE Connect
    BY <1>17 DEF Connect, ConnectWhile
  <1>18. CASE ConnectThrows
    BY <1>18 DEF ConnectThrows
  <1>19. CASE Connected4
    BY <1>19 DEF Connected4
  <1>20. CASE Connected5
    BY <1>20 DEF Connected5
  <1>21. CASE SendGrant4
    BY <1>21 DEF SendGrant4
  <1>22. CASE SendGrant5
    BY <1>22 DEF SendGrant5
  <1>23. CASE SendRefusal
    BY <1>23 DEF SendRefusal
  <1>24. CASE CreateRecord
    BY <1>24 DEF CreateRecord
  <1>25. CASE ClientLeaves
    BY <1>25 DEF ClientLeaves
  <1>26. CASE ServerLeaves
    BY <1>26 DEF ServerLeaves
  <1>27. CASE UNCHANGED vars
    BY <1>27 DEF vars
  <1> QED
    BY <1>1, <1>2, <1>3, <1>4, <1>5, <1>6, <1>7, <1>8, <1>9, <1>10, <1>11, <1>12, <1>13, <1>14, <1>15, <1>16, <1>17, <1>18, <1>19, <1>20, <1>21, <1>22, <1>23, <1>24, <1>25, <1>26, <1>27
       DEF Next, Step, Socks4Step, Socks5Step, ConnectStep

\* Every step keeps the types.
LEMMA TypedNext ==
  ASSUME Typed, Placed, [Next]_vars
  PROVE  Typed'
  <1> USE DEF Typed, Placed, Fields4, Fields5, Credentials, Reading, Asking4, Negotiating, Authenticating, Asking5, Connecting, Reads, CannotRead, Ends, Fails, GoesTo, GoesToReply, Got, Sends, Unsent, request, connection
  <1>1. CASE CreateProxy
    BY <1>1, RefusalsAreCodes DEF CreateProxy
  <1>2. CASE Cd
    BY <1>2, RefusalsAreCodes DEF Cd, ReadChecked, ReadField
  <1>3. CASE Port4
    BY <1>3, RefusalsAreCodes DEF Port4
  <1>4. CASE Address4
    BY <1>4, RefusalsAreCodes DEF Address4, ReadField
  <1>5. CASE UserId
    BY <1>5, RefusalsAreCodes DEF UserId, ReadField
  <1>6. CASE Methods
    BY <1>6, RefusalsAreCodes DEF Methods
  <1>7. CASE SendMethod
    BY <1>7, RefusalsAreCodes DEF SendMethod
  <1>8. CASE AuthVersion
    BY <1>8, RefusalsAreCodes DEF AuthVersion, ReadChecked, ReadField
  <1>9. CASE UserName
    BY <1>9, RefusalsAreCodes DEF UserName, ReadChecked, ReadField
  <1>10. CASE Password
    BY <1>10, RefusalsAreCodes DEF Password
  <1>11. CASE SendAuth
    BY <1>11, RefusalsAreCodes DEF SendAuth
  <1>12. CASE Version
    BY <1>12, RefusalsAreCodes DEF Version
  <1>13. CASE Command
    BY <1>13, RefusalsAreCodes DEF Command
  <1>14. CASE Address5
    BY <1>14, RefusalsAreCodes DEF Address5, ReadChecked, ReadField
  <1>15. CASE Port5
    BY <1>15, RefusalsAreCodes DEF Port5
  <1>16. CASE Resolve
    BY <1>16 DEF Resolve, Errors
  <1>17. CASE Connect
    BY <1>17, RefusalsAreCodes DEF Connect, ConnectWhile
  <1>18. CASE ConnectThrows
    BY <1>18, RefusalsAreCodes DEF ConnectThrows
  <1>19. CASE Connected4
    BY <1>19, RefusalsAreCodes DEF Connected4
  <1>20. CASE Connected5
    <2>1. ec # "none" => Rep(ec) \in Refusals
      BY RefusalsAreCodes
    <2> QED
      BY <1>20, <2>1, RefusalsAreCodes DEF Connected5
  <1>21. CASE SendGrant4
    BY <1>21, RefusalsAreCodes DEF SendGrant4
  <1>22. CASE SendGrant5
    BY <1>22, RefusalsAreCodes DEF SendGrant5
  <1>23. CASE SendRefusal
    BY <1>23, RefusalsAreCodes DEF SendRefusal
  <1>24. CASE CreateRecord
    BY <1>24, RefusalsAreCodes DEF CreateRecord
  <1>25. CASE ClientLeaves
    BY <1>25, RefusalsAreCodes DEF ClientLeaves
  <1>26. CASE ServerLeaves
    BY <1>26, RefusalsAreCodes DEF ServerLeaves
  <1>27. CASE UNCHANGED vars
    BY <1>27 DEF vars
  <1> QED
    BY <1>1, <1>2, <1>3, <1>4, <1>5, <1>6, <1>7, <1>8, <1>9, <1>10, <1>11, <1>12, <1>13, <1>14, <1>15, <1>16, <1>17, <1>18, <1>19, <1>20, <1>21, <1>22, <1>23, <1>24, <1>25, <1>26, <1>27
       DEF Next, Step, Socks4Step, Socks5Step, ConnectStep

\* Every step has read the fields that its next place needs.
LEMMA FieldsNext ==
  ASSUME Typed, Placed, FieldsRead, [Next]_vars
  PROVE  FieldsRead'
  <1> USE DEF Typed, Placed, FieldsRead, Fields4, Fields5, Credentials, Reading, Asking4, Negotiating, Authenticating, Asking5, Connecting, Reads, CannotRead, Ends, Fails, GoesTo, GoesToReply, Got, Sends, Unsent, request, connection
  <1>1. CASE CreateProxy
    BY <1>1 DEF CreateProxy
  <1>2. CASE Cd
    BY <1>2 DEF Cd, ReadChecked, ReadField
  <1>3. CASE Port4
    BY <1>3 DEF Port4
  <1>4. CASE Address4
    BY <1>4 DEF Address4, ReadField
  <1>5. CASE UserId
    BY <1>5 DEF UserId, ReadField
  <1>6. CASE Methods
    BY <1>6 DEF Methods
  <1>7. CASE SendMethod
    BY <1>7 DEF SendMethod
  <1>8. CASE AuthVersion
    BY <1>8 DEF AuthVersion, ReadChecked, ReadField
  <1>9. CASE UserName
    BY <1>9 DEF UserName, ReadChecked, ReadField
  <1>10. CASE Password
    BY <1>10 DEF Password
  <1>11. CASE SendAuth
    BY <1>11 DEF SendAuth
  <1>12. CASE Version
    BY <1>12 DEF Version
  <1>13. CASE Command
    BY <1>13 DEF Command
  <1>14. CASE Address5
    BY <1>14 DEF Address5, ReadChecked, ReadField
  <1>15. CASE Port5
    BY <1>15 DEF Port5
  <1>16. CASE Resolve
    BY <1>16 DEF Resolve
  <1>17. CASE Connect
    BY <1>17 DEF Connect, ConnectWhile
  <1>18. CASE ConnectThrows
    BY <1>18 DEF ConnectThrows
  <1>19. CASE Connected4
    BY <1>19 DEF Connected4
  <1>20. CASE Connected5
    BY <1>20 DEF Connected5
  <1>21. CASE SendGrant4
    BY <1>21 DEF SendGrant4
  <1>22. CASE SendGrant5
    BY <1>22 DEF SendGrant5
  <1>23. CASE SendRefusal
    BY <1>23 DEF SendRefusal
  <1>24. CASE CreateRecord
    BY <1>24 DEF CreateRecord
  <1>25. CASE ClientLeaves
    BY <1>25 DEF ClientLeaves
  <1>26. CASE ServerLeaves
    BY <1>26 DEF ServerLeaves
  <1>27. CASE UNCHANGED vars
    BY <1>27 DEF vars
  <1> QED
    BY <1>1, <1>2, <1>3, <1>4, <1>5, <1>6, <1>7, <1>8, <1>9, <1>10, <1>11, <1>12, <1>13, <1>14, <1>15, <1>16, <1>17, <1>18, <1>19, <1>20, <1>21, <1>22, <1>23, <1>24, <1>25, <1>26, <1>27
       DEF Next, Step, Socks4Step, Socks5Step, ConnectStep

\* Every step on the way to a connection, and after one was tried, has a full request.
LEMMA FullNext ==
  ASSUME Typed, Placed, FieldsRead, Attempts, ConnectsOnFull, [Next]_vars
  PROVE  ConnectsOnFull'
  <1> USE DEF Typed, Placed, FieldsRead, Attempts, ConnectsOnFull, FullRequest, Required, Fields4, Fields5, Credentials, Reading, Asking4, Negotiating, Authenticating, Asking5, Connecting, Reads, CannotRead, Ends, Fails, GoesTo, GoesToReply, Got, Sends, Unsent, request, connection
  <1>1. CASE CreateProxy
    BY <1>1 DEF CreateProxy
  <1>2. CASE Cd
    BY <1>2 DEF Cd, ReadChecked, ReadField
  <1>3. CASE Port4
    BY <1>3 DEF Port4
  <1>4. CASE Address4
    BY <1>4 DEF Address4, ReadField
  <1>5. CASE UserId
    <2>1. ver' = 4 /\ ver = 4 /\ tried' = <<>>
      BY <1>5 DEF UserId, ReadField
    <2>2. CASE pc' = "done"
      BY <2>1, <2>2
    <2>3. CASE pc' # "done"
      <3>1. fields' = fields \cup {"userid"} /\ {"cd", "port", "address"} \subseteq fields
        BY <1>5, <2>3 DEF UserId, ReadField
      <3>2. Required' = Fields4
        BY <2>1
      <3> QED
        BY <2>1, <3>1, <3>2
    <2> QED
      BY <2>2, <2>3
  <1>6. CASE Methods
    BY <1>6 DEF Methods
  <1>7. CASE SendMethod
    BY <1>7 DEF SendMethod
  <1>8. CASE AuthVersion
    BY <1>8 DEF AuthVersion, ReadChecked, ReadField
  <1>9. CASE UserName
    BY <1>9 DEF UserName, ReadChecked, ReadField
  <1>10. CASE Password
    BY <1>10 DEF Password
  <1>11. CASE SendAuth
    BY <1>11 DEF SendAuth
  <1>12. CASE Version
    BY <1>12 DEF Version
  <1>13. CASE Command
    BY <1>13 DEF Command
  <1>14. CASE Address5
    BY <1>14 DEF Address5, ReadChecked, ReadField
  <1>15. CASE Port5
    BY <1>15 DEF Port5
  <1>16. CASE Resolve
    BY <1>16 DEF Resolve
  <1>17. CASE Connect
    BY <1>17 DEF Connect, ConnectWhile
  <1>18. CASE ConnectThrows
    BY <1>18 DEF ConnectThrows
  <1>19. CASE Connected4
    BY <1>19 DEF Connected4
  <1>20. CASE Connected5
    BY <1>20 DEF Connected5
  <1>21. CASE SendGrant4
    BY <1>21 DEF SendGrant4
  <1>22. CASE SendGrant5
    BY <1>22 DEF SendGrant5
  <1>23. CASE SendRefusal
    BY <1>23 DEF SendRefusal
  <1>24. CASE CreateRecord
    BY <1>24 DEF CreateRecord
  <1>25. CASE ClientLeaves
    BY <1>25 DEF ClientLeaves
  <1>26. CASE ServerLeaves
    BY <1>26 DEF ServerLeaves
  <1>27. CASE UNCHANGED vars
    BY <1>27 DEF vars
  <1> QED
    BY <1>1, <1>2, <1>3, <1>4, <1>5, <1>6, <1>7, <1>8, <1>9, <1>10, <1>11, <1>12, <1>13, <1>14, <1>15, <1>16, <1>17, <1>18, <1>19, <1>20, <1>21, <1>22, <1>23, <1>24, <1>25, <1>26, <1>27
       DEF Next, Step, Socks4Step, Socks5Step, ConnectStep

\* Every step has said what its next place stands for.
LEMMA SaidNext ==
  ASSUME Placed, Said, Attempts, [Next]_vars
  PROVE  Said'
  <1> USE DEF Placed, Said, Attempts, Answered, BrokenOff, Base, Reading, Asking4, Negotiating, Authenticating, Asking5, Connecting, Reads, CannotRead, Ends, Fails, GoesTo, GoesToReply, Got, Sends, Unsent, request, connection
  <1>1. CASE CreateProxy
    <2>1. /\ replies' = <<>> /\ tried' = <<>> /\ pc' \in {"cd", "methods", "done"}
          /\ pc' = "cd" => ver' = 4
      BY <1>1 DEF CreateProxy
    <2> QED
      BY <2>1
  <1>2. CASE Cd
    BY <1>2 DEF Cd, ReadChecked, ReadField
  <1>3. CASE Port4
    BY <1>3 DEF Port4
  <1>4. CASE Address4
    BY <1>4 DEF Address4, ReadField
  <1>5. CASE UserId
    BY <1>5 DEF UserId, ReadField
  <1>6. CASE Methods
    BY <1>6 DEF Methods
  <1>7. CASE SendMethod
    BY <1>7 DEF SendMethod
  <1>8. CASE AuthVersion
    BY <1>8 DEF AuthVersion, ReadChecked, ReadField
  <1>9. CASE UserName
    BY <1>9 DEF UserName, ReadChecked, ReadField
  <1>10. CASE Password
    BY <1>10 DEF Password
  <1>11. CASE SendAuth
    <2>1. /\ ver' = 5 /\ ver = 5 /\ auth /\ auth' = auth /\ tried' = <<>> /\ replies = <<"method">>
      BY <1>11 DEF SendAuth
    <2>2. \A c \in {"auth_ok", "auth_denied"} : Append(<<"method">>, c) = <<"method", c>>
      BY AppendToOne
    <2>3. \/ pc' = "version" /\ replies' = <<"method", "auth_ok">>
          \/ pc' = "done" /\ replies' \in {<<"method">>, <<"method", "auth_denied">>, <<"method", "auth_ok">>}
      BY <1>11, <2>1, <2>2 DEF SendAuth
    <2>4. Base' = <<"method", "auth_ok">>
      BY <2>1
    <2> QED
      BY <2>1, <2>3, <2>4
  <1>12. CASE Version
    BY <1>12 DEF Version
  <1>13. CASE Command
    BY <1>13 DEF Command
  <1>14. CASE Address5
    BY <1>14 DEF Address5, ReadChecked, ReadField
  <1>15. CASE Port5
    BY <1>15 DEF Port5
  <1>16. CASE Resolve
    BY <1>16 DEF Resolve
  <1>17. CASE Connect
    BY <1>17 DEF Connect, ConnectWhile
  <1>18. CASE ConnectThrows
    BY <1>18 DEF ConnectThrows
  <1>19. CASE Connected4
    BY <1>19 DEF Connected4
  <1>20. CASE Connected5
    BY <1>20 DEF Connected5
  <1>21. CASE SendGrant4
    BY <1>21 DEF SendGrant4
  <1>22. CASE SendGrant5
    BY <1>22 DEF SendGrant5
  <1>23. CASE SendRefusal
    BY <1>23 DEF SendRefusal
  <1>24. CASE CreateRecord
    BY <1>24 DEF CreateRecord
  <1>25. CASE ClientLeaves
    BY <1>25 DEF ClientLeaves
  <1>26. CASE ServerLeaves
    BY <1>26 DEF ServerLeaves
  <1>27. CASE UNCHANGED vars
    BY <1>27 DEF vars
  <1> QED
    BY <1>1, <1>2, <1>3, <1>4, <1>5, <1>6, <1>7, <1>8, <1>9, <1>10, <1>11, <1>12, <1>13, <1>14, <1>15, <1>16, <1>17, <1>18, <1>19, <1>20, <1>21, <1>22, <1>23, <1>24, <1>25, <1>26, <1>27
       DEF Next, Step, Socks4Step, Socks5Step, ConnectStep

\* Every step keeps the attempts in order: connect() goes on only after an error.
LEMMA AttemptsNext ==
  ASSUME Placed, Attempts, Sequences, Numbers, [Next]_vars
  PROVE  Attempts'
  <1> USE DEF Placed, Attempts, Sequences, Numbers, Reading, Asking4, Negotiating, Authenticating, Asking5, Connecting, Reads, CannotRead, Ends, Fails, GoesTo, GoesToReply, Got, Sends, Unsent, request, connection
  <1>1. CASE CreateProxy
    BY <1>1 DEF CreateProxy
  <1>2. CASE Cd
    BY <1>2 DEF Cd, ReadChecked, ReadField
  <1>3. CASE Port4
    BY <1>3 DEF Port4
  <1>4. CASE Address4
    BY <1>4 DEF Address4, ReadField
  <1>5. CASE UserId
    BY <1>5 DEF UserId, ReadField
  <1>6. CASE Methods
    BY <1>6 DEF Methods
  <1>7. CASE SendMethod
    BY <1>7 DEF SendMethod
  <1>8. CASE AuthVersion
    BY <1>8 DEF AuthVersion, ReadChecked, ReadField
  <1>9. CASE UserName
    BY <1>9 DEF UserName, ReadChecked, ReadField
  <1>10. CASE Password
    BY <1>10 DEF Password
  <1>11. CASE SendAuth
    BY <1>11 DEF SendAuth
  <1>12. CASE Version
    BY <1>12 DEF Version
  <1>13. CASE Command
    BY <1>13 DEF Command
  <1>14. CASE Address5
    BY <1>14 DEF Address5, ReadChecked, ReadField
  <1>15. CASE Port5
    BY <1>15 DEF Port5
  <1>16. CASE Resolve
    BY <1>16 DEF Resolve
  <1>17. CASE Connect
    <2>1. CASE ec # "none" /\ left > 0
      <3>1. PICK e \in Errors \cup {"none"} :
               /\ ec' = e /\ tried' = Append(tried, e) /\ pc = "connect" /\ pc' = "connect"
               /\ peer' = IF e = "none" THEN "connected" ELSE "none"
        BY <1>17, <2>1 DEF Connect, ConnectWhile
      <3>2. /\ tried' # <<>> /\ Len(tried') = Len(tried) + 1 /\ tried'[Len(tried')] = e
            /\ \A i \in 1 .. Len(tried) : tried'[i] = tried[i]
            /\ Len(tried) \in Nat
        BY <3>1, Appended
      <3>3. \A i \in 1 .. Len(tried) : tried[i] # "none"
        <4>1. tried = <<>> \/ tried[Len(tried)] # "none"
          BY <2>1
        <4> QED
          BY <3>2, <4>1
      <3>4. \A i \in 1 .. Len(tried') : tried'[i] = "none" => i = Len(tried')
        BY <3>2, <3>3
      <3> QED
        BY <3>1, <3>2, <3>4
    <2>2. CASE ~(ec # "none" /\ left > 0)
      <3>1. UNCHANGED connection /\ pc = "connect" /\ pc' = "connected" /\ (ec # "none" => left = 0)
        BY <1>17, <2>2 DEF Connect, ConnectWhile
      <3> QED
        BY <3>1
    <2> QED
      BY <2>1, <2>2
  <1>18. CASE ConnectThrows
    BY <1>18 DEF ConnectThrows
  <1>19. CASE Connected4
    BY <1>19 DEF Connected4
  <1>20. CASE Connected5
    BY <1>20 DEF Connected5
  <1>21. CASE SendGrant4
    BY <1>21 DEF SendGrant4
  <1>22. CASE SendGrant5
    BY <1>22 DEF SendGrant5
  <1>23. CASE SendRefusal
    BY <1>23 DEF SendRefusal
  <1>24. CASE CreateRecord
    BY <1>24 DEF CreateRecord
  <1>25. CASE ClientLeaves
    BY <1>25 DEF ClientLeaves
  <1>26. CASE ServerLeaves
    BY <1>26 DEF ServerLeaves
  <1>27. CASE UNCHANGED vars
    BY <1>27 DEF vars
  <1> QED
    BY <1>1, <1>2, <1>3, <1>4, <1>5, <1>6, <1>7, <1>8, <1>9, <1>10, <1>11, <1>12, <1>13, <1>14, <1>15, <1>16, <1>17, <1>18, <1>19, <1>20, <1>21, <1>22, <1>23, <1>24, <1>25, <1>26, <1>27
       DEF Next, Step, Socks4Step, Socks5Step, ConnectStep

\* A row is created by the last step only, with a connected server.
LEMMA RowKeptNext ==
  ASSUME Placed, Attempts, RowKept, [Next]_vars
  PROVE  RowKept'
  <1> USE DEF Placed, Attempts, RowKept, Reading, Asking4, Negotiating, Authenticating, Asking5, Connecting, Reads, CannotRead, Ends, Fails, GoesTo, GoesToReply, Got, Sends, Unsent, request, connection
  <1>1. CASE CreateProxy
    BY <1>1 DEF CreateProxy
  <1>2. CASE Cd
    BY <1>2 DEF Cd, ReadChecked, ReadField
  <1>3. CASE Port4
    BY <1>3 DEF Port4
  <1>4. CASE Address4
    BY <1>4 DEF Address4, ReadField
  <1>5. CASE UserId
    BY <1>5 DEF UserId, ReadField
  <1>6. CASE Methods
    BY <1>6 DEF Methods
  <1>7. CASE SendMethod
    BY <1>7 DEF SendMethod
  <1>8. CASE AuthVersion
    BY <1>8 DEF AuthVersion, ReadChecked, ReadField
  <1>9. CASE UserName
    BY <1>9 DEF UserName, ReadChecked, ReadField
  <1>10. CASE Password
    BY <1>10 DEF Password
  <1>11. CASE SendAuth
    BY <1>11 DEF SendAuth
  <1>12. CASE Version
    BY <1>12 DEF Version
  <1>13. CASE Command
    BY <1>13 DEF Command
  <1>14. CASE Address5
    BY <1>14 DEF Address5, ReadChecked, ReadField
  <1>15. CASE Port5
    BY <1>15 DEF Port5
  <1>16. CASE Resolve
    BY <1>16 DEF Resolve
  <1>17. CASE Connect
    BY <1>17 DEF Connect, ConnectWhile
  <1>18. CASE ConnectThrows
    BY <1>18 DEF ConnectThrows
  <1>19. CASE Connected4
    BY <1>19 DEF Connected4
  <1>20. CASE Connected5
    BY <1>20 DEF Connected5
  <1>21. CASE SendGrant4
    BY <1>21 DEF SendGrant4
  <1>22. CASE SendGrant5
    BY <1>22 DEF SendGrant5
  <1>23. CASE SendRefusal
    BY <1>23 DEF SendRefusal
  <1>24. CASE CreateRecord
    BY <1>24 DEF CreateRecord
  <1>25. CASE ClientLeaves
    BY <1>25 DEF ClientLeaves
  <1>26. CASE ServerLeaves
    BY <1>26 DEF ServerLeaves
  <1>27. CASE UNCHANGED vars
    BY <1>27 DEF vars
  <1> QED
    BY <1>1, <1>2, <1>3, <1>4, <1>5, <1>6, <1>7, <1>8, <1>9, <1>10, <1>11, <1>12, <1>13, <1>14, <1>15, <1>16, <1>17, <1>18, <1>19, <1>20, <1>21, <1>22, <1>23, <1>24, <1>25, <1>26, <1>27
       DEF Next, Step, Socks4Step, Socks5Step, ConnectStep

\* The port told is the one of the connection, and is told only at the end.
LEMMA PortsNext ==
  ASSUME Typed, Placed, Attempts, Ports, [Next]_vars
  PROVE  Ports'
  <1> USE DEF Ports
  <1>1. "granted" \notin Refusals
    BY RefusalsAreCodes
  <1>2. group' \in Words \cup {<<>>}
    <2>1. Address5 \/ UNCHANGED group
      BY DEF Next, Step, Socks4Step, Socks5Step, ConnectStep, CreateProxy, Cd, Port4, Address4, UserId,
             Methods, SendMethod, AuthVersion, UserName, Password, SendAuth, Version, Command,
             Port5, Resolve, Connect, ConnectWhile, ConnectThrows, Connected4, Connected5,
             SendGrant4, SendGrant5, SendRefusal, CreateRecord, ClientLeaves, ServerLeaves, vars,
             ReadChecked, ReadField, Reads, Got, request
    <2> QED
      BY <2>1 DEF Address5, ReadChecked, ReadField, Got, request
  <1>3. /\ bound' \in Words \cup {<<>>}
        /\ peer' # "none" => bound' \in Words
        /\ bound' = bound \/ pc = "connect"
    BY ConnectionSteps DEF Resolve, Connect, ConnectWhile, ServerLeaves, connection
  <1>4. pc \notin {"record", "done"} \/ UNCHANGED told
    BY SendingSteps DEF Sending, SendMethod, SendAuth, SendGrant4, SendGrant5, SendRefusal
  <1>5. pc \in {"record", "done"} => pc' \in {"record", "done"} /\ UNCHANGED <<bound, told>>
    BY DEF Next, Step, Socks4Step, Socks5Step, ConnectStep, CreateProxy, Cd, Port4, Address4, UserId,
             Methods, SendMethod, AuthVersion, UserName, Password, SendAuth, Version, Command, Address5,
             Port5, Resolve, Connect, ConnectWhile, ConnectThrows, Connected4, Connected5,
             SendGrant4, SendGrant5, SendRefusal, CreateRecord, ClientLeaves, ServerLeaves, vars,
             ReadChecked, ReadField, Reads, CannotRead, Ends, request, connection
  <1>6. CASE SendGrant5
    BY <1>2, <1>3, <1>6 DEF SendGrant5, Sends, Unsent, Placed, Attempts, connection
  <1>7. CASE SendMethod \/ SendAuth \/ SendGrant4 \/ SendRefusal
    <2>1. told' = told
      BY <1>1, <1>7 DEF SendMethod, SendAuth, SendGrant4, SendRefusal, Sends, Unsent, Placed
    <2> QED
      BY <1>2, <1>3, <1>7, <2>1 DEF SendMethod, SendAuth, SendGrant4, SendRefusal
  <1>8. CASE UNCHANGED told
    BY <1>2, <1>3, <1>5, <1>8
  <1> QED
    BY SendingSteps, <1>6, <1>7, <1>8 DEF Sending

\* What is appended are errors and codes.
LEMMA SequencesNext ==
  ASSUME Typed, Placed, Sequences, [Next]_vars
  PROVE  Sequences'
  <1>1. tried' \in Seq(Errors \cup {"none"})
    BY ConnectionSteps, AppendProperties DEF Sequences, Resolve, Connect, ConnectWhile, ServerLeaves, connection
  <1>2. Sending => reply \in Codes \ {"none"}
    BY RefusalsAreCodes DEF Placed, Sending, SendMethod, SendAuth, SendGrant4, SendGrant5, SendRefusal
  <1>3. replies' = replies \/ (Sending /\ replies' = Append(replies, reply))
    BY SendingSteps DEF Sending, SendMethod, SendAuth, SendGrant4, SendGrant5, SendRefusal, Sends, Unsent
  <1>4. replies' \in Seq(Codes \ {"none"})
    BY <1>2, <1>3, AppendProperties DEF Sequences
  <1> QED
    BY <1>1, <1>4 DEF Sequences

\* The endpoints left are counted down to 0 and no further.
LEMMA NumbersNext ==
  ASSUME Numbers, [Next]_vars
  PROVE  Numbers'
  BY ConnectionSteps DEF Numbers, Resolve, Connect, ConnectWhile, ServerLeaves, connection

\* No step sends a grant or ends without a last word, but for a client that is gone.
LEMMA ToldNext ==
  ASSUME Placed, FieldsRead, Told, Sequences, [Next]_vars
  PROVE  Told'
  <1> USE DEF Placed, FieldsRead, Told, RefusalTold, NoGrant, LastWord, Reading, Asking4, Negotiating, Authenticating, Asking5, Connecting, Reads, CannotRead, Ends, Fails, GoesTo, GoesToReply, Got, Sends, Unsent, request, connection
  <1>1. CASE CreateProxy
    BY <1>1 DEF CreateProxy
  <1>2. CASE Cd
    BY <1>2 DEF Cd, ReadChecked, ReadField
  <1>3. CASE Port4
    BY <1>3 DEF Port4
  <1>4. CASE Address4
    BY <1>4 DEF Address4, ReadField
  <1>5. CASE UserId
    BY <1>5 DEF UserId, ReadField
  <1>6. CASE Methods
    BY <1>6 DEF Methods
  <1>7. CASE SendMethod
    BY <1>7 DEF SendMethod
  <1>8. CASE AuthVersion
    BY <1>8 DEF AuthVersion, ReadChecked, ReadField
  <1>9. CASE UserName
    BY <1>9 DEF UserName, ReadChecked, ReadField
  <1>10. CASE Password
    BY <1>10 DEF Password
  <1>11. CASE SendAuth
    BY <1>11 DEF SendAuth
  <1>12. CASE Version
    BY <1>12 DEF Version
  <1>13. CASE Command
    BY <1>13 DEF Command
  <1>14. CASE Address5
    BY <1>14 DEF Address5, ReadChecked, ReadField
  <1>15. CASE Port5
    BY <1>15 DEF Port5
  <1>16. CASE Resolve
    BY <1>16 DEF Resolve
  <1>17. CASE Connect
    BY <1>17 DEF Connect, ConnectWhile
  <1>18. CASE ConnectThrows
    BY <1>18 DEF ConnectThrows
  <1>19. CASE Connected4
    BY <1>19 DEF Connected4
  <1>20. CASE Connected5
    BY <1>20 DEF Connected5
  <1>21. CASE SendGrant4
    BY <1>21 DEF SendGrant4
  <1>22. CASE SendGrant5
    BY <1>22 DEF SendGrant5
  <1>23. CASE SendRefusal
    <2>1. /\ pc = "sendrefusal" /\ pc' = "done" /\ result' = "false" /\ NoGrant
          /\ reply \in Refusals /\ "granted" \notin Refusals
          /\ UNCHANGED <<stream, fields, ver, peer>>
      BY <1>23, RefusalsAreCodes DEF SendRefusal
    <2>2. CASE stream = "reset"
      BY <1>23, <2>1, <2>2 DEF SendRefusal
    <2>3. CASE stream # "reset"
      <3>1. replies' = Append(replies, reply)
        BY <1>23, <2>3 DEF SendRefusal
      <3>2. reply \in Codes \ {"none"} /\ replies \in Seq(Codes \ {"none"})
        BY <2>1, RefusalsAreCodes DEF Sequences
      <3>3. /\ replies' # <<>> /\ Len(replies') = Len(replies) + 1 /\ Len(replies) \in Nat
            /\ replies'[Len(replies')] = reply
            /\ \A i \in 1 .. Len(replies) : replies'[i] = replies[i]
        BY <3>1, <3>2, Appended
      <3>4. NoGrant'
        BY <2>1, <3>3
      <3> QED
        BY <2>1, <3>3, <3>4
    <2> QED
      BY <2>2, <2>3
  <1>24. CASE CreateRecord
    BY <1>24 DEF CreateRecord
  <1>25. CASE ClientLeaves
    BY <1>25 DEF ClientLeaves
  <1>26. CASE ServerLeaves
    BY <1>26 DEF ServerLeaves
  <1>27. CASE UNCHANGED vars
    BY <1>27 DEF vars
  <1> QED
    BY <1>1, <1>2, <1>3, <1>4, <1>5, <1>6, <1>7, <1>8, <1>9, <1>10, <1>11, <1>12, <1>13, <1>14, <1>15, <1>16, <1>17, <1>18, <1>19, <1>20, <1>21, <1>22, <1>23, <1>24, <1>25, <1>26, <1>27
       DEF Next, Step, Socks4Step, Socks5Step, ConnectStep

\* Every step keeps the cause: before a refusal is sent nothing has been refused, and what
\* is about to be sent after a full request is what connect() or the command says.
LEMMA CauseNext ==
  ASSUME Typed, Placed, FieldsRead, ConnectsOnFull, Said, Cause, Sequences, [Next]_vars
  PROVE  Cause'
  <1> DEFINE Refused == replies # <<>> /\ replies[Len(replies)] \in Refusals
  <1>1. pc \notin {"record", "done"} => ~Refused
    <2>1. "method" \notin Refusals /\ "auth_ok" \notin Refusals
      BY DEF Refusals, Errors, Rep
    <2>2. pc \notin {"record", "done"} => replies \in {<<>>, <<"method">>, <<"method", "auth_ok">>}
      BY DEF Typed, Said, Base, Placed, Reading, Asking4, Negotiating, Authenticating, Asking5, Connecting
    <2>3. /\ <<"method">>[Len(<<"method">>)] = "method"
          /\ <<"method", "auth_ok">>[Len(<<"method", "auth_ok">>)] = "auth_ok"
      OBVIOUS
    <2> QED
      BY <2>1, <2>2, <2>3
  <1>2. ASSUME ~Refused, replies' = replies,
               pc' = "sendrefusal" => ver' # 5 \/ "port" \notin fields' \/ reply' = CauseCode'
        PROVE  Cause'
    BY <1>2 DEF Cause
  <1>3. ASSUME UNCHANGED <<ver, fields, cmd, ec, replies>>, pc' # "sendrefusal" PROVE Cause'
    BY <1>3 DEF Cause, CauseCode
  <1>4. ASSUME "port" \notin fields' PROVE Cause'
    BY <1>4 DEF Cause
  <1> HIDE DEF Refused
  <1> USE DEF Reads, CannotRead, Ends, Fails, GoesTo, GoesToReply, Got, request, connection
  <1>5. CASE CreateProxy
    BY <1>1, <1>2, <1>5 DEF CreateProxy
  <1>6. CASE Cd
    BY <1>1, <1>2, <1>6 DEF Cd, ReadChecked, ReadField
  <1>7. CASE Port4
    BY <1>1, <1>2, <1>7 DEF Port4
  <1>8. CASE Address4
    BY <1>1, <1>2, <1>8 DEF Address4, ReadField
  <1>9. CASE UserId
    BY <1>1, <1>2, <1>9 DEF UserId, ReadField
  <1>10. CASE Methods
    BY <1>1, <1>2, <1>10 DEF Methods
  <1>11. CASE AuthVersion
    BY <1>1, <1>2, <1>11 DEF AuthVersion, ReadChecked, ReadField
  <1>12. CASE UserName
    BY <1>1, <1>2, <1>12 DEF UserName, ReadChecked, ReadField
  <1>13. CASE Password
    BY <1>1, <1>2, <1>13 DEF Password
  <1>14. CASE Version
    <2>1. ver = 5 => "port" \notin fields
      BY <1>14 DEF Version, FieldsRead, Reading, Asking5
    <2> QED
      BY <1>1, <1>2, <1>14, <2>1 DEF Version
  <1>15. CASE Command
    BY <1>1, <1>2, <1>15 DEF Command
  <1>16. CASE Address5
    <2>1. ver = 5 => "port" \notin fields
      BY <1>16 DEF Address5, ReadChecked, ReadField, FieldsRead, Reading, Asking5
    <2> QED
      BY <1>1, <1>2, <1>16, <2>1 DEF Address5, ReadChecked, ReadField
  <1>17. CASE Port5
    BY <1>1, <1>2, <1>17 DEF Port5, CauseCode
  <1>18. CASE Resolve
    BY <1>1, <1>2, <1>18 DEF Resolve
  <1>19. CASE Connect
    BY <1>1, <1>2, <1>19 DEF Connect, ConnectWhile
  <1>20. CASE ConnectThrows
    BY <1>1, <1>2, <1>20 DEF ConnectThrows
  <1>21. CASE Connected4
    BY <1>1, <1>2, <1>21 DEF Connected4
  <1>22. CASE Connected5
    <2>1. cmd = "connect"
      BY <1>22 DEF Connected5, ConnectsOnFull, Connecting, FullRequest
    <2> QED
      BY <1>1, <1>2, <1>22, <2>1 DEF Connected5, CauseCode
  <1>23. CASE SendMethod
    <2>1. ver = 5 /\ fields' = fields /\ pc \in Reading
      BY <1>23 DEF SendMethod, Placed, Reading, Negotiating, Authenticating
    <2> QED
      BY <1>4, <2>1 DEF FieldsRead
  <1>24. CASE SendAuth
    <2>1. ver = 5 /\ fields' = fields /\ pc \in Reading
      BY <1>24 DEF SendAuth, Placed, Reading, Negotiating, Authenticating
    <2> QED
      BY <1>4, <2>1 DEF FieldsRead
  <1>25. CASE SendGrant4
    <2>1. /\ reply = "granted" /\ ~Refused /\ pc' # "sendrefusal"
          /\ UNCHANGED <<ver, fields, cmd, ec>>
      BY <1>1, <1>25 DEF SendGrant4, Placed
    <2>2. CASE replies' = replies
      BY <1>2, <2>1, <2>2
    <2>3. CASE replies' = Append(replies, reply)
      <3>1. replies'[Len(replies')] = "granted"
        BY <2>1, <2>3, Appended, RefusalsAreCodes DEF Sequences
      <3> QED
        BY <2>1, <3>1, RefusalsAreCodes DEF Cause
    <2> QED
      BY <1>25, <2>2, <2>3 DEF SendGrant4, Sends, Unsent
  <1>26. CASE SendGrant5
    <2>1. /\ reply = "granted" /\ ~Refused /\ pc' # "sendrefusal"
          /\ UNCHANGED <<ver, fields, cmd, ec>>
      BY <1>1, <1>26 DEF SendGrant5, Placed
    <2>2. CASE replies' = replies
      BY <1>2, <2>1, <2>2
    <2>3. CASE replies' = Append(replies, reply)
      <3>1. replies'[Len(replies')] = "granted"
        BY <2>1, <2>3, Appended, RefusalsAreCodes DEF Sequences
      <3> QED
        BY <2>1, <3>1, RefusalsAreCodes DEF Cause
    <2> QED
      BY <1>26, <2>2, <2>3 DEF SendGrant5, Sends, Unsent
  <1>27. CASE SendRefusal
    <2>1. /\ reply \in Refusals /\ ~Refused /\ pc = "sendrefusal" /\ pc' = "done"
          /\ UNCHANGED <<ver, fields, cmd, ec>>
      BY <1>1, <1>27 DEF SendRefusal, Placed
    <2>2. CASE replies' = replies
      BY <1>2, <2>1, <2>2
    <2>3. CASE replies' = Append(replies, reply)
      <3>1. replies'[Len(replies')] = reply
        BY <2>1, <2>3, Appended, RefusalsAreCodes DEF Sequences
      <3> QED
        BY <2>1, <3>1 DEF Cause, CauseCode
    <2> QED
      BY <1>27, <2>2, <2>3 DEF SendRefusal, Sends, Unsent
  <1>28. CASE CreateRecord
    BY <1>3, <1>28 DEF CreateRecord
  <1>29. CASE ClientLeaves
    BY <1>29 DEF ClientLeaves, Cause, CauseCode
  <1>30. CASE ServerLeaves
    BY <1>30 DEF ServerLeaves, Cause, CauseCode
  <1>31. CASE UNCHANGED vars
    BY <1>31 DEF vars, Cause, CauseCode
  <1> QED
    BY <1>5, <1>6, <1>7, <1>8, <1>9, <1>10, <1>11, <1>12, <1>13, <1>14, <1>15, <1>16, <1>17, <1>18, <1>19, <1>20, <1>21, <1>22, <1>23, <1>24, <1>25, <1>26, <1>27, <1>28, <1>29, <1>30, <1>31
       DEF Next, Step, Socks4Step, Socks5Step, ConnectStep

--------------------------------------------------------------------------------
(* The invariant, and what it says of the handshake. *)

\* The parts of the invariant hold initially.
LEMMA IndInvInit == Init => IndInv
  <1> SUFFICES ASSUME Init PROVE IndInv
    OBVIOUS
  <1> USE DEF Init, Reading, Asking4, Negotiating, Authenticating, Asking5, Connecting
  <1>1. Typed
    BY DEF Typed, Codes
  <1>2. Placed /\ FieldsRead /\ ConnectsOnFull
    BY DEF Placed, FieldsRead, ConnectsOnFull
  <1>3. Said /\ Attempts /\ RowKept
    BY DEF Said, Attempts, RowKept
  <1>4. Told /\ Ports
    BY DEF Told, NoGrant, RefusalTold, Ports
  <1>5. Sequences
    BY DEF Sequences
  <1>6. Numbers
    BY EndpointsAssumption DEF Numbers
  <1>7. auth \in BOOLEAN
    OBVIOUS
  <1>8. Cause
    BY DEF Cause
  <1> QED
    BY <1>1, <1>2, <1>3, <1>4, <1>5, <1>6, <1>7, <1>8 DEF IndInv

\* Every step keeps the invariant.
LEMMA IndInvNext == IndInv /\ [Next]_vars => IndInv'
  <1> SUFFICES ASSUME IndInv, [Next]_vars PROVE IndInv'
    OBVIOUS
  <1>1. /\ Typed /\ Placed /\ FieldsRead /\ ConnectsOnFull /\ Said /\ Attempts /\ RowKept
        /\ Told /\ Cause /\ Ports /\ Sequences /\ Numbers
    BY DEF IndInv
  <1>2. Typed' /\ Placed' /\ FieldsRead' /\ ConnectsOnFull'
    BY <1>1, TypedNext, PlacedNext, FieldsNext, FullNext
  <1>3. Said' /\ Attempts' /\ RowKept'
    BY <1>1, SaidNext, AttemptsNext, RowKeptNext
  <1>4. Told' /\ Ports' /\ Sequences' /\ Numbers'
    BY <1>1, ToldNext, PortsNext, SequencesNext, NumbersNext
  <1>5. Cause'
    BY <1>1, CauseNext
  <1>6. auth' = auth
    BY DEF Next, Step, Socks4Step, Socks5Step, ConnectStep, CreateProxy, Cd, Port4, Address4,
           UserId, Methods, SendMethod, AuthVersion, UserName, Password, SendAuth, Version,
           Command, Address5, Port5, Resolve, Connect, ConnectWhile, ConnectThrows, Connected4,
           Connected5, SendGrant4, SendGrant5, SendRefusal, CreateRecord, ClientLeaves,
           ServerLeaves, vars, ReadChecked, ReadField, Got, request
  <1> QED
    BY <1>2, <1>3, <1>4, <1>5, <1>6 DEF IndInv

\* The invariant holds in every reachable state of the handshake.
THEOREM HandshakeInvariant == Spec => []IndInv
  BY IndInvInit, IndInvNext, PTL DEF Spec

\* What SOCKS5 has said when it has the request is a negotiation.
LEMMA BaseIsNegotiation ==
  ASSUME ver = 5
  PROVE  Base \in Negotiation /\ Base \in Seq(Codes)
  <1>1. {"method", "auth_ok"} \subseteq Codes
    BY RefusalsAreCodes
  <1>2. CASE auth
    <2>1. Base = <<"method", "auth_ok">> /\ Negotiation = {<<"method", "auth_ok">>}
      BY <1>2 DEF Base, Negotiation
    <2> QED
      BY <1>1, <2>1
  <1>3. CASE ~auth
    <2>1. Base = <<"method">> /\ Negotiation = {<<"method">>}
      BY <1>3 DEF Base, Negotiation
    <2> QED
      BY <1>1, <2>1
  <1> QED
    BY <1>2, <1>3

\* A negotiation and at most one final answer make a conversation of SOCKS5.
LEMMA NegotiatedDialogue ==
  ASSUME ver = 5, NEW n \in Negotiation, NEW f \in Final, replies = n \o f
  PROVE  RepliesInProtocol
  BY DEF RepliesInProtocol, Dialogues

\* Every reachable state is well typed: no endpoint is counted below 0, and what is told
\* of a port is a pair of bytes.
THEOREM HandshakeTypes == Spec => []TypeOK
  <1>1. IndInv => TypeOK
    <2> SUFFICES ASSUME IndInv PROVE TypeOK
      OBVIOUS
    <2>1. told \in Pairs \cup {<<>>}
      BY BindPortLowByte, WordsAssumption DEF IndInv, Ports
    <2>2. /\ {group, bound} \subseteq Words \cup {<<>>} /\ auth \in BOOLEAN
          /\ left \in 0 .. MaxEndpoints
          /\ tried \in Seq(Errors \cup {"none"}) /\ replies \in Seq(Codes \ {"none"})
      BY DEF IndInv, Ports, Numbers, Sequences
    <2>3. pc \in Fields4 \cup Fields5 \cup {"ver", "sendmethod", "sendauth", "resolve", "connect",
                    "connected", "sendgrant", "sendrefusal", "record", "done"}
      BY DEF IndInv, Typed, Reading, Asking4, Negotiating, Authenticating, Asking5, Connecting,
             Fields4, Fields5, Credentials
    <2> QED
      BY <2>1, <2>2, <2>3 DEF IndInv, Typed, TypeOK
  <1> QED
    BY <1>1, HandshakeInvariant, PTL

\* The server's half of every conversation is one the two protocols allow.
THEOREM RepliesFollowProtocol == Spec => []RepliesInProtocol
  <1>1. ASSUME IndInv PROVE RepliesInProtocol
    <2>1. Typed /\ Placed /\ Said
      BY <1>1 DEF IndInv
    <2>2. CASE replies = <<>>
      BY <2>2 DEF RepliesInProtocol, Dialogues, Final
    <2>3. CASE ver = 5 /\ replies \in {<<"no_method">>, <<"method">>}
      BY <2>3 DEF RepliesInProtocol, Dialogues
    <2>4. CASE ver = 5 /\ auth /\ replies = <<"method", "auth_denied">>
      BY <2>4 DEF RepliesInProtocol, Dialogues
    <2>5. ver = 4 => Base = <<>>
      BY DEF Base
    <2>6. ver = 5 => Base \in Negotiation /\ Base \in Seq(Codes)
      BY BaseIsNegotiation
    <2>7. CASE ver = 5 /\ replies = Base
      <3>1. Base = Base \o <<>>
        BY <2>6, <2>7, ConcatEmptySeq
      <3> QED
        BY <2>6, <2>7, <3>1, NegotiatedDialogue DEF Final
    <2>8. ASSUME ver \in {4, 5}, NEW c \in Refusals \cup {"granted"}, replies = Append(Base, c)
          PROVE  RepliesInProtocol
      <3>1. c \in Codes
        BY RefusalsAreCodes
      <3>2. CASE ver = 4
        <4>1. replies = <<c>>
          BY <2>5, <2>8, <3>2
        <4> QED
          BY <3>2, <4>1 DEF RepliesInProtocol, Dialogues, Final
      <3>3. CASE ver = 5
        <4>1. replies = Base \o <<c>>
          BY <2>6, <2>8, <3>1, <3>3, AppendIsConcat
        <4>2. <<c>> \in Final
          BY DEF Final
        <4> QED
          BY <2>6, <3>3, <4>1, <4>2, NegotiatedDialogue
      <3> QED
        BY <2>8, <3>2, <3>3
    <2>9. CASE pc \in {"record", "done"}
      BY <2>1, <2>2, <2>3, <2>4, <2>5, <2>7, <2>8, <2>9 DEF Said, Answered, BrokenOff
    <2>10. CASE pc \notin {"record", "done"}
      <3>1. \/ replies = <<>>
            \/ ver = 5 /\ replies = <<"method">>
            \/ ver \in {4, 5} /\ replies = Base
        BY <2>1, <2>10 DEF Typed, Placed, Said, Reading, Asking4, Negotiating, Authenticating,
                           Asking5, Connecting
      <3> QED
        BY <2>2, <2>3, <2>5, <2>7, <3>1
    <2> QED
      BY <2>9, <2>10
  <1> QED
    BY <1>1, HandshakeInvariant, PTL

\* A connection is attempted only for a request that was read in full and, by SOCKS5, after
\* the negotiation the server is set to, although Socks4::init ignores readPort's result.
THEOREM ConnectsForFullRequests == Spec => []ConnectsOnFullRequest
  <1>1. ASSUME IndInv PROVE ConnectsOnFullRequest
    <2> SUFFICES ASSUME pc \in Connecting \/ tried # <<>>
                 PROVE  /\ Required \subseteq fields
                        /\ ver = 5 => /\ cmd = "connect"
                                      /\ \E n \in Negotiation : SubSeq(replies, 1, Len(n)) = n
      BY DEF ConnectsOnFullRequest, Connecting
    <2>1. Required \subseteq fields /\ (ver = 5 => cmd = "connect")
      BY <1>1 DEF IndInv, ConnectsOnFull, FullRequest
    <2>2. Answered \/ (replies = Base /\ ver \in {4, 5})
      BY <1>1 DEF IndInv, Typed, Placed, Said, Attempts, Answered, BrokenOff, Reading, Asking4,
                  Negotiating, Authenticating, Asking5, Connecting
    <2>3. ASSUME ver = 5
          PROVE  \E n \in Negotiation : SubSeq(replies, 1, Len(n)) = n
      <3>1. Base \in Negotiation /\ Base \in Seq(Codes)
        BY <2>3, BaseIsNegotiation
      <3>2. SubSeq(replies, 1, Len(Base)) = Base
        BY <2>2, <3>1, RefusalsAreCodes, BeginningOfAppend DEF Answered
      <3> QED
        BY <3>1, <3>2
    <2> QED
      BY <2>1, <2>3
  <1> QED
    BY <1>1, HandshakeInvariant, PTL

\* A client that was told its request is granted is relayed unless a peer is gone, whatever
\* the database does, and one whose SOCKS5 request was read in full is told the outcome, a
\* refusal with the code of its cause.
THEOREM OutcomesAreTold == Spec => []OutcomeTold
  <1>1. IndInv => GrantKept /\ RefusalTold
    BY DEF IndInv, Told, NoGrant, GrantKept
  <1>2. IndInv => RefusalTrue
    <2>1. IndInv /\ tried # <<>> => ec = tried[Len(tried)]
      BY DEF IndInv, Attempts
    <2> QED
      BY <2>1 DEF IndInv, Cause, CauseCode, RefusalTrue
  <1>3. IndInv => OutcomeTold
    BY <1>1, <1>2 DEF OutcomeTold
  <1> QED
    BY <1>3, HandshakeInvariant, PTL

\* The handshake is what ProxyServer takes it for: the first endpoint that could be reached
\* is used, success means a connected server, and any other end leaves no row.
THEOREM OutcomeIsSummary == Spec => []OutcomeSummary
  <1>1. IndInv => OutcomeSummary
    BY DEF IndInv, Attempts, RowKept, OutcomeSummary, FirstReachable
  <1> QED
    BY <1>1, HandshakeInvariant, PTL

\* For every pair of bytes: BND.PORT is told right exactly below 256, and a group of an
\* IPv6 address is passed on right exactly when it needs no zero in its middle.
THEOREM WordsArePassedOn == Spec => []WordsPassedOn
  <1>1. ASSUME IndInv PROVE WordsPassedOn
    <2>1. BindPortToldBelow256
      BY <1>1, BindPortLowByte, WordsAssumption DEF IndInv, Ports, BindPortToldBelow256
    <2>2. GroupExactUnlessPadded
      BY <1>1, GroupKeepsValue, WordsAssumption DEF IndInv, Ports, GroupExactUnlessPadded
    <2> QED
      BY <2>1, <2>2 DEF WordsPassedOn
  <1> QED
    BY <1>1, HandshakeInvariant, PTL
================================================================================
