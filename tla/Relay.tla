--------------------------------- MODULE Relay ---------------------------------
(***************************************************************************)
(* The relaying of bytes (session.cpp): what ProxyServer's Handle, WriteOk  *)
(* and WriteFails do with the data.  A flow is one direction of a session,  *)
(* named by the side it comes from: <<s, "client">> is read into            *)
(* _client_buf by client_read and written to the server by client_handle.   *)
(*                                                                          *)
(* All handlers run on the one thread of io_context.run(), and a handler    *)
(* stays in its write until the socket has taken every byte: while it does, *)
(* no other handler runs.  The sockets and the peers are the environment:   *)
(* a socket takes a few bytes ahead of its peer, who may stop sending, or   *)
(* vanish.  Bytes are numbered from 1 in each flow; 0 is what a buffer       *)
(* holds before the first read.                                             *)
(***************************************************************************)
EXTENDS Naturals, Sequences

CONSTANTS
    Sessions,       \* the sessions that are relayed
    None,           \* no flow
    MaxBytes,       \* bound on the bytes of a flow
    BufferSizes,    \* the buffer sizes the configuration may ask for, 0 included
    SocketRoom      \* bytes a socket takes before its peer has read any

Sides == {"client", "server"}
Flows == Sessions \X Sides

ASSUME NoneAssumption == None \notin Flows
ASSUME SizeAssumption ==
    MaxBytes \in Nat /\ BufferSizes \subseteq Nat /\ SocketRoom \in Nat \ {0}

VARIABLES
    bufferSize, \* the size of every buffer, fixed at start
    sent,       \* per flow: bytes its sender has sent
    sender,     \* per flow: its sender is "open", has "ended" its stream, or is "gone"
    taken,      \* per flow: bytes read from the socket
    buf,        \* per flow: the content of its buffer
    read,       \* per flow: the asynchronous read
    len,        \* per flow: bytes_transferred of the last read
    writing,    \* the flow the main thread is writing, or None
    rest,       \* what it has still to write
    put,        \* per flow: bytes the receiving socket has taken
    transit,    \* per flow: those its receiver has not read yet
    got,        \* per flow: those it has
    counted,    \* per flow: bytes in the session's row
    refused,    \* history, per flow: the database has refused to count some
    closed      \* per session: "open", the side whose end of stream closed it, or "failed"

peerVars == <<sent, sender, got>>
mainVars == <<writing, rest, put, counted, refused>>
vars == <<bufferSize, peerVars, taken, buf, read, len, mainVars, transit, closed>>

\* The flow of the other direction: it shares its socket with the receiver of f.
Back(f) == <<f[1], IF f[2] = "client" THEN "server" ELSE "client">>

\* start() has armed both reads.
Init ==
    /\ bufferSize \in BufferSizes
    /\ sent = [f \in Flows |-> 0] /\ sender = [f \in Flows |-> "open"]
    /\ taken = [f \in Flows |-> 0] /\ buf = [f \in Flows |-> [i \in 1 .. bufferSize |-> 0]]
    /\ read = [f \in Flows |-> "pending"] /\ len = [f \in Flows |-> 0]
    /\ writing = None /\ rest = <<>>
    /\ put = [f \in Flows |-> 0] /\ transit = [f \in Flows |-> <<>>]
    /\ got = [f \in Flows |-> <<>>] /\ counted = [f \in Flows |-> 0]
    /\ refused = [f \in Flows |-> FALSE]
    /\ closed = [s \in Sessions |-> "open"]
--------------------------------------------------------------------------------
(* The asynchronous read of a flow completes. *)

Completes(f, result) ==
    /\ read[f] = "pending"
    /\ read' = [read EXCEPT ![f] = result]
    /\ UNCHANGED <<bufferSize, peerVars, mainVars, transit, closed>>

\* async_read_some: n bytes at the front of the buffer, what is behind them stays.  With a
\* buffer of no size it completes at once, with no bytes and no error.
ReadSome(f, n) ==
    /\ Completes(f, "data")
    /\ n <= bufferSize /\ taken[f] + n <= sent[f] /\ (n = 0 => bufferSize = 0)
    /\ len' = [len EXCEPT ![f] = n]
    /\ taken' = [taken EXCEPT ![f] = @ + n]
    /\ buf' = [buf EXCEPT ![f] =
                  [i \in 1 .. bufferSize |-> IF i <= n THEN taken[f] + i ELSE @[i]]]

\* End of file comes after the last byte; an error when the sender is gone.
ReadEof(f) ==
    /\ Completes(f, "eof") /\ sender[f] = "ended" /\ taken[f] = sent[f]
    /\ UNCHANGED <<taken, buf, len>>
ReadFails(f) ==
    /\ Completes(f, "failed") /\ sender[f] = "gone"
    /\ UNCHANGED <<taken, buf, len>>
--------------------------------------------------------------------------------
(* The handlers, on the main thread. *)

\* close(): the first caller closes both sockets, and what is armed on them fails.  The
\* read that brought the handler here, of flow f, is over.
Close(f, cause) ==
    LET s == f[1]
        over == [read EXCEPT ![f] = "none"]
    IN IF closed[s] = "open"
       THEN /\ closed' = [closed EXCEPT ![s] = cause]
            /\ read' = [g \in Flows |-> IF g[1] = s /\ over[g] = "pending" THEN "failed" ELSE over[g]]
       ELSE read' = over /\ UNCHANGED closed

\* Seeded bug: a read that does not fill the buffer is taken for the last one.
HandleShortReadEnds(f) ==
    /\ writing = None /\ read[f] \in {"data", "eof", "failed"}
    /\ \/ /\ read[f] = "data" /\ len[f] = bufferSize
          /\ writing' = f /\ rest' = SubSeq(buf[f], 1, len[f])
          /\ read' = [read EXCEPT ![f] = "none"] /\ UNCHANGED closed
       \/ /\ read[f] # "data" \/ len[f] < bufferSize
          /\ Close(f, IF read[f] = "failed" THEN "failed" ELSE f[2])
          /\ UNCHANGED <<writing, rest>>
    /\ UNCHANGED <<bufferSize, peerVars, taken, buf, len, put, counted, refused, transit>>

\* Seeded bug: the whole buffer is written, whatever bytes_transferred says.
HandleWholeBuffer(f) ==
    /\ writing = None /\ read[f] \in {"data", "eof", "failed"}
    /\ \/ /\ read[f] = "data" /\ len[f] > 0
          /\ writing' = f /\ rest' = buf[f]
          /\ read' = [read EXCEPT ![f] = "none"] /\ UNCHANGED closed
       \/ /\ read[f] # "data" \/ len[f] = 0
          /\ Close(f, IF read[f] = "eof" THEN f[2] ELSE "failed")
          /\ UNCHANGED <<writing, rest>>
    /\ UNCHANGED <<bufferSize, peerVars, taken, buf, len, put, counted, refused, transit>>

\* client_handle and server_handle up to the write: an error, and a read of no bytes,
\* close the session.
Handle(f) ==
    /\ writing = None /\ read[f] \in {"data", "eof", "failed"}
    /\ \/ /\ read[f] = "data" /\ len[f] > 0
          /\ writing' = f /\ rest' = SubSeq(buf[f], 1, len[f])
          /\ read' = [read EXCEPT ![f] = "none"] /\ UNCHANGED closed
       \/ /\ read[f] # "data" \/ len[f] = 0
          /\ Close(f, IF read[f] = "eof" THEN f[2] ELSE "failed")
          /\ UNCHANGED <<writing, rest>>
    /\ UNCHANGED <<bufferSize, peerVars, taken, buf, len, put, counted, refused, transit>>

\* ba::write goes on until the socket has taken everything, a byte at a time here.
WriteSome ==
    /\ writing # None /\ rest # <<>>
    /\ closed[writing[1]] = "open" /\ Len(transit[writing]) < SocketRoom
    /\ transit' = [transit EXCEPT ![writing] = Append(@, Head(rest))]
    /\ put' = [put EXCEPT ![writing] = @ + 1]
    /\ rest' = Tail(rest)
    /\ UNCHANGED <<bufferSize, peerVars, taken, buf, read, len, writing, counted, refused, closed>>

\* Seeded bug: the bytes counted for the other direction.
WriteDoneSwapped ==
    /\ writing # None /\ rest = <<>>
    /\ counted' = [counted EXCEPT ![Back(writing)] = @ + len[writing]]
    /\ read' = [read EXCEPT ![writing] = "pending"]
    /\ writing' = None
    /\ UNCHANGED <<bufferSize, peerVars, taken, buf, len, rest, put, refused, transit, closed>>

\* The write is over: write_stat, which a database may refuse, and the next read into the
\* same buffer.
WriteDone ==
    /\ writing # None /\ rest = <<>>
    /\ \/ counted' = [counted EXCEPT ![writing] = @ + len[writing]] /\ UNCHANGED refused
       \/ refused' = [refused EXCEPT ![writing] = TRUE] /\ UNCHANGED counted
    /\ read' = [read EXCEPT ![writing] = "pending"]
    /\ writing' = None
    /\ UNCHANGED <<bufferSize, peerVars, taken, buf, len, rest, put, transit, closed>>

\* The receiver is gone, or the session was closed since the read: what is left of the
\* bytes is dropped, and none of them is counted.
WriteFails ==
    /\ writing # None /\ rest # <<>>
    /\ sender[Back(writing)] = "gone" \/ closed[writing[1]] # "open"
    /\ Close(writing, "failed")
    /\ writing' = None /\ rest' = <<>>
    /\ UNCHANGED <<bufferSize, peerVars, taken, buf, len, put, counted, refused, transit>>
--------------------------------------------------------------------------------
(* The peers. *)

PeerSends(f) ==
    /\ sender[f] = "open" /\ sent[f] < MaxBytes
    /\ sent' = [sent EXCEPT ![f] = @ + 1]
    /\ UNCHANGED <<bufferSize, sender, taken, buf, read, len, mainVars, transit, got, closed>>

PeerLeaves(f) ==
    /\ \/ sender[f] = "open" /\ sender' = [sender EXCEPT ![f] = "ended"]
       \/ sender[f] # "gone" /\ sender' = [sender EXCEPT ![f] = "gone"]
    /\ UNCHANGED <<bufferSize, sent, taken, buf, read, len, mainVars, transit, got, closed>>

\* The receiver of f reads a byte.
PeerReads(f) ==
    /\ sender[Back(f)] # "gone" /\ transit[f] # <<>>
    /\ got' = [got EXCEPT ![f] = Append(@, Head(transit[f]))]
    /\ transit' = [transit EXCEPT ![f] = Tail(@)]
    /\ UNCHANGED <<bufferSize, sent, sender, taken, buf, read, len, mainVars, closed>>

\* A socket closed with bytes from its peer unread resets the connection: what is still
\* on its way to that peer may be lost.
TransitLost(f) ==
    /\ closed[f[1]] # "open" /\ sent[Back(f)] > taken[Back(f)] /\ transit[f] # <<>>
    /\ transit' = [transit EXCEPT ![f] = <<>>]
    /\ UNCHANGED <<bufferSize, peerVars, taken, buf, read, len, mainVars, closed>>

ReadStep(f) == ReadEof(f) \/ ReadFails(f) \/ \E n \in 0 .. MaxBytes : ReadSome(f, n)
MainStep == WriteSome \/ WriteDone \/ WriteFails \/ \E f \in Flows : Handle(f)

Next ==
    \/ MainStep
    \/ \E f \in Flows : \/ ReadStep(f)
                        \/ PeerSends(f) \/ PeerLeaves(f) \/ PeerReads(f) \/ TransitLost(f)

Spec == Init /\ [][Next]_vars

\* The main thread runs, the network completes reads, and the peers read what arrives:
\* the last is an assumption on them, without which a write and all sessions wait.
FairSpec ==
    /\ Spec /\ WF_vars(MainStep)
    /\ \A f \in Flows : WF_vars(ReadStep(f)) /\ WF_vars(PeerReads(f))
--------------------------------------------------------------------------------
(* Properties. *)

\* Type invariant.
TypeOK ==
    /\ bufferSize \in BufferSizes
    /\ {sent, taken, put, counted, len} \subseteq [Flows -> 0 .. MaxBytes]
    /\ refused \in [Flows -> BOOLEAN]
    /\ sender \in [Flows -> {"open", "ended", "gone"}]
    /\ buf \in [Flows -> [1 .. bufferSize -> 0 .. MaxBytes]]
    /\ read \in [Flows -> {"none", "pending", "data", "eof", "failed"}]
    /\ writing \in Flows \cup {None} /\ rest \in Seq(1 .. MaxBytes)
    /\ transit \in [Flows -> Seq(1 .. MaxBytes)] /\ got \in [Flows -> Seq(1 .. MaxBytes)]
    /\ closed \in [Sessions -> Sides \cup {"open", "failed"}]

Promise == INSTANCE Pipe
\* Whatever the sizes of reads and writes, and whenever a session ends, each receiver gets
\* the sender's bytes in order, each once, and none of another flow or an earlier read.
ImplementsPipe == Promise!Spec

\* The row of a session says what its receivers were sent, in the right direction: no byte
\* more, and no byte less unless a write failed half-way or the database refused.  A session
\* that ends because one side has finished has sent on all of that side.
CountedIsPut ==
    \A f \in Flows :
        /\ counted[f] <= put[f]
        /\ writing # f /\ closed[f[1]] # "failed" /\ ~refused[f] => counted[f] = put[f]
        /\ closed[f[1]] = f[2] => put[f] = sent[f]

\* While both peers are there, every byte sent is received.
Delivered ==
    \A f \in Flows : \A n \in 1 .. MaxBytes :
        sent[f] = n /\ bufferSize > 0 ~>
            Len(got[f]) >= n \/ \E d \in Sides : sender[<<f[1], d>>] # "open"

\* What a side sent before it finished reaches the other side after the session is closed,
\* unless that one is gone or was still sending itself.
LastBytesArrive ==
    \A f \in Flows :
        closed[f[1]] = f[2] ~>
            \/ Len(got[f]) = sent[f]
            \/ sender[Back(f)] = "gone" \/ sent[Back(f)] > taken[Back(f)]

\* Bytes arrive, be the session open or ended: one between two peers that are both there
\* is not closed, by short reads and slow receivers least of all.
BytesArrive == Delivered /\ LastBytesArrive
================================================================================
