------------------------------ MODULE RelayProofs ------------------------------
(***************************************************************************)
(* Proofs about the relaying of bytes: that the invariants of Relay hold    *)
(* and that Relay implements Pipe, for every number of sessions, every      *)
(* buffer size, every socket and every stream.                              *)
(***************************************************************************)
EXTENDS Relay, SequenceTheorems, TLAPS

\* The numbers, the states and the sequences, without the Boolean history of refusals.
Typed ==
    /\ bufferSize \in BufferSizes
    /\ sent \in [Flows -> 0 .. MaxBytes] /\ taken \in [Flows -> 0 .. MaxBytes]
    /\ put \in [Flows -> 0 .. MaxBytes] /\ counted \in [Flows -> 0 .. MaxBytes]
    /\ len \in [Flows -> 0 .. MaxBytes]
    /\ sender \in [Flows -> {"open", "ended", "gone"}]
    /\ buf \in [Flows -> [1 .. bufferSize -> 0 .. MaxBytes]]
    /\ read \in [Flows -> {"none", "pending", "data", "eof", "failed"}]
    /\ writing \in Flows \cup {None} /\ rest \in Seq(1 .. MaxBytes)
    /\ transit \in [Flows -> Seq(1 .. MaxBytes)] /\ got \in [Flows -> Seq(1 .. MaxBytes)]
    /\ closed \in [Sessions -> Sides \cup {"open", "failed"}]

\* The history of refusals, on its own: it is the only Boolean state.
Refusals == refused \in [Flows -> BOOLEAN]

\* A byte is in one place: what is taken from the sender is in the buffer, in what the
\* thread has still to write, or in the receiving socket, each run of bytes following on
\* the one put before it.  A flow that nobody reads or writes belongs to a closed session.
MovedIn(f) ==
    /\ put[f] <= taken[f] /\ taken[f] <= sent[f]
    /\ read[f] \in {"pending", "eof", "failed"} => writing # f /\ put[f] = taken[f]
    /\ read[f] = "data" => /\ writing # f /\ len[f] <= bufferSize
                           /\ put[f] + len[f] = taken[f]
                           /\ \A i \in 1 .. len[f] : buf[f][i] = put[f] + i
    /\ writing = f => /\ read[f] = "none" /\ put[f] + Len(rest) = taken[f]
                      /\ \A i \in 1 .. Len(rest) : rest[i] = put[f] + i
                      /\ rest = <<>> => closed[f[1]] = "open"
    /\ read[f] = "none" /\ writing # f => closed[f[1]] # "open"
    /\ read[f] = "pending" => closed[f[1]] = "open"
Moved == \A f \in Flows : MovedIn(f)

\* The receiver has a beginning g of the stream, and what is on its way, t, follows on it.
InOrder(g, t) ==
    /\ \A i \in 1 .. Len(g) : g[i] = i
    /\ \A i \in 1 .. Len(t) : t[i] = Len(g) + i
ReceivedIn(f) ==
    /\ InOrder(got[f], transit[f])
    /\ Len(got[f]) + Len(transit[f]) <= put[f]
    /\ closed[f[1]] = "open" => Len(got[f]) + Len(transit[f]) = put[f]
Received == \A f \in Flows : ReceivedIn(f)

\* Nothing has gone wrong with a flow: no write of its session failed, and the database
\* has refused none of it.
Whole(f) == closed[f[1]] # "failed" /\ ~refused[f]

\* The row lags behind by the bytes of the write in progress, and by what was lost.
CountingIn(f) ==
    /\ counted[f] <= put[f]
    /\ writing = f => counted[f] + len[f] <= taken[f]
    /\ writing = f /\ Whole(f) => counted[f] + len[f] = taken[f]
    /\ writing = f /\ closed[f[1]] # "open" => Len(rest) = len[f]
    /\ writing # f /\ Whole(f) => counted[f] = put[f]
Counting == \A f \in Flows : CountingIn(f)

\* A side that closed the session had nothing left to send.
FinishedIn(f) ==
    /\ read[f] = "eof" => taken[f] = sent[f] /\ sender[f] # "open"
    /\ closed[f[1]] = f[2] => put[f] = sent[f] /\ sender[f] # "open"
Finished == \A f \in Flows : FinishedIn(f)

IndInv == Typed /\ Refusals /\ Moved /\ Received /\ Counting /\ Finished
--------------------------------------------------------------------------------
(* Flows and sequences of bytes. *)

\* The parts of a flow, and the flow of the other direction.
LEMMA FlowParts ==
    \A f \in Flows : /\ f[1] \in Sessions /\ f[2] \in Sides /\ f = <<f[1], f[2]>>
                     /\ Back(f) \in Flows /\ f # None
  BY NoneAssumption DEF Flows, Sides, Back

\* The front of a buffer is a sequence of the elements there.
LEMMA FrontOfBuffer ==
    ASSUME NEW m \in Nat, NEW n \in 0 .. m, NEW b \in [1 .. m -> Nat]
    PROVE  /\ SubSeq(b, 1, n) \in Seq(Nat) /\ Len(SubSeq(b, 1, n)) = n
           /\ \A i \in 1 .. n : SubSeq(b, 1, n)[i] = b[i]
<1>1. b \in Seq(Nat) /\ Len(b) = m
  OBVIOUS
<1> QED
  BY <1>1

\* The types of what is on its way and of what has arrived.
LEMMA StreamTypes ==
    ASSUME Typed
    PROVE  /\ got \in [Flows -> Seq(1 .. MaxBytes)] /\ transit \in [Flows -> Seq(1 .. MaxBytes)]
           /\ put \in [Flows -> Nat]
<1>1. put \in [Flows -> 0 .. MaxBytes] /\ 0 .. MaxBytes \subseteq Nat
  BY SizeAssumption DEF Typed
<1> QED
  BY <1>1 DEF Typed

\* The receiver takes the first byte of what is on its way.
LEMMA ReceivedInOrder ==
    ASSUME NEW S, NEW g \in Seq(S), NEW t \in Seq(S), InOrder(g, t), t # <<>>
    PROVE  /\ InOrder(Append(g, Head(t)), Tail(t))
           /\ Append(g, Head(t)) = [i \in 1 .. Len(g) + 1 |-> i]
           /\ Len(Append(g, Head(t))) + Len(Tail(t)) = Len(g) + Len(t)
<1>1. /\ Head(t) = Len(g) + 1 /\ Head(t) \in S /\ Tail(t) \in Seq(S)
      /\ Len(Tail(t)) = Len(t) - 1
      /\ \A i \in 1 .. Len(t) - 1 : Tail(t)[i] = (Len(g) + 1) + i
  BY DEF InOrder
<1>2. /\ Append(g, Head(t)) \in Seq(S) /\ Len(Append(g, Head(t))) = Len(g) + 1
      /\ \A i \in 1 .. Len(g) + 1 : Append(g, Head(t))[i] = i
  BY <1>1 DEF InOrder
<1>3. Append(g, Head(t)) = [i \in 1 .. Len(g) + 1 |-> i]
  <2> DEFINE h == Append(g, Head(t))
  <2>1. h \in Seq(S) /\ Len(h) = Len(g) + 1 /\ \A i \in 1 .. Len(g) + 1 : h[i] = i
    BY <1>2
  <2> HIDE DEF h
  <2>2. h \in [1 .. Len(h) -> S]
    BY <2>1, LenProperties
  <2>3. h = [i \in 1 .. Len(g) + 1 |-> i]
    BY <2>1, <2>2
  <2> QED
    BY <2>3 DEF h
<1>4. InOrder(Append(g, Head(t)), Tail(t))
  BY <1>1, <1>2 DEF InOrder
<1>5. Len(Append(g, Head(t))) + Len(Tail(t)) = Len(g) + Len(t)
  BY <1>1, <1>2
<1> QED
  BY <1>3, <1>4, <1>5

\* The thread puts the byte that follows.
LEMMA PutInOrder ==
    ASSUME NEW S, NEW g \in Seq(S), NEW t \in Seq(S), InOrder(g, t),
           NEW p \in Nat, p = Len(g) + Len(t), p + 1 \in S
    PROVE  InOrder(g, Append(t, p + 1)) /\ Len(Append(t, p + 1)) = Len(t) + 1
<1>1. /\ Append(t, p + 1) \in Seq(S) /\ Len(Append(t, p + 1)) = Len(t) + 1
      /\ \A i \in 1 .. Len(t) + 1 : Append(t, p + 1)[i] = Len(g) + i
  BY DEF InOrder
<1> QED
  BY <1>1 DEF InOrder

\* What is left of a run of bytes without its first one is a run of bytes.
LEMMA RunShortened ==
    ASSUME NEW S, NEW k \in Nat, NEW s \in Seq(S), s # <<>>,
           \A i \in 1 .. Len(s) : s[i] = k + i
    PROVE  /\ Head(s) = k + 1 /\ Head(s) \in S /\ Tail(s) \in Seq(S) /\ Len(Tail(s)) = Len(s) - 1
           /\ \A i \in 1 .. Len(s) - 1 : Tail(s)[i] = (k + 1) + i
  OBVIOUS

\* What close() leaves: the reads armed on the sockets of the session fail, and the first
\* cause stays.
ClosedBy(f, cause) ==
    /\ read' \in [Flows -> {"none", "pending", "data", "eof", "failed"}]
    /\ closed' \in [Sessions -> Sides \cup {"open", "failed"}]
    /\ \A g \in Flows : read'[g] =
         IF g = f THEN "none"
         ELSE IF g[1] = f[1] /\ closed[f[1]] = "open" /\ read[g] = "pending" THEN "failed"
         ELSE read[g]
    /\ \A s \in Sessions : closed'[s] =
         IF s = f[1] /\ closed[s] = "open" THEN cause ELSE closed[s]

\* Close does this.
LEMMA Closed ==
    ASSUME Typed, NEW f \in Flows, NEW cause \in Sides \cup {"failed"}, Close(f, cause)
    PROVE  ClosedBy(f, cause)
<1> USE DEF ClosedBy
<1> DEFINE over == [read EXCEPT ![f] = "none"]
<1>0. f[1] \in Sessions
  BY FlowParts
<1>1. /\ over \in [Flows -> {"none", "pending", "data", "eof", "failed"}]
      /\ \A g \in Flows : over[g] = IF g = f THEN "none" ELSE read[g]
  BY DEF Typed
<1>2. CASE closed[f[1]] = "open"
  <2>1. /\ closed' = [closed EXCEPT ![f[1]] = cause]
        /\ read' = [g \in Flows |-> IF g[1] = f[1] /\ over[g] = "pending" THEN "failed" ELSE over[g]]
    BY <1>2 DEF Close
  <2> HIDE DEF over
  <2> QED
    BY <2>1, <1>0, <1>1, <1>2 DEF Typed
<1>3. CASE closed[f[1]] # "open"
  <2>1. closed' = closed /\ read' = over
    BY <1>3 DEF Close
  <2> HIDE DEF over
  <2> QED
    BY <2>1, <1>0, <1>1, <1>3 DEF Typed
<1> QED
  BY <1>2, <1>3

\* The two outcomes of Handle: the bytes of the read are to be written, or the session is
\* closed, by the end of the stream only if that is what was read.
HandleWrites(f) ==
    /\ read[f] = "data" /\ len[f] > 0 /\ writing' = f /\ rest' = SubSeq(buf[f], 1, len[f])
    /\ read' = [read EXCEPT ![f] = "none"] /\ closed' = closed
HandleCloses(f) ==
    /\ read[f] = "eof" \/ read[f] = "failed" \/ (read[f] = "data" /\ len[f] = 0)
    /\ writing' = writing /\ rest' = rest
    /\ Close(f, IF read[f] = "eof" THEN f[2] ELSE "failed")
HandleKeeps ==
    UNCHANGED <<bufferSize, sent, sender, got, taken, buf, len, put, counted, refused, transit>>

\* Handle is one of the two.
LEMMA HandleOutcomes ==
    ASSUME Typed, NEW f \in Flows, Handle(f)
    PROVE  writing = None /\ HandleKeeps /\ (HandleWrites(f) \/ HandleCloses(f))
  BY DEF Typed, Handle, HandleWrites, HandleCloses, HandleKeeps, peerVars

\* What Handle starts to write is the run of bytes behind those put before.
LEMMA HandleRun ==
    ASSUME Typed, NEW f \in Flows, MovedIn(f), HandleWrites(f)
    PROVE  /\ rest' \in Seq(1 .. put[f] + len[f]) /\ Len(rest') = len[f]
           /\ \A i \in 1 .. len[f] : rest'[i] = put[f] + i
<1>1. bufferSize \in Nat /\ MaxBytes \in Nat /\ len[f] \in Nat /\ put[f] \in Nat
  BY SizeAssumption DEF Typed
<1>2. len[f] <= bufferSize /\ \A i \in 1 .. len[f] : buf[f][i] = put[f] + i
  BY DEF MovedIn, HandleWrites
<1>3. buf[f] \in [1 .. bufferSize -> Nat]
  <2>1. buf[f] \in [1 .. bufferSize -> 0 .. MaxBytes]
    BY DEF Typed
  <2>2. 0 .. MaxBytes \subseteq Nat
    OBVIOUS
  <2> QED
    BY <2>1, <2>2
<1>4. len[f] \in 0 .. bufferSize
  BY <1>1, <1>2
<1>5. rest' = SubSeq(buf[f], 1, len[f])
  BY DEF HandleWrites
<1>6. /\ rest' \in Seq(Nat) /\ Len(rest') = len[f]
      /\ \A i \in 1 .. len[f] : rest'[i] = buf[f][i]
  <2>1. /\ SubSeq(buf[f], 1, len[f]) \in Seq(Nat) /\ Len(SubSeq(buf[f], 1, len[f])) = len[f]
        /\ \A i \in 1 .. len[f] : SubSeq(buf[f], 1, len[f])[i] = buf[f][i]
    BY <1>1, <1>3, <1>4, FrontOfBuffer, ZenonT(60)
  <2> QED
    BY <1>5, <2>1, Zenon
<1>7. \A i \in 1 .. len[f] : rest'[i] = put[f] + i /\ rest'[i] \in 1 .. put[f] + len[f]
  BY <1>1, <1>2, <1>6
<1>8. rest' \in Seq(1 .. put[f] + len[f])
  BY <1>6, <1>7
<1> QED
  BY <1>6, <1>7, <1>8

\* ReadSome fills the front of the buffer with the bytes that follow.
LEMMA ReadSomeFills ==
    ASSUME Typed, NEW f \in Flows, NEW n \in 0 .. MaxBytes, ReadSome(f, n)
    PROVE  /\ \A h \in Flows : h # f => buf'[h] = buf[h]
           /\ \A i \in 1 .. n : buf'[f][i] = taken[f] + i
<1>1. buf \in [Flows -> [1 .. bufferSize -> 0 .. MaxBytes]] /\ n <= bufferSize
  BY DEF Typed, ReadSome
<1>2. buf' = [buf EXCEPT ![f] =
                 [i \in 1 .. bufferSize |-> IF i <= n THEN taken[f] + i ELSE @[i]]]
  BY DEF ReadSome
<1>3. buf'[f] = [i \in 1 .. bufferSize |-> IF i <= n THEN taken[f] + i ELSE buf[f][i]]
  BY <1>1, <1>2
<1>4. bufferSize \in Nat /\ n \in Nat
  BY SizeAssumption DEF Typed
<1>5. \A i \in 1 .. n : i \in 1 .. bufferSize /\ i <= n
  BY <1>1, <1>4
<1>6. \A i \in 1 .. n : buf'[f][i] = taken[f] + i
  BY <1>3, <1>5
<1>7. \A h \in Flows : h # f => buf'[h] = buf[h]
  BY <1>1, <1>2
<1> QED
  BY <1>6, <1>7

\* WriteSome moves the byte that follows from what is left to what is on its way.
WriteMoves(f) ==
    /\ put' = [put EXCEPT ![f] = @ + 1]
    /\ transit' = [transit EXCEPT ![f] = Append(@, put[f] + 1)]
    /\ put[f] + 1 \in 1 .. MaxBytes
    /\ Len(rest) \in Nat \ {0} /\ rest' \in Seq(1 .. MaxBytes) /\ Len(rest') = Len(rest) - 1
    /\ \A i \in 1 .. Len(rest) - 1 : rest'[i] = (put[f] + 1) + i
    /\ closed[f[1]] = "open"
    /\ UNCHANGED <<bufferSize, sent, sender, got, taken, buf, read, len, writing, counted,
                   refused, closed>>

\* WriteSome does this.
LEMMA WriteSomeMoves ==
    ASSUME Typed, Moved, WriteSome
    PROVE  writing \in Flows /\ WriteMoves(writing)
<1>1. /\ writing \in Flows /\ rest \in Seq(1 .. MaxBytes) /\ rest # <<>>
      /\ closed[writing[1]] = "open" /\ put[writing] \in Nat
  BY SizeAssumption DEF Typed, WriteSome
<1>2. PICK k \in Nat : k = put[writing] /\ \A i \in 1 .. Len(rest) : rest[i] = k + i
  BY <1>1 DEF Moved, MovedIn
<1>3. /\ Head(rest) = k + 1 /\ Head(rest) \in 1 .. MaxBytes
      /\ Tail(rest) \in Seq(1 .. MaxBytes) /\ Len(Tail(rest)) = Len(rest) - 1
      /\ \A i \in 1 .. Len(rest) - 1 : Tail(rest)[i] = (k + 1) + i
  <2>1. rest \in Seq(1 .. MaxBytes) /\ rest # <<>>
    BY <1>1
  <2>2. \A i \in 1 .. Len(rest) : rest[i] = k + i
    BY <1>2
  <2>3. Head(rest) = k + 1 /\ Head(rest) \in 1 .. MaxBytes
    BY <2>1, <2>2, HeadTailProperties, SizeAssumption
  <2>4. Tail(rest) \in Seq(1 .. MaxBytes) /\ Len(Tail(rest)) = Len(rest) - 1
    BY <2>1, <2>2
  <2>5. \A i \in 1 .. Len(rest) - 1 : Tail(rest)[i] = (k + 1) + i
    BY <2>1, <2>2
  <2> QED
    BY <2>3, <2>4, <2>5
<1>4. Len(rest) \in Nat \ {0}
  BY <1>1
<1>5. /\ transit' = [transit EXCEPT ![writing] = Append(@, Head(rest))] /\ rest' = Tail(rest)
      /\ put' = [put EXCEPT ![writing] = @ + 1]
      /\ UNCHANGED <<bufferSize, sent, sender, got, taken, buf, read, len, writing, counted,
                     refused, closed>>
  BY DEF WriteSome, peerVars
<1> QED
  BY <1>1, <1>2, <1>3, <1>4, <1>5 DEF WriteMoves

\* When Handle closes the session, it says that the stream is over only if it is.
LEMMA HandleClosed ==
    ASSUME Typed, NEW f \in Flows, HandleCloses(f)
    PROVE  \E cause \in Sides \cup {"failed"} :
              ClosedBy(f, cause) /\ (cause = "failed" \/ (read[f] = "eof" /\ cause = f[2]))
<1>1. CASE read[f] = "eof"
  <2>1. f[2] \in Sides /\ Close(f, f[2])
    BY <1>1, FlowParts DEF HandleCloses
  <2> QED
    BY <1>1, <2>1, Closed
<1>2. CASE read[f] # "eof"
  <2>1. Close(f, "failed")
    BY <1>2 DEF HandleCloses
  <2> QED
    BY <2>1, Closed
<1> QED
  BY <1>1, <1>2

\* What leaves a flow's row, what was put and the write in progress alone keeps the count.
LEMMA CountingFrame ==
    ASSUME NEW f \in Flows, CountingIn(f),
           UNCHANGED <<counted, put, writing, rest, closed, refused>>,
           writing = f => UNCHANGED <<taken[f], len[f]>>
    PROVE  CountingIn(f)'
<1>1. Whole(f)' <=> Whole(f)
  BY DEF Whole
<1> QED
  BY <1>1 DEF CountingIn

--------------------------------------------------------------------------------
(* The inductive invariant. *)

\* The invariant holds when start() has armed the reads.
LEMMA RelayInit == Init => IndInv
<1> SUFFICES ASSUME Init PROVE IndInv
  OBVIOUS
<1> USE FlowParts, SizeAssumption DEF Init
<1>1. Typed
  BY DEF Typed
<1>2. Refusals
  BY Zenon DEF Refusals
<1>3. Moved
  BY DEF Moved, MovedIn
<1>4. Received
  BY DEF Received, ReceivedIn, InOrder
<1>5. Counting
  BY DEF Counting, CountingIn, Whole
<1>6. Finished
  BY DEF Finished, FinishedIn, Sides
<1> QED
  BY <1>1, <1>2, <1>3, <1>4, <1>5, <1>6 DEF IndInv

\* The bytes that go from hand to hand stay within the stream.
LEMMA TypedNext == IndInv /\ [Next]_vars => Typed'
<1> SUFFICES ASSUME IndInv, [Next]_vars PROVE Typed'
  OBVIOUS
<1> USE SizeAssumption DEF IndInv
<1>1. ASSUME NEW f \in Flows, ReadEof(f) PROVE Typed'
  BY <1>1 DEF ReadEof, Completes, peerVars, mainVars, Typed
<1>2. ASSUME NEW f \in Flows, ReadFails(f) PROVE Typed'
  BY <1>2 DEF ReadFails, Completes, peerVars, mainVars, Typed
<1>3. ASSUME NEW f \in Flows, NEW n \in 0 .. MaxBytes, ReadSome(f, n) PROVE Typed'
  <2>1. /\ n <= bufferSize /\ taken[f] + n <= sent[f]
        /\ read' = [read EXCEPT ![f] = "data"] /\ len' = [len EXCEPT ![f] = n]
        /\ taken' = [taken EXCEPT ![f] = @ + n]
        /\ UNCHANGED <<bufferSize, sent, sender, got, writing, rest, put, counted, transit,
                       closed>>
    BY <1>3 DEF ReadSome, Completes, peerVars, mainVars
  <2>2. MaxBytes \in Nat /\ sent[f] \in 0 .. MaxBytes /\ taken[f] \in 0 .. MaxBytes
    BY SizeAssumption DEF Typed
  <2>3. taken[f] + n \in 0 .. MaxBytes
    BY <2>1, <2>2
  <2>4. taken' \in [Flows -> 0 .. MaxBytes] /\ len' \in [Flows -> 0 .. MaxBytes]
        /\ read' \in [Flows -> {"none", "pending", "data", "eof", "failed"}]
    BY <2>1, <2>3 DEF Typed
  <2>5. buf' \in [Flows -> [1 .. bufferSize -> 0 .. MaxBytes]]
    <3> DEFINE new == [i \in 1 .. bufferSize |-> IF i <= n THEN taken[f] + i ELSE buf[f][i]]
    <3>1. bufferSize \in Nat /\ buf[f] \in [1 .. bufferSize -> 0 .. MaxBytes]
      BY SizeAssumption DEF Typed
    <3>2. \A i \in 1 .. bufferSize : i <= n => taken[f] + i \in 0 .. MaxBytes
      <4>1. \A t, m, i \in Nat : t + m <= MaxBytes /\ i <= m => t + i \in 0 .. MaxBytes
        BY <2>2
      <4> QED
        BY <2>2, <2>3, <3>1, <4>1
    <3>3. new \in [1 .. bufferSize -> 0 .. MaxBytes]
      BY <3>1, <3>2
    <3>4. buf' = [buf EXCEPT ![f] = new]
      BY <1>3 DEF ReadSome
    <3> HIDE DEF new
    <3> QED
      BY <3>3, <3>4 DEF Typed
  <2> QED
    BY <2>1, <2>4, <2>5 DEF Typed
<1>4. ASSUME NEW f \in Flows, PeerSends(f) PROVE Typed'
  <2>1. sent' \in [Flows -> 0 .. MaxBytes]
    BY <1>4, SizeAssumption DEF Typed, PeerSends
  <2> QED
    BY <1>4, <2>1 DEF Typed, PeerSends, mainVars
<1>5. ASSUME NEW f \in Flows, PeerLeaves(f) PROVE Typed'
  <2>1. sender' \in [Flows -> {"open", "ended", "gone"}]
    BY <1>5 DEF Typed, PeerLeaves
  <2> QED
    BY <1>5, <2>1 DEF Typed, PeerLeaves, mainVars
<1>6. ASSUME NEW f \in Flows, PeerReads(f) PROVE Typed'
  <2>1. /\ got[f] \in Seq(1 .. MaxBytes) /\ transit[f] \in Seq(1 .. MaxBytes)
        /\ transit[f] # <<>>
    BY <1>6 DEF Typed, PeerReads
  <2>2. /\ Append(got[f], Head(transit[f])) \in Seq(1 .. MaxBytes)
        /\ Tail(transit[f]) \in Seq(1 .. MaxBytes)
    BY <2>1, HeadTailProperties, AppendProperties
  <2>3. got' \in [Flows -> Seq(1 .. MaxBytes)] /\ transit' \in [Flows -> Seq(1 .. MaxBytes)]
    BY <1>6, <2>2 DEF Typed, PeerReads
  <2> QED
    BY <1>6, <2>3 DEF Typed, PeerReads, mainVars
<1>7. ASSUME NEW f \in Flows, TransitLost(f) PROVE Typed'
  <2>1. transit' \in [Flows -> Seq(1 .. MaxBytes)]
    BY <1>7 DEF Typed, TransitLost
  <2> QED
    BY <1>7, <2>1 DEF Typed, TransitLost, peerVars, mainVars
<1>8. ASSUME NEW f \in Flows, Handle(f) PROVE Typed'
  <2>1. writing = None /\ HandleKeeps /\ (HandleWrites(f) \/ HandleCloses(f))
    BY <1>8, HandleOutcomes
  <2>2. CASE HandleWrites(f)
    <3>1. rest' \in Seq(1 .. put[f] + len[f]) /\ MovedIn(f)
      BY <2>2, HandleRun DEF Moved
    <3>2. /\ MaxBytes \in Nat /\ put[f] \in Nat /\ len[f] \in Nat /\ taken[f] \in Nat
          /\ sent[f] \in 0 .. MaxBytes
      BY SizeAssumption DEF Typed
    <3>3. put[f] + len[f] <= MaxBytes
      BY <2>2, <3>1, <3>2 DEF MovedIn, HandleWrites
    <3>4. 1 .. put[f] + len[f] \subseteq 1 .. MaxBytes
      BY <3>2, <3>3
    <3>5. rest' \in Seq(1 .. MaxBytes)
      <4>1. rest' \in [1 .. Len(rest') -> 1 .. put[f] + len[f]] /\ Len(rest') \in Nat
        BY <3>1, LenProperties
      <4>2. rest' \in [1 .. Len(rest') -> 1 .. MaxBytes]
        BY <3>4, <4>1
      <4> QED
        BY <4>1, <4>2, SeqDef
    <3>6. read' \in [Flows -> {"none", "pending", "data", "eof", "failed"}]
      BY <2>2 DEF HandleWrites, Typed
    <3> QED
      BY <2>1, <2>2, <3>5, <3>6 DEF HandleKeeps, HandleWrites, Typed
  <2>3. CASE HandleCloses(f)
    <3>1. PICK cause \in Sides \cup {"failed"} : ClosedBy(f, cause)
      BY <2>3, HandleClosed
    <3> QED
      BY <2>1, <2>3, <3>1 DEF HandleKeeps, HandleCloses, ClosedBy, Typed
  <2> QED
    BY <2>1, <2>2, <2>3
<1>9. ASSUME WriteSome PROVE Typed'
  <2>1. writing \in Flows /\ WriteMoves(writing)
    BY <1>9, WriteSomeMoves
  <2>2. put' \in [Flows -> 0 .. MaxBytes]
    <3>1. put' = [put EXCEPT ![writing] = put[writing] + 1] /\ put[writing] + 1 \in 1 .. MaxBytes
      BY <2>1 DEF WriteMoves
    <3>2. put[writing] + 1 \in 0 .. MaxBytes
      BY <3>1, SizeAssumption
    <3> QED
      BY <2>1, <3>1, <3>2 DEF Typed
  <2>3. Append(transit[writing], put[writing] + 1) \in Seq(1 .. MaxBytes)
    BY <2>1, AppendProperties DEF WriteMoves, Typed
  <2>4. transit' \in [Flows -> Seq(1 .. MaxBytes)]
    BY <2>1, <2>3 DEF WriteMoves, Typed
  <2> QED
    BY <2>1, <2>2, <2>4 DEF WriteMoves, Typed
<1>10. ASSUME WriteDone PROVE Typed'
  <2>1. writing \in Flows /\ rest = <<>>
    BY <1>10 DEF WriteDone, Typed
  <2>2. /\ counted[writing] + len[writing] <= taken[writing]
        /\ taken[writing] \in 0 .. MaxBytes /\ len[writing] \in Nat /\ counted[writing] \in Nat
    BY <2>1, SizeAssumption DEF Counting, CountingIn, Typed
  <2>3. counted[writing] + len[writing] \in 0 .. MaxBytes
    BY <2>2, SizeAssumption
  <2>4. counted' \in [Flows -> 0 .. MaxBytes]
    <3>1. \/ counted' = [counted EXCEPT ![writing] = counted[writing] + len[writing]]
          \/ counted' = counted
      BY <1>10 DEF WriteDone
    <3> QED
      BY <2>1, <2>3, <3>1 DEF Typed
  <2>5. read' \in [Flows -> {"none", "pending", "data", "eof", "failed"}]
    BY <1>10 DEF WriteDone, Typed
  <2>6. /\ writing' = None
        /\ UNCHANGED <<bufferSize, sent, sender, got, taken, buf, len, rest, put, transit, closed>>
    BY <1>10 DEF WriteDone, peerVars
  <2> QED
    BY <2>4, <2>5, <2>6 DEF Typed
<1>11. ASSUME WriteFails PROVE Typed'
  <2>1. writing \in Flows /\ Close(writing, "failed")
    BY <1>11 DEF WriteFails, Typed
  <2>2. ClosedBy(writing, "failed")
    BY <2>1, Closed
  <2>3. /\ writing' = None /\ rest' = <<>>
        /\ UNCHANGED <<bufferSize, sent, sender, got, taken, buf, len, put, counted, transit>>
    BY <1>11 DEF WriteFails, peerVars
  <2>4. rest' \in Seq(1 .. MaxBytes)
    BY <2>3
  <2> QED
    BY <2>2, <2>3, <2>4 DEF ClosedBy, Typed
<1>12. CASE UNCHANGED vars
  BY <1>12 DEF vars, peerVars, mainVars, Typed
<1> QED
  BY <1>1, <1>2, <1>3, <1>4, <1>5, <1>6, <1>7,
     <1>8, <1>9, <1>10, <1>11, <1>12 DEF Next, MainStep, ReadStep

\* Only the end of a write changes the history.
LEMMA RefusalsNext == IndInv /\ [Next]_vars => Refusals'
<1> SUFFICES ASSUME IndInv, [Next]_vars PROVE Refusals'
  OBVIOUS
<1> USE DEF IndInv
<1>1. ASSUME NEW f \in Flows, ReadEof(f) PROVE Refusals'
  <2>1. refused' = refused
    BY <1>1 DEF ReadEof, Completes, peerVars, mainVars
  <2> QED
    BY <2>1 DEF IndInv, Refusals
<1>2. ASSUME NEW f \in Flows, ReadFails(f) PROVE Refusals'
  <2>1. refused' = refused
    BY <1>2 DEF ReadFails, Completes, peerVars, mainVars
  <2> QED
    BY <2>1 DEF IndInv, Refusals
<1>3. ASSUME NEW f \in Flows, NEW n \in 0 .. MaxBytes, ReadSome(f, n) PROVE Refusals'
  <2>1. refused' = refused
    BY <1>3 DEF ReadSome, Completes, peerVars, mainVars
  <2> QED
    BY <2>1 DEF IndInv, Refusals
<1>4. ASSUME NEW f \in Flows, PeerSends(f) PROVE Refusals'
  <2>1. refused' = refused
    BY <1>4 DEF PeerSends, mainVars
  <2> QED
    BY <2>1 DEF IndInv, Refusals
<1>5. ASSUME NEW f \in Flows, PeerLeaves(f) PROVE Refusals'
  <2>1. refused' = refused
    BY <1>5 DEF PeerLeaves, mainVars
  <2> QED
    BY <2>1 DEF IndInv, Refusals
<1>6. ASSUME NEW f \in Flows, PeerReads(f) PROVE Refusals'
  <2>1. refused' = refused
    BY <1>6 DEF PeerReads, mainVars
  <2> QED
    BY <2>1 DEF IndInv, Refusals
<1>7. ASSUME NEW f \in Flows, TransitLost(f) PROVE Refusals'
  <2>1. refused' = refused
    BY <1>7 DEF TransitLost, peerVars, mainVars
  <2> QED
    BY <2>1 DEF IndInv, Refusals
<1>8. ASSUME NEW f \in Flows, Handle(f) PROVE Refusals'
  <2>1. refused' = refused
    BY <1>8 DEF Handle, peerVars
  <2> QED
    BY <2>1 DEF IndInv, Refusals
<1>9. ASSUME WriteSome PROVE Refusals'
  <2>1. refused' = refused
    BY <1>9 DEF WriteSome, peerVars
  <2> QED
    BY <2>1 DEF IndInv, Refusals
<1>10. ASSUME WriteDone PROVE Refusals'
  <2>1. refused \in [Flows -> BOOLEAN]
    BY DEF IndInv, Refusals
  <2>2. refused' = refused \/ refused' = [refused EXCEPT ![writing] = TRUE]
    BY <1>10 DEF WriteDone
  <2> QED
    BY <2>1, <2>2, Zenon DEF Refusals
<1>11. ASSUME WriteFails PROVE Refusals'
  <2>1. refused' = refused
    BY <1>11 DEF WriteFails, peerVars
  <2> QED
    BY <2>1 DEF IndInv, Refusals
<1>12. CASE UNCHANGED vars
  BY <1>12 DEF vars, peerVars, mainVars, Refusals
<1> QED
  BY <1>1, <1>2, <1>3, <1>4, <1>5, <1>6, <1>7,
     <1>8, <1>9, <1>10, <1>11, <1>12 DEF Next, MainStep, ReadStep

\* Each step moves a run of bytes whole, or one byte, and none while the thread writes.
LEMMA MovedNext == IndInv /\ [Next]_vars => Moved'
<1> SUFFICES ASSUME IndInv, [Next]_vars PROVE Moved'
  OBVIOUS
<1> USE FlowParts, NoneAssumption, SizeAssumption DEF IndInv
<1>1. ASSUME NEW f \in Flows, ReadEof(f) PROVE Moved'
  <2> SUFFICES ASSUME NEW g \in Flows PROVE MovedIn(g)'
    BY DEF Moved
  <2>1. MovedIn(g)
    BY DEF Moved
  <2>2. CASE g = f
    BY <1>1, <2>1, <2>2 DEF ReadEof, Completes, peerVars, mainVars, Sides, Typed, MovedIn
  <2>3. CASE g # f
    BY <1>1, <2>1, <2>3 DEF ReadEof, Completes, peerVars, mainVars, Sides, Typed, MovedIn
  <2> QED
    BY <2>2, <2>3
<1>2. ASSUME NEW f \in Flows, ReadFails(f) PROVE Moved'
  <2> SUFFICES ASSUME NEW g \in Flows PROVE MovedIn(g)'
    BY DEF Moved
  <2>1. MovedIn(g)
    BY DEF Moved
  <2>2. CASE g = f
    BY <1>2, <2>1, <2>2 DEF ReadFails, Completes, peerVars, mainVars, Sides, Typed, MovedIn
  <2>3. CASE g # f
    BY <1>2, <2>1, <2>3 DEF ReadFails, Completes, peerVars, mainVars, Sides, Typed, MovedIn
  <2> QED
    BY <2>2, <2>3
<1>3. ASSUME NEW f \in Flows, NEW n \in 0 .. MaxBytes, ReadSome(f, n) PROVE Moved'
  <2> SUFFICES ASSUME NEW g \in Flows PROVE MovedIn(g)'
    BY DEF Moved
  <2>1. MovedIn(g)
    BY DEF Moved
  <2>2. /\ n <= bufferSize /\ read[f] = "pending" /\ read' = [read EXCEPT ![f] = "data"]
        /\ len' = [len EXCEPT ![f] = n] /\ taken' = [taken EXCEPT ![f] = @ + n]
        /\ taken[f] + n <= sent[f]
        /\ UNCHANGED <<bufferSize, sent, sender, got, writing, rest, put, counted, refused,
                       transit, closed>>
    BY <1>3 DEF ReadSome, Completes, peerVars, mainVars
  <2>3. /\ \A h \in Flows : h # f => buf'[h] = buf[h]
        /\ \A i \in 1 .. n : buf'[f][i] = taken[f] + i
    BY <1>3, ReadSomeFills
  <2>4. CASE g = f
    BY <2>1, <2>2, <2>3, <2>4 DEF Sides, Typed, MovedIn
  <2>5. CASE g # f
    BY <2>1, <2>2, <2>3, <2>5 DEF Sides, Typed, MovedIn
  <2> QED
    BY <2>4, <2>5
<1>4. ASSUME NEW f \in Flows, PeerSends(f) PROVE Moved'
  <2> SUFFICES ASSUME NEW g \in Flows PROVE MovedIn(g)'
    BY DEF Moved
  <2>1. MovedIn(g)
    BY DEF Moved
  <2>2. CASE g = f
    BY <1>4, <2>1, <2>2 DEF PeerSends, mainVars, Sides, Typed, MovedIn
  <2>3. CASE g # f
    BY <1>4, <2>1, <2>3 DEF PeerSends, mainVars, Sides, Typed, MovedIn
  <2> QED
    BY <2>2, <2>3
<1>5. ASSUME NEW f \in Flows, PeerLeaves(f) PROVE Moved'
  <2> SUFFICES ASSUME NEW g \in Flows PROVE MovedIn(g)'
    BY DEF Moved
  <2>1. MovedIn(g)
    BY DEF Moved
  <2>2. CASE g = f
    BY <1>5, <2>1, <2>2 DEF PeerLeaves, mainVars, Sides, Typed, MovedIn
  <2>3. CASE g # f
    BY <1>5, <2>1, <2>3 DEF PeerLeaves, mainVars, Sides, Typed, MovedIn
  <2> QED
    BY <2>2, <2>3
<1>6. ASSUME NEW f \in Flows, PeerReads(f) PROVE Moved'
  <2> SUFFICES ASSUME NEW g \in Flows PROVE MovedIn(g)'
    BY DEF Moved
  <2>1. MovedIn(g)
    BY DEF Moved
  <2>2. CASE g = f
    BY <1>6, <2>1, <2>2 DEF PeerReads, mainVars, Sides, Typed, MovedIn
  <2>3. CASE g # f
    BY <1>6, <2>1, <2>3 DEF PeerReads, mainVars, Sides, Typed, MovedIn
  <2> QED
    BY <2>2, <2>3
<1>7. ASSUME NEW f \in Flows, TransitLost(f) PROVE Moved'
  <2> SUFFICES ASSUME NEW g \in Flows PROVE MovedIn(g)'
    BY DEF Moved
  <2>1. MovedIn(g)
    BY DEF Moved
  <2>2. CASE g = f
    BY <1>7, <2>1, <2>2 DEF TransitLost, peerVars, mainVars, Sides, Typed, MovedIn
  <2>3. CASE g # f
    BY <1>7, <2>1, <2>3 DEF TransitLost, peerVars, mainVars, Sides, Typed, MovedIn
  <2> QED
    BY <2>2, <2>3
<1>8. ASSUME NEW f \in Flows, Handle(f) PROVE Moved'
  <2> SUFFICES ASSUME NEW g \in Flows PROVE MovedIn(g)'
    BY DEF Moved
  <2>1. MovedIn(g)
    BY DEF Moved
  <2>2. writing = None /\ HandleKeeps /\ (HandleWrites(f) \/ HandleCloses(f))
    BY <1>8, HandleOutcomes
  <2>3. CASE HandleWrites(f)
    <3>1. MovedIn(f)
      BY DEF Moved
    <3>2. /\ rest' \in Seq(1 .. put[f] + len[f]) /\ Len(rest') = len[f]
          /\ \A i \in 1 .. len[f] : rest'[i] = put[f] + i
      BY <2>3, <3>1, HandleRun
    <3>3. CASE g = f
      BY <2>1, <2>2, <2>3, <3>2, <3>3 DEF HandleKeeps, HandleWrites, Sides, Typed, MovedIn
    <3>4. CASE g # f
      BY <2>1, <2>2, <2>3, <3>4 DEF HandleKeeps, HandleWrites, Sides, Typed, MovedIn
    <3> QED
      BY <3>3, <3>4
  <2>4. CASE HandleCloses(f)
    <3>1. PICK cause \in Sides \cup {"failed"} :
              ClosedBy(f, cause) /\ (cause = "failed" \/ (read[f] = "eof" /\ cause = f[2]))
      BY <2>4, HandleClosed
    <3>2. MovedIn(f)
      BY DEF Moved
    <3>3. CASE g = f
      BY <2>1, <2>2, <2>4, <3>1, <3>3
        DEF ClosedBy, HandleKeeps, HandleCloses, Sides, Typed, MovedIn
    <3>4. CASE g # f
      BY <2>1, <2>2, <2>4, <3>1, <3>2, <3>4
        DEF ClosedBy, HandleKeeps, HandleCloses, Sides, Typed, MovedIn
    <3> QED
      BY <3>3, <3>4
  <2> QED
    BY <2>2, <2>3, <2>4
<1>9. ASSUME WriteSome PROVE Moved'
  <2> SUFFICES ASSUME NEW g \in Flows PROVE MovedIn(g)'
    BY DEF Moved
  <2>1. MovedIn(g)
    BY DEF Moved
  <2>2. writing \in Flows /\ WriteMoves(writing)
    BY <1>9, WriteSomeMoves
  <2>3. CASE g = writing
    <3>1. /\ put[g] \in Nat /\ taken[g] \in Nat /\ sent[g] \in Nat
          /\ Len(rest) \in Nat \ {0} /\ Len(rest') = Len(rest) - 1
          /\ put'[g] = put[g] + 1 /\ taken'[g] = taken[g] /\ sent'[g] = sent[g]
      BY <2>2, <2>3 DEF WriteMoves, Typed
    <3>2. put[g] + Len(rest) = taken[g] /\ taken[g] <= sent[g] /\ read[g] = "none"
      BY <2>1, <2>3 DEF MovedIn
    <3>3. \A i \in 1 .. Len(rest) - 1 : rest'[i] = (put[g] + 1) + i
      BY <2>2, <2>3 DEF WriteMoves
    <3>4. put'[g] + Len(rest') = taken'[g] /\ put'[g] <= taken'[g] /\ taken'[g] <= sent'[g]
      BY <3>1, <3>2
    <3>5. writing' = g /\ read'[g] = "none" /\ closed'[g[1]] = "open"
      BY <2>2, <2>3, <3>2 DEF WriteMoves
    <3> QED
      BY <3>1, <3>3, <3>4, <3>5 DEF MovedIn
  <2>4. CASE g # writing
    BY <2>1, <2>2, <2>4 DEF WriteMoves, Sides, Typed, MovedIn
  <2> QED
    BY <2>3, <2>4
<1>10. ASSUME WriteDone PROVE Moved'
  <2> SUFFICES ASSUME NEW g \in Flows PROVE MovedIn(g)'
    BY DEF Moved
  <2>1. MovedIn(g)
    BY DEF Moved
  <2>2. writing \in Flows
    BY <1>10 DEF Typed, WriteDone, peerVars
  <2>3. CASE g = writing
    BY <1>10, <2>1, <2>2, <2>3 DEF WriteDone, peerVars, Sides, Typed, MovedIn
  <2>4. CASE g # writing
    BY <1>10, <2>1, <2>2, <2>4 DEF WriteDone, peerVars, Sides, Typed, MovedIn
  <2> QED
    BY <2>3, <2>4
<1>11. ASSUME WriteFails PROVE Moved'
  <2> SUFFICES ASSUME NEW g \in Flows PROVE MovedIn(g)'
    BY DEF Moved
  <2>1. MovedIn(g)
    BY DEF Moved
  <2>2. writing \in Flows
    BY <1>11 DEF Typed, WriteFails, peerVars
  <2>3. /\ ClosedBy(writing, "failed") /\ writing' = None /\ rest' = <<>>
        /\ UNCHANGED <<bufferSize, sent, sender, got, taken, buf, len, put, counted, refused,
                       transit>>
    BY <1>11, <2>2, Closed DEF WriteFails, peerVars
  <2>4. CASE g = writing
    BY <2>1, <2>2, <2>3, <2>4 DEF ClosedBy, Sides, Typed, MovedIn
  <2>5. CASE g # writing
    <3>1. MovedIn(writing)
      BY <2>2 DEF Moved
    <3>2. g[1] \in Sessions /\ g # None
      BY FlowParts
    <3>3. read'[g] = read[g] \/ (read[g] = "pending" /\ read'[g] = "failed")
      BY <2>3, <2>5 DEF ClosedBy
    <3>4. closed'[g[1]] = closed[g[1]] \/ (closed[g[1]] = "open" /\ closed'[g[1]] = "failed")
      BY <2>3, <3>2 DEF ClosedBy
    <3>5. closed'[g[1]] # closed[g[1]] /\ read[g] = "pending" => read'[g] = "failed"
      BY <2>3, <2>5, <3>2 DEF ClosedBy
    <3>6. writing' # g
      BY <2>3, <3>2
    <3> QED
      BY <2>1, <2>3, <2>5, <3>3, <3>4, <3>5, <3>6 DEF MovedIn
  <2> QED
    BY <2>4, <2>5
<1>12. CASE UNCHANGED vars
  <2> SUFFICES ASSUME NEW g \in Flows PROVE MovedIn(g)'
    BY DEF Moved
  <2>1. MovedIn(g)
    BY DEF Moved
  <2>2. UNCHANGED <<put, taken, sent, read, writing, len, bufferSize, buf, rest, closed>>
    BY <1>12 DEF vars, peerVars, mainVars
  <2> QED
    BY <2>1, <2>2 DEF MovedIn
<1> QED
  BY <1>1, <1>2, <1>3, <1>4, <1>5, <1>6, <1>7,
     <1>8, <1>9, <1>10, <1>11, <1>12 DEF Next, MainStep, ReadStep

\* A byte is put behind those on their way, and got behind those the receiver has.
LEMMA ReceivedNext == IndInv /\ [Next]_vars => Received'
<1> SUFFICES ASSUME IndInv, [Next]_vars PROVE Received'
  OBVIOUS
<1> USE FlowParts, NoneAssumption, SizeAssumption DEF IndInv
<1>0. ASSUME UNCHANGED <<got, transit, put>>,
             \A g \in Flows : closed'[g[1]] = "open" => closed[g[1]] = "open"
      PROVE  Received'
  BY <1>0 DEF Received, ReceivedIn
<1>1. ASSUME NEW f \in Flows, ReadEof(f) PROVE Received'
  BY <1>1, <1>0 DEF ReadEof, Completes, peerVars, mainVars
<1>2. ASSUME NEW f \in Flows, ReadFails(f) PROVE Received'
  BY <1>2, <1>0 DEF ReadFails, Completes, peerVars, mainVars
<1>3. ASSUME NEW f \in Flows, NEW n \in 0 .. MaxBytes, ReadSome(f, n) PROVE Received'
  BY <1>3, <1>0 DEF ReadSome, Completes, peerVars, mainVars
<1>4. ASSUME NEW f \in Flows, PeerSends(f) PROVE Received'
  BY <1>4, <1>0 DEF PeerSends, mainVars
<1>5. ASSUME NEW f \in Flows, PeerLeaves(f) PROVE Received'
  BY <1>5, <1>0 DEF PeerLeaves, mainVars
<1>6. ASSUME NEW f \in Flows, PeerReads(f) PROVE Received'
  <2> SUFFICES ASSUME NEW g \in Flows PROVE ReceivedIn(g)'
    BY DEF Received
  <2>1. ReceivedIn(g) /\ MovedIn(g)
    BY DEF Received, Moved
  <2>2. /\ got' = [got EXCEPT ![f] = Append(@, Head(transit[f]))]
        /\ transit' = [transit EXCEPT ![f] = Tail(@)] /\ transit[f] # <<>>
        /\ put' = put /\ closed' = closed
    BY <1>6 DEF PeerReads, mainVars
  <2>3. /\ got \in [Flows -> Seq(1 .. MaxBytes)] /\ transit \in [Flows -> Seq(1 .. MaxBytes)]
        /\ put \in [Flows -> Nat]
    BY StreamTypes DEF IndInv
  <2>4. CASE g = f
    <3>1. got'[g] = Append(got[g], Head(transit[g])) /\ transit'[g] = Tail(transit[g])
      BY <2>2, <2>3, <2>4
    <3>2. /\ InOrder(got'[g], transit'[g])
          /\ Len(got'[g]) + Len(transit'[g]) = Len(got[g]) + Len(transit[g])
      <4>1. got[g] \in Seq(1 .. MaxBytes) /\ transit[g] \in Seq(1 .. MaxBytes) /\ transit[g] # <<>>
        BY <2>2, <2>3, <2>4
      <4>2. InOrder(got[g], transit[g])
        BY <2>1 DEF ReceivedIn
      <4>3. /\ InOrder(Append(got[g], Head(transit[g])), Tail(transit[g]))
            /\ Len(Append(got[g], Head(transit[g]))) + Len(Tail(transit[g])) =
                  Len(got[g]) + Len(transit[g])
        BY <4>1, <4>2, ReceivedInOrder, Zenon
      <4> QED
        BY <3>1, <4>3
    <3> QED
      BY <2>1, <2>2, <3>2 DEF ReceivedIn
  <2>5. CASE g # f
    BY <2>1, <2>2, <2>3, <2>5 DEF ReceivedIn
  <2> QED
    BY <2>4, <2>5
<1>7. ASSUME NEW f \in Flows, TransitLost(f) PROVE Received'
  <2> SUFFICES ASSUME NEW g \in Flows PROVE ReceivedIn(g)'
    BY DEF Received
  <2>1. ReceivedIn(g) /\ MovedIn(g)
    BY DEF Received, Moved
  <2>2. /\ transit' = [transit EXCEPT ![f] = <<>>] /\ got' = got /\ put' = put /\ closed' = closed
        /\ closed[f[1]] # "open"
    BY <1>7 DEF TransitLost, peerVars, mainVars
  <2>3. /\ got \in [Flows -> Seq(1 .. MaxBytes)] /\ transit \in [Flows -> Seq(1 .. MaxBytes)]
        /\ put \in [Flows -> Nat]
    BY StreamTypes DEF IndInv
  <2>4. CASE g = f
    <3>1. transit'[g] = <<>> /\ got'[g] = got[g]
      BY <2>2, <2>3, <2>4
    <3>2. Len(got[g]) + 0 <= put[g]
      BY <2>1, <2>3 DEF ReceivedIn
    <3>3. InOrder(got[g], <<>>)
      BY <2>1 DEF ReceivedIn, InOrder
    <3> QED
      BY <2>2, <2>4, <3>1, <3>2, <3>3 DEF ReceivedIn
  <2>5. CASE g # f
    BY <2>1, <2>2, <2>3, <2>5 DEF ReceivedIn
  <2> QED
    BY <2>4, <2>5
<1>8. ASSUME NEW f \in Flows, Handle(f) PROVE Received'
  <2>1. HandleKeeps /\ (HandleWrites(f) \/ HandleCloses(f))
    BY <1>8, HandleOutcomes
  <2>2. ASSUME NEW g \in Flows, closed'[g[1]] = "open" PROVE closed[g[1]] = "open"
    <3>1. CASE HandleWrites(f)
      BY <2>2, <3>1 DEF HandleWrites
    <3>2. CASE HandleCloses(f)
      BY <2>2, <3>2, HandleClosed DEF ClosedBy
    <3> QED
      BY <2>1, <3>1, <3>2
  <2> QED
    BY <1>0, <2>1, <2>2 DEF HandleKeeps
<1>9. ASSUME WriteSome PROVE Received'
  <2> SUFFICES ASSUME NEW g \in Flows PROVE ReceivedIn(g)'
    BY DEF Received
  <2>1. ReceivedIn(g) /\ MovedIn(g)
    BY DEF Received, Moved
  <2>2. writing \in Flows /\ WriteMoves(writing)
    BY <1>9, WriteSomeMoves
  <2>3. /\ got \in [Flows -> Seq(1 .. MaxBytes)] /\ transit \in [Flows -> Seq(1 .. MaxBytes)]
        /\ put \in [Flows -> Nat]
    BY StreamTypes DEF IndInv
  <2>4. CASE g = writing
    <3>1. /\ put'[g] = put[g] + 1 /\ transit'[g] = Append(transit[g], put[g] + 1)
          /\ got' = got /\ closed' = closed /\ closed[g[1]] = "open" /\ put[g] + 1 \in 1 .. MaxBytes
      BY <2>2, <2>3, <2>4 DEF WriteMoves
    <3>2. Len(got[g]) + Len(transit[g]) = put[g]
      BY <2>1, <3>1 DEF ReceivedIn
    <3>3. InOrder(got[g], transit'[g]) /\ Len(transit'[g]) = Len(transit[g]) + 1
      <4>1. got[g] \in Seq(1 .. MaxBytes) /\ transit[g] \in Seq(1 .. MaxBytes)
        BY <2>3
      <4>2. InOrder(got[g], transit[g])
        BY <2>1 DEF ReceivedIn
      <4>3. /\ InOrder(got[g], Append(transit[g], put[g] + 1))
            /\ Len(Append(transit[g], put[g] + 1)) = Len(transit[g]) + 1
        <5>1. put[g] \in Nat /\ put[g] = Len(got[g]) + Len(transit[g])
          BY <2>3, <3>2
        <5> QED
          BY <3>1, <4>1, <4>2, <5>1, PutInOrder, ZenonT(60)
      <4> QED
        BY <3>1, <4>3
    <3>4. Len(got[g]) + Len(transit'[g]) = put'[g]
      BY <2>3, <3>1, <3>2, <3>3
    <3> QED
      BY <2>3, <3>1, <3>3, <3>4 DEF ReceivedIn
  <2>5. CASE g # writing
    BY <2>1, <2>2, <2>3, <2>5 DEF WriteMoves, ReceivedIn
  <2> QED
    BY <2>4, <2>5
<1>10. ASSUME WriteDone PROVE Received'
  BY <1>10, <1>0 DEF WriteDone, peerVars
<1>11. ASSUME WriteFails PROVE Received'
  <2>1. writing \in Flows /\ ClosedBy(writing, "failed")
    BY <1>11, Closed DEF WriteFails, Typed
  <2>2. \A g \in Flows : closed'[g[1]] = "open" => closed[g[1]] = "open"
    BY <2>1 DEF ClosedBy
  <2> QED
    BY <1>11, <1>0, <2>2 DEF WriteFails, peerVars
<1>12. CASE UNCHANGED vars
  BY <1>12, <1>0 DEF vars, peerVars, mainVars
<1> QED
  BY <1>1, <1>2, <1>3, <1>4, <1>5, <1>6, <1>7,
     <1>8, <1>9, <1>10, <1>11, <1>12 DEF Next, MainStep, ReadStep

\* End of file is the last thing read, and no byte is sent behind it.
LEMMA FinishedNext == IndInv /\ [Next]_vars => Finished'
<1> SUFFICES ASSUME IndInv, [Next]_vars PROVE Finished'
  OBVIOUS
<1> USE FlowParts, NoneAssumption, SizeAssumption DEF IndInv
<1>0. ASSUME UNCHANGED <<taken, sent, put, closed>>,
             \A g \in Flows : read'[g] = "eof" => read[g] = "eof",
             \A g \in Flows : sender'[g] = "open" => sender[g] = "open"
      PROVE  Finished'
  BY <1>0 DEF Finished, FinishedIn
<1>1. ASSUME NEW f \in Flows, ReadEof(f) PROVE Finished'
  <2> SUFFICES ASSUME NEW g \in Flows PROVE FinishedIn(g)'
    BY DEF Finished
  <2>1. FinishedIn(g) /\ MovedIn(g)
    BY DEF Finished, Moved
  <2>2. CASE g = f
    BY <1>1, <2>1, <2>2
      DEF ReadEof, Completes, peerVars, mainVars, Sides, Typed, FinishedIn, MovedIn
  <2>3. CASE g # f
    BY <1>1, <2>1, <2>3
      DEF ReadEof, Completes, peerVars, mainVars, Sides, Typed, FinishedIn, MovedIn
  <2> QED
    BY <2>2, <2>3
<1>2. ASSUME NEW f \in Flows, ReadFails(f) PROVE Finished'
  BY <1>2, <1>0 DEF ReadFails, Completes, peerVars, mainVars, Typed
<1>3. ASSUME NEW f \in Flows, NEW n \in 0 .. MaxBytes, ReadSome(f, n) PROVE Finished'
  <2> SUFFICES ASSUME NEW g \in Flows PROVE FinishedIn(g)'
    BY DEF Finished
  <2>1. FinishedIn(g) /\ MovedIn(g)
    BY DEF Finished, Moved
  <2>2. /\ n <= bufferSize /\ read[f] = "pending" /\ read' = [read EXCEPT ![f] = "data"]
        /\ len' = [len EXCEPT ![f] = n] /\ taken' = [taken EXCEPT ![f] = @ + n]
        /\ taken[f] + n <= sent[f]
        /\ UNCHANGED <<bufferSize, sent, sender, got, writing, rest, put, counted, refused,
                       transit, closed>>
    BY <1>3 DEF ReadSome, Completes, peerVars, mainVars
  <2>3. CASE g = f
    BY <2>1, <2>2, <2>3 DEF Sides, Typed, FinishedIn, MovedIn
  <2>4. CASE g # f
    BY <2>1, <2>2, <2>4 DEF Sides, Typed, FinishedIn, MovedIn
  <2> QED
    BY <2>3, <2>4
<1>4. ASSUME NEW f \in Flows, PeerSends(f) PROVE Finished'
  <2> SUFFICES ASSUME NEW g \in Flows PROVE FinishedIn(g)'
    BY DEF Finished
  <2>1. FinishedIn(g) /\ MovedIn(g)
    BY DEF Finished, Moved
  <2>2. CASE g = f
    BY <1>4, <2>1, <2>2 DEF PeerSends, mainVars, Sides, Typed, FinishedIn, MovedIn
  <2>3. CASE g # f
    BY <1>4, <2>1, <2>3 DEF PeerSends, mainVars, Sides, Typed, FinishedIn, MovedIn
  <2> QED
    BY <2>2, <2>3
<1>5. ASSUME NEW f \in Flows, PeerLeaves(f) PROVE Finished'
  BY <1>5, <1>0 DEF PeerLeaves, mainVars, Typed
<1>6. ASSUME NEW f \in Flows, PeerReads(f) PROVE Finished'
  BY <1>6, <1>0 DEF PeerReads, mainVars, Typed
<1>7. ASSUME NEW f \in Flows, TransitLost(f) PROVE Finished'
  BY <1>7, <1>0 DEF TransitLost, peerVars, mainVars, Typed
<1>8. ASSUME NEW f \in Flows, Handle(f) PROVE Finished'
  <2> SUFFICES ASSUME NEW g \in Flows PROVE FinishedIn(g)'
    BY DEF Finished
  <2>1. FinishedIn(g) /\ MovedIn(g)
    BY DEF Finished, Moved
  <2>2. writing = None /\ HandleKeeps /\ (HandleWrites(f) \/ HandleCloses(f))
    BY <1>8, HandleOutcomes
  <2>3. CASE HandleWrites(f)
    <3>1. MovedIn(f)
      BY DEF Moved
    <3>2. /\ rest' \in Seq(1 .. put[f] + len[f]) /\ Len(rest') = len[f]
          /\ \A i \in 1 .. len[f] : rest'[i] = put[f] + i
      BY <2>3, <3>1, HandleRun
    <3>3. CASE g = f
      BY <2>1, <2>2, <2>3, <3>2, <3>3
        DEF HandleKeeps, HandleWrites, Sides, Typed, FinishedIn, MovedIn
    <3>4. CASE g # f
      BY <2>1, <2>2, <2>3, <3>4 DEF HandleKeeps, HandleWrites, Sides, Typed, FinishedIn, MovedIn
    <3> QED
      BY <3>3, <3>4
  <2>4. CASE HandleCloses(f)
    <3>1. PICK cause \in Sides \cup {"failed"} :
              ClosedBy(f, cause) /\ (cause = "failed" \/ (read[f] = "eof" /\ cause = f[2]))
      BY <2>4, HandleClosed
    <3>2. MovedIn(f)
      BY DEF Moved
    <3>3. CASE g = f
      BY <2>1, <2>2, <2>4, <3>1, <3>3
        DEF ClosedBy, HandleKeeps, HandleCloses, Sides, Typed, FinishedIn, MovedIn
    <3>4. CASE g # f
      <4>1. ~ (g[1] = f[1] /\ g[2] = f[2]) /\ g[1] \in Sessions /\ f[1] \in Sessions
        BY <3>4, FlowParts
      <4>2. put' = put /\ sent' = sent /\ taken' = taken /\ sender' = sender
        BY <2>2 DEF HandleKeeps
      <4> QED
        BY <2>1, <3>1, <3>4, <4>1, <4>2 DEF ClosedBy, Sides, FinishedIn
    <3> QED
      BY <3>3, <3>4
  <2> QED
    BY <2>2, <2>3, <2>4
<1>9. ASSUME WriteSome PROVE Finished'
  <2> SUFFICES ASSUME NEW g \in Flows PROVE FinishedIn(g)'
    BY DEF Finished
  <2>1. FinishedIn(g) /\ MovedIn(g)
    BY DEF Finished, Moved
  <2>2. writing \in Flows /\ WriteMoves(writing)
    BY <1>9, WriteSomeMoves
  <2>3. CASE g = writing
    BY <2>1, <2>2, <2>3 DEF WriteMoves, Sides, Typed, FinishedIn, MovedIn
  <2>4. CASE g # writing
    BY <2>1, <2>2, <2>4 DEF WriteMoves, Sides, Typed, FinishedIn, MovedIn
  <2> QED
    BY <2>3, <2>4
<1>10. ASSUME WriteDone PROVE Finished'
  BY <1>10, <1>0 DEF WriteDone, peerVars, Typed
<1>11. ASSUME WriteFails PROVE Finished'
  <2> SUFFICES ASSUME NEW g \in Flows PROVE FinishedIn(g)'
    BY DEF Finished
  <2>1. FinishedIn(g) /\ MovedIn(g)
    BY DEF Finished, Moved
  <2>2. writing \in Flows
    BY <1>11 DEF Typed, WriteFails, peerVars
  <2>3. /\ ClosedBy(writing, "failed") /\ writing' = None /\ rest' = <<>>
        /\ UNCHANGED <<bufferSize, sent, sender, got, taken, buf, len, put, counted, refused,
                       transit>>
    BY <1>11, <2>2, Closed DEF WriteFails, peerVars
  <2>4. CASE g = writing
    BY <2>1, <2>2, <2>3, <2>4 DEF ClosedBy, Sides, Typed, FinishedIn, MovedIn
  <2>5. CASE g # writing
    <3>1. MovedIn(writing)
      BY <2>2 DEF Moved
    <3> QED
      BY <2>1, <2>2, <2>3, <2>5, <3>1 DEF ClosedBy, Sides, Typed, FinishedIn, MovedIn
  <2> QED
    BY <2>4, <2>5
<1>12. CASE UNCHANGED vars
  BY <1>12, <1>0 DEF vars, peerVars, mainVars
<1> QED
  BY <1>1, <1>2, <1>3, <1>4, <1>5, <1>6, <1>7,
     <1>8, <1>9, <1>10, <1>11, <1>12 DEF Next, MainStep, ReadStep

\* A read counts for nothing until its write is over, and then at once.
LEMMA CountingNext == IndInv /\ [Next]_vars => Counting'
<1> SUFFICES ASSUME IndInv, [Next]_vars PROVE Counting'
  OBVIOUS
<1> USE FlowParts, NoneAssumption, SizeAssumption DEF IndInv
<1>1. ASSUME NEW f \in Flows, ReadEof(f) PROVE Counting'
  <2> SUFFICES ASSUME NEW g \in Flows PROVE CountingIn(g)'
    BY DEF Counting
  <2>1. CountingIn(g) /\ MovedIn(g)
    BY DEF Counting, Moved
  <2>2. UNCHANGED <<counted, put, writing, rest, closed, refused>>
    BY <1>1 DEF ReadEof, Completes, peerVars, mainVars
  <2>3. writing = g => UNCHANGED <<taken[g], len[g]>>
    BY <1>1, <2>1 DEF ReadEof, Completes, peerVars, mainVars
  <2> QED
    BY <2>1, <2>2, <2>3, CountingFrame
<1>2. ASSUME NEW f \in Flows, ReadFails(f) PROVE Counting'
  <2> SUFFICES ASSUME NEW g \in Flows PROVE CountingIn(g)'
    BY DEF Counting
  <2>1. CountingIn(g) /\ MovedIn(g)
    BY DEF Counting, Moved
  <2>2. UNCHANGED <<counted, put, writing, rest, closed, refused>>
    BY <1>2 DEF ReadFails, Completes, peerVars, mainVars
  <2>3. writing = g => UNCHANGED <<taken[g], len[g]>>
    BY <1>2, <2>1 DEF ReadFails, Completes, peerVars, mainVars
  <2> QED
    BY <2>1, <2>2, <2>3, CountingFrame
<1>3. ASSUME NEW f \in Flows, NEW n \in 0 .. MaxBytes, ReadSome(f, n) PROVE Counting'
  <2> SUFFICES ASSUME NEW g \in Flows PROVE CountingIn(g)'
    BY DEF Counting
  <2>1. CountingIn(g) /\ MovedIn(g)
    BY DEF Counting, Moved
  <2>2. UNCHANGED <<counted, put, writing, rest, closed, refused>>
    BY <1>3 DEF ReadSome, Completes, peerVars, mainVars
  <2>3. writing = g => UNCHANGED <<taken[g], len[g]>>
    BY <1>3, <2>1 DEF ReadSome, Completes, peerVars, mainVars, Typed, MovedIn
  <2> QED
    BY <2>1, <2>2, <2>3, CountingFrame
<1>4. ASSUME NEW f \in Flows, PeerSends(f) PROVE Counting'
  <2> SUFFICES ASSUME NEW g \in Flows PROVE CountingIn(g)'
    BY DEF Counting
  <2>1. CountingIn(g) /\ MovedIn(g)
    BY DEF Counting, Moved
  <2>2. UNCHANGED <<counted, put, writing, rest, closed, refused>>
    BY <1>4 DEF PeerSends, mainVars
  <2>3. writing = g => UNCHANGED <<taken[g], len[g]>>
    BY <1>4, <2>1 DEF PeerSends, mainVars
  <2> QED
    BY <2>1, <2>2, <2>3, CountingFrame
<1>5. ASSUME NEW f \in Flows, PeerLeaves(f) PROVE Counting'
  <2> SUFFICES ASSUME NEW g \in Flows PROVE CountingIn(g)'
    BY DEF Counting
  <2>1. CountingIn(g) /\ MovedIn(g)
    BY DEF Counting, Moved
  <2>2. UNCHANGED <<counted, put, writing, rest, closed, refused>>
    BY <1>5 DEF PeerLeaves, mainVars
  <2>3. writing = g => UNCHANGED <<taken[g], len[g]>>
    BY <1>5, <2>1 DEF PeerLeaves, mainVars
  <2> QED
    BY <2>1, <2>2, <2>3, CountingFrame
<1>6. ASSUME NEW f \in Flows, PeerReads(f) PROVE Counting'
  <2> SUFFICES ASSUME NEW g \in Flows PROVE CountingIn(g)'
    BY DEF Counting
  <2>1. CountingIn(g) /\ MovedIn(g)
    BY DEF Counting, Moved
  <2>2. UNCHANGED <<counted, put, writing, rest, closed, refused>>
    BY <1>6 DEF PeerReads, mainVars
  <2>3. writing = g => UNCHANGED <<taken[g], len[g]>>
    BY <1>6, <2>1 DEF PeerReads, mainVars
  <2> QED
    BY <2>1, <2>2, <2>3, CountingFrame
<1>7. ASSUME NEW f \in Flows, TransitLost(f) PROVE Counting'
  <2> SUFFICES ASSUME NEW g \in Flows PROVE CountingIn(g)'
    BY DEF Counting
  <2>1. CountingIn(g) /\ MovedIn(g)
    BY DEF Counting, Moved
  <2>2. UNCHANGED <<counted, put, writing, rest, closed, refused>>
    BY <1>7 DEF TransitLost, peerVars, mainVars
  <2>3. writing = g => UNCHANGED <<taken[g], len[g]>>
    BY <1>7, <2>1 DEF TransitLost, peerVars, mainVars
  <2> QED
    BY <2>1, <2>2, <2>3, CountingFrame
<1>8. ASSUME NEW f \in Flows, Handle(f) PROVE Counting'
  <2> SUFFICES ASSUME NEW g \in Flows PROVE CountingIn(g)'
    BY DEF Counting
  <2>1. CountingIn(g) /\ MovedIn(g)
    BY DEF Counting, Moved
  <2>2. writing = None /\ HandleKeeps /\ (HandleWrites(f) \/ HandleCloses(f))
    BY <1>8, HandleOutcomes
  <2>3. put[g] \in Nat /\ taken[g] \in Nat /\ counted[g] \in Nat /\ len[g] \in Nat
    BY SizeAssumption DEF Typed
  <2>4. UNCHANGED <<put, taken, counted, len, refused>>
    BY <2>2 DEF HandleKeeps
  <2>5. CASE HandleWrites(f)
    <3>1. closed' = closed /\ writing' = f /\ f # None
      BY <2>5 DEF HandleWrites
    <3>2. Whole(g)' <=> Whole(g)
      BY <2>4, <3>1 DEF Whole
    <3>3. CASE g = f
      <4>1. MovedIn(f) /\ Len(rest') = len[f]
        BY <2>5, HandleRun DEF Moved
      <4>2. put[f] + len[f] = taken[f]
        BY <2>5, <4>1 DEF MovedIn, HandleWrites
      <4> QED
        BY <2>1, <2>2, <2>3, <2>4, <3>1, <3>2, <3>3, <4>1, <4>2 DEF CountingIn
    <3>4. CASE g # f
      BY <2>1, <2>2, <2>4, <3>1, <3>2, <3>4 DEF CountingIn
    <3> QED
      BY <3>3, <3>4
  <2>6. CASE HandleCloses(f)
    <3>1. PICK cause \in Sides \cup {"failed"} :
              ClosedBy(f, cause) /\ (cause = "failed" \/ (read[f] = "eof" /\ cause = f[2]))
      BY <2>6, HandleClosed
    <3>2. Whole(g)' => Whole(g)
      <4>1. closed[g[1]] = "failed" => closed'[g[1]] = "failed"
        BY <3>1 DEF ClosedBy
      <4> QED
        BY <2>4, <4>1 DEF Whole
    <3>3. writing' = writing /\ g # None
      BY <2>6 DEF HandleCloses
    <3> QED
      BY <2>1, <2>2, <2>4, <3>2, <3>3 DEF CountingIn
  <2> QED
    BY <2>2, <2>5, <2>6
<1>9. ASSUME WriteSome PROVE Counting'
  <2> SUFFICES ASSUME NEW g \in Flows PROVE CountingIn(g)'
    BY DEF Counting
  <2>1. CountingIn(g) /\ MovedIn(g)
    BY DEF Counting, Moved
  <2>2. writing \in Flows /\ WriteMoves(writing)
    BY <1>9, WriteSomeMoves
  <2>3. Whole(g)' <=> Whole(g)
    BY <2>2 DEF WriteMoves, Whole
  <2>4. CASE g = writing
    <3>1. /\ put'[g] = put[g] + 1 /\ put[g] \in Nat /\ counted[g] \in Nat
          /\ UNCHANGED <<counted, taken, len, writing, closed>> /\ closed[g[1]] = "open"
      BY <2>2, <2>4, SizeAssumption DEF WriteMoves, Typed
    <3>2. counted'[g] <= put'[g]
      BY <2>1, <3>1 DEF CountingIn
    <3> QED
      BY <2>1, <2>3, <2>4, <3>1, <3>2 DEF CountingIn
  <2>5. CASE g # writing
    BY <2>1, <2>2, <2>3, <2>5 DEF WriteMoves, Typed, CountingIn
  <2> QED
    BY <2>4, <2>5
<1>10. ASSUME WriteDone PROVE Counting'
  <2> SUFFICES ASSUME NEW g \in Flows PROVE CountingIn(g)'
    BY DEF Counting
  <2>1. CountingIn(g) /\ MovedIn(g)
    BY DEF Counting, Moved
  <2>2. /\ writing \in Flows /\ writing # None /\ rest = <<>> /\ writing' = None
        /\ closed' = closed /\ put' = put /\ taken' = taken /\ len' = len /\ rest' = rest
    BY <1>10 DEF Typed, WriteDone
  <2>3. put[g] \in Nat /\ taken[g] \in Nat /\ counted[g] \in Nat /\ len[g] \in Nat
    BY SizeAssumption DEF Typed
  <2>4. CASE g = writing
    <3>1. put[g] = taken[g] /\ Len(rest) = 0
      BY <2>1, <2>2, <2>3, <2>4 DEF MovedIn
    <3>2. CASE counted' = [counted EXCEPT ![writing] = @ + len[writing]] /\ refused' = refused
      <4>1. Whole(g)' <=> Whole(g)
        BY <2>2, <3>2 DEF Whole
      <4>2. counted'[g] = counted[g] + len[g]
        BY <2>4, <3>2 DEF Typed
      <4> QED
        BY <2>1, <2>2, <2>3, <2>4, <3>1, <4>1, <4>2 DEF CountingIn
    <3>3. CASE refused' = [refused EXCEPT ![writing] = TRUE] /\ counted' = counted
      <4>1. refused \in [Flows -> BOOLEAN]
        BY DEF IndInv, Refusals
      <4>2. refused'[g] = TRUE
        BY <2>4, <3>3, <4>1, Zenon
      <4>3. ~ Whole(g)'
        BY <4>2 DEF Whole
      <4> QED
        BY <2>1, <2>2, <2>3, <2>4, <3>1, <3>3, <4>3 DEF CountingIn
    <3> QED
      BY <1>10, <3>2, <3>3 DEF WriteDone
  <2>5. CASE g # writing
    <3>1. counted'[g] = counted[g]
      BY <1>10, <2>5 DEF WriteDone, Typed
    <3>2. refused'[g] = refused[g]
      <4>1. refused \in [Flows -> BOOLEAN]
        BY DEF IndInv, Refusals
      <4> QED
        BY <1>10, <2>5, <4>1, Zenon DEF WriteDone
    <3>3. Whole(g)' <=> Whole(g)
      BY <2>2, <3>2 DEF Whole
    <3> QED
      BY <2>1, <2>2, <2>3, <2>5, <3>1, <3>3 DEF CountingIn
  <2> QED
    BY <2>4, <2>5
<1>11. ASSUME WriteFails PROVE Counting'
  <2> SUFFICES ASSUME NEW g \in Flows PROVE CountingIn(g)'
    BY DEF Counting
  <2>1. CountingIn(g) /\ MovedIn(g)
    BY DEF Counting, Moved
  <2>2. /\ writing \in Flows /\ writing # None /\ rest # <<>>
        /\ sender[Back(writing)] = "gone" \/ closed[writing[1]] # "open"
    BY <1>11 DEF Typed, WriteFails
  <2>3. /\ ClosedBy(writing, "failed") /\ writing' = None /\ rest' = <<>>
        /\ UNCHANGED <<taken, len, put, counted, refused>>
    BY <1>11, <2>2, Closed DEF WriteFails
  <2>4. put[g] \in Nat /\ taken[g] \in Nat /\ counted[g] \in Nat /\ len[g] \in Nat
    BY SizeAssumption DEF Typed
  <2>5. Whole(g)' => Whole(g)
    BY <2>3 DEF ClosedBy, Whole
  <2>6. counted[g] <= put[g]
    BY <2>1 DEF CountingIn
  <2>7. CASE g = writing
    <3>1. rest \in Seq(1 .. MaxBytes) /\ Len(rest) \in Nat
      BY DEF Typed
    <3>2. put[g] + Len(rest) = taken[g]
      BY <2>1, <2>7 DEF MovedIn
    <3>3. closed[g[1]] # "open" /\ Whole(g) => counted[g] + len[g] = taken[g] /\ Len(rest) = len[g]
      BY <2>1, <2>7 DEF CountingIn
    <3>4. closed[g[1]] # "open" /\ Whole(g) => counted[g] = put[g]
      BY <2>4, <3>1, <3>2, <3>3
    <3>5. closed[g[1]] = "open" => ~ Whole(g)'
      BY <2>3, <2>7 DEF ClosedBy, Whole
    <3> QED
      BY <2>3, <2>5, <2>6, <2>7, <3>4, <3>5 DEF CountingIn
  <2>8. CASE g # writing
    BY <2>1, <2>3, <2>5, <2>8 DEF CountingIn
  <2> QED
    BY <2>7, <2>8
<1>12. CASE UNCHANGED vars
  BY <1>12, CountingFrame DEF vars, peerVars, mainVars, Counting
<1> QED
  BY <1>1, <1>2, <1>3, <1>4, <1>5, <1>6, <1>7,
     <1>8, <1>9, <1>10, <1>11, <1>12 DEF Next, MainStep, ReadStep

--------------------------------------------------------------------------------
(* The theorems. *)

\* The inductive invariant holds in every behaviour.
THEOREM RelayInvariant == Spec => []IndInv
<1>1. IndInv /\ [Next]_vars => IndInv'
  BY TypedNext, RefusalsNext, MovedNext, ReceivedNext, CountingNext, FinishedNext DEF IndInv
<1> QED
  BY RelayInit, <1>1, PTL DEF Spec

\* Type correctness (TypeOK): no counter leaves the stream and no buffer changes its size.
THEOREM RelayTypes == Spec => []TypeOK
<1>1. IndInv => TypeOK
  <2> SUFFICES ASSUME IndInv PROVE TypeOK
    OBVIOUS
  <2>1. refused \in [Flows -> BOOLEAN]
    BY DEF IndInv, Refusals
  <2>2. Typed
    BY DEF IndInv
  <2>3. {sent, taken, put, counted, len} \subseteq [Flows -> 0 .. MaxBytes]
    BY <2>2 DEF Typed
  <2> QED
    BY <2>1, <2>2, <2>3, Zenon DEF Typed, TypeOK
<1> QED
  BY RelayInvariant, <1>1, PTL

\* The row of a session says what its receivers were sent (CountedIsPut): client_handle and
\* server_handle count a read once, for the side it came from, when all of it is written.
THEOREM BytesAreCounted == Spec => []CountedIsPut
<1>1. IndInv => CountedIsPut
  BY DEF IndInv, Counting, CountingIn, Whole, Finished, FinishedIn, CountedIsPut
<1> QED
  BY RelayInvariant, <1>1, PTL

\* What a step of the relay does to the stream of a flow as its peers see it.
LEMMA PipeStep == IndInv /\ [Next]_vars => [Promise!Next]_<<sent, got>>
<1> SUFFICES ASSUME IndInv, [Next]_vars PROVE [Promise!Next]_<<sent, got>>
  OBVIOUS
<1>1. ASSUME NEW f \in Flows, PeerSends(f) PROVE Promise!Next
  BY <1>1 DEF PeerSends, Promise!Next, Promise!Send
<1>2. ASSUME NEW f \in Flows, PeerReads(f) PROVE Promise!Next
  <2>1. got' = [got EXCEPT ![f] = Append(@, Head(transit[f]))] /\ sent' = sent /\ transit[f] # <<>>
    BY <1>2 DEF PeerReads
  <2>2. /\ got[f] \in Seq(1 .. MaxBytes) /\ transit[f] \in Seq(1 .. MaxBytes)
        /\ put[f] \in Nat /\ taken[f] \in Nat /\ sent[f] \in Nat
    BY SizeAssumption DEF IndInv, Typed
  <2>3. /\ InOrder(got[f], transit[f]) /\ Len(got[f]) + Len(transit[f]) <= put[f]
        /\ put[f] <= taken[f] /\ taken[f] <= sent[f]
    BY DEF IndInv, Received, ReceivedIn, Moved, MovedIn
  <2>4. Append(got[f], Head(transit[f])) = [i \in 1 .. Len(got[f]) + 1 |-> i]
    BY <2>1, <2>2, <2>3, ReceivedInOrder, Zenon
  <2>5. Len(got[f]) \in Nat /\ Len(transit[f]) \in Nat \ {0}
    BY <2>1, <2>2, HeadTailProperties, LenProperties
  <2>6. Len(got[f]) + 1 \in Len(got[f]) + 1 .. sent[f]
    <3>1. PICK g \in Nat, t \in Nat \ {0} : g = Len(got[f]) /\ t = Len(transit[f])
      BY <2>5
    <3>2. g + t <= put[f]
      BY <2>3, <3>1
    <3>3. g + 1 \in g + 1 .. sent[f]
      BY <2>2, <2>3, <3>2
    <3> QED
      BY <3>1, <3>3
  <2>7. got' = [got EXCEPT ![f] = [i \in 1 .. Len(got[f]) + 1 |-> i]]
    BY <2>1, <2>4
  <2> QED
    BY <2>1, <2>6, <2>7 DEF Promise!Next, Promise!Receive
<1>3. ASSUME NEW f \in Flows, ReadStep(f) \/ PeerLeaves(f) \/ TransitLost(f)
      PROVE  UNCHANGED <<sent, got>>
  BY <1>3 DEF ReadStep, ReadSome, ReadEof, ReadFails, Completes, PeerLeaves, TransitLost,
     peerVars
<1>4. CASE MainStep
  BY <1>4 DEF MainStep, WriteSome, WriteDone, WriteFails, Handle, peerVars
<1>5. CASE UNCHANGED vars
  BY <1>5 DEF vars, peerVars
<1> QED
  BY <1>1, <1>2, <1>3, <1>4, <1>5 DEF Next

\* The relay implements the pipe (ImplementsPipe): whatever the sizes of reads and writes
\* and whenever a session ends, each receiver has the beginning of what was sent to it.
THEOREM RelayIsPipe == Spec => ImplementsPipe
<1>1. Init => Promise!Init
  BY DEF Init, Promise!Init
<1> QED
  BY RelayInvariant, <1>1, PipeStep, PTL DEF Spec, ImplementsPipe, Promise!Spec
================================================================================
