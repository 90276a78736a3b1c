-------------------------- MODULE HttpClientProofs --------------------------
(***************************************************************************)
(* Proofs about HttpClient for every size of the read buffer, the body     *)
(* buffer and the request, every set of responses, and any way the stream  *)
(* is cut.                                                                 *)
(*                                                                         *)
(* The stream of a round is what the client has taken of the response,     *)
(* then its socket, then what is on the way.  Every step of the client     *)
(* moves a boundary between these parts and leaves their concatenation     *)
(* alone.                                                                  *)
(***************************************************************************)
EXTENDS HttpClient, SequenceTheorems, TLAPS

(* What is in the read buffer, and how far the body buffer is filled.      *)
BufferInv ==
  /\ pc = "send" => chunk = <<>>
  /\ pc = "header" => Len(chunk) < ReadBufSize
  /\ pc = "search" => Len(chunk) <= ReadBufSize
  /\ pc = "fields" => Len(chunk) <= ReadBufSize - SepLen
  /\ pc = "body" => bodyLen <= MaxBufLen /\ Len(body) < bodyLen

(* The error of a connection that was reset is returned once, so that left  *)
(* of writen_timeout grows by one at most.                                 *)
ErrorInv ==
  /\ pc = "connect" => ~errorSeen
  /\ errorSeen => peer = "reset"
  /\ ~errorSeen => left <= RequestLen

TypeInv == TypeOK /\ BufferInv /\ ErrorInv

-----------------------------------------------------------------------------
(* What the client has taken of the response, and the whole stream.        *)
Taken == header \o (IF pc \in {"body", "idle"} THEN body ELSE chunk)

Stream == Taken \o (inbox \o pending)

(* The response the stream must be a part of. *)
Due ==
  IF requests > 0 /\ Len(shape) = requests THEN Bytes(requests, shape[requests])
  ELSE <<>>

Prefix(s, d) == Len(s) <= Len(d) /\ \A i \in 1 .. Len(s) : s[i] = d[i]

Live == clean /\ pc \notin {"ended", "dead"}

(* The server answers the requests it has received, in order and each once. *)
RoundInv ==
  /\ Len(shape) = requests \/ Len(shape) = requests - 1
  /\ pc \in {"connect", "idle"} => Len(shape) = requests
  /\ pc = "connect" => peer = "open" /\ requests = 0 /\ chunk = <<>> /\ body = <<>>
  /\ peer = "open" =>
       got + (IF pc = "send" THEN left ELSE 0) = requests * RequestLen

(* The client knows where in the response it is. *)
PlaceInv ==
  /\ pc \in {"fields", "body"} \/ (pc = "idle" /\ requests > 0) =>
       requests > 0 /\ Len(shape) = requests
         /\ Len(header) = shape[requests].head + SepLen
  /\ pc = "body" \/ (pc = "idle" /\ requests > 0) => bodyLen = shape[requests].body
  /\ pc = "idle" /\ requests > 0 => Len(body) = bodyLen

StreamInv == Live => RoundInv /\ PlaceInv /\ Prefix(Stream, Due)

(* While no read has waited in vain, the header is read in full pieces, so   *)
(* where it ends in its last piece depends on the response alone.            *)
SmoothInv ==
  smooth =>
    /\ pc \notin {"idle", "ended", "dead"} => clean
    /\ pc = "send" => header = <<>>
    /\ pc \in {"header", "search"} => \E q \in Nat : Len(header) = q * ReadBufSize
    /\ pc = "search" => Len(chunk) = ReadBufSize
    /\ pc = "fields" => Len(chunk) = PartBody(shape[requests])
    /\ pc = "body" => /\ shape[requests].kind = "length"
                     /\ shape[requests].body <= MaxBufLen
                     /\ shape[requests].body # PartBody(shape[requests])
    /\ pc = "idle" => requests <= Len(shape)

-----------------------------------------------------------------------------
(* A sequence cut after n elements. *)
LEMMA Cut ==
  ASSUME NEW S, NEW s \in Seq(S), NEW n \in Nat, n <= Len(s)
  PROVE  /\ SubSeq(s, 1, n) \in Seq(S) /\ Len(SubSeq(s, 1, n)) = n
         /\ Rest(s, n) \in Seq(S) /\ Len(Rest(s, n)) = Len(s) - n
         /\ SubSeq(s, 1, n) \o Rest(s, n) = s
<1>1. Len(s) \in Nat /\ \A i \in 1 .. Len(s) : s[i] \in S
  BY LenProperties, ElementOfSeq
<1>2. SubSeq(s, 1, n) \in Seq(S) /\ Len(SubSeq(s, 1, n)) = n
  <2>1. \A i \in 1 .. n : s[i] \in S
    BY <1>1
  <2>2. /\ SubSeq(s, 1, n) \in Seq(S)
        /\ Len(SubSeq(s, 1, n)) = IF 1 <= n THEN n - 1 + 1 ELSE 0
    BY <2>1, SubSeqProperties
  <2> QED
    BY <2>2
<1>3. Rest(s, n) \in Seq(S) /\ Len(Rest(s, n)) = Len(s) - n
  <2>1. \A i \in n + 1 .. Len(s) : s[i] \in S
    BY <1>1
  <2>2. /\ SubSeq(s, n + 1, Len(s)) \in Seq(S)
        /\ Len(SubSeq(s, n + 1, Len(s)))
             = IF n + 1 <= Len(s) THEN Len(s) - (n + 1) + 1 ELSE 0
    BY <1>1, <2>1, SubSeqProperties
  <2> QED
    BY <1>1, <2>2 DEF Rest
<1>4. SubSeq(s, 1, n) \o Rest(s, n) = s
  <2>1. CASE Len(s) = 0
    <3>1. n = 0
      BY <2>1
    <3>2. s = <<>> /\ SubSeq(s, 1, n) = <<>> /\ Rest(s, n) = <<>>
      BY <1>1, <1>2, <1>3, <2>1, <3>1, EmptySeq
    <3> QED
      BY <3>2, ConcatEmptySeq
  <2>2. CASE Len(s) # 0
    <3>1. SubSeq(s, 1, n) \o SubSeq(s, n + 1, Len(s)) = SubSeq(s, 1, Len(s))
      <4>1. 1 \in 1 .. Len(s) + 1 /\ n \in 1 - 1 .. Len(s) /\ Len(s) \in n .. Len(s)
        BY <1>1, <2>2
      <4> QED
        BY <4>1, ConcatAdjacentSubSeq
    <3> QED
      BY <3>1, SubSeqFull DEF Rest
  <2> QED
    BY <2>1, <2>2
<1> QED
  BY <1>2, <1>3, <1>4

(* Moving the front of t to the end of s. *)
Followed(s, t) == s \o t

LEMMA Moved ==
  ASSUME NEW S, NEW s \in Seq(S), NEW t \in Seq(S), NEW n \in Nat, n <= Len(t)
  PROVE  Followed(s \o SubSeq(t, 1, n), Rest(t, n)) = Followed(s, t)
<1>1. SubSeq(t, 1, n) \in Seq(S) /\ Rest(t, n) \in Seq(S)
  BY Cut
<1>2. SubSeq(t, 1, n) \o Rest(t, n) = t
  BY Cut
<1>3. ASSUME NEW a \in Seq(S), NEW b \in Seq(S)
      PROVE  (s \o a) \o b = s \o (a \o b)
  BY ConcatAssociative
<1>4. (s \o SubSeq(t, 1, n)) \o Rest(t, n) = s \o (SubSeq(t, 1, n) \o Rest(t, n))
  BY <1>1, <1>3, Zenon
<1> QED
  BY <1>2, <1>4, Zenon DEF Followed

(* The same between two parts of a longer concatenation. *)
Joined(r, s, t, u) == (r \o s) \o (t \o u)

LEMMA MovedWithin ==
  ASSUME NEW S, NEW r \in Seq(S), NEW s \in Seq(S), NEW t \in Seq(S),
         NEW u \in Seq(S), NEW n \in Nat, n <= Len(t)
  PROVE  Joined(r, s \o SubSeq(t, 1, n), Rest(t, n), u) = Joined(r, s, t, u)
<1>1. SubSeq(t, 1, n) \in Seq(S) /\ Rest(t, n) \in Seq(S)
  BY Cut
<1>2. SubSeq(t, 1, n) \o Rest(t, n) = t
  BY Cut
<1>3. ASSUME NEW a \in Seq(S), NEW b \in Seq(S)
      PROVE  (r \o (s \o a)) \o (b \o u) = (r \o s) \o ((a \o b) \o u)
  <2>1. (r \o s) \o a = r \o (s \o a)
    OBVIOUS
  <2>2. r \o s \in Seq(S) /\ b \o u \in Seq(S)
    BY ConcatProperties
  <2>3. ASSUME NEW x \in Seq(S), NEW z \in Seq(S)
        PROVE  (x \o a) \o z = x \o (a \o z)
    OBVIOUS
  <2>4. ((r \o s) \o a) \o (b \o u) = (r \o s) \o (a \o (b \o u))
    BY <2>2, <2>3, Zenon
  <2>5. (a \o b) \o u = a \o (b \o u)
    OBVIOUS
  <2> QED
    BY <2>1, <2>4, <2>5, Zenon
<1>4. (r \o (s \o SubSeq(t, 1, n))) \o (Rest(t, n) \o u)
        = (r \o s) \o ((SubSeq(t, 1, n) \o Rest(t, n)) \o u)
  BY <1>1, <1>3, Zenon
<1> QED
  BY <1>2, <1>4, Zenon DEF Joined

(* The second part of a concatenation. *)
LEMMA SecondPart ==
  ASSUME NEW S, NEW s \in Seq(S), NEW t \in Seq(S), NEW i \in 1 .. Len(t)
  PROVE  (s \o t)[Len(s) + i] = t[i]
<1>1. Len(s) \in Nat /\ Len(t) \in Nat
  BY LenProperties
<1>2. Len(s) + i \in 1 .. Len(s) + Len(t) /\ ~(Len(s) + i <= Len(s)) /\ Len(s) + i - Len(s) = i
  BY <1>1
<1>3. \A j \in 1 .. Len(s) + Len(t) :
        (s \o t)[j] = IF j <= Len(s) THEN s[j] ELSE t[j - Len(s)]
  BY ConcatProperties
<1> QED
  BY <1>2, <1>3

(* A part of a prefix. *)
LEMMA PrefixOfPart ==
  ASSUME NEW S, NEW s \in Seq(S), NEW t \in Seq(S), NEW d, Len(d) \in Nat,
         Prefix(s \o t, d)
  PROVE  Prefix(s, d)
<1>1. /\ Len(s) \in Nat /\ Len(t) \in Nat /\ Len(s \o t) = Len(s) + Len(t)
      /\ \A i \in 1 .. Len(s) + Len(t) :
           (s \o t)[i] = IF i <= Len(s) THEN s[i] ELSE t[i - Len(s)]
  BY ConcatProperties, LenProperties
<1>2. Len(s) <= Len(d)
  BY <1>1 DEF Prefix
<1>3. ASSUME NEW i \in 1 .. Len(s) PROVE s[i] = d[i]
  <2>1. i \in 1 .. Len(s) + Len(t) /\ i <= Len(s)
    BY <1>1
  <2> QED
    BY <1>1, <2>1 DEF Prefix
<1> QED
  BY <1>2, <1>3 DEF Prefix

(* The bytes of a response. *)
LEMMA BytesOf ==
  ASSUME NEW k, NEW s \in Shapes
  PROVE  /\ Size(s) \in Nat /\ s.head \in Nat \ {0} /\ s.body \in Nat
         /\ Bytes(k, s) \in Seq({k} \X Nat) /\ Len(Bytes(k, s)) = Size(s)
         /\ \A i \in 1 .. Size(s) : Bytes(k, s)[i] = <<k, i>>
<1>1. s.head \in Nat \ {0} /\ s.body \in Nat /\ SepLen \in Nat
  BY ClientAssumption
<1>2. Size(s) \in Nat
  BY <1>1 DEF Size
<1>3. Bytes(k, s) \in [1 .. Size(s) -> {k} \X Nat]
  BY <1>2 DEF Bytes
<1>4. Bytes(k, s) \in Seq({k} \X Nat)
  BY <1>2, <1>3, SeqDef
<1>5. Len(Bytes(k, s)) = Size(s)
  <2>1. DOMAIN Bytes(k, s) = 1 .. Size(s) /\ DOMAIN Bytes(k, s) = 1 .. Len(Bytes(k, s))
        /\ Len(Bytes(k, s)) \in Nat
    BY <1>3, <1>4, LenProperties
  <2> QED
    BY <1>2, <2>1
<1> QED
  BY <1>1, <1>2, <1>4, <1>5 DEF Bytes

-----------------------------------------------------------------------------
(* Types.                                                                  *)

LEMMA TypeInit == Init => TypeInv
<1> SUFFICES ASSUME Init PROVE TypeInv
  OBVIOUS
<1> USE ClientAssumption
<1>1. <<>> \in Seq(Byte) /\ <<>> \in Seq(Shapes) /\ Len(<<>>) = 0
  BY EmptySeq
<1>2. TypeOK
  <2>1. /\ shape \in Seq(Shapes) /\ pending \in Seq(Byte) /\ inbox \in Seq(Byte)
        /\ chunk \in Seq(Byte) /\ header \in Seq(Byte) /\ body \in Seq(Byte)
    BY <1>1 DEF Init
  <2>2. Len(body) <= MaxBufLen
    BY <1>1 DEF Init
  <2>3. /\ peer = "open" /\ got \in Nat /\ requests \in 0 .. MaxRequests
        /\ pc = "connect" /\ left \in 0 .. RequestLen + 1 /\ bodyLen \in Nat
        /\ ret = "none" /\ errorSeen = FALSE /\ clean = TRUE /\ smooth = TRUE
    BY DEF Init
  <2> QED
    BY <2>1, <2>2, <2>3 DEF TypeOK
<1>3. BufferInv /\ ErrorInv
  BY DEF Init, BufferInv, ErrorInv
<1> QED
  BY <1>2, <1>3 DEF TypeInv

LEMMA RespondTypes ==
  ASSUME TypeInv, NEW s \in Shapes, Respond(s)
  PROVE  TypeInv'
<1> USE ClientAssumption
<1>1. shape' \in Seq(Shapes) /\ Len(shape') = Len(shape) + 1 /\ Len(shape) \in Nat
  BY AppendProperties, LenProperties DEF TypeInv, TypeOK, Respond
<1>2. Byte \subseteq Byte' /\ {Len(shape) + 1} \X Nat \subseteq Byte'
  BY <1>1 DEF Byte
<1>3. /\ pending \in Seq(Byte') /\ inbox \in Seq(Byte') /\ chunk \in Seq(Byte')
      /\ header \in Seq(Byte') /\ body \in Seq(Byte')
  BY <1>2, SeqMonotonic DEF TypeInv, TypeOK
<1>4. Bytes(Len(shape) + 1, s) \in Seq(Byte')
  BY <1>2, BytesOf, SeqMonotonic
<1>5. pending' \in Seq(Byte')
  BY <1>3, <1>4, ConcatProperties DEF Respond
<1>6. TypeOK'
  BY <1>1, <1>3, <1>5 DEF TypeInv, TypeOK, Respond, buffers, history
<1>7. BufferInv' /\ ErrorInv'
  BY DEF TypeInv, BufferInv, ErrorInv, Respond, buffers
<1> QED
  BY <1>6, <1>7 DEF TypeInv

LEMMA ServerTypes ==
  ASSUME TypeInv, ServerStep
  PROVE  TypeInv'
<1> USE ClientAssumption
<1>1. CASE \E s \in Shapes : Respond(s)
  BY <1>1, RespondTypes
<1>2. ASSUME NEW n \in 1 .. Len(pending), Deliver(n) PROVE TypeInv'
  <2>1. Byte' = Byte
    BY <1>2 DEF Deliver, Byte
  <2>2. Len(pending) \in Nat /\ n \in Nat /\ n <= Len(pending)
    BY LenProperties DEF TypeInv, TypeOK
  <2>3. SubSeq(pending, 1, n) \in Seq(Byte) /\ Rest(pending, n) \in Seq(Byte)
    BY <2>2, Cut DEF TypeInv, TypeOK
  <2>4. inbox' \in Seq(Byte) /\ pending' \in Seq(Byte)
    BY <1>2, <2>3, ConcatProperties DEF Deliver, TypeInv, TypeOK
  <2>5. TypeOK'
    BY <1>2, <2>1, <2>4 DEF TypeInv, TypeOK, Deliver, buffers, history
  <2>6. BufferInv' /\ ErrorInv'
    BY <1>2 DEF TypeInv, BufferInv, ErrorInv, Deliver, buffers
  <2> QED
    BY <2>5, <2>6 DEF TypeInv
<1>3. CASE Close \/ Reset
  <2>1. Byte' = Byte
    BY <1>3 DEF Close, Reset, Byte
  <2>2. pending' \in Seq(Byte)
    BY <1>3, EmptySeq DEF Close, Reset
  <2>3. TypeOK'
    BY <1>3, <2>1, <2>2 DEF TypeInv, TypeOK, Close, Reset, buffers, history
  <2>4. BufferInv' /\ ErrorInv'
    BY <1>3 DEF TypeInv, TypeOK, BufferInv, ErrorInv, Close, Reset, buffers
  <2> QED
    BY <2>3, <2>4 DEF TypeInv
<1> QED
  BY <1>1, <1>2, <1>3 DEF ServerStep

LEMMA LoopTypes ==
  ASSUME TypeInv, ConnectServer \/ SendRequest \/ Disconnect
  PROVE  TypeInv'
<1> USE ClientAssumption
<1>1. Byte' = Byte
  BY DEF ConnectServer, SendRequest, Disconnect, Byte, server
<1>2. CASE ConnectServer
  BY <1>1, <1>2 DEF TypeInv, TypeOK, BufferInv, ErrorInv, ConnectServer, buffers, history
<1>3. CASE SendRequest
  <2>1. <<>> \in Seq(Byte) /\ Len(<<>>) = 0
    BY EmptySeq
  <2>2. TypeOK'
    BY <1>1, <1>3, <2>1 DEF TypeInv, TypeOK, SendRequest, server
  <2> QED
    BY <1>3, <2>2 DEF TypeInv, TypeOK, BufferInv, ErrorInv, SendRequest, server
<1>4. CASE Disconnect
  BY <1>1, <1>4 DEF TypeInv, TypeOK, BufferInv, ErrorInv, Disconnect, server, buffers,
     history
<1> QED
  BY <1>2, <1>3, <1>4

LEMMA SendTypes ==
  ASSUME TypeInv, Send
  PROVE  TypeInv'
<1> USE ClientAssumption
<1>1. Byte' = Byte
  BY DEF Send, Write, WriteFails, WriteKills, WriteTimesOut, SendReturns, Byte, server
<1>2. ASSUME NEW n \in 1 .. left, Write(n) PROVE TypeInv'
  <2>1. got' \in Nat /\ left' \in Nat /\ left' <= left /\ peer' \in {"open", "closed", "reset"}
    BY <1>2 DEF Write, TypeInv, TypeOK
  <2>2. TypeOK'
    BY <1>1, <1>2, <2>1 DEF TypeInv, TypeOK, Write, buffers, history
  <2> QED
    BY <1>2, <2>1, <2>2 DEF TypeInv, TypeOK, BufferInv, ErrorInv, Write, buffers
<1>3. CASE WriteFails
  BY <1>1, <1>3 DEF TypeInv, TypeOK, BufferInv, ErrorInv, WriteFails, server, buffers,
     history
<1>4. CASE WriteKills
  BY <1>1, <1>4 DEF TypeInv, TypeOK, BufferInv, ErrorInv, WriteKills, server, buffers,
     history
<1>5. CASE WriteTimesOut
  <2>1. chunk' = <<>> /\ Len(<<>>) = 0 /\ ReadBufSize > 0
    BY <1>5, EmptySeq DEF TypeInv, BufferInv, WriteTimesOut, buffers
  <2> QED
    BY <1>1, <1>5, <2>1 DEF TypeInv, TypeOK, BufferInv, ErrorInv, WriteTimesOut, server,
       buffers
<1>6. CASE SendReturns
  <2>1. chunk' = <<>> /\ Len(<<>>) = 0 /\ ReadBufSize > 0
    BY <1>6, EmptySeq DEF TypeInv, BufferInv, SendReturns, buffers
  <2> QED
    BY <1>1, <1>6, <2>1 DEF TypeInv, TypeOK, BufferInv, ErrorInv, SendReturns, server,
       buffers, history
<1> QED
  BY <1>2, <1>3, <1>4, <1>5, <1>6 DEF Send

LEMMA RecvTypes ==
  ASSUME TypeInv, Recv
  PROVE  TypeInv'
<1> USE ClientAssumption
<1>1. Byte' = Byte
  BY DEF Recv, ReadHeader, ReadHeaderCut, NoHeader, NextPiece, HeaderEnds, TakeLength,
     TakeChunked, TakeNothing, ReadBody, ReadBodyCut, Byte, server
<1>2. /\ Len(chunk) \in Nat /\ Len(inbox) \in Nat /\ Len(body) \in Nat
      /\ inbox # <<>> => Len(inbox) > 0
      /\ Len(<<>>) = 0
  BY LenProperties, EmptySeq DEF TypeInv, TypeOK
<1>3. CASE ReadHeader
  <2> DEFINE n == Least(ReadBufSize - Len(chunk), Len(inbox))
  <2>1. n \in Nat /\ n <= Len(inbox) /\ n <= ReadBufSize - Len(chunk)
    BY <1>2, <1>3 DEF ReadHeader, Least, TypeInv, BufferInv
  <2>2. /\ chunk' = chunk \o SubSeq(inbox, 1, n) /\ inbox' = Rest(inbox, n)
        /\ pc' = IF Len(chunk) + n = ReadBufSize THEN "search" ELSE "header"
    BY <1>3 DEF ReadHeader
  <2>7. Len(chunk) + n # ReadBufSize => Len(chunk) + n < ReadBufSize
    BY <1>2, <2>1
  <2> HIDE DEF n
  <2>3. /\ SubSeq(inbox, 1, n) \in Seq(Byte) /\ Len(SubSeq(inbox, 1, n)) = n
        /\ Rest(inbox, n) \in Seq(Byte)
    BY <2>1, Cut DEF TypeInv, TypeOK
  <2>4. chunk' \in Seq(Byte) /\ Len(chunk') = Len(chunk) + n /\ inbox' \in Seq(Byte)
    BY <2>2, <2>3, ConcatProperties DEF TypeInv, TypeOK
  <2>5. TypeOK'
    BY <1>1, <1>3, <2>2, <2>4 DEF TypeInv, TypeOK, ReadHeader, server, history
  <2>6. BufferInv'
    <3>1. pc' \in {"search", "header"}
      BY <2>2
    <3>2. Len(chunk') <= ReadBufSize
      BY <1>2, <2>1, <2>4
    <3>3. pc' = "header" => Len(chunk) + n # ReadBufSize
      BY <2>2
    <3>4. pc' = "header" => Len(chunk') < ReadBufSize
      BY <2>4, <2>7, <3>3
    <3> QED
      BY <3>1, <3>2, <3>4 DEF BufferInv
  <2>8. ErrorInv'
    BY <1>3 DEF TypeInv, ErrorInv, ReadHeader, server
  <2> QED
    BY <2>5, <2>6, <2>8 DEF TypeInv
<1>4. CASE ReadHeaderCut
  <2>1. TypeOK'
    BY <1>1, <1>4 DEF TypeInv, TypeOK, ReadHeaderCut, ReadFails, server, buffers
  <2>2. BufferInv'
    BY <1>2, <1>4 DEF TypeInv, BufferInv, ReadHeaderCut, buffers
  <2>3. ErrorInv'
    BY <1>4 DEF TypeInv, TypeOK, ErrorInv, ReadHeaderCut, ReadFails, server
  <2> QED
    BY <2>1, <2>2, <2>3 DEF TypeInv
<1>5. CASE NoHeader
  BY <1>1, <1>5 DEF TypeInv, TypeOK, BufferInv, ErrorInv, NoHeader, Return, server, buffers
<1>6. CASE NextPiece
  <2>1. header' \in Seq(Byte) /\ chunk' \in Seq(Byte)
    BY <1>6, ConcatProperties, EmptySeq DEF NextPiece, TypeInv, TypeOK
  <2>2. TypeOK'
    BY <1>1, <1>6, <2>1 DEF TypeInv, TypeOK, NextPiece, server, history
  <2>3. BufferInv' /\ ErrorInv'
    BY <1>2, <1>6 DEF TypeInv, TypeOK, BufferInv, ErrorInv, NextPiece, server
  <2> QED
    BY <2>2, <2>3 DEF TypeInv
<1>7. CASE HeaderEnds
  <2>1. PICK e \in Ends(chunk) :
          header' = header \o SubSeq(chunk, 1, e) /\ chunk' = Rest(chunk, e)
    BY <1>7 DEF HeaderEnds
  <2>2. e \in Nat /\ SepLen <= e /\ e <= Len(chunk)
    BY <1>2 DEF Ends, SepEndsAt
  <2>3. /\ SubSeq(chunk, 1, e) \in Seq(Byte) /\ Rest(chunk, e) \in Seq(Byte)
        /\ Len(Rest(chunk, e)) = Len(chunk) - e
    BY <2>2, Cut DEF TypeInv, TypeOK
  <2>4. header' \in Seq(Byte) /\ chunk' \in Seq(Byte)
    BY <2>1, <2>3, ConcatProperties DEF TypeInv, TypeOK
  <2>5. TypeOK'
    BY <1>1, <1>7, <2>4 DEF TypeInv, TypeOK, HeaderEnds, server, history
  <2>6. BufferInv' /\ ErrorInv'
    BY <1>2, <1>7, <2>1, <2>2, <2>3 DEF TypeInv, BufferInv, ErrorInv, HeaderEnds, server
  <2> QED
    BY <2>5, <2>6 DEF TypeInv
<1>8. CASE TakeLength
  <2>1. PICK k \in Named(header, "length") :
          /\ bodyLen' = shape[k].body
          /\ \/ /\ shape[k].body > MaxBufLen
                /\ Return("noBuffer")
                /\ UNCHANGED body
             \/ /\ shape[k].body <= MaxBufLen
                /\ body' = chunk
                /\ IF shape[k].body <= Len(chunk) THEN Return("timeout")
                   ELSE pc' = "body" /\ UNCHANGED <<ret, clean>>
    BY <1>8 DEF TakeLength
  <2>2. shape[k].body \in Nat
    BY ElementOfSeq DEF Named, TypeInv, TypeOK
  <2>3. /\ body' \in Seq(Byte) /\ Len(body') <= MaxBufLen /\ bodyLen' \in Nat
        /\ ret' \in {"none", "ok", "timeout", "invalid", "noBuffer"}
        /\ clean' \in BOOLEAN /\ pc' \in {"idle", "body"}
        /\ pc' = "body" => bodyLen' <= MaxBufLen /\ Len(body') < bodyLen'
    <3>1. CASE shape[k].body > MaxBufLen
      <4>1. Return("noBuffer") /\ body' = body
        BY <2>1, <2>2, <3>1
      <4> QED
        BY <2>1, <2>2, <4>1 DEF Return, TypeInv, TypeOK
    <3>2. CASE shape[k].body <= MaxBufLen
      <4>1. /\ body' = chunk
            /\ Return("timeout")
               \/ /\ Len(chunk) < shape[k].body /\ pc' = "body"
                  /\ UNCHANGED <<ret, clean>>
        BY <1>2, <2>1, <2>2, <3>2
      <4>2. chunk \in Seq(Byte) /\ Len(chunk) <= MaxBufLen
        BY <1>2, <1>8 DEF TypeInv, TypeOK, BufferInv, TakeLength
      <4>3. CASE Return("timeout")
        BY <2>1, <2>2, <4>1, <4>2, <4>3 DEF Return, TypeInv, TypeOK
      <4>4. CASE Len(chunk) < shape[k].body /\ pc' = "body" /\ UNCHANGED <<ret, clean>>
        BY <2>1, <2>2, <3>2, <4>1, <4>2, <4>4 DEF TypeInv, TypeOK
      <4> QED
        BY <4>1, <4>3, <4>4
    <3> QED
      BY <2>2, <3>1, <3>2
  <2>4. TypeOK'
    BY <1>1, <1>8, <2>3 DEF TypeInv, TypeOK, TakeLength, server
  <2>5. BufferInv' /\ ErrorInv'
    BY <1>8, <2>3 DEF TypeInv, BufferInv, ErrorInv, TakeLength, server
  <2> QED
    BY <2>4, <2>5 DEF TypeInv
<1>9. CASE TakeChunked
  BY <1>1, <1>9 DEF TypeInv, TypeOK, BufferInv, ErrorInv, TakeChunked, server, buffers,
     history
<1>10. CASE TakeNothing
  BY <1>1, <1>10 DEF TypeInv, TypeOK, BufferInv, ErrorInv, TakeNothing, Return, server,
     buffers
<1>11. CASE ReadBody
  <2> DEFINE n == Least(Least(bodyLen - Len(body), ReadBufSize), Len(inbox))
  <2>1. n \in Nat /\ n <= Len(inbox) /\ n <= bodyLen - Len(body) /\ bodyLen <= MaxBufLen
    BY <1>2, <1>11 DEF ReadBody, Least, TypeInv, TypeOK, BufferInv
  <2>2. /\ body' = body \o SubSeq(inbox, 1, n) /\ inbox' = Rest(inbox, n)
        /\ bodyLen' = bodyLen /\ pc = "body"
        /\ IF Len(body) + n = bodyLen THEN Return("ok") ELSE UNCHANGED <<pc, ret, clean>>
    BY <1>11 DEF ReadBody
  <2> HIDE DEF n
  <2>3. /\ SubSeq(inbox, 1, n) \in Seq(Byte) /\ Len(SubSeq(inbox, 1, n)) = n
        /\ Rest(inbox, n) \in Seq(Byte)
    BY <2>1, Cut DEF TypeInv, TypeOK
  <2>4. body' \in Seq(Byte) /\ Len(body') = Len(body) + n /\ inbox' \in Seq(Byte)
    BY <2>2, <2>3, ConcatProperties DEF TypeInv, TypeOK
  <2>5. /\ Len(body') <= MaxBufLen /\ pc' \in {"idle", "body"}
        /\ pc' = "body" => Len(body') < bodyLen'
        /\ ret' \in {"none", "ok", "timeout", "invalid", "noBuffer"} /\ clean' \in BOOLEAN
    <3>1. Len(body') <= MaxBufLen
      BY <1>2, <2>1, <2>4 DEF TypeInv, TypeOK
    <3>2. CASE Len(body) + n = bodyLen
      BY <2>2, <3>1, <3>2 DEF Return, TypeInv, TypeOK
    <3>3. CASE Len(body) + n # bodyLen
      <4>1. Len(body') < bodyLen'
        <5>1. Len(body) + n < bodyLen
          <6>1. bodyLen \in Nat
            BY DEF TypeInv, TypeOK
          <6> QED
            BY <1>2, <2>1, <3>3, <6>1
        <5> QED
          BY <2>2, <2>4, <5>1
      <4> QED
        BY <2>2, <3>1, <3>3, <4>1 DEF TypeInv, TypeOK
    <3> QED
      BY <3>2, <3>3
  <2>6. TypeOK'
    BY <1>1, <1>11, <2>2, <2>4, <2>5 DEF TypeInv, TypeOK, ReadBody, server
  <2>7. BufferInv' /\ ErrorInv'
    BY <1>11, <2>1, <2>2, <2>5 DEF TypeInv, BufferInv, ErrorInv, ReadBody, server
  <2> QED
    BY <2>6, <2>7 DEF TypeInv
<1>12. CASE ReadBodyCut
  BY <1>1, <1>12 DEF TypeInv, TypeOK, BufferInv, ErrorInv, ReadBodyCut, ReadFails, Return,
     server, buffers
<1> QED
  BY <1>3, <1>4, <1>5, <1>6, <1>7, <1>8, <1>9, <1>10, <1>11, <1>12 DEF Recv

LEMMA TypeStep == TypeInv /\ [Next]_vars => TypeInv'
<1> SUFFICES ASSUME TypeInv, [Next]_vars PROVE TypeInv'
  OBVIOUS
<1>1. CASE Next
  <2>1. CASE Ended
    BY <2>1 DEF Ended, vars, server, buffers, history, TypeInv, TypeOK, BufferInv, ErrorInv,
       Byte
  <2> QED
    BY <1>1, <2>1, ServerTypes, LoopTypes, SendTypes, RecvTypes DEF Next
<1>2. CASE UNCHANGED vars
  BY <1>2 DEF vars, server, buffers, history, TypeInv, TypeOK, BufferInv, ErrorInv, Byte
<1> QED
  BY <1>1, <1>2

(* Every variable has its type, and no call writes beyond max_buf_len,       *)
(* whatever the server sends: of the bytes after the header there are at     *)
(* most READ_BUF_SIZE less the empty line.                                   *)
THEOREM TypeCorrect == Spec => []TypeOK
<1>1. TypeInv => TypeOK
  BY DEF TypeInv
<1> QED
  BY <1>1, TypeInit, TypeStep, PTL DEF Spec

-----------------------------------------------------------------------------
(* The stream.                                                             *)

LEMMA StreamParts ==
  ASSUME TypeOK
  PROVE  /\ Len(header) \in Nat /\ Len(chunk) \in Nat /\ Len(body) \in Nat
         /\ Len(inbox) \in Nat /\ Len(pending) \in Nat
         /\ Taken \in Seq(Byte) /\ inbox \o pending \in Seq(Byte) /\ Stream \in Seq(Byte)
         /\ Len(Taken) = Len(header)
              + (IF pc \in {"body", "idle"} THEN Len(body) ELSE Len(chunk))
         /\ Len(Stream) = Len(Taken) + (Len(inbox) + Len(pending))
<1>1. /\ Len(header) \in Nat /\ Len(chunk) \in Nat /\ Len(body) \in Nat
      /\ Len(inbox) \in Nat /\ Len(pending) \in Nat
  BY LenProperties DEF TypeOK
<1>2. /\ Taken \in Seq(Byte)
      /\ Len(Taken) = Len(header) + (IF pc \in {"body", "idle"} THEN Len(body) ELSE Len(chunk))
  <2>1. CASE pc \in {"body", "idle"}
    <3>1. Taken = header \o body
      BY <2>1 DEF Taken
    <3> QED
      BY <2>1, <3>1, ConcatProperties DEF TypeOK
  <2>2. CASE pc \notin {"body", "idle"}
    <3>1. Taken = header \o chunk
      BY <2>2 DEF Taken
    <3> QED
      BY <2>2, <3>1, ConcatProperties DEF TypeOK
  <2> QED
    BY <2>1, <2>2
<1>3. inbox \o pending \in Seq(Byte) /\ Len(inbox \o pending) = Len(inbox) + Len(pending)
  BY ConcatProperties DEF TypeOK
<1>4. Stream \in Seq(Byte) /\ Len(Stream) = Len(Taken) + Len(inbox \o pending)
  <2> DEFINE r == inbox \o pending
  <2>1. r \in Seq(Byte)
    BY <1>3
  <2> HIDE DEF r
  <2>2. Taken \o r \in Seq(Byte) /\ Len(Taken \o r) = Len(Taken) + Len(r)
    BY <1>2, <2>1, ConcatProperties
  <2> QED
    BY <2>2, Zenon DEF Stream, r
<1> QED
  BY <1>1, <1>2, <1>3, <1>4

LEMMA DueParts ==
  ASSUME TypeOK
  PROVE  /\ Len(Due) \in Nat
         /\ requests > 0 /\ Len(shape) = requests =>
              /\ shape[requests] \in Shapes
              /\ Len(Due) = Size(shape[requests])
              /\ \A i \in 1 .. Len(Due) : Due[i] = <<requests, i>>
         /\ ~(requests > 0 /\ Len(shape) = requests) => Len(Due) = 0
<1>1. CASE requests > 0 /\ Len(shape) = requests
  <2>1. shape[requests] \in Shapes
    <3>1. requests \in 1 .. Len(shape)
      BY <1>1, ClientAssumption DEF TypeOK
    <3> QED
      BY <3>1, ElementOfSeq DEF TypeOK
  <2>2. Due = Bytes(requests, shape[requests])
    BY <1>1 DEF Due
  <2> QED
    BY <1>1, <2>1, <2>2, BytesOf
<1>2. CASE ~(requests > 0 /\ Len(shape) = requests)
  <2>1. Due = <<>> /\ Len(<<>>) = 0
    BY <1>2, EmptySeq DEF Due
  <2> QED
    BY <1>2, <2>1
<1> QED
  BY <1>1, <1>2

(* What the client has taken is a part of the response. *)
LEMMA TakenIsDue ==
  ASSUME TypeOK, Prefix(Stream, Due)
  PROVE  Prefix(Taken, Due) /\ Prefix(header, Due)
<1>1. Prefix(Taken, Due)
  BY StreamParts, DueParts, PrefixOfPart DEF Stream
<1>2. Prefix(header, Due)
  <2>1. CASE pc \in {"body", "idle"}
    <3>1. Taken = header \o body
      BY <2>1 DEF Taken
    <3> QED
      BY <1>1, <3>1, DueParts, PrefixOfPart DEF TypeOK
  <2>2. CASE pc \notin {"body", "idle"}
    <3>1. Taken = header \o chunk
      BY <2>2 DEF Taken
    <3> QED
      BY <1>1, <3>1, DueParts, PrefixOfPart DEF TypeOK
  <2> QED
    BY <2>1, <2>2
<1> QED
  BY <1>1, <1>2

LEMMA StreamInit == Init => StreamInv
<1> SUFFICES ASSUME Init PROVE StreamInv
  OBVIOUS
<1> USE ClientAssumption
<1>1. Len(<<>>) = 0
  BY EmptySeq
<1>2. RoundInv
  BY <1>1 DEF Init, RoundInv
<1>3. PlaceInv
  BY DEF Init, PlaceInv
<1>4. Prefix(Stream, Due)
  <2>1. TypeOK
    BY TypeInit DEF TypeInv
  <2>2. Len(Stream) = 0
    BY <1>1, <2>1, StreamParts DEF Init
  <2>3. Len(Due) \in Nat
    BY <2>1, DueParts
  <2> QED
    BY <2>2, <2>3 DEF Prefix
<1> QED
  BY <1>2, <1>3, <1>4 DEF StreamInv

(* A step that leaves the stream and the response alone. *)
LEMMA StreamAlone ==
  ASSUME Prefix(Stream, Due), Stream' = Stream, UNCHANGED <<shape, requests>>
  PROVE  Prefix(Stream, Due)'
<1>1. Due' = Due
  BY DEF Due, Bytes, Size
<1> QED
  BY <1>1 DEF Prefix

LEMMA RespondStream ==
  ASSUME TypeInv, TypeInv', StreamInv, Live', NEW s \in Shapes, Respond(s)
  PROVE  RoundInv' /\ PlaceInv' /\ Prefix(Stream, Due)'
<1> USE ClientAssumption
<1>1. TypeOK /\ RoundInv /\ PlaceInv /\ Prefix(Stream, Due)
  BY DEF StreamInv, Live, Respond, history, TypeInv
<1>2. /\ Len(shape) \in Nat /\ Len(shape') = Len(shape) + 1
      /\ shape'[Len(shape) + 1] = s
  BY <1>1, AppendProperties, LenProperties DEF TypeOK, Respond
<1>3. Len(shape) = requests - 1
  <2>1. got >= (Len(shape) + 1) * RequestLen /\ got <= requests * RequestLen
    BY <1>1 DEF Respond, RoundInv, TypeOK
  <2>2. ASSUME Len(shape) = requests PROVE FALSE
    <3>1. (requests + 1) * RequestLen = requests * RequestLen + RequestLen
      BY <1>1 DEF TypeOK
    <3>2. requests * RequestLen \in Nat
      BY <1>1 DEF TypeOK
    <3> QED
      BY <1>1, <2>1, <2>2, <3>1, <3>2 DEF TypeOK
  <2> QED
    BY <1>1, <2>2 DEF RoundInv
<1>4. pc \in {"send", "header", "search"}
  <2>1. Len(shape) # requests
    BY <1>1, <1>2, <1>3 DEF TypeOK
  <2>2. pc \notin {"connect", "idle", "fields", "body"}
    BY <1>1, <2>1 DEF RoundInv, PlaceInv
  <2>3. pc \notin {"ended", "dead"}
    BY DEF Live, Respond
  <2> QED
    BY <1>1, <2>2, <2>3 DEF TypeOK
<1>5. Len(header) = 0 /\ Len(chunk) = 0 /\ Len(inbox) = 0 /\ Len(pending) = 0
  <2>1. Len(Due) = 0
    BY <1>1, <1>2, <1>3, DueParts DEF TypeOK
  <2> QED
    BY <1>1, <1>4, <2>1, StreamParts DEF Prefix
<1>6. RoundInv' /\ PlaceInv'
  <2>1. /\ pc' = pc /\ requests' = requests /\ peer' = peer /\ got' = got
        /\ left' = left /\ requests \in Nat
    BY <1>1 DEF Respond, TypeOK
  <2>2. Len(shape') = requests
    BY <1>2, <1>3, <2>1
  <2>3. RoundInv'
    BY <1>1, <1>4, <2>1, <2>2 DEF RoundInv
  <2>4. PlaceInv'
    BY <1>4, <2>1 DEF PlaceInv
  <2> QED
    BY <2>3, <2>4
<1>7. Prefix(Stream, Due)'
  <2>1. /\ header' = <<>> /\ chunk' = <<>> /\ inbox' = <<>> /\ pending = <<>>
        /\ pc' = pc /\ pending' = pending \o Bytes(Len(shape) + 1, s)
    BY <1>1, <1>5, EmptySeq DEF TypeOK, Respond, buffers
  <2>2. Bytes(requests, s) \in Seq({requests} \X Nat) /\ Len(shape) + 1 = requests
    <3>1. Bytes(requests, s) \in Seq({requests} \X Nat)
      BY BytesOf
    <3> QED
      BY <1>1, <1>3, <3>1 DEF TypeOK
  <2>3. /\ <<>> \o Bytes(requests, s) = Bytes(requests, s)
        /\ <<>> \o <<>> = <<>>
    BY <2>2, ConcatEmptySeq, EmptySeq
  <2>4. Taken' = <<>>
    BY <1>4, <2>1, <2>3 DEF Taken
  <2>5. Stream' = Bytes(requests, s)
    BY <2>1, <2>2, <2>3, <2>4, Zenon DEF Stream
  <2>6. Due' = Bytes(requests, s)
    <3>1. requests' = requests /\ requests > 0 /\ Len(shape') = requests
      BY <1>1, <1>2, <1>3 DEF Respond, TypeOK
    <3>2. shape'[requests] = s
      BY <1>2, <2>2
    <3> QED
      BY <3>1, <3>2 DEF Due, Bytes, Size
  <2>7. Len(Bytes(requests, s)) \in Nat
    BY BytesOf
  <2> QED
    BY <2>5, <2>6, <2>7 DEF Prefix
<1> QED
  BY <1>6, <1>7

LEMMA ServerStream ==
  ASSUME TypeInv, TypeInv', StreamInv, Live', ServerStep
  PROVE  RoundInv' /\ PlaceInv' /\ Prefix(Stream, Due)'
<1> USE ClientAssumption
<1>1. CASE \E s \in Shapes : Respond(s)
  BY <1>1, RespondStream
<1>2. ASSUME NEW n \in 1 .. Len(pending), Deliver(n)
      PROVE  RoundInv' /\ PlaceInv' /\ Prefix(Stream, Due)'
  <2>1. TypeOK /\ RoundInv /\ PlaceInv /\ Prefix(Stream, Due)
    BY <1>2 DEF StreamInv, Live, Deliver, history, TypeInv
  <2>2. n \in Nat /\ n <= Len(pending)
    BY <2>1, LenProperties DEF TypeOK
  <2>3. (inbox \o SubSeq(pending, 1, n)) \o Rest(pending, n) = inbox \o pending
    <3>1. inbox \in Seq(Byte) /\ pending \in Seq(Byte)
      BY <2>1 DEF TypeOK
    <3>2. Followed(inbox \o SubSeq(pending, 1, n), Rest(pending, n)) = Followed(inbox, pending)
      BY <2>2, <3>1, Moved
    <3> QED
      BY <3>2, Zenon DEF Followed
  <2>4. inbox' \o pending' = inbox \o pending
    BY <1>2, <2>3, Zenon DEF Deliver
  <2>5. Taken' = Taken
    BY <1>2 DEF Deliver, buffers, Taken
  <2>6. Stream' = Stream
    BY <2>4, <2>5, Zenon DEF Stream
  <2>7. Prefix(Stream, Due)'
    BY <1>2, <2>1, <2>6, StreamAlone DEF Deliver
  <2> QED
    BY <1>2, <2>1, <2>7 DEF Deliver, RoundInv, PlaceInv, buffers
<1>3. CASE Close \/ Reset
  <2>1. TypeOK /\ RoundInv /\ PlaceInv /\ Prefix(Stream, Due)
    BY <1>3 DEF StreamInv, Live, Close, Reset, history, TypeInv
  <2>2. RoundInv' /\ PlaceInv'
    BY <1>3, <2>1 DEF Close, Reset, RoundInv, PlaceInv, buffers
  <2>3. pending' = <<>> /\ inbox' = inbox /\ Taken' = Taken
    BY <1>3 DEF Close, Reset, buffers, Taken
  <2>4. inbox \o <<>> = inbox
    BY <2>1, ConcatEmptySeq DEF TypeOK
  <2>5. Stream' = Taken \o inbox
    BY <2>3, <2>4, Zenon DEF Stream
  <2>6. Taken \in Seq(Byte) /\ inbox \in Seq(Byte) /\ pending \in Seq(Byte)
    BY <2>1, StreamParts DEF TypeOK
  <2>7. (Taken \o inbox) \o pending = Taken \o (inbox \o pending)
    BY <2>6, ConcatAssociative
  <2>8. Prefix((Taken \o inbox) \o pending, Due)
    BY <2>1, <2>7, Zenon DEF Stream
  <2>9. Taken \o inbox \in Seq(Byte)
    BY <2>6, ConcatProperties
  <2>10. Prefix(Taken \o inbox, Due)
    BY <2>1, <2>6, <2>8, <2>9, DueParts, PrefixOfPart
  <2>11. Due' = Due
    BY <1>3 DEF Close, Reset, Due, Bytes, Size
  <2> QED
    BY <2>2, <2>5, <2>10, <2>11 DEF Prefix
<1> QED
  BY <1>1, <1>2, <1>3 DEF ServerStep

LEMMA LoopStream ==
  ASSUME TypeInv, TypeInv', StreamInv, Live', ConnectServer \/ SendRequest \/ Disconnect
  PROVE  RoundInv' /\ PlaceInv' /\ Prefix(Stream, Due)'
<1> USE ClientAssumption
<1>1. TypeOK /\ TypeOK'
  BY DEF TypeInv
<1>2. CASE ConnectServer
  <2>1. RoundInv /\ Prefix(Stream, Due)
    BY <1>2 DEF StreamInv, Live, ConnectServer, history
  <2>2. RoundInv' /\ PlaceInv'
    BY <1>2, <2>1 DEF ConnectServer, RoundInv, PlaceInv, buffers
  <2>3. chunk = body /\ pc = "connect"
    BY <1>2, <2>1 DEF ConnectServer, RoundInv
  <2>4. Taken' = Taken
    BY <1>2, <2>3 DEF ConnectServer, Taken, buffers
  <2>5. Stream' = Stream
    BY <1>2, <2>4 DEF ConnectServer, Stream
  <2> QED
    BY <1>2, <2>1, <2>2, <2>5, StreamAlone DEF ConnectServer
<1>3. CASE SendRequest
  <2>1. RoundInv /\ PlaceInv /\ Prefix(Stream, Due) /\ pc = "idle"
    BY <1>3 DEF StreamInv, Live, SendRequest
  <2>2. /\ requests \in Nat /\ requests' = requests + 1 /\ left' = RequestLen
        /\ pc' = "send" /\ peer' = peer /\ got' = got /\ got \in Nat /\ shape' = shape
        /\ header' = <<>> /\ chunk' = <<>> /\ inbox' = inbox /\ pending' = pending
    BY <1>1, <1>3 DEF SendRequest, server, TypeOK
  <2>3. Len(shape) = requests
    BY <2>1 DEF RoundInv
  <2>4. RoundInv'
    <3>1. peer = "open" => got = requests * RequestLen
      BY <2>1, <2>2 DEF RoundInv
    <3>2. (requests + 1) * RequestLen = requests * RequestLen + RequestLen
      BY <2>2
    <3>3. peer' = "open" => got' + left' = requests' * RequestLen
      BY <2>2, <3>1, <3>2
    <3>4. Len(shape') = requests' - 1
      BY <2>2, <2>3
    <3> QED
      BY <2>2, <3>3, <3>4 DEF RoundInv
  <2>5. PlaceInv'
    BY <2>2 DEF PlaceInv
  <2>6. Len(inbox) = 0 /\ Len(pending) = 0
    <3>1. CASE requests = 0
      <4>1. Len(Due) = 0
        BY <1>1, <3>1, DueParts
      <4> QED
        BY <1>1, <2>1, <4>1, StreamParts DEF Prefix
    <3>2. CASE requests > 0
      <4>1. shape[requests] \in Shapes /\ Len(Due) = Size(shape[requests])
        BY <1>1, <2>3, <3>2, DueParts
      <4>2. /\ Len(header) = shape[requests].head + SepLen
            /\ Len(body) = shape[requests].body
        BY <2>1, <3>2 DEF PlaceInv
      <4>3. Len(Due) = Len(header) + Len(body)
        BY <4>1, <4>2 DEF Size
      <4>4. Len(Taken) = Len(header) + Len(body)
        BY <1>1, <2>1, StreamParts
      <4> QED
        BY <1>1, <2>1, <4>3, <4>4, StreamParts DEF Prefix
    <3> QED
      BY <2>2, <3>1, <3>2
  <2>7. Prefix(Stream, Due)'
    <3>1. Len(Stream') = 0
      <4>1. Len(<<>>) = 0
        BY EmptySeq
      <4>2. (/\ Len(Taken) = Len(header)
                  + (IF pc \in {"body", "idle"} THEN Len(body) ELSE Len(chunk))
             /\ Len(Stream) = Len(Taken) + (Len(inbox) + Len(pending)))'
        <5>1. TypeOK'
          BY <1>1
        <5> QED
          BY <5>1, StreamParts, PTL
      <4> QED
        BY <2>2, <2>6, <4>1, <4>2
    <3>2. Len(Due') \in Nat
      <4>1. Due' = <<>>
        BY <2>2, <2>3 DEF Due
      <4> QED
        BY <4>1, EmptySeq
    <3> QED
      BY <3>1, <3>2 DEF Prefix
  <2> QED
    BY <2>4, <2>5, <2>7
<1>4. CASE Disconnect
  BY <1>4 DEF Disconnect, Live
<1> QED
  BY <1>2, <1>3, <1>4

LEMMA SendStream ==
  ASSUME TypeInv, StreamInv, Live', Send
  PROVE  RoundInv' /\ PlaceInv' /\ Prefix(Stream, Due)'
<1> USE ClientAssumption
<1>1. /\ TypeOK /\ RoundInv /\ PlaceInv /\ Prefix(Stream, Due) /\ pc = "send"
      /\ UNCHANGED <<shape, pending, inbox, requests, buffers>>
  BY DEF Send, Write, WriteFails, WriteKills, WriteTimesOut, SendReturns, StreamInv, Live,
     server, history, TypeInv
<1>2. pc' \in {"send", "header"}
  BY <1>1 DEF Send, Write, WriteFails, WriteKills, WriteTimesOut, SendReturns, Live
<1>3. Prefix(Stream, Due)'
  <2>1. Taken' = Taken
    BY <1>1, <1>2 DEF Taken, buffers
  <2>2. Stream' = Stream
    BY <1>1, <2>1 DEF Stream
  <2> QED
    BY <1>1, <2>2, StreamAlone
<1>4. PlaceInv'
  BY <1>2 DEF PlaceInv
<1>5. peer' = "open" => got' + (IF pc' = "send" THEN left' ELSE 0) = got + left
  <2>1. CASE \E n \in 1 .. left : Write(n)
    BY <1>1, <2>1 DEF Write, TypeOK
  <2>2. CASE WriteFails \/ WriteKills \/ WriteTimesOut
    BY <1>1, <2>2 DEF WriteFails, WriteKills, WriteTimesOut, Live, server
  <2>3. CASE SendReturns
    BY <1>1, <2>3 DEF SendReturns, server, TypeOK
  <2> QED
    BY <2>1, <2>2, <2>3 DEF Send
<1>6. peer' = "open" => peer = "open"
  BY DEF Send, Write, WriteFails, WriteKills, WriteTimesOut, SendReturns, server
<1>7. peer' = "open" =>
        got' + (IF pc' = "send" THEN left' ELSE 0) = requests * RequestLen
  BY <1>1, <1>5, <1>6 DEF RoundInv
<1>8. RoundInv'
  BY <1>1, <1>2, <1>7 DEF RoundInv
<1> QED
  BY <1>3, <1>4, <1>8

(* The empty line the search stops at is that of the response itself. *)
LEMMA HeadEnds ==
  ASSUME TypeInv, Prefix(Stream, Due), pc = "search", NEW e \in Ends(chunk)
  PROVE  /\ requests > 0 /\ Len(shape) = requests
         /\ Len(header) + e = shape[requests].head + SepLen
<1> USE ClientAssumption
<1>1. TypeOK /\ Taken = header \o chunk
  BY DEF TypeInv, Taken
<1>2. /\ e \in 1 .. Len(chunk) /\ Len(chunk) \in Nat /\ Len(header) \in Nat
      /\ chunk[e] = <<chunk[e][1], shape[chunk[e][1]].head + SepLen>>
  <2>1. SepEndsAt(chunk, e) /\ 0 \in 0 .. SepLen - 1 /\ e \in 1 .. Len(chunk)
    BY DEF Ends
  <2>2. chunk[e - 0] = <<chunk[e][1], shape[chunk[e][1]].head + SepLen - 0>>
    BY <2>1 DEF SepEndsAt
  <2>3. Len(chunk) \in Nat /\ Len(header) \in Nat /\ e - 0 = e
    BY <1>1, <2>1, StreamParts
  <2>4. shape[chunk[e][1]].head + SepLen - 0 = shape[chunk[e][1]].head + SepLen
    <3>1. chunk[e] \in Byte
      BY <1>1, <2>1, ElementOfSeq DEF TypeOK
    <3>2. chunk[e][1] \in 1 .. Len(shape)
      BY <3>1 DEF Byte
    <3>3. shape[chunk[e][1]] \in Shapes
      BY <1>1, <3>2, ElementOfSeq DEF TypeOK
    <3>4. shape[chunk[e][1]].head \in Nat
      BY <3>3
    <3> QED
      BY <3>4
  <2> QED
    BY <2>1, <2>2, <2>3, <2>4
<1>3. /\ Len(header) + e <= Len(Due) /\ Len(header) + e \in 1 .. Len(Taken)
      /\ chunk[e] = Due[Len(header) + e]
  <2>1. Len(Taken) = Len(header) + Len(chunk)
    BY <1>1, StreamParts
  <2>2. Len(header) + e \in 1 .. Len(header) + Len(chunk)
    BY <1>2
  <2>3. header \in Seq(Byte) /\ chunk \in Seq(Byte)
    BY <1>1 DEF TypeOK
  <2>4. (header \o chunk)[Len(header) + e] = chunk[e]
    BY <1>2, <2>3, SecondPart
  <2>5. Taken[Len(header) + e] = chunk[e]
    BY <1>1, <2>4, Zenon
  <2>6. Prefix(Taken, Due)
    BY <1>1, TakenIsDue
  <2>7. Len(Due) \in Nat
    BY <1>1, DueParts
  <2> QED
    BY <1>2, <2>1, <2>2, <2>5, <2>6, <2>7 DEF Prefix
<1>4. requests > 0 /\ Len(shape) = requests
  BY <1>1, <1>2, <1>3, DueParts
<1>5. Due[Len(header) + e] = <<requests, Len(header) + e>>
  BY <1>1, <1>2, <1>3, <1>4, DueParts
<1>6. chunk[e] = <<requests, Len(header) + e>>
  BY <1>3, <1>5
<1> QED
  BY <1>2, <1>4, <1>6

(* The fields in the header are those of the response itself. *)
LEMMA NamedIsDue ==
  ASSUME TypeInv, Prefix(Stream, Due), requests > 0, Len(shape) = requests,
         NEW kind, NEW k \in Named(header, kind)
  PROVE  k = requests
<1>1. PICK i \in 1 .. Len(header) : header[i] = <<k, 1>>
  BY DEF Named
<1>2. TypeOK
  BY DEF TypeInv
<1>3. Prefix(header, Due) /\ Len(Due) \in Nat /\ Len(header) \in Nat
  BY <1>2, TakenIsDue, DueParts, StreamParts
<1>4. header[i] = Due[i] /\ i \in 1 .. Len(Due)
  BY <1>3 DEF Prefix
<1>5. Due[i] = <<requests, i>>
  BY <1>2, <1>4, DueParts
<1> QED
  BY <1>1, <1>4, <1>5

LEMMA HeaderStream ==
  ASSUME TypeInv, StreamInv, Live',
         ReadHeader \/ ReadHeaderCut \/ NoHeader \/ NextPiece \/ HeaderEnds
  PROVE  RoundInv' /\ PlaceInv' /\ Prefix(Stream, Due)'
<1> USE ClientAssumption
<1>1. /\ TypeOK /\ RoundInv /\ PlaceInv /\ Prefix(Stream, Due) /\ pc \in {"header", "search"}
      /\ UNCHANGED <<shape, requests, peer, got, left, pending>>
  BY DEF ReadHeader, ReadHeaderCut, NoHeader, NextPiece, HeaderEnds, StreamInv, Live,
     server, history, TypeInv, Return
<1>2. pc' \in {"header", "search", "fields"}
  BY DEF ReadHeader, ReadHeaderCut, NoHeader, NextPiece, HeaderEnds, Live, Return
<1>3. RoundInv'
  BY <1>1, <1>2 DEF RoundInv
<1>4. Taken = header \o chunk /\ Taken' = header' \o chunk'
  BY <1>1, <1>2 DEF Taken
<1>5. CASE ReadHeader
  <2> DEFINE n == Least(ReadBufSize - Len(chunk), Len(inbox))
  <2>1. n \in Nat /\ n <= Len(inbox)
    BY <1>1, <1>5, StreamParts DEF ReadHeader, Least, TypeInv, BufferInv
  <2>2. /\ chunk' = chunk \o SubSeq(inbox, 1, n) /\ inbox' = Rest(inbox, n)
        /\ header' = header /\ pc' \in {"header", "search"}
    BY <1>5 DEF ReadHeader
  <2> HIDE DEF n
  <2>3. (header \o (chunk \o SubSeq(inbox, 1, n))) \o (Rest(inbox, n) \o pending)
          = (header \o chunk) \o (inbox \o pending)
    <3>1. /\ header \in Seq(Byte) /\ chunk \in Seq(Byte) /\ inbox \in Seq(Byte)
          /\ pending \in Seq(Byte)
      BY <1>1 DEF TypeOK
    <3>2. Joined(header, chunk \o SubSeq(inbox, 1, n), Rest(inbox, n), pending)
            = Joined(header, chunk, inbox, pending)
      BY <2>1, <3>1, MovedWithin
    <3> QED
      BY <3>2, Zenon DEF Joined
  <2>4. Stream' = (header' \o chunk') \o (inbox' \o pending)
    BY <1>1, <1>4 DEF Stream
  <2>5. Stream' = Stream
    BY <1>4, <2>2, <2>3, <2>4, Zenon DEF Stream
  <2> QED
    BY <1>1, <1>3, <2>2, <2>5, StreamAlone DEF PlaceInv
<1>6. CASE ReadHeaderCut
  <2>1. Stream' = Stream /\ pc' = "search"
    BY <1>4, <1>6 DEF ReadHeaderCut, Stream, server, buffers
  <2> QED
    BY <1>1, <1>3, <2>1, StreamAlone DEF PlaceInv
<1>7. CASE NoHeader
  BY <1>7 DEF NoHeader, Return, Live
<1>8. CASE NextPiece
  <2>1. header' = header \o chunk /\ chunk' = <<>> /\ inbox' = inbox /\ pc' = "header"
    BY <1>8 DEF NextPiece
  <2>2. header \o chunk \in Seq(Byte)
    BY <1>1, ConcatProperties DEF TypeOK
  <2>3. (header \o chunk) \o <<>> = header \o chunk
    BY <2>2, ConcatEmptySeq
  <2>4. Taken' = Taken
    BY <1>4, <2>1, <2>3, Zenon
  <2>5. Stream' = Stream
    BY <1>1, <2>1, <2>4 DEF Stream
  <2> QED
    BY <1>1, <1>3, <2>1, <2>5, StreamAlone DEF PlaceInv
<1>9. CASE HeaderEnds
  <2>1. PICK e \in Ends(chunk) :
          header' = header \o SubSeq(chunk, 1, e) /\ chunk' = Rest(chunk, e)
    BY <1>9 DEF HeaderEnds
  <2>2. e \in Nat /\ e <= Len(chunk) /\ pc = "search" /\ pc' = "fields" /\ inbox' = inbox
    BY <1>1, <1>9, StreamParts DEF Ends, HeaderEnds
  <2>3. (header \o SubSeq(chunk, 1, e)) \o Rest(chunk, e) = header \o chunk
    <3>1. header \in Seq(Byte) /\ chunk \in Seq(Byte)
      BY <1>1 DEF TypeOK
    <3>2. Followed(header \o SubSeq(chunk, 1, e), Rest(chunk, e)) = Followed(header, chunk)
      BY <2>2, <3>1, Moved
    <3> QED
      BY <3>2, Zenon DEF Followed
  <2>4. Taken' = Taken
    BY <1>4, <2>1, <2>3, Zenon
  <2>5. Stream' = Stream
    BY <1>1, <2>2, <2>4 DEF Stream
  <2>6. /\ requests > 0 /\ Len(shape) = requests
        /\ Len(header) + e = shape[requests].head + SepLen
    BY <1>1, <2>1, <2>2, HeadEnds
  <2>7. Len(header') = Len(header) + e
    <3>1. SubSeq(chunk, 1, e) \in Seq(Byte) /\ Len(SubSeq(chunk, 1, e)) = e
      BY <1>1, <2>2, Cut DEF TypeOK
    <3> QED
      BY <1>1, <2>1, <3>1, ConcatProperties DEF TypeOK
  <2>8. PlaceInv'
    BY <1>1, <2>2, <2>6, <2>7 DEF PlaceInv
  <2> QED
    BY <1>1, <1>3, <2>5, <2>8, StreamAlone
<1> QED
  BY <1>5, <1>6, <1>7, <1>8, <1>9

LEMMA BodyStream ==
  ASSUME TypeInv, StreamInv, Live',
         TakeLength \/ TakeChunked \/ TakeNothing \/ ReadBody \/ ReadBodyCut
  PROVE  RoundInv' /\ PlaceInv' /\ Prefix(Stream, Due)'
<1> USE ClientAssumption
<1>1. CASE TakeLength
  <2>1. /\ TypeOK /\ RoundInv /\ PlaceInv /\ Prefix(Stream, Due) /\ pc = "fields" /\ clean
        /\ UNCHANGED <<shape, requests, peer, got, left, pending, inbox, header>>
    BY <1>1 DEF TakeLength, StreamInv, Live, server, TypeInv, Return
  <2>2. /\ requests > 0 /\ Len(shape) = requests
        /\ Len(header) = shape[requests].head + SepLen
    BY <2>1 DEF PlaceInv
  <2>3. PICK k \in Named(header, "length") :
          /\ bodyLen' = shape[k].body
          /\ \/ /\ shape[k].body > MaxBufLen
                /\ Return("noBuffer")
                /\ UNCHANGED body
             \/ /\ shape[k].body <= MaxBufLen
                /\ body' = chunk
                /\ IF shape[k].body <= Len(chunk) THEN Return("timeout")
                   ELSE pc' = "body" /\ UNCHANGED <<ret, clean>>
    BY <1>1 DEF TakeLength
  <2>4. k = requests
    BY <2>1, <2>2, <2>3, NamedIsDue
  <2>5. ~Return("noBuffer") /\ ~Return("timeout")
    BY DEF Return, Live
  <2>6. pc' = "body" /\ body' = chunk /\ bodyLen' = shape[requests].body
    BY <2>3, <2>4, <2>5
  <2>7. Taken' = Taken
    BY <2>1, <2>6 DEF Taken
  <2>8. Stream' = Stream
    BY <2>1, <2>7 DEF Stream
  <2>9. RoundInv' /\ PlaceInv'
    BY <2>1, <2>2, <2>6 DEF RoundInv, PlaceInv
  <2> QED
    BY <2>1, <2>8, <2>9, StreamAlone
<1>2. CASE TakeChunked \/ TakeNothing \/ ReadBodyCut
  BY <1>2 DEF TakeChunked, TakeNothing, ReadBodyCut, Return, Live
<1>3. CASE ReadBody
  <2> DEFINE n == Least(Least(bodyLen - Len(body), ReadBufSize), Len(inbox))
  <2>1. /\ TypeOK /\ RoundInv /\ PlaceInv /\ Prefix(Stream, Due) /\ pc = "body"
        /\ UNCHANGED <<shape, requests, peer, got, left, pending, header, bodyLen>>
    BY <1>3 DEF ReadBody, StreamInv, Live, server, TypeInv, Return
  <2>2. n \in Nat /\ n <= Len(inbox)
    <3>1. bodyLen \in Nat /\ Len(body) < bodyLen
      BY <2>1 DEF TypeOK, TypeInv, BufferInv
    <3> QED
      BY <2>1, <3>1, StreamParts DEF Least
  <2>3. body' = body \o SubSeq(inbox, 1, n) /\ inbox' = Rest(inbox, n)
    BY <1>3 DEF ReadBody
  <2>4. IF Len(body) + n = bodyLen THEN pc' = "idle" ELSE pc' = "body"
    BY <1>3 DEF ReadBody, Return
  <2> HIDE DEF n
  <2>5. Len(body') = Len(body) + n
    <3>1. SubSeq(inbox, 1, n) \in Seq(Byte) /\ Len(SubSeq(inbox, 1, n)) = n
      BY <2>1, <2>2, Cut DEF TypeOK
    <3> QED
      BY <2>1, <2>3, <3>1, ConcatProperties DEF TypeOK
  <2>6. Taken = header \o body /\ Taken' = header \o body'
    BY <2>1, <2>4 DEF Taken
  <2>7. (header \o (body \o SubSeq(inbox, 1, n))) \o (Rest(inbox, n) \o pending)
          = (header \o body) \o (inbox \o pending)
    <3>1. /\ header \in Seq(Byte) /\ body \in Seq(Byte) /\ inbox \in Seq(Byte)
          /\ pending \in Seq(Byte)
      BY <2>1 DEF TypeOK
    <3>2. Joined(header, body \o SubSeq(inbox, 1, n), Rest(inbox, n), pending)
            = Joined(header, body, inbox, pending)
      BY <2>2, <3>1, MovedWithin
    <3> QED
      BY <3>2, Zenon DEF Joined
  <2>8. Stream' = (header \o body') \o (inbox' \o pending)
    BY <2>1, <2>6 DEF Stream
  <2>9. Stream' = Stream
    BY <2>3, <2>6, <2>7, <2>8, Zenon DEF Stream
  <2>10. /\ requests > 0 /\ Len(shape) = requests
         /\ Len(header) = shape[requests].head + SepLen
         /\ bodyLen = shape[requests].body
    BY <2>1 DEF PlaceInv
  <2>11. PlaceInv'
    BY <2>1, <2>4, <2>5, <2>10 DEF PlaceInv
  <2>12. RoundInv'
    BY <2>1, <2>4, <2>10 DEF RoundInv
  <2> QED
    BY <2>1, <2>9, <2>11, <2>12, StreamAlone
<1> QED
  BY <1>1, <1>2, <1>3

LEMMA StreamStep == TypeInv /\ StreamInv /\ [Next]_vars => StreamInv'
<1> SUFFICES ASSUME TypeInv, StreamInv, [Next]_vars, Live'
             PROVE  RoundInv' /\ PlaceInv' /\ Prefix(Stream, Due)'
  BY DEF StreamInv
<1>1. TypeInv'
  BY TypeStep
<1>2. CASE UNCHANGED vars
  <2>1. /\ UNCHANGED <<shape, requests, header, chunk, body, inbox, pending, pc>>
        /\ UNCHANGED <<peer, got, left, bodyLen, clean>>
    BY <1>2 DEF vars, server, buffers, history
  <2>2. RoundInv /\ PlaceInv /\ Prefix(Stream, Due)
    BY <2>1 DEF StreamInv, Live
  <2>3. Stream' = Stream
    BY <2>1 DEF Stream, Taken
  <2>4. Prefix(Stream, Due)'
    BY <2>1, <2>2, <2>3, StreamAlone
  <2> QED
    BY <2>1, <2>2, <2>4 DEF RoundInv, PlaceInv
<1>3. CASE Next
  <2>1. CASE Ended
    BY <1>2, <2>1 DEF Ended
  <2> QED
    BY <1>1, <1>3, <2>1, ServerStream, LoopStream, SendStream, HeaderStream, BodyStream
       DEF Next, Recv
<1> QED
  BY <1>2, <1>3

(* While every call has succeeded, what the client has of a response, in     *)
(* its strings, in its socket and on the way, is the beginning of the        *)
(* response to its last request, and of nothing else.                        *)
THEOREM StreamInvariant == Spec => [](TypeInv /\ StreamInv)
<1>1. TypeInv /\ StreamInv /\ [Next]_vars => (TypeInv /\ StreamInv)'
  BY TypeStep, StreamStep
<1> QED
  BY <1>1, TypeInit, StreamInit, PTL DEF Spec

LEMMA AnswerFromStream == TypeInv /\ StreamInv => AnswerExact
<1> SUFFICES ASSUME TypeInv, StreamInv, pc = "idle", clean, requests > 0
             PROVE  LET s == shape[requests]
                        w == Bytes(requests, s)
                    IN  /\ header = SubSeq(w, 1, s.head + SepLen)
                        /\ body = SubSeq(w, s.head + SepLen + 1, Size(s))
                        /\ bodyLen = s.body
  BY DEF AnswerExact
<1> DEFINE s == shape[requests]
           w == Bytes(requests, s)
           S == {requests} \X Nat
<1>1. TypeOK /\ RoundInv /\ PlaceInv /\ Prefix(Stream, Due) /\ Len(shape) = requests
  BY DEF StreamInv, Live, RoundInv, TypeInv
<1>2. s \in Shapes /\ Due = w
  BY <1>1, DueParts DEF Due
<1>3. Len(header) = s.head + SepLen /\ Len(body) = s.body /\ bodyLen = s.body
  BY <1>1 DEF PlaceInv
<1> HIDE DEF s
<1>4. /\ Size(s) = s.head + SepLen + s.body /\ Size(s) \in Nat
      /\ s.head \in Nat /\ s.body \in Nat /\ SepLen \in Nat
      /\ w \in Seq(S) /\ Len(w) = Size(s)
      /\ \A i \in 1 .. Size(s) : w[i] \in S
  <2>1. Size(s) = s.head + SepLen + s.body
    BY DEF Size
  <2>2. SepLen \in Nat
    BY ClientAssumption
  <2>3. /\ Size(s) \in Nat /\ s.head \in Nat /\ s.body \in Nat
        /\ w \in Seq(S) /\ Len(w) = Size(s)
    BY <1>2, BytesOf
  <2>4. \A i \in 1 .. Size(s) : w[i] \in S
    BY <2>3, ElementOfSeq
  <2> QED
    BY <2>1, <2>2, <2>3, <2>4
<1>5. Taken = header \o body /\ header \in Seq(Byte) /\ body \in Seq(Byte)
  BY <1>1 DEF Taken, TypeOK
<1>6. Prefix(Taken, w)
  BY <1>1, <1>2, TakenIsDue
<1> HIDE DEF w, S
<1>7. ASSUME NEW i \in 1 .. Len(header) PROVE header[i] = w[i]
  BY <1>1, <1>2, TakenIsDue DEF Prefix
<1>8. ASSUME NEW i \in 1 .. Len(body) PROVE body[i] = w[s.head + SepLen + i]
  <2>1. Len(header) + i \in 1 .. Len(header) + Len(body)
    BY <1>3, <1>4
  <2>2. Len(Taken) = Len(header) + Len(body)
    BY <1>5, ConcatProperties
  <2>3. (header \o body)[Len(header) + i] = body[i]
    BY <1>5, SecondPart
  <2>4. Taken[Len(header) + i] = body[i]
    BY <1>5, <2>3, Zenon
  <2>5. Taken[Len(header) + i] = w[Len(header) + i]
    BY <1>6, <2>1, <2>2 DEF Prefix
  <2> QED
    BY <1>3, <2>4, <2>5
<1>9. header = SubSeq(w, 1, s.head + SepLen)
  <2> DEFINE h == SubSeq(w, 1, s.head + SepLen)
  <2>1. \A i \in 1 .. s.head + SepLen : w[i] \in S
    BY <1>4
  <2>2. /\ h \in Seq(S) /\ Len(h) = IF 1 <= s.head + SepLen THEN s.head + SepLen - 1 + 1 ELSE 0
        /\ \A i \in 1 .. s.head + SepLen - 1 + 1 : h[i] = w[1 + i - 1]
    BY <1>4, <2>1, SubSeqProperties
  <2> HIDE DEF h
  <2>3. Len(h) = Len(header) /\ \A i \in 1 .. Len(header) : h[i] = header[i]
    BY <1>3, <1>4, <1>7, <2>2
  <2>4. h \in Seq(S \cup Byte) /\ header \in Seq(S \cup Byte)
    BY <1>5, <2>2, SeqMonotonic
  <2>5. h = header
    BY <2>3, <2>4, SeqEqual
  <2> QED
    BY <2>5 DEF h
<1>10. body = SubSeq(w, s.head + SepLen + 1, Size(s))
  <2> DEFINE b == SubSeq(w, s.head + SepLen + 1, Size(s))
             m == s.head + SepLen + 1
  <2>1. \A i \in m .. Size(s) : w[i] \in S
    BY <1>4
  <2>2. /\ b \in Seq(S) /\ Len(b) = IF m <= Size(s) THEN Size(s) - m + 1 ELSE 0
        /\ \A i \in 1 .. Size(s) - m + 1 : b[i] = w[m + i - 1]
    <3>1. m \in Int /\ Size(s) \in Int
      BY <1>4
    <3> QED
      BY <2>1, <3>1, SubSeqProperties
  <2> HIDE DEF b
  <2>3. Len(b) = Len(body) /\ \A i \in 1 .. Len(body) : b[i] = body[i]
    <3>1. /\ m <= Size(s) <=> s.body > 0
          /\ Size(s) - m + 1 = s.body
      BY <1>4
    <3>2. Len(b) = Len(body)
      BY <1>3, <1>4, <2>2, <3>1
    <3>3. ASSUME NEW i \in 1 .. Len(body) PROVE b[i] = body[i]
      <4>1. m + i - 1 = s.head + SepLen + i
        BY <1>4
      <4>2. b[i] = w[m + i - 1]
        BY <1>3, <2>2, <3>1
      <4> QED
        BY <1>8, <4>1, <4>2
    <3> QED
      BY <3>2, <3>3
  <2>4. b \in Seq(S \cup Byte) /\ body \in Seq(S \cup Byte)
    BY <1>5, <2>2, SeqMonotonic
  <2>5. b = body
    BY <2>3, <2>4, SeqEqual
  <2> QED
    BY <2>5 DEF b
<1> QED
  BY <1>3, <1>9, <1>10 DEF s, w

(* While every call has succeeded, recv returns exactly the response to the  *)
(* request just sent, in whatever pieces poll and the network deliver it,    *)
(* for every size of the buffers and every response that recv accepts.       *)
THEOREM AnswersExact == Spec => []AnswerExact
  BY StreamInvariant, AnswerFromStream, PTL

-----------------------------------------------------------------------------
(* Responses read without waiting in vain.                                 *)

(* A header of full pieces and e bytes leaves the rest of a piece. *)
LEMMA PartBodyOf ==
  ASSUME NEW s, NEW q \in Nat, NEW e \in 1 .. ReadBufSize,
         s.head + SepLen = q * ReadBufSize + e
  PROVE  PartBody(s) = ReadBufSize - e
<1> USE ClientAssumption
<1>1. ReadBufSize \in Nat \ {0}
  OBVIOUS
<1>2. CASE e = ReadBufSize
  <2>1. q * ReadBufSize + e = (q + 1) * ReadBufSize + 0
    BY <1>1, <1>2
  <2>2. ((q + 1) * ReadBufSize + 0) % ReadBufSize = 0
    BY <1>1
  <2>3. (ReadBufSize - 0) % ReadBufSize = 0
    BY <1>1
  <2>4. PartBody(s) = (ReadBufSize - 0) % ReadBufSize
    BY <2>1, <2>2 DEF PartBody
  <2> QED
    BY <1>2, <2>3, <2>4
<1>3. CASE e # ReadBufSize
  <2>1. (q * ReadBufSize + e) % ReadBufSize = e
    <3>1. e \in 0 .. ReadBufSize - 1
      BY <1>1, <1>3
    <3> QED
      BY <1>1, <3>1
  <2>2. (ReadBufSize - e) % ReadBufSize = ReadBufSize - e
    <3>1. ReadBufSize - e \in 0 .. ReadBufSize - 1
      BY <1>1, <1>3
    <3> QED
      BY <1>1, <3>1
  <2>3. PartBody(s) = (ReadBufSize - e) % ReadBufSize
    BY <2>1 DEF PartBody
  <2> QED
    BY <2>2, <2>3
<1> QED
  BY <1>2, <1>3

LEMMA SmoothInit == Init => SmoothInv /\ SmoothOutcome
<1> SUFFICES ASSUME Init PROVE SmoothInv /\ SmoothOutcome
  OBVIOUS
<1> QED
  BY DEF Init, SmoothInv, SmoothOutcome

(* A response that has begun is not changed. *)
LEMMA ShapeKept ==
  ASSUME TypeOK, ServerStep, requests > 0, requests <= Len(shape)
  PROVE  shape'[requests] = shape[requests] /\ requests <= Len(shape')
<1>1. Len(shape) \in Nat /\ requests \in 1 .. Len(shape)
  BY LenProperties DEF TypeOK
<1>2. CASE \E s \in Shapes : Respond(s)
  <2>1. PICK s \in Shapes : shape' = Append(shape, s)
    BY <1>2 DEF Respond
  <2>2. /\ Len(Append(shape, s)) = Len(shape) + 1
        /\ \A i \in 1 .. Len(shape) : Append(shape, s)[i] = shape[i]
    BY AppendProperties DEF TypeOK
  <2> QED
    BY <1>1, <2>1, <2>2
<1>3. CASE UNCHANGED shape
  BY <1>1, <1>3
<1> QED
  BY <1>2, <1>3 DEF ServerStep, Deliver, Close, Reset

LEMMA ServerSmooth ==
  ASSUME TypeInv, TypeInv', StreamInv, SmoothInv, SmoothOutcome, ServerStep
  PROVE  SmoothInv' /\ SmoothOutcome'
<1> USE ClientAssumption
<1>1. UNCHANGED <<pc, requests, ret, header, chunk, clean, smooth>>
  BY DEF ServerStep, Respond, Deliver, Close, Reset, buffers, history
<1>2. TypeOK /\ requests \in Nat
  BY DEF TypeInv, TypeOK
<1>3. requests > 0 /\ requests <= Len(shape) =>
        shape'[requests] = shape[requests] /\ requests <= Len(shape')
  BY <1>2, ShapeKept
<1>4. smooth /\ pc \in {"fields", "body"} => requests > 0 /\ requests <= Len(shape)
  BY <1>2 DEF SmoothInv, StreamInv, Live, PlaceInv
<1>5. CASE ~smooth
  BY <1>1, <1>5 DEF SmoothInv, SmoothOutcome
<1>6. CASE smooth
  <2>1. SmoothInv'
    <3>1. pc = "idle" => requests <= Len(shape')
      <4>1. CASE requests = 0
        <5>1. shape' \in Seq(Shapes)
          BY DEF TypeInv, TypeOK
        <5>2. Len(shape') \in Nat
          BY <5>1, LenProperties
        <5> QED
          BY <4>1, <5>2
      <4>2. CASE requests > 0
        BY <1>3, <1>6, <4>2 DEF SmoothInv
      <4> QED
        BY <1>2, <4>1, <4>2
    <3>2. pc \in {"fields", "body"} => shape'[requests] = shape[requests]
      BY <1>3, <1>4, <1>6
    <3> QED
      BY <1>1, <1>6, <3>1, <3>2 DEF SmoothInv, PartBody
  <2>2. SmoothOutcome'
    <3>1. CASE pc = "idle" /\ requests > 0
      <4>1. shape'[requests] = shape[requests]
        BY <1>3, <1>6, <3>1 DEF SmoothInv
      <4> QED
        BY <1>1, <4>1 DEF SmoothOutcome, PartBody
    <3>2. CASE ~(pc = "idle" /\ requests > 0)
      BY <1>1, <3>2 DEF SmoothOutcome
    <3> QED
      BY <3>1, <3>2
  <2> QED
    BY <2>1, <2>2
<1> QED
  BY <1>2, <1>5, <1>6 DEF TypeOK

LEMMA LoopSmooth ==
  ASSUME TypeInv, StreamInv, SmoothInv, ConnectServer \/ SendRequest \/ Disconnect
  PROVE  SmoothInv' /\ SmoothOutcome'
<1> USE ClientAssumption
<1>1. CASE ConnectServer
  <2>1. smooth => requests = 0
    BY <1>1 DEF ConnectServer, SmoothInv, StreamInv, Live, RoundInv
  <2>2. UNCHANGED <<requests, smooth, clean, shape>> /\ pc' = "idle"
    BY <1>1 DEF ConnectServer, history
  <2>3. Len(shape) \in Nat
    BY LenProperties DEF TypeInv, TypeOK
  <2> QED
    BY <2>1, <2>2, <2>3 DEF SmoothInv, SmoothOutcome
<1>2. CASE SendRequest
  BY <1>2 DEF SendRequest, SmoothInv, SmoothOutcome
<1>3. CASE Disconnect
  BY <1>3 DEF Disconnect, SmoothInv, SmoothOutcome
<1> QED
  BY <1>1, <1>2, <1>3

LEMMA SendSmooth ==
  ASSUME TypeInv, SmoothInv, Send
  PROVE  SmoothInv' /\ SmoothOutcome'
<1> USE ClientAssumption
<1>1. CASE WriteTimesOut
  BY <1>1 DEF WriteTimesOut, SmoothInv, SmoothOutcome
<1>2. CASE WriteKills
  BY <1>2 DEF WriteKills, SmoothInv, SmoothOutcome
<1>3. CASE (\E n \in 1 .. left : Write(n)) \/ WriteFails
  <2>1. pc = "send" /\ UNCHANGED <<pc, header, clean, smooth>>
    BY <1>3 DEF Write, WriteFails, buffers, history
  <2> QED
    BY <2>1 DEF SmoothInv, SmoothOutcome
<1>4. CASE SendReturns
  <2>1. pc = "send" /\ pc' = "header" /\ UNCHANGED <<header, clean, smooth>>
    BY <1>4 DEF SendReturns, buffers, history
  <2>2. Len(<<>>) = 0 * ReadBufSize /\ 0 \in Nat
    BY EmptySeq
  <2> QED
    BY <2>1, <2>2 DEF SmoothInv, SmoothOutcome
<1> QED
  BY <1>1, <1>2, <1>3, <1>4 DEF Send

LEMMA HeaderSmooth ==
  ASSUME TypeInv, StreamInv, SmoothInv, smooth',
         ReadHeader \/ ReadHeaderCut \/ NoHeader \/ NextPiece \/ HeaderEnds
  PROVE  SmoothInv' /\ SmoothOutcome'
<1> USE ClientAssumption
<1>1. /\ smooth /\ clean /\ pc \in {"header", "search"} /\ TypeOK
      /\ \E q \in Nat : Len(header) = q * ReadBufSize
      /\ pc = "search" => Len(chunk) = ReadBufSize
  BY DEF ReadHeader, ReadHeaderCut, NoHeader, NextPiece, HeaderEnds, ReadFails, history,
     SmoothInv, TypeInv
<1>2. PICK q \in Nat : Len(header) = q * ReadBufSize
  BY <1>1
<1>3. CASE ReadHeader
  <2> DEFINE n == Least(ReadBufSize - Len(chunk), Len(inbox))
  <2>1. n \in Nat /\ n <= Len(inbox)
    BY <1>1, <1>3, StreamParts DEF ReadHeader, Least, TypeInv, BufferInv
  <2>2. /\ chunk' = chunk \o SubSeq(inbox, 1, n)
        /\ pc' = IF Len(chunk) + n = ReadBufSize THEN "search" ELSE "header"
        /\ UNCHANGED <<header, clean, smooth>>
    BY <1>3 DEF ReadHeader, history
  <2> HIDE DEF n
  <2>3. Len(chunk') = Len(chunk) + n
    <3>1. SubSeq(inbox, 1, n) \in Seq(Byte) /\ Len(SubSeq(inbox, 1, n)) = n
      BY <1>1, <2>1, Cut DEF TypeOK
    <3> QED
      BY <1>1, <2>2, <3>1, ConcatProperties DEF TypeOK
  <2>4. pc' \in {"header", "search"} /\ (pc' = "search" => Len(chunk') = ReadBufSize)
    BY <2>2, <2>3
  <2> QED
    BY <1>1, <2>2, <2>4 DEF SmoothInv, SmoothOutcome
<1>4. CASE ReadHeaderCut
  BY <1>4 DEF ReadHeaderCut, ReadFails
<1>5. CASE NoHeader
  <2>1. Len(<<>>) = 0
    BY EmptySeq
  <2> QED
    BY <1>1, <1>5, <2>1 DEF NoHeader
<1>6. CASE NextPiece
  <2>1. /\ header' = header \o chunk /\ pc = "search" /\ pc' = "header"
        /\ UNCHANGED <<clean, smooth>>
    BY <1>6 DEF NextPiece, history
  <2>2. Len(header') = Len(header) + Len(chunk)
    BY <1>1, <2>1, ConcatProperties DEF TypeOK
  <2>3. Len(header') = (q + 1) * ReadBufSize
    <3>1. Len(header') = q * ReadBufSize + ReadBufSize
      BY <1>1, <1>2, <2>1, <2>2
    <3>2. (q + 1) * ReadBufSize = q * ReadBufSize + ReadBufSize
      OBVIOUS
    <3> QED
      BY <3>1, <3>2
  <2>4. q + 1 \in Nat
    OBVIOUS
  <2> QED
    BY <1>1, <2>1, <2>3, <2>4 DEF SmoothInv, SmoothOutcome
<1>7. CASE HeaderEnds
  <2>1. PICK e \in Ends(chunk) :
          header' = header \o SubSeq(chunk, 1, e) /\ chunk' = Rest(chunk, e)
    BY <1>7 DEF HeaderEnds
  <2>2. /\ pc = "search" /\ pc' = "fields"
        /\ UNCHANGED <<clean, smooth, shape, requests>>
    BY <1>7 DEF HeaderEnds, history, server
  <2>3. Len(chunk) = ReadBufSize /\ e \in 1 .. ReadBufSize
    BY <1>1, <2>2 DEF Ends
  <2>4. Len(chunk') = ReadBufSize - e
    <3>1. chunk \in Seq(Byte) /\ e \in Nat /\ e <= Len(chunk)
      BY <1>1, <2>3 DEF TypeOK
    <3>2. Len(Rest(chunk, e)) = Len(chunk) - e
      BY <3>1, Cut
    <3> QED
      BY <2>1, <2>3, <3>2
  <2>5. Len(header) + e = shape[requests].head + SepLen
    <3>1. Prefix(Stream, Due)
      BY <1>1 DEF StreamInv, Live
    <3> QED
      BY <2>1, <2>2, <3>1, HeadEnds
  <2>6. PartBody(shape[requests]) = ReadBufSize - e
    <3>1. shape[requests].head + SepLen = q * ReadBufSize + e
      BY <1>2, <2>5
    <3> QED
      BY <2>3, <3>1, PartBodyOf
  <2>7. PartBody(shape[requests])' = PartBody(shape[requests])
    BY <2>2 DEF PartBody
  <2>8. Len(chunk') = PartBody(shape[requests])'
    BY <2>4, <2>6, <2>7
  <2> QED
    BY <1>1, <2>2, <2>8 DEF SmoothInv, SmoothOutcome
<1> QED
  BY <1>3, <1>4, <1>5, <1>6, <1>7

LEMMA BodySmooth ==
  ASSUME TypeInv, StreamInv, SmoothInv, smooth',
         TakeLength \/ TakeChunked \/ TakeNothing \/ ReadBody \/ ReadBodyCut
  PROVE  SmoothInv' /\ SmoothOutcome'
<1> USE ClientAssumption
<1> DEFINE s == shape[requests]
<1>1. /\ smooth /\ clean /\ pc \in {"fields", "body"} /\ TypeOK
      /\ UNCHANGED <<shape, requests, smooth>>
  BY DEF TakeLength, TakeChunked, TakeNothing, ReadBody, ReadBodyCut, ReadFails, history,
     server, SmoothInv, TypeInv
<1>2. /\ RoundInv /\ PlaceInv /\ Prefix(Stream, Due)
      /\ requests > 0 /\ Len(shape) = requests /\ Len(header) = s.head + SepLen
  BY <1>1 DEF StreamInv, Live, PlaceInv
<1>3. /\ s \in Shapes /\ Len(Due) = Size(s)
      /\ \A i \in 1 .. Len(Due) : Due[i] = <<requests, i>>
  BY <1>1, <1>2, DueParts
<1>4. /\ s.head \in Nat \ {0} /\ s.body \in Nat /\ Size(s) = s.head + SepLen + s.body
      /\ s.kind \in {"length", "chunked", "none"}
  BY <1>3 DEF Size
<1>5. s' = s /\ PartBody(s)' = PartBody(s) /\ requests' <= Len(shape')
  BY <1>1, <1>2 DEF PartBody, TypeOK
<1>6. requests \in Named(header, s.kind)
  <2>1. header[1] = <<requests, 1>>
    <3>1. Prefix(header, Due)
      BY <1>1, <1>2, TakenIsDue
    <3>2. 1 \in 1 .. Len(header) /\ 1 \in 1 .. Len(Due)
      BY <1>2, <1>3, <1>4
    <3> QED
      BY <1>3, <3>1, <3>2 DEF Prefix
  <2>2. 1 \in 1 .. Len(header) /\ requests \in 1 .. Len(shape)
    BY <1>1, <1>2, <1>4 DEF TypeOK
  <2> QED
    BY <2>1, <2>2 DEF Named
<1>7. CASE TakeLength
  <2>1. pc = "fields" /\ Len(chunk) = PartBody(s)
    BY <1>1, <1>7 DEF TakeLength, SmoothInv
  <2>2. PICK k \in Named(header, "length") :
          \/ shape[k].body > MaxBufLen /\ Return("noBuffer")
          \/ /\ shape[k].body <= MaxBufLen
             /\ IF shape[k].body <= Len(chunk) THEN Return("timeout")
                ELSE pc' = "body" /\ UNCHANGED <<ret, clean>>
    BY <1>7 DEF TakeLength
  <2>3. k = requests
    BY <1>2, NamedIsDue
  <2>4. s.kind = "length"
    BY <2>2, <2>3 DEF Named
  <2>5. Len(chunk) <= s.body
    <3>1. Len(Taken) = Len(header) + Len(chunk) /\ Len(chunk) \in Nat
      BY <1>1, <2>1, StreamParts
    <3>2. Len(Taken) <= Len(Due)
      BY <1>1, <1>2, TakenIsDue DEF Prefix
    <3> QED
      BY <1>2, <1>3, <1>4, <3>1, <3>2
  <2>6. Len(chunk) \in Nat
    BY <1>1, StreamParts
  <2>7. CASE s.body > MaxBufLen
    <3>1. pc' = "idle" /\ ret' = "noBuffer"
      BY <1>4, <2>2, <2>3, <2>7 DEF Return
    <3> QED
      BY <1>1, <1>5, <2>4, <2>7, <3>1 DEF SmoothInv, SmoothOutcome
  <2>8. CASE s.body <= MaxBufLen /\ s.body <= Len(chunk)
    <3>1. pc' = "idle" /\ ret' = "timeout"
      BY <1>4, <2>2, <2>3, <2>8 DEF Return
    <3>2. s.body = PartBody(s)
      BY <1>4, <2>1, <2>5, <2>6, <2>8
    <3>3. ~(s.body > MaxBufLen)
      BY <1>4, <2>8
    <3> QED
      BY <1>1, <1>5, <2>4, <3>1, <3>2, <3>3 DEF SmoothInv, SmoothOutcome
  <2>9. CASE s.body <= MaxBufLen /\ ~(s.body <= Len(chunk))
    <3>1. pc' = "body" /\ clean' = clean
      BY <1>4, <2>2, <2>3, <2>9
    <3>2. s.body # PartBody(s)
      BY <1>4, <2>1, <2>6, <2>9
    <3> QED
      BY <1>1, <1>5, <2>4, <2>9, <3>1, <3>2 DEF SmoothInv, SmoothOutcome
  <2> QED
    BY <1>4, <2>6, <2>7, <2>8, <2>9
<1>8. CASE TakeChunked
  BY <1>8 DEF TakeChunked, SmoothInv, SmoothOutcome
<1>9. CASE TakeNothing
  <2>1. pc' = "idle" /\ ret' = "invalid"
    BY <1>9 DEF TakeNothing, Return
  <2>2. s.kind # "length"
    BY <1>6, <1>9 DEF TakeNothing
  <2> QED
    BY <1>1, <1>5, <2>1, <2>2 DEF SmoothInv, SmoothOutcome
<1>10. CASE ReadBody
  <2>1. /\ pc = "body" /\ s.kind = "length" /\ s.body <= MaxBufLen
        /\ s.body # PartBody(s)
    BY <1>1, <1>10 DEF ReadBody, SmoothInv
  <2>2. (pc' = "idle" /\ ret' = "ok") \/ UNCHANGED <<pc, clean>>
    BY <1>10 DEF ReadBody, Return
  <2>3. ~(s.body > MaxBufLen)
    BY <1>4, <2>1
  <2>4. CASE pc' = "idle" /\ ret' = "ok"
    BY <1>1, <1>5, <2>1, <2>3, <2>4 DEF SmoothInv, SmoothOutcome
  <2>5. CASE UNCHANGED <<pc, clean>>
    BY <1>1, <1>5, <2>1, <2>5 DEF SmoothInv, SmoothOutcome
  <2> QED
    BY <2>2, <2>4, <2>5
<1>11. CASE ReadBodyCut
  BY <1>11 DEF ReadBodyCut, ReadFails
<1> QED
  BY <1>7, <1>8, <1>9, <1>10, <1>11

LEMMA SmoothStep ==
  TypeInv /\ StreamInv /\ SmoothInv /\ SmoothOutcome /\ [Next]_vars
    => SmoothInv' /\ SmoothOutcome'
<1> SUFFICES ASSUME TypeInv, StreamInv, SmoothInv, SmoothOutcome, [Next]_vars
             PROVE  SmoothInv' /\ SmoothOutcome'
  OBVIOUS
<1>1. CASE UNCHANGED vars
  BY <1>1 DEF vars, server, buffers, history, SmoothInv, SmoothOutcome, PartBody
<1>2. TypeInv'
  BY TypeStep
<1>3. CASE Next
  <2>1. CASE Ended
    BY <1>1, <2>1 DEF Ended
  <2>2. CASE Recv
    <3>1. CASE smooth'
      BY <2>2, <3>1, HeaderSmooth, BodySmooth DEF Recv
    <3>2. CASE ~smooth'
      BY <3>2 DEF SmoothInv, SmoothOutcome
    <3> QED
      BY <3>1, <3>2
  <2> QED
    BY <1>2, <1>3, <2>1, <2>2, ServerSmooth, LoopSmooth, SendSmooth DEF Next
<1> QED
  BY <1>1, <1>3

(* When every read of a call found something, what recv returns depends on    *)
(* the response alone and not on how it was cut: it refuses a response that   *)
(* is chunked, has no length or is too long, and one whose body ends exactly  *)
(* with the piece its header ends in; it accepts every other.                 *)
THEOREM OutcomeOfResponse == Spec => []SmoothOutcome
<1>1. /\ TypeInv /\ StreamInv /\ SmoothInv /\ SmoothOutcome /\ [Next]_vars
           => (SmoothInv /\ SmoothOutcome)'
  BY SmoothStep
<1> QED
  BY <1>1, SmoothInit, StreamInvariant, PTL DEF Spec
=============================================================================
