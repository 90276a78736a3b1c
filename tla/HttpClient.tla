----------------------------- MODULE HttpClient -----------------------------
(***************************************************************************)
(* The HTTP client (http_client/HttpClient.cpp) in the loop of             *)
(* http_client/main.cpp: connect once, then send a request and receive its *)
(* response, again and again, on one connection.  The loop looks at no     *)
(* result: after a call that failed it goes on with the next request.      *)
(*                                                                         *)
(* recv reads pieces of READ_BUF_SIZE bytes until one of them contains the *)
(* empty line, then as much as Content-Length says.  A piece is shorter    *)
(* only when poll() times out, or the server has closed.                   *)
(*                                                                         *)
(* A byte is <<k, i>>, byte i of the k-th response.  The server is any one *)
(* that answers requests in order, as late and in as many parts as it      *)
(* likes, and that may close or reset the connection.                      *)
(***************************************************************************)
EXTENDS Integers, Sequences

CONSTANTS
  ReadBufSize,   (* READ_BUF_SIZE                                            *)
  SepLen,        (* the length of the empty line                             *)
  MaxBufLen,     (* the caller's max_buf_len                                 *)
  RequestLen,    (* the bytes of a request                                   *)
  Shapes,        (* the responses: kind, and the lengths of head and body    *)
  MaxRequests    (* bound: requests sent                                     *)

ASSUME ClientAssumption ==
  /\ SepLen \in Nat \ {0} /\ ReadBufSize \in Nat /\ ReadBufSize >= SepLen
  /\ MaxBufLen \in Nat /\ MaxBufLen >= ReadBufSize - SepLen
  /\ RequestLen \in Nat \ {0}
  /\ Shapes \subseteq [kind : {"length", "chunked", "none"}, head : Nat \ {0},
                       body : Nat]
  /\ MaxRequests \in Nat

VARIABLES
  peer,       \* the server's end: open, closed, reset
  got,        \* bytes the server has received
  shape,      \* the responses the server has begun
  pending,    \* bytes of them not yet in the client's socket
  inbox,      \* bytes in the client's socket
  pc,         \* where the client is
  requests,   \* requests begun
  left,       \* writen_timeout: bytes left to write
  chunk,      \* readn_timeout: what it has read for read_buf
  header,     \* the string header
  body,       \* what has been written to body_buf
  bodyLen,    \* body_len
  ret,        \* what the last recv returned
  errorSeen,  \* a call has returned the connection's error
  clean,      \* history: no call on this connection has failed
  smooth      \* history: nor has this recv had to wait in vain

server == <<peer, got, shape, pending>>
buffers == <<chunk, header, body, bodyLen>>
history == <<clean, smooth>>
vars == <<server, inbox, pc, requests, left, buffers, ret, errorSeen, history>>

-----------------------------------------------------------------------------
Least(a, b) == IF a < b THEN a ELSE b

Rest(s, n) == SubSeq(s, n + 1, Len(s))

(* The bytes of response k: head, empty line, body. *)
Size(s) == s.head + SepLen + s.body
Bytes(k, s) == [i \in 1 .. Size(s) |-> <<k, i>>]

(* strstr finds the empty line in the read buffer, ending at e. *)
SepEndsAt(c, e) ==
  /\ e \in SepLen .. Len(c)
  /\ LET k == c[e][1]
     IN  \A j \in 0 .. SepLen - 1 :
           c[e - j] = <<k, shape[k].head + SepLen - j>>

Ends(c) == {e \in 1 .. Len(c) : SepEndsAt(c, e)}

(* header.find: the responses of a kind whose head is in the header string, *)
(* represented by its first byte.                                           *)
Named(h, kind) ==
  {k \in 1 .. Len(shape) : shape[k].kind = kind /\ \E i \in 1 .. Len(h) : h[i] = <<k, 1>>}

Init ==
  /\ peer = "open" /\ got = 0 /\ shape = <<>> /\ pending = <<>> /\ inbox = <<>>
  /\ pc = "connect" /\ requests = 0 /\ left = 0
  /\ chunk = <<>> /\ header = <<>> /\ body = <<>> /\ bodyLen = 0
  /\ ret = "none" /\ errorSeen = FALSE /\ clean = TRUE /\ smooth = TRUE

-----------------------------------------------------------------------------
(* The server.                                                             *)

Respond(s) ==
  /\ peer = "open" /\ got >= (Len(shape) + 1) * RequestLen
  /\ shape' = Append(shape, s)
  /\ pending' = pending \o Bytes(Len(shape) + 1, s)
  /\ UNCHANGED <<peer, got, inbox, pc, requests, left, buffers, ret, errorSeen,
                 history>>

Deliver(n) ==
  /\ peer = "open" /\ n <= Len(pending)
  /\ inbox' = inbox \o SubSeq(pending, 1, n)
  /\ pending' = Rest(pending, n)
  /\ UNCHANGED <<peer, got, shape, pc, requests, left, buffers, ret, errorSeen,
                 history>>

Close ==
  /\ peer = "open" /\ pc # "connect"
  /\ peer' = "closed" /\ pending' = <<>>
  /\ UNCHANGED <<got, shape, inbox, pc, requests, left, buffers, ret, errorSeen,
                 history>>

(* What the client's socket holds can still be read. *)
Reset ==
  /\ peer # "reset" /\ pc # "connect"
  /\ peer' = "reset" /\ pending' = <<>>
  /\ UNCHANGED <<got, shape, inbox, pc, requests, left, buffers, ret, errorSeen, history>>

-----------------------------------------------------------------------------
(* connect_server.  Nobody looks at its result; poll() reports POLLOUT for  *)
(* a refused connection too, which is then as good as reset.                *)
ConnectServer ==
  /\ pc = "connect"
  /\ pc' = "idle"
  /\ peer' \in {"open", "reset"}
  /\ UNCHANGED <<got, shape, pending, inbox, requests, left, buffers, ret,
                 errorSeen, history>>

(* The body of the loop: a new header string and body_buf, then send. *)
SendRequest ==
  /\ pc = "idle" /\ requests < MaxRequests
  /\ pc' = "send"
  /\ requests' = requests + 1
  /\ left' = RequestLen
  /\ chunk' = <<>> /\ header' = <<>> /\ body' = <<>> /\ bodyLen' = 0
  /\ ret' = "none"
  /\ smooth' = clean
  /\ UNCHANGED <<server, inbox, errorSeen, clean>>

(* disconnect, at the end of the input or when body_buf holds no "{".       *)
Disconnect ==
  /\ pc = "idle"
  /\ pc' = "ended"
  /\ UNCHANGED <<server, inbox, requests, left, buffers, ret, errorSeen, history>>

-----------------------------------------------------------------------------
(* writen_timeout.                                                         *)

(* A write to a server that has closed is answered with a reset. *)
Write(n) ==
  /\ pc = "send" /\ n <= left /\ peer # "reset"
  /\ IF peer = "open" THEN got' = got + n /\ UNCHANGED peer
     ELSE peer' = "reset" /\ UNCHANGED got
  /\ left' = left - n
  /\ UNCHANGED <<shape, pending, inbox, pc, requests, buffers, ret, errorSeen,
                 history>>

(* write() returns -1, which is subtracted from left, and the loop goes on. *)
WriteFails ==
  /\ pc = "send" /\ left > 0 /\ peer = "reset" /\ ~errorSeen
  /\ left' = left + 1
  /\ errorSeen' = TRUE
  /\ UNCHANGED <<server, inbox, pc, requests, buffers, ret, history>>

(* The next write() raises SIGPIPE, which this program does not ignore. *)
WriteKills ==
  /\ pc = "send" /\ left > 0 /\ peer = "reset" /\ errorSeen
  /\ pc' = "dead"
  /\ UNCHANGED <<server, inbox, requests, left, buffers, ret, errorSeen, history>>

(* poll() times out: send returns -1, and the loop goes on to recv. *)
WriteTimesOut ==
  /\ pc = "send" /\ left > 0 /\ peer = "open"
  /\ pc' = "header"
  /\ clean' = FALSE /\ smooth' = FALSE
  /\ UNCHANGED <<server, inbox, requests, left, buffers, ret, errorSeen>>

SendReturns ==
  /\ pc = "send" /\ left = 0
  /\ pc' = "header"
  /\ UNCHANGED <<server, inbox, requests, left, buffers, ret, errorSeen, history>>

-----------------------------------------------------------------------------
(* recv.                                                                   *)

Return(r) ==
  /\ pc' = "idle"
  /\ ret' = r
  /\ clean' = (clean /\ r = "ok")

(* read_data has nothing to return: poll() times out, or read() returns 0   *)
(* or -1.  All are the same to readn_timeout.                               *)
ReadFails ==
  /\ inbox = <<>>
  /\ errorSeen' = (errorSeen \/ peer = "reset")
  /\ smooth' = FALSE

(* read_http_header_timeout calls readn_timeout for READ_BUF_SIZE bytes.    *)
ReadHeader ==
  LET n == Least(ReadBufSize - Len(chunk), Len(inbox)) IN
  /\ pc = "header" /\ inbox # <<>>
  /\ chunk' = chunk \o SubSeq(inbox, 1, n)
  /\ inbox' = Rest(inbox, n)
  /\ pc' = IF Len(chunk) + n = ReadBufSize THEN "search" ELSE "header"
  /\ UNCHANGED <<server, requests, left, header, body, bodyLen, ret, errorSeen,
                 history>>

ReadHeaderCut ==
  /\ pc = "header" /\ ReadFails
  /\ pc' = "search"
  /\ UNCHANGED <<server, inbox, requests, left, buffers, ret, clean>>

(* Mutant: n < 0, so that the end of the stream is tried again. *)
KeepReading ==
  /\ pc = "search" /\ chunk = <<>>
  /\ pc' = "header"
  /\ UNCHANGED <<server, inbox, requests, left, buffers, ret, errorSeen, history>>

NoHeader ==
  /\ pc = "search" /\ chunk = <<>>
  /\ Return("invalid")
  /\ UNCHANGED <<server, inbox, requests, left, buffers, errorSeen, smooth>>

(* Mutant: a piece without an empty line is dropped. *)
DropPiece ==
  /\ pc = "search" /\ chunk # <<>> /\ Ends(chunk) = {}
  /\ chunk' = <<>>
  /\ pc' = "header"
  /\ UNCHANGED <<server, inbox, requests, left, header, body, bodyLen, ret,
                 errorSeen, history>>

NextPiece ==
  /\ pc = "search" /\ chunk # <<>> /\ Ends(chunk) = {}
  /\ header' = header \o chunk
  /\ chunk' = <<>>
  /\ pc' = "header"
  /\ UNCHANGED <<server, inbox, requests, left, body, bodyLen, ret, errorSeen,
                 history>>

(* Mutant: the empty line is counted to the header and to part_body. *)
HeaderEndsBefore ==
  /\ pc = "search"
  /\ \E e \in Ends(chunk) :
       /\ \A f \in Ends(chunk) : e <= f
       /\ header' = header \o SubSeq(chunk, 1, e)
       /\ chunk' = Rest(chunk, e - SepLen)
  /\ pc' = "fields"
  /\ UNCHANGED <<server, inbox, requests, left, body, bodyLen, ret, errorSeen,
                 history>>

(* What follows the empty line is part_body, here left in chunk. *)
HeaderEnds ==
  /\ pc = "search"
  /\ \E e \in Ends(chunk) :
       /\ \A f \in Ends(chunk) : e <= f
       /\ header' = header \o SubSeq(chunk, 1, e)
       /\ chunk' = Rest(chunk, e)
  /\ pc' = "fields"
  /\ UNCHANGED <<server, inbox, requests, left, body, bodyLen, ret, errorSeen,
                 history>>

(* Mutant: max_buf_len is not looked at. *)
TakeAnyLength ==
  /\ pc = "fields"
  /\ \E k \in Named(header, "length") :
       /\ \A j \in Named(header, "length") : k <= j
       /\ bodyLen' = shape[k].body
       /\ body' = chunk
       /\ IF shape[k].body <= Len(chunk) THEN Return("timeout")
          ELSE pc' = "body" /\ UNCHANGED <<ret, clean>>
  /\ UNCHANGED <<server, inbox, requests, left, chunk, header, errorSeen, smooth>>

(* Content-Length: the buffer must hold it.  When nothing is left to read    *)
(* the call fails, although the response is complete.                        *)
TakeLength ==
  /\ pc = "fields"
  /\ \E k \in Named(header, "length") :
       /\ \A j \in Named(header, "length") : k <= j
       /\ bodyLen' = shape[k].body
       /\ \/ /\ shape[k].body > MaxBufLen
             /\ Return("noBuffer")
             /\ UNCHANGED body
          \/ /\ shape[k].body <= MaxBufLen
             /\ body' = chunk
             /\ IF shape[k].body <= Len(chunk) THEN Return("timeout")
                ELSE pc' = "body" /\ UNCHANGED <<ret, clean>>
  /\ UNCHANGED <<server, inbox, requests, left, chunk, header, errorSeen, smooth>>

(* Chunked: body_buf is set to null, and then read through or written to.   *)
TakeChunked ==
  /\ pc = "fields" /\ Named(header, "length") = {} /\ Named(header, "chunked") # {}
  /\ pc' = "dead"
  /\ UNCHANGED <<server, inbox, requests, left, buffers, ret, errorSeen, history>>

TakeNothing ==
  /\ pc = "fields" /\ Named(header, "length") = {} /\ Named(header, "chunked") = {}
  /\ Return("invalid")
  /\ UNCHANGED <<server, inbox, requests, left, buffers, errorSeen, smooth>>

(* readn_timeout for the rest of the body. *)
ReadBody ==
  LET n == Least(Least(bodyLen - Len(body), ReadBufSize), Len(inbox)) IN
  /\ pc = "body" /\ inbox # <<>>
  /\ body' = body \o SubSeq(inbox, 1, n)
  /\ inbox' = Rest(inbox, n)
  /\ IF Len(body) + n = bodyLen THEN Return("ok")
     ELSE UNCHANGED <<pc, ret, clean>>
  /\ UNCHANGED <<server, requests, left, chunk, header, bodyLen, errorSeen, smooth>>

ReadBodyCut ==
  /\ pc = "body" /\ ReadFails
  /\ Return("timeout")
  /\ UNCHANGED <<server, inbox, requests, left, buffers>>

-----------------------------------------------------------------------------
ServerStep ==
  \/ \E s \in Shapes : Respond(s)
  \/ \E n \in 1 .. Len(pending) : Deliver(n)
  \/ Close \/ Reset

Send ==
  \/ \E n \in 1 .. left : Write(n)
  \/ WriteFails \/ WriteKills \/ WriteTimesOut \/ SendReturns

Recv ==
  \/ ReadHeader \/ ReadHeaderCut \/ NoHeader \/ NextPiece \/ HeaderEnds
  \/ TakeLength \/ TakeChunked \/ TakeNothing
  \/ ReadBody \/ ReadBodyCut

Ended == pc \in {"ended", "dead"} /\ UNCHANGED vars

Next == ServerStep \/ ConnectServer \/ SendRequest \/ Disconnect \/ Send \/ Recv \/ Ended

Spec == Init /\ [][Next]_vars

(* The client runs; whatever it waits for, poll() comes back.  The server   *)
(* need do nothing.                                                         *)
FairSpec == Spec /\ WF_vars(Send \/ Recv)

-----------------------------------------------------------------------------
(* Properties.                                                             *)

Byte == (1 .. Len(shape)) \X Nat

(* Every variable has its type, and nothing is written beyond max_buf_len,  *)
(* also when the connection is out of step: the bytes after the header are  *)
(* copied before they are compared with Content-Length.                     *)
TypeOK ==
  /\ peer \in {"open", "closed", "reset"}
  /\ got \in Nat /\ requests \in 0 .. MaxRequests
  /\ shape \in Seq(Shapes)
  /\ pending \in Seq(Byte) /\ inbox \in Seq(Byte)
  /\ pc \in {"connect", "idle", "send", "header", "search", "fields", "body",
             "ended", "dead"}
  /\ left \in 0 .. RequestLen + 1
  /\ chunk \in Seq(Byte) /\ header \in Seq(Byte)
  /\ body \in Seq(Byte) /\ Len(body) <= MaxBufLen
  /\ bodyLen \in Nat
  /\ ret \in {"none", "ok", "timeout", "invalid", "noBuffer"}
  /\ errorSeen \in BOOLEAN /\ clean \in BOOLEAN /\ smooth \in BOOLEAN

(* While every call has succeeded, recv returns exactly the response to the *)
(* request just sent, however the stream was cut: nothing of another one,   *)
(* nothing missing, nothing twice.  (After a failure the connection is not  *)
(* closed, and a late response is taken for the next one.)                  *)
AnswerExact ==
  pc = "idle" /\ clean /\ requests > 0 =>
    LET s == shape[requests]
        w == Bytes(requests, s)
    IN  /\ header = SubSeq(w, 1, s.head + SepLen)
        /\ body = SubSeq(w, s.head + SepLen + 1, Size(s))
        /\ bodyLen = s.body

(* The part of the body that came with the empty line, in a stream read in  *)
(* full pieces.                                                             *)
PartBody(s) == (ReadBufSize - ((s.head + SepLen) % ReadBufSize)) % ReadBufSize

(* When no read had to wait in vain, the response alone decides what recv   *)
(* returns, and a body that ends with the piece its header ends in is the   *)
(* only one refused without cause.                                          *)
SmoothOutcome ==
  pc = "idle" /\ smooth /\ requests > 0 =>
    LET s == shape[requests]
    IN  ret = IF s.kind # "length" THEN "invalid"
              ELSE IF s.body > MaxBufLen THEN "noBuffer"
              ELSE IF s.body = PartBody(s) THEN "timeout"
              ELSE "ok"

(* A call of send or recv comes to an end, whatever the server does or      *)
(* fails to do: it returns, or it ends the process, as the write to a reset *)
(* connection (HttpClient.cpp:281) and a chunked response (151-182) do.     *)
CallsReturn ==
  pc \in {"send", "header", "search", "fields", "body"} ~> pc \in {"idle", "ended", "dead"}
=============================================================================
