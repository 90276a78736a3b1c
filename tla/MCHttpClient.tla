---------------------------- MODULE MCHttpClient ----------------------------
(***************************************************************************)
(* Responses for TLC, with pieces of three bytes and an empty line of two: *)
(* a body of two more reads, one that ends with the piece its header ends  *)
(* in, an empty line cut in two, a body too long, a chunked response, and  *)
(* one without a length.                                                   *)
(***************************************************************************)
EXTENDS HttpClient

Response(k, h, b) == [kind |-> k, head |-> h, body |-> b]

SomeShapes ==
  { Response("length", 3, 5), Response("length", 3, 1), Response("length", 2, 2),
    Response("length", 1, 6), Response("chunked", 1, 1), Response("none", 1, 0) }
=============================================================================
