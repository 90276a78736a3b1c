---------------------------- MODULE MCHttpServer ----------------------------
(***************************************************************************)
(* Instances of HttpServer for TLC: the traffic each run sends, and the    *)
(* symmetry of threads and descriptors (safety runs only).                 *)
(***************************************************************************)
EXTENDS HttpServer, TLC

Kind(wf, ka, hc) == [wellFormed |-> wf, keepAlive |-> ka, hasContent |-> hc]

KeepRequest  == Kind(TRUE, TRUE, TRUE)
CloseRequest == Kind(TRUE, FALSE, TRUE)
EmptyRequest == Kind(TRUE, FALSE, FALSE)
BadRequest   == Kind(FALSE, FALSE, FALSE)

OnlyKeepTraffic  == {KeepRequest}
KeepAliveTraffic == {KeepRequest, BadRequest}
CloseTraffic     == {CloseRequest, EmptyRequest}

Symmetry == Permutations(Threads) \union Permutations(Fds \ HighFds)
=============================================================================
