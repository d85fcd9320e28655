---------------------------- MODULE MCHttpExchange ----------------------------
(* Three requests over two addresses; a request is written in up to three    *)
(* pieces and the process may hold three sockets.                            *)
EXTENDS HttpExchange

MCAddresses == 2
MCRequest == 3
MCTimeout == 1
MCDescriptors == 3
MCRequests == 3
MCSetback == 1
MCStumbles == 1
=============================================================================
