------------------------- MODULE MCWebSocketClients -------------------------
(* WebSocketClients on a small instance.                                   *)
EXTENDS WebSocketClients

\* A UI and a client that wants events only.
SomeHellos == {[wantsRender |-> TRUE, wantsEvents |-> TRUE],
               [wantsRender |-> FALSE, wantsEvents |-> TRUE]}

\* Subscribe to events and leave them, ask for a format, and slow the stream down.
SomeCommands == {[type |-> "events", enabled |-> TRUE, everyN |-> 1],
                 [type |-> "events", enabled |-> FALSE, everyN |-> 1],
                 [type |-> "format", enabled |-> TRUE, everyN |-> 1],
                 [type |-> "stream", enabled |-> TRUE, everyN |-> 2]}
=============================================================================
