-------------------------- MODULE MCWebSocketClient --------------------------
EXTENDS WebSocketClient, TLC

CONSTANTS f1, Connects, Disconnects, Subscribes, Unsubscribes

\* How often the user calls each method.
CallBudget ==
    [m \in Methods |-> CASE m = "connect" -> Connects [] m = "disconnect" -> Disconnects
                          [] m = "subscribe" -> Subscribes [] OTHER -> Unsubscribes]
=============================================================================
