--------------------------- MODULE HeatingSystemMC ---------------------------
EXTENDS HeatingSystem
CONSTANTS h1, h2, f1

\* Bounds: the heaters beside `watched' are in DEFROST, send their requests in
\* one piece and wait for the reply; the settings of its controller are good,
\* never left half written, and written or reset by button while nobody is
\* connected; and its callbacks come between two requests, but for the loss of
\* the WiFi.  The runs of HeaterConnections and HeaterFirmware have the other
\* cases.
Neighbours == Heaters \ {watched}
NeighboursInDefrost ==
    \A h \in Neighbours :
        target[h] = FALLBACK_HEATER_STATE /\ saved[h] = FALLBACK_HEATER_STATE
NeighboursWait ==
    /\ \A f \in Fds : socket[f].heater \in Neighbours =>
          /\ socket[f].request # "part"
          /\ socket[f].peer = "open"
             \/ (socket[f].peer = "closed" /\ socket[f].request = "read")
    /\ \A i \in DOMAIN backlog :
          backlog[i].heater \in Neighbours => backlog[i].request # "part"
GoodSettings ==
    /\ registration \in {F!NoParams, "good"}
    /\ eeprom.fields \in {0, F!Fields} \/ pc = "programming"
    /\ pc \in {"unregistered", "programming", "resetting"}
       => InUse = {} /\ backlog = <<>>
CallbacksBetweenRequests ==
    /\ requestPending => pc \in {"loop", "check", "resetting"}
    /\ wifi = "associated" => pc = "loop"
=============================================================================
