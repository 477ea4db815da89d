----------------------------- MODULE TrackerLink -----------------------------
(***************************************************************************)
(* What the tracking server promises to those who use it, without sockets,  *)
(* locks and packets' indices: while it is open one tracker at a time may be *)
(* connected, a tracker that connects is handed the latest command at once, *)
(* one that is connected gets every command, and nobody is connected to a   *)
(* closed server.  TrackingServer implements this; AiFunction relies on it. *)
(***************************************************************************)
CONSTANTS
    Packets,    \* the commands that can be sent
    NoPacket    \* none was sent yet

VARIABLES
    open,       \* the server's loop is there
    latest,     \* the latest command
    connected,  \* a tracker is connected
    seen        \* the last command that tracker got

linkVars == <<open, latest, connected, seen>>

----------------------------------------------------------------------------
Init ==
    /\ open = FALSE
    /\ latest = NoPacket
    /\ connected = FALSE
    /\ seen = NoPacket

Open ==
    /\ ~open
    /\ open' = TRUE
    /\ UNCHANGED <<latest, connected, seen>>

\* The server is closed only when its last tracker is gone.
Close ==
    /\ open /\ ~connected
    /\ open' = FALSE
    /\ UNCHANGED <<latest, connected, seen>>

Connect ==
    /\ open /\ ~connected
    /\ connected' = TRUE
    /\ seen' = latest
    /\ UNCHANGED <<open, latest>>

Disconnect ==
    /\ connected
    /\ connected' = FALSE
    /\ seen' = NoPacket
    /\ UNCHANGED <<open, latest>>

\* A command may be sent at any time, to a closed server too.
Post(p) ==
    /\ latest' = p
    /\ seen' = IF connected THEN p ELSE seen
    /\ UNCHANGED <<open, connected>>

Next ==
    \/ Open \/ Close
    \/ Connect \/ Disconnect
    \/ \E p \in Packets : Post(p)

Spec == Init /\ [][Next]_linkVars
=============================================================================
