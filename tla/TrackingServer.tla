--------------------------- MODULE TrackingServer ---------------------------
(***************************************************************************)
(* TrackingServer (src/src/tracking/tracking_server.cpp): the TCP server to *)
(* which the object tracker connects.  A thread executes run_loop: it       *)
(* listens, accepts one client at a time, hands it the latest control       *)
(* command and receives its frames.  Users start and stop the server and    *)
(* send control commands, which are cached for the next client.             *)
(*                                                                         *)
(* _running is atomic, _client_mutex protects _client_fd and the cached     *)
(* packet, and _server_fd, _thread and _control_packet_index are protected  *)
(* by nothing: the steps below are cut where another thread can get in.     *)
(***************************************************************************)
EXTENDS Naturals

CONSTANTS
    Controllers,    \* threads that call start and stop
    Senders,        \* threads that send control commands
    IndexWrap,      \* number of packet indices: 2^8 in the code
    ListenMayFail   \* getaddrinfo, bind or listen may fail

ASSUME UsersAssumption == Controllers \cap Senders = {}
ASSUME IndexAssumption == IndexWrap \in Nat \ {0}
ASSUME ListenAssumption == ListenMayFail \in BOOLEAN

Users == Controllers \cup Senders
Indices == 0 .. IndexWrap - 1

\* enable_detection and disable_tracking send the same packet.
Commands == {"detect", "point"}
Packets == [index : Indices, command : Commands]
NoPacket == [index |-> 0, command |-> "none"]

VARIABLES
    upc,        \* where each user is
    draft,      \* the packet a sender builds
    index,      \* _control_packet_index
    cached,     \* _latest_control_packet
    running,    \* _running
    thread,     \* _thread: no thread, one that runs, one to be joined
    loop,       \* where run_loop is
    serverFd,   \* _server_fd: "none", a bare socket, a listening one
    clientFd,   \* _client_fd # -1
    socket,     \* the client's socket: "none", "open" or "closed"
    peer,       \* the tracker is at the other end of that socket
    got,        \* the last packet the tracker got on that socket
    portTaken,  \* on this host getaddrinfo, bind or listen may fail
    crashed     \* std::terminate was called

userVars == <<upc, draft, index>>
lifeVars == <<running, thread, crashed>>
loopVars == <<loop, serverFd>>
clientVars == <<clientFd, socket, peer>>
packetVars == <<cached, got>>
vars == <<userVars, lifeVars, loopVars, clientVars, packetVars, portTaken>>

----------------------------------------------------------------------------
Step(u, from, to) == upc[u] = from /\ upc' = [upc EXCEPT ![u] = to]

(* Plausible faults of this code, each a variant of the action it names.     *)
(* The checks put one in the place of its action and see a property fail.    *)

\* stop forgets to join the thread.
StopJoin_NoJoin(c) ==
    /\ Step(c, "join", "idle")
    /\ UNCHANGED <<draft, index, lifeVars, loopVars, clientVars, packetVars, portTaken>>

\* The index of a packet is wider than the byte that carries it.
SendLoad_Wide(s, command) ==
    /\ Step(s, "idle", "store")
    /\ draft' = [draft EXCEPT ![s] = [index |-> index + 1, command |-> command]]
    /\ UNCHANGED <<index, lifeVars, loopVars, clientVars, packetVars, portTaken>>

\* The cached command is not handed to a new client.
LoopRegister_NoReplay ==
    /\ loop = "register"
    /\ clientFd' = TRUE
    /\ loop' = "serve"
    /\ UNCHANGED <<userVars, lifeVars, serverFd, socket, peer, packetVars, portTaken>>

\* recv has no timeout: only a tracker that leaves ends handle_client.
LoopHangUp_NoTimeout ==
    /\ loop = "serve"
    /\ ~peer
    /\ socket' = "closed"
    /\ loop' = "unregister"
    /\ UNCHANGED <<userVars, lifeVars, serverFd, clientFd, peer, packetVars, portTaken>>

\* The end of the stream is taken for a timeout.
LoopHangUp_IgnoresEnd ==
    /\ loop = "serve"
    /\ ~running
    /\ socket' = "closed"
    /\ loop' = "unregister"
    /\ UNCHANGED <<userVars, lifeVars, serverFd, clientFd, peer, packetVars, portTaken>>

\* run_loop closes the client's socket and leaves it registered.
LoopUnregister_KeepFd ==
    /\ loop = "unregister"
    /\ socket' = "none"
    /\ loop' = "test"
    /\ UNCHANGED <<userVars, lifeVars, serverFd, clientFd, peer, packetVars, portTaken>>

\* A command is cached only when it cannot be sent.
SendPost_SendOnly(s) ==
    /\ Step(s, "post", "idle")
    /\ cached' = IF clientFd THEN cached ELSE draft[s]
    /\ got' = IF clientFd /\ socket = "open" /\ peer THEN draft[s] ELSE got
    /\ UNCHANGED <<draft, index, lifeVars, loopVars, clientVars, portTaken>>

----------------------------------------------------------------------------
Init ==
    /\ upc = [u \in Users |-> "idle"]
    /\ draft = [s \in Senders |-> NoPacket]
    /\ index = 0
    /\ cached = NoPacket
    /\ running = FALSE
    /\ thread = "none"
    /\ loop = "off"
    /\ serverFd = "none"
    /\ clientFd = FALSE
    /\ socket = "none"
    /\ peer = FALSE
    /\ got = NoPacket
    /\ crashed = FALSE
    /\ portTaken \in {FALSE, ListenMayFail}

(* start *)

\* A server that runs is left alone.
StartAgain(c) ==
    /\ running
    /\ Step(c, "idle", "idle")
    /\ UNCHANGED <<draft, index, lifeVars, loopVars, clientVars, packetVars, portTaken>>

StartCheck(c) ==
    /\ ~running
    /\ Step(c, "idle", "raise")
    /\ UNCHANGED <<draft, index, lifeVars, loopVars, clientVars, packetVars, portTaken>>

StartRaise(c) ==
    /\ Step(c, "raise", "launch")
    /\ running' = TRUE
    /\ UNCHANGED <<draft, index, thread, crashed, loopVars, clientVars, packetVars, portTaken>>

\* The assignment to _thread: a thread that was not joined is the end of the
\* program (std::thread::operator= calls std::terminate).
StartLaunch(c) ==
    /\ Step(c, "launch", "idle")
    /\ IF thread = "none"
         THEN thread' = "alive" /\ loop' = "socket" /\ UNCHANGED crashed
         ELSE crashed' = TRUE /\ UNCHANGED <<thread, loop>>
    /\ UNCHANGED <<draft, index, running, serverFd, clientVars, packetVars, portTaken>>

(* stop *)

\* exchange(false) finds the server stopped: nothing is joined.
StopEarly(c) ==
    /\ ~running
    /\ Step(c, "idle", "idle")
    /\ UNCHANGED <<draft, index, lifeVars, loopVars, clientVars, packetVars, portTaken>>

StopExchange(c) ==
    /\ running
    /\ Step(c, "idle", "shut")
    /\ running' = FALSE
    /\ UNCHANGED <<draft, index, thread, crashed, loopVars, clientVars, packetVars, portTaken>>

\* shutdown and close of the listening socket: accept fails from here on.
StopShut(c) ==
    /\ Step(c, "shut", "join")
    /\ serverFd' = "none"
    /\ UNCHANGED <<draft, index, lifeVars, loop, clientVars, packetVars, portTaken>>

StopJoin(c) ==
    /\ thread # "alive"
    /\ Step(c, "join", "idle")
    /\ thread' = "none"
    /\ UNCHANGED <<draft, index, running, crashed, loopVars, clientVars, packetVars, portTaken>>

(* send_control_command *)

\* The increment of the index, without a mutex: the load ...
SendLoad(s, command) ==
    /\ Step(s, "idle", "store")
    /\ draft' = [draft EXCEPT ![s] = [index |-> (index + 1) % IndexWrap, command |-> command]]
    /\ UNCHANGED <<index, lifeVars, loopVars, clientVars, packetVars, portTaken>>

\* ... and the store.
SendStore(s) ==
    /\ Step(s, "store", "post")
    /\ index' = draft[s].index
    /\ UNCHANGED <<draft, lifeVars, loopVars, clientVars, packetVars, portTaken>>

\* Under the client mutex: cache the packet, and send it if a client is
\* registered.  It arrives if the socket still leads to a tracker.
SendPost(s) ==
    /\ Step(s, "post", "idle")
    /\ cached' = draft[s]
    /\ got' = IF clientFd /\ socket = "open" /\ peer THEN draft[s] ELSE got
    /\ UNCHANGED <<draft, index, lifeVars, loopVars, clientVars, portTaken>>

(* run_loop and handle_client *)

\* getaddrinfo fails, or no socket can be made: the loop ends by itself.
LoopNoSocket ==
    /\ loop = "socket"
    /\ portTaken
    /\ running' = FALSE
    /\ loop' = "off"
    /\ thread' = "ended"
    /\ UNCHANGED <<userVars, crashed, serverFd, clientVars, packetVars, portTaken>>

LoopSocket ==
    /\ loop = "socket"
    /\ serverFd' = "bare"
    /\ loop' = "listen"
    /\ UNCHANGED <<userVars, lifeVars, clientVars, packetVars, portTaken>>

LoopListen ==
    /\ loop = "listen"
    /\ serverFd = "bare"
    /\ serverFd' = "listening"
    /\ loop' = "test"
    /\ UNCHANGED <<userVars, lifeVars, clientVars, packetVars, portTaken>>

\* bind or listen fails, by itself or because stop closed the socket.
LoopNoListen ==
    /\ loop = "listen"
    /\ portTaken \/ serverFd = "none"
    /\ serverFd' = "none"
    /\ running' = FALSE
    /\ loop' = "off"
    /\ thread' = "ended"
    /\ UNCHANGED <<userVars, crashed, clientVars, packetVars, portTaken>>

LoopTest ==
    /\ loop = "test"
    /\ loop' = IF running THEN "accept" ELSE "closing"
    /\ UNCHANGED <<userVars, lifeVars, serverFd, clientVars, packetVars, portTaken>>

\* accept returns a connection, or fails because stop closed the socket;
\* otherwise it blocks.
LoopAccept ==
    /\ loop = "accept"
    /\ serverFd = "listening"
    /\ socket' = "open"
    /\ peer' = TRUE
    /\ got' = NoPacket
    /\ loop' = "register"
    /\ UNCHANGED <<userVars, lifeVars, serverFd, clientFd, cached, portTaken>>

LoopAcceptFails ==
    /\ loop = "accept"
    /\ serverFd = "none"
    /\ loop' = "test"
    /\ UNCHANGED <<userVars, lifeVars, serverFd, clientVars, packetVars, portTaken>>

\* Under the client mutex: the client is registered and gets the cached packet.
LoopRegister ==
    /\ loop = "register"
    /\ clientFd' = TRUE
    /\ got' = IF peer THEN cached ELSE got
    /\ loop' = "serve"
    /\ UNCHANGED <<userVars, lifeVars, serverFd, socket, peer, cached, portTaken>>

\* handle_client returns from recv at least once a second: it ends when the
\* server stops or the tracker has left, and closes the socket.  (The frames it
\* reads in between change none of this state.)
LoopHangUp ==
    /\ loop = "serve"
    /\ ~running \/ ~peer
    /\ socket' = "closed"
    /\ loop' = "unregister"
    /\ UNCHANGED <<userVars, lifeVars, serverFd, clientFd, peer, packetVars, portTaken>>

\* Under the client mutex, after the close.
LoopUnregister ==
    /\ loop = "unregister"
    /\ clientFd' = FALSE
    /\ socket' = "none"
    /\ loop' = "test"
    /\ UNCHANGED <<userVars, lifeVars, serverFd, peer, packetVars, portTaken>>

LoopEnd ==
    /\ loop = "closing"
    /\ serverFd' = "none"
    /\ loop' = "off"
    /\ thread' = "ended"
    /\ UNCHANGED <<userVars, running, crashed, clientVars, packetVars, portTaken>>

\* The tracker disconnects or dies.
PeerLeaves ==
    /\ peer
    /\ peer' = FALSE
    /\ UNCHANGED <<userVars, lifeVars, loopVars, clientFd, socket, packetVars, portTaken>>

----------------------------------------------------------------------------
Start(c) == StartAgain(c) \/ StartCheck(c) \/ StartRaise(c) \/ StartLaunch(c)
Stop(c) == StopEarly(c) \/ StopExchange(c) \/ StopShut(c) \/ StopJoin(c)
Send(s) == (\E command \in Commands : SendLoad(s, command)) \/ SendStore(s) \/ SendPost(s)

Loop ==
    \/ LoopNoSocket \/ LoopSocket \/ LoopNoListen \/ LoopListen
    \/ LoopTest \/ LoopAccept \/ LoopAcceptFails
    \/ LoopRegister \/ LoopHangUp \/ LoopUnregister \/ LoopEnd

Next ==
    /\ ~crashed
    /\ \/ \E c \in Controllers : Start(c) \/ Stop(c)
       \/ \E s \in Senders : Send(s)
       \/ Loop
       \/ PeerLeaves

Spec == Init /\ [][Next]_vars

\* The loop's thread and the users inside a call run whenever they can; no
\* client has to connect, none has to leave and nobody has to call.
Fairness ==
    /\ WF_vars(~crashed /\ Loop /\ ~LoopAccept)
    /\ \A c \in Controllers :
          WF_vars(~crashed /\ (StartRaise(c) \/ StartLaunch(c) \/ StopShut(c) \/ StopJoin(c)))

FairSpec == Spec /\ Fairness

----------------------------------------------------------------------------
(* Properties *)

TypeOK ==
    /\ upc \in [Users -> {"idle", "raise", "launch", "shut", "join", "store", "post"}]
    /\ draft \in [Senders -> Packets \cup {NoPacket}]
    /\ index \in Indices
    /\ cached \in Packets \cup {NoPacket}
    /\ running \in BOOLEAN
    /\ thread \in {"none", "alive", "ended"}
    /\ loop \in {"off", "socket", "listen", "test", "accept", "register", "serve",
                 "unregister", "closing"}
    /\ serverFd \in {"none", "bare", "listening"}
    /\ clientFd \in BOOLEAN
    /\ socket \in {"none", "open", "closed"}
    /\ peer \in BOOLEAN
    /\ got \in Packets \cup {NoPacket}
    /\ crashed \in BOOLEAN
    /\ portTaken \in BOOLEAN

\* A tracker that is registered and still there has got the latest command,
\* whether it was sent before it connected, while it did, or since.
LatestDelivered == clientFd /\ socket = "open" /\ peer => got = cached

\* A server that nobody is starting or stopping and that does not run is quiet:
\* its loop has ended, no port is open and no tracker is registered.
StoppedIsQuiet ==
    ~running /\ (\A c \in Controllers : upc[c] = "idle")
        => loop = "off" /\ serverFd = "none" /\ ~clientFd

\* The program survives every start, unless the host refuses to let it listen:
\* no unjoined thread is overwritten.
TerminatesOnlyUnheard == crashed => portTaken

\* How far the loop is from its end once it is to stop.
LoopLeft ==
    [off |-> 0, closing |-> 1, test |-> 2, accept |-> 3, listen |-> 3, unregister |-> 3,
     serve |-> 4, socket |-> 4, register |-> 5]

\* While stop waits for the loop's thread that only comes nearer to its end,
\* whatever it was doing: no tracker is accepted any more, and none holds it.
StopNears ==
    [][\A c \in Controllers : upc[c] = "join" /\ upc'[c] = "join" =>
          loop' = loop \/ LoopLeft[loop'] < LoopLeft[loop]]_vars

\* stop returns, whatever the loop was doing and whether or not a silent
\* tracker is connected.
StopReturns ==
    \A c \in Controllers : (upc[c] \in {"shut", "join"}) ~> (upc[c] = "idle")

\* A tracker that left makes room for the next one.
GoneTrackerForgotten == (clientFd /\ ~peer) ~> ~clientFd

\* The server as its users see it: a tracker is connected while it is registered
\* and at the other end of an open socket.
Reached == clientFd /\ socket = "open" /\ peer
Link == INSTANCE TrackerLink WITH
    open <- loop # "off",
    latest <- cached,
    connected <- Reached,
    seen <- IF Reached THEN got ELSE NoPacket

\* The server implements TrackerLink: in particular no command overtakes the one
\* that is handed to a new tracker, and nobody stays connected to a loop that
\* has ended.
ImplementsLink == Link!Spec

=============================================================================
