--------------------------- MODULE AiFunctionProofs ---------------------------
(***************************************************************************)
(* Proofs about AiFunction, for any control points, any resolution of their *)
(* coordinates and any faults of the host.                                  *)
(***************************************************************************)
EXTENDS AiFunction, TLAPS

\* The quotient of two naturals, by its meaning.
LEMMA Quotient ==
    ASSUME NEW a \in Nat, NEW b \in Nat \ {0}
    PROVE  /\ a \div b \in Nat
           /\ (a \div b) * b <= a
           /\ a < ((a \div b) + 1) * b
OBVIOUS

\* Scaling a coordinate inside the picture stays inside the picture.
LEMMA Scaled ==
    ASSUME NEW p \in Nat, NEW size \in Nat \ {0}, NEW u \in Nat \ {0}, p < u
    PROVE  (p * size) \div u < size
<1> DEFINE q == (p * size) \div u
<1>1. q \in Nat /\ q * u <= p * size
  BY Quotient
<1>2. SUFFICES ASSUME q >= size PROVE FALSE
  BY <1>1
<1>3. q * u >= size * u
  BY <1>1, <1>2
<1>4. p * size < u * size
  OBVIOUS
<1> QED BY <1>1, <1>3, <1>4

\* A pixel is one of the picture, and the one that is meant.
LEMMA PixelIsRight ==
    ASSUME NEW p \in Int, NEW size \in Nat \ {0}
    PROVE  Pixel(p, size) \in 0 .. size - 1 /\ IsPixelOf(Pixel(p, size), p, size)
<1> USE UnitAssumption
<1>1. CASE p < 0
  <2>1. (0 * size) \div Unit = 0
    OBVIOUS
  <2>2. Pixel(p, size) = 0
    BY <1>1, <2>1 DEF Pixel
  <2> QED BY <1>1, <2>2 DEF IsPixelOf
<1>2. CASE p > Unit \/ p = Unit
  <2>1. (Unit * size) \div Unit = size
    <3> DEFINE q == (Unit * size) \div Unit
    <3>1. q \in Nat /\ q * Unit <= Unit * size /\ Unit * size < (q + 1) * Unit
      BY Quotient
    <3> QED BY <3>1
  <2>2. Pixel(p, size) = size - 1
    BY <1>2, <2>1 DEF Pixel
  <2> QED BY <1>2, <2>2 DEF IsPixelOf
<1>3. CASE p >= 0 /\ p < Unit
  <2> DEFINE q == (p * size) \div Unit
  <2>1. q \in Nat /\ q < size
    BY <1>3, Quotient, Scaled
  <2>2. q * Unit <= p * size /\ p * size < (q + 1) * Unit
    BY <1>3, Quotient
  <2>3. Pixel(p, size) = q
    BY <1>3, <2>1 DEF Pixel
  <2> QED BY <2>1, <2>2, <2>3 DEF IsPixelOf
<1> QED BY <1>1, <1>2, <1>3

\* A control point is a packet.
LEMMA PointIsPacket ==
    ASSUME NEW p \in Points
    PROVE  PointOf(p) \in Packets
<1> DEFINE h   == Height(photo)
           top == Height(TRUE)
           y   == Pixel(p[2], h)
<1>1. p[1] \in Int /\ p[2] \in Int
  BY PointsAssumption
<1>2. Width \in Nat \ {0} /\ h \in Nat \ {0} /\ h <= top /\ top \in Nat
  BY DEF Width, Height
<1> HIDE DEF h, top
<1>3. Pixel(p[1], Width) \in 0 .. Width - 1
  BY <1>1, <1>2, PixelIsRight
<1>4. y \in 0 .. h - 1
  BY <1>1, <1>2, PixelIsRight
<1> HIDE DEF y
<1>5. y \in 0 .. top - 1
  BY <1>2, <1>4
<1> QED BY <1>3, <1>5 DEF PointOf, Packets, h, top, y

\* A control point sent to the trackers is the pixel asked for, for every point
\* and every resolution of the coordinates.
THEOREM ControlPointIsPixel == Spec => PointIsPixel
<1>1. ASSUME NEW p \in Points, TrackPoint(p)
      PROVE  IsPixelOf(latest'.x, p[1], Width) /\ IsPixelOf(latest'.y, p[2], Height(photo))
  <2>1. p[1] \in Int /\ p[2] \in Int
    BY PointsAssumption
  <2>2. latest' = PointOf(p)
    BY <1>1 DEF TrackPoint, Link!Post
  <2>3. Width \in Nat \ {0} /\ Height(photo) \in Nat \ {0}
    BY DEF Width, Height
  <2>4. latest'.x = Pixel(p[1], Width) /\ latest'.y = Pixel(p[2], Height(photo))
    BY <2>2 DEF PointOf
  <2> QED BY <2>1, <2>3, <2>4, PixelIsRight
<1>2. [Next]_vars => [\A p \in Points : TrackPoint(p) =>
          /\ IsPixelOf(latest'.x, p[1], Width)
          /\ IsPixelOf(latest'.y, p[2], Height(photo))]_vars
  BY <1>1
<1> QED BY <1>2, PTL DEF Spec, PointIsPixel

----------------------------------------------------------------------------
(* Types *)

\* The caller's variables, those of server, services and screen, and those of the
\* link and the host.
CallTypes ==
    /\ pc \in {"idle", "off", "stop detection", "stop tracking", "stop server", "join", "wipe",
               "stop other", "start server", "start service", "undo server", "undo join", "undo",
               "detect", "commit"}
    /\ want \in Modes /\ setting \in Modes
    /\ ok \in BOOLEAN /\ photo \in BOOLEAN /\ mine \in BOOLEAN

ServerTypes ==
    /\ services \subseteq Services
    /\ running \in BOOLEAN /\ joinable \in BOOLEAN /\ listening \in BOOLEAN
    /\ client \in Services \cup {"none"} /\ registered \in BOOLEAN
    /\ peer \in BOOLEAN /\ inflight \in BOOLEAN /\ reading \in BOOLEAN
    /\ frame \in BOOLEAN /\ held \in BOOLEAN /\ boxes \in BOOLEAN
    /\ rpc \in {"idle", "copy", "draw"}

LinkTypes ==
    /\ late \in BOOLEAN /\ crashed \in BOOLEAN
    /\ faults \subseteq Faults
    /\ open \in BOOLEAN /\ connected \in BOOLEAN
    /\ latest \in Packets \cup {NoPacket} /\ seen \in Packets \cup {NoPacket}

\* The type invariant falls into the three groups.
LEMMA TypeParts == TypeOK <=> CallTypes /\ ServerTypes /\ LinkTypes
BY DEF TypeOK, CallTypes, ServerTypes, LinkTypes

\* The initial state is well typed.
LEMMA TypesInit == Init => TypeOK
<1> SUFFICES ASSUME Init PROVE CallTypes /\ ServerTypes /\ LinkTypes
  BY TypeParts
<1>1. CallTypes
  BY DEF Init, CallTypes, Modes
<1>2. ServerTypes
  BY DEF Init, ServerTypes
<1>3. LinkTypes
  <2>1. faults \subseteq Faults
    BY DEF Init
  <2> QED BY <2>1 DEF Init, LinkTypes, Link!Init
<1> QED BY <1>1, <1>2, <1>3

\* Server, services and screen leave the caller's variables alone.
LEMMA CallerAlone ==
    ASSUME \/ Server \/ PeerSends \/ PeerLeaves \/ Render
           \/ \E s \in Services : Accept(s)
           \/ UNCHANGED vars
    PROVE  UNCHANGED <<callVars, settingVars, mine>>
<1>1. CASE Server
  BY <1>1 DEF Server, Listen, ListenFails, Register, ReadBegin, Receive, ReceiveNothing,
       HangUp, LoopEnds
<1>2. CASE Render
  BY <1>2 DEF Render, RenderTest, RenderCopy, RenderDraw
<1> QED BY <1>1, <1>2 DEF PeerSends, PeerLeaves, Accept, vars

\* Every step keeps the types of the caller's variables ...
LEMMA CallTypesNext == CallTypes /\ [Next]_vars => CallTypes'
<1> SUFFICES ASSUME CallTypes, [Next]_vars PROVE CallTypes'
  OBVIOUS
<1> USE DEF Step, CallTypes, settingVars
<1>1. ASSUME NEW mode \in Modes, Switch(mode) PROVE CallTypes'
  BY <1>1 DEF Switch
<1>2. CASE Off \/ OffDetection \/ OffTracking
  BY <1>2 DEF Off, OffDetection, OffTracking, Modes
<1>3. CASE StopEarly \/ StopServer \/ JoinServer \/ Wipe
  BY <1>3 DEF StopEarly, StopServer, JoinServer, Wipe
<1>4. CASE StopOther \/ StartServer \/ StartService \/ StartServiceFails
  BY <1>4 DEF StopOther, StartServer, StartService, StartServiceFails
<1>5. CASE Undo \/ EnableDetection \/ Commit
  BY <1>5 DEF Undo, EnableDetection, Commit, Modes
<1>6. ASSUME NEW p \in Points, TrackPoint(p) PROVE CallTypes'
  BY <1>6 DEF TrackPoint
<1>7. CASE DisableTracking \/ SetCameraMode
  BY <1>7 DEF DisableTracking, SetCameraMode
<1>8. CASE UNCHANGED <<callVars, settingVars, mine>>
  BY <1>8 DEF callVars
<1> QED
  BY <1>1, <1>2, <1>3, <1>4, <1>5, <1>6, <1>7, <1>8, CallerAlone DEF Next, SetAiFunction, Control

\* ... of server, services and screen ...
LEMMA ServerTypesNext == ServerTypes /\ [Next]_vars => ServerTypes'
<1> SUFFICES ASSUME ServerTypes, [Next]_vars PROVE ServerTypes'
  OBVIOUS
<1> USE DEF ServerTypes, serverVars, connVars, drawVars
<1>1. ASSUME NEW s, StopService(s), UNCHANGED <<serverVars, frame, drawVars>> PROVE ServerTypes'
  <2>1. UNCHANGED <<client, inflight, reading>> /\ services' \subseteq services
    BY <1>1 DEF StopService
  <2>2. peer' \in BOOLEAN /\ registered' = registered
    BY <1>1 DEF StopService
  <2> QED BY <1>1, <2>1, <2>2
<1>2. CASE OffDetection \/ OffTracking \/ StopOther
  BY <1>1, <1>2 DEF OffDetection, OffTracking, StopOther
<1>3. CASE StopServer \/ JoinServer \/ Wipe \/ StartServer
  <2>1. UNCHANGED <<services, connVars, frame, rpc, held>> /\ boxes' \in BOOLEAN
    BY <1>3 DEF StopServer, JoinServer, Wipe, StartServer
  <2>2. running' \in BOOLEAN /\ joinable' \in BOOLEAN /\ listening' \in BOOLEAN
    BY <1>3 DEF StopServer, JoinServer, Wipe, StartServer
  <2> QED BY <2>1, <2>2
<1>4. CASE StartService
  <2>1. ServiceOf(want) \in Services
    BY DEF ServiceOf, Services
  <2>2. services' \subseteq Services /\ UNCHANGED <<serverVars, connVars, frame, drawVars>>
    BY <1>4, <2>1 DEF StartService
  <2> QED BY <2>2
<1>5. ASSUME NEW mode \in Modes, Switch(mode) PROVE ServerTypes'
  <2>1. frame' = FALSE /\ UNCHANGED <<services, serverVars, connVars, drawVars>>
    BY <1>5 DEF Switch
  <2> QED BY <2>1
<1>6. CASE UNCHANGED <<services, serverVars, connVars, frame, drawVars>>
  BY <1>6
<1>7. CASE Server
  <2>1. UNCHANGED <<services, joinable, drawVars>>
    BY <1>7 DEF Server, Listen, ListenFails, Register, ReadBegin, Receive, ReceiveNothing,
       HangUp, LoopEnds
  <2>2. running' \in BOOLEAN /\ listening' \in BOOLEAN /\ frame' \in BOOLEAN
    BY <1>7 DEF Server, Listen, ListenFails, Register, ReadBegin, Receive, ReceiveNothing,
       HangUp, LoopEnds
  <2>3. /\ client' \in Services \cup {"none"} /\ registered' \in BOOLEAN
        /\ peer' \in BOOLEAN /\ inflight' \in BOOLEAN /\ reading' \in BOOLEAN
    BY <1>7 DEF Server, Listen, ListenFails, Register, ReadBegin, Receive, ReceiveNothing,
       HangUp, LoopEnds
  <2> QED BY <2>1, <2>2, <2>3
<1>8. ASSUME NEW s \in Services, Accept(s) PROVE ServerTypes'
  BY <1>8 DEF Accept
<1>9. CASE PeerSends \/ PeerLeaves
  <2>1. UNCHANGED <<services, serverVars, client, registered, reading, frame, drawVars>>
    BY <1>9 DEF PeerSends, PeerLeaves
  <2>2. peer' \in BOOLEAN /\ inflight' \in BOOLEAN
    BY <1>9 DEF PeerSends, PeerLeaves
  <2> QED BY <2>1, <2>2
<1>10. CASE Render
  <2>1. UNCHANGED <<services, serverVars, connVars, frame>>
    BY <1>10 DEF Render, RenderTest, RenderCopy, RenderDraw
  <2>2. rpc' \in {"idle", "copy", "draw"} /\ held' \in BOOLEAN /\ boxes' \in BOOLEAN
    BY <1>10 DEF Render, RenderTest, RenderCopy, RenderDraw
  <2> QED BY <2>1, <2>2
<1>11. ASSUME \/ Off \/ StopEarly \/ StartServiceFails \/ Undo \/ EnableDetection \/ Commit
              \/ Control \/ UNCHANGED vars
       PROVE  UNCHANGED <<services, serverVars, connVars, frame, drawVars>>
  BY <1>11 DEF Off, StopEarly, StartServiceFails, Undo, EnableDetection, Commit, Control,
     TrackPoint, DisableTracking, SetCameraMode, vars
<1> QED
  BY <1>2, <1>3, <1>4, <1>5, <1>6, <1>7, <1>8, <1>9, <1>10, <1>11 DEF Next, SetAiFunction

\* ... and, given the camera mode's type, of link and host.
LEMMA LinkTypesNext == TypeOK /\ [Next]_vars => LinkTypes'
<1> SUFFICES ASSUME TypeOK, [Next]_vars PROVE LinkTypes'
  OBVIOUS
<1> LinkTypes /\ ServerTypes
  BY TypeParts
<1> USE DEF LinkTypes, hostVars, linkVars
<1>1. ASSUME NEW p \in Packets, Link!Post(p), UNCHANGED <<late, hostVars>> PROVE LinkTypes'
  BY <1>1 DEF Link!Post
<1>2. CASE EnableDetection \/ DisableTracking
  <2>1. Detect \in Packets
    BY DEF Detect, Packets
  <2> QED BY <1>1, <1>2, <2>1 DEF EnableDetection, DisableTracking
<1>3. ASSUME NEW p \in Points, TrackPoint(p) PROVE LinkTypes'
  BY <1>1, <1>3, PointIsPacket DEF TrackPoint
<1>4. ASSUME NEW s, StopService(s), UNCHANGED <<late, hostVars>> PROVE LinkTypes'
  BY <1>4 DEF StopService, Link!Disconnect
<1>5. CASE OffDetection \/ OffTracking \/ StopOther
  BY <1>4, <1>5 DEF OffDetection, OffTracking, StopOther
<1>6. CASE Wipe
  BY <1>6 DEF Wipe
<1>7. CASE StartServer
  BY <1>7 DEF StartServer, Link!Open
<1>8. CASE ListenFails \/ LoopEnds
  BY <1>8 DEF ListenFails, LoopEnds, Link!Close
<1>9. CASE HangUp \/ PeerLeaves
  BY <1>9 DEF HangUp, PeerLeaves, Link!Disconnect
<1>10. CASE Register
  BY <1>10 DEF Register, Link!Connect
<1>11. CASE UNCHANGED <<late, hostVars, linkVars>>
  BY <1>11
<1>12. ASSUME \/ \E mode \in Modes : Switch(mode)
              \/ Off \/ StopEarly \/ StopServer \/ JoinServer \/ StartService
              \/ StartServiceFails \/ Undo \/ Commit \/ SetCameraMode \/ Listen
              \/ ReadBegin \/ Receive \/ ReceiveNothing \/ PeerSends \/ Render \/ UNCHANGED vars
              \/ \E s \in Services : Accept(s)
       PROVE  UNCHANGED <<late, hostVars, linkVars>>
  BY <1>12 DEF Switch, Off, StopEarly, StopServer, JoinServer, StartService, StartServiceFails,
     Undo, Commit, SetCameraMode, Listen, Accept, ReadBegin, Receive, ReceiveNothing, PeerSends,
     Render, RenderTest, RenderCopy, RenderDraw, vars
<1> QED
  BY <1>2, <1>3, <1>5, <1>6, <1>7, <1>8, <1>9, <1>10, <1>11, <1>12
     DEF Next, SetAiFunction, Control, Server

\* Every step keeps the types.
LEMMA TypesNext == TypeOK /\ [Next]_vars => TypeOK'
<1>1. CallTypes' /\ ServerTypes' /\ LinkTypes' => TypeOK'
  BY DEF TypeOK, CallTypes, ServerTypes, LinkTypes
<1> QED BY <1>1, TypeParts, CallTypesNext, ServerTypesNext, LinkTypesNext

\* Every variable of the AI function keeps its type; in particular a control
\* point never leaves the picture.
THEOREM TypeCorrect == Spec => []TypeOK
BY TypesInit, TypesNext, PTL DEF Spec

----------------------------------------------------------------------------
(* The server and its connection *)

\* A connection is that of an open server, a tracker at the other end of one that
\* is registered is a connected one, and an open server that is not to run is being waited for.
LoopInv ==
    /\ client # "none" => open /\ listening
    /\ connected <=> peer /\ registered
    /\ peer => client # "none"
    /\ registered => client # "none"
    /\ ~crashed /\ running => open
    /\ open /\ ~running => pc \in {"join", "undo join"}
    /\ pc \in {"join", "undo join", "wipe", "undo"} => ~running

\* The server does not run at the start.
LEMMA LoopInvInit == Init => LoopInv
BY DEF Init, LoopInv, Link!Init

\* Stopping a service disconnects it at most.
LEMMA StopServiceLoop ==
    ASSUME TypeOK, LoopInv, NEW s, StopService(s)
    PROVE  /\ UNCHANGED <<client, registered, open>>
           /\ connected' <=> peer' /\ registered'
           /\ peer' => peer
<1>1. CASE UNCHANGED <<services, connVars, linkVars>>
  BY <1>1 DEF LoopInv, connVars, linkVars
<1>2. ASSUME peer' = (peer /\ client # s), UNCHANGED <<client, registered>>,
             IF peer /\ client = s /\ registered THEN Link!Disconnect ELSE UNCHANGED linkVars
      PROVE  /\ UNCHANGED open
             /\ connected' <=> peer' /\ registered'
             /\ peer' => peer
  <2>1. CASE peer /\ client = s /\ registered
    BY <1>2, <2>1 DEF Link!Disconnect
  <2>2. CASE ~(peer /\ client = s)
    <3>1. peer' = peer /\ open' = open /\ connected' = connected /\ registered' = registered
      BY <1>2, <2>2, TypeParts DEF linkVars, ServerTypes
    <3> QED BY <3>1 DEF LoopInv
  <2>3. CASE peer /\ client = s /\ ~registered
    <3>1. ~connected' /\ open' = open
      BY <1>2, <2>3 DEF linkVars, LoopInv
    <3> QED BY <1>2, <2>3, <3>1
  <2> QED BY <2>1, <2>2, <2>3
<1> QED BY <1>1, <1>2 DEF StopService

\* Every step keeps what is said of server and connection.
LEMMA LoopInvNext == TypeOK /\ LoopInv /\ [Next]_vars => LoopInv'
<1> SUFFICES ASSUME TypeOK, LoopInv, [Next]_vars PROVE LoopInv'
  OBVIOUS
<1> CallTypes /\ ServerTypes /\ LinkTypes
  BY TypeParts
<1> USE DEF LoopInv, Step
<1>1. ASSUME NEW mode \in Modes, Switch(mode) PROVE LoopInv'
  BY <1>1 DEF Switch, serverVars, connVars, hostVars, linkVars
<1>2. CASE OffDetection \/ OffTracking \/ StopOther
  <2>1. \E s \in Services : StopService(s)
    BY <1>2 DEF OffDetection, OffTracking, StopOther, OtherService, Services
  <2>2. UNCHANGED <<serverVars, hostVars>> /\ pc' \notin {"join", "undo join", "wipe", "undo"}
        /\ pc \notin {"join", "undo join"}
    BY <1>2 DEF OffDetection, OffTracking, StopOther
  <2> QED BY <2>1, <2>2, StopServiceLoop DEF serverVars, hostVars
<1>3. CASE StopEarly \/ StopServer
  <2>1. CASE StopEarly
    BY <2>1 DEF StopEarly, serverVars, connVars, hostVars, linkVars
  <2>2. CASE StopServer
    BY <2>2 DEF StopServer, serverVars, connVars, hostVars, linkVars
  <2> QED BY <1>3, <2>1, <2>2
<1>4. CASE JoinServer \/ Wipe
  <2>1. CASE JoinServer
    BY <2>1 DEF JoinServer, serverVars, connVars, hostVars, linkVars
  <2>2. CASE Wipe
    BY <2>2 DEF Wipe, serverVars, connVars, hostVars, linkVars
  <2> QED BY <1>4, <2>1, <2>2
<1>5. CASE StartServer
  <2>1. UNCHANGED connVars /\ pc = "start server" /\ pc' = "start service"
    BY <1>5 DEF StartServer
  <2>2. CASE running /\ UNCHANGED <<serverVars, crashed, linkVars>>
    BY <2>1, <2>2 DEF serverVars, connVars, linkVars
  <2>3. CASE ~running /\ running' /\ crashed' /\ UNCHANGED linkVars
    BY <2>1, <2>3 DEF connVars, linkVars
  <2>4. CASE ~running /\ running' /\ Link!Open
    BY <2>1, <2>4 DEF connVars, Link!Open
  <2>5. \/ running /\ UNCHANGED <<serverVars, crashed, linkVars>>
        \/ ~running /\ running' /\ crashed' /\ UNCHANGED linkVars
        \/ ~running /\ running' /\ Link!Open
    BY <1>5 DEF StartServer
  <2> QED BY <2>2, <2>3, <2>4, <2>5
<1>6. CASE Off \/ StartService \/ StartServiceFails
  <2>1. CASE Off
    BY <2>1 DEF Off, serverVars, connVars, hostVars, linkVars
  <2>2. CASE StartService
    BY <2>2 DEF StartService, serverVars, connVars, hostVars, linkVars
  <2>3. CASE StartServiceFails
    BY <2>3 DEF StartServiceFails, serverVars, connVars, hostVars, linkVars
  <2> QED BY <1>6, <2>1, <2>2, <2>3
<1>7. CASE Undo \/ Commit \/ SetCameraMode
  <2>1. CASE Undo
    BY <2>1 DEF Undo, serverVars, connVars, hostVars, linkVars
  <2>2. CASE Commit
    BY <2>2 DEF Commit, serverVars, connVars, hostVars, linkVars
  <2>3. CASE SetCameraMode
    BY <2>3 DEF SetCameraMode, serverVars, connVars, hostVars, linkVars
  <2> QED BY <1>7, <2>1, <2>2, <2>3
<1>8. CASE EnableDetection \/ DisableTracking
  <2>1. CASE EnableDetection
    BY <2>1 DEF EnableDetection, Link!Post, serverVars, connVars, hostVars
  <2>2. CASE DisableTracking
    BY <2>2 DEF DisableTracking, Link!Post, serverVars, connVars, hostVars
  <2> QED BY <1>8, <2>1, <2>2
<1>9. ASSUME NEW p \in Points, TrackPoint(p) PROVE LoopInv'
  BY <1>9 DEF TrackPoint, Link!Post, serverVars, connVars, hostVars
<1>10. CASE Listen \/ ListenFails \/ LoopEnds
  <2>1. CASE Listen
    BY <2>1 DEF Listen, callVars, connVars, hostVars, linkVars
  <2>2. CASE ListenFails
    <3>1. client = "none" /\ client' = "none" /\ pc' = pc /\ ~running' /\ ~open'
      BY <2>2 DEF ListenFails, callVars, connVars, Link!Close
    <3>2. ~peer' /\ ~connected' /\ ~registered'
      BY <2>2, <3>1 DEF ListenFails, connVars, Link!Close
    <3>3. pc' \in {"join", "undo join", "wipe", "undo"} => ~running'
      BY <3>1
    <3> QED BY <3>1, <3>2
  <2>3. CASE LoopEnds
    BY <2>3 DEF LoopEnds, callVars, serverVars, connVars, hostVars, Link!Close
  <2> QED BY <1>10, <2>1, <2>2, <2>3
<1>11. ASSUME NEW s \in Services, Accept(s) PROVE LoopInv'
  <2>1. /\ pc' = pc /\ running' = running /\ crashed' = crashed /\ open' = open
        /\ open /\ running /\ client' = s /\ listening'
    BY <1>11 DEF Accept, callVars, serverVars, hostVars, linkVars
  <2>2. ~registered' /\ ~connected'
    BY <1>11 DEF Accept, linkVars
  <2>3. client' # "none"
    BY <2>1 DEF Services
  <2> QED BY <2>1, <2>2, <2>3
<1>16. CASE Register
  <2>1. /\ pc' = pc /\ running' = running /\ crashed' = crashed
        /\ listening' = listening /\ client' = client /\ peer' = peer
        /\ client # "none" /\ registered' /\ ~registered
    BY <1>16 DEF Register, callVars, serverVars, hostVars
  <2>2. open' = open
    BY <1>16 DEF Register, Link!Connect, linkVars
  <2>3. connected' <=> peer'
    <3>1. CASE peer
      <4>1. connected'
        BY <1>16, <3>1 DEF Register, Link!Connect
      <4> QED BY <2>1, <3>1, <4>1
    <3>2. CASE ~peer
      <4>1. ~connected /\ connected' = connected
        BY <1>16, <3>2 DEF Register, linkVars
      <4> QED BY <2>1, <3>2, <4>1
    <3> QED BY <3>1, <3>2
  <2> QED BY <2>1, <2>2, <2>3
<1>12. CASE PeerSends \/ ReadBegin \/ Receive \/ ReceiveNothing
  <2>1. CASE PeerSends
    BY <2>1 DEF PeerSends, callVars, serverVars, hostVars, linkVars
  <2>2. CASE ReadBegin
    BY <2>2 DEF ReadBegin, callVars, serverVars, hostVars, linkVars
  <2>3. CASE Receive
    BY <2>3 DEF Receive, callVars, serverVars, hostVars, linkVars
  <2>4. CASE ReceiveNothing
    BY <2>4 DEF ReceiveNothing, callVars, serverVars, hostVars, linkVars
  <2> QED BY <1>12, <2>1, <2>2, <2>3, <2>4
<1>13. CASE PeerLeaves \/ HangUp
  <2>1. UNCHANGED <<pc, running, crashed, listening>> /\ ~peer'
    BY <1>13 DEF PeerLeaves, HangUp, callVars, serverVars, hostVars
  <2>2. ~connected' /\ open' = open
    BY <1>13 DEF PeerLeaves, HangUp, Link!Disconnect, linkVars
  <2>3. UNCHANGED <<client, registered>> \/ (client' = "none" /\ ~registered')
    BY <1>13 DEF PeerLeaves, HangUp
  <2>4. CASE UNCHANGED <<client, registered>>
    BY <2>1, <2>2, <2>4
  <2>5. CASE client' = "none" /\ ~registered'
    BY <2>1, <2>2, <2>5
  <2> QED BY <2>3, <2>4, <2>5
<1>14. CASE Render
  <2>1. CASE RenderTest
    BY <2>1 DEF RenderTest, callVars, serverVars, connVars, hostVars, linkVars
  <2>2. CASE RenderCopy
    BY <2>2 DEF RenderCopy, callVars, serverVars, connVars, hostVars, linkVars
  <2>3. CASE RenderDraw
    BY <2>3 DEF RenderDraw, callVars, serverVars, connVars, hostVars, linkVars
  <2> QED BY <1>14, <2>1, <2>2, <2>3 DEF Render
<1>15. CASE UNCHANGED vars
  BY <1>15 DEF vars, callVars, serverVars, connVars, hostVars, linkVars
<1> QED
  BY <1>1, <1>2, <1>3, <1>4, <1>5, <1>6, <1>7, <1>8, <1>9, <1>10, <1>11, <1>12, <1>13, <1>14,
     <1>15, <1>16 DEF Next, SetAiFunction, Control, Server

----------------------------------------------------------------------------
(* The mode *)

\* Where the caller is tells what it wants and whether the server is to run.
ModeInv ==
    /\ pc \in {"off", "stop detection", "stop tracking", "stop server", "join", "wipe"}
          => want = "0"
    /\ pc \in {"stop other", "start server", "start service", "undo server", "undo join",
               "undo", "detect"} => want # "0"
    /\ pc = "detect" => want = "2"
    /\ pc \in {"stop detection", "stop tracking", "stop server", "join", "wipe"}
          => setting = "0"
    /\ pc = "commit" /\ want = "0" => setting = "0" /\ ~running
    /\ pc = "idle" /\ setting = "0" => ~running

\* On a host that lets the server listen, it runs once it was started ...
RunInv ==
    "listen" \notin faults =>
        /\ pc \in {"start service", "detect"} => running
        /\ pc = "commit" /\ want # "0" => running
        /\ pc = "idle" /\ setting # "0" => running

\* ... and on one that stops services when it is asked to, the services that run
\* are those that the caller has left running so far.
ServiceInv ==
    "stop" \notin faults =>
        /\ pc \in {"stop tracking", "stop server", "join", "wipe"}
              => "object_detection" \notin services
        /\ pc \in {"stop server", "join", "wipe", "undo server", "undo join", "undo"}
              => services = {}
        /\ pc \in {"start server", "start service"} => services \subseteq {ServiceOf(want)}
        /\ pc = "detect" => services = {ServiceOf(want)}
        /\ pc = "commit" => services = IF want = "0" THEN {} ELSE {ServiceOf(want)}
        /\ pc = "idle" => services = IF setting = "0" THEN {} ELSE {ServiceOf(setting)}

\* At the start the AI function is being switched off.
LEMMA ModeInvInit == Init => ModeInv /\ RunInv /\ ServiceInv
BY DEF Init, ModeInv, RunInv, ServiceInv

\* Server, services' sockets and screen leave the mode alone, and the server
\* stops by itself only where it may not listen.
LEMMA ModeAlone ==
    ASSUME \/ Server \/ PeerSends \/ PeerLeaves \/ Render
           \/ \E s \in Services : Accept(s)
           \/ UNCHANGED vars
    PROVE  /\ UNCHANGED <<pc, want, setting, services, faults>>
           /\ UNCHANGED running \/ ("listen" \in faults /\ ~running')
<1>1. UNCHANGED <<pc, want, setting>>
  BY CallerAlone DEF callVars, settingVars
<1>2. CASE Server
  BY <1>1, <1>2 DEF Server, Listen, ListenFails, Register, ReadBegin, Receive, ReceiveNothing, HangUp,
     LoopEnds, serverVars, hostVars
<1>3. CASE Render
  BY <1>1, <1>3 DEF Render, RenderTest, RenderCopy, RenderDraw, serverVars, hostVars
<1>4. CASE PeerSends \/ PeerLeaves \/ UNCHANGED vars
  BY <1>1, <1>4 DEF PeerSends, PeerLeaves, serverVars, hostVars, vars
<1>5. ASSUME NEW s \in Services, Accept(s)
      PROVE UNCHANGED <<services, faults>> /\ UNCHANGED running
  BY <1>5 DEF Accept, serverVars, hostVars
<1> QED BY <1>1, <1>2, <1>3, <1>4, <1>5

\* Every step keeps what is said of the mode, the server ...
LEMMA ModeInvNext == TypeOK /\ LoopInv /\ ModeInv /\ RunInv /\ [Next]_vars => ModeInv' /\ RunInv'
<1> SUFFICES ASSUME TypeOK, LoopInv, ModeInv, RunInv, [Next]_vars PROVE ModeInv' /\ RunInv'
  OBVIOUS
<1> CallTypes
  BY TypeParts
<1> USE DEF ModeInv, RunInv, Step, serverVars, hostVars
<1>1. ASSUME NEW mode \in Modes, Switch(mode) PROVE ModeInv' /\ RunInv'
  BY <1>1 DEF Switch, settingVars
<1>2. CASE Off \/ OffDetection \/ OffTracking
  <2>1. CASE Off
    BY <2>1 DEF Off, settingVars
  <2>2. CASE OffDetection
    BY <2>2 DEF OffDetection, settingVars
  <2>3. CASE OffTracking
    BY <2>3 DEF OffTracking, settingVars
  <2> QED BY <1>2, <2>1, <2>2, <2>3
<1>3. CASE StopEarly \/ StopServer \/ JoinServer
  <2>1. CASE StopEarly
    BY <2>1 DEF StopEarly, settingVars
  <2>2. CASE StopServer
    BY <2>2 DEF StopServer, settingVars
  <2>3. CASE JoinServer
    BY <2>3 DEF JoinServer, settingVars
  <2> QED BY <1>3, <2>1, <2>2, <2>3
<1>4. CASE Wipe
  BY <1>4 DEF Wipe, settingVars, LoopInv
<1>5. CASE StopOther \/ StartServer
  <2>1. CASE StopOther
    BY <2>1 DEF StopOther, settingVars
  <2>2. CASE StartServer
    BY <2>2 DEF StartServer, settingVars
  <2> QED BY <1>5, <2>1, <2>2
<1>6. CASE StartService \/ StartServiceFails
  <2>1. CASE StartService
    BY <2>1 DEF StartService, settingVars, CallTypes, Modes
  <2>2. CASE StartServiceFails
    BY <2>2 DEF StartServiceFails, settingVars, CallTypes, Modes
  <2> QED BY <1>6, <2>1, <2>2
<1>7. CASE Undo
  BY <1>7 DEF Undo, LoopInv
<1>8. CASE EnableDetection \/ Commit
  <2>1. CASE EnableDetection
    BY <2>1 DEF EnableDetection, settingVars
  <2>2. CASE Commit
    BY <2>2 DEF Commit, settingVars
  <2> QED BY <1>8, <2>1, <2>2
<1>9. ASSUME NEW p \in Points, TrackPoint(p) PROVE ModeInv' /\ RunInv'
  BY <1>9 DEF TrackPoint, settingVars
<1>10. CASE DisableTracking \/ SetCameraMode
  <2>1. CASE DisableTracking
    BY <2>1 DEF DisableTracking, settingVars
  <2>2. CASE SetCameraMode
    BY <2>2 DEF SetCameraMode, settingVars
  <2> QED BY <1>10, <2>1, <2>2
<1>11. CASE \/ Server \/ PeerSends \/ PeerLeaves \/ Render
            \/ \E s \in Services : Accept(s)
            \/ UNCHANGED vars
  <2>1. /\ pc' = pc /\ want' = want /\ setting' = setting /\ faults' = faults
        /\ running' = running \/ ("listen" \in faults /\ ~running')
    BY <1>11, ModeAlone
  <2>2. CASE running' = running
    BY <2>1, <2>2
  <2>3. CASE "listen" \in faults /\ ~running'
    BY <2>1, <2>3
  <2> QED BY <2>1, <2>2, <2>3
<1> QED
  BY <1>1, <1>2, <1>3, <1>4, <1>5, <1>6, <1>7, <1>8, <1>9, <1>10, <1>11
     DEF Next, SetAiFunction, Control

\* Where a service is asked to stop it does.
LEMMA ServiceStops ==
    ASSUME NEW s, StopService(s), "stop" \notin faults
    PROVE  services' = services \ {s}
BY DEF StopService

\* What may fail on a host stays as it is.
LEMMA FaultsStay == [Next]_vars => faults' = faults
<1> SUFFICES ASSUME [Next]_vars PROVE faults' = faults
  OBVIOUS
<1> USE DEF hostVars
<1>1. ASSUME NEW mode \in Modes, Switch(mode) PROVE faults' = faults
  BY <1>1 DEF Switch
<1>2. ASSUME SetAiFunction PROVE faults' = faults
  BY <1>2 DEF SetAiFunction, Off, OffDetection, OffTracking, StopEarly, StopServer, JoinServer,
     Wipe, StopOther, StartServer, StartService, StartServiceFails, Undo, EnableDetection, Commit
<1>3. ASSUME Control PROVE faults' = faults
  BY <1>3 DEF Control, TrackPoint, DisableTracking, SetCameraMode
<1>4. CASE \/ Server \/ PeerSends \/ PeerLeaves \/ Render
           \/ \E s \in Services : Accept(s)
           \/ UNCHANGED vars
  BY <1>4, ModeAlone
<1> QED BY <1>1, <1>2, <1>3, <1>4 DEF Next

\* ... and the services.
LEMMA ServiceInvNext == TypeOK /\ ModeInv /\ ServiceInv /\ [Next]_vars => ServiceInv'
<1> SUFFICES ASSUME TypeOK, ModeInv, ServiceInv, [Next]_vars, "stop" \notin faults
             PROVE  ServiceInv'
  BY FaultsStay DEF ServiceInv
<1>a. CallTypes /\ services \subseteq Services
  BY TypeParts DEF ServerTypes
<1> USE DEF ServiceInv, Step, ServiceOf
<1>1. ASSUME NEW mode \in Modes, Switch(mode) PROVE ServiceInv'
  BY <1>1, <1>a DEF Switch, settingVars, hostVars, Modes, CallTypes
<1>2. CASE Off
  BY <1>2 DEF Off
<1>3. CASE OffDetection
  BY <1>3, ServiceStops DEF OffDetection
<1>4. CASE OffTracking
  BY <1>4, <1>a, ServiceStops DEF OffTracking, Services
<1>5. CASE StopEarly
  BY <1>5 DEF StopEarly
<1>6. CASE StopServer
  BY <1>6 DEF StopServer
<1>7. CASE JoinServer
  BY <1>7 DEF JoinServer
<1>8. CASE Wipe
  BY <1>8, <1>a DEF Wipe, ModeInv
<1>9. CASE StopOther
  <2>1. services' = services \ {OtherService(want)}
    BY <1>9, ServiceStops DEF StopOther
  <2>2. services' \subseteq {ServiceOf(want)}
    BY <2>1, <1>a DEF OtherService, Services
  <2>3. pc' = "start server" /\ want' = want
    BY <1>9 DEF StopOther
  <2> QED BY <2>2, <2>3
<1>10. CASE StartServer
  BY <1>10 DEF StartServer
<1>11. CASE StartService
  <2>1. /\ pc = "start service" /\ pc' = (IF want = "2" THEN "detect" ELSE "commit")
        /\ want' = want /\ want # "0"
    BY <1>11 DEF StartService, ModeInv
  <2>2. services' = {ServiceOf(want)}
    <3>1. services \subseteq {ServiceOf(want)}
      BY <2>1
    <3> QED BY <1>11, <3>1 DEF StartService
  <2> QED BY <2>1, <2>2
<1>12. CASE StartServiceFails
  BY <1>12, <1>a DEF StartServiceFails
<1>13. CASE Undo
  BY <1>13 DEF Undo
<1>14. CASE EnableDetection
  BY <1>14 DEF EnableDetection, ModeInv
<1>15. CASE Commit
  BY <1>15 DEF Commit
<1>16. ASSUME NEW p \in Points, TrackPoint(p) PROVE ServiceInv'
  BY <1>16 DEF TrackPoint, settingVars
<1>17. CASE DisableTracking
  BY <1>17 DEF DisableTracking, settingVars
<1>18. CASE SetCameraMode
  BY <1>18 DEF SetCameraMode
<1>19. CASE \/ Server \/ PeerSends \/ PeerLeaves \/ Render
            \/ \E s \in Services : Accept(s)
            \/ UNCHANGED vars
  <2>1. pc' = pc /\ want' = want /\ setting' = setting /\ services' = services
    BY <1>19, ModeAlone
  <2> QED BY <2>1
<1> QED
  BY <1>1, <1>2, <1>3, <1>4, <1>5, <1>6, <1>7, <1>8, <1>9, <1>10, <1>11, <1>12, <1>13, <1>14,
     <1>15, <1>16, <1>17, <1>18, <1>19 DEF Next, SetAiFunction, Control

\* With the AI function off the server's thread is gone: set_ai_function waited
\* for it, or found that it had not been started (theorem for QuietWhenOff).
THEOREM QuietWhenOffHolds == Spec => []QuietWhenOff
<1>1. LoopInv /\ ModeInv => QuietWhenOff
  BY DEF LoopInv, ModeInv, QuietWhenOff
<1> QED
  BY <1>1, TypesInit, TypesNext, LoopInvInit, LoopInvNext, ModeInvInit, ModeInvNext, PTL DEF Spec

\* Between calls the services that run are those of the mode shown, and so is the
\* server (theorem for ServicesAgree).
THEOREM ServicesAgreeHolds == Spec => []ServicesAgree
<1>1. TypeOK /\ ModeInv /\ RunInv /\ ServiceInv => ServicesAgree
  BY DEF ModeInv, RunInv, ServiceInv, ServicesAgree
<1> QED
  BY <1>1, TypesInit, TypesNext, LoopInvInit, LoopInvNext, ModeInvInit, ModeInvNext,
     ServiceInvNext, PTL DEF Spec

----------------------------------------------------------------------------
(* The end of the server's thread *)

\* What is left to do is a number; if the server's steps lower it and no other
\* step changes it, no step raises it.
LEMMA LeftFalls ==
    ASSUME Server => ServerLeft' < ServerLeft, ~Server => ServerLeft' = ServerLeft
    PROVE  ServerLeft' <= ServerLeft
<1>1. ServerLeft \in Int /\ ServerLeft' \in Int
  BY DEF ServerLeft
<1> HIDE DEF ServerLeft
<1>2. CASE Server
  BY <1>1, <1>2
<1>3. CASE ~Server
  BY <1>1, <1>3
<1> QED BY <1>2, <1>3

\* A thread that is to end takes its next step towards the end.
LEMMA ServerNears ==
    ASSUME TypeOK, LoopInv, ~running, Server
    PROVE  ServerLeft' < ServerLeft
<1> ServerTypes /\ LinkTypes
  BY TypeParts
<1> USE DEF ServerLeft, ServerTypes, LinkTypes
<1>1. CASE Listen \/ ReadBegin
  BY <1>1 DEF Listen, ReadBegin
<1>6. CASE Register
  <2>1. open' = open /\ reading' = reading /\ client' = client
    BY <1>6 DEF Register, Link!Connect, linkVars
  <2>2. client # "none" /\ ~registered /\ registered'
    BY <1>6 DEF Register
  <2> QED BY <2>1, <2>2
<1>2. CASE ListenFails
  <2>1. open /\ ~open' /\ UNCHANGED <<client, registered, reading>>
    BY <1>2 DEF ListenFails, Link!Close, connVars
  <2> QED BY <2>1
<1>3. CASE LoopEnds
  <2>1. open /\ ~open' /\ UNCHANGED <<client, registered, reading>>
    BY <1>3 DEF LoopEnds, Link!Close, connVars
  <2> QED BY <2>1
<1>4. CASE Receive \/ ReceiveNothing
  <2>1. reading /\ ~reading' /\ UNCHANGED <<client, registered, open>>
    BY <1>4 DEF Receive, ReceiveNothing, linkVars
  <2> QED BY <2>1
<1>5. CASE HangUp
  <2>1. open' = open
    BY <1>5 DEF HangUp, Link!Disconnect, linkVars
  <2>2. client # "none" /\ client' = "none" /\ ~reading'
    BY <1>5 DEF HangUp, LoopInv
  <2> QED BY <2>1, <2>2
<1> QED BY <1>1, <1>2, <1>3, <1>4, <1>5, <1>6 DEF Server

\* While the caller waits for the server's thread, that has at most four steps
\* left and takes none back, whatever the service at the other end sends and
\* although a client that was just accepted is still registered (theorem for
\* JoinNears).
THEOREM JoinNearsHolds == Spec => JoinNears
<1> DEFINE Nears == pc' = pc /\ pc \in {"join", "undo join"} =>
                       /\ ServerLeft' <= ServerLeft
                       /\ Server => ServerLeft' < ServerLeft
<1>1. ASSUME TypeOK, LoopInv, [Next]_vars PROVE [Nears]_vars
  <2> SUFFICES ASSUME pc' = pc, pc \in {"join", "undo join"}
               PROVE  /\ ServerLeft' <= ServerLeft
                      /\ Server => ServerLeft' < ServerLeft
    OBVIOUS
  <2>1. ~running
    BY <1>1 DEF LoopInv
  <2>2. Server => ServerLeft' < ServerLeft
    BY <1>1, <2>1, ServerNears
  <2>3. ASSUME ~Server PROVE ServerLeft' = ServerLeft
    <3>1. CASE PeerSends \/ PeerLeaves \/ Render \/ UNCHANGED vars
      <4>1. UNCHANGED <<open, client, registered, reading>>
        BY <3>1 DEF PeerSends, PeerLeaves, Render, RenderTest, RenderCopy, RenderDraw, connVars,
           linkVars, vars, Link!Disconnect
      <4> QED BY <4>1 DEF ServerLeft
    <3>2. ASSUME NEW s \in Services, Accept(s) PROVE FALSE
      BY <2>1, <3>2 DEF Accept
    <3>3. ASSUME SetAiFunction PROVE FALSE
      BY <3>3 DEF SetAiFunction, Off, OffDetection, OffTracking, StopEarly, StopServer, JoinServer,
         Wipe, StopOther, StartServer, StartService, StartServiceFails, Undo, EnableDetection,
         Commit, Step
    <3>4. ASSUME Control PROVE FALSE
      BY <3>4 DEF Control, TrackPoint, DisableTracking, SetCameraMode, Step
    <3>5. ASSUME NEW mode \in Modes, Switch(mode) PROVE FALSE
      BY <3>5 DEF Switch, Step
    <3> QED BY <1>1, <2>3, <3>1, <3>2, <3>3, <3>4, <3>5 DEF Next
  <2>4. ServerLeft' <= ServerLeft
    BY <2>2, <2>3, LeftFalls
  <2> QED BY <2>2, <2>4
<1> QED
  BY <1>1, TypesInit, TypesNext, LoopInvInit, LoopInvNext, PTL DEF Spec, JoinNears

----------------------------------------------------------------------------
(* The command and the boxes *)

\* A connected tracker got the latest command, and a switch to tracking is not
\* over before it has sent one of its own.
FreshInv ==
    /\ connected => seen = latest
    /\ pc = "commit" /\ want = "2" => mine
    /\ pc = "idle" /\ setting = "2" => mine

\* After they were wiped there are boxes only if the camera's thread was at it.
BoxInv ==
    /\ pc = "commit" /\ want = "0" /\ ~late => rpc = "idle" /\ ~boxes
    /\ pc = "idle" /\ setting = "0" /\ ok /\ ~late => rpc = "idle" /\ ~boxes

\* No tracker is connected at the start, and the boxes are being wiped.
LEMMA FreshInvInit == Init => FreshInv /\ BoxInv
BY DEF Init, FreshInv, BoxInv, Link!Init

\* What a step leaves alone it leaves fresh.
LEMMA FreshKept ==
    ASSUME FreshInv, pc' \notin {"commit", "idle"} \/ UNCHANGED <<pc, want, setting, mine>>
    PROVE  (connected' => seen' = latest') => FreshInv'
BY DEF FreshInv

\* A disconnected tracker has no command, the others keep theirs.
LEMMA StopServiceFresh ==
    ASSUME FreshInv, NEW s, StopService(s)
    PROVE  connected' => seen' = latest'
<1>1. CASE UNCHANGED linkVars
  BY <1>1 DEF FreshInv, linkVars
<1>2. CASE Link!Disconnect
  BY <1>2 DEF Link!Disconnect
<1> QED BY <1>1, <1>2 DEF StopService

\* Nobody but the caller sends a command, and who connects is given the latest.
LEMMA ServerFresh ==
    ASSUME connected => seen = latest,
           \/ Server \/ PeerSends \/ PeerLeaves \/ Render
           \/ \E s \in Services : Accept(s)
           \/ UNCHANGED vars
    PROVE  connected' => seen' = latest'
<1> USE DEF linkVars
<1>1. CASE Server
  <2>1. CASE Listen
    BY <2>1 DEF Listen
  <2>2. CASE ListenFails
    BY <2>2 DEF ListenFails, Link!Close
  <2>3. CASE ReadBegin
    BY <2>3 DEF ReadBegin
  <2>4. CASE Receive
    BY <2>4 DEF Receive
  <2>5. CASE ReceiveNothing
    BY <2>5 DEF ReceiveNothing
  <2>6. CASE HangUp
    BY <2>6 DEF HangUp, Link!Disconnect
  <2>7. CASE LoopEnds
    BY <2>7 DEF LoopEnds, Link!Close
  <2>8. CASE Register
    BY <2>8 DEF Register, Link!Connect
  <2> QED BY <1>1, <2>1, <2>2, <2>3, <2>4, <2>5, <2>6, <2>7, <2>8 DEF Server
<1>2. CASE PeerSends
  BY <1>2 DEF PeerSends
<1>3. CASE PeerLeaves
  BY <1>3 DEF PeerLeaves, Link!Disconnect
<1>4. CASE Render
  BY <1>4 DEF Render, RenderTest, RenderCopy, RenderDraw
<1>5. ASSUME NEW s \in Services, Accept(s) PROVE connected' => seen' = latest'
  BY <1>5 DEF Accept
<1>6. CASE UNCHANGED vars
  BY <1>6 DEF vars
<1> QED BY <1>1, <1>2, <1>3, <1>4, <1>5, <1>6

\* Every step keeps the command fresh.
LEMMA FreshInvNext == TypeOK /\ ModeInv /\ FreshInv /\ [Next]_vars => FreshInv'
<1> SUFFICES ASSUME TypeOK, ModeInv, FreshInv, [Next]_vars PROVE FreshInv'
  OBVIOUS
<1> USE DEF Step, linkVars
<1>a. connected => seen = latest
  BY DEF FreshInv
<1>1. ASSUME NEW mode \in Modes, Switch(mode) PROVE FreshInv'
  BY <1>1, FreshKept, <1>a DEF Switch
<1>2. CASE Off
  BY <1>2, FreshKept, <1>a DEF Off
<1>3. CASE OffDetection
  BY <1>3, FreshKept, StopServiceFresh DEF OffDetection
<1>4. CASE OffTracking
  BY <1>4, FreshKept, StopServiceFresh DEF OffTracking
<1>5. CASE StopEarly
  BY <1>5, FreshKept, <1>a DEF StopEarly
<1>6. CASE StopServer
  BY <1>6, FreshKept, <1>a DEF StopServer
<1>7. CASE JoinServer
  BY <1>7, FreshKept, <1>a DEF JoinServer
<1>8. CASE Wipe
  BY <1>8, <1>a DEF Wipe, ModeInv, FreshInv
<1>9. CASE StopOther
  BY <1>9, FreshKept, StopServiceFresh DEF StopOther
<1>10. CASE StartServer
  <2>1. connected' => seen' = latest'
    BY <1>10, <1>a DEF StartServer, Link!Open
  <2> QED BY <1>10, <2>1, FreshKept DEF StartServer
<1>11. CASE StartService
  BY <1>11, <1>a DEF StartService, FreshInv
<1>12. CASE StartServiceFails
  BY <1>12, FreshKept, <1>a DEF StartServiceFails
<1>13. CASE Undo
  BY <1>13, <1>a DEF Undo, FreshInv
<1>14. CASE EnableDetection
  BY <1>14, <1>a DEF EnableDetection, FreshInv, Link!Post
<1>15. CASE Commit
  BY <1>15, <1>a DEF Commit, FreshInv
<1>16. ASSUME NEW p \in Points, TrackPoint(p) PROVE FreshInv'
  BY <1>16, <1>a DEF TrackPoint, FreshInv, Link!Post
<1>17. CASE DisableTracking
  BY <1>17, <1>a DEF DisableTracking, FreshInv, Link!Post
<1>18. CASE SetCameraMode
  BY <1>18, <1>a DEF SetCameraMode, FreshInv
<1>19. CASE \/ Server \/ PeerSends \/ PeerLeaves \/ Render
            \/ \E s \in Services : Accept(s)
            \/ UNCHANGED vars
  <2>1. UNCHANGED <<pc, want, setting, mine>>
    BY <1>19, CallerAlone DEF callVars, settingVars
  <2>2. connected' => seen' = latest'
    BY <1>19, <1>a, ServerFresh
  <2> QED BY <2>1, <2>2, FreshKept
<1> QED
  BY <1>1, <1>2, <1>3, <1>4, <1>5, <1>6, <1>7, <1>8, <1>9, <1>10, <1>11, <1>12, <1>13, <1>14,
     <1>15, <1>16, <1>17, <1>18, <1>19 DEF Next, SetAiFunction, Control

\* Until the camera's thread looks at the AI mode again it does not draw boxes.
LEMMA BoxInvNext == TypeOK /\ ModeInv /\ BoxInv /\ [Next]_vars => BoxInv'
<1> SUFFICES ASSUME TypeOK, ModeInv, BoxInv, [Next]_vars PROVE BoxInv'
  OBVIOUS
<1> USE DEF BoxInv, Step
<1>1. ASSUME NEW mode \in Modes, Switch(mode) PROVE BoxInv'
  BY <1>1 DEF Switch
<1>2. CASE Off
  BY <1>2 DEF Off
<1>3. CASE OffDetection
  BY <1>3 DEF OffDetection
<1>4. CASE OffTracking
  BY <1>4 DEF OffTracking
<1>5. CASE StopEarly
  BY <1>5 DEF StopEarly
<1>6. CASE StopServer
  BY <1>6 DEF StopServer
<1>7. CASE JoinServer
  BY <1>7 DEF JoinServer
<1>8. CASE Wipe
  BY <1>8, TypeParts DEF Wipe, ServerTypes
<1>9. CASE StopOther
  BY <1>9 DEF StopOther
<1>10. CASE StartServer
  BY <1>10 DEF StartServer
<1>11. CASE StartService
  BY <1>11 DEF StartService, ModeInv
<1>12. CASE StartServiceFails
  BY <1>12 DEF StartServiceFails
<1>13. CASE Undo
  BY <1>13 DEF Undo
<1>14. CASE EnableDetection
  BY <1>14 DEF EnableDetection, ModeInv
<1>15. CASE Commit
  BY <1>15 DEF Commit, drawVars
<1>16. ASSUME NEW p \in Points, TrackPoint(p) PROVE BoxInv'
  BY <1>16 DEF TrackPoint, settingVars, drawVars
<1>17. CASE DisableTracking
  BY <1>17 DEF DisableTracking, settingVars, drawVars
<1>18. CASE SetCameraMode
  BY <1>18 DEF SetCameraMode, drawVars
<1>19. CASE Server
  <2>1. UNCHANGED <<callVars, settingVars, drawVars, late>>
    BY <1>19 DEF Server, Listen, ListenFails, Register, ReadBegin, Receive, ReceiveNothing,
       HangUp, LoopEnds
  <2> QED BY <2>1 DEF callVars, settingVars, drawVars
<1>20. ASSUME NEW s \in Services, Accept(s) PROVE BoxInv'
  BY <1>20 DEF Accept, callVars, settingVars, drawVars
<1>21. CASE PeerSends
  BY <1>21 DEF PeerSends, callVars, settingVars, drawVars
<1>22. CASE PeerLeaves
  BY <1>22 DEF PeerLeaves, callVars, settingVars, drawVars
<1>23. CASE RenderTest
  BY <1>23 DEF RenderTest, callVars, settingVars, ModeInv
<1>24. CASE RenderCopy
  BY <1>24 DEF RenderCopy, callVars, settingVars
<1>25. CASE RenderDraw
  BY <1>25 DEF RenderDraw, callVars, settingVars
<1>26. CASE UNCHANGED vars
  BY <1>26 DEF vars, callVars, settingVars, drawVars
<1> QED
  BY <1>1, <1>2, <1>3, <1>4, <1>5, <1>6, <1>7, <1>8, <1>9, <1>10, <1>11, <1>12, <1>13, <1>14,
     <1>15, <1>16, <1>17, <1>18, <1>19, <1>20, <1>21, <1>22, <1>23, <1>24, <1>25, <1>26
     DEF Next, SetAiFunction, Control, Render

\* A connected tracker in mode "2" does what it was told since the mode was chosen
\* (theorem for FreshCommand).
THEOREM FreshCommandHolds == Spec => []FreshCommand
<1>1. FreshInv => FreshCommand
  BY DEF FreshInv, FreshCommand
<1> QED
  BY <1>1, TypesInit, TypesNext, LoopInvInit, LoopInvNext, ModeInvInit, ModeInvNext,
     FreshInvInit, FreshInvNext, PTL DEF Spec

\* set_ai_function("0") leaves no boxes but those of a frame that was being drawn
\* (theorem for BoxesWiped).
THEOREM BoxesWipedHolds == Spec => []BoxesWiped
<1>1. BoxInv => BoxesWiped
  BY DEF BoxInv, BoxesWiped
<1> QED
  BY <1>1, TypesInit, TypesNext, LoopInvInit, LoopInvNext, ModeInvInit, ModeInvNext,
     FreshInvInit, BoxInvNext, PTL DEF Spec
=============================================================================
