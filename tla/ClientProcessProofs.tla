------------------------- MODULE ClientProcessProofs -------------------------
(***************************************************************************)
(* Theorems about ClientProcess, for all modes of the light and any bound   *)
(* of its threads.                                                         *)
(***************************************************************************)
EXTENDS ClientProcess, TLAPS

USE DEF Lights, Parts, Cameras

----------------------------------------------------------------------------
(* Types *)

LEMMA AskTypes ==
    ASSUME TypeOK, NEW mode \in Lights, Ask(mode)
    PROVE  pending' \in [Lights -> 0 .. MaxThreads] /\ last' \in Lights /\ alone' \in BOOLEAN
BY MaxThreadsAssumption DEF TypeOK, Ask, Settled

LEMMA EndTypes == ASSUME TypeOK, End PROVE TypeOK'
<1>1. pending' \in [Lights -> 0 .. MaxThreads]  BY DEF End
<1>2. alone' \in BOOLEAN  BY DEF End
<1>3. object' = Nothing /\ library' = Unloaded /\ frame' = NoFrame  BY DEF End
<1>4. /\ object' \in [Parts -> {"none", "shut", "open"}]
      /\ library' \in [Parts -> BOOLEAN] /\ frame' \in [Cameras -> BOOLEAN]
  BY <1>3 DEF Nothing, Unloaded, NoFrame
<1>5. main' = "over" /\ ~client' /\ ~running' /\ refused' = "none" /\ ~asked'
  BY DEF End
<1>6. watch' = watch /\ light' = light /\ last' = last /\ stale' = stale  BY DEF End
<1> QED  BY <1>1, <1>2, <1>4, <1>5, <1>6 DEF TypeOK, End

LEMMA InitTypes == Init => TypeOK
<1> SUFFICES ASSUME Init PROVE TypeOK  OBVIOUS
<1>1. pending \in [Lights -> 0 .. MaxThreads]  BY MaxThreadsAssumption DEF Init
<1>2. /\ object \in [Parts -> {"none", "shut", "open"}]
      /\ library \in [Parts -> BOOLEAN] /\ frame \in [Cameras -> BOOLEAN]
  BY DEF Init, Nothing, Unloaded, NoFrame
<1> QED  BY <1>1, <1>2 DEF Init, TypeOK

\* What a step of init does to a part leaves pointers and libraries well typed.
LEMMA PartTypes ==
    ASSUME TypeOK, NEW part, NEW state \in {"none", "shut", "open"}, NEW loaded \in BOOLEAN,
           object' \in {object, [object EXCEPT ![part] = state]},
           library' \in {library, [library EXCEPT ![part] = loaded]}
    PROVE  /\ object' \in [Parts -> {"none", "shut", "open"}]
           /\ library' \in [Parts -> BOOLEAN]
<1>1. object \in [Parts -> {"none", "shut", "open"}] /\ library \in [Parts -> BOOLEAN]
  BY DEF TypeOK
<1>2. [object EXCEPT ![part] = state] \in [Parts -> {"none", "shut", "open"}]
  BY <1>1
<1>3. [library EXCEPT ![part] = loaded] \in [Parts -> BOOLEAN]
  BY <1>1
<1> QED  BY <1>1, <1>2, <1>3

LEMMA TriedTypes ==
    ASSUME TypeOK, NEW part, Open(part) \/ Missing \/ Refuse(part)
    PROVE  /\ object' \in [Parts -> {"none", "shut", "open"}]
           /\ library' \in [Parts -> BOOLEAN]
<1>1. CASE Open(part)  BY <1>1, PartTypes DEF Open
<1>2. CASE Missing  BY <1>2 DEF TypeOK, Missing
<1>3. CASE Refuse(part)
  <2>1. "shut" \in {"none", "shut", "open"} /\ FALSE \in BOOLEAN  OBVIOUS
  <2> QED  BY <1>3, <2>1, PartTypes DEF Refuse
<1> QED  BY <1>1, <1>2, <1>3

LEMMA MainTypes == ASSUME TypeOK, Main PROVE TypeOK'
<1>1. CASE InitRender
  <2>1. /\ object' \in [Parts -> {"none", "shut", "open"}]
        /\ library' \in [Parts -> BOOLEAN]
    <3>1. Open("render") \/ Missing \/ Refuse("render")
      BY <1>1 DEF InitRender
    <3> QED  BY <3>1, TriedTypes
  <2>2. main' \in {"camera", "aiOff"} /\ refused' \in {refused, "render"}
    BY <1>1 DEF InitRender, GiveUp
  <2>3. UNCHANGED <<client, frame, running, asked, lightVars>>
    BY <1>1 DEF InitRender
  <2> QED  BY <2>1, <2>2, <2>3 DEF TypeOK, lightVars
<1>2. CASE InitCamera
  <2>1. /\ object' \in [Parts -> {"none", "shut", "open"}]
        /\ library' \in [Parts -> BOOLEAN]
    <3>1. CASE Open("camera") \/ Missing \/ Refuse("camera")
      BY <3>1, TriedTypes
    <3>2. CASE /\ object' = [object EXCEPT !["camera"] = "shut"]
               /\ library' = [library EXCEPT !["camera"] = TRUE]
      BY <3>2, PartTypes
    <3> QED  BY <1>2, <3>1, <3>2 DEF InitCamera
  <2>2. main' \in {"storage", "aiOff"} /\ refused' \in {refused, "camera"}
    BY <1>2 DEF InitCamera, GiveUp
  <2>3. UNCHANGED <<client, frame, running, asked, lightVars>>
    BY <1>2 DEF InitCamera
  <2> QED  BY <2>1, <2>2, <2>3 DEF TypeOK, lightVars
<1>3. CASE InitStorage
  <2>1. /\ object' \in [Parts -> {"none", "shut", "open"}]
        /\ library' \in [Parts -> BOOLEAN]
    <3>1. Open("storage") \/ Missing \/ Refuse("storage")
      BY <1>3 DEF InitStorage
    <3> QED  BY <3>1, TriedTypes
  <2>2. main' \in {"ir", "aiOff"} /\ refused' \in {refused, "storage"}
    BY <1>3 DEF InitStorage, GiveUp
  <2>3. UNCHANGED <<client, frame, running, asked, lightVars>>
    BY <1>3 DEF InitStorage
  <2> QED  BY <2>1, <2>2, <2>3 DEF TypeOK, lightVars
<1>4. CASE InitIr
  <2>1. /\ object' \in [Parts -> {"none", "shut", "open"}]
        /\ library' \in [Parts -> BOOLEAN]
    BY <1>4, TriedTypes DEF InitIr
  <2>2. /\ main' \in {"connect", "dropIr"}
        /\ UNCHANGED <<client, frame, running, refused, asked, lightVars>>
    BY <1>4 DEF InitIr
  <2> QED  BY <2>1, <2>2 DEF TypeOK, lightVars
<1>5. CASE Connect  BY <1>5 DEF TypeOK, Connect, lightVars
<1>6. CASE AiOff  BY <1>6 DEF TypeOK, AiOff, lightVars
<1>7. CASE Free
  <2>1. main' \in {"freeRender", "freeStorage", "delete"}
    BY <1>7 DEF Free
  <2>2. /\ object' \in [Parts -> {"none", "shut", "open"}]
        /\ library' \in [Parts -> BOOLEAN]
    BY <1>7 DEF TypeOK, Free
  <2>3. UNCHANGED <<client, frame, running, refused, asked, lightVars>>
    BY <1>7 DEF Free
  <2> QED  BY <2>1, <2>2, <2>3 DEF TypeOK, lightVars
<1>8. CASE Delete  BY <1>8 DEF TypeOK, Delete, lightVars
<1>9. CASE ConnectFails \/ LoopEnds \/ Return
  BY <1>9, EndTypes DEF ConnectFails, LoopEnds, Return
<1>10. CASE DropIr
  <2>1. "none" \in {"none", "shut", "open"} /\ FALSE \in BOOLEAN  OBVIOUS
  <2>2. /\ object' \in [Parts -> {"none", "shut", "open"}]
        /\ library' \in [Parts -> BOOLEAN]
    BY <1>10, <2>1, PartTypes DEF DropIr
  <2>3. /\ main' = "connect"
        /\ UNCHANGED <<client, frame, running, refused, asked, lightVars>>
    BY <1>10 DEF DropIr
  <2> QED  BY <2>2, <2>3 DEF TypeOK, lightVars
<1> QED
  BY <1>1, <1>2, <1>3, <1>4, <1>5, <1>6, <1>7, <1>8, <1>9, <1>10 DEF Main

LEMMA NextTypes == TypeOK /\ [Next]_vars => TypeOK'
<1> SUFFICES ASSUME TypeOK, [Next]_vars PROVE TypeOK'  OBVIOUS
<1>1. CASE Launch
  <2>1. "Normal" \in Lights  BY LightsAssumption
  <2>2. /\ pending' \in [Lights -> 0 .. MaxThreads]
        /\ last' \in Lights /\ alone' \in BOOLEAN
    BY <1>1, <2>1, AskTypes DEF Launch
  <2> QED  BY <1>1, <2>2 DEF TypeOK, Launch
<1>2. CASE Main  BY <1>2, MainTypes
<1>3. CASE Interrupt
  <2>1. running' \in BOOLEAN /\ asked' \in BOOLEAN
    BY <1>3 DEF TypeOK, Interrupt
  <2>2. UNCHANGED <<main, object, library, client, frame, refused, lightVars>>
    BY <1>3 DEF Interrupt
  <2> QED  BY <2>1, <2>2 DEF TypeOK, lightVars
<1>4. CASE Killed  BY <1>4, EndTypes DEF Killed
<1>5. CASE \E source \in Cameras : FrameBegins(source)
  BY <1>5 DEF TypeOK, FrameBegins, lightVars
<1>6. CASE \E source \in Cameras : FrameEnds(source)
  BY <1>6 DEF TypeOK, FrameEnds, lightVars
<1>7. ASSUME NEW mode \in ClientLights, Shows(mode) PROVE TypeOK'
  <2>1. /\ pending' \in [Lights -> 0 .. MaxThreads]
        /\ last' \in Lights /\ alone' \in BOOLEAN
    BY <1>7, AskTypes DEF Shows
  <2> QED  BY <1>7, <2>1 DEF TypeOK, Shows, processVars
<1>8. ASSUME NEW mode \in Lights, Change(mode) PROVE TypeOK'
  <2>1. pending[mode] - 1 \in 0 .. MaxThreads
    BY <1>8, MaxThreadsAssumption DEF TypeOK, Change
  <2> QED  BY <1>8, <2>1 DEF TypeOK, Change, processVars
<1>9. CASE Looks  BY <1>9 DEF TypeOK, Looks, processVars
<1>10. CASE LookFails  BY <1>10 DEF TypeOK, LookFails, processVars
<1>11. CASE Warns
  <2>1. /\ pending' \in [Lights -> 0 .. MaxThreads]
        /\ last' \in Lights /\ alone' \in BOOLEAN
    BY <1>11, AskTypes DEF Warns
  <2> QED  BY <1>11, <2>1 DEF TypeOK, Warns, processVars
<1>12. CASE UNCHANGED vars  BY <1>12 DEF TypeOK, vars, processVars, lightVars
<1> QED
  BY <1>1, <1>2, <1>3, <1>4, <1>5, <1>6, <1>7, <1>8, <1>9, <1>10, <1>11, <1>12 DEF Next

\* Every variable keeps its type: no thread of the light is counted that does
\* not exist, however the client ends (led_control.cc, switch_led_mode).
THEOREM TypeCorrect == Spec => []TypeOK
<1> QED  BY InitTypes, NextTypes, PTL DEF Spec

----------------------------------------------------------------------------
(* The pointers *)

Working == {"render", "camera", "storage", "ir", "dropIr", "connect", "loop"}

Whole(part) == object[part] # "none" => object[part] = "open" /\ library[part]

\* What the places of the main thread say of the four parts.
PartsInv ==
    /\ main = "over" => object = Nothing /\ frame = NoFrame /\ refused = "none"
    /\ main = "render" => object = Nothing /\ frame = NoFrame
    /\ main \in Working \ {"render"} => object["render"] = "open"
    /\ main = "camera" =>
           \A source \in Cameras : object[source] = "none" /\ ~frame[source]
    /\ main \in Working => refused = "none" /\ client
    /\ main \notin Working \cup {"over"} => refused # "none"
    /\ \A part \in Parts :
           part # refused /\ ~ (part = "ir" /\ main = "dropIr") => Whole(part)
    /\ refused \in {"render", "camera"} =>
           \A source \in Cameras : object[source] # "open" /\ ~frame[source]

LEMMA InitParts == Init => PartsInv
BY DEF Init, PartsInv, Nothing, NoFrame, Whole, Working

LEMMA EndParts == ASSUME End PROVE PartsInv'
BY DEF End, PartsInv, Nothing, NoFrame, Whole, Working

LEMMA MainParts == ASSUME TypeOK, PartsInv, Main PROVE PartsInv'
<1> USE DEF PartsInv, Whole, Working, TypeOK, Nothing, NoFrame
<1>1. CASE InitRender  BY <1>1 DEF InitRender, Open, Missing, Refuse, GiveUp
<1>2. CASE InitCamera  BY <1>2 DEF InitCamera, Open, Missing, Refuse, GiveUp
<1>3. CASE InitStorage  BY <1>3 DEF InitStorage, Open, Missing, Refuse, GiveUp
<1>4. CASE InitIr  BY <1>4 DEF InitIr, Open, Missing, Refuse
<1>5. CASE DropIr \/ Connect  BY <1>5 DEF DropIr, Connect
<1>6. CASE AiOff  BY <1>6 DEF AiOff
<1>7. CASE Free
  <2>1. \E part \in Parts :
            object' = [object EXCEPT ![part] = "none"]
                /\ library' = [library EXCEPT ![part] = FALSE]
    BY <1>7 DEF Free, FreedAt
  <2>2. main' \in {"freeRender", "freeStorage", "delete"} /\ main \notin Working \cup {"over"}
    BY <1>7 DEF Free, FreedAt
  <2>3. client' = client /\ frame' = frame /\ refused' = refused  BY <1>7 DEF Free
  <2> QED  BY <2>1, <2>2, <2>3
<1>8. CASE Delete  BY <1>8 DEF Delete
<1>9. CASE ConnectFails \/ LoopEnds \/ Return
  BY <1>9, EndParts DEF ConnectFails, LoopEnds, Return
<1> QED  BY <1>1, <1>2, <1>3, <1>4, <1>5, <1>6, <1>7, <1>8, <1>9 DEF Main

LEMMA NextParts == TypeOK /\ PartsInv /\ [Next]_vars => PartsInv'
<1> SUFFICES ASSUME TypeOK, PartsInv, [Next]_vars PROVE PartsInv'  OBVIOUS
<1>1. CASE Launch  BY <1>1 DEF PartsInv, Whole, Working, Nothing, NoFrame, Launch
<1>2. CASE Main  BY <1>2, MainParts
<1>3. CASE Interrupt  BY <1>3 DEF PartsInv, Whole, Interrupt
<1>4. CASE Killed  BY <1>4, EndParts DEF Killed
<1>5. ASSUME NEW source \in Cameras, FrameBegins(source) PROVE PartsInv'
  BY <1>5 DEF PartsInv, Whole, Working, TypeOK, Nothing, NoFrame, FrameBegins
<1>6. ASSUME NEW source \in Cameras, FrameEnds(source) PROVE PartsInv'
  BY <1>6 DEF PartsInv, Whole, Working, TypeOK, NoFrame, FrameEnds
<1>7. CASE \/ \E mode \in ClientLights : Shows(mode)
           \/ \E mode \in Lights : Change(mode)
           \/ Looks \/ LookFails \/ Warns \/ UNCHANGED vars
  <2>1. UNCHANGED processVars
    BY <1>7 DEF Shows, Change, Looks, LookFails, Warns, vars
  <2> QED  BY <2>1 DEF PartsInv, Whole, processVars
<1> QED  BY <1>1, <1>2, <1>3, <1>4, <1>5, <1>6, <1>7 DEF Next

LEMMA PartsImply == TypeOK /\ PartsInv => PointersHold
<1> SUFFICES ASSUME TypeOK, PartsInv PROVE PointersHold  OBVIOUS
<1>1. main # "over" /\ refused = "none" =>
          /\ client
          /\ \A part \in Parts : object[part] # "none" =>
                 \/ object[part] = "open" /\ library[part]
                 \/ main = "dropIr" /\ part = "ir"
  BY DEF TypeOK, PartsInv, Whole, Working
<1>2. ASSUME NEW part \in Parts, CallsUnloaded(part)
      PROVE  refused = part \/ (main = "dropIr" /\ part = "ir")
  BY <1>2 DEF TypeOK, PartsInv, Whole, CallsUnloaded
<1>3. ASSUME DrawsOnGone PROVE refused = "storage"
  <2>1. PICK source \in Cameras :
            frame[source] /\ (~client \/ object["render"] # "open" \/ ~library["render"])
    BY <1>3 DEF DrawsOnGone
  <2>2. refused \notin {"render", "camera"}  BY <2>1 DEF PartsInv
  <2>3. refused # "none"
    <3>1. SUFFICES ASSUME refused = "none" PROVE FALSE  OBVIOUS
    <3>2. main \in Working \cup {"over"}  BY <3>1 DEF PartsInv
    <3>3. main \notin {"over", "render"}  BY <2>1 DEF PartsInv, NoFrame
    <3>4. client /\ object["render"] = "open" /\ library["render"]
      BY <3>1, <3>2, <3>3 DEF PartsInv, Whole, Working
    <3> QED  BY <2>1, <3>4
  <2> QED  BY <2>2, <2>3 DEF TypeOK
<1> QED  BY <1>1, <1>2, <1>3 DEF PointersHold

\* A client that works has no pointer to anything that is not open and loaded but
\* for an infrared camera that it is about to delete; the two of them, deleting that
\* camera and giving up after the failure of the very part, are the only uses of
\* something unloaded (camera_local_client.cpp, init, init_ir_camera and deinit).
THEOREM PointersAreHeld == Spec => []PointersHold
<1>1. TypeOK /\ TypeOK' /\ PartsInv /\ [Next]_vars => PartsInv'  BY NextParts
<1> QED  BY TypeCorrect, InitParts, <1>1, PartsImply, PTL DEF Spec

----------------------------------------------------------------------------
(* The light *)

\* Nothing but the change that was asked for last is under way, or it was made.
AloneInv ==
    alone => /\ \A mode \in Lights : mode # last => pending[mode] = 0
             /\ pending[last] = 0 => light = last

LEMMA InitAlone == Init => AloneInv
BY DEF Init, AloneInv

LEMMA AskAlone ==
    ASSUME TypeOK, NEW mode \in Lights, Ask(mode) PROVE AloneInv'
<1>1. SUFFICES ASSUME alone' PROVE AloneInv'  BY DEF AloneInv
<1>2. \A other \in Lights : pending[other] = 0  BY <1>1 DEF Ask, Settled
<1>3. /\ last' = mode
      /\ \A other \in Lights :
             pending'[other] = IF other = mode THEN pending[mode] + 1 ELSE pending[other]
  BY DEF TypeOK, Ask
<1>4. pending'[mode] = 1  BY <1>2, <1>3
<1> QED  BY <1>2, <1>3, <1>4 DEF AloneInv

LEMMA EndAlone == ASSUME TypeOK, AloneInv, End PROVE AloneInv'
<1>1. SUFFICES ASSUME alone' PROVE AloneInv'  BY DEF AloneInv
<1>2. alone /\ pending' = pending  BY <1>1 DEF End
<1> QED  BY <1>2 DEF End, AloneInv

LEMMA NextAlone == TypeOK /\ AloneInv /\ [Next]_vars => AloneInv'
<1> SUFFICES ASSUME TypeOK, AloneInv, [Next]_vars PROVE AloneInv'  OBVIOUS
<1>1. CASE Launch
  <2>1. "Normal" \in Lights  BY LightsAssumption
  <2> QED  BY <1>1, <2>1, AskAlone DEF Launch
<1>2. CASE Killed \/ ConnectFails \/ LoopEnds \/ Return
  BY <1>2, EndAlone DEF Killed, ConnectFails, LoopEnds, Return
<1>3. CASE InitRender \/ InitCamera \/ InitStorage \/ InitIr \/ DropIr \/ Connect
  <2>1. UNCHANGED lightVars
    BY <1>3 DEF InitRender, InitCamera, InitStorage, InitIr, DropIr, Connect
  <2> QED  BY <2>1 DEF lightVars, AloneInv
<1>4. CASE AiOff \/ Free \/ Delete \/ Interrupt
  <2>1. UNCHANGED lightVars  BY <1>4 DEF AiOff, Free, Delete, Interrupt
  <2> QED  BY <2>1 DEF lightVars, AloneInv
<1>5. CASE \E source \in Cameras : FrameBegins(source) \/ FrameEnds(source)
  <2>1. UNCHANGED lightVars  BY <1>5 DEF FrameBegins, FrameEnds
  <2> QED  BY <2>1 DEF lightVars, AloneInv
<1>6. ASSUME NEW mode \in ClientLights, Shows(mode) PROVE AloneInv'
  BY <1>6, AskAlone DEF Shows
<1>7. ASSUME NEW mode \in Lights, Change(mode) PROVE AloneInv'
  <2>1. SUFFICES ASSUME alone PROVE AloneInv'  BY <1>7 DEF AloneInv, Change
  <2>2. mode = last  BY <1>7, <2>1 DEF AloneInv, Change, TypeOK
  <2> QED  BY <1>7, <2>1, <2>2 DEF AloneInv, Change, TypeOK
<1>8. CASE Looks \/ LookFails  BY <1>8 DEF Looks, LookFails, AloneInv
<1>9. CASE Warns  BY <1>9, AskAlone DEF Warns
<1>10. CASE UNCHANGED vars  BY <1>10 DEF vars, lightVars, AloneInv
<1> QED
  BY <1>1, <1>2, <1>3, <1>4, <1>5, <1>6, <1>7, <1>8, <1>9, <1>10 DEF Next, Main

\* A change of the light that nothing overtook is the one that is seen
\* (led_control.cc: the thread is detached and outlives its caller, but not the
\* process).
THEOREM LastIsShown == Spec => []LastShown
<1>1. TypeOK /\ AloneInv => LastShown
  BY DEF TypeOK, AloneInv, LastShown, Settled
<1>2. TypeOK /\ TypeOK' /\ AloneInv /\ [Next]_vars => AloneInv'  BY NextAlone
<1> QED  BY TypeCorrect, InitAlone, <1>1, <1>2, PTL DEF Spec

\* Beside a client that mav_watch does not miss, nothing will turn the light to
\* Dead, and a light that still is will be changed.
LiveInv ==
    main # "over" /\ ~stale =>
        /\ watch = "look" /\ pending["Dead"] = 0
        /\ light = "Dead" => ~Settled

LEMMA InitLive == Init => LiveInv
BY DEF Init, LiveInv

LEMMA NextLive == TypeOK /\ LiveInv /\ [Next]_vars => LiveInv'
<1> SUFFICES ASSUME TypeOK, LiveInv, [Next]_vars PROVE LiveInv'  OBVIOUS
<1>1. CASE Launch
  <2>1. "Normal" \in Lights /\ "Normal" # "Dead" /\ "Dead" \in Lights  BY LightsAssumption
  <2>2. pending'["Normal"] # 0 /\ pending'["Dead"] = pending["Dead"]
    <3>1. pending["Normal"] \in Nat  BY <2>1, MaxThreadsAssumption DEF TypeOK
    <3>2. pending' = [pending EXCEPT !["Normal"] = @ + 1]  BY <1>1 DEF Launch, Ask
    <3> QED  BY <2>1, <3>1, <3>2 DEF TypeOK
  <2>3. ~stale' => pending["Dead"] = 0 /\ watch' = "look"
    <3>1. pending["Dead"] \in Nat /\ watch \in {"look", "gone"}
      BY <2>1, MaxThreadsAssumption DEF TypeOK
    <3>2. watch = "gone" \/ pending["Dead"] > 0 => stale'  BY <1>1 DEF Launch
    <3>3. watch' = watch  BY <1>1 DEF Launch
    <3> QED  BY <3>1, <3>2, <3>3
  <2>4. ~Settled'  BY <2>1, <2>2 DEF Settled
  <2> QED  BY <2>2, <2>3, <2>4 DEF LiveInv
<1>2. CASE Killed \/ ConnectFails \/ LoopEnds \/ Return
  BY <1>2 DEF Killed, ConnectFails, LoopEnds, Return, End, LiveInv
<1>3. CASE InitRender \/ InitCamera \/ InitStorage \/ InitIr \/ DropIr \/ Connect
  <2>1. UNCHANGED lightVars /\ main # "over"
    BY <1>3 DEF InitRender, InitCamera, InitStorage, InitIr, DropIr, Connect
  <2> QED  BY <2>1 DEF lightVars, LiveInv, Settled
<1>4. CASE AiOff \/ Free \/ Delete \/ Interrupt
  <2>1. UNCHANGED lightVars /\ main # "over"
    BY <1>4 DEF AiOff, Free, FreedAt, Delete, Interrupt
  <2> QED  BY <2>1 DEF lightVars, LiveInv, Settled
<1>5. CASE \E source \in Cameras : FrameBegins(source) \/ FrameEnds(source)
  <2>1. UNCHANGED lightVars /\ main' = main  BY <1>5 DEF FrameBegins, FrameEnds
  <2> QED  BY <2>1 DEF lightVars, LiveInv, Settled
<1>6. ASSUME NEW mode \in ClientLights, Shows(mode) PROVE LiveInv'
  <2>1. mode # "Dead" /\ mode \in Lights  BY LightsAssumption
  <2>2. pending'["Dead"] = pending["Dead"] /\ pending'[mode] # 0
    BY <1>6, <2>1, MaxThreadsAssumption DEF Shows, Ask, TypeOK
  <2>3. ~Settled'  BY <2>1, <2>2 DEF Settled
  <2>4. main' = main /\ watch' = watch /\ stale' = stale
    BY <1>6 DEF Shows, processVars
  <2> QED  BY <2>2, <2>3, <2>4 DEF LiveInv
<1>7. ASSUME NEW mode \in Lights, Change(mode) PROVE LiveInv'
  <2>1. main' = main /\ watch' = watch /\ stale' = stale /\ light' = mode
    BY <1>7 DEF Change, processVars
  <2>2. SUFFICES ASSUME main # "over", ~stale PROVE LiveInv'  BY <2>1 DEF LiveInv
  <2>3. pending["Dead"] = 0 /\ watch = "look"  BY <2>2 DEF LiveInv
  <2>4. mode # "Dead" /\ pending'["Dead"] = 0
    BY <1>7, <2>3, MaxThreadsAssumption DEF Change, TypeOK
  <2> QED  BY <2>1, <2>3, <2>4 DEF LiveInv
<1>8. CASE Looks  BY <1>8 DEF Looks, LiveInv, processVars
<1>9. CASE LookFails  BY <1>9 DEF LookFails, LiveInv, processVars
<1>10. CASE Warns  BY <1>10 DEF Warns, LiveInv, processVars
<1>11. CASE UNCHANGED vars
  BY <1>11 DEF vars, lightVars, processVars, LiveInv, Settled
<1> QED
  BY <1>1, <1>2, <1>3, <1>4, <1>5, <1>6, <1>7, <1>8, <1>9, <1>10, <1>11 DEF Next, Main

\* The light shows Dead beside a client that runs only if mav_watch took it for
\* gone (mav_client.cpp, init: the light is set to normal first; mav_watch.cc).
THEOREM DeadLightIsTrue == Spec => []DeadIsTrue
<1>1. LiveInv => DeadIsTrue  BY DEF LiveInv, DeadIsTrue
<1>2. TypeOK /\ TypeOK' /\ LiveInv /\ [Next]_vars => LiveInv'  BY NextLive
<1> QED  BY TypeCorrect, InitLive, <1>1, <1>2, PTL DEF Spec
=============================================================================
