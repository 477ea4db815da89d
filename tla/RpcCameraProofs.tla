---------------------------- MODULE RpcCameraProofs ----------------------------
(***************************************************************************)
(* Proofs about RpcCamera, for any commands and any number of photos.       *)
(***************************************************************************)
EXTENDS RpcCamera, TLAPS

(* Types *)

\* The server's variables, the calls, and the client's variables but for the bound of
\* its counters.
ServerTypes ==
    /\ process \in {"up", "stopping", "down"}
    /\ camera \in {"none", "unready", "closed", "open"}
    /\ serverMode \in Modes \cup {"Unknown"}
    /\ setting \in {"none", "0", "1"}
    /\ cameraMode \in Modes
    /\ photos \in 0 .. MaxPhotos

CallTypes ==
    /\ request \in [Callers -> Calls \cup {NoCall}]
    /\ handler \in [Callers -> {"none", "called", "registering", "unregistering", "waiting",
                                "done"}]
    /\ reply \in [Callers -> {"none", "lost", "Success", "Error", "data", "0", "1"}]

ClientTypes ==
    /\ main \in {"down", "prepare", "information", "video stream info", "param", "settings",
                 "running"}
    /\ callback \in {"idle", "lock", "call", "refill"}
    /\ command \in Commands \cup {NoCall}
    /\ worker \in {"off", "sleep", "status"}
    /\ mutex \in {"free", "main", "callback"}
    /\ mode \in Modes \cup {"Unknown"}

FlagTypes ==
    /\ wasReset \in BOOLEAN /\ refill \in BOOLEAN
    /\ replaced \in BOOLEAN /\ missed \in BOOLEAN /\ doubt \in BOOLEAN

Types == ServerTypes /\ CallTypes /\ ClientTypes /\ FlagTypes

\* A call without an argument, and a command, is one of the calls.
LEMMA KnownCalls ==
    /\ \A op \in Streams \cup {"Prepare", "TakePhoto", "FormatStorage", "ResetSettings"} :
          Call(op, "none") \in Calls
    /\ Commands \subseteq Calls
BY CommandsAssumption DEF Calls

\* The argument of a call fits its operation.
LEMMA KnownArguments ==
    ASSUME NEW call \in Calls
    PROVE  /\ call.op = "SetMode" => call.arg \in Modes
           /\ call.op = "SetSetting" => call.arg \in {"0", "1"}
<1>1. CASE call \in {Call(op, "none") :
                op \in Streams \cup {"Prepare", "TakePhoto", "FormatStorage", "ResetSettings"}}
  BY <1>1 DEF Call, Streams
<1>2. CASE call \in {Call("SetMode", m) : m \in Modes}
  BY <1>2 DEF Call
<1>3. CASE call \in {Call("SetSetting", value) : value \in {"0", "1"}}
  BY <1>3 DEF Call
<1> QED BY <1>1, <1>2, <1>3 DEF Calls

\* The steps of a call keep its types.
LEMMA SendTypes ==
    ASSUME CallTypes, NEW c \in Callers, NEW call \in Calls, Send(c, call)
    PROVE  CallTypes'
BY DEF CallTypes, Send

LEMMA FetchTypes ==
    ASSUME CallTypes, NEW c \in Callers, Fetch(c)
    PROVE  CallTypes'
BY DEF CallTypes, Fetch

LEMMA ReturnTypes ==
    ASSUME CallTypes, NEW c \in Callers, NEW result \in {"Success", "Error"}, Return(c, result)
    PROVE  CallTypes'
BY DEF CallTypes, Return

LEMMA DieTypes ==
    ASSUME CallTypes, Die
    PROVE  CallTypes'
<1>1. PICK delivered \in SUBSET {c \in Callers : handler[c] = "done"} :
        reply' = [c \in Callers |->
                     IF handler[c] = "none" \/ c \in delivered THEN reply[c] ELSE "lost"]
  BY DEF Die
<1>2. reply' \in [Callers -> {"none", "lost", "Success", "Error", "data", "0", "1"}]
  BY <1>1 DEF CallTypes
<1> QED BY <1>2 DEF CallTypes, Die

\* What a death leaves of the calls.
LEMMA AfterDeath ==
    ASSUME CallTypes, Die, NEW c \in Callers
    PROVE  /\ handler'[c] = IF handler[c] = "none" THEN "none" ELSE "done"
           /\ reply'[c] = reply[c] \/ reply'[c] = "lost"
           /\ reply'[c] # reply[c] => handler[c] # "none"
           /\ handler[c] \notin {"none", "done"} => reply'[c] = "lost"
           /\ process' = "down"
           /\ camera' = camera /\ serverMode' = serverMode /\ setting' = setting
           /\ cameraMode' = cameraMode /\ photos' = photos /\ wasReset' = wasReset
           /\ request' = request
BY DEF Die, CallTypes, cameraVars

\* The initial state is well typed.
LEMMA TypesInit == RpcInit => Types
<1> SUFFICES ASSUME RpcInit PROVE ServerTypes /\ CallTypes /\ ClientTypes /\ FlagTypes
  BY DEF Types
<1>1. ServerTypes
  <2>1. /\ process = "down" /\ camera = "none" /\ serverMode = "Unknown"
        /\ setting = "none" /\ cameraMode = "Photo" /\ photos = 0
    BY DEF RpcInit, Init
  <2> QED BY <2>1, MaxPhotosAssumption DEF ServerTypes, Modes
<1>2. CallTypes
  BY DEF RpcInit, Init, CallTypes
<1>3. /\ main = "down" /\ callback = "idle" /\ command = NoCall /\ worker = "off"
      /\ mutex = "free" /\ mode = "Unknown"
  BY DEF RpcInit
<1>4. ClientTypes
  BY <1>3 DEF ClientTypes
<1>5. FlagTypes
  BY DEF RpcInit, Init, FlagTypes
<1> QED BY <1>1, <1>2, <1>4, <1>5

\* A step of the service keeps the Booleans.
LEMMA FlagsService ==
    ASSUME FlagTypes, ServiceStep
    PROVE  FlagTypes'
<1>1. refill' = refill /\ missed' = missed
  BY DEF ServiceStep, clientVars
<1>2. replaced' \in BOOLEAN /\ doubt' \in BOOLEAN
  BY DEF ServiceStep
<1>3. wasReset' \in BOOLEAN
  <2>0. wasReset \in BOOLEAN
    BY DEF FlagTypes
  <2>1. CASE Start
    BY <2>1 DEF Start
  <2>2. CASE Interrupt
    BY <2>0, <2>2 DEF Interrupt, cameraVars
  <2>3. CASE Die
    BY <2>0, <2>3 DEF Die, cameraVars
  <2>4. ASSUME NEW c \in Callers, Serve(c)
        PROVE  wasReset' \in BOOLEAN
    <3>1. CASE Prepare(c)
      BY <2>0, <3>1 DEF Prepare, cameraVars
    <3>2. CASE NullUse(c)
      BY <2>0, <3>2 DEF NullUse, Die, cameraVars
    <3>3. CASE TakePhoto(c)
      BY <2>0, <3>3 DEF TakePhoto
    <3>4. CASE FormatStorage(c)
      BY <2>0, <3>4 DEF FormatStorage
    <3>5. CASE SetSetting(c)
      BY <2>0, <3>5 DEF SetSetting, ChangeMode
    <3>6. CASE SetMode(c)
      BY <2>0, <3>6 DEF SetMode, ChangeMode, cameraVars
    <3>7. CASE ResetSettings(c)
      BY <2>0, <3>7 DEF ResetSettings, cameraVars
    <3>8. CASE Answer(c)
      BY <2>0, <3>8 DEF Answer, cameraVars
    <3>9. CASE Unregister(c)
      BY <2>0, <3>9 DEF Unregister, cameraVars
    <3> QED BY <2>4, <3>1, <3>2, <3>3, <3>4, <3>5, <3>6, <3>7, <3>8, <3>9 DEF Serve
  <2> QED BY <2>1, <2>2, <2>3, <2>4 DEF ServiceStep, Service, Exit, Crash, VectorRace
<1> QED BY <1>1, <1>2, <1>3 DEF FlagTypes

\* A step of the service keeps the types.
LEMMA TypesService ==
    ASSUME Types, ServiceStep
    PROVE  Types'
<1> USE DEF Types
<1>0. FlagTypes'
  BY FlagsService
<1>1. ClientTypes'
  <2>1. /\ main' = main /\ callback' = callback /\ command' = command /\ worker' = worker
        /\ mutex' = mutex /\ mode' = mode /\ refill' = refill /\ missed' = missed
    BY DEF ServiceStep, clientVars
  <2> QED BY <2>1 DEF ClientTypes
<1>2. CASE Start
  BY <1>0, <1>1, <1>2 DEF Start, ServerTypes, CallTypes, callVars
<1>3. CASE Interrupt
  BY <1>0, <1>1, <1>3 DEF Interrupt, ServerTypes, CallTypes, callVars, cameraVars
<1>4. CASE Die
  BY <1>0, <1>1, <1>4, DieTypes DEF Die, ServerTypes, cameraVars
<1>5. ASSUME NEW c \in Callers, Serve(c)
      PROVE  ServerTypes' /\ CallTypes'
  <2>1. CASE Prepare(c)
    <3>1. CASE camera # "none"
      BY <2>1, <3>1, ReturnTypes DEF Prepare, ServerTypes, cameraVars, Return
    <3>2. CASE camera = "none"
      <4>1. PICK found \in {"none", "unready", "closed", "open"}, m \in Modes :
              /\ camera' = found
              /\ setting' = IF found \in {"closed", "open"} THEN SettingOf(m) ELSE "none"
              /\ cameraMode' = IF found = "open" THEN m ELSE cameraMode
              /\ Return(c, Succeeded(found \in {"closed", "open"}))
              /\ UNCHANGED <<serverMode, photos, wasReset>>
        BY <2>1, <3>2 DEF Prepare
      <4>2. Succeeded(found \in {"closed", "open"}) \in {"Success", "Error"}
        BY DEF Succeeded
      <4>3. CallTypes'
        BY <4>1, <4>2, ReturnTypes
      <4> QED BY <4>1, <4>3 DEF ServerTypes, SettingOf, Return
    <3> QED BY <3>1, <3>2
  <2>2. CASE NullUse(c)
    BY <2>2, DieTypes DEF NullUse, Die, ServerTypes, cameraVars
  <2>3. CASE TakePhoto(c)
    <3>1. PICK ok \in BOOLEAN :
            /\ ok => camera = "open" /\ photos < MaxPhotos
            /\ photos' = IF ok THEN photos + 1 ELSE photos
            /\ Return(c, Succeeded(ok))
      BY <2>3 DEF TakePhoto
    <3>2. CallTypes'
      BY <3>1, ReturnTypes DEF Succeeded
    <3>3. photos' \in 0 .. MaxPhotos
      BY <3>1, MaxPhotosAssumption DEF ServerTypes
    <3> QED BY <2>3, <3>1, <3>2, <3>3 DEF TakePhoto, ServerTypes, Return
  <2>4. CASE FormatStorage(c)
    <3>1. PICK ok \in BOOLEAN :
            /\ ok => camera = "open"
            /\ photos' = IF ok THEN 0 ELSE photos
            /\ Return(c, Succeeded(ok))
      BY <2>4 DEF FormatStorage
    <3>2. CallTypes'
      BY <3>1, ReturnTypes DEF Succeeded
    <3> QED BY <2>4, <3>1, <3>2, MaxPhotosAssumption DEF FormatStorage, ServerTypes, Return
  <2>5. CASE SetSetting(c)
    BY <2>5, ReturnTypes
    DEF SetSetting, ChangeMode, Return, ServerTypes, SettingOf, ModeOf, Modes
  <2>6. CASE SetMode(c)
    <3>1. CASE serverMode = request[c].arg
      BY <2>6, <3>1, ReturnTypes DEF SetMode, Return, ServerTypes, cameraVars
    <3>2. CASE serverMode # request[c].arg
      <4>1. request[c] \in Calls
        BY <2>6 DEF SetMode, Serving, CallTypes, NoCall, Call
      <4>2. request[c].arg \in Modes
        BY <2>6, <4>1, KnownArguments DEF SetMode, Serving
      <4> QED BY <2>6, <3>2, <4>2, ReturnTypes
              DEF SetMode, ChangeMode, Return, ServerTypes, SettingOf
    <3> QED BY <3>1, <3>2
  <2>7. CASE ResetSettings(c)
    <3>1. CASE camera = "none"
      BY <2>7, <3>1, ReturnTypes DEF ResetSettings, Return, ServerTypes, cameraVars
    <3>2. CASE camera # "none"
      BY <2>7, <3>2, ReturnTypes DEF ResetSettings, Return, ServerTypes, Modes
    <3> QED BY <3>1, <3>2
  <2>8. CASE Answer(c)
    BY <2>8 DEF Answer, ServerTypes, CallTypes, cameraVars
  <2>9. CASE Unregister(c)
    BY <2>9 DEF Unregister, ServerTypes, CallTypes, cameraVars
  <2> QED BY <1>5, <2>1, <2>2, <2>3, <2>4, <2>5, <2>6, <2>7, <2>8, <2>9 DEF Serve
<1> QED BY <1>0, <1>1, <1>2, <1>3, <1>4, <1>5
        DEF ServiceStep, Service, Exit, Crash, VectorRace

\* Every step keeps the types.
LEMMA TypesStep ==
    ASSUME Types, [RpcNext]_vars
    PROVE  Types'
<1> USE DEF Types
<1>0. {"main", "callback", "worker", "other"} \subseteq Callers
  BY CallersAssumption
<1>1. CASE ServiceStep
  BY <1>1, TypesService
<1>2. CASE Prepares
  <2>0. Call("Prepare", "none") \in Calls
    BY KnownCalls
  <2>1. CallTypes'
    BY <1>0, <1>2, <2>0, SendTypes DEF Prepares
  <2>2. ServerTypes'
    BY <1>2 DEF Prepares, ServerTypes, cameraVars
  <2>3. ClientTypes'
    BY <1>2 DEF Prepares, ClientTypes, clientVars
  <2>4. FlagTypes'
    BY <1>2 DEF Prepares, FlagTypes, clientVars, ghostVars, cameraVars
  <2> QED BY <2>1, <2>2, <2>3, <2>4
<1>3. CASE Prepared
  <2>1. CallTypes'
    BY <1>0, <1>3, FetchTypes DEF Prepared
  <2>2. ServerTypes'
    BY <1>3 DEF Prepared, ServerTypes, cameraVars
  <2>3. ClientTypes'
    BY <1>3 DEF Prepared, ClientTypes, clientVars
  <2>4. FlagTypes'
    BY <1>3 DEF Prepared, FlagTypes, clientVars, ghostVars, cameraVars
  <2> QED BY <2>1, <2>2, <2>3, <2>4
<1>4. CASE ReadsInformation
  <2>0. /\ Call("SubscribeInformation", "none") \in Calls
        /\ Call("SubscribeVideoStreamInfo", "none") \in Calls
    BY KnownCalls DEF Streams
  <2>1. CallTypes'
    BY <1>0, <1>4, <2>0, SendTypes DEF ReadsInformation
  <2>2. ServerTypes'
    BY <1>4 DEF ReadsInformation, ServerTypes, cameraVars
  <2>3. ClientTypes'
    BY <1>4 DEF ReadsInformation, ClientTypes, clientVars
  <2>4. FlagTypes'
    BY <1>4 DEF ReadsInformation, FlagTypes, clientVars, ghostVars, cameraVars
  <2> QED BY <2>1, <2>2, <2>3, <2>4
<1>5. CASE InformationRead
  <2>1. CallTypes'
    BY <1>0, <1>5, FetchTypes DEF InformationRead
  <2>2. ServerTypes'
    BY <1>5 DEF InformationRead, ServerTypes, cameraVars
  <2>3. ClientTypes'
    BY <1>5 DEF InformationRead, ClientTypes, clientVars
  <2>4. FlagTypes'
    BY <1>5 DEF InformationRead, FlagTypes, clientVars, ghostVars, cameraVars
  <2> QED BY <2>1, <2>2, <2>3, <2>4
<1>6. CASE ReadsSettings
  <2>0. Call("SubscribeCurrentSettings", "none") \in Calls
    BY KnownCalls DEF Streams
  <2>1. CallTypes'
    BY <1>0, <1>6, <2>0, SendTypes DEF ReadsSettings
  <2>2. ServerTypes'
    BY <1>6 DEF ReadsSettings, ServerTypes, cameraVars
  <2>3. ClientTypes'
    BY <1>6 DEF ReadsSettings, ClientTypes, clientVars
  <2>4. FlagTypes'
    BY <1>6 DEF ReadsSettings, FlagTypes, clientVars, ghostVars, cameraVars
  <2> QED BY <2>1, <2>2, <2>3, <2>4
<1>7. CASE SettingsRead
  <2>1. CallTypes'
    BY <1>0, <1>7, FetchTypes DEF SettingsRead
  <2>2. ServerTypes'
    BY <1>7 DEF SettingsRead, ServerTypes, cameraVars
  <2>3. ClientTypes'
    BY <1>7 DEF SettingsRead, ClientTypes, ModeOf, Modes
  <2>4. FlagTypes'
    <3>1. /\ wasReset' = wasReset /\ refill' = FALSE /\ replaced' = replaced /\ missed' = missed
      BY <1>7 DEF SettingsRead, cameraVars
    <3>2. doubt' \in BOOLEAN
      BY <1>7 DEF SettingsRead
    <3> QED BY <3>1, <3>2 DEF FlagTypes
  <2> QED BY <2>1, <2>2, <2>3, <2>4
<1>8. CASE Killed
  <2>1. CallTypes'
    BY <1>8 DEF Killed, CallTypes
  <2>2. ServerTypes'
    BY <1>8, MaxPhotosAssumption DEF Killed, ServerTypes
  <2>3. ClientTypes'
    BY <1>8 DEF Killed, ClientTypes, clientVars
  <2>4. FlagTypes'
    BY <1>8 DEF Killed, FlagTypes, clientVars, ghostVars, cameraVars
  <2> QED BY <2>1, <2>2, <2>3, <2>4
<1>9. ASSUME NEW call \in Commands, Commanded(call)
      PROVE  Types'
  <2>1. CallTypes'
    BY <1>9 DEF Commanded, CallTypes, serviceVars, callVars
  <2>2. ServerTypes'
    BY <1>9 DEF Commanded, ServerTypes, serviceVars, cameraVars
  <2>3. ClientTypes'
    BY <1>9 DEF Commanded, ClientTypes, clientVars
  <2>4. FlagTypes'
    BY <1>9 DEF Commanded, FlagTypes, ghostVars, serviceVars, cameraVars
  <2> QED BY <2>1, <2>2, <2>3, <2>4
<1>10. CASE Calling
  <2>1. CallTypes'
    <3>1. CASE command \in Commands
      BY <1>0, <1>10, <3>1, SendTypes, KnownCalls DEF Calling
    <3>2. CASE command = NoCall
      BY <1>0, <1>10, <3>2 DEF Calling, Send, CallTypes
    <3> QED BY <3>1, <3>2 DEF ClientTypes
  <2>2. ServerTypes'
    BY <1>10 DEF Calling, ServerTypes, cameraVars
  <2>3. ClientTypes'
    BY <1>10 DEF Calling, ClientTypes, clientVars
  <2>4. FlagTypes'
    BY <1>10 DEF Calling, FlagTypes, clientVars, ghostVars, cameraVars
  <2> QED BY <2>1, <2>2, <2>3, <2>4
<1>11. CASE Answered
  <2>1. CallTypes'
    BY <1>0, <1>11, FetchTypes DEF Answered
  <2>2. ServerTypes'
    BY <1>11 DEF Answered, ServerTypes, cameraVars
  <2>3. ClientTypes'
    <3>1. mode' \in Modes \cup {"Unknown"}
      <4>1. CASE command.op = "SetMode" /\ reply["callback"] # "lost"
        <5>0. NoCall.op = "none"
          BY DEF NoCall, Call
        <5>1. command \in Calls
          BY <4>1, <5>0, KnownCalls DEF ClientTypes
        <5>2. command.arg \in Modes
          BY <4>1, <5>1, KnownArguments
        <5>3. mode' = command.arg
          BY <1>11, <4>1 DEF Answered, ChangesMode
        <5> QED BY <5>2, <5>3
      <4>2. CASE ~(command.op = "SetMode" /\ reply["callback"] # "lost")
        BY <1>11, <4>2 DEF Answered, ChangesMode, ClientTypes, ModeOf, Modes
      <4> QED BY <4>1, <4>2
    <3>2. /\ callback' \in {"idle", "refill"} /\ mutex' \in {mutex, "free"}
          /\ command' = NoCall /\ main' = main /\ worker' = worker
      BY <1>11 DEF Answered
    <3> QED BY <3>1, <3>2 DEF ClientTypes
  <2>4. FlagTypes'
    <3>1. wasReset' = wasReset /\ replaced' = replaced
      BY <1>11 DEF Answered, cameraVars
    <3>2. missed' \in BOOLEAN /\ doubt' \in BOOLEAN /\ refill' \in BOOLEAN
      BY <1>11 DEF Answered, FlagTypes
    <3> QED BY <3>1, <3>2 DEF FlagTypes
  <2> QED BY <2>1, <2>2, <2>3, <2>4
<1>12. CASE AsksStatus
  <2>0. Call("SubscribeStatus", "none") \in Calls
    BY KnownCalls DEF Streams
  <2>1. CallTypes'
    BY <1>0, <1>12, <2>0, SendTypes DEF AsksStatus
  <2>2. ServerTypes'
    BY <1>12 DEF AsksStatus, ServerTypes, cameraVars
  <2>3. ClientTypes'
    BY <1>12 DEF AsksStatus, ClientTypes, clientVars
  <2>4. FlagTypes'
    BY <1>12 DEF AsksStatus, FlagTypes, clientVars, ghostVars, cameraVars
  <2> QED BY <2>1, <2>2, <2>3, <2>4
<1>13. CASE StatusRead
  <2>1. CallTypes'
    BY <1>0, <1>13, FetchTypes DEF StatusRead
  <2>2. ServerTypes'
    BY <1>13 DEF StatusRead, ServerTypes, cameraVars
  <2>3. ClientTypes'
    BY <1>13 DEF StatusRead, ClientTypes, clientVars
  <2>4. FlagTypes'
    BY <1>13 DEF StatusRead, FlagTypes, clientVars, ghostVars, cameraVars
  <2> QED BY <2>1, <2>2, <2>3, <2>4
<1>14. CASE OtherSubscribes
  <2>0. Call("SubscribeCaptureInfo", "none") \in Calls
    BY KnownCalls DEF Streams
  <2>1. CallTypes'
    BY <1>0, <1>14, <2>0, SendTypes DEF OtherSubscribes
  <2>2. ServerTypes'
    BY <1>14 DEF OtherSubscribes, ServerTypes, cameraVars
  <2>3. ClientTypes'
    BY <1>14 DEF OtherSubscribes, ClientTypes, clientVars
  <2>4. FlagTypes'
    BY <1>14 DEF OtherSubscribes, FlagTypes, clientVars, ghostVars, cameraVars
  <2> QED BY <2>1, <2>2, <2>3, <2>4
<1>15. CASE OtherFetches
  <2>1. CallTypes'
    BY <1>0, <1>15, FetchTypes DEF OtherFetches
  <2>2. ServerTypes'
    BY <1>15 DEF OtherFetches, ServerTypes, cameraVars
  <2>3. ClientTypes'
    BY <1>15 DEF OtherFetches, ClientTypes, clientVars
  <2>4. FlagTypes'
    BY <1>15 DEF OtherFetches, FlagTypes, clientVars, ghostVars, cameraVars
  <2> QED BY <2>1, <2>2, <2>3, <2>4
<1>16. CASE UNCHANGED vars
  <2>1. ServerTypes' /\ CallTypes'
    BY <1>16 DEF vars, serviceVars, cameraVars, callVars, ServerTypes, CallTypes
  <2>2. ClientTypes'
    BY <1>16 DEF vars, clientVars, ClientTypes
  <2>3. FlagTypes'
    BY <1>16 DEF vars, serviceVars, cameraVars, clientVars, ghostVars, FlagTypes
  <2> QED BY <2>1, <2>2, <2>3
<1> QED BY <1>1, <1>2, <1>3, <1>4, <1>5, <1>6, <1>7, <1>8, <1>9, <1>10, <1>11, <1>12,
           <1>13, <1>14, <1>15, <1>16 DEF RpcNext, Main, Callback, Worker

\* The client's and the server's steps do not meet: what a step of the service leaves.
LEMMA ClientIdle ==
    ASSUME ServiceStep
    PROVE  /\ main' = main /\ callback' = callback /\ command' = command /\ worker' = worker
           /\ mutex' = mutex /\ mode' = mode /\ count' = count /\ shown' = shown
           /\ refill' = refill /\ missed' = missed
BY DEF ServiceStep, clientVars

----------------------------------------------------------------------------
(* The calls *)

\* How a call goes on at the service.
Goes(c) ==
    \/ handler'[c] = handler[c]
    \/ handler[c] # "none" /\ handler'[c] = "done"
    \/ /\ handler[c] = "registering"
       /\ handler'[c] = IF request[c].op = "SubscribeCaptureInfo" THEN "waiting"
                                                                 ELSE "unregistering"

\* The service takes no call back and makes none.
LEMMA ServiceCalls ==
    ASSUME Types, ServiceStep
    PROVE  request' = request /\ \A c \in Callers : Goes(c)
<1> USE DEF Types
<1>1. CASE Start
  BY <1>1 DEF Start, callVars, Goes
<1>2. CASE Interrupt
  BY <1>2 DEF Interrupt, callVars, Goes
<1>3. CASE Die
  <2>1. request' = request
    BY <1>3 DEF Die
  <2> QED BY <1>3, <2>1, AfterDeath DEF Goes
<1>4. ASSUME NEW c \in Callers, Serve(c)
      PROVE  request' = request /\ \A d \in Callers : Goes(d)
  <2>0. ASSUME NEW result, Serving(c, request[c].op), Return(c, result)
        PROVE  request' = request /\ \A d \in Callers : Goes(d)
    BY <2>0 DEF Serving, Return, CallTypes, Goes
  <2>1. CASE Prepare(c)
    BY <2>0, <2>1 DEF Prepare, Serving
  <2>2. CASE NullUse(c)
    BY <1>3, <2>2 DEF NullUse
  <2>3. CASE TakePhoto(c)
    BY <2>0, <2>3 DEF TakePhoto, Serving
  <2>4. CASE FormatStorage(c)
    BY <2>0, <2>4 DEF FormatStorage, Serving
  <2>5. CASE SetSetting(c)
    BY <2>0, <2>5 DEF SetSetting, Serving, ChangeMode
  <2>6. CASE SetMode(c)
    BY <2>0, <2>6 DEF SetMode, Serving, ChangeMode
  <2>7. CASE ResetSettings(c)
    BY <2>0, <2>7 DEF ResetSettings, Serving
  <2>8. CASE Answer(c)
    BY <2>8 DEF Answer, CallTypes, Goes
  <2>9. CASE Unregister(c)
    BY <2>9 DEF Unregister, CallTypes, Goes
  <2> QED BY <1>4, <2>1, <2>2, <2>3, <2>4, <2>5, <2>6, <2>7, <2>8, <2>9 DEF Serve
<1> QED BY <1>1, <1>2, <1>3, <1>4 DEF ServiceStep, Service, Exit, Crash, VectorRace

\* Each thread of the client makes the calls of the place where it is.
MainCalls ==
    /\ main \in {"down", "param", "running"} => handler["main"] = "none"
    /\ main \in {"prepare", "settings"} => handler["main"] # "none"
    /\ main = "prepare" => request["main"].op = "Prepare"
    /\ main \in {"information", "video stream info"} /\ handler["main"] # "none" =>
           request["main"].op \in {"SubscribeInformation", "SubscribeVideoStreamInfo"}
    /\ main = "settings" => request["main"].op = "SubscribeCurrentSettings"

CallbackCalls ==
    /\ handler["callback"] # "none" <=> callback = "call"
    /\ callback = "call" => request["callback"] = command
    /\ callback \in {"lock", "call"} => command \in Commands

OtherCalls ==
    /\ handler["worker"] # "none" => request["worker"].op = "SubscribeStatus"
    /\ handler["other"] # "none" => request["other"].op = "SubscribeCaptureInfo"

\* A Subscribe call has its own phases.
KindInv ==
    \A c \in Callers :
        /\ handler[c] = "called" => request[c].op \notin Streams
        /\ handler[c] \in {"registering", "unregistering", "waiting"} => request[c].op \in Streams
        /\ handler[c] = "waiting" => request[c].op = "SubscribeCaptureInfo"

CallInv == MainCalls /\ CallbackCalls /\ OtherCalls /\ KindInv

\* The calls' invariant holds in the beginning.
LEMMA CallInit == RpcInit => CallInv
<1> SUFFICES ASSUME RpcInit PROVE CallInv
  OBVIOUS
<1>1. /\ \A c \in Callers : handler[c] = "none"
      /\ main = "down" /\ callback = "idle"
  BY DEF RpcInit, Init
<1> QED BY <1>1, CallersAssumption DEF CallInv, MainCalls, CallbackCalls, OtherCalls, KindInv

\* What Send and Fetch leave of the calls of the others.
LEMMA SendEffect ==
    ASSUME Types, NEW c \in Callers, NEW call, Send(c, call)
    PROVE  /\ handler[c] = "none" /\ request'[c] = call
           /\ handler'[c] = IF process # "up" THEN "done"
                            ELSE IF call.op \in Streams THEN "registering" ELSE "called"
           /\ reply'[c] = IF process = "up" THEN "none" ELSE "lost"
           /\ \A d \in Callers \ {c} : /\ handler'[d] = handler[d] /\ request'[d] = request[d]
                                      /\ reply'[d] = reply[d]
BY DEF Send, Types, CallTypes

LEMMA FetchEffect ==
    ASSUME Types, NEW c \in Callers, Fetch(c)
    PROVE  /\ handler[c] = "done" /\ request'[c] = NoCall
           /\ handler'[c] = "none" /\ reply'[c] = "none"
           /\ \A d \in Callers \ {c} : /\ handler'[d] = handler[d] /\ request'[d] = request[d]
                                      /\ reply'[d] = reply[d]
BY DEF Fetch, Types, CallTypes

LEMMA KilledEffect ==
    ASSUME Types, Killed
    PROVE  /\ \A c \in Callers \ {"other"} :
                 handler'[c] = "none" /\ request'[c] = NoCall /\ reply'[c] = "none"
           /\ handler'["other"] = handler["other"] /\ request'["other"] = request["other"]
           /\ reply'["other"] = reply["other"]
BY CallersAssumption DEF Killed

\* Sending and fetching respect the kinds of calls.
LEMMA SendKind ==
    ASSUME Types, KindInv, NEW c \in Callers, NEW call, Send(c, call)
    PROVE  KindInv'
BY SendEffect DEF KindInv, Streams

LEMMA FetchKind ==
    ASSUME Types, KindInv, NEW c \in Callers, Fetch(c)
    PROVE  KindInv'
BY FetchEffect DEF KindInv

\* Every step keeps the calls' invariant.
LEMMA CallStep ==
    ASSUME Types, CallInv, [RpcNext]_vars
    PROVE  CallInv'
<1> USE DEF CallInv
<1>0. {"main", "callback", "worker", "other"} = Callers
  BY CallersAssumption
<1>1. CASE ServiceStep
  <2>1. request' = request /\ \A c \in Callers : Goes(c)
    BY <1>1, ServiceCalls
  <2>2. main' = main /\ callback' = callback /\ command' = command
    BY <1>1, ClientIdle
  <2>3. MainCalls'
    BY <1>0, <2>1, <2>2 DEF MainCalls, Goes
  <2>4. CallbackCalls'
    BY <1>0, <2>1, <2>2 DEF CallbackCalls, Goes
  <2>5. OtherCalls'
    BY <1>0, <2>1 DEF OtherCalls, Goes
  <2>6. KindInv'
    BY <2>1 DEF KindInv, Goes
  <2> QED BY <2>3, <2>4, <2>5, <2>6
<1>2. CASE Prepares
  <2>1. MainCalls'
    BY <1>0, <1>2, SendEffect DEF Prepares, MainCalls, CallbackCalls, OtherCalls, Call, clientVars
  <2>2. CallbackCalls'
    BY <1>0, <1>2, SendEffect DEF Prepares, CallbackCalls, MainCalls, clientVars
  <2>3. OtherCalls'
    BY <1>0, <1>2, SendEffect DEF Prepares, OtherCalls, Call
  <2>4. KindInv'
    BY <1>0, <1>2, SendKind DEF Prepares
  <2> QED BY <2>1, <2>2, <2>3, <2>4
<1>3. CASE ReadsInformation
  <2>0. PICK op \in {"SubscribeInformation", "SubscribeVideoStreamInfo"} :
          Send("main", Call(op, "none"))
    BY <1>3 DEF ReadsInformation
  <2>1. MainCalls'
    <3>1. request'["main"].op \in {"SubscribeInformation", "SubscribeVideoStreamInfo"}
      BY <1>0, <2>0, SendEffect DEF Call
    <3>2. main' = main /\ main \in {"information", "video stream info"}
      BY <1>3 DEF ReadsInformation, clientVars
    <3> QED BY <3>1, <3>2 DEF MainCalls
  <2>2. CallbackCalls'
    BY <1>0, <1>3, SendEffect DEF ReadsInformation, CallbackCalls, MainCalls, clientVars
  <2>3. OtherCalls'
    <3>1. \A c \in {"worker", "other"} : handler'[c] = handler[c] /\ request'[c] = request[c]
      BY <1>0, <2>0, SendEffect
    <3> QED BY <3>1 DEF OtherCalls
  <2>4. KindInv'
    BY <1>0, <1>3, SendKind DEF ReadsInformation
  <2> QED BY <2>1, <2>2, <2>3, <2>4
<1>4. CASE ReadsSettings
  <2>1. MainCalls'
    BY <1>0, <1>4, SendEffect DEF ReadsSettings, MainCalls, CallbackCalls, OtherCalls, Call, clientVars
  <2>2. CallbackCalls'
    BY <1>0, <1>4, SendEffect DEF ReadsSettings, CallbackCalls, MainCalls, clientVars
  <2>3. OtherCalls'
    BY <1>0, <1>4, SendEffect DEF ReadsSettings, OtherCalls, Call
  <2>4. KindInv'
    BY <1>0, <1>4, SendKind DEF ReadsSettings
  <2> QED BY <2>1, <2>2, <2>3, <2>4
<1>5. CASE AsksStatus
  <2>1. MainCalls'
    <3>1. handler'["main"] = handler["main"] /\ request'["main"] = request["main"]
      BY <1>0, <1>5, SendEffect DEF AsksStatus
    <3>2. main' = main
      BY <1>5 DEF AsksStatus
    <3> QED BY <3>1, <3>2 DEF MainCalls
  <2>2. CallbackCalls'
    BY <1>0, <1>5, SendEffect DEF AsksStatus, CallbackCalls, MainCalls, clientVars
  <2>3. OtherCalls'
    BY <1>0, <1>5, SendEffect DEF AsksStatus, OtherCalls, Call
  <2>4. KindInv'
    BY <1>0, <1>5, SendKind DEF AsksStatus
  <2> QED BY <2>1, <2>2, <2>3, <2>4
<1>6. CASE OtherSubscribes
  <2>1. MainCalls'
    <3>1. handler'["main"] = handler["main"] /\ request'["main"] = request["main"]
      BY <1>0, <1>6, SendEffect DEF OtherSubscribes
    <3>2. main' = main
      BY <1>6 DEF OtherSubscribes, clientVars
    <3> QED BY <3>1, <3>2 DEF MainCalls
  <2>2. CallbackCalls'
    <3>1. /\ handler'["callback"] = handler["callback"]
          /\ request'["callback"] = request["callback"]
      BY <1>0, <1>6, SendEffect DEF OtherSubscribes
    <3>2. UNCHANGED <<callback, command>>
      BY <1>6 DEF OtherSubscribes, clientVars
    <3> QED BY <3>1, <3>2 DEF CallbackCalls
  <2>3. OtherCalls'
    BY <1>0, <1>6, SendEffect DEF OtherSubscribes, OtherCalls, Call
  <2>4. KindInv'
    BY <1>0, <1>6, SendKind DEF OtherSubscribes
  <2> QED BY <2>1, <2>2, <2>3, <2>4
<1>7. CASE Calling
  <2>1. MainCalls'
    <3>1. handler'["main"] = handler["main"] /\ request'["main"] = request["main"]
      BY <1>0, <1>7, SendEffect DEF Calling
    <3>2. main' = main
      BY <1>7 DEF Calling
    <3> QED BY <3>1, <3>2 DEF MainCalls
  <2>2. CallbackCalls'
    <3>1. handler'["callback"] # "none" /\ request'["callback"] = command
      BY <1>0, <1>7, SendEffect DEF Calling
    <3>2. callback = "lock" /\ callback' = "call" /\ command' = command
      BY <1>7 DEF Calling
    <3> QED BY <3>1, <3>2 DEF CallbackCalls
  <2>3. OtherCalls'
    BY <1>0, <1>7, SendEffect DEF Calling, OtherCalls, Call
  <2>4. KindInv'
    BY <1>0, <1>7, SendKind DEF Calling
  <2> QED BY <2>1, <2>2, <2>3, <2>4
<1>8. CASE Prepared
  <2>1. MainCalls'
    BY <1>0, <1>8, FetchEffect DEF Prepared, MainCalls, CallbackCalls, OtherCalls, Call, clientVars
  <2>2. CallbackCalls'
    BY <1>0, <1>8, FetchEffect DEF Prepared, CallbackCalls, MainCalls, clientVars
  <2>3. OtherCalls'
    BY <1>0, <1>8, FetchEffect DEF Prepared, OtherCalls, Call
  <2>4. KindInv'
    BY <1>0, <1>8, FetchKind DEF Prepared
  <2> QED BY <2>1, <2>2, <2>3, <2>4
<1>9. CASE InformationRead
  <2>1. MainCalls'
    BY <1>0, <1>9, FetchEffect DEF InformationRead, MainCalls, CallbackCalls, OtherCalls, Call, clientVars
  <2>2. CallbackCalls'
    BY <1>0, <1>9, FetchEffect DEF InformationRead, CallbackCalls, MainCalls, clientVars
  <2>3. OtherCalls'
    BY <1>0, <1>9, FetchEffect DEF InformationRead, OtherCalls, Call
  <2>4. KindInv'
    BY <1>0, <1>9, FetchKind DEF InformationRead
  <2> QED BY <2>1, <2>2, <2>3, <2>4
<1>10. CASE SettingsRead
  <2>1. MainCalls'
    BY <1>0, <1>10, FetchEffect DEF SettingsRead, MainCalls, CallbackCalls, OtherCalls, Call, clientVars
  <2>2. CallbackCalls'
    BY <1>0, <1>10, FetchEffect DEF SettingsRead, CallbackCalls, MainCalls, clientVars
  <2>3. OtherCalls'
    BY <1>0, <1>10, FetchEffect DEF SettingsRead, OtherCalls, Call
  <2>4. KindInv'
    BY <1>0, <1>10, FetchKind DEF SettingsRead
  <2> QED BY <2>1, <2>2, <2>3, <2>4
<1>11. CASE Answered
  <2>1. MainCalls'
    BY <1>0, <1>11, FetchEffect DEF Answered, MainCalls, CallbackCalls, OtherCalls, Call, clientVars
  <2>2. CallbackCalls'
    BY <1>0, <1>11, FetchEffect DEF Answered, CallbackCalls, MainCalls, clientVars
  <2>3. OtherCalls'
    BY <1>0, <1>11, FetchEffect DEF Answered, OtherCalls, Call
  <2>4. KindInv'
    BY <1>0, <1>11, FetchKind DEF Answered
  <2> QED BY <2>1, <2>2, <2>3, <2>4
<1>12. CASE StatusRead
  <2>1. MainCalls'
    BY <1>0, <1>12, FetchEffect DEF StatusRead, MainCalls, CallbackCalls, OtherCalls, Call, clientVars
  <2>2. CallbackCalls'
    BY <1>0, <1>12, FetchEffect DEF StatusRead, CallbackCalls, MainCalls, clientVars
  <2>3. OtherCalls'
    BY <1>0, <1>12, FetchEffect DEF StatusRead, OtherCalls, Call
  <2>4. KindInv'
    BY <1>0, <1>12, FetchKind DEF StatusRead
  <2> QED BY <2>1, <2>2, <2>3, <2>4
<1>13. CASE OtherFetches
  <2>1. MainCalls'
    <3>1. handler'["main"] = handler["main"] /\ request'["main"] = request["main"]
      BY <1>0, <1>13, FetchEffect DEF OtherFetches
    <3>2. main' = main
      BY <1>13 DEF OtherFetches, clientVars
    <3> QED BY <3>1, <3>2 DEF MainCalls
  <2>2. CallbackCalls'
    BY <1>0, <1>13, FetchEffect DEF OtherFetches, CallbackCalls, MainCalls, clientVars
  <2>3. OtherCalls'
    BY <1>0, <1>13, FetchEffect DEF OtherFetches, OtherCalls, Call
  <2>4. KindInv'
    BY <1>0, <1>13, FetchKind DEF OtherFetches
  <2> QED BY <2>1, <2>2, <2>3, <2>4
<1>14. CASE Killed
  <2>1. MainCalls'
    BY <1>0, <1>14, KilledEffect DEF Killed, MainCalls, CallbackCalls, OtherCalls, Call, clientVars
  <2>2. CallbackCalls'
    BY <1>0, <1>14, KilledEffect DEF Killed, CallbackCalls, MainCalls, clientVars
  <2>3. OtherCalls'
    BY <1>0, <1>14, KilledEffect DEF Killed, OtherCalls, Call
  <2>4. KindInv'
    BY <1>0, <1>14, KilledEffect DEF Killed, KindInv
  <2> QED BY <2>1, <2>2, <2>3, <2>4
<1>15. ASSUME NEW call \in Commands, Commanded(call)
      PROVE  CallInv'
  <2>1. /\ request' = request /\ handler' = handler /\ main' = main
        /\ callback = "idle" /\ callback' = "lock" /\ command' = call
    BY <1>15 DEF Commanded, serviceVars, callVars
  <2> QED BY <2>1 DEF MainCalls, CallbackCalls, OtherCalls, KindInv
<1>16. CASE UNCHANGED vars
  BY <1>16 DEF vars, serviceVars, callVars, clientVars, MainCalls, CallbackCalls, OtherCalls, KindInv
<1> QED BY <1>1, <1>2, <1>3, <1>4, <1>5, <1>6, <1>7, <1>8, <1>9, <1>10, <1>11, <1>12, <1>13, <1>14, <1>15, <1>16
        DEF RpcNext, Main, Callback, Worker

\* Only the callback thread asks for something to be done, and only the main thread
\* for a camera.
LEMMA CommandCall ==
    ASSUME Types, CallInv, NEW c \in Callers, NEW op \in UsesCamera \cup {"ResetSettings"}, Serving(c, op)
    PROVE  /\ c = "callback" /\ callback = "call" /\ handler["callback"] = "called"
           /\ request["callback"] = command /\ command.op = op
<1>0. /\ handler[c] = "called" /\ request[c].op = op
      /\ op \in {"TakePhoto", "FormatStorage", "SetSetting", "SetMode", "ResetSettings"}
  BY DEF Serving, UsesCamera
<1>1. c \notin {"worker", "other"}
  BY <1>0 DEF CallInv, OtherCalls
<1>2. c # "main"
  <2>1. SUFFICES ASSUME c = "main" PROVE FALSE
    OBVIOUS
  <2>2. main \in {"prepare", "settings", "information", "video stream info"}
    BY <1>0, <2>1 DEF CallInv, MainCalls, Types, ClientTypes
  <2> QED BY <1>0, <2>1, <2>2 DEF CallInv, MainCalls
<1>3. c = "callback"
  BY <1>1, <1>2, CallersAssumption
<1> QED BY <1>0, <1>3 DEF CallInv, CallbackCalls

LEMMA PrepareCall ==
    ASSUME Types, CallInv, NEW c \in Callers, Serving(c, "Prepare")
    PROVE  c = "main" /\ main = "prepare"
<1>1. c # "callback"
  <2>1. SUFFICES ASSUME c = "callback" PROVE FALSE
    OBVIOUS
  <2>2. command \in Commands /\ command.op = "Prepare"
    BY <2>1 DEF CallInv, CallbackCalls, Serving
  <2> QED BY <2>2, CommandsAssumption
<1>2. c \notin {"worker", "other"}
  BY DEF CallInv, OtherCalls, Serving
<1>3. c = "main"
  BY <1>1, <1>2, CallersAssumption
<1> QED BY <1>3 DEF CallInv, MainCalls, Serving, Types, ClientTypes

LEMMA AnswerCall ==
    ASSUME CallInv, NEW c \in Callers, handler[c] \in {"registering", "unregistering"}
    PROVE  c # "callback"
<1>1. SUFFICES ASSUME c = "callback" PROVE FALSE
  OBVIOUS
<1>2. command \in Commands /\ command.op \in Streams
  BY <1>1 DEF CallInv, CallbackCalls, KindInv
<1> QED BY <1>2, CommandsAssumption DEF Streams

----------------------------------------------------------------------------
(* The mutex, and the life of the client *)

\* The mutex is held exactly for the time of a call of the main thread's last place
\* and of a command, or for good.
MutexInv ==
    /\ mutex = "main" <=> main = "settings"
    /\ mutex = "callback" <=> callback \in {"call", "refill"}

\* Nothing was done before the client is up, and the mode is in doubt until the
\* settings were read.
LifeInv ==
    /\ main \in {"down", "prepare"} => callback = "idle" /\ count = 0 /\ photos = 0 /\ ~missed
    /\ ~doubt => main = "running"

\* The server's photos change only with a command.
LEMMA PhotosKept ==
    ASSUME Types, CallInv, ServiceStep, callback # "call"
    PROVE  photos' = photos
<1>1. CASE Start
  BY <1>1 DEF Start
<1>2. CASE Interrupt
  BY <1>2 DEF Interrupt, cameraVars
<1>3. CASE Die
  BY <1>3 DEF Die, cameraVars
<1>4. ASSUME NEW c \in Callers, Serve(c)
      PROVE  photos' = photos
  <2>0. ~ \E op \in UsesCamera \cup {"ResetSettings"} : Serving(c, op)
    BY CommandCall
  <2>1. CASE Prepare(c)
    BY <2>1 DEF Prepare, cameraVars
  <2>2. CASE NullUse(c)
    BY <2>2 DEF NullUse, Die, cameraVars
  <2>3. CASE Answer(c)
    BY <2>3 DEF Answer, cameraVars
  <2>4. CASE Unregister(c)
    BY <2>4 DEF Unregister, cameraVars
  <2> QED BY <1>4, <2>0, <2>1, <2>2, <2>3, <2>4
          DEF Serve, TakePhoto, FormatStorage, SetSetting, SetMode, ResetSettings, UsesCamera
<1> QED BY <1>1, <1>2, <1>3, <1>4 DEF ServiceStep, Service, Exit, Crash, VectorRace

\* Both hold in the beginning.
LEMMA LifeInit == RpcInit => MutexInv /\ LifeInv
BY DEF RpcInit, Init, MutexInv, LifeInv

\* Every step keeps them.
LEMMA LifeStep ==
    ASSUME Types, CallInv, MutexInv, LifeInv, [RpcNext]_vars
    PROVE  MutexInv' /\ LifeInv'
<1> USE DEF MutexInv, LifeInv
<1>1. CASE ServiceStep
  <2>1. /\ main' = main /\ callback' = callback /\ mutex' = mutex /\ count' = count
        /\ missed' = missed
    BY <1>1, ClientIdle
  <2>2. doubt => doubt'
    BY <1>1 DEF ServiceStep
  <2>3. main \in {"down", "prepare"} => photos' = photos
    BY <1>1, PhotosKept
  <2> QED BY <2>1, <2>2, <2>3
<1>2. CASE Prepares
  BY <1>2 DEF Prepares, cameraVars, clientVars, ghostVars
<1>3. CASE Prepared
  BY <1>3 DEF Prepared, cameraVars, clientVars, ghostVars
<1>4. CASE ReadsInformation
  BY <1>4 DEF ReadsInformation, cameraVars, clientVars, ghostVars
<1>5. CASE InformationRead
  BY <1>5 DEF InformationRead, cameraVars, clientVars, ghostVars
<1>6. CASE ReadsSettings
  BY <1>6 DEF ReadsSettings, cameraVars, clientVars, ghostVars
<1>7. CASE SettingsRead
  BY <1>7 DEF SettingsRead, cameraVars, clientVars, ghostVars
<1>8. CASE Killed
  BY <1>8 DEF Killed, cameraVars, clientVars, ghostVars
<1>9. CASE Calling
  BY <1>9 DEF Calling, cameraVars, clientVars, ghostVars
<1>10. CASE Answered
  BY <1>10 DEF Answered, cameraVars, clientVars, ghostVars
<1>11. CASE AsksStatus
  BY <1>11 DEF AsksStatus, cameraVars, clientVars, ghostVars
<1>12. CASE StatusRead
  BY <1>12 DEF StatusRead, cameraVars, clientVars, ghostVars
<1>13. CASE OtherSubscribes
  BY <1>13 DEF OtherSubscribes, cameraVars, clientVars, ghostVars
<1>14. CASE OtherFetches
  BY <1>14 DEF OtherFetches, cameraVars, clientVars, ghostVars
<1>15. ASSUME NEW call \in Commands, Commanded(call)
      PROVE  MutexInv' /\ LifeInv'
  BY <1>15 DEF Commanded, Subscribed, serviceVars, cameraVars, ghostVars
<1>16. CASE UNCHANGED vars
  BY <1>16 DEF vars, serviceVars, cameraVars, clientVars, ghostVars
<1> QED BY <1>1, <1>2, <1>3, <1>4, <1>5, <1>6, <1>7, <1>8, <1>9, <1>10, <1>11, <1>12, <1>13, <1>14, <1>15, <1>16
        DEF RpcNext, Main, Callback, Worker

----------------------------------------------------------------------------
(* What was lost *)

Photographs == {"TakePhoto", "FormatStorage"}

\* The answer to a photo or to a format is lost, whether the client knows it or not.
Lost == missed \/ (callback = "call" /\ command.op \in Photographs /\ reply["callback"] = "lost")

\* After that the camera takes no photo and formats no card for this client.
LostInv ==
    /\ Lost => camera = "none" \/ (process # "up" /\ handler["callback"] # "called")
    /\ missed /\ callback = "call" /\ command.op \in Photographs => reply["callback"] # "Success"

\* The server's photos are the client's and the one that is on its way.
CountInv ==
    /\ count \in 0 .. MaxPhotos /\ shown \in 0 .. MaxPhotos
    /\ handler["callback"] = "called" => reply["callback"] = "none"
    /\ ~Lost =>
           photos = IF callback = "call" /\ reply["callback"] = "Success"
                    THEN CASE command.op = "TakePhoto" -> count + 1
                           [] command.op = "FormatStorage" -> 0
                           [] OTHER -> count
                    ELSE count

\* A client that was told so, and did not see the server restart, has a camera.
NullInv == Ready /\ ~replaced => camera # "none"

\* The mode that a command asks for.
Asked == IF command.op = "SetMode" THEN command.arg ELSE ModeOf(command.arg)

\* A server without an open camera has not noted a mode.
ServerModeInv ==
    /\ camera # "open" => serverMode = "Unknown" /\ ~wasReset
    /\ camera = "open" => setting = SettingOf(cameraMode)
    /\ camera = "open" /\ ~wasReset => serverMode \in {"Unknown", cameraMode}

\* What the main thread has read is true until it leaves the place.
ReadInv ==
    main = "settings" /\ camera = "open" /\ reply["main"] \in {"0", "1"} =>
        reply["main"] = SettingOf(cameraMode)

\* The client's mode is the camera's, but for an answer that is on its way.
ShownModeInv ==
    ~doubt /\ ~wasReset =>
        /\ camera = "open"
        /\ cameraMode = IF /\ callback = "call" /\ command.op \in ChangesMode
                           /\ handler["callback"] = "done" /\ reply["callback"] # "lost"
                        THEN Asked ELSE mode

\* A call that is served leaves the other calls alone, unless the process dies.
LEMMA OthersKept ==
    ASSUME Types, NEW c \in Callers, Serve(c), ~Die, NEW d \in Callers \ {c}
    PROVE  handler'[d] = handler[d] /\ reply'[d] = reply[d] /\ process' = process
<1> USE DEF Types, CallTypes
<1>1. ASSUME NEW result, Return(c, result)
      PROVE  handler'[d] = handler[d] /\ reply'[d] = reply[d] /\ process' = process
  BY <1>1 DEF Return
<1>2. CASE Prepare(c)
  BY <1>1, <1>2 DEF Prepare
<1>3. CASE NullUse(c)
  BY <1>3 DEF NullUse
<1>4. CASE TakePhoto(c)
  BY <1>1, <1>4 DEF TakePhoto
<1>5. CASE FormatStorage(c)
  BY <1>1, <1>5 DEF FormatStorage
<1>6. CASE SetSetting(c)
  BY <1>1, <1>6 DEF SetSetting, ChangeMode
<1>7. CASE SetMode(c)
  BY <1>1, <1>7 DEF SetMode, ChangeMode
<1>8. CASE ResetSettings(c)
  BY <1>1, <1>8 DEF ResetSettings
<1>9. CASE Answer(c)
  BY <1>9 DEF Answer
<1>10. CASE Unregister(c)
  BY <1>10 DEF Unregister
<1> QED BY <1>2, <1>3, <1>4, <1>5, <1>6, <1>7, <1>8, <1>9, <1>10 DEF Serve

\* What a command does to the photos and to its own answer.
LEMMA CommandEffect ==
    ASSUME Types, CallInv, NEW c \in Callers, Serve(c), ~Die,
           NEW op \in UsesCamera \cup {"ResetSettings"}, Serving(c, op)
    PROVE  /\ c = "callback" /\ callback = "call" /\ handler["callback"] = "called"
           /\ command.op = op /\ process' = process
           /\ handler'["callback"] = "done" /\ reply'["callback"] \in {"Success", "Error"}
           /\ camera' = camera
           /\ op \in Photographs => camera # "none"
           /\ photos' = IF reply'["callback"] = "Success"
                        THEN CASE op = "TakePhoto" -> photos + 1
                               [] op = "FormatStorage" -> 0
                               [] OTHER -> photos
                        ELSE photos
<1> USE DEF Types, CallTypes, Photographs
<1>1. /\ c = "callback" /\ callback = "call" /\ handler["callback"] = "called"
      /\ request["callback"] = command /\ command.op = op
  BY CommandCall
<1>2. op \in {"TakePhoto", "FormatStorage", "SetSetting", "SetMode", "ResetSettings"}
  BY DEF UsesCamera
<1>3. ~ NullUse(c) /\ ~ Prepare(c) /\ ~ Answer(c) /\ ~ Unregister(c)
  BY <1>1, <1>2 DEF NullUse, Prepare, Answer, Unregister, Serving
<1>4. ASSUME NEW result \in {"Success", "Error"}, Return(c, result)
      PROVE  /\ process' = process /\ handler'["callback"] = "done"
             /\ reply'["callback"] = result
  BY <1>1, <1>4 DEF Return
<1>5. CASE TakePhoto(c)
  <2>0. op = "TakePhoto"
    BY <1>5 DEF TakePhoto, Serving
  <2>1. PICK ok \in BOOLEAN :
          /\ photos' = IF ok THEN photos + 1 ELSE photos
          /\ Return(c, Succeeded(ok))
    BY <1>5 DEF TakePhoto
  <2>2. reply'["callback"] = Succeeded(ok) /\ process' = process /\ handler'["callback"] = "done"
    BY <1>4, <2>1 DEF Succeeded
  <2>3. camera # "none" /\ camera' = camera
    BY <1>5 DEF TakePhoto
  <2> QED BY <1>1, <2>0, <2>1, <2>2, <2>3 DEF Succeeded
<1>6. CASE FormatStorage(c)
  <2>0. op = "FormatStorage"
    BY <1>6 DEF FormatStorage, Serving
  <2>1. PICK ok \in BOOLEAN :
          /\ photos' = IF ok THEN 0 ELSE photos
          /\ Return(c, Succeeded(ok))
    BY <1>6 DEF FormatStorage
  <2>2. reply'["callback"] = Succeeded(ok) /\ process' = process /\ handler'["callback"] = "done"
    BY <1>4, <2>1 DEF Succeeded
  <2>3. camera # "none" /\ camera' = camera
    BY <1>6 DEF FormatStorage
  <2> QED BY <1>1, <2>0, <2>1, <2>2, <2>3 DEF Succeeded
<1>7. CASE SetSetting(c)
  <2>0. op = "SetSetting"
    BY <1>7 DEF SetSetting, Serving
  <2>1. Return(c, "Success") /\ camera # "none" /\ camera' = camera /\ photos' = photos
    BY <1>7 DEF SetSetting, ChangeMode
  <2> QED BY <1>1, <1>4, <2>0, <2>1
<1>8. CASE SetMode(c)
  <2>0. op = "SetMode"
    BY <1>8 DEF SetMode, Serving
  <2>1. Return(c, "Success") /\ camera' = camera /\ photos' = photos
    BY <1>8 DEF SetMode, ChangeMode, cameraVars
  <2> QED BY <1>1, <1>4, <2>0, <2>1
<1>9. CASE ResetSettings(c)
  <2>0. op = "ResetSettings"
    BY <1>9 DEF ResetSettings, Serving
  <2>1. CASE camera = "none"
    BY <1>1, <1>4, <1>9, <2>0, <2>1 DEF ResetSettings, cameraVars, UsesCamera
  <2>2. CASE camera # "none"
    BY <1>1, <1>4, <1>9, <2>0, <2>2 DEF ResetSettings, UsesCamera
  <2> QED BY <2>1, <2>2
<1> QED BY <1>3, <1>5, <1>6, <1>7, <1>8, <1>9 DEF Serve

\* The photos' part holds in the beginning.
LEMMA CountInit == RpcInit => LostInv /\ CountInv
<1> SUFFICES ASSUME RpcInit PROVE LostInv /\ CountInv
  OBVIOUS
<1>1. /\ callback = "idle" /\ missed = FALSE /\ count = 0 /\ shown = 0 /\ photos = 0
      /\ \A c \in Callers : handler[c] = "none"
  BY DEF RpcInit, Init
<1>2. handler["callback"] = "none"
  BY <1>1, CallersAssumption
<1> QED BY <1>1, <1>2, MaxPhotosAssumption DEF LostInv, CountInv, Lost

\* A step of the service keeps it.
LEMMA CountService ==
    ASSUME Types, CallInv, LifeInv, LostInv, CountInv, ServiceStep
    PROVE  LostInv' /\ CountInv'
<1>0. /\ callback' = callback /\ command' = command /\ count' = count /\ shown' = shown
      /\ missed' = missed /\ "callback" \in Callers
  BY ClientIdle, CallersAssumption
<1> USE DEF LostInv, CountInv, Lost
<1>1. CASE Start
  BY <1>0, <1>1 DEF Start, callVars
<1>2. CASE Interrupt
  BY <1>0, <1>2 DEF Interrupt, callVars, cameraVars
<1>3. CASE Die
  <2>1. /\ handler'["callback"] = IF handler["callback"] = "none" THEN "none" ELSE "done"
        /\ reply'["callback"] = reply["callback"] \/ reply'["callback"] = "lost"
        /\ handler["callback"] \notin {"none", "done"} => reply'["callback"] = "lost"
        /\ process' = "down" /\ camera' = camera /\ photos' = photos
    BY <1>0, <1>3, AfterDeath DEF Types
  <2>2. process' # "up" /\ handler'["callback"] # "called"
    BY <2>1
  <2>3. callback = "call" <=> handler["callback"] # "none"
    BY DEF CallInv, CallbackCalls
  <2>4. LostInv'
    BY <1>0, <2>1, <2>2
  <2>5. CountInv'
    BY <1>0, <2>1, <2>2, <2>3 DEF Photographs
  <2> QED BY <2>4, <2>5
<1>4. ASSUME NEW c \in Callers, Serve(c), ~Die
      PROVE  LostInv' /\ CountInv'
  <2>1. CASE c # "callback"
    <3>1. /\ handler'["callback"] = handler["callback"] /\ reply'["callback"] = reply["callback"]
          /\ process' = process
      BY <1>0, <1>4, <2>1, OthersKept
    <3>2. ~ \E op \in UsesCamera \cup {"ResetSettings"} : Serving(c, op)
      BY <2>1, CommandCall
    <3>3. CASE Prepare(c)
      <4>1. main = "prepare"
        BY <3>3, PrepareCall DEF Prepare
      <4>2. ~Lost
        BY <4>1 DEF LifeInv
      <4>3. photos' = photos
        BY <3>3 DEF Prepare, cameraVars
      <4> QED BY <1>0, <3>1, <4>1, <4>2, <4>3 DEF LifeInv
    <3>4. CASE Answer(c) \/ Unregister(c)
      <4>1. camera' = camera /\ photos' = photos
        BY <3>4 DEF Answer, Unregister, cameraVars
      <4> QED BY <1>0, <3>1, <4>1
    <3> QED BY <1>4, <3>2, <3>3, <3>4
            DEF Serve, NullUse, TakePhoto, FormatStorage, SetSetting, SetMode, ResetSettings,
                UsesCamera
  <2>2. CASE c = "callback"
    <3>1. PICK op \in UsesCamera \cup {"ResetSettings"} : Serving(c, op)
      <4>1. ~ Prepare(c) /\ ~ Answer(c) /\ ~ Unregister(c)
        BY <2>2, PrepareCall, AnswerCall DEF Prepare, Answer, Unregister
      <4> QED BY <1>4, <4>1
              DEF Serve, NullUse, TakePhoto, FormatStorage, SetSetting, SetMode, ResetSettings,
                  UsesCamera
    <3>2. /\ callback = "call" /\ handler["callback"] = "called" /\ command.op = op
          /\ process' = process
          /\ handler'["callback"] = "done" /\ reply'["callback"] \in {"Success", "Error"}
          /\ camera' = camera /\ (op \in Photographs => camera # "none")
          /\ photos' = IF reply'["callback"] = "Success"
                       THEN CASE op = "TakePhoto" -> photos + 1
                              [] op = "FormatStorage" -> 0
                              [] OTHER -> photos
                       ELSE photos
      BY <1>4, <3>1, CommandEffect
    <3>3. LostInv'
      BY <1>0, <3>2
    <3>4. CountInv'
      BY <1>0, <3>2
    <3> QED BY <3>3, <3>4
  <2> QED BY <2>1, <2>2
<1> QED BY <1>1, <1>2, <1>3, <1>4 DEF ServiceStep, Service, Exit, Crash, VectorRace

\* Every step keeps it.
LEMMA CountStep ==
    ASSUME Types, CallInv, LifeInv, LostInv, CountInv, [RpcNext]_vars
    PROVE  LostInv' /\ CountInv'
<1> USE DEF LostInv, CountInv, Lost
<1>0. {"main", "callback", "worker", "other"} \subseteq Callers
  BY CallersAssumption
<1>1. CASE ServiceStep
  BY <1>1, CountService
<1>2. ASSUME NEW c \in Callers \ {"callback"}, (\E call : Send(c, call)) \/ Fetch(c)
      PROVE  handler'["callback"] = handler["callback"] /\ reply'["callback"] = reply["callback"]
  BY <1>0, <1>2, SendEffect, FetchEffect
<1>3. CASE /\ handler'["callback"] = handler["callback"] /\ reply'["callback"] = reply["callback"]
           /\ process' = process /\ camera' = camera /\ photos' = photos
           /\ callback' = callback /\ command' = command /\ missed' = missed
           /\ count' = count /\ shown' \in {shown, count}
  BY <1>3
<1>4. CASE Prepares
  BY <1>0, <1>2, <1>3, <1>4 DEF Prepares, cameraVars, ghostVars
<1>5. CASE Prepared
  <2>1. /\ handler'["callback"] = handler["callback"] /\ reply'["callback"] = reply["callback"]
    BY <1>0, <1>2, <1>5 DEF Prepared
  <2>2. /\ process' = process /\ camera' = camera /\ photos' = photos /\ count = 0
        /\ callback' = callback /\ command' = command /\ missed' = missed
        /\ count' \in {0, count} /\ shown' = shown
    BY <1>5 DEF Prepared, cameraVars, LifeInv
  <2> QED BY <1>3, <2>1, <2>2
<1>6. CASE ReadsInformation
  BY <1>0, <1>2, <1>3, <1>6 DEF ReadsInformation, cameraVars, clientVars, ghostVars
<1>7. CASE InformationRead
  BY <1>0, <1>2, <1>3, <1>7 DEF InformationRead, cameraVars, clientVars, ghostVars
<1>8. CASE ReadsSettings
  BY <1>0, <1>2, <1>3, <1>8 DEF ReadsSettings, cameraVars, clientVars, ghostVars
<1>9. CASE SettingsRead
  BY <1>0, <1>2, <1>3, <1>9 DEF SettingsRead, cameraVars, clientVars
<1>10. CASE Killed
  BY <1>0, <1>10, MaxPhotosAssumption DEF Killed
<1>11. CASE Calling
  <2>1. /\ handler'["callback"] = IF process # "up" THEN "done"
                                  ELSE IF command.op \in Streams THEN "registering" ELSE "called"
        /\ reply'["callback"] = IF process = "up" THEN "none" ELSE "lost"
    BY <1>0, <1>11, SendEffect DEF Calling
  <2>2. /\ process' = process /\ camera' = camera /\ photos' = photos /\ missed' = missed
        /\ callback = "lock" /\ callback' = "call" /\ command' = command
        /\ count' = count /\ shown' = shown
    BY <1>11 DEF Calling, cameraVars, clientVars, ghostVars
  <2>3. LostInv'
    BY <2>1, <2>2
  <2>4. CountInv'
    BY <2>1, <2>2
  <2> QED BY <2>3, <2>4
<1>12. CASE Answered
  <2>1. handler["callback"] = "done" /\ handler'["callback"] = "none"
    BY <1>0, <1>12, FetchEffect DEF Answered
  <2>2. /\ callback = "call" /\ callback' \in {"idle", "refill"}
        /\ process' = process /\ camera' = camera /\ photos' = photos /\ shown' = shown
        /\ missed' = IF command.op \in Photographs /\ reply["callback"] = "lost" THEN TRUE ELSE missed
        /\ count' = CASE reply["callback"] = "Success" /\ command.op = "FormatStorage" -> 0
                      [] reply["callback"] = "Success" /\ command.op = "TakePhoto" -> count + 1
                      [] OTHER -> count
    BY <1>12 DEF Answered, cameraVars, Photographs
  <2>3. Lost' <=> Lost
    BY <2>2
  <2>4. LostInv'
    BY <2>1, <2>2, <2>3
  <2>5. ~Lost => photos' = count'
    BY <2>2
  <2>6. count' \in 0 .. MaxPhotos
    <3>1. CASE reply["callback"] = "Success" /\ command.op = "TakePhoto"
      <4>1. ~Lost
        BY <2>2, <3>1 DEF Photographs
      <4> QED BY <2>2, <3>1, <4>1 DEF Types, ServerTypes
    <3>2. CASE ~(reply["callback"] = "Success" /\ command.op = "TakePhoto")
      BY <2>2, <3>2, MaxPhotosAssumption
    <3> QED BY <3>1, <3>2
  <2> QED BY <2>1, <2>2, <2>3, <2>4, <2>5, <2>6
<1>13. CASE AsksStatus
  BY <1>0, <1>2, <1>3, <1>13 DEF AsksStatus, cameraVars, clientVars, ghostVars
<1>14. CASE StatusRead
  BY <1>0, <1>2, <1>3, <1>14 DEF StatusRead, cameraVars, clientVars, ghostVars
<1>15. CASE OtherSubscribes
  BY <1>0, <1>2, <1>3, <1>15 DEF OtherSubscribes, cameraVars, clientVars, ghostVars
<1>16. CASE OtherFetches
  BY <1>0, <1>2, <1>3, <1>16 DEF OtherFetches, cameraVars, clientVars, ghostVars
<1>17. ASSUME NEW call \in Commands, Commanded(call)
       PROVE  LostInv' /\ CountInv'
  <2>1. /\ handler' = handler /\ reply' = reply /\ process' = process /\ camera' = camera
        /\ photos' = photos /\ missed' = missed /\ count' = count /\ shown' = shown
        /\ callback = "idle" /\ callback' = "lock"
    BY <1>17 DEF Commanded, serviceVars, callVars, cameraVars, ghostVars
  <2> QED BY <2>1
<1>18. CASE UNCHANGED vars
  <2>1. /\ handler' = handler /\ reply' = reply /\ process' = process /\ camera' = camera
        /\ photos' = photos /\ missed' = missed /\ count' = count /\ shown' = shown
        /\ callback' = callback /\ command' = command
    BY <1>18 DEF vars, serviceVars, callVars, cameraVars, clientVars, ghostVars
  <2> QED BY <1>3, <2>1
<1> QED BY <1>1, <1>4, <1>5, <1>6, <1>7, <1>8, <1>9, <1>10, <1>11, <1>12, <1>13, <1>14, <1>15,
           <1>16, <1>17, <1>18 DEF RpcNext, Main, Callback, Worker

----------------------------------------------------------------------------
(* The camera of a client that is ready *)

\* A step of the service takes no camera away that the client knows of, but for a restart.
LEMMA NullService ==
    ASSUME Types, CallInv, NullInv, ServiceStep
    PROVE  NullInv'
<1>0. /\ main' = main /\ (replaced => replaced') /\ "main" \in Callers
  BY ClientIdle, CallersAssumption DEF ServiceStep
<1> USE DEF NullInv, Ready, Subscribed
<1>1. CASE Start
  <2>1. reply' = reply /\ process = "down" /\ process' = "up"
    BY <1>1 DEF Start, callVars
  <2>2. replaced' <=> replaced \/ Ready
    BY <2>1 DEF ServiceStep
  <2> QED BY <1>0, <2>1, <2>2
<1>2. CASE Interrupt
  BY <1>0, <1>2 DEF Interrupt, callVars, cameraVars
<1>3. CASE Die
  <2>1. /\ reply'["main"] = reply["main"] \/ reply'["main"] = "lost"
        /\ camera' = camera
    BY <1>0, <1>3, AfterDeath DEF Types
  <2> QED BY <1>0, <2>1
<1>4. ASSUME NEW c \in Callers, Serve(c), ~Die
      PROVE  NullInv'
  <2>1. CASE c # "main"
    <3>1. reply'["main"] = reply["main"]
      BY <1>0, <1>4, <2>1, OthersKept
    <3>2. ~ Prepare(c)
      BY <2>1, PrepareCall DEF Prepare
    <3>3. camera' = camera
      BY <1>4, <3>2 DEF Serve, NullUse, TakePhoto, FormatStorage, SetSetting, SetMode, ChangeMode,
                        ResetSettings, Answer, Unregister, cameraVars
    <3> QED BY <1>0, <3>1, <3>3
  <2>2. CASE Prepare(c)
    <3>0. c = "main" /\ main = "prepare"
      BY <2>2, PrepareCall DEF Prepare
    <3>1. CASE camera # "none"
      BY <1>0, <2>2, <3>0, <3>1 DEF Prepare, cameraVars
    <3>2. CASE camera = "none"
      <4>1. PICK found \in {"none", "unready", "closed", "open"} :
              camera' = found /\ Return(c, Succeeded(found \in {"closed", "open"}))
        BY <2>2, <3>2 DEF Prepare
      <4>2. reply'["main"] = Succeeded(found \in {"closed", "open"})
        BY <1>0, <3>0, <4>1 DEF Return, Types, CallTypes
      <4> QED BY <1>0, <3>0, <4>1, <4>2 DEF Succeeded
    <3> QED BY <3>1, <3>2
  <2>3. CASE c = "main" /\ ~ Prepare(c)
    <3>1. ~ \E op \in UsesCamera \cup {"ResetSettings"} : Serving(c, op)
      BY <2>3, CommandCall
    <3>2. Answer(c) \/ Unregister(c)
      BY <1>4, <2>3, <3>1
      DEF Serve, NullUse, TakePhoto, FormatStorage, SetSetting, SetMode, ResetSettings, UsesCamera
    <3>3. camera' = camera /\ handler[c] \in {"registering", "unregistering"}
      BY <3>2 DEF Answer, Unregister, cameraVars
    <3>4. request["main"].op # "Prepare"
      BY <1>0, <2>3, <3>3 DEF CallInv, KindInv, Streams
    <3>5. main # "prepare"
      BY <3>4 DEF CallInv, MainCalls
    <3> QED BY <1>0, <3>3, <3>5
  <2> QED BY <2>1, <2>2, <2>3
<1> QED BY <1>1, <1>2, <1>3, <1>4 DEF ServiceStep, Service, Exit, Crash, VectorRace

\* Every step keeps it.
LEMMA NullStep ==
    ASSUME Types, CallInv, LifeInv, NullInv, [RpcNext]_vars
    PROVE  NullInv'
<1> USE DEF NullInv, Ready, Subscribed
<1>0. {"main", "callback", "worker", "other"} \subseteq Callers
  BY CallersAssumption
<1>1. CASE ServiceStep
  BY <1>1, NullService
<1>2. CASE main \notin {"down", "prepare"} /\ camera' = camera /\ replaced' = replaced
  BY <1>2
<1>3. CASE Prepares
  BY <1>0, <1>3, SendEffect DEF Prepares, cameraVars, ghostVars
<1>4. CASE Prepared
  BY <1>4 DEF Prepared, cameraVars
<1>5. CASE ReadsInformation
  BY <1>2, <1>5 DEF ReadsInformation, cameraVars, ghostVars
<1>6. CASE InformationRead
  BY <1>2, <1>6 DEF InformationRead, cameraVars, ghostVars
<1>7. CASE ReadsSettings
  BY <1>2, <1>7 DEF ReadsSettings, cameraVars, ghostVars
<1>8. CASE SettingsRead
  BY <1>2, <1>8 DEF SettingsRead, cameraVars
<1>9. CASE Killed
  BY <1>9 DEF Killed
<1>10. CASE Calling
  BY <1>2, <1>10 DEF Calling, cameraVars, ghostVars, LifeInv
<1>11. CASE Answered
  BY <1>2, <1>11 DEF Answered, cameraVars, LifeInv
<1>12. CASE AsksStatus
  BY <1>0, <1>12, SendEffect DEF AsksStatus, cameraVars, ghostVars
<1>13. CASE StatusRead
  BY <1>0, <1>13, FetchEffect DEF StatusRead, cameraVars, ghostVars
<1>14. CASE OtherSubscribes
  BY <1>0, <1>14, SendEffect DEF OtherSubscribes, cameraVars, clientVars, ghostVars
<1>15. CASE OtherFetches
  BY <1>0, <1>15, FetchEffect DEF OtherFetches, cameraVars, clientVars, ghostVars
<1>16. ASSUME NEW call \in Commands, Commanded(call)
       PROVE  NullInv'
  BY <1>16 DEF Commanded, serviceVars, callVars, cameraVars, ghostVars
<1>17. CASE UNCHANGED vars
  BY <1>17 DEF vars, serviceVars, callVars, cameraVars, clientVars, ghostVars
<1> QED BY <1>1, <1>3, <1>4, <1>5, <1>6, <1>7, <1>8, <1>9, <1>10, <1>11, <1>12, <1>13, <1>14, <1>15,
           <1>16, <1>17 DEF RpcNext, Main, Callback, Worker

----------------------------------------------------------------------------
(* The mode *)

ModeInv == ServerModeInv /\ ReadInv /\ ShownModeInv

\* A command asks for one of the modes.
LEMMA AskedMode ==
    ASSUME command \in Commands, command.op \in ChangesMode
    PROVE  Asked \in Modes /\ Asked # "Unknown"
<1>1. command \in Calls
  BY KnownCalls
<1>2. command.op = "SetMode" => command.arg \in Modes
  BY <1>1, KnownArguments
<1> QED BY <1>2 DEF Asked, ModeOf, Modes

\* A step of the service keeps what the server knows of its camera's mode.
LEMMA ServerModeService ==
    ASSUME ServerModeInv, ServiceStep
    PROVE  ServerModeInv'
<1> USE DEF ServerModeInv
<1>1. CASE Start
  BY <1>1 DEF Start
<1>2. CASE Interrupt
  BY <1>2 DEF Interrupt, cameraVars
<1>3. CASE Die
  BY <1>3 DEF Die, cameraVars
<1>4. ASSUME NEW c \in Callers, Serve(c)
      PROVE  ServerModeInv'
  <2>0. ASSUME NEW m, ChangeMode(c, m)
        PROVE  ServerModeInv'
    BY <2>0 DEF ChangeMode
  <2>1. CASE Prepare(c)
    <3>1. CASE camera # "none"
      BY <2>1, <3>1 DEF Prepare, cameraVars
    <3>2. CASE camera = "none"
      <4>1. PICK found \in {"none", "unready", "closed", "open"}, m \in Modes :
              /\ camera' = found
              /\ setting' = IF found \in {"closed", "open"} THEN SettingOf(m) ELSE "none"
              /\ cameraMode' = IF found = "open" THEN m ELSE cameraMode
              /\ serverMode' = serverMode /\ wasReset' = wasReset
        BY <2>1, <3>2 DEF Prepare
      <4> QED BY <3>2, <4>1
    <3> QED BY <3>1, <3>2
  <2>2. CASE NullUse(c)
    BY <1>3, <2>2 DEF NullUse
  <2>3. CASE TakePhoto(c)
    BY <2>3 DEF TakePhoto
  <2>4. CASE FormatStorage(c)
    BY <2>4 DEF FormatStorage
  <2>5. CASE SetSetting(c)
    BY <2>0, <2>5 DEF SetSetting
  <2>6. CASE SetMode(c)
    BY <2>0, <2>6 DEF SetMode, cameraVars
  <2>7. CASE ResetSettings(c)
    BY <2>7 DEF ResetSettings, cameraVars, SettingOf
  <2>8. CASE Answer(c)
    BY <2>8 DEF Answer, cameraVars
  <2>9. CASE Unregister(c)
    BY <2>9 DEF Unregister, cameraVars
  <2> QED BY <1>4, <2>1, <2>2, <2>3, <2>4, <2>5, <2>6, <2>7, <2>8, <2>9 DEF Serve
<1> QED BY <1>1, <1>2, <1>3, <1>4 DEF ServiceStep, Service, Exit, Crash, VectorRace

\* The camera does not change while the main thread reads its settings.
LEMMA ReadService ==
    ASSUME Types, CallInv, MutexInv, ServerModeInv, ReadInv, ServiceStep
    PROVE  ReadInv'
<1>0. main' = main /\ "main" \in Callers
  BY ClientIdle, CallersAssumption
<1> USE DEF ReadInv
<1>1. CASE Start
  BY <1>1 DEF Start
<1>2. CASE Interrupt
  BY <1>0, <1>2 DEF Interrupt, cameraVars, callVars
<1>3. CASE Die
  <2>1. /\ reply'["main"] = reply["main"] \/ reply'["main"] = "lost"
        /\ camera' = camera /\ cameraMode' = cameraMode
    BY <1>0, <1>3, AfterDeath DEF Types
  <2> QED BY <1>0, <2>1
<1>4. ASSUME NEW c \in Callers, Serve(c), ~Die, main = "settings"
      PROVE  ReadInv'
  <2>1. callback # "call"
    BY <1>4 DEF MutexInv
  <2>2. ~ \E op \in UsesCamera \cup {"ResetSettings"} : Serving(c, op)
    BY <2>1, CommandCall
  <2>3. ~ Prepare(c)
    BY <1>4, PrepareCall DEF Prepare
  <2>4. Answer(c) \/ Unregister(c)
    BY <1>4, <2>2, <2>3
    DEF Serve, NullUse, TakePhoto, FormatStorage, SetSetting, SetMode, ResetSettings, UsesCamera
  <2>5. camera' = camera /\ cameraMode' = cameraMode
    BY <2>4 DEF Answer, Unregister, cameraVars
  <2>6. CASE c # "main"
    BY <1>0, <1>4, <2>5, <2>6, OthersKept
  <2>7. CASE c = "main" /\ Unregister(c)
    BY <1>0, <2>5, <2>7 DEF Unregister
  <2>8. CASE c = "main" /\ Answer(c)
    <3>1. request["main"].op = "SubscribeCurrentSettings"
      BY <1>4 DEF CallInv, MainCalls
    <3>2. reply'["main"] = setting
      BY <1>0, <2>8, <3>1 DEF Answer, Types, CallTypes
    <3> QED BY <1>0, <2>5, <3>2 DEF ServerModeInv
  <2> QED BY <2>4, <2>6, <2>7, <2>8
<1> QED BY <1>0, <1>1, <1>2, <1>3, <1>4 DEF ServiceStep, Service, Exit, Crash, VectorRace

\* A step of the service that leaves no doubt leaves the client's mode true.
LEMMA ShownModeService ==
    ASSUME Types, CallInv, LifeInv, ServerModeInv, ShownModeInv, ServiceStep
    PROVE  ShownModeInv'
<1>0. /\ main' = main /\ callback' = callback /\ command' = command /\ mode' = mode
      /\ "callback" \in Callers
  BY ClientIdle, CallersAssumption
<1> USE DEF ShownModeInv
<1> SUFFICES ASSUME ~doubt', ~wasReset'
             PROVE  ShownModeInv'
  OBVIOUS
<1>1. ~doubt /\ ~Doubtful
  BY DEF ServiceStep
<1>2. /\ process # "down" /\ process' # "down" /\ ~wasReset /\ main = "running"
  BY <1>1 DEF Doubtful, LifeInv, Types, FlagTypes
<1>3. /\ camera = "open"
      /\ cameraMode = IF /\ callback = "call" /\ command.op \in ChangesMode
                         /\ handler["callback"] = "done" /\ reply["callback"] # "lost"
                      THEN Asked ELSE mode
  BY <1>1, <1>2
<1>4. ~ Start /\ ~ Die
  BY <1>2 DEF Start, Die
<1>5. CASE Interrupt
  BY <1>0, <1>3, <1>5 DEF Interrupt, cameraVars, callVars, Asked
<1>6. ASSUME NEW c \in Callers, Serve(c)
      PROVE  ShownModeInv'
  <2>0. ~ Prepare(c)
    BY <1>2, PrepareCall DEF Prepare
  <2>1. CASE ~ \E op \in UsesCamera \cup {"ResetSettings"} : Serving(c, op)
    <3>1. Answer(c) \/ Unregister(c)
      BY <1>6, <2>0, <2>1
      DEF Serve, NullUse, TakePhoto, FormatStorage, SetSetting, SetMode, ResetSettings, UsesCamera
    <3>2. camera' = camera /\ cameraMode' = cameraMode /\ c # "callback"
      BY <3>1, AnswerCall DEF Answer, Unregister, cameraVars
    <3>3. handler'["callback"] = handler["callback"] /\ reply'["callback"] = reply["callback"]
      BY <1>0, <1>4, <1>6, <3>2, OthersKept
    <3> QED BY <1>0, <1>3, <3>2, <3>3 DEF Asked
  <2>2. ASSUME NEW op \in UsesCamera \cup {"ResetSettings"}, Serving(c, op)
        PROVE  ShownModeInv'
    <3>1. /\ c = "callback" /\ callback = "call" /\ handler["callback"] = "called"
          /\ command.op = op /\ camera' = camera
          /\ handler'["callback"] = "done" /\ reply'["callback"] \in {"Success", "Error"}
      BY <1>4, <1>6, <2>2, CommandEffect
    <3>2. request["callback"] = command /\ command \in Commands
      BY <3>1 DEF CallInv, CallbackCalls
    <3>3. cameraMode = mode
      BY <1>3, <3>1
    <3>4. CASE op \in ChangesMode
      <4>1. serverMode' = Asked
        BY <1>1, <2>2, <3>1, <3>2, <3>4 DEF Doubtful, ChangesMode, Asked
      <4>2. serverMode' \in {"Unknown", cameraMode'}
        BY <1>3, <3>1, ServerModeService DEF ServerModeInv
      <4>3. Asked # "Unknown"
        BY <3>1, <3>2, <3>4, AskedMode
      <4>4. cameraMode' = Asked /\ Asked' = Asked
        BY <1>0, <4>1, <4>2, <4>3 DEF Asked
      <4> QED BY <1>0, <1>3, <3>1, <3>4, <4>4
    <3>5. CASE op \notin ChangesMode
      <4>1. op \in {"TakePhoto", "FormatStorage", "ResetSettings"}
        BY <3>5 DEF UsesCamera, ChangesMode
      <4>2. cameraMode' = cameraMode
        BY <1>2, <1>4, <1>6, <2>0, <2>2, <3>1, <4>1
        DEF Serve, NullUse, TakePhoto, FormatStorage, SetSetting, SetMode, ResetSettings, Answer,
            Unregister, Serving, cameraVars
      <4> QED BY <1>0, <1>3, <3>1, <3>3, <3>5, <4>2
    <3> QED BY <3>4, <3>5
  <2> QED BY <2>1, <2>2
<1> QED BY <1>4, <1>5, <1>6 DEF ServiceStep, Service, Exit, Crash, VectorRace

\* Every step keeps the mode's invariant.
LEMMA ModeStep ==
    ASSUME Types, CallInv, MutexInv, LifeInv, ModeInv, [RpcNext]_vars
    PROVE  ModeInv'
<1> USE DEF ModeInv, ServerModeInv, ReadInv, ShownModeInv
<1>0. {"main", "callback", "worker", "other"} \subseteq Callers
  BY CallersAssumption
<1>1. CASE ServiceStep
  BY <1>1, ServerModeService, ReadService, ShownModeService
<1>2. CASE UNCHANGED cameraVars /\ reply'["main"] = reply["main"] /\ main' = main
            /\ handler'["callback"] = handler["callback"]
            /\ reply'["callback"] = reply["callback"] /\ callback' = callback
            /\ command' = command /\ mode' = mode /\ doubt' = doubt
  <2>1. Asked' = Asked
    BY <1>2 DEF Asked
  <2> QED BY <1>2, <2>1 DEF cameraVars
<1>3. CASE UNCHANGED cameraVars /\ main' # "settings" /\ doubt /\ doubt'
  BY <1>3 DEF cameraVars
<1>4. CASE Prepares
  BY <1>3, <1>4 DEF Prepares, LifeInv, ghostVars
<1>5. CASE Prepared
  BY <1>3, <1>5 DEF Prepared, LifeInv
<1>6. CASE ReadsInformation
  <2>1. doubt /\ doubt' /\ main' # "settings" /\ UNCHANGED cameraVars
    BY <1>6 DEF ReadsInformation, LifeInv, ghostVars, clientVars
  <2> QED BY <1>3, <2>1
<1>7. CASE InformationRead
  BY <1>3, <1>7 DEF InformationRead, LifeInv, ghostVars
<1>8. CASE ReadsSettings
  <2>1. doubt /\ doubt' /\ UNCHANGED cameraVars
    BY <1>8 DEF ReadsSettings, LifeInv, ghostVars
  <2>2. reply'["main"] \in {"none", "lost"}
    BY <1>0, <1>8, SendEffect DEF ReadsSettings
  <2> QED BY <2>1, <2>2 DEF cameraVars
<1>9. CASE SettingsRead
  <2>1. /\ main = "settings" /\ main' = "running" /\ UNCHANGED cameraVars /\ callback' = callback
        /\ mode' = IF reply["main"] \in {"0", "1"} THEN ModeOf(reply["main"]) ELSE mode
        /\ doubt' <=> ~(camera = "open" /\ reply["main"] \in {"0", "1"})
    BY <1>9 DEF SettingsRead
  <2>2. callback # "call"
    BY <2>1 DEF MutexInv
  <2>3. camera = "open" /\ reply["main"] \in {"0", "1"} => cameraMode = ModeOf(reply["main"])
    BY <2>1 DEF SettingOf, ModeOf, Types, ServerTypes, Modes
  <2> QED BY <2>1, <2>2, <2>3 DEF cameraVars
<1>10. CASE Killed
  BY <1>10 DEF Killed
<1>11. CASE Calling
  <2>1. /\ callback = "lock" /\ UNCHANGED cameraVars /\ main' = main /\ mode' = mode
        /\ doubt' = doubt /\ reply'["main"] = reply["main"]
    BY <1>0, <1>11, SendEffect DEF Calling, ghostVars
  <2>2. handler'["callback"] # "done" \/ reply'["callback"] = "lost"
    BY <1>0, <1>11, SendEffect DEF Calling
  <2> QED BY <2>1, <2>2 DEF cameraVars
<1>12. CASE Answered
  <2>1. /\ callback = "call" /\ handler["callback"] = "done" /\ callback' # "call"
        /\ UNCHANGED cameraVars /\ main' = main
        /\ mode' = IF command.op \in ChangesMode /\ reply["callback"] # "lost" THEN Asked ELSE mode
        /\ doubt' <=> doubt \/ (reply["callback"] = "lost" /\ command.op \in ChangesMode)
    BY <1>12 DEF Answered, Asked
  <2>2. reply'["main"] = reply["main"]
    BY <1>0, <1>12, FetchEffect DEF Answered
  <2> QED BY <2>1, <2>2 DEF cameraVars
<1>13. CASE AsksStatus
  BY <1>0, <1>2, <1>13, SendEffect DEF AsksStatus, ghostVars
<1>14. CASE StatusRead
  BY <1>0, <1>2, <1>14, FetchEffect DEF StatusRead, ghostVars
<1>15. CASE OtherSubscribes
  BY <1>0, <1>2, <1>15, SendEffect DEF OtherSubscribes, clientVars, ghostVars
<1>16. CASE OtherFetches
  BY <1>0, <1>2, <1>16, FetchEffect DEF OtherFetches, clientVars, ghostVars
<1>17. ASSUME NEW call \in Commands, Commanded(call)
       PROVE  ModeInv'
  <2>1. /\ reply' = reply /\ UNCHANGED cameraVars /\ main' = main /\ mode' = mode /\ doubt' = doubt
        /\ callback = "idle" /\ callback' = "lock"
    BY <1>17 DEF Commanded, serviceVars, callVars, ghostVars
  <2> QED BY <2>1 DEF cameraVars
<1>18. CASE UNCHANGED vars
  <2>1. /\ handler' = handler /\ reply' = reply /\ UNCHANGED cameraVars /\ main' = main
        /\ callback' = callback /\ command' = command /\ mode' = mode /\ doubt' = doubt
    BY <1>18 DEF vars, serviceVars, callVars, clientVars, ghostVars
  <2> QED BY <1>2, <2>1
<1> QED BY <1>1, <1>4, <1>5, <1>6, <1>7, <1>8, <1>9, <1>10, <1>11, <1>12, <1>13, <1>14, <1>15,
           <1>16, <1>17, <1>18 DEF RpcNext, Main, Callback, Worker

----------------------------------------------------------------------------
(* The theorems *)

Inv ==
    /\ Types /\ CallInv /\ MutexInv /\ LifeInv
    /\ LostInv /\ CountInv /\ NullInv /\ ModeInv

\* The invariant holds in every state.
THEOREM Invariant == RpcSpec => []Inv
<1>1. RpcInit => Inv
  <2>1. ASSUME RpcInit PROVE NullInv /\ ModeInv
    <3>1. /\ main = "down" /\ camera = "none" /\ serverMode = "Unknown" /\ wasReset = FALSE
          /\ doubt = TRUE
      BY <2>1 DEF RpcInit, Init
    <3> QED BY <3>1 DEF NullInv, Ready, Subscribed, ModeInv, ServerModeInv, ReadInv, ShownModeInv
  <2> QED BY <2>1, TypesInit, CallInit, LifeInit, CountInit DEF Inv
<1>2. Inv /\ [RpcNext]_vars => Inv'
  <2> SUFFICES ASSUME Inv, [RpcNext]_vars PROVE Inv'
    OBVIOUS
  <2> USE DEF Inv
  <2>1. Types' /\ CallInv'
    BY TypesStep, CallStep
  <2>2. MutexInv' /\ LifeInv'
    BY LifeStep
  <2>3. LostInv' /\ CountInv'
    BY CountStep
  <2>4. NullInv'
    BY NullStep
  <2>5. ModeInv'
    BY ModeStep
  <2> QED BY <2>1, <2>2, <2>3, <2>4, <2>5
<1> QED BY <1>1, <1>2, PTL DEF RpcSpec

\* The types.
THEOREM TypeCorrect == RpcSpec => []TypeOK
<1>1. Inv => TypeOK
  BY DEF Inv, Types, ServerTypes, CallTypes, ClientTypes, FlagTypes, CountInv, TypeOK, ServiceTypes
<1> QED BY <1>1, Invariant, PTL

\* Unless an answer was lost, client and camera agree about the number of photos between
\* any two commands.
THEOREM CountAgreesHolds == RpcSpec => []CountAgrees
<1>1. Inv => CountAgrees
  BY DEF Inv, MutexInv, CountInv, Lost, CountAgrees
<1> QED BY <1>1, Invariant, PTL

\* Unless in doubt, client and camera agree about the mode between any two commands.
THEOREM ModeAgreesHolds == RpcSpec => []ModeAgrees
<1>1. Inv => ModeAgrees
  BY DEF Inv, MutexInv, ModeInv, ShownModeInv, ModeAgrees
<1> QED BY <1>1, Invariant, PTL

\* Only the restart of the server can bring a command to a server without a camera.
THEOREM NullOnlyAfterRestartHolds == RpcSpec => []NullOnlyAfterRestart
<1>1. Inv => NullOnlyAfterRestart
  <2> SUFFICES ASSUME Inv, camera = "none",
                      NEW c \in Callers, NEW op \in UsesCamera, Serving(c, op)
               PROVE  replaced
    BY DEF NullOnlyAfterRestart
  <2>1. callback = "call"
    BY CommandCall DEF Inv
  <2>2. Subscribed
    BY <2>1 DEF Inv, LifeInv, Subscribed
  <2> QED BY <2>2 DEF Inv, NullInv, Ready
<1> QED BY <1>1, Invariant, PTL

\* The vector of promises is changed by two threads at once only if the main thread or
\* another client is one of them.
THEOREM StreamsAloneHolds == RpcSpec => []StreamsAlone
<1>1. Inv => StreamsAlone
  <2> SUFFICES ASSUME Inv, NEW c \in Callers, NEW d \in Callers, c # d, InVector(c), InVector(d),
                      ~ InVector("other")
               PROVE  main \in {"information", "video stream info", "settings"}
    BY DEF StreamsAlone
  <2>1. c # "callback" /\ d # "callback" /\ c # "other" /\ d # "other"
    BY AnswerCall DEF Inv, InVector
  <2>2. InVector("main") /\ "main" \in Callers
    BY <2>1, CallersAssumption
  <2>3. handler["main"] \in {"registering", "unregistering"}
    BY <2>2 DEF InVector
  <2>4. request["main"].op # "Prepare"
    BY <2>2, <2>3 DEF Inv, CallInv, KindInv, Streams
  <2> QED BY <2>3, <2>4 DEF Inv, CallInv, MainCalls, Types, ClientTypes
<1> QED BY <1>1, Invariant, PTL

=============================================================================
