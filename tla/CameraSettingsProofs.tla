------------------------ MODULE CameraSettingsProofs ------------------------
(***************************************************************************)
(* Theorems about CameraSettings, for every environment and every set of    *)
(* calls that may fail: the types, and the agreement of the settings with   *)
(* the store, with the camera and with the render mode between commands.    *)
(***************************************************************************)
EXTENDS CameraSettings, SequenceTheorems, TLAPS

Assigning == {"commit", "truncate", "write"}
Assignments == [key : Keys, value : Values]

\* What a command has yet to assign: nothing outside of its assignments, one
\* assignment in set_setting and at the start of reset_settings, and then what
\* is left of the defaults.
Single == Len(todo) = 1
Suffix == /\ Len(todo) \in 1 .. 5
          /\ \A j \in 1 .. Len(todo) : todo[j] = Defaults[5 - Len(todo) + j]
TodoInv ==
    /\ pc \in Assigning <=> todo # <<>>
    /\ pc \in Assigning =>
          \/ op = "set" /\ Single
          \/ op = "reset" /\ Single /\ todo[1] = Assignment("CAM_MODE", "0")
          \/ op = "reset" /\ Suffix
    /\ pc \in {"device", "refresh"} => op = "reset"

\* Once committed, the assignment at the head is in the settings.
HeadInv == pc \in {"truncate", "write"} => settings[todo[1].key] = todo[1].value

\* The values in memory differ from the settings at most in the assignment
\* that is being stored and in those that found no open file, and the file from
\* them only while it is written.
StoreInv ==
    pc # "down" =>
        /\ \A k \in Keys \ ({"CAM_PHOTO_RES"} \cup unsaved) :
              root[k] = settings[k] \/ (pc \in {"truncate", "write"} /\ k = todo[1].key)
        /\ file = IF pc = "write" THEN EmptyFile ELSE root

\* The keys in which camera and settings have to agree.
Shown == {"CAM_MODE", "CAM_PHOTO_FMT", "CAM_VIDRES"}
Excused(k) == k = "CAM_MODE" /\ "reset" \in faulty

\* During set_setting the camera is ahead of the settings in the one value that
\* is not committed yet.
SetAhead == \A k \in Shown :
    IF pc = "commit" /\ k = todo[1].key
      THEN hw[k] = todo[1].value
      ELSE hw[k] = settings[k] \/ Excused(k)

\* At the start of reset_settings the settings are ahead in the camera mode.
ResetAhead == \A k \in Shown \ {"CAM_MODE"} : hw[k] = settings[k]

\* After the reset of the camera the defaults follow one by one.
DefaultsInv ==
    /\ hw = Factory
    /\ settings["CAM_MODE"] = "0"
    /\ \A i \in 1 .. 5 - Len(todo) : settings[Defaults[i].key] = Defaults[i].value

CameraInv ==
    /\ pc = "idle" \/ (pc # "down" /\ op = "set") => SetAhead
    /\ pc \in Assigning /\ op = "reset" =>
          \/ Single /\ todo[1].key = "CAM_MODE" /\ ResetAhead
          \/ Suffix /\ DefaultsInv
    /\ pc = "device" => ResetAhead /\ settings["CAM_MODE"] = "0"
    /\ pc = "refresh" => \A k \in Shown : hw[k] = settings[k]

\* The render mode is behind the settings only inside a command that will
\* compute it again.
RenderInv ==
    faulty = {} /\ pc # "down" =>
        \/ render = RenderOf(settings)
        \/ op = "reset" /\ pc # "idle"
        \/ op = "set" /\ pc \in Assigning /\ todo[1].key \in RenderKeys

IInv == TypeOK /\ TodoInv /\ HeadInv /\ StoreInv /\ CameraInv /\ RenderInv
----------------------------------------------------------------------------
(* Data *)

\* The first assignment and what remains of a nonempty list of assignments.
LEMMA Lists ==
    ASSUME NEW s \in Seq(Assignments), s # <<>>
    PROVE  /\ Len(s) \in Nat \ {0}
           /\ Head(s) = s[1]
           /\ s[1] \in Assignments
           /\ Tail(s) \in Seq(Assignments)
           /\ Len(Tail(s)) = Len(s) - 1
           /\ \A j \in 1 .. Len(s) - 1 : Tail(s)[j] = s[j + 1]
           /\ Tail(s) = <<>> <=> Len(s) = 1
<1>1. Len(s) \in Nat \ {0}
  BY EmptySeq
<1>2. Head(s) = s[1] /\ s[1] \in Assignments
  BY <1>1
<1>3. /\ Tail(s) \in Seq(Assignments)
      /\ Len(Tail(s)) = Len(s) - 1
      /\ \A j \in 1 .. Len(s) - 1 : Tail(s)[j] = s[j + 1]
  BY HeadTailProperties
<1>4. Tail(s) = <<>> <=> Len(s) = 1
  BY <1>1, <1>3, EmptySeq
<1> QED BY <1>1, <1>2, <1>3, <1>4

\* A list of one assignment.
LEMMA OneAssignment ==
    ASSUME NEW k \in Keys, NEW v \in Values
    PROVE  /\ <<Assignment(k, v)>> \in Seq(Assignments)
           /\ <<Assignment(k, v)>> # <<>>
           /\ Len(<<Assignment(k, v)>>) = 1
           /\ <<Assignment(k, v)>>[1] = Assignment(k, v)
BY DEF Assignments, Assignment

\* The defaults are five assignments of factory values, to distinct keys, none
\* of them the camera mode; the last one is the video resolution.
LEMMA DefaultsList ==
    /\ Defaults \in Seq(Assignments)
    /\ Len(Defaults) = 5
    /\ \A i \in 1 .. 5 : Defaults[i] \in Assignments /\ Defaults[i].key # "CAM_MODE"
    /\ \A i, j \in 1 .. 5 : Defaults[i].key = Defaults[j].key => i = j
    /\ Defaults[2].key = "CAM_PHOTO_FMT" /\ Defaults[2].value = Factory["CAM_PHOTO_FMT"]
    /\ Defaults[5].key = "CAM_VIDRES" /\ Defaults[5].value = Factory["CAM_VIDRES"]
<1>1. Len(Defaults) = 5
  BY DEF Defaults
<1>2. /\ Defaults[1] = Assignment("CAM_PHOTO_RES", "1")
      /\ Defaults[2] = Assignment("CAM_PHOTO_FMT", "0")
      /\ Defaults[3] = Assignment("CAM_EXPMODE", "0")
      /\ Defaults[4] = Assignment("CAM_EV", "0")
      /\ Defaults[5] = Assignment("CAM_VIDRES", "1")
  BY DEF Defaults
<1>3. Defaults \in Seq(Assignments)
  BY DEF Defaults, Assignments, Assignment, Keys, Values
<1>4. \A i \in 1 .. 5 : i = 1 \/ i = 2 \/ i = 3 \/ i = 4 \/ i = 5
  OBVIOUS
<1>5. \A i \in 1 .. 5 : Defaults[i] \in Assignments /\ Defaults[i].key # "CAM_MODE"
  BY <1>2, <1>4 DEF Assignment, Assignments, Keys, Values
<1>6. \A i, j \in 1 .. 5 : Defaults[i].key = Defaults[j].key => i = j
  BY <1>2, <1>4 DEF Assignment
<1> QED BY <1>1, <1>2, <1>3, <1>5, <1>6 DEF Assignment, Factory, Keys

\* The factory values and the values of a start are settings.
LEMMA BootTypes ==
    ASSUME TypeOK
    PROVE  /\ Factory \in [Keys -> Values]
           /\ BootSettings \in [Keys -> Values]
           /\ \A kept \in SUBSET Keys : BootStore(kept) \in Stored
           /\ \A g, h \in BOOLEAN : BootHardware(g, h) \in [Keys -> Values]
           /\ EmptyFile \in Stored
<1>1. Factory \in [Keys -> Values]
  BY DEF Factory, Values
<1>2. BootMode \in Values
  BY DEF TypeOK, BootMode, Stored, Keys, Values, Absent
<1>3. \A k \in Keys : BootValue(k) \in Values
  BY <1>1 DEF TypeOK, BootValue, Stored
<1>4. BootSettings \in [Keys -> Values]
  BY <1>2, <1>3 DEF TypeOK, BootSettings, FromEnvironment
<1>5. \A kept \in SUBSET Keys : BootStore(kept) \in Stored
  BY <1>4 DEF TypeOK, BootStore, Stored
<1>6. \A g, h \in BOOLEAN : BootHardware(g, h) \in [Keys -> Values]
  BY <1>1, <1>4 DEF BootHardware
<1>7. EmptyFile \in Stored
  BY DEF EmptyFile, Stored
<1> QED BY <1>1, <1>4, <1>5, <1>6, <1>7

RenderModes == {"photo full", "photo quarter", "video 4k60", "video 4k30"}

\* The render mode is one of four.
LEMMA RenderTypes ==
    ASSUME NEW s \in [Keys -> Values]
    PROVE  RenderOf(s) \in RenderModes
BY DEF RenderOf, RenderModes, Keys, Values

\* Settings that agree in mode, photo and video resolution have one render mode.
LEMMA RenderDepends ==
    ASSUME NEW s \in [Keys -> Values], NEW t \in [Keys -> Values],
           \A k \in {"CAM_MODE", "CAM_PHOTO_RES", "CAM_VIDRES"} : s[k] = t[k]
    PROVE  RenderOf(s) = RenderOf(t)
BY DEF RenderOf

----------------------------------------------------------------------------
(* Types and the assignments to be made *)

\* The initial state satisfies the invariant.
LEMMA InvariantInit == Init => IInv
<1> SUFFICES ASSUME Init PROVE IInv
  OBVIOUS
<1>1. Factory \in [Keys -> Values] /\ EmptyFile \in Stored
  BY DEF Factory, EmptyFile, Stored, Values
<1>2. render \in RenderModes
  BY <1>1, RenderTypes DEF Init
<1>3. todo \in Seq(Assignments)
  BY EmptySeq DEF Init
<1>4. TypeOK
  BY <1>1, <1>2, <1>3, SettingsAssumption DEF Init, TypeOK, RenderModes, Assignments
<1>5. TodoInv /\ HeadInv /\ StoreInv /\ CameraInv /\ RenderInv
  BY DEF Init, TodoInv, HeadInv, StoreInv, CameraInv, RenderInv, Assigning
<1> QED BY <1>4, <1>5 DEF IInv

\* Every step keeps the types.
LEMMA TypesStep ==
    ASSUME TypeOK, TodoInv, [Next]_vars
    PROVE  TypeOK'
<1> USE DEF TypeOK, Stored
<1>1. CASE Boot
  <2>1. root' \in Stored /\ file' \in Stored /\ unsaved' \subseteq Keys
    BY <1>1, BootTypes DEF Boot, Kept, Missing
  <2>2. settings' \in [Keys -> Values] /\ hw' \in [Keys -> Values]
    BY <1>1, BootTypes DEF Boot, Outcomes
  <2>3. render' \in RenderModes
    BY <1>1, BootTypes, RenderTypes DEF Boot
  <2> QED BY <1>1, <2>1, <2>2, <2>3 DEF Boot, envVars, RenderModes
<1>2. CASE Crash
  <2>1. todo' \in Seq(Assignments)
    BY <1>2, EmptySeq DEF Crash
  <2>2. settings' \in [Keys -> Values] /\ hw' \in [Keys -> Values] /\ root' \in Stored
    BY <1>2, BootTypes DEF Crash
  <2>3. render' \in RenderModes
    BY <1>2, BootTypes, RenderTypes DEF Crash
  <2>4. pc' = "down" /\ op' = "set" /\ unsaved' = {} /\ UNCHANGED <<file, faulty>>
    BY <1>2 DEF Crash
  <2>5. envMode' \in Values \cup {"unset"} /\ envRes' \in Values \cup {"unset"}
    BY <1>2, SettingsAssumption DEF Crash, NewEnvironment
  <2> QED BY <2>1, <2>2, <2>3, <2>4, <2>5 DEF Assignments, RenderModes
<1>11. CASE BootFails
  <2>1. file' \in Stored
    BY <1>11, BootTypes DEF BootFails, Kept, Missing
  <2>2. envMode' \in Values \cup {"unset"} /\ envRes' \in Values \cup {"unset"}
    BY <1>11, SettingsAssumption DEF BootFails, NewEnvironment
  <2>3. UNCHANGED <<pc, op, todo, settings, root, hw, render, faulty, unsaved>>
    BY <1>11 DEF BootFails
  <2> QED BY <2>1, <2>2, <2>3
<1>3. ASSUME NEW k \in Keys, NEW v \in Values, SetApply(k, v) PROVE TypeOK'
  <2>1. todo' \in Seq(Assignments)
    BY <1>3, OneAssignment, EmptySeq DEF SetApply
  <2>2. settings' \in [Keys -> Values] /\ hw' \in [Keys -> Values]
    <3>1. [settings EXCEPT !["CAM_PHOTO_RES"] = "0"] \in [Keys -> Values]
      BY DEF Values
    <3>2. [hw EXCEPT ![k] = v] \in [Keys -> Values]
      OBVIOUS
    <3>3. settings' \in {settings, [settings EXCEPT !["CAM_PHOTO_RES"] = "0"]}
      BY <1>3 DEF SetApply
    <3>4. hw' \in {hw, [hw EXCEPT ![k] = v]}
      BY <1>3 DEF SetApply
    <3> QED BY <3>1, <3>2, <3>3, <3>4
  <2>3. pc' \in {"commit", "idle"} /\ op' = "set" /\ UNCHANGED <<root, file, render, unsaved, envVars>>
    BY <1>3 DEF SetApply
  <2> QED BY <2>1, <2>2, <2>3 DEF envVars, Assignments
<1>4. CASE Commit
  <2>1. todo # <<>>
    BY <1>4 DEF Commit, TodoInv, Assigning
  <2>2. todo[1] \in Assignments /\ Head(todo) = todo[1]
    BY <2>1, Lists DEF Assignments
  <2> QED BY <1>4, <2>2 DEF Commit, envVars, Assignments
<1>5. CASE Truncate
  BY <1>5 DEF Truncate, EmptyFile, envVars
<1>6. CASE Write \/ StoreFails
  <2>1. todo # <<>>
    BY <1>6 DEF Write, StoreFails, TodoInv, Assigning
  <2>2. todo[1] \in Assignments /\ Head(todo) = todo[1] /\ Tail(todo) \in Seq(Assignments)
    BY <2>1, Lists DEF Assignments
  <2>3. root' \in Stored /\ file' \in Stored
    <3>1. CASE Write
      <4>1. root' = [root EXCEPT ![todo[1].key] = todo[1].value] /\ file' = root'
        BY <2>2, <3>1 DEF Write
      <4>2. todo[1].key \in Keys /\ todo[1].value \in Values
        BY <2>2 DEF Assignments
      <4> QED BY <4>1, <4>2
    <3>2. CASE StoreFails
      BY <3>2 DEF StoreFails
    <3> QED BY <1>6, <3>1, <3>2
  <2>4. render' \in RenderModes
    BY <1>6, RenderTypes DEF Write, StoreFails, Rendered, RenderModes
  <2>5. unsaved' \subseteq Keys
    BY <1>6, <2>2 DEF Write, StoreFails, Assignments
  <2> QED BY <1>6, <2>2, <2>3, <2>4, <2>5 DEF Write, StoreFails, AfterWrite, envVars, Assignments,
    RenderModes
<1>7. CASE ResetBegin
  <2>1. todo' \in Seq(Assignments)
    BY <1>7, OneAssignment DEF ResetBegin, Keys, Values
  <2> QED BY <1>7, <2>1 DEF ResetBegin, envVars, Assignments
<1>8. CASE ResetDevice
  <2>1. todo' \in Seq(Assignments) /\ hw' \in [Keys -> Values]
    BY <1>8, DefaultsList, BootTypes DEF ResetDevice, Assignments
  <2> QED BY <1>8, <2>1 DEF ResetDevice, envVars, Assignments
<1>9. CASE ResetRefresh
  BY <1>9, RenderTypes DEF ResetRefresh, envVars, RenderModes
<1>10. CASE UNCHANGED vars
  BY <1>10 DEF vars
<1> QED
  BY <1>1, <1>2, <1>3, <1>4, <1>5, <1>6, <1>7, <1>8, <1>9, <1>10, <1>11 DEF Next

\* What follows the first of several remaining defaults are the remaining ones.
LEMMA SuffixStep ==
    ASSUME todo \in Seq(Assignments), Suffix, Len(todo) # 1, todo' = Tail(todo)
    PROVE  Suffix'
<1> DEFINE s == Tail(todo)
<1>1. Len(todo) \in 2 .. 5 /\ todo # <<>>
  <2>1. Len(todo) \in 1 .. 5
    BY DEF Suffix
  <2>2. todo # <<>>
    BY <2>1, EmptySeq
  <2> QED BY <2>1, <2>2
<1>2. Len(s) = Len(todo) - 1 /\ \A j \in 1 .. Len(todo) - 1 : s[j] = todo[j + 1]
  BY <1>1, Lists
<1>3. ASSUME NEW j \in 1 .. Len(s) PROVE s[j] = Defaults[5 - Len(s) + j]
  <2> HIDE DEF s
  <2>1. j + 1 \in 1 .. Len(todo) /\ s[j] = todo[j + 1]
    BY <1>1, <1>2
  <2>2. todo[j + 1] = Defaults[5 - Len(todo) + (j + 1)]
    BY <2>1 DEF Suffix
  <2>3. 5 - Len(todo) + (j + 1) = 5 - Len(s) + j
    BY <1>1, <1>2
  <2> QED BY <2>1, <2>2, <2>3
<1>4. Len(s) \in 1 .. 5
  <2> HIDE DEF s
  <2>1. Len(todo) \in 2 .. 5
    BY <1>1 DEF Suffix
  <2> QED BY <2>1, <1>2
<1>5. todo' = s
  OBVIOUS
<1> HIDE DEF s
<1> QED BY <1>3, <1>4, <1>5 DEF Suffix

\* Every step keeps what is said of the assignments to be made.
LEMMA TodoStep ==
    ASSUME TypeOK, TodoInv, [Next]_vars
    PROVE  TodoInv'
<1>1. CASE Boot
  BY <1>1 DEF Boot, TodoInv, Assigning
<1>2. CASE Crash
  BY <1>2 DEF Crash, TodoInv, Assigning
<1>10. CASE BootFails
  BY <1>10 DEF BootFails, TodoInv, Assigning, Single, Suffix
<1>3. ASSUME NEW k \in Keys, NEW v \in Values, SetApply(k, v) PROVE TodoInv'
  BY <1>3, OneAssignment DEF SetApply, TodoInv, Assigning, Single
<1>4. CASE Commit \/ Truncate
  BY <1>4 DEF Commit, Truncate, TodoInv, Assigning, Single, Suffix
<1>5. CASE Write \/ StoreFails
  <2>1. todo # <<>> /\ todo \in Seq(Assignments)
    BY <1>5 DEF Write, StoreFails, TodoInv, Assigning, TypeOK, Assignments
  <2> DEFINE s == Tail(todo)
  <2>2. /\ Len(todo) \in Nat \ {0}
        /\ Head(todo) = todo[1]
        /\ Len(s) = Len(todo) - 1
        /\ \A j \in 1 .. Len(todo) - 1 : s[j] = todo[j + 1]
        /\ s = <<>> <=> Len(todo) = 1
    BY <2>1, Lists
  <2>3. todo' = s /\ pc' = AfterWrite /\ op' = op
    BY <1>5 DEF Write, StoreFails
  <2>4. CASE s = <<>>
    <3>1. pc' \in {"idle", "device", "refresh"} /\ (pc' # "idle" => op # "set")
      BY <2>3, <2>4 DEF AfterWrite
    <3>2. op \in {"set", "reset"}
      BY DEF TypeOK
    <3> QED BY <2>3, <2>4, <3>1, <3>2 DEF TodoInv, Assigning
  <2>5. CASE s # <<>>
    <3>1. pc' = "commit" /\ op = "reset" /\ Suffix
      BY <1>5, <2>2, <2>3, <2>5 DEF Write, StoreFails, TodoInv, Assigning, AfterWrite, Single
    <3>2. Suffix'
      BY <2>1, <2>2, <2>3, <2>5, <3>1, SuffixStep
    <3> QED BY <2>3, <2>5, <3>1, <3>2 DEF TodoInv, Assigning
  <2> QED BY <2>4, <2>5
<1>6. CASE ResetBegin
  BY <1>6, OneAssignment DEF ResetBegin, TodoInv, Assigning, Single, Keys, Values
<1>7. CASE ResetDevice
  <2>1. CASE pc' = "commit"
    <3>1. todo' = Defaults /\ op' = "reset"
      BY <1>7, <2>1 DEF ResetDevice, TodoInv
    <3>2. Suffix'
      BY <3>1, DefaultsList DEF Suffix
    <3>3. todo' # <<>>
      BY <3>1 DEF Defaults
    <3> QED BY <2>1, <3>1, <3>2, <3>3 DEF TodoInv, Assigning
  <2>2. CASE pc' = "idle"
    BY <1>7, <2>2 DEF ResetDevice, TodoInv, Assigning
  <2> QED BY <1>7, <2>1, <2>2 DEF ResetDevice
<1>8. CASE ResetRefresh
  BY <1>8 DEF ResetRefresh, TodoInv, Assigning
<1>9. CASE UNCHANGED vars
  BY <1>9 DEF vars, TodoInv, Assigning, Single, Suffix
<1> QED
  BY <1>1, <1>2, <1>3, <1>4, <1>5, <1>6, <1>7, <1>8, <1>9, <1>10 DEF Next

\* Inside a command that assigns there is a first assignment; it belongs to the
\* steps commit, truncate and write.
LEMMA FirstAssignment ==
    ASSUME TypeOK, TodoInv, pc \in Assigning
    PROVE  /\ todo \in Seq(Assignments) /\ todo # <<>>
           /\ Head(todo) = todo[1]
           /\ todo[1] \in Assignments
           /\ todo[1].key \in Keys /\ todo[1].value \in Values
<1>1. todo \in Seq(Assignments) /\ todo # <<>>
  BY DEF TypeOK, TodoInv, Assignments
<1>2. Head(todo) = todo[1] /\ todo[1] \in Assignments
  BY <1>1, Lists
<1> QED BY <1>1, <1>2 DEF Assignments

\* A committed assignment stays in the settings until it is written.
LEMMA HeadStep ==
    ASSUME TypeOK, TodoInv, HeadInv, [Next]_vars
    PROVE  HeadInv'
<1>1. CASE Commit
  BY <1>1, FirstAssignment DEF Commit, HeadInv, Assigning, TypeOK
<1>2. CASE Truncate
  BY <1>2 DEF Truncate, HeadInv
<1>3. CASE Write \/ StoreFails
  BY <1>3 DEF Write, StoreFails, AfterWrite, HeadInv
<1>4. CASE Boot \/ BootFails \/ Crash \/ ResetBegin \/ ResetDevice \/ ResetRefresh
  BY <1>4 DEF Boot, BootFails, Crash, ResetBegin, ResetDevice, ResetRefresh, HeadInv
<1>5. ASSUME NEW k \in Keys, NEW v \in Values, SetApply(k, v) PROVE HeadInv'
  BY <1>5 DEF SetApply, HeadInv
<1>6. CASE UNCHANGED vars
  BY <1>6 DEF vars, HeadInv
<1> QED BY <1>1, <1>2, <1>3, <1>4, <1>5, <1>6 DEF Next

----------------------------------------------------------------------------
(* The store *)

\* Every step keeps what is said of the store.
LEMMA StoreStep ==
    ASSUME TypeOK, TodoInv, HeadInv, StoreInv, [Next]_vars
    PROVE  StoreInv'
<1>1. CASE Boot
  <2>1. PICK kept \in Kept :
           root' = BootStore(kept) /\ file' = BootStore(kept) /\ unsaved' = Missing \ kept
    BY <1>1 DEF Boot
  <2>2. pc' = "idle" /\ settings' = BootSettings
    BY <1>1 DEF Boot
  <2>3. ASSUME NEW k \in Keys \ ({"CAM_PHOTO_RES"} \cup (Missing \ kept))
        PROVE  BootStore(kept)[k] = BootSettings[k]
    <3>1. CASE k \in kept
      BY <3>1 DEF BootStore
    <3>2. CASE k \notin kept
      <4>1. file[k] # Absent
        BY <3>2 DEF Missing, FromEnvironment
      <4>2. BootSettings[k] = file[k]
        BY <4>1 DEF BootSettings, BootMode, BootValue, FromEnvironment
      <4> QED BY <3>2, <4>2 DEF BootStore
    <3> QED BY <3>1, <3>2
  <2> QED BY <2>1, <2>2, <2>3 DEF StoreInv
<1>2. CASE Crash \/ BootFails
  BY <1>2 DEF Crash, BootFails, StoreInv
<1>3. ASSUME NEW k \in Keys, NEW v \in Values, SetApply(k, v) PROVE StoreInv'
  BY <1>3 DEF SetApply, StoreInv, TypeOK
<1>4. CASE Commit
  BY <1>4, FirstAssignment DEF Commit, StoreInv, Assigning, TypeOK
<1>5. CASE Truncate
  BY <1>5 DEF Truncate, StoreInv
<1>6. CASE Write
  <2>1. Head(todo) = todo[1] /\ todo[1].key \in Keys
    BY <1>6, FirstAssignment DEF Write, Assigning
  <2>2. settings[todo[1].key] = todo[1].value
    BY <1>6 DEF Write, HeadInv
  <2>3. root' = [root EXCEPT ![todo[1].key] = todo[1].value]
    BY <1>6, <2>1 DEF Write
  <2>4. \A k \in Keys \ ({"CAM_PHOTO_RES"} \cup unsaved') : root'[k] = settings[k]
    BY <1>6, <2>1, <2>2, <2>3 DEF Write, StoreInv, TypeOK, Stored
  <2>5. pc' \notin {"truncate", "write"} /\ file' = root' /\ settings' = settings
    BY <1>6 DEF Write, AfterWrite
  <2> QED BY <2>4, <2>5 DEF StoreInv
<1>7. CASE ResetBegin \/ ResetDevice \/ ResetRefresh
  BY <1>7 DEF ResetBegin, ResetDevice, ResetRefresh, StoreInv
<1>8. CASE StoreFails
  <2>1. Head(todo) = todo[1]
    BY <1>8, FirstAssignment DEF StoreFails, Assigning
  <2>2. pc' \notin {"truncate", "write"}
    BY <1>8 DEF StoreFails, AfterWrite
  <2> QED BY <1>8, <2>1, <2>2 DEF StoreFails, StoreInv
<1>9. CASE UNCHANGED vars
  BY <1>9 DEF vars, StoreInv
<1> QED BY <1>1, <1>2, <1>3, <1>4, <1>5, <1>6, <1>7, <1>8, <1>9 DEF Next

----------------------------------------------------------------------------
(* The render mode *)

\* Every step keeps what is said of the render mode.
LEMMA RenderStep ==
    ASSUME TypeOK, TodoInv, RenderInv, [Next]_vars
    PROVE  RenderInv'
<1>1. CASE Boot
  BY <1>1 DEF Boot, RenderInv
<1>2. CASE Crash \/ BootFails
  BY <1>2 DEF Crash, BootFails, RenderInv
<1>3. ASSUME NEW k \in Keys, NEW v \in Values, SetApply(k, v) PROVE RenderInv'
  <2> SUFFICES ASSUME faulty = {} PROVE RenderInv'
    BY <1>3 DEF SetApply, envVars, RenderInv
  <2>1. pc' = "commit" /\ todo' = <<Assignment(k, v)>> /\ op' = "set"
    BY <1>3 DEF SetApply, Outcomes
  <2>2. todo'[1].key = k
    BY <2>1 DEF Assignment
  <2>3. CASE k \in RenderKeys
    BY <2>1, <2>2, <2>3 DEF RenderInv, Assigning
  <2>4. CASE k \notin RenderKeys
    <3>1. settings' = settings /\ render' = render
      BY <1>3, <2>4 DEF SetApply, RenderKeys
    <3>2. render = RenderOf(settings)
      BY <1>3 DEF SetApply, RenderInv, Assigning
    <3> QED BY <3>1, <3>2 DEF RenderInv
  <2> QED BY <2>3, <2>4
<1>4. CASE Commit
  <2>1. Head(todo) = todo[1] /\ todo[1].key \in Keys
    BY <1>4, FirstAssignment DEF Commit, Assigning
  <2>2. CASE todo[1].key \in RenderKeys
    BY <1>4, <2>1, <2>2 DEF Commit, RenderInv, Assigning, TypeOK
  <2>3. CASE todo[1].key \notin RenderKeys
    <3>1. /\ settings \in [Keys -> Values]
          /\ settings' \in [Keys -> Values]
          /\ \A k \in {"CAM_MODE", "CAM_PHOTO_RES", "CAM_VIDRES"} : settings'[k] = settings[k]
      BY <1>4, <2>1, <2>3, TypesStep DEF Commit, RenderKeys, TypeOK, Keys
    <3>2. RenderOf(settings') = RenderOf(settings)
      BY <3>1, RenderDepends
    <3> QED BY <1>4, <3>2 DEF Commit, RenderInv, Assigning, envVars, RenderOf
  <2> QED BY <2>2, <2>3
<1>5. CASE Truncate
  BY <1>5 DEF Truncate, RenderInv, Assigning, envVars
<1>6. CASE Write \/ StoreFails
  <2>1. Head(todo) = todo[1]
    BY <1>6, FirstAssignment DEF Write, StoreFails, Assigning
  <2>2. CASE op = "set"
    BY <1>6, <2>1, <2>2 DEF Write, StoreFails, Rendered, RenderInv, Assigning, envVars
  <2>3. CASE op = "reset"
    BY <1>6, <2>3 DEF Write, StoreFails, Rendered, AfterWrite, RenderInv, envVars
  <2> QED BY <2>2, <2>3 DEF TypeOK
<1>7. CASE ResetBegin
  BY <1>7 DEF ResetBegin, RenderInv
<1>8. CASE ResetDevice
  BY <1>8 DEF ResetDevice, RenderInv, TodoInv, envVars
<1>9. CASE ResetRefresh
  BY <1>9 DEF ResetRefresh, RenderInv
<1>10. CASE UNCHANGED vars
  BY <1>10 DEF vars, RenderInv, Assigning
<1> QED
  BY <1>1, <1>2, <1>3, <1>4, <1>5, <1>6, <1>7, <1>8, <1>9, <1>10 DEF Next

----------------------------------------------------------------------------
(* The camera *)

\* The write of an assignment of the defaults: the next one follows, or the last
\* one, the video resolution, was it and the camera has what the settings show.
LEMMA DefaultWritten ==
    ASSUME TypeOK, TodoInv, HeadInv, Suffix, DefaultsInv, Write \/ StoreFails, op = "reset"
    PROVE  \/ pc' = "commit" /\ Suffix' /\ DefaultsInv'
           \/ pc' = "refresh" /\ \A k \in Shown : hw'[k] = settings'[k]
<1>1. /\ todo \in Seq(Assignments) /\ todo # <<>>
      /\ Head(todo) = todo[1]
      /\ settings[todo[1].key] = todo[1].value
      /\ pc' = AfterWrite /\ todo' = Tail(todo) /\ op' = op
      /\ hw' = hw /\ settings' = settings
  BY FirstAssignment DEF Write, StoreFails, Assigning, HeadInv
<1>2. /\ Len(todo) \in 1 .. 5
      /\ todo[1] = Defaults[6 - Len(todo)]
  BY DEF Suffix
<1>3. Len(todo') = Len(todo) - 1 /\ (todo' = <<>> <=> Len(todo) = 1)
  BY <1>1, Lists
<1>4. \A i \in 1 .. 5 - Len(todo') : settings[Defaults[i].key] = Defaults[i].value
  <2> SUFFICES ASSUME NEW i \in 1 .. 5 - Len(todo')
               PROVE  settings[Defaults[i].key] = Defaults[i].value
    OBVIOUS
  <2>1. CASE i = 6 - Len(todo)
    BY <1>1, <1>2, <2>1
  <2>2. CASE i # 6 - Len(todo)
    <3>1. i \in 1 .. 5 - Len(todo)
      BY <1>2, <1>3, <2>2
    <3> QED BY <3>1 DEF DefaultsInv
  <2> QED BY <2>1, <2>2
<1>5. CASE Len(todo) = 1
  <2>1. todo[1] = Defaults[5]
    BY <1>2, <1>5
  <2>2. pc' = "refresh"
    BY <1>1, <1>3, <1>5, <2>1, DefaultsList DEF AfterWrite
  <2>3. 2 \in 1 .. 5 - Len(todo') /\ 5 \in 1 .. 5 - Len(todo')
    BY <1>3, <1>5
  <2>4. /\ settings["CAM_PHOTO_FMT"] = Factory["CAM_PHOTO_FMT"]
        /\ settings["CAM_VIDRES"] = Factory["CAM_VIDRES"]
    BY <1>4, <2>3, DefaultsList
  <2>5. settings["CAM_MODE"] = Factory["CAM_MODE"]
    BY DEF DefaultsInv, Factory, Keys
  <2> QED BY <1>1, <2>2, <2>4, <2>5 DEF DefaultsInv, Shown
<1>6. CASE Len(todo) # 1
  <2>1. pc' = "commit"
    BY <1>1, <1>3, <1>6 DEF AfterWrite
  <2>2. Suffix'
    BY <1>1, <1>6, SuffixStep
  <2> QED BY <1>1, <1>4, <2>1, <2>2 DEF DefaultsInv
<1> QED BY <1>5, <1>6

\* The commit of an assignment of the defaults leaves those before it.
LEMMA DefaultCommitted ==
    ASSUME TypeOK, TodoInv, Suffix, DefaultsInv, Commit, op = "reset"
    PROVE  Suffix' /\ DefaultsInv'
<1>1. /\ Head(todo) = todo[1]
      /\ todo' = todo /\ hw' = hw
      /\ settings' = [settings EXCEPT ![todo[1].key] = todo[1].value]
  BY FirstAssignment DEF Commit, Assigning
<1>2. /\ Len(todo) \in 1 .. 5
      /\ todo[1] = Defaults[6 - Len(todo)]
  BY DEF Suffix
<1>3. Suffix'
  BY <1>1 DEF Suffix
<1>4. \A k \in Keys : k # todo[1].key => settings'[k] = settings[k]
  BY <1>1 DEF TypeOK
<1>5. todo[1].key # "CAM_MODE"
  <2>1. 6 - Len(todo) \in 1 .. 5
    <3>1. Len(todo) \in 1 .. 5
      BY DEF Suffix
    <3>2. \A n \in 1 .. 5 : 6 - n \in 1 .. 5
      OBVIOUS
    <3> QED BY <3>1, <3>2
  <2>2. Defaults[6 - Len(todo)].key # "CAM_MODE"
    BY <2>1, DefaultsList
  <2> QED BY <1>2, <2>2
<1>6. ASSUME NEW i \in 1 .. 5 - Len(todo)
      PROVE  settings'[Defaults[i].key] = Defaults[i].value
  <2>1. i \in 1 .. 5 /\ 6 - Len(todo) \in 1 .. 5 /\ i # 6 - Len(todo)
    BY <1>2
  <2>2. Defaults[i].key # todo[1].key
    BY <1>2, <2>1, DefaultsList
  <2>3. Defaults[i] \in Assignments
    BY <2>1, DefaultsList
  <2> QED BY <1>4, <2>2, <2>3 DEF DefaultsInv, Assignments
<1> QED BY <1>1, <1>3, <1>4, <1>5, <1>6 DEF DefaultsInv, Keys

\* Every step keeps what is said of camera and settings.
LEMMA CameraStep ==
    ASSUME TypeOK, TodoInv, HeadInv, CameraInv, [Next]_vars
    PROVE  CameraInv'
<1> USE DEF Shown
<1>1. CASE Boot
  <2>1. ASSUME NEW g \in BOOLEAN, NEW h \in BOOLEAN, NEW k \in Shown
        PROVE  BootHardware(g, h)[k] = BootSettings[k]
    <3>1. k \in Keys /\ k # "CAM_EXPMODE" /\ k # "CAM_EV"
      BY DEF Keys
    <3>2. BootHardware(g, h)[k] =
             IF /\ k = "CAM_EXPMODE" => g
                /\ k = "CAM_EV" => h /\ BootSettings["CAM_EXPMODE"] = "0"
               THEN BootSettings[k] ELSE Factory[k]
      BY <3>1 DEF BootHardware
    <3> QED BY <3>1, <3>2
  <2>2. \E g, h \in BOOLEAN : hw' = BootHardware(g, h)
    BY <1>1 DEF Boot, Outcomes
  <2>3. pc' = "idle" /\ settings' = BootSettings
    BY <1>1 DEF Boot
  <2>4. SetAhead'
    BY <2>1, <2>2, <2>3 DEF SetAhead
  <2> QED BY <2>3, <2>4 DEF CameraInv, Assigning
<1>2. CASE Crash \/ BootFails
  BY <1>2 DEF Crash, BootFails, CameraInv, Assigning
<1>3. ASSUME NEW k \in Keys, NEW v \in Values, SetApply(k, v) PROVE CameraInv'
  <2>1. SetAhead
    BY <1>3 DEF SetApply, CameraInv
  <2>2. /\ op' = "set" /\ faulty' = faulty /\ pc' \in {"commit", "idle"}
        /\ \A j \in Shown : settings'[j] = settings[j]
    <3>1. op' = "set" /\ faulty' = faulty /\ pc' \in {"commit", "idle"}
      BY <1>3 DEF SetApply, envVars
    <3>2. \A j \in Keys \ {"CAM_PHOTO_RES"} : settings'[j] = settings[j]
      BY <1>3 DEF SetApply, TypeOK
    <3> QED BY <3>1, <3>2 DEF Keys
  <2>3. \A j \in Shown : hw[j] = settings[j] \/ Excused(j)
    BY <1>3, <2>1 DEF SetApply, SetAhead
  <2>4. CASE pc' = "idle"
    <3>1. hw' = hw
      BY <1>3, <2>4 DEF SetApply
    <3> QED BY <2>2, <2>3, <2>4, <3>1 DEF CameraInv, SetAhead, Excused, Assigning
  <2>5. CASE pc' = "commit"
    <3>1. hw' = [hw EXCEPT ![k] = v] /\ todo' = <<Assignment(k, v)>>
      BY <1>3, <2>5 DEF SetApply
    <3>2. todo'[1].key = k /\ todo'[1].value = v
      BY <3>1 DEF Assignment
    <3>3. SetAhead'
      BY <2>2, <2>3, <2>5, <3>1, <3>2 DEF SetAhead, Excused, TypeOK, Keys
    <3> QED BY <2>2, <2>5, <3>3 DEF CameraInv, Assigning
  <2> QED BY <2>2, <2>4, <2>5
<1>4. CASE Commit
  <2>1. /\ Head(todo) = todo[1] /\ todo[1].key \in Keys
        /\ pc = "commit" /\ pc' = "truncate" /\ todo' = todo
        /\ op' = op /\ hw' = hw /\ faulty' = faulty
        /\ settings' = [settings EXCEPT ![todo[1].key] = todo[1].value]
    BY <1>4, FirstAssignment DEF Commit, Assigning, envVars
  <2>2. CASE op = "set"
    <3>1. SetAhead
      BY <1>4, <2>2 DEF Commit, CameraInv
    <3>2. SetAhead'
      BY <2>1, <3>1 DEF SetAhead, Excused, TypeOK, Keys
    <3> QED BY <2>1, <2>2, <3>2 DEF CameraInv, Assigning
  <2>3. CASE op = "reset" /\ Single /\ todo[1].key = "CAM_MODE" /\ ResetAhead
    BY <2>1, <2>3 DEF CameraInv, Assigning, ResetAhead, Single, TypeOK, Keys
  <2>4. CASE op = "reset" /\ Suffix /\ DefaultsInv
    BY <1>4, <2>1, <2>4, DefaultCommitted DEF CameraInv, Assigning
  <2> QED BY <1>4, <2>2, <2>3, <2>4 DEF Commit, CameraInv, Assigning, TypeOK
<1>5. CASE Truncate
  BY <1>5 DEF Truncate, CameraInv, Assigning, SetAhead, ResetAhead, DefaultsInv, Single,
    Suffix, Excused, envVars
<1>6. CASE Write \/ StoreFails
  <2>1. /\ Head(todo) = todo[1]
        /\ settings[todo[1].key] = todo[1].value
        /\ todo \in Seq(Assignments) /\ todo # <<>>
        /\ todo' = Tail(todo) /\ pc' = AfterWrite /\ op' = op
        /\ hw' = hw /\ settings' = settings /\ faulty' = faulty
    BY <1>6, FirstAssignment DEF Write, StoreFails, Assigning, HeadInv, envVars
  <2>2. Tail(todo) = <<>> <=> Len(todo) = 1
    BY <2>1, Lists
  <2>3. CASE op = "set"
    <3>1. SetAhead /\ Single
      BY <1>6, <2>3 DEF Write, StoreFails, CameraInv, TodoInv, Assigning
    <3>2. pc' = "idle"
      BY <2>1, <2>2, <2>3, <3>1 DEF AfterWrite, Single
    <3> QED BY <1>6, <2>1, <3>1, <3>2 DEF Write, StoreFails, CameraInv, SetAhead, Excused, Assigning
  <2>4. CASE op = "reset" /\ Single /\ todo[1].key = "CAM_MODE" /\ ResetAhead
    <3>1. pc' = "device"
      BY <2>1, <2>2, <2>4 DEF AfterWrite, Single
    <3>2. settings["CAM_MODE"] = "0"
      BY <1>6, <2>1, <2>4, DefaultsList DEF Write, StoreFails, TodoInv, Assigning, Assignment, Suffix, Single
    <3> QED BY <2>1, <2>4, <3>1, <3>2 DEF CameraInv, ResetAhead, Assigning
  <2>5. CASE op = "reset" /\ Suffix /\ DefaultsInv
    BY <1>6, <2>1, <2>5, DefaultWritten DEF CameraInv, Assigning
  <2> QED BY <1>6, <2>3, <2>4, <2>5 DEF Write, StoreFails, CameraInv, Assigning, TypeOK
<1>7. CASE ResetBegin
  <2>1. SetAhead
    BY <1>7 DEF ResetBegin, CameraInv
  <2>2. ResetAhead
    BY <1>7, <2>1 DEF ResetBegin, SetAhead, ResetAhead, Excused
  <2>3. Len(todo') = 1 /\ todo'[1].key = "CAM_MODE"
    BY <1>7 DEF ResetBegin, Assignment
  <2> QED BY <1>7, <2>2, <2>3 DEF ResetBegin, CameraInv, ResetAhead, Single, Assigning, envVars
<1>8. CASE ResetDevice
  <2>1. ResetAhead /\ settings["CAM_MODE"] = "0" /\ op = "reset"
    BY <1>8 DEF ResetDevice, CameraInv, TodoInv
  <2>2. CASE pc' = "commit"
    <3>1. todo' = Defaults /\ hw' = Factory /\ op' = op /\ settings' = settings
      BY <1>8, <2>2 DEF ResetDevice
    <3>2. Suffix' /\ DefaultsInv'
      BY <2>1, <3>1, DefaultsList DEF Suffix, DefaultsInv
    <3> QED BY <2>1, <2>2, <3>1, <3>2 DEF CameraInv, Assigning
  <2>3. CASE pc' = "idle"
    BY <1>8, <2>1, <2>3 DEF ResetDevice, CameraInv, SetAhead, ResetAhead, Excused, Assigning,
      envVars
  <2> QED BY <1>8, <2>2, <2>3 DEF ResetDevice
<1>9. CASE ResetRefresh
  BY <1>9 DEF ResetRefresh, CameraInv, SetAhead, Assigning
<1>10. CASE UNCHANGED vars
  BY <1>10 DEF vars, CameraInv, Assigning, SetAhead, ResetAhead, DefaultsInv, Single, Suffix,
    Excused
<1> QED
  BY <1>1, <1>2, <1>3, <1>4, <1>5, <1>6, <1>7, <1>8, <1>9, <1>10 DEF Next

----------------------------------------------------------------------------
(* The abstract store *)

\* The values that a start stores, whichever set_value opened the file, differ
\* from those it found in those that were absent.
LEMMA BootAdds ==
    ASSUME TypeOK, NEW kept \in SUBSET Missing, NEW k \in Keys
    PROVE  \/ BootStore(kept)[k] = file[k]
           \/ file[k] = Absent /\ BootStore(kept)[k] \in Values
<1>1. BootSettings[k] \in Values
  BY BootTypes
<1> QED BY <1>1 DEF BootStore, Missing

\* Every step is one of the abstract store, or leaves it alone.
LEMMA StoreImplemented ==
    ASSUME IInv, [Next]_vars
    PROVE  [Store!Next]_(Store!storeVars)
<1> USE DEF Store!storeVars
<1>0. TypeOK /\ TodoInv /\ HeadInv /\ StoreInv
  BY DEF IInv
<1>1. CASE Boot
  <2>1. /\ pc = "down" /\ pc' = "idle"
        /\ \E kept \in SUBSET Missing : root' = BootStore(kept)
    BY <1>1 DEF Boot, Kept
  <2>2. Store!Added
    BY <1>0, <2>1, BootAdds DEF Store!Added
  <2>3. Store!Start
    BY <2>1, <2>2 DEF Store!Start
  <2> QED BY <2>3 DEF Store!Next
<1>2. CASE BootFails
  <2>1. pc = "down" /\ pc' = "down"
    BY <1>2 DEF BootFails
  <2>2. CASE \E n \in 0 .. 6, kept \in Kept : file' = BootStore(kept \cap BootedTo(n))
    <3>1. \E kept \in SUBSET Missing : file' = BootStore(kept)
      BY <2>2 DEF Kept
    <3>2. Store!Added
      BY <1>0, <2>1, <3>1, BootAdds DEF Store!Added
    <3> QED BY <2>1, <3>2 DEF Store!StartFails, Store!Next
  <2>3. CASE Missing # {} /\ file' = EmptyFile
    <3>1. \E k \in Keys : file[k] = Absent
      BY <2>3 DEF Missing
    <3>2. Store!StartFails
      BY <2>1, <2>3, <3>1 DEF Store!StartFails, Store!Empty, EmptyFile
    <3> QED BY <3>2 DEF Store!Next
  <2> QED BY <1>2, <2>2, <2>3 DEF BootFails
<1>3. CASE Crash
  <2>1. /\ pc # "down" /\ pc' = "down" /\ file' = file
    BY <1>3 DEF Crash
  <2>2. file = IF pc = "write" THEN EmptyFile ELSE root
    BY <1>0, <2>1 DEF StoreInv
  <2>3. Store!End
    BY <2>1, <2>2 DEF Store!End, Store!Empty, EmptyFile
  <2> QED BY <2>3 DEF Store!Next
<1>4. CASE Truncate
  <2>1. Store!Begin
    BY <1>4 DEF Truncate, Store!Begin
  <2> QED BY <2>1 DEF Store!Next
<1>5. CASE Write
  <2>1. Head(todo).key \in Keys /\ Head(todo).value \in Values
    BY <1>0, <1>5, FirstAssignment DEF Write, Assigning
  <2>2. Store!Put(Head(todo).key, Head(todo).value)
    BY <1>5 DEF Write, AfterWrite, Store!Put
  <2> QED BY <2>1, <2>2 DEF Store!Next
<1>6. ASSUME NEW k \in Keys, NEW v \in Values, SetApply(k, v)
      PROVE  UNCHANGED Store!storeVars
  BY <1>6 DEF SetApply
<1>7. CASE Commit \/ ResetBegin \/ ResetDevice \/ ResetRefresh
  BY <1>7 DEF Commit, ResetBegin, ResetDevice, ResetRefresh
<1>8. CASE StoreFails
  BY <1>8 DEF StoreFails, AfterWrite
<1>9. CASE UNCHANGED vars
  BY <1>9 DEF vars
<1> QED BY <1>1, <1>2, <1>3, <1>4, <1>5, <1>6, <1>7, <1>8, <1>9 DEF Next

----------------------------------------------------------------------------
(* The theorems *)

\* The invariant is inductive.
THEOREM Invariant == Spec => []IInv
<1>1. Init => IInv
  BY InvariantInit
<1>2. IInv /\ [Next]_vars => IInv'
  BY TypesStep, TodoStep, HeadStep, StoreStep, CameraStep, RenderStep DEF IInv
<1> QED BY <1>1, <1>2, PTL DEF Spec

\* The settings, the store and the values of the camera keep their types: in
\* particular every setting has a value, whatever was lost of the file.
THEOREM TypeCorrect == Spec => []TypeOK
<1>1. IInv => TypeOK
  BY DEF IInv
<1> QED BY <1>1, Invariant, PTL

\* Between commands the file holds the settings in force, although a command
\* empties it first and the program may die at any step, but for the settings
\* whose last store found no open file, however many those are.
THEOREM StoreKept == Spec => []StoreAgrees
<1>1. IInv => StoreAgrees
  BY DEF IInv, StoreInv, StoreAgrees
<1> QED BY <1>1, Invariant, PTL

\* No command, no death of the program and no start, in whatever environment
\* and whether it gets through or not, changes a value that was stored, and no
\* set_value that finds no open file; only a death inside of a set_value loses
\* the values.
THEOREM SettingsImplementStore == Spec => ImplementsStore
<1>1. Init => Store!Init
  BY DEF Init, Store!Init, Store!Empty, EmptyFile
<1>2. IInv /\ [Next]_vars => [Store!Next]_(Store!storeVars)
  BY StoreImplemented
<1> QED BY <1>1, <1>2, Invariant, PTL DEF Spec, ImplementsStore, Store!Spec

\* Between commands the camera works as the settings show, whatever it refused.
THEOREM CameraKept == Spec => []CameraAgrees
<1>1. IInv => CameraAgrees
  BY DEF IInv, CameraInv, SetAhead, Shown, Excused, CameraAgrees
<1> QED BY <1>1, Invariant, PTL

\* Between commands the picture is rendered for the settings in force, when the
\* camera refuses nothing.
THEOREM RenderKept == Spec => []RenderFresh
<1>1. IInv => RenderFresh
  BY DEF IInv, RenderInv, RenderFresh, Assigning
<1> QED BY <1>1, Invariant, PTL
=============================================================================
