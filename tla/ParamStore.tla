------------------------------ MODULE ParamStore ------------------------------
(***************************************************************************)
(* What CameraParam promises to those who store settings in it, without the *)
(* file and its copy in memory: a value that was stored stays, over the ends *)
(* and the starts of the program, until another value is stored for its key. *)
(* A start adds values for keys that have none and changes no other.  Only a *)
(* program that ends while it stores a value may lose something, and then it *)
(* loses everything.  CameraSettings implements this.                       *)
(***************************************************************************)
CONSTANTS
    Keys,
    Values,
    Absent      \* a key without a value

VARIABLES
    content,    \* what the store holds for each key
    running,    \* there is a program
    writing     \* it is storing a value

storeVars == <<content, running, writing>>

----------------------------------------------------------------------------
Empty == [k \in Keys |-> Absent]

\* Values were added for keys that had none.
Added ==
    \A k \in Keys : content'[k] = content[k] \/ (content[k] = Absent /\ content'[k] \in Values)

Init ==
    /\ content = Empty
    /\ running = FALSE
    /\ writing = FALSE

Start ==
    /\ ~running
    /\ running' = TRUE
    /\ Added
    /\ UNCHANGED writing

\* A start that fails has added some values, or was ended while it added one.
StartFails ==
    /\ ~running
    /\ Added \/ (content' = Empty /\ \E k \in Keys : content[k] = Absent)
    /\ UNCHANGED <<running, writing>>

Begin ==
    /\ running /\ ~writing
    /\ writing' = TRUE
    /\ UNCHANGED <<content, running>>

Put(k, v) ==
    /\ writing
    /\ writing' = FALSE
    /\ content' = [content EXCEPT ![k] = v]
    /\ UNCHANGED running

End ==
    /\ running
    /\ running' = FALSE
    /\ writing' = FALSE
    /\ content' = IF writing THEN Empty ELSE content

Next ==
    \/ Start \/ StartFails
    \/ Begin \/ \E k \in Keys, v \in Values : Put(k, v)
    \/ End

Spec == Init /\ [][Next]_storeVars
=============================================================================
