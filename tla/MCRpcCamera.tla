------------------------------ MODULE MCRpcCamera ------------------------------
(* RpcCamera with one mode command of each kind and every other command, and with *)
(* resets alone. *)
EXTENDS RpcCamera

MCCallers == {"main", "callback", "worker", "other"}

MCCommands ==
    {Call(op, "none") : op \in {"TakePhoto", "FormatStorage", "ResetSettings"}}
        \cup {Call("SetMode", "Video"), Call("SetSetting", "0")}

MCResetOnly == {Call("ResetSettings", "none")}
================================================================================
