------------------------------ MODULE MCIoLanes ------------------------------
(* Small instances of IoLanes: one file name in two directories and at a     *)
(* root, so that ordering keys overlap without being transitive.             *)
EXTENDS IoLanes

Key(d) == [name |-> "app.log", directory |-> d]

MCNames == {"app.log"}
MCDirectories == {"a", "b"}

(* A copy saved from a to b, an open of b and an open at a root.            *)
MCRequests ==
    { [lane |-> Save, keys |-> {Key("a"), Key("b")}],
      [lane |-> Bulk, keys |-> {Key("b")}],
      [lane |-> Bulk, keys |-> {Key("root")}] }
=============================================================================
