---------------------------- MODULE MCConnections ---------------------------
(* Forms for one cluster: of type remote, local and user; with its secrets, one
   of them or neither.  Any form may be for a cluster of another type. *)
EXTENDS Connections

F(type, gives) == [provision_type |-> type, gives |-> gives]

MCAddForm ==
    {F("remote", {"name", "desired_state", "apiServer", "token", "ca"}),
     F("local", {"name", "desired_state", "apiServer"}),
     F("user", {"cluster", "server", "user"})}

MCEditForm ==
    {F("none", {"name", "desired_state", "apiServer", "token"}),
     F("local", {"name", "desired_state"}),
     F("user", {"cluster"}), F("user", {"cluster", "user"})}

=============================================================================
