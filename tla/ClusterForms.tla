---------------------------- MODULE ClusterForms ----------------------------
(***************************************************************************)
(* The forms by which clusters are added and edited: which schema of       *)
(* forms/schema/cluster.ts a form fits, which handler of router/cluster.ts *)
(* it reaches, and what the controller asks of it again.  A form is the    *)
(* set of fields that it gives; a field with a value that the schema would *)
(* refuse counts as a form that fits nothing.                              *)
(***************************************************************************)

\* apiServer, ca and token are fields of desired_state, server one of cluster.
Field == {"name", "capabilities", "desired_state", "apiServer", "ca", "token",
          "cluster", "server", "user"}

Form == [provision_type : {"remote", "local", "user", "none"}, gives : SUBSET Field]

WellFormed(form) ==
    /\ form.gives \cap {"apiServer", "ca", "token"} # {} => "desired_state" \in form.gives
    /\ "server" \in form.gives => "cluster" \in form.gives

ServiceFields == {"name", "capabilities", "desired_state", "apiServer", "ca", "token"}

Schema(types, required, only) == [types |-> types, required |-> required, only |-> only]

RemoteSchema ==
    [add |-> Schema({"remote", "none"},
                    {"name", "desired_state", "apiServer", "ca", "token"}, ServiceFields),
     edit |-> Schema({"remote", "none"}, {"name", "desired_state", "apiServer"}, ServiceFields)]

LocalSchema ==
    [add |-> Schema({"local"}, {"name", "desired_state"}, ServiceFields),
     edit |-> Schema({"local", "none"}, {"name"}, ServiceFields)]

UserSchema ==
    [add |-> Schema({"user"}, {"cluster", "server", "user"}, Field),
     edit |-> Schema({"user"}, {}, Field)]

Fits(form, schema) ==
    /\ form.provision_type \in schema.types
    /\ schema.required \subseteq form.gives
    /\ form.gives \subseteq schema.only

\* The handlers choose the controller by the form alone, whatever the cluster
\* that it is for.
Reaches(form, op) ==
    IF Fits(form, RemoteSchema[op]) \/ Fits(form, LocalSchema[op]) THEN "service"
    ELSE IF Fits(form, UserSchema[op]) THEN "user"
    ELSE "refused"

\* forms.server, by the provision_type of the cluster; there is none for "user".
ServerForms ==
    [remote |-> [add |-> {"name", "apiServer", "token", "ca"}, edit |-> {}],
     local |-> [add |-> {"name"}, edit |-> {}]]

Valid(form, type, op) ==
    /\ type \in DOMAIN ServerForms
    /\ ServerForms[type][op] \subseteq form.gives

=============================================================================
