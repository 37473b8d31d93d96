-------------------------- MODULE MC_SchemaKindValue --------------------------
(***************************************************************************)
(* Model-checking instance of SchemaKindValue.  The validation endpoint is *)
(* not in this repository: it is taken to accept the valid plain value,    *)
(* bare or wrapped, and its JSON text, any template (rendered at run time) *)
(* and any named workspace variable.                                       *)
(***************************************************************************)
EXTENDS SchemaKindValue

MC_ServerValid ==
    {V1, [kind |-> "none", value |-> V1], [kind |-> "json", value |-> Text(V1)]}
    \cup [kind : {"jinja"}, template : Strings]
    \cup {[kind |-> "workspace_variable", variable_name |-> W]}

\* The state without the history variables lastSent and trail, which no
\* action reads: runs whose properties do not mention them need not tell
\* apart states that differ only there.
MC_View == <<value, valueMap, errors, pending, inflight>>

=============================================================================
