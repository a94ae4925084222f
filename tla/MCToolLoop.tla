---- MODULE MCToolLoop ----
(***************************************************************************)
(* A small runtime: a builtin read, a builtin write, a mutating and an     *)
(* ungranted external operation, and a name no snapshot knows.             *)
(***************************************************************************)
EXTENDS ToolLoop

MCCatalog == {"recall", "send", "workspace_write", "deploy"}
MCExternal == {"workspace_write", "deploy"}
MCWrites == {"send", "workspace_write", "deploy"}
MCGranted == {"recall", "send", "workspace_write"}
MCMutating == {"workspace_write"}

\* The calls that take different paths: each rejection, each binding, and a
\* mutating call with the same arguments in another order or with others.
MCCalls ==
    [op : {"workspace_write"}, args : {"a", "a_reordered", "b", "against_schema"}]
    \cup [op : {"recall", "send", "deploy", "unknown"}, args : {"a"}]
====
