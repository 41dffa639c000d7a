------------------------------ MODULE Registry ------------------------------
(***************************************************************************)
(* What the management tools of mcpmux promise a client (the section       *)
(* "Management Tools" of src/mcpmux/SPEC.md): a table of servers, which a  *)
(* request changes at once, when it is answered.  Nothing happens to the   *)
(* table while a request is under way, and nothing between requests but    *)
(* the end.                                                                *)
(*                                                                         *)
(* A configuration is named by the request that brings it.  Proxy          *)
(* implements this for a client whose removes and reloads overlap with no  *)
(* other change of their server; adds, tool calls, listings and changes of *)
(* other servers are as many as it likes.                                  *)
(***************************************************************************)
CONSTANTS
    Requests,
    Names,
    NoName,
    NoServer     \* of a name in the table

VARIABLES
    open,        \* the proxy takes requests
    op, name,    \* what a request asks for, and of which server
    answer,      \* none, ok or error
    served,      \* the tool calls that have found their server
    table        \* the configuration of each server, or NoServer

registryVars == <<open, op, name, answer, served, table>>

Asked == {"add", "remove", "reload", "list", "call"}

RegistryInit ==
    /\ open = TRUE
    /\ op = [r \in Requests |-> "none"] /\ name = [r \in Requests |-> NoName]
    /\ answer = [r \in Requests |-> "none"]
    /\ served = {}
    /\ table = [n \in Names |-> NoServer]

Ask(r) ==
    /\ open /\ op[r] = "none"
    /\ \E o \in Asked, n \in Names :
          op' = [op EXCEPT ![r] = o] /\ name' = [name EXCEPT ![r] = n]
    /\ UNCHANGED <<open, answer, served, table>>

Answer(r, o, result) ==
    /\ open /\ op[r] = o /\ answer[r] = "none"
    /\ answer' = [answer EXCEPT ![r] = result]
    /\ UNCHANGED <<open, op, name, served>>

Has(n) == table[n] # NoServer

SetTable(n, c) == table' = [table EXCEPT ![n] = c]

Add(r) == Answer(r, "add", "ok") /\ ~Has(name[r]) /\ SetTable(name[r], r)

\* The name is taken, or the server does not come up.
AddFails(r) == Answer(r, "add", "error") /\ UNCHANGED table

Remove(r) == Answer(r, "remove", "ok") /\ Has(name[r]) /\ SetTable(name[r], NoServer)

RemoveFails(r) == Answer(r, "remove", "error") /\ ~Has(name[r]) /\ UNCHANGED table

\* The server is replaced by one of the same configuration, ...
Reload(r) == Answer(r, "reload", "ok") /\ Has(name[r]) /\ UNCHANGED table

\* ... or there is none, or it is removed and the new one does not come up.
ReloadFails(r) == Answer(r, "reload", "error") /\ SetTable(name[r], NoServer)

\* list_servers finds what there is.
List(r) == Answer(r, "list", "ok") /\ UNCHANGED table

\* A tool call finds its server, or one that is just being added, ...
Serve(r) ==
    /\ open /\ op[r] = "call" /\ answer[r] = "none"
    /\ \/ Has(name[r])
       \/ \E q \in Requests : op[q] = "add" /\ name[q] = name[r] /\ answer[q] = "none"
    /\ served' = served \cup {r}
    /\ UNCHANGED <<open, op, name, answer, table>>

\* ... without which it cannot succeed; it may fail anyway.
Call(r) == Answer(r, "call", "ok") /\ r \in served /\ UNCHANGED table

CallFails(r) == Answer(r, "call", "error") /\ UNCHANGED table

Close ==
    /\ open /\ open' = FALSE
    /\ table' = [n \in Names |-> NoServer]
    /\ UNCHANGED <<op, name, answer, served>>

RegistryNext ==
    \/ \E r \in Requests :
          \/ Ask(r) \/ Add(r) \/ AddFails(r) \/ Remove(r) \/ RemoveFails(r)
          \/ Reload(r) \/ ReloadFails(r) \/ List(r) \/ Serve(r) \/ Call(r)
          \/ CallFails(r)
    \/ Close

RegistrySpec == RegistryInit /\ [][RegistryNext]_registryVars
=============================================================================
