----------------------------- MODULE McpRegister ----------------------------
(***************************************************************************)
(* Registering the tools of several MCP servers in one registry            *)
(* (internal/mcp/register.go, Registry in internal/agent/tool.go): each    *)
(* server is started, its tools are filtered and added one by one, and a   *)
(* failure at any point takes back everything that was added.              *)
(*                                                                         *)
(* A tool's name is model-visible: a pair of server and tool when the      *)
(* server is namespaced, the bare tool name when it is not.                *)
(***************************************************************************)
EXTENDS Naturals, Sequences, SequencesExt, FiniteSets

CONSTANTS
    Tools,      \* names of tools servers offer; some may name a builtin
    Builtins,   \* the tools registered before
    Servers,    \* number of servers, in configuration order
    MaxOffered  \* bound: tools one server lists

McpRegisterAssumption ==
    Servers \in Nat /\ MaxOffered \in Nat /\ IsFiniteSet(Builtins)

Server == 1..Servers
Builtin == 0

VARIABLES
    namespaced, \* ServerSpec.Namespace of each server
    allow,      \* ToolAllowlist, empty for no restriction
    deny,       \* ToolDenylist
    order,      \* Registry.order
    owner,      \* the server behind each registered name
    open,       \* servers whose client is open
    done,       \* servers registered completely
    srvNo,      \* the server being registered
    pc,         \* "start", "add", "undo", "failed" or "ok"
    offered,    \* the tools it still has to add
    names       \* the names it added

vars == <<namespaced, allow, deny, order, owner, open, done, srvNo, pc, offered, names>>
config == <<namespaced, allow, deny>>

\* advertisedToolName.
advertisedToolName(srv, t) == IF namespaced[srv] THEN <<srv, t>> ELSE <<Builtin, t>>
Names == (Builtin..Servers) \X (Tools \cup Builtins)
BuiltinNames == {<<Builtin, b>> : b \in Builtins}

TypeOK ==
    /\ namespaced \in [Server -> BOOLEAN]
    /\ allow \in [Server -> SUBSET Tools] /\ deny \in [Server -> SUBSET Tools]
    /\ order \in Seq(Names) /\ DOMAIN owner = Range(order)
    /\ open \subseteq Server /\ done \subseteq Server
    /\ srvNo \in 1..(Servers + 1) /\ pc \in {"start", "add", "undo", "failed", "ok"}
    /\ offered \in Seq(Tools) /\ names \subseteq Names

Init ==
    /\ namespaced \in [Server -> BOOLEAN]
    /\ allow \in [Server -> {{}} \cup {{t} : t \in Tools}]
    /\ deny \in [Server -> {{}} \cup {{t} : t \in Tools}]
    /\ order = SetToSeq(BuiltinNames)
    /\ owner = [n \in BuiltinNames |-> Builtin]
    /\ open = {} /\ done = {} /\ srvNo = 1 /\ pc = "start"
    /\ offered = <<>> /\ names = {}
-----------------------------------------------------------------------------
\* Registry.Add and Registry.Remove.
RegistryAdd(n, srv) ==
    /\ order' = IF n \in DOMAIN owner THEN order ELSE Append(order, n)
    /\ owner' = [m \in DOMAIN owner \cup {n} |-> IF m = n THEN srv ELSE owner[m]]
RegistryRemove(ns) ==
    /\ order' = SelectSeq(order, LAMBDA n : n \notin ns)
    /\ owner' = [m \in DOMAIN owner \ ns |-> owner[m]]

\* filterServerTools: the lists name tools that exist and no tool is in both.
FilterFails(srv, ts) ==
    \/ allow[srv] \cap deny[srv] # {}
    \/ ~(allow[srv] \cup deny[srv] \subseteq Range(ts))
filterServerTools(srv, ts) ==
    SelectSeq(ts, LAMBDA t : t \notin deny[srv] /\ (allow[srv] = {} \/ t \in allow[srv]))

\* Start fails: nothing of this server exists yet.
StartFails ==
    /\ pc = "start" /\ srvNo <= Servers
    /\ pc' = "undo"
    /\ UNCHANGED <<config, order, owner, open, done, srvNo, offered, names>>

\* Start succeeds and the server lists its tools; the list, the filter or an
\* empty result may fail.
Start ==
    /\ pc = "start" /\ srvNo <= Servers
    /\ open' = open \cup {srvNo}
    /\ names' = {}
    /\ \/ \E n \in 0..MaxOffered : \E ts \in [1..n -> Tools] :
            LET kept == filterServerTools(srvNo, ts)
            IN  IF FilterFails(srvNo, ts) \/ kept = <<>>
                THEN pc' = "undo" /\ offered' = <<>>
                ELSE pc' = "add" /\ offered' = kept
       \/ pc' = "undo" /\ offered' = <<>>
    /\ UNCHANGED <<config, order, owner, done, srvNo>>

\* One tool: a name that is taken, or a bad name or schema, fails the server.
AddTool ==
    /\ pc = "add" /\ offered # <<>>
    /\ LET n == advertisedToolName(srvNo, Head(offered))
       IN  \/ /\ n \notin DOMAIN owner
              /\ RegistryAdd(n, srvNo)
              /\ names' = names \cup {n}
              /\ pc' = pc
           \/ pc' = "undo" /\ UNCHANGED <<order, owner, names>>
    /\ offered' = Tail(offered)
    /\ UNCHANGED <<config, open, done, srvNo>>

\* The server is registered; on to the next.
ServerDone ==
    /\ pc = "add" /\ offered = <<>>
    /\ done' = done \cup {srvNo}
    /\ srvNo' = srvNo + 1
    /\ names' = {}
    /\ pc' = "start"
    /\ UNCHANGED <<config, order, owner, open, offered>>

\* The names of servers registered before: registered.names.
NamesOf(srvs) == {n \in DOMAIN owner : owner[n] \in srvs}

\* The deferred clean-up of registerServer and the one of RegisterAll.
Undo ==
    /\ pc = "undo"
    /\ open' = open \ (done \cup {srvNo})
    /\ done' = {}
    /\ RegistryRemove(names \cup NamesOf(done))
    /\ pc' = "failed"
    /\ UNCHANGED <<config, srvNo, offered, names>>

Finish ==
    /\ pc = "start" /\ srvNo = Servers + 1
    /\ pc' = "ok"
    /\ UNCHANGED <<config, order, owner, open, done, srvNo, offered, names>>

Stopped == pc \in {"failed", "ok"} /\ UNCHANGED vars

Next == Start \/ StartFails \/ AddTool \/ ServerDone \/ Undo \/ Finish \/ Stopped

Spec == Init /\ [][Next]_vars
-----------------------------------------------------------------------------
\* "so the caller doesn't end up with a Registry whose entries point at backends
\* that have already been torn down" (RegisterAll): after a failure at any step
\* the registry is what it was and no client is open.
FailureLeavesNothing ==
    pc = "failed" => /\ Range(order) = BuiltinNames
                     /\ \A n \in BuiltinNames : owner[n] = Builtin
                     /\ open = {}

\* No server, whatever names it offers and whether or not it is namespaced,
\* takes a name that another server or a builtin has, and every name in the
\* model-visible order has one entry, whose client is open.
OneOwner ==
    /\ IsInjective(order) /\ Range(order) = DOMAIN owner
    /\ \A n \in BuiltinNames : n \in DOMAIN owner => owner[n] = Builtin
    /\ pc = "ok" => \A n \in DOMAIN owner : owner[n] = Builtin \/ owner[n] \in open
=============================================================================
