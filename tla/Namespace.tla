----------------------------- MODULE Namespace -----------------------------
(***************************************************************************)
(* The names of proxied tools in mcpmux                                    *)
(* (src/mcpmux/internal/mcpmux/namespace.go): a server name is validated,  *)
(* prefixed to the names of its tools with "__" in between, and a          *)
(* namespaced name is split at the first "__".  A name is a sequence of    *)
(* characters; the underscore is the one character that matters.           *)
(***************************************************************************)
EXTENDS Naturals, Sequences

CONSTANTS
    Letters,     \* characters other than the underscore
    MaxServer,   \* longest server name of the runs
    MaxTool      \* longest tool name of the runs

Underscore == "underscore"

ASSUME NamespaceAssumption ==
    Underscore \notin Letters /\ MaxServer \in Nat /\ MaxTool \in Nat

Chars == Letters \cup {Underscore}

Text == Seq(Chars)

namespaceSep == <<Underscore, Underscore>>

\* Where the separator occurs in a name.
Separators(n) == {i \in 1..Len(n) : i < Len(n) /\ n[i] = Underscore /\ n[i + 1] = Underscore}

\* MUTANT: a server name may end with an underscore.
ValidateServerNameLoosely(n) == n # <<>> /\ Separators(n) = {}

\* MUTANT: no server name may have an underscore.
ValidateServerNameStrictly(n) == n # <<>> /\ \A i \in 1..Len(n) : n[i] # Underscore

\* Non-empty, without a separator, and not ending with half of one.
ValidateServerName(n) ==
    /\ n # <<>>
    /\ Separators(n) = {}
    /\ n[Len(n)] # Underscore

PrefixTool(server, tool) == server \o namespaceSep \o tool

\* The index of the first separator; strings.Index.
FirstSeparator(n) == CHOOSE i \in Separators(n) : \A j \in Separators(n) : i <= j

SplitTool(n) ==
    IF Separators(n) = {}
      THEN [server |-> <<>>, tool |-> n, ok |-> FALSE]
      ELSE [server |-> SubSeq(n, 1, FirstSeparator(n) - 1),
            tool   |-> SubSeq(n, FirstSeparator(n) + 2, Len(n)),
            ok     |-> TRUE]

(***************************************************************************)
(* All pairs of names up to a length, grown character by character.        *)
(***************************************************************************)
VARIABLES server, tool

vars == <<server, tool>>

Init == server = <<>> /\ tool = <<>>

GrowServer == /\ Len(server) < MaxServer
              /\ \E c \in Chars : server' = Append(server, c)
              /\ UNCHANGED tool

GrowTool == /\ Len(tool) < MaxTool
            /\ \E c \in Chars : tool' = Append(tool, c)
            /\ UNCHANGED server

Next == GrowServer \/ GrowTool

Spec == Init /\ [][Next]_vars

RoundTrip(s, t) == SplitTool(PrefixTool(s, t)) = [server |-> s, tool |-> t, ok |-> TRUE]

\* A tool of a server with a valid name is split into that server and that
\* tool again, whatever underscores the tool's name has: no two pairs share a
\* namespaced name (namespace.go:26-55).
RoundTrips == ValidateServerName(server) => RoundTrip(server, tool)

\* Validation refuses no more than it must: a non-empty name it refuses would
\* be split in the wrong place, already with an empty tool name
\* (namespace.go:28-39).
RefusalsAreNeeded ==
    (server # <<>> /\ ~ValidateServerName(server)) => ~RoundTrip(server, tool)
=============================================================================
