----------------------------- MODULE McpConfig -----------------------------
(***************************************************************************)
(* The MCP servers' configuration file of the shell: the settings page     *)
(* that lists, adds, changes and deletes servers (MCPSettings.tsx), the    *)
(* Node API that reads and writes the file (api/mcp.ts), and the agent     *)
(* that reads it when it runs (shared/mcp/loader.ts).  Every change is one *)
(* request that carries the whole list; the file is written in place.  A   *)
(* server may be listed and saved without a command or URL: the page asks  *)
(* for a name only, and a run passes such a server over.                   *)
(***************************************************************************)
EXTENDS Naturals, FiniteSets

CONSTANTS
    Servers,        \* server names
    MaxEdits        \* bound: changes and openings of the page

ASSUME McpAssumption == MaxEdits \in Nat

VARIABLES
    form,       \* of the file: "absent", "wrapped" ({mcpServers}), "direct", "broken"
    inFile,     \* the servers in the file: [names, runs: those with a command or URL, kept: those the page keeps it of]
    foreign,    \* the names in the user's Claude settings, shown beside
    listed,     \* the page's list of its own servers: set of <<id, name, has a command or URL>>
    opened,     \* "loading", "open", "failed": how the page came by its list
    posts,      \* requests under way: set of [names, whole, n, state]
    edits,      \* changes so far
    unsure      \* history: the list was not the file's, or requests were lost, overtaken or overlapped

mcpVars == <<form, inFile, foreign, listed, opened, posts, edits, unsure>>

\* The names in a list; those that one of their rows gives a command or URL,
\* and those that every row does, for two rows may have the same name.
NamesOf(S) == {s[2] : s \in S}
Complete(S) == {t \in NamesOf(S) : \E s \in S : s[2] = t /\ s[3]}
CompleteByAll(S) == {t \in NamesOf(S) : \A s \in S : s[2] = t => s[3]}

FileOf(names, runs, kept) == [names |-> names, runs |-> runs, kept |-> kept]
NoServers == FileOf({}, {}, {})

McpTypeOK ==
    /\ form \in {"absent", "wrapped", "direct", "broken"}
    /\ inFile \in [names : SUBSET Servers, runs : SUBSET Servers, kept : SUBSET Servers]
    /\ foreign \subseteq Servers
    /\ listed \subseteq Servers \X Servers \X BOOLEAN
    /\ opened \in {"loading", "open", "failed"}
    /\ \A p \in posts : p.names \subseteq Servers /\ p.whole \subseteq p.names /\ p.n \in 1 .. MaxEdits /\ p.state \in {"sent", "writing"}
    /\ edits \in 0 .. MaxEdits /\ unsure \in BOOLEAN

McpInit ==
    /\ form \in {"absent", "wrapped", "direct", "broken"}
    /\ \E names, runs, kept \in SUBSET Servers :
         /\ kept \subseteq runs /\ runs \subseteq names
         /\ inFile = IF form \in {"absent", "broken"} THEN NoServers ELSE FileOf(names, runs, kept)
    /\ foreign \in SUBSET Servers
    /\ listed = {} /\ opened = "loading" /\ posts = {} /\ edits = 0 /\ unsure = FALSE

-----------------------------------------------------------------------------
\* loadMcpServersFromFile: what an agent's run gets, both forms understood,
\* without the servers that have neither a command nor a URL.
AgentServers == IF form \in {"wrapped", "direct"} THEN inFile.runs ELSE {}

\* /mcp/all-configs: what the page gets.  A file that cannot be read is shown
\* as one that does not exist, and the direct form as one without servers.
\* Of a server with an empty URL beside a command, or with a URL and the type
\* stdio, the page drops what a run would use.
PageServers == IF form = "wrapped" THEN {<<t, t, t \in inFile.kept>> : t \in inFile.names} ELSE {}

\* The page does not show what a run gets of the file.
ReadOtherwise ==
    \/ form = "direct" /\ inFile.runs # {}
    \/ form = "wrapped" /\ inFile.runs # inFile.kept

\* loadMCPConfig.  The list is then the file's, if it was read at all.
Opened ==
    /\ opened = "loading"
    /\ \/ /\ opened' = "open" /\ listed' = PageServers
          /\ unsure' = (ReadOtherwise \/ posts # {})
       \/ /\ opened' = "failed" /\ listed' = {}
          /\ unsure' = TRUE
    /\ UNCHANGED <<form, inFile, foreign, posts, edits>>

OpenTab ==
    /\ opened # "loading" /\ opened' = "loading"
    /\ edits < MaxEdits /\ edits' = edits + 1
    /\ UNCHANGED <<form, inFile, foreign, listed, posts, unsure>>

\* Variant for a mutation check: the servers of Claude's settings are saved as well.
WithForeign(S) == {[names |-> NamesOf(S) \cup foreign, whole |-> Complete(S) \cup foreign]}

\* saveMCPConfig: the page's own servers by their names, whichever row of a
\* name comes last, and nobody's environment.
SavedServers(S) ==
    {[names |-> NamesOf(S), whole |-> W] : W \in {V \in SUBSET Complete(S) : CompleteByAll(S) \subseteq V}}

SaveServers(S) ==
    /\ opened # "loading" /\ edits < MaxEdits /\ edits' = edits + 1
    /\ listed' = S
    /\ \E saved \in SavedServers(S) : posts' = posts \cup
           {[names |-> saved.names, whole |-> saved.whole, n |-> edits', state |-> "sent"]}
    /\ UNCHANGED <<form, inFile, foreign, opened, unsure>>

\* handleImportJson: the first server of the same name is replaced.
FirstOfEach(old, names) ==
    /\ NamesOf(old) = names \cap NamesOf(listed)
    /\ \A s, t \in old : s[2] = t[2] => s = t

ImportServers == \E names \in SUBSET Servers : \E whole \in SUBSET names, old \in SUBSET listed :
    /\ FirstOfEach(old, names)
    /\ SaveServers((listed \ old) \cup {<<t, t, t \in whole>> : t \in names})

\* handleSaveConfigDialog: a new name, or another name for a server, which
\* keeps its id.  The dialog asks for no command and no URL.
AddServer == \E t \in Servers, whole \in BOOLEAN :
    /\ t \notin {s[1] : s \in listed} \cup NamesOf(listed) \cup foreign
    /\ SaveServers(listed \cup {<<t, t, whole>>})

EditServer == \E s \in listed, t \in Servers, whole \in BOOLEAN :
    SaveServers((listed \ {s}) \cup {<<s[1], t, whole>>})

\* handleDeleteServer.
DeleteServer == \E s \in listed : SaveServers({x \in listed : x[1] # s[1]})

\* POST /mcp/config: the file is emptied, and then has the request's servers.
WriteBegins ==
    /\ \E p \in posts :
         /\ p.state = "sent"
         /\ posts' = (posts \ {p}) \cup {[p EXCEPT !.state = "writing"]}
         /\ unsure' = (unsure \/ \E q \in posts \ {p} : q.n < p.n \/ q.state = "writing")
    /\ form' = "broken" /\ inFile' = NoServers
    /\ UNCHANGED <<foreign, listed, opened, edits>>

WriteEnds ==
    /\ \E p \in posts :
         /\ p.state = "writing"
         /\ posts' = posts \ {p}
         /\ inFile' = FileOf(p.names, p.whole, p.whole)
    /\ form' = "wrapped"
    /\ UNCHANGED <<foreign, listed, opened, edits, unsure>>

\* A request fails; the page keeps its list.
PostFails ==
    /\ \E p \in posts : posts' = posts \ {p}
    /\ unsure' = TRUE
    /\ UNCHANGED <<form, inFile, foreign, listed, opened, edits>>

McpNext ==
    \/ Opened \/ OpenTab \/ ImportServers \/ AddServer \/ EditServer \/ DeleteServer
    \/ WriteBegins \/ WriteEnds \/ PostFails

McpSpec == McpInit /\ [][McpNext]_mcpVars

-----------------------------------------------------------------------------
\* With no request under way an agent's run gets the servers that the page
\* lists with a command or URL, and no others (of two rows of one name either
\* may count), unless the page does not show the file as a run reads it, or a
\* request was lost, overtaken or written over another one (loader.ts:81-108,
\* MCPSettings.tsx:185-311).
RunsHaveListedServers ==
    opened = "open" /\ posts = {} /\ ~unsure =>
        CompleteByAll(listed) \subseteq AgentServers /\ AgentServers \subseteq Complete(listed)
=============================================================================
