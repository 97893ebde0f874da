--------------------------- MODULE ShellComposer ---------------------------
(***************************************************************************)
(* What the user attaches to a message: the input (ChatInput.tsx), which   *)
(* reads the files while the user goes on; the message that it hands over  *)
(* (useAgent.ts), whose files are written to the session's folder before   *)
(* its row (attachments.ts); and the task opened again, whose attachments  *)
(* are read back from there.                                               *)
(***************************************************************************)
EXTENDS Naturals, Sequences, FiniteSets, Loops

CONSTANTS
    MaxAdds,            \* bound: files given
    MaxSubmits,         \* bound: messages
    MaxTurnovers        \* bound: runs that start or end, and openings of the task

ASSUME ComposerAssumption == MaxTurnovers \in Nat

VARIABLES
    text,           \* there is text in the input
    attached,       \* the input's attachments: sequence of ids
    kind,           \* id -> "image", "blank" (an image that could not be read), "file"
    adding,         \* ids of files being read for the input
    running,        \* a run is under way
    submits,        \* handleSubmits reading files: set of [n, ids]
    sent,           \* messages handed over: n -> [ids, refs, row]
    onPage,         \* the messages on the page: n -> what is shown of each attachment
    loader,         \* messages whose attachments are being read back
    turnovers,
    removed,        \* history: ids that the user removed, or a run refused
    metSubmit        \* history: files came, or a second submit, while a submit read files; or the task was opened again

composerVars == <<text, attached, kind, adding, running, submits, sent, onPage, loader, turnovers, removed, metSubmit>>

Given == DOMAIN kind
SentMessages == DOMAIN sent
Members(s) == {s[i] : i \in DOMAIN s}

ComposerTypeOK ==
    /\ text \in BOOLEAN /\ running \in BOOLEAN /\ metSubmit \in BOOLEAN
    /\ Given = 1 .. Cardinality(Given) /\ \A i \in Given : kind[i] \in {"image", "blank", "file"}
    /\ Members(attached) \cup adding \cup removed \subseteq Given
    /\ \A s \in submits : Members(s.ids) \subseteq Given
    /\ \A n \in SentMessages : /\ Members(sent[n].ids) \subseteq Given
                       /\ \A i \in DOMAIN sent[n].refs : sent[n].refs[i] \in {"file", "data"}
                       /\ sent[n].row \in {"none", "written", "failed"}
    /\ \A n \in DOMAIN onPage : \A i \in DOMAIN onPage[n] : onPage[n][i] \in {"data", "loading", "path"}
    /\ loader \subseteq SentMessages /\ turnovers \in 0 .. MaxTurnovers

ComposerInit ==
    /\ text = FALSE /\ attached = <<>> /\ kind = <<>> /\ adding = {} /\ running = FALSE
    /\ submits = {} /\ sent = <<>> /\ onPage = <<>> /\ loader = {} /\ turnovers = 0
    /\ removed = {} /\ metSubmit = FALSE

storedVars == <<sent, onPage, loader>>

-----------------------------------------------------------------------------
(* The input.                                                              *)

Write == /\ ~text /\ text' = TRUE
         /\ UNCHANGED <<attached, kind, adding, running, submits, storedVars, turnovers, removed, metSubmit>>

\* addFiles and addFilesFromPaths: a new file, of a kind known once it is read.
Gives ==
    /\ Cardinality(Given) < MaxAdds
    /\ \E k \in {"image", "blank", "file"} : kind' = Append(kind, k)
    /\ adding' = adding \cup {Cardinality(Given) + 1}

\* The file picker, images pasted, or files dropped (while no run is under way).
Pick == /\ Gives
        /\ UNCHANGED <<text, attached, running, submits, storedVars, turnovers, removed, metSubmit>>

\* Variant for a mutation check: the attachments there were when reading began.
AddedToOld(id) == <<id>>

Added(id) == Append(attached, id)

\* The files are appended when they have been read.
FileRead ==
    /\ \E id \in adding : attached' = Added(id) /\ adding' = adding \ {id}
    /\ UNCHANGED <<text, kind, running, submits, storedVars, turnovers, removed>>
    /\ metSubmit' = (metSubmit \/ submits # {})

RemoveAttachment ==
    /\ \E id \in Members(attached) :
         /\ attached' = Picked(attached, Given \ {id})
         /\ removed' = removed \cup {id}
    /\ UNCHANGED <<text, kind, adding, running, submits, storedVars, turnovers, metSubmit>>

FirstOf(S) == CHOOSE i \in S : \A j \in S : i <= j

RunEnds ==
    /\ running /\ turnovers < MaxTurnovers /\ turnovers' = turnovers + 1
    /\ running' = FALSE
    /\ UNCHANGED <<text, attached, kind, adding, submits, storedVars, removed, metSubmit>>

-----------------------------------------------------------------------------
(* Submitting.                                                             *)

\* convertToMessageAttachments: images that could not be read are left out.
Converted(ids) == Picked(ids, {id \in Given : kind[id] # "blank"})

\* Variant for a mutation check: the input keeps its attachments.
KeptAttached(ids) == ids

\* The input afterwards: empty, whatever came meanwhile.
ClearedAttached(ids) == <<>>

\* setValue, setAttachments and onSubmit: the message is on the page.
HandOver(ids) ==
    /\ text' = FALSE /\ attached' = ClearedAttached(attached)
    /\ sent' = Append(sent, [ids |-> Converted(ids), refs |-> <<>>, row |-> "none"])
    /\ onPage' = [n \in DOMAIN onPage \cup {Len(sent')} |->
                   IF n \in DOMAIN onPage THEN onPage[n] ELSE [i \in DOMAIN Converted(ids) |-> "data"]]

CanSubmit == (text \/ attached # <<>>) /\ ~running /\ Len(sent) + Cardinality(submits) < MaxSubmits

\* Without files to read the message is handed over at once.
SubmitAtOnce ==
    /\ CanSubmit /\ \A id \in Members(attached) : kind[id] # "file"
    /\ HandOver(attached)
    /\ metSubmit' = (metSubmit \/ submits # {})
    /\ UNCHANGED <<kind, adding, running, submits, loader, turnovers, removed>>

SubmitReading ==
    /\ CanSubmit /\ \E id \in Members(attached) : kind[id] = "file"
    /\ submits' = submits \cup {[n |-> Len(sent) + Cardinality(submits) + 1, ids |-> attached]}
    /\ metSubmit' = (metSubmit \/ submits # {})
    /\ UNCHANGED <<text, attached, kind, adding, running, storedVars, turnovers, removed>>

SubmitEnds ==
    /\ \E s \in submits : submits' = submits \ {s} /\ HandOver(s.ids)
    /\ metSubmit' = (metSubmit \/ submits' # {})
    /\ UNCHANGED <<kind, adding, running, loader, turnovers, removed>>

-----------------------------------------------------------------------------
(* The message's files and row.                                            *)

\* saveAttachmentToFile: a file, or else the data itself in the row.
SaveAttachment ==
    /\ \E n \in SentMessages, r \in {"file", "data"} :
         /\ sent[n].row = "none" /\ Len(sent[n].refs) < Len(sent[n].ids)
         /\ sent' = [sent EXCEPT ![n].refs = Append(@, r)]
    /\ UNCHANGED <<text, attached, kind, adding, running, submits, onPage, loader, turnovers, removed, metSubmit>>

\* The row; then the run starts, with or without it.
WriteRow ==
    /\ turnovers < MaxTurnovers /\ turnovers' = turnovers + 1
    /\ \E n \in SentMessages, r \in {"written", "failed"} :
         /\ sent[n].row = "none" /\ Len(sent[n].refs) = Len(sent[n].ids)
         /\ sent' = [sent EXCEPT ![n].row = r]
    /\ running' = TRUE
    /\ UNCHANGED <<text, attached, kind, adding, submits, onPage, loader, removed, metSubmit>>

\* The task is opened again, when no message is on its way: a new input, and
\* the rows with their attachments still to be loaded.
OpenTask ==
    /\ turnovers < MaxTurnovers /\ turnovers' = turnovers + 1
    /\ submits = {} /\ \A n \in SentMessages : sent[n].row # "none"
    /\ text' = FALSE /\ attached' = <<>> /\ adding' = {}
    /\ onPage' = [n \in {m \in SentMessages : sent[m].row = "written"} |-> [i \in DOMAIN sent[n].refs |-> "loading"]]
    /\ loader' = {n \in SentMessages : sent[n].row = "written" /\ sent[n].ids # <<>>}
    /\ removed' = removed \cup Members(attached) \cup adding
    /\ UNCHANGED <<kind, running, submits, sent, metSubmit>>

\* Variant for a mutation check: messages are told apart by how much they have attached.
SameLength(m, n) == Len(sent[m].ids) = Len(sent[n].ids)

\* Messages are told apart by their first attachment and how much they have.
SameMessage(m, n) == Len(sent[m].ids) = Len(sent[n].ids) /\ sent[m].ids[1] = sent[n].ids[1]

\* The messages that what was read of n may be for.
Awaiting(n) == {m \in DOMAIN onPage : "loading" \in Members(onPage[m]) /\ SameMessage(m, n)}

\* loadAttachments of a message: data, or the path if the file cannot be read.
AttachmentsRead ==
    /\ \E n \in loader :
         /\ loader' = loader \ {n}
         /\ \E read \in [DOMAIN sent[n].refs -> {"data", "path"}] :
              /\ \A i \in DOMAIN sent[n].refs : sent[n].refs[i] = "data" => read[i] = "data"
              /\ onPage' = IF Awaiting(n) = {} THEN onPage ELSE [onPage EXCEPT ![FirstOf(Awaiting(n))] = read]
    /\ UNCHANGED <<text, attached, kind, adding, running, submits, sent, turnovers, removed, metSubmit>>

ComposerNext ==
    \/ Write \/ Pick \/ FileRead \/ RemoveAttachment \/ RunEnds
    \/ SubmitAtOnce \/ SubmitReading \/ SubmitEnds
    \/ SaveAttachment \/ WriteRow \/ OpenTask \/ AttachmentsRead

ComposerSpec == ComposerInit /\ [][ComposerNext]_composerVars
-----------------------------------------------------------------------------
(* Properties.                                                             *)

Times(id) == Cardinality({n \in SentMessages : id \in Members(sent[n].ids)})

\* What the user attached is in the input, being read, or in one message, and
\* in one of these only, unless it was removed or could not be read, over all
\* runs and openings; until a submit is made, or files come, while another
\* submit reads files.
AttachedOnce == ~metSubmit =>
    \A id \in Given \ removed :
         \/ id \in adding /\ id \notin Members(attached) /\ Times(id) = 0
         \/ id \notin adding /\ id \in Members(attached) /\ Times(id) = 0
         \/ id \notin adding \cup Members(attached) /\ Times(id) = IF kind[id] = "blank" THEN 0 ELSE 1

\* A message whose row has been written shows all its attachments, as many as
\* were sent, and each is loaded in the end unless a read is still under way.
AttachmentsLoaded == ~metSubmit =>
    \A n \in DOMAIN onPage :
         /\ Len(onPage[n]) = Len(sent[n].ids)
         /\ "loading" \in Members(onPage[n]) => n \in loader
         /\ n \in loader => \A i \in DOMAIN onPage[n] : onPage[n][i] = "loading"
=============================================================================
