--------------------------- MODULE ShellArtifacts ---------------------------
(***************************************************************************)
(* The viewers of the artifacts panel (components/artifacts): each loads   *)
(* the file it is given in an effect that runs again when the artifact     *)
(* changes, and whose cleanup revokes the object URL the effect has made   *)
(* by then.  Nothing stops a load whose effect was cleaned up.             *)
(***************************************************************************)
EXTENDS Naturals, FiniteSets

CONSTANTS
    Files,              \* positive numbers: artifacts of one type
    MaxLooks            \* bound: effects run

ASSUME ArtifactsAssumption == 0 \notin Files /\ MaxLooks \in Nat

VARIABLES
    viewer,         \* which viewer
    source,         \* file -> "content", "remote", "local", "large" or "nowhere"
    chosen,         \* the artifact shown, 0 when the viewer is not there
    effect,         \* number of the last effect
    loads,          \* set of [file, effect, at, here], here: of this viewer
    displayed,      \* what was loaded last: [file, url], url an effect or 0
    error,          \* file the error message is about, or 0
    fileTooLarge,   \* file whose size is told, or 0
    loading,
    urls,           \* object URLs not revoked, by their effects
    outlived,       \* history: effects whose load was not over at their cleanup
    outlivedHere    \* history: one of them is of this viewer

artifactVars == <<viewer, source, chosen, effect, loads, displayed, error, fileTooLarge, loading, urls, outlived, outlivedHere>>

-----------------------------------------------------------------------------
(* What the viewers' effects do: use the content itself, link a remote     *)
(* file, look at a local one's size first, make an object URL.             *)

Does(content, links, sizes, makesUrl) ==
    [content |-> content, links |-> links, sizes |-> sizes, makesUrl |-> makesUrl]

LoadImage == Does(TRUE, FALSE, TRUE, TRUE)
LoadAudio == Does(TRUE, TRUE, FALSE, TRUE)
LoadVideo == Does(TRUE, TRUE, TRUE, TRUE)
LoadPdf == Does(FALSE, FALSE, TRUE, TRUE)
LoadPptx == Does(FALSE, FALSE, TRUE, TRUE)
LoadExcel == Does(FALSE, FALSE, TRUE, FALSE)
LoadDocx == Does(FALSE, FALSE, TRUE, FALSE)

LoadOf == [image |-> LoadImage, audio |-> LoadAudio, video |-> LoadVideo, pdf |-> LoadPdf,
           pptx |-> LoadPptx, excel |-> LoadExcel, docx |-> LoadDocx]
Viewers == DOMAIN LoadOf

NoFile == [file |-> 0, url |-> 0]
Sources == {"content", "remote", "local", "large", "nowhere"}

ArtifactsTypeOK ==
    /\ viewer \in Viewers /\ source \in [Files -> Sources] /\ chosen \in Files \cup {0}
    /\ \A l \in loads : /\ l.file \in Files /\ l.effect \in 1 .. effect
                        /\ l.at \in {"sizing", "reading"} /\ l.here \in BOOLEAN
    /\ displayed.file \in Files \cup {0} /\ displayed.url \in 0 .. effect
    /\ {error, fileTooLarge} \subseteq Files \cup {0} /\ {loading, outlivedHere} \subseteq BOOLEAN
    /\ effect \in 0 .. MaxLooks /\ urls \cup outlived \subseteq 1 .. effect

ArtifactsInit ==
    /\ viewer \in Viewers
    /\ source \in [Files -> IF LoadOf[viewer].content THEN Sources ELSE Sources \ {"content"}]
    /\ chosen = 0 /\ effect = 0 /\ loads = {} /\ displayed = NoFile /\ error = 0 /\ fileTooLarge = 0
    /\ loading = TRUE /\ urls = {} /\ outlived = {} /\ outlivedHere = FALSE

-----------------------------------------------------------------------------
(* Effects.                                                                *)

\* Variant for a mutation check: the cleanup revokes nothing.
KeepsUrl == {}

\* The cleanup revokes the URL its own effect has made.
Revokes == {effect}

\* Variant for a mutation check: the effect runs for a new viewer only.
OnMount(f) == chosen = 0

\* The effect depends on the artifact's path and content.
Reruns(f) == chosen # f

Unfinished == {l \in loads : l.effect = effect}

CleansUp ==
    /\ urls' = urls \ Revokes
    /\ outlived' = outlived \cup {l.effect : l \in Unfinished}

\* The part of the effect before its first await, in a viewer that showed e
\* for an error.
Begins(f, e) ==
    \/ /\ source[f] = "content"
       /\ displayed' = [file |-> f, url |-> 0] /\ loading' = FALSE /\ error' = e
       /\ UNCHANGED loads
    \/ /\ source[f] = "nowhere" /\ error' = f /\ loading' = FALSE
       /\ displayed' = (IF chosen = 0 THEN NoFile ELSE displayed)
       /\ UNCHANGED loads
    \/ /\ source[f] = "remote" /\ LoadOf[viewer].links
       /\ displayed' = [file |-> f, url |-> 0] /\ loading' = FALSE /\ error' = 0
       /\ UNCHANGED loads
    \/ /\ source[f] \in {"local", "large"} \/ (source[f] = "remote" /\ ~LoadOf[viewer].links)
       /\ loads' = loads \cup {[file |-> f, effect |-> effect', here |-> TRUE,
                                at |-> IF source[f] # "remote" /\ LoadOf[viewer].sizes THEN "sizing" ELSE "reading"]}
       /\ error' = e /\ loading' = (chosen = 0 \/ loading)
       /\ displayed' = (IF chosen = 0 THEN NoFile ELSE displayed)

\* The panel shows an artifact in a viewer that was not there.
Mount ==
    /\ chosen = 0 /\ effect < MaxLooks
    /\ \E f \in Files : chosen' = f /\ effect' = effect + 1 /\ Begins(f, 0)
    /\ fileTooLarge' = 0 /\ outlivedHere' = FALSE
    /\ UNCHANGED <<viewer, source, urls, outlived>>

\* Another artifact of the same type: the viewer stays, with its state.
ChangeArtifact ==
    /\ chosen # 0 /\ effect < MaxLooks
    /\ \E f \in Files \ {chosen} :
         /\ chosen' = f
         /\ IF Reruns(f)
            THEN /\ effect' = effect + 1 /\ CleansUp /\ Begins(f, error)
                 /\ outlivedHere' = (outlivedHere \/ Unfinished # {})
            ELSE UNCHANGED <<effect, urls, outlived, loads, displayed, error, loading, outlivedHere>>
    /\ UNCHANGED <<viewer, source, fileTooLarge>>

\* The panel closes, or shows an artifact of another type.
Unmount ==
    /\ chosen # 0 /\ chosen' = 0 /\ CleansUp
    /\ loads' = {[l EXCEPT !.here = FALSE] : l \in loads}
    /\ UNCHANGED <<viewer, source, effect, displayed, error, fileTooLarge, loading, outlivedHere>>

\* The size of a local file arrives.
SizeTold ==
    \E l \in loads :
        /\ l.at = "sizing"
        /\ IF source[l.file] = "large"
           THEN /\ loads' = loads \ {l}
                /\ fileTooLarge' = (IF l.here THEN l.file ELSE fileTooLarge)
                /\ loading' = (loading /\ ~l.here)
           ELSE /\ loads' = (loads \ {l}) \cup {[l EXCEPT !.at = "reading"]}
                /\ UNCHANGED <<fileTooLarge, loading>>
        /\ UNCHANGED <<viewer, source, chosen, effect, displayed, error, urls, outlived, outlivedHere>>

\* The file was read, and parsed: its URL is made whether or not the effect
\* was cleaned up.
FileLoaded ==
    \E l \in loads :
        LET url == IF LoadOf[viewer].makesUrl THEN l.effect ELSE 0 IN
        /\ l.at = "reading" /\ loads' = loads \ {l}
        /\ urls' = urls \cup ({url} \ {0})
        /\ IF l.here THEN displayed' = [file |-> l.file, url |-> url] /\ error' = 0 /\ loading' = FALSE
                     ELSE UNCHANGED <<displayed, error, loading>>
        /\ UNCHANGED <<viewer, source, chosen, effect, fileTooLarge, outlived, outlivedHere>>

\* Looking at the file, reading or parsing it throws; of a presentation the
\* pictures may have got their URLs by then.
LoadFails ==
    \E l \in loads, made \in BOOLEAN :
        /\ made => viewer = "pptx" /\ l.at = "reading"
        /\ loads' = loads \ {l}
        /\ urls' = urls \cup (IF made THEN {l.effect} ELSE {})
        /\ IF l.here THEN error' = l.file /\ loading' = FALSE ELSE UNCHANGED <<error, loading>>
        /\ UNCHANGED <<viewer, source, chosen, effect, displayed, fileTooLarge, outlived, outlivedHere>>

ArtifactsNext == Mount \/ ChangeArtifact \/ Unmount \/ SizeTold \/ FileLoaded \/ LoadFails

ArtifactsSpec == ArtifactsInit /\ [][ArtifactsNext]_artifactVars
-----------------------------------------------------------------------------
(* Properties.                                                             *)

\* Once nothing is being loaded, and no load outlived its effect, the viewer
\* shows the artifact chosen, from a URL that is still there, or that
\* artifact's own error: unless a file was too large, which the viewer goes on
\* to say of every later one, or content follows a file that failed.
ViewersShowTheirs ==
    chosen # 0 /\ ~outlivedHere /\ Unfinished = {} /\ fileTooLarge = 0 =>
        /\ ~loading
        /\ error # 0 => error = chosen \/ source[chosen] = "content"
        /\ error = 0 => displayed.file = chosen /\ (displayed.url = 0 \/ displayed.url \in urls)

\* The object URLs left are the last effect's, while the viewer is there, and
\* those made by loads that outlived their effects.
UrlsAreRevoked == urls \subseteq outlived \cup (IF chosen = 0 THEN {} ELSE {effect})
=============================================================================
