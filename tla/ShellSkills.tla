---------------------------- MODULE ShellSkills ----------------------------
(***************************************************************************)
(* The settings page of the skills (SkillsSettings.tsx): the list it loads *)
(* from the user's skills directory through the files routes, the dialog   *)
(* that imports the skills of a repository, the self check, and the dialog *)
(* that sends the user to a skill's folder to delete it there.  The import *)
(* itself is the Python API's (api/files.py import_skill); the shell's own *)
(* API has no such route.  An import goes on when the page is left.        *)
(***************************************************************************)
EXTENDS Naturals, FiniteSets

CONSTANTS
    Skills,       \* the skills a repository may have
    IgnoredNames, \* those whose name the directory listing leaves out
    CustomSkills, \* folders of the directory the user configured
    MaxImports,   \* bound: imports and self checks in all
    MaxVisits,    \* bound: visits of the page
    MaxSkillDeletes \* bound: folders the user deletes, and failed listings

ASSUME SkillsPageAssumption == MaxImports \in Nat /\ MaxVisits \in Nat

VARIABLES
    python,               \* the Python API serves, not the shell's own
    folders,              \* the skills directory: folder -> the parts that are there
    clones,               \* imports whose temporary clone is on the disk
    locked,               \* the import that holds the directory's lock, 0 for none
    ops,                  \* the imports and self checks, in the order they began
    visit, onSkillsPage,
    skillLoad,            \* the page's load, or NoLoad
    skillList,            \* the page's list
    dialog,               \* the import dialog: open or not, with an error or not
    importing, checking,
    deleteOf,             \* the delete dialog: a folder, or None
    deletes,
    deleted,              \* history: folders that were deleted
    misread,              \* history: the last load could not read a directory
    lost                  \* history: imports whose clone was given up

skillDirVars == <<python, folders, clones, locked, ops, deleted, lost>>
skillPageVars == <<visit, onSkillsPage, skillLoad, skillList, dialog, importing,
                   checking, deleteOf, deletes, misread>>
skillsPageVars == <<skillDirVars, skillPageVars>>

None == <<"none", 0>>
NoLoad == [pc |-> "none", left |-> {}, list |-> {}]
NoDialog == [open |-> FALSE, error |-> FALSE]

\* The copies of a skill: the second gets a suffix, and so on.
Folders == Skills \X (0 .. MaxImports)
There == {f \in Folders : folders[f] # "absent"}
Listable == {f \in There : ~(f[1] \in IgnoredNames /\ f[2] = 0)}
UnderWay == {i \in DOMAIN ops : ops[i].pc # "told"}

SkillsPageTypeOK ==
    /\ python \in BOOLEAN /\ folders \in [Folders -> {"absent", "bare", "whole"}]
    /\ locked \in {0} \cup DOMAIN ops /\ clones \subseteq DOMAIN ops
    /\ \A i \in DOMAIN ops :
         /\ ops[i].kind \in {"import", "check"} /\ ops[i].visit \in 1 .. MaxVisits
         /\ ops[i].pc \in {"cloning", "cloned", "copying", "answering", "told"}
         /\ ops[i].of \subseteq Skills /\ ops[i].made \subseteq Folders /\ ops[i].ok \in BOOLEAN
    /\ skillLoad.pc \in {"none", "dirs", "user", "files", "custom"} /\ skillLoad.left \subseteq Folders
    /\ \A e \in skillList : e.folder \in Folders \cup ({"custom"} \X CustomSkills) /\ e.named \in BOOLEAN
    /\ {importing, checking, onSkillsPage, misread} \subseteq BOOLEAN
    /\ deleteOf \in Folders \cup {None} /\ deleted \subseteq Folders /\ lost \subseteq DOMAIN ops

SkillsPageInit ==
    /\ python \in BOOLEAN
    /\ folders \in [Folders -> {"absent", "whole"}] /\ \A f \in There : f[2] = 0
    /\ clones = {} /\ locked = 0 /\ ops = <<>> /\ deleted = {} /\ lost = {}
    /\ visit = 0 /\ onSkillsPage = FALSE /\ skillLoad = NoLoad /\ skillList = {} /\ dialog = NoDialog
    /\ importing = FALSE /\ checking = FALSE /\ deleteOf = None /\ deletes = 0 /\ misread = FALSE

-----------------------------------------------------------------------------
(* The list.                                                               *)

Shown == onSkillsPage /\ skillLoad = NoLoad
LoadBegins == skillLoad' = [NoLoad EXCEPT !.pc = "dirs"] /\ misread' = FALSE

OpenPage ==
    /\ ~onSkillsPage /\ visit < MaxVisits
    /\ onSkillsPage' = TRUE /\ visit' = visit + 1
    /\ LoadBegins
    /\ UNCHANGED <<skillDirVars, skillList, dialog, importing, checking, deleteOf, deletes>>

\* The page's state goes with it.
LeavePage ==
    /\ onSkillsPage /\ onSkillsPage' = FALSE /\ skillLoad' = NoLoad
    /\ skillList' = {} /\ dialog' = NoDialog
    /\ importing' = FALSE /\ checking' = FALSE /\ deleteOf' = None
    /\ misread' = FALSE
    /\ UNCHANGED <<skillDirVars, visit, deletes>>

Loading(pc) == onSkillsPage /\ skillLoad.pc = pc

\* GET /files/skills-dir; without an answer there are no skills.
DirsAnswered ==
    /\ Loading("dirs")
    /\ \/ /\ skillLoad' = [skillLoad EXCEPT !.pc = IF There = {} THEN "custom" ELSE "user"]
          /\ UNCHANGED <<skillList, misread, deletes>>
       \/ /\ deletes < MaxSkillDeletes /\ deletes' = deletes + 1
          /\ skillLoad' = NoLoad /\ skillList' = {} /\ misread' = TRUE
    /\ UNCHANGED <<skillDirVars, visit, onSkillsPage, dialog, importing, checking, deleteOf>>

\* POST /files/readdir: what is there now, but for the names it ignores.
UserDirRead ==
    /\ Loading("user")
    /\ \/ /\ skillLoad' = [skillLoad EXCEPT !.pc = "files", !.left = Listable]
          /\ UNCHANGED <<misread, deletes>>
       \/ /\ deletes < MaxSkillDeletes /\ deletes' = deletes + 1
          /\ skillLoad' = [skillLoad EXCEPT !.pc = "custom"] /\ misread' = TRUE
    /\ UNCHANGED <<skillDirVars, visit, onSkillsPage, skillList, dialog, importing, checking,
                   deleteOf>>

\* POST /files/read of one SKILL.md: a folder without one is listed by its
\* own name.
SkillFileRead(f) ==
    /\ Loading("files") /\ f \in skillLoad.left
    /\ LET left == skillLoad.left \ {f} IN
       skillLoad' = [pc |-> IF left = {} THEN "custom" ELSE "files", left |-> left,
                     list |-> skillLoad.list \cup
                       {[folder |-> f, named |-> folders[f] = "whole"]}]
    /\ UNCHANGED <<skillDirVars, visit, onSkillsPage, skillList, dialog, importing, checking,
                   deleteOf, deletes, misread>>

\* The configured directory, if it is another, and then the list is shown.
CustomDirRead ==
    /\ Loading("custom") \/ (Loading("files") /\ skillLoad.left = {})
    /\ skillList' = skillLoad.list \cup
                       {[folder |-> <<"custom", s>>, named |-> TRUE] : s \in CustomSkills}
    /\ skillLoad' = NoLoad
    /\ UNCHANGED <<skillDirVars, visit, onSkillsPage, dialog, importing, checking, deleteOf,
                   deletes, misread>>

\* The delete dialog only opens the folder.
HandleDeleteSkill(f) ==
    /\ Shown /\ deleteOf = None /\ ~dialog.open /\ \E e \in skillList : e.folder = f
    /\ deleteOf' = f
    /\ UNCHANGED <<skillDirVars, visit, onSkillsPage, skillLoad, skillList, dialog, importing,
                   checking, deletes, misread>>

HandleOpenSkillFolder ==
    /\ Shown /\ deleteOf # None /\ deleteOf' = None
    /\ UNCHANGED <<skillDirVars, visit, onSkillsPage, skillLoad, skillList, dialog, importing,
                   checking, deletes, misread>>

\* The user deletes it there, if at all.
UserDeletes(f) ==
    /\ folders[f] = "whole" /\ deletes < MaxSkillDeletes /\ deletes' = deletes + 1
    /\ folders' = [folders EXCEPT ![f] = "absent"] /\ deleted' = deleted \cup {f}
    /\ UNCHANGED <<python, clones, locked, ops, lost, visit, onSkillsPage, skillLoad, skillList,
                   dialog, importing, checking, deleteOf, misread>>

-----------------------------------------------------------------------------
(* The import dialog and the self check.                                   *)

ToggleDialog ==
    /\ Shown /\ deleteOf = None
    /\ dialog' = [NoDialog EXCEPT !.open = ~dialog.open]
    /\ UNCHANGED <<skillDirVars, visit, onSkillsPage, skillLoad, skillList, importing, checking,
                   deleteOf, deletes, misread>>

NewOp(kind, of) ==
    [kind |-> kind, visit |-> visit, of |-> of, made |-> {}, ok |-> FALSE,
     pc |-> IF python THEN "cloning" ELSE "answering"]

OpBegins(op) ==
    /\ Cardinality(DOMAIN ops) < MaxImports
    /\ ops' = [i \in DOMAIN ops \cup {Cardinality(DOMAIN ops) + 1} |->
                 IF i \in DOMAIN ops THEN ops[i] ELSE op]
    /\ clones' = IF python THEN clones \cup {Cardinality(DOMAIN ops) + 1} ELSE clones
    /\ UNCHANGED <<python, folders, locked, deleted, lost>>

\* The button is there for one import at a time; a repository may have no skill.
ImportSkills(of) ==
    /\ Shown /\ dialog.open /\ ~importing
    /\ OpBegins(NewOp("import", of))
    /\ importing' = TRUE /\ dialog' = [dialog EXCEPT !.error = FALSE]
    /\ UNCHANGED <<visit, onSkillsPage, skillLoad, skillList, checking, deleteOf, deletes,
                   misread>>

RunImportSelfCheck ==
    /\ Shown /\ ~dialog.open /\ deleteOf = None /\ ~checking
    /\ OpBegins(NewOp("check", Skills))
    /\ checking' = TRUE
    /\ UNCHANGED <<visit, onSkillsPage, skillLoad, skillList, dialog, importing, deleteOf,
                   deletes, misread>>

\* The answer reaches the page if it is still the same one.  A success closes
\* the dialog, whatever was typed meanwhile, and loads the list anew.
PageAnswered(i) ==
    LET here == onSkillsPage /\ visit = ops[i].visit IN
    /\ ops[i].pc = "answering"
    /\ ops' = [ops EXCEPT ![i].pc = "told"]
    /\ IF here /\ ops[i].kind = "import"
         THEN /\ importing' = FALSE
              /\ IF ops[i].ok THEN dialog' = NoDialog /\ LoadBegins
                 ELSE dialog' = [dialog EXCEPT !.error = TRUE] /\ UNCHANGED <<skillLoad, misread>>
              /\ UNCHANGED checking
         ELSE /\ checking' = (checking /\ ~here)
              /\ UNCHANGED <<importing, dialog, skillLoad, misread>>
    /\ UNCHANGED <<python, folders, clones, locked, deleted, lost, visit, onSkillsPage,
                   skillList, deleteOf, deletes>>

-----------------------------------------------------------------------------
(* The Python API's side.                                                  *)

OpAt(i, pc) == ops[i].pc = pc

\* The clone's directory was made for it; without a clone it is never removed.
Cloned(i) ==
    /\ OpAt(i, "cloning")
    /\ \/ ops' = [ops EXCEPT ![i].pc = "cloned"] /\ UNCHANGED lost
       \/ ops' = [ops EXCEPT ![i].pc = "answering"] /\ lost' = lost \cup {i}
    /\ UNCHANGED <<python, folders, clones, locked, deleted, skillPageVars>>

\* Variant for a mutation check: only a failed request removes its clone
OpFinishesLeaving(i, ok) ==
    /\ ops' = [ops EXCEPT ![i] = [@ EXCEPT !.pc = "answering", !.ok = ok]]
    /\ clones' = IF ok THEN clones ELSE clones \ {i}

\* finally: the clone is removed.
OpFinishes(i, ok) ==
    /\ ops' = [ops EXCEPT ![i] = [@ EXCEPT !.pc = "answering", !.ok = ok]]
    /\ clones' = clones \ {i}

\* _collect_skill_dirs: the check is over, and so is an import of nothing.
Collected(i) ==
    /\ OpAt(i, "cloned") /\ (ops[i].kind = "check" \/ ops[i].of = {})
    /\ OpFinishes(i, ops[i].of # {})
    /\ UNCHANGED <<python, folders, locked, deleted, lost, skillPageVars>>

LockTaken(i) ==
    /\ OpAt(i, "cloned") /\ ops[i].kind = "import" /\ ops[i].of # {}
    /\ locked = 0 /\ locked' = i
    /\ ops' = [ops EXCEPT ![i].pc = "copying"]
    /\ UNCHANGED <<python, folders, clones, deleted, lost, skillPageVars>>

Pending(i) == {f \in ops[i].made : folders[f] = "bare"}
Copied(i) == {f[1] : f \in ops[i].made}

\* _copy_skill_dir: the first name that is free.
CopyBegins(i, s) ==
    /\ OpAt(i, "copying") /\ Pending(i) = {} /\ s \in ops[i].of \ Copied(i)
    /\ \E n \in 0 .. MaxImports :
         /\ folders[<<s, n>>] = "absent" /\ \A m \in 0 .. n - 1 : folders[<<s, m>>] # "absent"
         /\ folders' = [folders EXCEPT ![<<s, n>>] = "bare"]
         /\ ops' = [ops EXCEPT ![i].made = @ \cup {<<s, n>>}]
    /\ UNCHANGED <<python, clones, locked, deleted, lost, skillPageVars>>

\* The copy is whole; or it fails and stays as it is, with those before it.
CopyEnds(i) ==
    /\ OpAt(i, "copying") /\ Pending(i) # {}
    /\ \/ /\ folders' = [f \in Folders |-> IF f \in Pending(i) THEN "whole" ELSE folders[f]]
          /\ UNCHANGED <<ops, clones, locked>>
       \/ OpFinishes(i, FALSE) /\ locked' = 0 /\ UNCHANGED folders
    /\ UNCHANGED <<python, deleted, lost, skillPageVars>>

Imported(i) ==
    /\ OpAt(i, "copying") /\ Pending(i) = {} /\ Copied(i) = ops[i].of
    /\ OpFinishes(i, TRUE) /\ locked' = 0
    /\ UNCHANGED <<python, folders, deleted, lost, skillPageVars>>

\* The API goes down and comes back: to the page every request failed.
ApiRestarts ==
    /\ python /\ UnderWay # {}
    /\ ops' = [i \in DOMAIN ops |->
                 IF i \in UnderWay THEN [ops[i] EXCEPT !.pc = "answering", !.ok = FALSE] ELSE ops[i]]
    /\ lost' = lost \cup (clones \cap UnderWay) /\ locked' = 0
    /\ UNCHANGED <<python, folders, clones, deleted, skillPageVars>>

SkillsPageNext ==
    \/ OpenPage \/ LeavePage \/ DirsAnswered \/ UserDirRead \/ CustomDirRead
    \/ HandleOpenSkillFolder \/ ToggleDialog \/ RunImportSelfCheck \/ ApiRestarts
    \/ \E f \in Folders : SkillFileRead(f) \/ HandleDeleteSkill(f) \/ UserDeletes(f)
    \/ \E of \in SUBSET Skills : ImportSkills(of)
    \/ \E i \in DOMAIN ops :
         \/ PageAnswered(i) \/ Cloned(i) \/ Collected(i) \/ LockTaken(i) \/ CopyEnds(i) \/ Imported(i)
         \/ \E s \in Skills : CopyBegins(i, s)

SkillsPageSpec == SkillsPageInit /\ [][SkillsPageNext]_skillsPageVars

-----------------------------------------------------------------------------
(* Properties.                                                             *)

\* What an import the page was told of has put in the directory is in its
\* list by its own name, unless the user deleted it, its name is one the
\* listing ignores, or the list could not be loaded (SkillsSettings.tsx).
ListShowsImports ==
    Shown /\ ~misread =>
        \A i \in DOMAIN ops : ops[i].pc = "told" /\ ops[i].ok /\ ops[i].visit = visit
                            /\ ops[i].kind = "import" =>
            \A f \in ops[i].made \ deleted :
                [folder |-> f, named |-> TRUE] \in skillList \/ (f[1] \in IgnoredNames /\ f[2] = 0)

\* An import that succeeded has put every skill of its repository into a
\* folder of its own, whole, whatever other imports ran; and a folder was
\* made by one of them (files.py import_skill, _copy_skill_dir).
ImportsAreWhole ==
    /\ \A i \in DOMAIN ops : ops[i].ok /\ ops[i].kind = "import" =>
          /\ {f[1] : f \in ops[i].made} = ops[i].of
          /\ \A f \in ops[i].made \ deleted : folders[f] = "whole"
    /\ \A i, j \in DOMAIN ops : i # j => ops[i].made \cap ops[j].made \subseteq deleted \/ python = FALSE

\* A clone is on the disk only while its request is under way, but for those
\* git did not complete and those of an API that went down; and the page's
\* buttons wait only for a request of theirs.
ClonesRemoved ==
    /\ \A i \in clones : i \in lost \/ ops[i].pc \in {"cloning", "cloned", "copying"}
    /\ onSkillsPage /\ importing => \E i \in UnderWay : ops[i].kind = "import" /\ ops[i].visit = visit
    /\ onSkillsPage /\ checking => \E i \in UnderWay : ops[i].kind = "check" /\ ops[i].visit = visit
=============================================================================
