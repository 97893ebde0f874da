--------------------------- MODULE ShellSettings ---------------------------
(***************************************************************************)
(* The shell's settings (shared/db/settings.ts): an object in memory, its  *)
(* copy in localStorage, one SQLite row for each of its keys, and what the *)
(* backend was last told.  A save goes to memory and localStorage at once, *)
(* and then to the rows one statement at a time while the user goes on;    *)
(* the settings window holds a copy of its own and saves that.             *)
(***************************************************************************)
EXTENDS Naturals, Sequences, FiniteSets

CONSTANTS MaxChanges    \* bound: changes, clears, imports and restarts

ASSUME SettingsAssumption == MaxChanges \in Nat

VARIABLES
    rows,       \* SQLite's settings table: key -> value
    storage,    \* localStorage: the object, or nothing
    cache,      \* settingsCache, or nothing
    window,     \* the settings window's copy
    phase,      \* "off", "hydrating", "storing" (start-up), "up", "clearing", "leaving" (to be loaded again)
    saves,      \* saves under way
    syncs,      \* requests to the backend under way
    told,       \* what the backend was told
    changes,    \* changes so far; the value a change gives is its number
    asked,      \* history: the settings as the user left them
    muddled,    \* history: a save was overtaken, cut off, or made from a stale copy
    missed      \* history: a request to the backend was lost or overtaken, or none was made

settingsVars == <<rows, storage, cache, window, phase, saves, syncs, told, changes, asked, muddled, missed>>

\* "model" is the model provider, its key and the default model; "rest" is
\* what has a default that start-up fills in.  0 is the default, 1 what
\* start-up makes of it.
SettingKeys == <<"model", "rest">>
Objects == [{"model", "rest"} -> 0 .. MaxChanges + 2]
Defaults == [model |-> 0, rest |-> 0]

SettingsTypeOK ==
    /\ \A k \in DOMAIN rows : k \in {"model", "rest"} /\ rows[k] \in 0 .. MaxChanges + 2
    /\ {storage, cache} \subseteq {<<>>} \cup {<<o>> : o \in Objects}
    /\ {window, asked} \subseteq Objects
    /\ phase \in {"off", "hydrating", "storing", "up", "clearing", "leaving"}
    /\ \A i \in DOMAIN saves : saves[i].object \in Objects /\ saves[i].done \in 0 .. 2
    /\ \A m \in syncs : m[1] \in 0 .. MaxChanges + 2
    /\ told \in 0 .. MaxChanges + 2 /\ changes \in 2 .. MaxChanges + 2
    /\ muddled \in BOOLEAN /\ missed \in BOOLEAN

SettingsInit ==
    /\ rows = <<>> /\ storage = <<>> /\ cache = <<>> /\ window = Defaults /\ phase = "off"
    /\ saves = <<>> /\ syncs = {} /\ told \in {0, 1} /\ changes = 2
    /\ asked = [Defaults EXCEPT !.rest = 1] /\ muddled = FALSE /\ missed = FALSE

-----------------------------------------------------------------------------
(* Start-up.                                                               *)

\* getSettingsAsync: the rows over the defaults, or else localStorage's
\* object, or else the defaults.
Loaded == IF DOMAIN rows # {} THEN [k \in DOMAIN Defaults |-> IF k \in DOMAIN rows THEN rows[k] ELSE Defaults[k]]
          ELSE IF storage # <<>> THEN storage[1] ELSE Defaults

\* The empty paths are filled in.
Start ==
    /\ phase = "off" /\ phase' = "hydrating"
    /\ cache' = <<[Loaded EXCEPT !.rest = IF @ = 0 THEN 1 ELSE @]>>
    /\ UNCHANGED <<rows, storage, window, saves, syncs, told, changes, asked, muddled, missed>>

\* hydrateModelConfigFromBackend: settings without a model take what the
\* backend was told last, after a clear too, if the backend answers.
Hydrated ==
    /\ phase = "hydrating" /\ phase' = "storing"
    /\ \E m \in {0, told} :
         /\ cache' = <<IF cache[1].model = 0 THEN [cache[1] EXCEPT !.model = m] ELSE cache[1]>>
         /\ asked' = IF asked.model = 0 /\ cache[1].model = 0 THEN [asked EXCEPT !.model = m] ELSE asked
         /\ missed' = (missed \/ (cache[1].model = 0 /\ m # told))
    /\ saves' = IF cache' # <<Loaded>> THEN <<[object |-> cache'[1], done |-> 0]>> ELSE <<>>
    /\ UNCHANGED <<rows, storage, window, syncs, told, changes, muddled>>

\* Start-up waits for its save; then the window can be opened.
Started ==
    /\ phase = "storing" /\ saves = <<>> /\ phase' = "up"
    /\ window' = cache[1]
    /\ UNCHANGED <<rows, storage, cache, saves, syncs, told, changes, asked, muddled, missed>>

-----------------------------------------------------------------------------
(* Saving.                                                                 *)

\* saveSettings: memory and localStorage at once, the rows later.
Save(o) ==
    /\ cache' = <<o>> /\ storage' = <<o>>
    /\ saves' = Append(saves, [object |-> o, done |-> 0])

\* A statement of a save that is not the oldest overtakes the older ones.
Overtakes(i) == \E j \in 1 .. i - 1 : saves[j].done <= saves[i].done

\* saveSettingsAsync: one row.  A row of an older save that comes after the
\* newer one's wins.
SaveRow ==
    /\ \E i \in DOMAIN saves :
         LET s == saves[i] IN
         /\ s.done < 2
         /\ rows' = [k \in DOMAIN rows \cup {SettingKeys[s.done + 1]} |->
                       IF k = SettingKeys[s.done + 1] THEN s.object[k] ELSE rows[k]]
         /\ saves' = [saves EXCEPT ![i].done = @ + 1]
         /\ muddled' = (muddled \/ Overtakes(i))
    /\ UNCHANGED <<storage, cache, window, phase, syncs, told, changes, asked, missed>>

\* Variant for a mutation check: the object in memory is stored last.
StoredCache(s) == storage

\* A save ends by storing its object in localStorage once more.
Stored(s) == <<s.object>>

SaveEnds ==
    /\ \E i \in DOMAIN saves :
         /\ saves[i].done = 2
         /\ storage' = Stored(saves[i])
         /\ saves' = [j \in 1 .. Len(saves) - 1 |-> IF j < i THEN saves[j] ELSE saves[j + 1]]
         /\ muddled' = (muddled \/ \E j \in 1 .. i - 1 : TRUE)
    /\ UNCHANGED <<rows, cache, window, phase, syncs, told, changes, asked, missed>>

\* The database cannot be reached: only localStorage gets the object.
SaveFails ==
    /\ \E i \in DOMAIN saves :
         /\ saves[i].done = 0
         /\ saves' = [saves EXCEPT ![i].done = 2]
    /\ muddled' = TRUE
    /\ UNCHANGED <<rows, storage, cache, window, phase, syncs, told, changes, asked, missed>>

-----------------------------------------------------------------------------
(* The user.                                                               *)

CanChange == phase \in {"up", "clearing", "leaving"} /\ changes < MaxChanges + 2 /\ changes' = changes + 1

\* syncSettingsWithBackend: the request carries what is in memory.
Sync == syncs' = syncs \cup {<<cache'[1].model, changes'>>}

\* handleSettingsChange: the window's copy, with the change, is saved and the
\* backend told.
ChangeInWindow(k) ==
    /\ CanChange
    /\ window' = [window EXCEPT ![k] = changes']
    /\ Save(window') /\ Sync
    /\ asked' = [asked EXCEPT ![k] = changes']
    /\ muddled' = (muddled \/ phase # "up" \/ <<window>> # cache)
    /\ UNCHANGED <<rows, phase, told, missed>>

\* The theme and the language: saved from memory by their provider, and again
\* from the window's copy.
ChangeTheme ==
    /\ CanChange /\ phase = "up"
    /\ LET o == [cache[1] EXCEPT !.rest = changes'] IN
         /\ window' = [window EXCEPT !.rest = changes']
         /\ saves' = saves \o <<[object |-> o, done |-> 0], [object |-> window', done |-> 0]>>
         /\ cache' = <<window'>> /\ storage' = <<window'>>
    /\ Sync
    /\ asked' = [asked EXCEPT !.rest = changes']
    /\ muddled' = (muddled \/ <<window>> # cache)
    /\ UNCHANGED <<rows, phase, told, missed>>

\* The window takes what is in memory when it is opened.
OpenWindow ==
    /\ phase = "leaving" /\ cache # <<window>>
    /\ window' = IF cache = <<>> THEN Defaults ELSE cache[1]
    /\ UNCHANGED <<rows, storage, cache, phase, saves, syncs, told, changes, asked, muddled, missed>>

\* A file's settings are saved, and the page is loaded again a while later.
Import ==
    /\ CanChange /\ phase = "up" /\ phase' = "leaving"
    /\ asked' = [k \in DOMAIN asked |-> changes']
    /\ Save(asked') /\ missed' = TRUE
    /\ UNCHANGED <<rows, window, syncs, told, muddled>>

\* clearAllSettings: the rows, then localStorage and memory.
Clear ==
    /\ CanChange /\ phase = "up" /\ phase' = "clearing"
    /\ rows' = <<>>
    /\ asked' = [Defaults EXCEPT !.rest = 1]
    /\ muddled' = (muddled \/ saves # <<>>) /\ missed' = TRUE
    /\ UNCHANGED <<storage, cache, window, saves, syncs, told>>

\* Variant for a mutation check: localStorage is not cleared.
KeptInStorage == storage

\* What a clear leaves in localStorage.
ClearedStorage == <<>>

ClearEnds ==
    /\ phase = "clearing" /\ phase' = "leaving"
    /\ storage' = ClearedStorage /\ cache' = <<>>
    /\ UNCHANGED <<rows, window, saves, syncs, told, changes, asked, muddled, missed>>

\* The page is loaded again, or the program ends: saves under way stop.
Leave ==
    /\ phase = "leaving" \/ (phase = "up" /\ changes < MaxChanges + 2)
    /\ changes' = IF phase = "up" THEN changes + 1 ELSE changes
    /\ phase' = "off" /\ cache' = <<>> /\ saves' = <<>> /\ syncs' = {}
    /\ muddled' = (muddled \/ saves # <<>>)
    /\ missed' = (missed \/ syncs # {})
    /\ UNCHANGED <<rows, storage, window, told, asked>>

-----------------------------------------------------------------------------
(* The backend.                                                            *)

BackendTold ==
    /\ \E m \in syncs :
         /\ syncs' = syncs \ {m}
         /\ told' = m[1]
         /\ missed' = (missed \/ \E n \in syncs : n[2] < m[2])
    /\ UNCHANGED <<rows, storage, cache, window, phase, saves, changes, asked, muddled>>

BackendMissed ==
    /\ \E m \in syncs : syncs' = syncs \ {m}
    /\ missed' = TRUE
    /\ UNCHANGED <<rows, storage, cache, window, phase, saves, told, changes, asked, muddled>>

SettingsNext ==
    \/ Start \/ Hydrated \/ Started \/ SaveRow \/ SaveEnds \/ SaveFails
    \/ ChangeInWindow("model") \/ ChangeInWindow("rest") \/ ChangeTheme \/ OpenWindow
    \/ Import \/ Clear \/ ClearEnds \/ Leave \/ BackendTold \/ BackendMissed

SettingsSpec == SettingsInit /\ [][SettingsNext]_settingsVars

-----------------------------------------------------------------------------
(* Properties.                                                             *)

\* With no save under way, memory, the rows and localStorage all hold the
\* settings as the user left them, over restarts, clears and imports, unless
\* statements overtook each other, a save was cut off or a stale window saved.
\* The backend has the model then, unless a request was lost or overtaken, or
\* a clear or an import made none.
SettingsAsAsked == phase = "up" /\ saves = <<>> /\ ~muddled =>
    /\ cache = <<asked>>
    /\ \A k \in DOMAIN asked : k \in DOMAIN rows /\ rows[k] = asked[k]
    /\ storage = <<asked>>
    /\ syncs = {} /\ ~missed => told = asked.model
=============================================================================
