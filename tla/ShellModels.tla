----------------------------- MODULE ShellModels -----------------------------
(***************************************************************************)
(* The shell's model settings (settings/tabs/ModelSettings.tsx): the list  *)
(* of model providers, the default provider and model that runs are asked  *)
(* with (useAgent.ts getModelConfig), and the dialog that edits a provider *)
(* and tries its connection.                                               *)
(***************************************************************************)
EXTENDS Naturals, FiniteSets

CONSTANTS
    BuiltIn,            \* ids of the providers that come with the shell, which cannot be deleted
    Models,             \* names of models
    MaxModelChanges     \* bound: changes of the settings and tries, whose number also names what they make

ASSUME ModelsAssumption ==
    /\ BuiltIn \subseteq 1 .. Cardinality(BuiltIn) /\ Cardinality(BuiltIn) \in Nat    \* numbered in the list's order
    /\ MaxModelChanges \in Nat

VARIABLES
    offered,        \* settings.providers: id -> [enabled, key, models], in the order of the ids
    default,        \* <<defaultProvider, defaultModel>>, ids 0 and "none" before one is picked
    editing,        \* the provider in the dialog, 0 for none
    status,         \* what the dialog shows of its last try
    tries,          \* tries under way: bag as a set of <<provider, n>>
    timers,         \* timers that will clear the status
    modelChanges,
    about,          \* history: the provider that the status is about
    bare,           \* history: providers added enabled without a key
    dangling,       \* history: the default lost its provider or model, with none to take its place
    strayed         \* history: an answer came when the dialog had changed or been closed

modelVars == <<offered, default, editing, status, tries, timers, modelChanges, about, bare, dangling, strayed>>
listVars == <<offered, default, modelChanges, bare, dangling>>
dialogVars == <<editing, status, tries, timers, about, strayed>>

NoDefault == <<0, "none">>
ModelsTypeOK ==
    /\ \A p \in DOMAIN offered : /\ p \in Nat \ {0} /\ offered[p].enabled \in BOOLEAN /\ offered[p].key \in BOOLEAN
                                /\ offered[p].models \subseteq Models
    /\ default[1] \in Nat /\ default[2] \in Models \cup {"none"}
    /\ editing \in DOMAIN offered \cup {0} /\ status \in {"idle", "loading", "success", "error"}
    /\ \A x \in tries : x[1] \in Nat /\ x[2] \in 1 .. modelChanges
    /\ timers \in Nat /\ modelChanges \in 0 .. MaxModelChanges
    /\ about \in Nat /\ bare \subseteq Nat /\ {dangling, strayed} \subseteq BOOLEAN

ModelsInit ==
    /\ offered = [p \in BuiltIn |-> [enabled |-> FALSE, key |-> FALSE, models |-> Models]]
    /\ default = NoDefault /\ editing = 0 /\ status = "idle" /\ tries = {} /\ timers = 0
    /\ modelChanges = 0 /\ about = 0 /\ bare = {} /\ dangling = FALSE /\ strayed = FALSE

Changes == modelChanges < MaxModelChanges /\ modelChanges' = modelChanges + 1

-----------------------------------------------------------------------------
(* The list.                                                               *)

\* Variant for a mutation check: a provider without a key stays enabled.
StaysEnabled(p, key) == offered[p].enabled

\* handleProviderUpdate: a provider whose key is removed is disabled.
EnabledWith(p, key) == offered[p].enabled /\ key

\* The key is typed or removed in the dialog, which forgets its last try.
EditKey ==
    /\ Changes /\ editing # 0
    /\ \E key \in BOOLEAN :
         offered' = [offered EXCEPT ![editing].key = key, ![editing].enabled = EnabledWith(editing, key)]
    /\ status' = "idle" /\ about' = 0
    /\ UNCHANGED <<default, bare, dangling, editing, tries, timers, strayed>>

\* The switch on a provider's card works when there is a key.
ToggleProvider ==
    /\ Changes
    /\ \E p \in DOMAIN offered : offered[p].key /\ offered' = [offered EXCEPT ![p].enabled = ~@]
    /\ UNCHANGED <<default, bare, dangling, dialogVars>>

\* A model is added or removed, also the default one.
EditModels ==
    /\ Changes /\ editing # 0
    /\ \E m \in Models :
         /\ offered' = [offered EXCEPT ![editing].models = IF m \in @ THEN @ \ {m} ELSE @ \cup {m}]
         /\ dangling' = (dangling \/ (default = <<editing, m>> /\ m \in offered[editing].models))
    /\ UNCHANGED <<default, bare, dialogVars>>

NewProvider == Cardinality(BuiltIn) + modelChanges'

\* handleAddProvider: enabled, with or without a key; its dialog opens.
AddProvider ==
    /\ Changes
    /\ \E key \in BOOLEAN, ms \in SUBSET Models \ {{}} :
         /\ offered' = [p \in DOMAIN offered \cup {NewProvider} |->
                         IF p = NewProvider THEN [enabled |-> TRUE, key |-> key, models |-> ms] ELSE offered[p]]
         /\ bare' = IF key THEN bare ELSE bare \cup {NewProvider}
    /\ editing' = NewProvider /\ status' = "idle" /\ about' = 0
    /\ UNCHANGED <<default, dangling, tries, timers, strayed>>

\* Variant for a mutation check: the default stays with the provider.
DefaultStays(rest) == {default}

\* The defaults there may be when the default's provider goes: the first
\* enabled provider's first model, which the model does not tell from its others.
DefaultAmong(rest) ==
    LET on == {p \in DOMAIN rest : rest[p].enabled} IN
    IF on = {} THEN {default}
    ELSE LET first == CHOOSE p \in on : \A q \in on : p <= q IN
         IF rest[first].models = {} THEN {<<first, "none">>} ELSE {first} \X rest[first].models

\* handleDeleteProvider.
DeleteProvider ==
    /\ Changes
    /\ \E p \in DOMAIN offered \ BuiltIn :
         LET rest == [q \in DOMAIN offered \ {p} |-> offered[q]] IN
         /\ offered' = rest
         /\ default' \in IF default[1] = p THEN DefaultAmong(rest) ELSE {default}
         /\ dangling' = (dangling \/ (default[1] = p /\ \A q \in DOMAIN rest : ~rest[q].enabled))
         /\ editing' = IF editing = p THEN 0 ELSE editing
         /\ IF editing = p THEN status' = "idle" /\ about' = 0 ELSE UNCHANGED <<status, about>>
    /\ UNCHANGED <<bare, tries, timers, strayed>>

\* The default is picked among the models of enabled providers with a key.
PickDefault ==
    /\ Changes
    /\ \E p \in DOMAIN offered : offered[p].enabled /\ offered[p].key /\ \E m \in offered[p].models : default' = <<p, m>>
    /\ dangling' = FALSE
    /\ UNCHANGED <<offered, bare, dialogVars>>

-----------------------------------------------------------------------------
(* The dialog.                                                             *)

\* Variant for a mutation check: the status stays when the dialog changes.
StatusLeft == status
AboutLeft == about

\* What the dialog shows when its provider changes.
StatusReset == "idle"

\* A card's button, and closing the dialog.
OpenDialog ==
    /\ \E p \in DOMAIN offered \cup {0} : p # editing /\ (editing = 0 \/ p = 0) /\ editing' = p
    /\ status' = StatusReset /\ about' = IF StatusReset = "idle" THEN 0 ELSE about
    /\ UNCHANGED <<listVars, tries, timers, strayed>>

\* handleEditDetectConnection: without a key or a model it fails at once, and
\* that is cleared after three seconds.
TryConnection ==
    /\ Changes /\ editing # 0 /\ status # "loading"
    /\ \/ /\ ~offered[editing].key \/ offered[editing].models = {}
          /\ status' = "error" /\ timers' = timers + 1 /\ UNCHANGED tries
       \/ /\ offered[editing].key /\ offered[editing].models # {}
          /\ status' = "loading" /\ tries' = tries \cup {<<editing, modelChanges'>>} /\ UNCHANGED timers
    /\ about' = editing
    /\ UNCHANGED <<offered, default, bare, dangling, editing, strayed>>

\* The answer, for whichever provider the dialog has by now.
TryAnswered ==
    /\ \E x \in tries : /\ tries' = tries \ {x} /\ about' = x[1]
                        /\ strayed' = (strayed \/ editing # x[1] \/ status # "loading" \/ tries' # {})
    /\ status' \in {"success", "error"} /\ timers' = timers + 1
    /\ UNCHANGED <<listVars, editing>>

\* A timer clears the status, whatever it is by now.
StatusCleared ==
    /\ timers > 0 /\ timers' = timers - 1 /\ status' = "idle" /\ about' = 0
    /\ UNCHANGED <<listVars, editing, tries, strayed>>

ModelsNext ==
    \/ EditKey \/ ToggleProvider \/ EditModels \/ AddProvider \/ DeleteProvider \/ PickDefault
    \/ OpenDialog \/ TryConnection \/ TryAnswered \/ StatusCleared

ModelsSpec == ModelsInit /\ [][ModelsNext]_modelVars

\* getModelConfig: what a run is asked with, "none" if the default has no key.
ModelConfig == IF default[1] \in DOMAIN offered /\ offered[default[1]].key THEN default ELSE NoDefault
-----------------------------------------------------------------------------
(* Properties.                                                             *)

\* An enabled provider has a key, over every order of typing, removing,
\* switching, adding and deleting, unless it was added without one.
EnabledHaveKeys == \A p \in DOMAIN offered : offered[p].enabled => offered[p].key \/ p \in bare

\* A run is asked with a model of a listed provider, and the default is one,
\* until its provider is deleted with no other enabled or its model removed.
DefaultIsListed ==
    /\ ~dangling /\ default[1] # 0 => default[1] \in DOMAIN offered
    /\ ~dangling /\ ModelConfig # NoDefault /\ default[2] # "none" => default[2] \in offered[default[1]].models

\* A try's outcome is shown for the provider that was tried, until an answer
\* comes when the dialog has changed.
TriesAreShownOwn == status # "idle" => strayed \/ about = editing
=============================================================================
