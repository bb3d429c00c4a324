------------------------------- MODULE ModelChoice -------------------------------
(***************************************************************************)
(* The model of the thread on the screen (currentModel and the thread's    *)
(* metadata) and the providers' keys: ModelSwitcher, ApiKeyDialog, the     *)
(* store's loadModels, loadProviders, setApiKey and deleteApiKey, and the  *)
(* server's api/models.py.                                                 *)
(*                                                                         *)
(* A choice is shown at once and saved by a read and a write of the        *)
(* metadata; opening the thread shows what the metadata say. Nothing       *)
(* orders these calls.                                                     *)
(***************************************************************************)
EXTENDS ClientCalls, FiniteSets

CONSTANTS
    Models,         \* model ids
    Providers,      \* provider ids
    ProviderOf,     \* a function on Models
    DefaultModel,   \* the server's default model
    ModelBound      \* bounds on calls and clicks

ASSUME ModelAssumption ==
    /\ ProviderOf \in [Models -> Providers] /\ DefaultModel \in Models
    /\ Nothing \notin Models \cup Providers /\ ModelBound \in Bounds

VARIABLES
    saved,          \* metadata.model of the thread, at the server
    keys,           \* providers with a key, at the server
    currentModel,   \* of the thread's state
    withKey,        \* the store's providers with hasApiKey
    usable,         \* the providers of the store's available models
    dialog,         \* the provider whose key is being edited, and hasExistingKey
    saving, removing,  \* the dialog's saving and deleting: a provider
    unsure          \* auxiliary: which of the three shown need not be the server's

modelVars == <<saved, keys, currentModel, withKey, usable, dialog, saving, removing, unsure>>

serverVars == <<saved, keys>>

ModelCalls == {"details", "default", "get", "put"}

\* setApiKey and deleteApiKey await one call after the other: the key, then the
\* providers, then the models; so do the calls about the model of the thread.
ChainOf(r) == IF r.kind \in {"key", "nokey"} THEN r.kind
              ELSE IF r.kind \in ModelCalls THEN "model" ELSE r.id

Lists(chain) == {Request("providers", chain, Nothing), Request("models", chain, Nothing)}

\* The thread is opened: its details are read, and the switcher loads its lists.
ModelRequests == {Request("details", Nothing, Nothing)} \cup Lists("mount")

ModelInit ==
    /\ saved \in Models \cup {Nothing} /\ keys \in SUBSET Providers
    /\ currentModel = Nothing /\ withKey = {} /\ usable = {}
    /\ dialog = Nothing /\ saving = Nothing /\ removing = Nothing
    /\ unsure = {"providers", "models"}

-----------------------------------------------------------------------------
\* The server.

ServeRead(r) ==
    /\ r \in DOMAIN asked /\ r.kind \in {"details", "default", "get", "providers", "models"}
    /\ Reply(r, TRUE, TRUE, CASE r.kind = "default" -> DefaultModel
                              [] r.kind \in {"details", "get"} -> saved
                              [] OTHER -> keys)
    /\ UNCHANGED modelVars

ServeChoice(r) ==
    /\ r \in DOMAIN asked /\ r.kind = "put"
    /\ saved' = r.arg
    /\ Reply(r, TRUE, TRUE, Nothing)
    /\ UNCHANGED <<keys, currentModel, withKey, usable, dialog, saving, removing, unsure>>

\* set_api_key and delete_api_key, which deletes no key twice.
ServeKey(r) ==
    /\ r \in DOMAIN asked /\ r.kind \in {"key", "nokey"}
    /\ keys' = IF r.kind = "key" THEN keys \cup {r.id} ELSE keys \ {r.id}
    /\ Reply(r, TRUE, TRUE, Nothing)
    /\ UNCHANGED <<saved, currentModel, withKey, usable, dialog, saving, removing, unsure>>

\* Not an administrator, or the network fails.
RefuseCall(r) ==
    /\ r \in DOMAIN asked
    /\ Reply(r, FALSE, TRUE, Nothing)
    /\ UNCHANGED modelVars

-----------------------------------------------------------------------------
\* Answers.

\* loadThreadHistory: a thread without a model gets the default one; the state
\* is set without being saved again.
DetailsCame(i) ==
    LET a == answers[i]
    IN  /\ a.ok /\ a.to.kind \in {"details", "default"}
        /\ IF a.is = Nothing
           THEN /\ Receive(ModelBound, i, {Request("default", Nothing, Nothing)})
                /\ UNCHANGED currentModel
           ELSE /\ Receive(ModelBound, i, {})
                /\ currentModel' = a.is
        /\ UNCHANGED <<serverVars, withKey, usable, dialog, saving, removing, unsure>>

\* Mutant: the model is spread under the metadata that were read.
GotUnderMetadata(i) ==
    /\ answers[i].ok /\ answers[i].to.kind = "get"
    /\ Receive(ModelBound, i, {Request("put", Nothing, IF answers[i].is = Nothing
                                                      THEN answers[i].to.arg ELSE answers[i].is)})
    /\ UNCHANGED modelVars

\* setCurrentModel: the metadata with the model in them are written back.
GotForChoice(i) ==
    /\ answers[i].ok /\ answers[i].to.kind = "get"
    /\ Receive(ModelBound, i, {Request("put", Nothing, answers[i].to.arg)})
    /\ UNCHANGED modelVars

ChoiceSaved(i) ==
    /\ answers[i].ok /\ answers[i].to.kind = "put"
    /\ Receive(ModelBound, i, {})
    /\ UNCHANGED modelVars

KeySaved(i) ==
    /\ answers[i].ok /\ answers[i].to.kind \in {"key", "nokey"}
    /\ Receive(ModelBound, i, {Request("providers", answers[i].to.kind, Nothing)})
    /\ UNCHANGED modelVars

\* In setApiKey and deleteApiKey the models are loaded after the providers.
AfterProviders(chain) ==
    IF chain = "mount" THEN {} ELSE {Request("models", chain, Nothing)}

ProvidersCame(i) ==
    LET a == answers[i]
    IN  /\ a.ok /\ a.to.kind = "providers"
        /\ withKey' = a.is
        /\ unsure' = IF a.overtaken THEN unsure \cup {"providers"} ELSE unsure \ {"providers"}
        /\ Receive(ModelBound, i, AfterProviders(a.to.id))
        /\ UNCHANGED <<serverVars, currentModel, usable, dialog, saving, removing>>

\* ... and then the dialog closes, whichever provider it is open for by now.
ModelsCame(i) ==
    LET a == answers[i]
    IN  /\ a.ok /\ a.to.kind = "models"
        /\ usable' = a.is
        /\ unsure' = IF a.overtaken THEN unsure \cup {"models"} ELSE unsure \ {"models"}
        /\ saving' = IF a.to.id = "key" THEN Nothing ELSE saving
        /\ removing' = IF a.to.id = "nokey" THEN Nothing ELSE removing
        /\ dialog' = IF a.to.id = "mount" THEN dialog ELSE Nothing
        /\ Receive(ModelBound, i, IF a.to.id = "mount" THEN {} ELSE Lists("mount"))
        /\ UNCHANGED <<serverVars, currentModel, withKey>>

\* An error ends the chain; the lists stay as they are. A good answer may be lost.
CallFailed(i) ==
    LET r == answers[i].to
        chain == ChainOf(r)
    IN  /\ answers[i].ok => r.kind \in Changes
        /\ saving' = IF chain = "key" THEN Nothing ELSE saving
        /\ removing' = IF chain = "nokey" THEN Nothing ELSE removing
        /\ unsure' = unsure \cup (IF chain = "model" THEN {"model"}
                                 ELSE {"providers", "models"})
        /\ Receive(ModelBound, i, {})
        /\ UNCHANGED <<serverVars, currentModel, withKey, usable, dialog>>

-----------------------------------------------------------------------------
\* The user.

\* A model that is available, of a provider that has a key.
ChooseModel(m) ==
    /\ ProviderOf[m] \in withKey \cap usable
    /\ currentModel' = m
    /\ unsure' = IF \E r \in Requests : r.kind \in ModelCalls THEN unsure \cup {"model"} ELSE unsure \ {"model"}
    /\ Ask(ModelBound, {Request("get", Nothing, m)})
    /\ UNCHANGED <<serverVars, withKey, usable, dialog, saving, removing>>

OpenDialog(p) ==
    /\ dialog = Nothing
    /\ dialog' = [provider |-> p, had |-> p \in withKey]
    /\ UNCHANGED <<serverVars, currentModel, withKey, usable, saving, removing, unsure, callVars>>

\* Cancel, also while a key is being saved.
CloseDialog ==
    /\ dialog # Nothing
    /\ dialog' = Nothing
    /\ Ask(ModelBound, Lists("mount"))
    /\ UNCHANGED <<serverVars, currentModel, withKey, usable, saving, removing, unsure>>

\* Save is enabled while a key is being removed.
SaveKey ==
    /\ dialog # Nothing /\ saving = Nothing
    /\ saving' = dialog.provider
    /\ Ask(ModelBound, {Request("key", dialog.provider, Nothing)})
    /\ UNCHANGED <<serverVars, currentModel, withKey, usable, dialog, removing, unsure>>

RemoveKey ==
    /\ dialog # Nothing /\ dialog.had /\ saving = Nothing /\ removing = Nothing
    /\ removing' = dialog.provider
    /\ Ask(ModelBound, {Request("nokey", dialog.provider, Nothing)})
    /\ UNCHANGED <<serverVars, currentModel, withKey, usable, dialog, saving, unsure>>

ModelNext ==
    \/ \E r \in DOMAIN asked : ServeRead(r) \/ ServeChoice(r) \/ ServeKey(r) \/ RefuseCall(r)
    \/ \E i \in DOMAIN answers : \/ DetailsCame(i) \/ GotForChoice(i) \/ ChoiceSaved(i)
                                 \/ KeySaved(i) \/ ProvidersCame(i) \/ ModelsCame(i)
                                 \/ CallFailed(i)
    \/ \E m \in Models : ChooseModel(m)
    \/ \E p \in Providers : OpenDialog(p)
    \/ CloseDialog \/ SaveKey \/ RemoveKey

-----------------------------------------------------------------------------
ModelTypeOK ==
    /\ {saved, currentModel} \subseteq Models \cup {Nothing}
    /\ keys \subseteq Providers /\ withKey \subseteq Providers /\ usable \subseteq Providers
    /\ {saving, removing} \subseteq Providers \cup {Nothing}
    /\ dialog \in [provider : Providers, had : BOOLEAN] \cup {Nothing}
    /\ unsure \subseteq {"model", "providers", "models"}

\* The dialog is saving or removing exactly while its call, or one of the loads
\* behind it, is under way. Once nothing is under way, the providers and the
\* models offered are those with a key, although each is loaded up to twice at
\* a time and keys are saved and removed meanwhile, and the model on the screen
\* is the saved one, or the default: unless a call failed or was overtaken by a
\* later one, or the model was chosen while another choice or the thread's
\* details were under way.
ModelIsTheServers ==
    /\ saving # Nothing <=> \E r \in Requests : ChainOf(r) = "key"
    /\ removing # Nothing <=> \E r \in Requests : ChainOf(r) = "nokey"
    /\ Quiet =>
        /\ "providers" \notin unsure => withKey = keys
        /\ "models" \notin unsure => usable = keys
        /\ "model" \notin unsure => currentModel = IF saved = Nothing THEN DefaultModel ELSE saved
=============================================================================
