---------------------------- MODULE WebSettings ----------------------------
(***************************************************************************)
(* Which provider and model answer: the Settings page (pages/Settings.tsx) *)
(* and the status bar with its model picker (App.tsx) against the server's *)
(* active provider and model and its configuration file.                   *)
(*                                                                         *)
(* PUT /api/config changes the running server first and then the file,     *)
(* which it reads, changes and writes in place without a lock, field by    *)
(* field; the key of a provider is registered by a request of its own      *)
(* before it, and the commands of the projects rewrite the same file.      *)
(* settingsRaces is a ghost: the interleavings met that the client does    *)
(* not guard against.                                                      *)
(***************************************************************************)
EXTENDS Integers, Sequences, SequencesExt

CONSTANTS
  Provider,
  Local,        \* the provider that needs no key
  ModelsOf,     \* provider -> the models it offers
  Preset,       \* provider -> the model Quick Start takes
  None,         \* nothing chosen, typed, asked for or loaded
  Unread,       \* a GET of the configuration that the server has not read
  MaxPolls      \* bound: the timer asks for no status when so many are under way

ASSUME SettingsAssumption ==
  /\ Local \in Provider /\ MaxPolls \in Nat \ {0}
  /\ None \notin Provider /\ Unread # None
  /\ \A p \in Provider : Preset[p] \in ModelsOf[p] /\ None \notin ModelsOf[p]

VARIABLES
  live,           \* [provider, model] of the running server
  cfg,            \* [provider, model, keys], the configuration file
  status,         \* the live choice as the status bar shows it, None if offline
  polls,          \* GETs of the bar, in the order they were begun
  open,           \* Settings is mounted
  fetched,        \* its GET of the configuration: None once it is answered
  header,         \* config: the choice it shows as current
  sel,            \* [provider, model, key]: selProvider, selModel, and whose key was typed
  requests,       \* PUT and POST in flight
  settingsRaces,  \* ghost
  settingsBudget  \* bounds of a run

settingsVars == <<live, cfg, status, polls, open, fetched, header, sel, requests, settingsRaces,
                  settingsBudget>>

SettingsSpend(what) ==
  settingsBudget[what] > 0 /\ settingsBudget' = [settingsBudget EXCEPT ![what] = @ - 1]
Met(name, cond) == IF cond THEN {name} ELSE {}

Choice(p, m) == [provider |-> p, model |-> m]
Unselected == [provider |-> None, model |-> None, key |-> None]
Persisted == Choice(cfg.provider, cfg.model)

\* The key typed for one provider is still in its field under another.
KeyStays(p) == Met("keyKept", sel.key # None /\ sel.key # p)

-----------------------------------------------------------------------------
(* The status bar *)

Poll ==
  /\ Len(polls) < MaxPolls
  /\ polls' = Append(polls, Unread)
  /\ UNCHANGED <<live, cfg, status, open, fetched, header, sel, requests, settingsRaces,
                 settingsBudget>>

ReadStatus(i) ==
  /\ polls[i] = Unread
  /\ polls' = [polls EXCEPT ![i] = live]
  /\ UNCHANGED <<live, cfg, status, open, fetched, header, sel, requests, settingsRaces,
                 settingsBudget>>

StatusAnswered(i) ==
  /\ polls[i] # Unread
  /\ status' = polls[i]
  /\ polls' = RemoveAt(polls, i)
  /\ UNCHANGED <<live, cfg, open, fetched, header, sel, requests, settingsRaces, settingsBudget>>

StatusFails == \E i \in DOMAIN polls :
  /\ polls[i] = Unread /\ SettingsSpend("fails")
  /\ status' = None
  /\ polls' = RemoveAt(polls, i)
  /\ UNCHANGED <<live, cfg, open, fetched, header, sel, requests, settingsRaces>>

-----------------------------------------------------------------------------
(* The Settings page *)

\* Mounted afresh, or unmounted: what its requests bring later is lost, and the
\* next GET of the configuration may be read before them.
Opened(now) ==
  /\ open' = now
  /\ fetched' = IF now THEN Unread ELSE None
  /\ header' = None
  /\ sel' = Unselected
  /\ requests' = {[r EXCEPT !.mine = FALSE] : r \in requests}
  /\ settingsRaces' = settingsRaces \cup Met("overlapped", now /\ requests # {})
  /\ UNCHANGED <<live, cfg, status, polls>>

FetchRead ==
  /\ fetched = Unread
  /\ fetched' = live
  /\ UNCHANGED <<live, cfg, status, polls, open, header, sel, requests, settingsRaces,
                 settingsBudget>>

\* The answer replaces what was selected meanwhile, but not the key.
FetchAnswered ==
  /\ fetched \notin {None, Unread}
  /\ fetched' = None
  /\ header' = fetched
  /\ sel' = [sel EXCEPT !.provider = fetched.provider, !.model = fetched.model]
  /\ settingsRaces' = settingsRaces \cup KeyStays(fetched.provider)
  /\ UNCHANGED <<live, cfg, status, polls, open, requests, settingsBudget>>

\* A button of Quick Start, and the two selects under Advanced Settings.
Selected(p, m) ==
  /\ open /\ SettingsSpend("selects")
  /\ sel' = [sel EXCEPT !.provider = p, !.model = m]
  /\ settingsRaces' = settingsRaces \cup KeyStays(p)
  /\ UNCHANGED <<live, cfg, status, polls, open, fetched, header, requests>>

QuickCloud == \E p \in Provider \ {Local} : Selected(p, Preset[p])
SelectProvider == \E p \in Provider : Selected(p, None)
SelectModel == sel.provider # None /\ \E m \in ModelsOf[sel.provider] : Selected(sel.provider, m)

TypeKey ==
  /\ open /\ sel.provider \notin {None, Local} /\ SettingsSpend("keys")
  /\ sel' = [sel EXCEPT !.key = sel.provider]
  /\ UNCHANGED <<live, cfg, status, polls, open, fetched, header, requests, settingsRaces>>

-----------------------------------------------------------------------------
(* Requests *)

Request(op, by, choice, key) ==
  [op |-> op, by |-> by, choice |-> choice, key |-> key, at |-> "sent", mine |-> TRUE, cfg |-> cfg]

Ask(r) ==
  /\ SettingsSpend("requests")
  /\ requests' = requests \cup {r}
  /\ settingsRaces' = settingsRaces
       \cup Met("overlapped", requests # {} \/ fetched # None)
       \cup Met("unheard", r.by \in {"apply", "picker"})
       \cup Met("noModel", r.choice.model = None /\ r.choice.provider # None)
  /\ UNCHANGED <<live, cfg, status, polls, open, fetched, header, sel>>

QuickLocal == open /\ Ask(Request("put", "quick", Choice(Local, Preset[Local]), None))

\* "Start with ...": a key that was typed is registered first.
StartWithKey ==
  /\ open /\ sel.provider \notin {None, Local} /\ sel.model # None
  /\ LET choice == Choice(sel.provider, sel.model)
     IN  Ask(Request(IF sel.key = None THEN "put" ELSE "register", "key", choice, sel.key))

ApplyAdvanced == open /\ Ask(Request("put", "apply", Choice(sel.provider, sel.model), None))
SetLanguage == open /\ Ask(Request("put", "language", Choice(None, None), None))
PickModel == \E p \in Provider : \E m \in ModelsOf[p] :
  Ask(Request("put", "picker", Choice(p, m), None))
\* The project picker of the bar, the panel's projects, the source of the skills:
\* they change neither provider nor model, and rewrite the file (see WebProjects).
RewriteFile == Ask(Request("put", "project", Choice(None, None), None))

\* The server changes its provider only together with the model.
Taken(r) ==
  IF r.op = "put" /\ r.choice.provider # None /\ r.choice.model # None THEN r.choice ELSE live

LoadCfg == \E r \in requests :
  /\ r.at = "sent"
  /\ live' = Taken(r)
  /\ requests' = (requests \ {r}) \cup {[r EXCEPT !.at = "loaded", !.cfg = cfg]}
  /\ UNCHANGED <<cfg, status, polls, open, fetched, header, sel, settingsRaces, settingsBudget>>

\* Mutant: the file does not get the model.
WithProviderOnly(r) ==
  IF r.op = "register" THEN [r.cfg EXCEPT !.keys[r.choice.provider] = r.key]
  ELSE [r.cfg EXCEPT !.provider = IF r.choice.provider = None THEN @ ELSE r.choice.provider]

\* The file gets each field that is not empty.
WithRequest(r) ==
  IF r.op = "register" THEN [r.cfg EXCEPT !.keys[r.choice.provider] = r.key]
  ELSE [r.cfg EXCEPT !.provider = IF r.choice.provider = None THEN @ ELSE r.choice.provider,
                     !.model = IF r.choice.model = None THEN @ ELSE r.choice.model]

\* What Load makes of a file that is missing, empty or no JSON.
DefaultCfg == [provider |-> None, model |-> None, keys |-> [p \in Provider |-> None]]

\* config.Save rewrites the file in place: first it is cut to nothing.
TruncateCfg == \E r \in requests :
  /\ r.at = "loaded"
  /\ cfg' = DefaultCfg
  /\ requests' = (requests \ {r}) \cup {[r EXCEPT !.at = "writing"]}
  /\ UNCHANGED <<live, status, polls, open, fetched, header, sel, settingsRaces, settingsBudget>>

\* Over a longer text that another handler wrote meanwhile, the rest of it
\* stays and the file is no JSON.
WriteCfg == \E r \in requests :
  /\ r.at = "writing"
  /\ cfg' = WithRequest(r) \/ (cfg # DefaultCfg /\ cfg' = DefaultCfg)
  /\ requests' = (requests \ {r}) \cup {[r EXCEPT !.at = "done"]}
  /\ UNCHANGED <<live, status, polls, open, fetched, header, sel, settingsRaces, settingsBudget>>

\* The file cannot be opened, or the disk is full once it is cut: the error is
\* ignored, and the request answered as if it were saved.
SaveCfgFails == \E r \in requests :
  /\ r.at \in {"loaded", "writing"} /\ SettingsSpend("fails")
  /\ requests' = (requests \ {r}) \cup {[r EXCEPT !.at = "done"]}
  /\ settingsRaces' = settingsRaces \cup {"unsaved"}
  /\ UNCHANGED <<live, cfg, status, polls, open, fetched, header, sel>>

\* After the key, its PUT, with the selection of the click.
KeyAnswered == \E r \in requests :
  /\ r.at = "done" /\ r.op = "register"
  /\ requests' = (requests \ {r}) \cup
       {[Request("put", "key", r.choice, None) EXCEPT !.mine = r.mine]}
  /\ UNCHANGED <<live, cfg, status, polls, open, fetched, header, sel, settingsRaces,
                 settingsBudget>>

\* Quick Start and Start show the choice as current; Apply does not.
PutAnswered == \E r \in requests :
  LET shows == r.mine /\ r.by \in {"quick", "key"} IN
  /\ r.at = "done" /\ r.op = "put"
  /\ requests' = requests \ {r}
  /\ header' = IF shows /\ header # None THEN r.choice ELSE header
  /\ sel' = IF r.mine /\ r.by = "quick"
            THEN [sel EXCEPT !.provider = r.choice.provider, !.model = r.choice.model] ELSE sel
  /\ polls' = IF r.by = "picker" THEN Append(polls, Unread) ELSE polls
  /\ settingsRaces' = settingsRaces
       \cup IF r.mine /\ r.by = "quick" THEN KeyStays(r.choice.provider) ELSE {}
  /\ UNCHANGED <<live, cfg, status, open, fetched, settingsBudget>>

\* fetchJSON throws, nobody catches it, and what was to follow does not.
RequestFails == \E r \in requests :
  /\ r.at \in {"sent", "done"} /\ SettingsSpend("fails")
  /\ requests' = requests \ {r}
  /\ settingsRaces' = settingsRaces \cup {"failed"}
  /\ UNCHANGED <<live, cfg, status, polls, open, fetched, header, sel>>

\* A restarted server takes its provider and model from the file; if one is
\* missing there, it asks for both and saves them.  What it had not answered is
\* lost; a file it was writing stays cut.
RestartServer ==
  /\ SettingsSpend("restarts")
  /\ requests' \in SUBSET {r \in requests : r.at = "done"}
  /\ IF None \in {cfg.provider, cfg.model}
     THEN \E p \in Provider : \E m \in ModelsOf[p] :
            live' = Choice(p, m) /\ cfg' = [cfg EXCEPT !.provider = p, !.model = m]
     ELSE live' = Persisted /\ UNCHANGED cfg
  /\ settingsRaces' = settingsRaces \cup Met("failed", requests' # requests)
                                    \cup Met("unsaved", \E r \in requests : r.at = "writing")
  /\ UNCHANGED <<status, polls, open, fetched, header, sel>>

-----------------------------------------------------------------------------
SettingsInit ==
  /\ live = Choice(Local, Preset[Local])
  /\ cfg = [provider |-> live.provider, model |-> live.model, keys |-> [p \in Provider |-> None]]
  /\ status = live /\ polls = <<>>
  /\ open = FALSE /\ fetched = None /\ header = None /\ sel = Unselected
  /\ requests = {} /\ settingsRaces = {}

SettingsNext ==
  \/ Poll \/ StatusFails \/ \E i \in DOMAIN polls : ReadStatus(i) \/ StatusAnswered(i)
  \/ FetchRead \/ FetchAnswered
  \/ QuickCloud \/ SelectProvider \/ SelectModel \/ TypeKey
  \/ QuickLocal \/ StartWithKey \/ ApplyAdvanced \/ SetLanguage \/ PickModel \/ RewriteFile
  \/ LoadCfg \/ TruncateCfg \/ WriteCfg \/ SaveCfgFails
  \/ KeyAnswered \/ PutAnswered \/ RequestFails \/ RestartServer

\* The timer of the bar goes on firing and the server goes on answering.
SettingsFairness ==
  /\ WF_settingsVars(Poll)
  /\ WF_settingsVars(polls # <<>> /\ ReadStatus(1))
  /\ WF_settingsVars(polls # <<>> /\ StatusAnswered(1))
=============================================================================
