-------------------------- MODULE WebPanels_proofs --------------------------
(***************************************************************************)
(* What holds of the data pages and the settings for any number of         *)
(* providers, models, visits, loads, writes and requests: which            *)
(* interleavings keep a page at rest from showing its own writes and its   *)
(* runs, a restart from going on with the model that was chosen, Settings  *)
(* from showing it, and a key from its provider.                           *)
(***************************************************************************)
EXTENDS WebPanels, SequenceTheorems, TLAPS

-----------------------------------------------------------------------------
(* The invariant of the settings *)

Model == (UNION {ModelsOf[p] : p \in Provider}) \cup {None}
OptProvider == Provider \cup {None}
Lives == [provider : Provider, model : Model \ {None}]
ChoiceRecords == [provider : OptProvider, model : Model]
Files == [provider : OptProvider, model : Model, keys : [Provider -> OptProvider]]
Selections == [provider : OptProvider, model : Model, key : OptProvider]
Places == {"sent", "loaded", "writing", "done"}
Requests ==
  [op : {"put", "register"}, by : {"quick", "key", "apply", "language", "picker", "project"},
   choice : ChoiceRecords, key : OptProvider, at : Places, mine : BOOLEAN, cfg : Files]

\* A choice without a provider has no model either.
Sound(c) == c.provider = None => c.model = None
Wellformed(r) == Sound(r.choice) /\ (r.op = "register" => r.choice.provider # None)

TypeOK ==
  /\ live \in Lives /\ cfg \in Files
  /\ sel \in Selections /\ Sound(sel)
  /\ fetched \in Lives \cup {None, Unread}
  /\ requests \subseteq Requests
  /\ \A r \in requests : Wellformed(r)

\* Where request r stands between the running server and the file.
Agrees(r) ==
  /\ r.at \in {"sent", "done"} => live = Persisted
  /\ r.at \in {"loaded", "writing"} =>
       Choice(WithRequest(r).provider, WithRequest(r).model) = live
  /\ r.at = "loaded" => r.cfg = cfg
  /\ r.at = "writing" => cfg = DefaultCfg
  /\ r.choice.model = None => r.choice.provider = None

RestartInv ==
  settingsRaces \cap {"overlapped", "noModel", "unsaved"} = {} =>
    /\ \A r, s \in requests : r = s
    /\ requests = {} => live = Persisted
    /\ \A r \in requests : Agrees(r)

\* Those that change neither provider nor model.
Rewriters == {"language", "project"}

\* What the header says while request r is under way.
Shows(r) ==
  /\ r.by \in {"quick", "key"} \cup Rewriters
  /\ r.by \in Rewriters => r.op = "put" /\ r.choice.provider = None
  /\ r.by \notin Rewriters => r.choice.provider # None /\ r.choice.model # None
  /\ header # None =>
       /\ r.mine
       /\ IF r.at # "sent" /\ r.op = "put" /\ r.by \notin Rewriters
          THEN live = r.choice ELSE header = live

HeaderInv ==
  settingsRaces \cap {"overlapped", "unheard", "failed", "unsaved"} = {} =>
    /\ "noModel" \notin settingsRaces
    /\ fetched # None => requests = {}
    /\ fetched \in {None, Unread, live}
    /\ header # None /\ requests = {} => header = live
    /\ \A r \in requests : Shows(r)

OwnKeys(file) == \A p \in Provider : file.keys[p] \in {None, p}
KeysInv ==
  "keyKept" \notin settingsRaces =>
    /\ sel.key \in {None, sel.provider}
    /\ OwnKeys(cfg)
    /\ \A r \in requests : OwnKeys(r.cfg) /\ (r.op = "register" => r.key \in {None, r.choice.provider})

SettingsInv == TypeOK /\ RestartInv /\ HeaderInv /\ KeysInv

-----------------------------------------------------------------------------
(* Requests *)

\* Request n is r at place a, with a file and a page of its own.
Moved(n, r, a, file, mine) ==
  /\ n \in Requests
  /\ n.op = r.op /\ n.by = r.by /\ n.choice = r.choice /\ n.key = r.key
  /\ n.at = a /\ n.cfg = file /\ n.mine = mine

LEMMA RequestMoved ==
  ASSUME NEW r \in Requests, NEW a \in Places, NEW file \in Files
  PROVE  /\ \A n : n = [r EXCEPT !.at = a, !.cfg = file] => Moved(n, r, a, file, r.mine)
         /\ \A n : n = [r EXCEPT !.at = a] => Moved(n, r, a, r.cfg, r.mine)
         /\ \A n : n = [r EXCEPT !.mine = FALSE] => Moved(n, r, r.at, r.cfg, FALSE)
<1>1. /\ \A n : n = [r EXCEPT !.at = a, !.cfg = file] => Moved(n, r, a, file, r.mine)
      /\ \A n : n = [r EXCEPT !.at = a] => Moved(n, r, a, r.cfg, r.mine)
  BY DEF Requests, Moved
<1> DEFINE no == FALSE
<1>2. no \in BOOLEAN /\ no = FALSE
  OBVIOUS
<1> HIDE DEF no
<1>3. \A n : n = [r EXCEPT !.mine = no] => Moved(n, r, r.at, r.cfg, no)
  BY <1>2 DEF Requests, Moved
<1> QED  BY <1>1, <1>2, <1>3

\* A request as it is made.
Made(r, op, by, choice, key) ==
  /\ r \in Requests
  /\ r.op = op /\ r.by = by /\ r.choice = choice /\ r.key = key
  /\ r.at = "sent" /\ r.mine = TRUE /\ r.cfg = cfg

LEMMA RequestMade ==
  ASSUME NEW op \in {"put", "register"}, NEW choice \in ChoiceRecords, NEW key \in OptProvider,
         NEW by \in {"quick", "key", "apply", "language", "picker", "project"}, cfg \in Files
  PROVE  Made(Request(op, by, choice, key), op, by, choice, key)
<1> DEFINE a == "sent"
           r == Request(op, by, choice, key)
<1>1. a \in Places
  BY DEF Places
<1>2. r = [op |-> op, by |-> by, choice |-> choice, key |-> key, at |-> a, mine |-> TRUE, cfg |-> cfg]
  BY DEF Request
<1>3. r.at = "sent"
  BY <1>2
<1> HIDE DEF a, r
<1>4. Made(r, op, by, choice, key)
  BY <1>1, <1>2, <1>3 DEF Requests, Made
<1> QED  BY <1>4 DEF r

LEMMA ChoiceFields ==
  ASSUME NEW p, NEW m
  PROVE  Choice(p, m).provider = p /\ Choice(p, m).model = m
BY DEF Choice

LEMMA ChoiceType ==
  ASSUME NEW p \in OptProvider, NEW m \in Model
  PROVE  /\ Choice(p, m) \in ChoiceRecords
         /\ p # None /\ m # None => Choice(p, m) \in Lives
BY DEF Choice, ChoiceRecords, Lives, OptProvider

\* What a request makes of the file.
LEMMA WithRequestIs ==
  ASSUME NEW r \in Requests, Wellformed(r)
  PROVE  /\ WithRequest(r) \in Files
         /\ r.op = "register" =>
              /\ WithRequest(r).provider = r.cfg.provider /\ WithRequest(r).model = r.cfg.model
              /\ \A p \in Provider : WithRequest(r).keys[p] =
                   IF p = r.choice.provider THEN r.key ELSE r.cfg.keys[p]
         /\ r.op = "put" =>
              /\ WithRequest(r).provider =
                   IF r.choice.provider = None THEN r.cfg.provider ELSE r.choice.provider
              /\ WithRequest(r).model =
                   IF r.choice.model = None THEN r.cfg.model ELSE r.choice.model
              /\ WithRequest(r).keys = r.cfg.keys
<1>1. /\ r.cfg \in Files /\ r.key \in OptProvider /\ r.op \in {"put", "register"}
      /\ r.choice.provider \in OptProvider /\ r.choice.model \in Model
  BY DEF Requests, ChoiceRecords
<1>2. CASE r.op = "register"
  <2>1. r.choice.provider \in Provider
    BY <1>1, <1>2 DEF Wellformed, OptProvider
  <2>2. WithRequest(r) = [r.cfg EXCEPT !.keys[r.choice.provider] = r.key]
    BY <1>2 DEF WithRequest
  <2> QED  BY <1>1, <1>2, <2>1, <2>2 DEF Files
<1>3. CASE r.op = "put"
  <2> DEFINE p == IF r.choice.provider = None THEN r.cfg.provider ELSE r.choice.provider
             m == IF r.choice.model = None THEN r.cfg.model ELSE r.choice.model
  <2>1. p \in OptProvider /\ m \in Model
    BY <1>1 DEF Files
  <2>2. WithRequest(r) = [r.cfg EXCEPT !.provider = p, !.model = m]
    BY <1>3 DEF WithRequest
  <2> QED  BY <1>1, <1>3, <2>1, <2>2 DEF Files
<1> QED  BY <1>1, <1>2, <1>3

-----------------------------------------------------------------------------
(* Reading and selecting *)

LEMMA SettingsSame ==
  ASSUME SettingsInv,
         UNCHANGED <<live, cfg, sel, fetched, header, requests, settingsRaces>>
  PROVE  SettingsInv'
BY DEF SettingsInv, TypeOK, RestartInv, HeaderInv, KeysInv, Agrees, Shows, Persisted

LEMMA FetchReadKeeps == SettingsInv /\ FetchRead => SettingsInv'
<1> SUFFICES ASSUME SettingsInv, FetchRead PROVE SettingsInv'
  OBVIOUS
<1>1. TypeOK' /\ RestartInv' /\ KeysInv'
  BY DEF SettingsInv, TypeOK, RestartInv, KeysInv, Agrees, Persisted, FetchRead
<1>2. fetched # None
  BY SettingsAssumption DEF FetchRead, SettingsAssumption
<1>3. HeaderInv'
  BY <1>2 DEF SettingsInv, HeaderInv, Shows, FetchRead
<1> QED  BY <1>1, <1>3 DEF SettingsInv

LEMMA FetchAnsweredKeeps == SettingsInv /\ FetchAnswered => SettingsInv'
<1> SUFFICES ASSUME SettingsInv, FetchAnswered PROVE SettingsInv'
  OBVIOUS
<1>1. fetched \in Lives
  BY DEF SettingsInv, TypeOK, FetchAnswered
<1>2. /\ sel' \in Selections /\ sel'.provider = fetched.provider /\ sel'.key = sel.key
      /\ fetched.provider \in Provider
  BY <1>1 DEF SettingsInv, TypeOK, FetchAnswered, Selections, Lives, OptProvider
<1>3. TypeOK'
  BY <1>2, SettingsAssumption DEF SettingsInv, TypeOK, FetchAnswered, SettingsAssumption, Sound
<1>4. RestartInv'
  BY DEF SettingsInv, RestartInv, FetchAnswered, Agrees, Persisted, KeyStays, Met
<1>5. HeaderInv'
  BY DEF SettingsInv, HeaderInv, Shows, FetchAnswered, KeyStays, Met
<1>6. KeysInv'
  BY <1>2 DEF SettingsInv, KeysInv, FetchAnswered, KeyStays, Met, OwnKeys
<1> QED  BY <1>3, <1>4, <1>5, <1>6 DEF SettingsInv

LEMMA SelectedKeeps ==
  ASSUME SettingsInv, NEW p \in Provider, NEW m \in Model, Selected(p, m)
  PROVE  SettingsInv'
<1>1. sel' \in Selections /\ sel'.provider = p /\ sel'.key = sel.key
  BY DEF SettingsInv, TypeOK, Selected, Selections, OptProvider
<1>2. TypeOK'
  BY <1>1, SettingsAssumption DEF SettingsInv, TypeOK, Selected, SettingsAssumption, Sound
<1>3. RestartInv'
  BY DEF SettingsInv, RestartInv, Selected, Agrees, Persisted, KeyStays, Met
<1>4. HeaderInv'
  BY DEF SettingsInv, HeaderInv, Shows, Selected, KeyStays, Met
<1>5. KeysInv'
  BY <1>1 DEF SettingsInv, KeysInv, Selected, KeyStays, Met, OwnKeys
<1> QED  BY <1>2, <1>3, <1>4, <1>5 DEF SettingsInv

LEMMA SelectKeeps == SettingsInv /\ (QuickCloud \/ SelectProvider \/ SelectModel) => SettingsInv'
<1> SUFFICES ASSUME SettingsInv, QuickCloud \/ SelectProvider \/ SelectModel PROVE SettingsInv'
  OBVIOUS
<1>1. CASE QuickCloud
  BY <1>1, SettingsAssumption, SelectedKeeps DEF QuickCloud, SettingsAssumption, Model
<1>2. CASE SelectProvider
  <2>1. None \in Model
    BY Zenon DEF Model
  <2>2. PICK p \in Provider : Selected(p, None)
    BY <1>2 DEF SelectProvider
  <2> QED  BY <2>1, <2>2, SelectedKeeps
<1>3. CASE SelectModel
  <2>1. sel.provider \in Provider
    BY <1>3 DEF SelectModel, SettingsInv, TypeOK, Selections, OptProvider
  <2> QED  BY <1>3, <2>1, SelectedKeeps DEF SelectModel, Model
<1> QED  BY <1>1, <1>2, <1>3

LEMMA TypeKeyKeeps == SettingsInv /\ TypeKey => SettingsInv'
<1> SUFFICES ASSUME SettingsInv, TypeKey PROVE SettingsInv'
  OBVIOUS
<1>1. /\ sel' \in Selections /\ sel'.provider = sel.provider /\ sel'.key = sel.provider
      /\ sel'.model = sel.model
  BY DEF SettingsInv, TypeOK, TypeKey, Selections
<1>2. TypeOK'
  BY <1>1 DEF SettingsInv, TypeOK, TypeKey, Sound
<1>3. RestartInv' /\ HeaderInv'
  BY DEF SettingsInv, RestartInv, HeaderInv, TypeKey, Agrees, Persisted, Shows
<1>4. KeysInv'
  BY <1>1 DEF SettingsInv, KeysInv, TypeKey, OwnKeys
<1> QED  BY <1>2, <1>3, <1>4 DEF SettingsInv
-----------------------------------------------------------------------------
(* Asking *)

LEMMA AskKeeps ==
  ASSUME SettingsInv, NEW r \in Requests, Ask(r), Wellformed(r),
         r.at = "sent", r.mine = TRUE, r.cfg = cfg,
         r.by \in Rewriters => r.op = "put" /\ r.choice.provider = None,
         r.by \in {"quick", "key"} => r.choice.provider # None /\ r.choice.model # None,
         "keyKept" \notin settingsRaces /\ r.op = "register" => r.key \in {None, r.choice.provider}
  PROVE  SettingsInv'
<1>1. /\ requests' = requests \cup {r}
      /\ UNCHANGED <<live, cfg, sel, fetched, header>>
  BY DEF Ask
<1>2. settingsRaces \subseteq settingsRaces'
  BY DEF Ask
<1>3. TypeOK'
  BY <1>1 DEF SettingsInv, TypeOK
<1>4. RestartInv'
  <2> SUFFICES ASSUME settingsRaces' \cap {"overlapped", "noModel", "unsaved"} = {}
               PROVE  RestartInv'
    BY DEF RestartInv
  <2>1. requests = {} /\ (r.choice.model = None => r.choice.provider = None)
    BY DEF Ask, Met
  <2>2. live = Persisted
    BY <1>2, <2>1 DEF SettingsInv, RestartInv
  <2> QED  BY <1>1, <2>1, <2>2 DEF RestartInv, Agrees, Persisted
<1>5. HeaderInv'
  <2> SUFFICES ASSUME settingsRaces' \cap {"overlapped", "unheard", "failed", "unsaved"} = {}
               PROVE  HeaderInv'
    BY DEF HeaderInv
  <2>1. requests = {} /\ fetched = None /\ r.by \notin {"apply", "picker"}
    BY DEF Ask, Met
  <2>2. r.by \in {"quick", "key"} \cup Rewriters
    BY <2>1 DEF Requests, Rewriters
  <2>3. "noModel" \notin settingsRaces /\ (header # None => header = live)
    BY <1>2, <2>1 DEF SettingsInv, HeaderInv
  <2>4. "noModel" \notin settingsRaces'
    BY <2>2, <2>3 DEF Ask, Met
  <2>5. Shows(r)'
    BY <1>1, <2>2, <2>3 DEF Shows
  <2> QED  BY <1>1, <2>1, <2>4, <2>5 DEF HeaderInv
<1>6. KeysInv'
  BY <1>1, <1>2 DEF SettingsInv, KeysInv, OwnKeys
<1> QED  BY <1>3, <1>4, <1>5, <1>6 DEF SettingsInv

LEMMA QuickLocalKeeps == SettingsInv /\ QuickLocal => SettingsInv'
<1> SUFFICES ASSUME SettingsInv, QuickLocal PROVE SettingsInv'
  OBVIOUS
<1> DEFINE choice == Choice(Local, Preset[Local])
           r == Request("put", "quick", choice, None)
<1>1. Local \in OptProvider /\ Preset[Local] \in Model /\ Local # None /\ Preset[Local] # None
  BY SettingsAssumption DEF SettingsAssumption, Model, OptProvider
<1>2. choice \in ChoiceRecords /\ choice.provider = Local /\ choice.model = Preset[Local]
  BY <1>1, ChoiceType, ChoiceFields
<1>a. cfg \in Files /\ None \in OptProvider
  BY Zenon DEF SettingsInv, TypeOK, OptProvider
<1> HIDE DEF choice
<1>3. Made(r, "put", "quick", choice, None)
  BY <1>2, <1>a, RequestMade
<1>4. Ask(r)
  BY DEF QuickLocal, choice
<1> HIDE DEF r
<1> QED  BY <1>1, <1>2, <1>3, <1>4, AskKeeps DEF Made, Wellformed, Sound, Rewriters

LEMMA StartWithKeyKeeps == SettingsInv /\ StartWithKey => SettingsInv'
<1> SUFFICES ASSUME SettingsInv, StartWithKey PROVE SettingsInv'
  OBVIOUS
<1> DEFINE choice == Choice(sel.provider, sel.model)
           op == IF sel.key = None THEN "put" ELSE "register"
           r == Request(op, "key", choice, sel.key)
<1>1. /\ sel.provider \in OptProvider /\ sel.model \in Model /\ sel.key \in OptProvider
      /\ sel.provider # None /\ sel.model # None
  BY DEF StartWithKey, SettingsInv, TypeOK, Selections
<1>2. choice \in ChoiceRecords /\ choice.provider = sel.provider /\ choice.model = sel.model
  BY <1>1, ChoiceType, ChoiceFields
<1>3. Ask(r)
  BY DEF StartWithKey
<1>4. op \in {"put", "register"}
  OBVIOUS
<1>a. cfg \in Files /\ None \in OptProvider
  BY Zenon DEF SettingsInv, TypeOK, OptProvider
<1> HIDE DEF choice, op
<1>5. Made(r, op, "key", choice, sel.key)
  BY <1>1, <1>2, <1>4, <1>a, RequestMade
<1>6. "keyKept" \notin settingsRaces => sel.key \in {None, sel.provider}
  BY DEF SettingsInv, KeysInv
<1> HIDE DEF r
<1> QED  BY <1>1, <1>2, <1>3, <1>5, <1>6, AskKeeps DEF Made, Wellformed, Sound, Rewriters

LEMMA PutKeeps ==
  ASSUME SettingsInv, NEW by \in {"apply", "language", "picker", "project"},
         NEW p \in OptProvider, NEW m \in Model, p = None => m = None,
         by \in Rewriters => p = None,
         Ask(Request("put", by, Choice(p, m), None))
  PROVE  SettingsInv'
<1> DEFINE choice == Choice(p, m)
           r == Request("put", by, choice, None)
<1>1. choice \in ChoiceRecords /\ choice.provider = p /\ choice.model = m
  BY ChoiceType, ChoiceFields
<1>a. cfg \in Files /\ None \in OptProvider
  BY Zenon DEF SettingsInv, TypeOK, OptProvider
<1>2. Ask(r)
  OBVIOUS
<1> HIDE DEF choice
<1>3. Made(r, "put", by, choice, None)
  BY <1>1, <1>a, RequestMade
<1> HIDE DEF r
<1> QED  BY <1>1, <1>2, <1>3, AskKeeps DEF Made, Wellformed, Sound

LEMMA OtherPutsKeep ==
  SettingsInv /\ (ApplyAdvanced \/ SetLanguage \/ PickModel \/ RewriteFile) => SettingsInv'
<1> SUFFICES ASSUME SettingsInv, ApplyAdvanced \/ SetLanguage \/ PickModel \/ RewriteFile
             PROVE  SettingsInv'
  OBVIOUS
<1>1. None \in Model /\ None \in OptProvider
  BY Zenon DEF Model, OptProvider
<1>2. CASE ApplyAdvanced
  <2>1. sel.provider \in OptProvider /\ sel.model \in Model /\ (sel.provider = None => sel.model = None)
    BY DEF SettingsInv, TypeOK, Selections, Sound
  <2> QED  BY <1>2, <2>1, PutKeeps DEF ApplyAdvanced, Rewriters
<1>3. CASE SetLanguage \/ RewriteFile
  BY <1>1, <1>3, PutKeeps DEF SetLanguage, RewriteFile
<1>4. CASE PickModel
  <2>1. PICK p \in Provider : \E m \in ModelsOf[p] : Ask(Request("put", "picker", Choice(p, m), None))
    BY <1>4 DEF PickModel
  <2>2. PICK m \in ModelsOf[p] : Ask(Request("put", "picker", Choice(p, m), None))
    BY <2>1
  <2>3. p \in OptProvider /\ m \in Model /\ p # None
    BY SettingsAssumption DEF SettingsAssumption, OptProvider, Model
  <2> QED  BY <2>2, <2>3, PutKeeps DEF Rewriters
<1> QED  BY <1>2, <1>3, <1>4

-----------------------------------------------------------------------------
(* The server's steps *)

\* One request is replaced by another.
LEMMA ReplaceRequest ==
  ASSUME TypeOK, NEW r \in requests, NEW n, n \in Requests, Wellformed(n),
         requests' = (requests \ {r}) \cup {n}
  PROVE  /\ requests' \subseteq Requests
         /\ \A q \in requests' : Wellformed(q)
         /\ requests' # {}
BY DEF TypeOK, Wellformed, Sound

LEMMA LoadKeeps == SettingsInv /\ LoadCfg => SettingsInv'
<1> SUFFICES ASSUME SettingsInv, LoadCfg PROVE SettingsInv'
  OBVIOUS
<1> DEFINE loaded == "loaded"
<1>1. PICK r \in requests :
        /\ r.at = "sent" /\ live' = Taken(r)
        /\ requests' = (requests \ {r}) \cup {[r EXCEPT !.at = loaded, !.cfg = cfg]}
        /\ UNCHANGED <<cfg, fetched, header, sel, settingsRaces>>
  BY DEF LoadCfg
<1>2. r \in Requests /\ Wellformed(r) /\ cfg \in Files /\ live \in Lives
  BY DEF SettingsInv, TypeOK
<1>3. loaded \in Places /\ loaded = "loaded"
  BY DEF Places
<1> HIDE DEF loaded
<1>4. PICK n : n = [r EXCEPT !.at = loaded, !.cfg = cfg]
  OBVIOUS
<1>a. Moved(n, r, "loaded", cfg, r.mine)
  BY <1>2, <1>3, <1>4, RequestMoved
<1>5. requests' = (requests \ {r}) \cup {n}
  BY <1>1, <1>4
<1>b. /\ n \in Requests /\ n.op = r.op /\ n.by = r.by /\ n.choice = r.choice /\ n.key = r.key
      /\ n.at = "loaded" /\ n.cfg = cfg /\ n.mine = r.mine
  BY <1>a DEF Moved
<1>6. Wellformed(n)
  BY <1>2, <1>b DEF Wellformed
<1>7. live' \in Lives
  BY <1>1, <1>2 DEF Taken, Requests, ChoiceRecords, Lives, OptProvider
<1>8. TypeOK'
  BY <1>1, <1>5, <1>6, <1>b, <1>7, ReplaceRequest DEF SettingsInv, TypeOK
<1>9. RestartInv'
  <2> SUFFICES ASSUME settingsRaces \cap {"overlapped", "noModel", "unsaved"} = {}
               PROVE  RestartInv'
    BY <1>1 DEF RestartInv
  <2>1. requests' = {n} /\ live = Persisted /\ (r.choice.model = None => r.choice.provider = None)
    BY <1>1, <1>5 DEF SettingsInv, RestartInv, Agrees
  <2>2. live.provider = cfg.provider /\ live.model = cfg.model
    BY <2>1 DEF Persisted, Choice
  <2>3. Choice(WithRequest(n).provider, WithRequest(n).model) = live'
    <3>1. live = Choice(cfg.provider, cfg.model)
      BY <2>1 DEF Persisted
    <3>2. CASE n.op = "register"
      <4>1. WithRequest(n).provider = cfg.provider /\ WithRequest(n).model = cfg.model
        BY <1>b, <1>6, <3>2, WithRequestIs
      <4>2. live' = live
        BY <1>1, <1>b, <3>2 DEF Taken
      <4> QED  BY <3>1, <4>1, <4>2
    <3>3. CASE n.op = "put" /\ r.choice.provider = None
      <4>1. r.choice.model = None
        BY <1>2, <3>3 DEF Wellformed, Sound
      <4>2. WithRequest(n).provider = cfg.provider /\ WithRequest(n).model = cfg.model
        BY <1>b, <1>6, <3>3, <4>1, WithRequestIs
      <4>3. live' = live
        BY <1>1, <3>3 DEF Taken
      <4> QED  BY <3>1, <4>2, <4>3
    <3>4. CASE n.op = "put" /\ r.choice.provider # None
      <4>1. WithRequest(n).provider = r.choice.provider /\ WithRequest(n).model = r.choice.model
        BY <1>b, <1>6, <2>1, <3>4, WithRequestIs
      <4>2. live' = r.choice
        BY <1>1, <1>b, <2>1, <3>4 DEF Taken
      <4>3. r.choice = Choice(r.choice.provider, r.choice.model)
        BY <1>2 DEF Requests, ChoiceRecords, Choice
      <4> QED  BY <4>1, <4>2, <4>3
    <3> QED  BY <1>b, <3>2, <3>3, <3>4 DEF Requests
  <2>4. Agrees(n)'
    BY <1>1, <1>b, <2>1, <2>3 DEF Agrees, WithRequest
  <2> QED  BY <2>1, <2>4 DEF RestartInv
<1>10. HeaderInv'
  <2> SUFFICES ASSUME settingsRaces \cap {"overlapped", "unheard", "failed", "unsaved"} = {}
               PROVE  HeaderInv'
    BY <1>1 DEF HeaderInv
  <2>1. /\ "noModel" \notin settingsRaces /\ fetched = None /\ Shows(r)
        /\ \A q \in requests : q = r
    BY DEF SettingsInv, HeaderInv, RestartInv
  <2>2. requests' = {n}
    BY <1>5, <2>1
  <2>3. header # None => header = live
    BY <1>1, <2>1 DEF Shows
  <2>4. CASE r.op = "put" /\ r.by \notin Rewriters
    <3>1. live' = r.choice
      BY <1>1, <2>1, <2>4 DEF Taken, Shows
    <3>2. Shows(n)'
      BY <1>1, <1>b, <2>1, <2>4, <3>1 DEF Shows
    <3> QED  BY <1>1, <2>1, <2>2, <3>2 DEF HeaderInv
  <2>5. CASE ~(r.op = "put" /\ r.by \notin Rewriters)
    <3>1. live' = live
      BY <1>1, <2>1, <2>5 DEF Taken, Shows
    <3>2. Shows(n)'
      BY <1>1, <1>b, <2>1, <2>3, <2>5, <3>1 DEF Shows
    <3> QED  BY <1>1, <2>1, <2>2, <3>2 DEF HeaderInv
  <2> QED  BY <2>4, <2>5
<1>11. KeysInv'
  BY <1>1, <1>b, <1>5 DEF SettingsInv, KeysInv, OwnKeys
<1> QED  BY <1>8, <1>9, <1>10, <1>11 DEF SettingsInv

LEMMA DefaultKeys == DefaultCfg \in Files /\ OwnKeys(DefaultCfg)
<1>1. None \in OptProvider /\ None \in Model
  BY Zenon DEF OptProvider, Model
<1> QED  BY <1>1 DEF DefaultCfg, Files, OwnKeys

\* A request moves on without a change of the running server.
LEMMA MovedKeeps ==
  ASSUME SettingsInv, NEW r \in requests, NEW n,
         NEW a \in Places, Moved(n, r, a, r.cfg, r.mine), r.at # "sent", a # "sent",
         requests' = (requests \ {r}) \cup {n},
         cfg' \in Files, "keyKept" \notin settingsRaces => OwnKeys(cfg'),
         settingsRaces \subseteq settingsRaces',
         settingsRaces' \cap {"overlapped", "noModel", "unsaved"} = {} /\ Agrees(r) => Agrees(n)',
         settingsRaces' \subseteq settingsRaces \cup {"unsaved"},
         UNCHANGED <<live, fetched, header, sel>>
  PROVE  SettingsInv'
<1>1. r \in Requests /\ Wellformed(r) /\ r.cfg \in Files
  BY DEF SettingsInv, TypeOK, Requests
<1>2. /\ n \in Requests /\ n.op = r.op /\ n.by = r.by /\ n.choice = r.choice /\ n.key = r.key
      /\ n.at = a /\ n.cfg = r.cfg /\ n.mine = r.mine
  BY DEF Moved
<1>3. TypeOK'
  <2>1. Wellformed(n)
    BY <1>1, <1>2 DEF Wellformed
  <2> QED  BY <1>2, <2>1, ReplaceRequest DEF SettingsInv, TypeOK
<1>4. RestartInv'
  <2> SUFFICES ASSUME settingsRaces' \cap {"overlapped", "noModel", "unsaved"} = {}
               PROVE  RestartInv'
    BY DEF RestartInv
  <2>1. requests' = {n} /\ Agrees(r)
    BY DEF SettingsInv, RestartInv
  <2> QED  BY <2>1 DEF RestartInv
<1>5. HeaderInv'
  <2> SUFFICES ASSUME settingsRaces' \cap {"overlapped", "unheard", "failed", "unsaved"} = {}
               PROVE  HeaderInv'
    BY DEF HeaderInv
  <2>1. /\ "noModel" \notin settingsRaces /\ fetched = None /\ Shows(r)
        /\ \A q \in requests : q = r
    BY DEF SettingsInv, HeaderInv, RestartInv
  <2>2. Shows(n)'
    BY <1>2, <2>1 DEF Shows
  <2> QED  BY <2>1, <2>2 DEF HeaderInv
<1>6. KeysInv'
  BY <1>2 DEF SettingsInv, KeysInv
<1> QED  BY <1>3, <1>4, <1>5, <1>6 DEF SettingsInv

LEMMA TruncateKeeps == SettingsInv /\ TruncateCfg => SettingsInv'
<1> SUFFICES ASSUME SettingsInv, TruncateCfg PROVE SettingsInv'
  OBVIOUS
<1> DEFINE a == "writing"
<1>1. PICK r \in requests :
        /\ r.at = "loaded" /\ cfg' = DefaultCfg
        /\ requests' = (requests \ {r}) \cup {[r EXCEPT !.at = a]}
        /\ UNCHANGED <<live, fetched, header, sel, settingsRaces>>
  BY DEF TruncateCfg
<1>2. r \in Requests /\ r.cfg \in Files
  BY DEF SettingsInv, TypeOK, Requests
<1>3. a \in Places /\ a = "writing"
  BY DEF Places
<1> HIDE DEF a
<1>4. PICK n : n = [r EXCEPT !.at = a]
  OBVIOUS
<1>5. Moved(n, r, a, r.cfg, r.mine)
  BY <1>2, <1>3, <1>4, RequestMoved
<1>6. Agrees(r) => Agrees(n)'
  BY <1>1, <1>3, <1>5 DEF Moved, Agrees, WithRequest
<1> QED  BY <1>1, <1>3, <1>4, <1>5, <1>6, MovedKeeps, DefaultKeys

LEMMA WriteCfgKeeps == SettingsInv /\ WriteCfg => SettingsInv'
<1> SUFFICES ASSUME SettingsInv, WriteCfg PROVE SettingsInv'
  OBVIOUS
<1> DEFINE a == "done"
<1>1. PICK r \in requests :
        /\ r.at = "writing" /\ (cfg' = WithRequest(r) \/ (cfg # DefaultCfg /\ cfg' = DefaultCfg))
        /\ requests' = (requests \ {r}) \cup {[r EXCEPT !.at = a]}
        /\ UNCHANGED <<live, fetched, header, sel, settingsRaces>>
  BY DEF WriteCfg
<1>2. r \in Requests /\ Wellformed(r) /\ r.cfg \in Files
  BY DEF SettingsInv, TypeOK, Requests
<1>3. a \in Places /\ a = "done"
  BY DEF Places
<1> HIDE DEF a
<1>4. PICK n : n = [r EXCEPT !.at = a]
  OBVIOUS
<1>5. Moved(n, r, a, r.cfg, r.mine)
  BY <1>2, <1>3, <1>4, RequestMoved
<1>6. Agrees(r) => Agrees(n)'
  <2> SUFFICES ASSUME Agrees(r) PROVE Agrees(n)'
    OBVIOUS
  <2>1. cfg' = WithRequest(r) /\ Choice(WithRequest(r).provider, WithRequest(r).model) = live
    BY <1>1 DEF Agrees
  <2>2. live' = Persisted'
    BY <1>1, <2>1 DEF Persisted
  <2> QED  BY <1>3, <1>5, <2>2 DEF Moved, Agrees
<1>7. cfg' \in Files
  BY <1>1, <1>2, WithRequestIs, DefaultKeys
<1>8. "keyKept" \notin settingsRaces => OwnKeys(cfg')
  <2> SUFFICES ASSUME "keyKept" \notin settingsRaces PROVE OwnKeys(cfg')
    OBVIOUS
  <2>1. OwnKeys(r.cfg) /\ (r.op = "register" => r.key \in {None, r.choice.provider})
    BY DEF SettingsInv, KeysInv
  <2> QED  BY <1>1, <1>2, <2>1, WithRequestIs, DefaultKeys DEF OwnKeys, Requests
<1> QED  BY <1>1, <1>3, <1>4, <1>5, <1>6, <1>7, <1>8, MovedKeeps

LEMMA SaveCfgFailsKeeps == SettingsInv /\ SaveCfgFails => SettingsInv'
<1> SUFFICES ASSUME SettingsInv, SaveCfgFails PROVE SettingsInv'
  OBVIOUS
<1> DEFINE a == "done"
<1>1. PICK r \in requests :
        /\ r.at \in {"loaded", "writing"}
        /\ requests' = (requests \ {r}) \cup {[r EXCEPT !.at = a]}
        /\ settingsRaces' = settingsRaces \cup {"unsaved"}
        /\ UNCHANGED <<live, cfg, fetched, header, sel>>
  BY DEF SaveCfgFails
<1>2. r \in Requests /\ r.cfg \in Files
  BY DEF SettingsInv, TypeOK, Requests
<1>3. a \in Places /\ a = "done"
  BY DEF Places
<1> HIDE DEF a
<1>4. PICK n : n = [r EXCEPT !.at = a]
  OBVIOUS
<1>5. Moved(n, r, a, r.cfg, r.mine)
  BY <1>2, <1>3, <1>4, RequestMoved
<1>6. cfg' \in Files /\ ("keyKept" \notin settingsRaces => OwnKeys(cfg'))
  BY <1>1 DEF SettingsInv, TypeOK, KeysInv
<1>7. settingsRaces' \cap {"overlapped", "noModel", "unsaved"} # {}
  BY <1>1
<1> QED  BY <1>1, <1>3, <1>4, <1>5, <1>6, <1>7, MovedKeeps

LEMMA KeyAnsweredKeeps == SettingsInv /\ KeyAnswered => SettingsInv'
<1> SUFFICES ASSUME SettingsInv, KeyAnswered PROVE SettingsInv'
  OBVIOUS
<1>1. PICK r \in requests :
        /\ r.at = "done" /\ r.op = "register"
        /\ requests' = (requests \ {r}) \cup
             {[Request("put", "key", r.choice, None) EXCEPT !.mine = r.mine]}
        /\ UNCHANGED <<live, cfg, fetched, header, sel, settingsRaces>>
  BY DEF KeyAnswered
<1>2. r \in Requests /\ Wellformed(r) /\ cfg \in Files /\ None \in OptProvider
  BY DEF SettingsInv, TypeOK, OptProvider
<1>3. PICK m : m = Request("put", "key", r.choice, None)
  OBVIOUS
<1>4. r.choice \in ChoiceRecords /\ r.mine \in BOOLEAN
  BY <1>2 DEF Requests
<1>5. Made(m, "put", "key", r.choice, None)
  BY <1>2, <1>3, <1>4, RequestMade
<1>6. PICK n : n = [m EXCEPT !.mine = r.mine]
  OBVIOUS
<1>7. /\ n \in Requests /\ n.op = "put" /\ n.by = "key" /\ n.choice = r.choice
      /\ n.at = "sent" /\ n.cfg = cfg /\ n.mine = r.mine
  BY <1>4, <1>5, <1>6 DEF Made, Requests
<1>8. requests' = (requests \ {r}) \cup {n}
  BY <1>1, <1>3, <1>6
<1>9. TypeOK'
  <2>1. Wellformed(n)
    BY <1>2, <1>7 DEF Wellformed
  <2> QED  BY <1>1, <1>7, <1>8, <2>1, ReplaceRequest DEF SettingsInv, TypeOK
<1>10. RestartInv'
  BY <1>1, <1>7, <1>8 DEF SettingsInv, RestartInv, Agrees, Persisted
<1>11. HeaderInv'
  <2> SUFFICES ASSUME settingsRaces \cap {"overlapped", "unheard", "failed", "unsaved"} = {}
               PROVE  HeaderInv'
    BY <1>1 DEF HeaderInv
  <2>1. /\ "noModel" \notin settingsRaces /\ fetched = None /\ Shows(r)
        /\ \A q \in requests : q = r
    BY DEF SettingsInv, HeaderInv, RestartInv
  <2>2. Shows(n)'
    BY <1>1, <1>7, <2>1 DEF Shows, Rewriters
  <2> QED  BY <1>1, <1>8, <2>1, <2>2 DEF HeaderInv
<1>12. KeysInv'
  BY <1>1, <1>7, <1>8 DEF SettingsInv, KeysInv, OwnKeys
<1> QED  BY <1>9, <1>10, <1>11, <1>12 DEF SettingsInv

LEMMA PutAnsweredKeeps == SettingsInv /\ PutAnswered => SettingsInv'
<1> SUFFICES ASSUME SettingsInv, PutAnswered PROVE SettingsInv'
  OBVIOUS
<1>1. PICK r \in requests :
        /\ r.at = "done" /\ r.op = "put" /\ requests' = requests \ {r}
        /\ header' = IF (r.mine /\ r.by \in {"quick", "key"}) /\ header # None
                     THEN r.choice ELSE header
        /\ sel' = IF r.mine /\ r.by = "quick"
                  THEN [sel EXCEPT !.provider = r.choice.provider, !.model = r.choice.model]
                  ELSE sel
        /\ settingsRaces' = settingsRaces
             \cup IF r.mine /\ r.by = "quick" THEN KeyStays(r.choice.provider) ELSE {}
        /\ UNCHANGED <<live, cfg, fetched>>
  BY DEF PutAnswered
<1>2. r \in Requests /\ Wellformed(r) /\ r.choice \in ChoiceRecords
  BY DEF SettingsInv, TypeOK, Requests
<1>3. /\ sel' \in Selections /\ Sound(sel') /\ sel'.key = sel.key
      /\ \/ sel'.provider = sel.provider
         \/ sel'.provider = r.choice.provider /\ r.mine /\ r.by = "quick"
  <2> DEFINE s == [sel EXCEPT !.provider = r.choice.provider, !.model = r.choice.model]
  <2>1. sel \in Selections /\ Sound(sel) /\ Sound(r.choice)
    BY <1>2 DEF SettingsInv, TypeOK, Wellformed
  <2>2. /\ s \in Selections /\ s.key = sel.key
        /\ s.provider = r.choice.provider /\ s.model = r.choice.model
    BY <1>2, <2>1 DEF Selections, ChoiceRecords
  <2>3. sel' = IF r.mine /\ r.by = "quick" THEN s ELSE sel
    BY <1>1
  <2> HIDE DEF s
  <2> QED  BY <2>1, <2>2, <2>3 DEF Sound
<1>4. TypeOK'
  BY <1>1, <1>3 DEF SettingsInv, TypeOK
<1>5. settingsRaces' \subseteq settingsRaces \cup {"keyKept"}
  BY <1>1 DEF KeyStays, Met
<1>6. settingsRaces \subseteq settingsRaces'
  BY <1>1
<1>7. RestartInv'
  BY <1>1, <1>6 DEF SettingsInv, RestartInv, Agrees, Persisted
<1>8. HeaderInv'
  <2> SUFFICES ASSUME settingsRaces' \cap {"overlapped", "unheard", "failed", "unsaved"} = {}
               PROVE  HeaderInv'
    BY DEF HeaderInv
  <2>1. /\ "noModel" \notin settingsRaces /\ fetched = None /\ Shows(r)
        /\ \A q \in requests : q = r
    BY <1>6 DEF SettingsInv, HeaderInv, RestartInv
  <2>2. requests' = {} /\ "noModel" \notin settingsRaces'
    BY <1>1, <1>5, <2>1
  <2>3. header' # None => header' = live
    BY <1>1, <2>1 DEF Shows, Rewriters
  <2> QED  BY <1>1, <2>1, <2>2, <2>3 DEF HeaderInv
<1>9. KeysInv'
  <2> SUFFICES ASSUME "keyKept" \notin settingsRaces' PROVE KeysInv'
    BY DEF KeysInv
  <2>1. sel'.key \in {None, sel'.provider}
    BY <1>1, <1>3, <1>6 DEF SettingsInv, KeysInv, KeyStays, Met
  <2> QED  BY <1>1, <1>6, <2>1 DEF SettingsInv, KeysInv, OwnKeys
<1> QED  BY <1>4, <1>7, <1>8, <1>9 DEF SettingsInv

LEMMA FailsKeeps == SettingsInv /\ RequestFails => SettingsInv'
<1> SUFFICES ASSUME SettingsInv, RequestFails PROVE SettingsInv'
  OBVIOUS
<1>1. PICK r \in requests :
        /\ r.at \in {"sent", "done"} /\ requests' = requests \ {r}
        /\ settingsRaces' = settingsRaces \cup {"failed"}
        /\ UNCHANGED <<live, cfg, fetched, header, sel>>
  BY DEF RequestFails
<1>2. TypeOK' /\ KeysInv'
  BY <1>1 DEF SettingsInv, TypeOK, KeysInv, OwnKeys
<1>3. RestartInv'
  BY <1>1 DEF SettingsInv, RestartInv, Agrees, Persisted
<1>4. HeaderInv'
  BY <1>1 DEF HeaderInv
<1> QED  BY <1>2, <1>3, <1>4 DEF SettingsInv

\* What the server takes up again, or is given, is what the file then says.
LEMMA RestartKeeps == SettingsInv /\ RestartServer => SettingsInv'
<1> SUFFICES ASSUME SettingsInv, RestartServer PROVE SettingsInv'
  OBVIOUS
<1>1. /\ requests' \subseteq requests /\ \A r \in requests' : r.at = "done"
      /\ settingsRaces' = settingsRaces \cup Met("failed", requests' # requests)
                             \cup Met("unsaved", \E r \in requests : r.at = "writing")
      /\ UNCHANGED <<fetched, header, sel>>
  BY DEF RestartServer
<1>2. settingsRaces \subseteq settingsRaces'
  BY <1>1
<1>3. cfg \in Files /\ cfg.provider \in OptProvider /\ cfg.model \in Model
  BY DEF SettingsInv, TypeOK, Files
<1>4. live' \in Lives /\ cfg' \in Files /\ live' = Persisted' /\ cfg'.keys = cfg.keys
  <2>1. CASE None \in {cfg.provider, cfg.model}
    <3>1. PICK p \in Provider : \E m \in ModelsOf[p] :
            live' = Choice(p, m) /\ cfg' = [cfg EXCEPT !.provider = p, !.model = m]
      BY <2>1 DEF RestartServer
    <3>2. PICK m \in ModelsOf[p] :
            live' = Choice(p, m) /\ cfg' = [cfg EXCEPT !.provider = p, !.model = m]
      BY <3>1
    <3>3. p \in OptProvider /\ p # None /\ m \in Model /\ m # None
      BY SettingsAssumption DEF SettingsAssumption, OptProvider, Model
    <3>4. live' \in Lives
      BY <3>2, <3>3, ChoiceType
    <3>5. cfg' \in Files /\ cfg'.provider = p /\ cfg'.model = m /\ cfg'.keys = cfg.keys
      BY <1>3, <3>2, <3>3 DEF Files
    <3> QED  BY <3>2, <3>4, <3>5 DEF Persisted
  <2>2. CASE None \notin {cfg.provider, cfg.model}
    <3>1. live' = Persisted /\ cfg' = cfg
      BY <2>2 DEF RestartServer
    <3>2. Persisted \in Lives
      BY <1>3, <2>2, ChoiceType DEF Persisted
    <3> QED  BY <1>3, <3>1, <3>2 DEF Persisted
  <2> QED  BY <2>1, <2>2
<1>5. TypeOK'
  BY <1>1, <1>4 DEF SettingsInv, TypeOK
<1>6. RestartInv'
  BY <1>1, <1>2, <1>4 DEF SettingsInv, RestartInv, Agrees
<1>7. HeaderInv'
  <2> SUFFICES ASSUME settingsRaces' \cap {"overlapped", "unheard", "failed", "unsaved"} = {}
               PROVE  HeaderInv'
    BY DEF HeaderInv
  <2>1. requests' = requests /\ settingsRaces' = settingsRaces
    BY <1>1 DEF Met
  <2>2. "noModel" \notin settingsRaces /\ live = Persisted
    BY <1>1, <2>1 DEF SettingsInv, HeaderInv, RestartInv, Agrees
  <2>3. cfg.provider # None /\ cfg.model # None
    <3>1. live.provider = cfg.provider /\ live.model = cfg.model
      BY <2>2 DEF Persisted, Choice
    <3>2. live.provider \in Provider /\ live.model # None
      BY DEF SettingsInv, TypeOK, Lives
    <3> QED  BY <3>1, <3>2, SettingsAssumption DEF SettingsAssumption
  <2>4. live' = live
    BY <2>2, <2>3 DEF RestartServer
  <2> QED  BY <1>1, <2>1, <2>4 DEF SettingsInv, HeaderInv, Shows
<1>8. KeysInv'
  BY <1>1, <1>2, <1>4 DEF SettingsInv, KeysInv, OwnKeys
<1> QED  BY <1>5, <1>6, <1>7, <1>8 DEF SettingsInv

LEMMA OpenedKeeps ==
  ASSUME SettingsInv, NEW now \in BOOLEAN, Opened(now)
  PROVE  SettingsInv'
<1>1. /\ fetched' \in {None, Unread} /\ header' = None /\ sel' = Unselected
      /\ (fetched' # None => now)
      /\ requests' = {[r EXCEPT !.mine = FALSE] : r \in requests}
      /\ settingsRaces' = settingsRaces \cup Met("overlapped", now /\ requests # {})
      /\ UNCHANGED <<live, cfg>>
  BY DEF Opened
<1>2. \A n \in requests' : \E r \in requests : Moved(n, r, r.at, r.cfg, FALSE)
  <2> TAKE n \in requests'
  <2>1. PICK r \in requests : n = [r EXCEPT !.mine = FALSE]
    BY <1>1
  <2>2. r \in Requests /\ r.at \in Places /\ r.cfg \in Files
    BY DEF SettingsInv, TypeOK, Requests
  <2>3. Moved(n, r, r.at, r.cfg, FALSE)
    BY <2>1, <2>2, RequestMoved
  <2> QED  BY <2>3
<1>3. /\ sel' \in Selections /\ Sound(sel') /\ sel'.key = None
  BY <1>1 DEF Unselected, Selections, Sound, OptProvider, Model
<1>4. TypeOK'
  BY <1>1, <1>2, <1>3 DEF SettingsInv, TypeOK, Moved, Wellformed
<1>5. settingsRaces \subseteq settingsRaces' /\ settingsRaces' \subseteq settingsRaces \cup {"overlapped"}
  BY <1>1 DEF Met
<1>6. (requests' = {} => requests = {}) /\ (requests = {} => requests' = {})
  BY <1>1
<1>7. RestartInv'
  <2> SUFFICES ASSUME settingsRaces' \cap {"overlapped", "noModel", "unsaved"} = {}
               PROVE  RestartInv'
    BY DEF RestartInv
  <2>1. /\ \A r, s \in requests : r = s
        /\ requests = {} => live = Persisted
        /\ \A r \in requests : Agrees(r)
    BY <1>5 DEF SettingsInv, RestartInv
  <2>2. \A m, n \in requests' : m = n
    BY <1>1, <2>1
  <2>3. \A n \in requests' : Agrees(n)'
    BY <1>1, <1>2, <2>1 DEF Agrees, Moved, Persisted, WithRequest
  <2> QED  BY <1>1, <1>6, <2>1, <2>2, <2>3 DEF RestartInv, Persisted
<1>8. HeaderInv'
  <2> SUFFICES ASSUME settingsRaces' \cap {"overlapped", "unheard", "failed", "unsaved"} = {}
               PROVE  HeaderInv'
    BY DEF HeaderInv
  <2>1. "noModel" \notin settingsRaces /\ \A r \in requests : Shows(r)
    BY <1>5 DEF SettingsInv, HeaderInv
  <2>2. "noModel" \notin settingsRaces' /\ (fetched' # None => requests = {})
    BY <1>1, <1>5, <2>1 DEF Met
  <2>3. \A n \in requests' : Shows(n)'
    BY <1>1, <1>2, <2>1 DEF Shows, Moved
  <2> QED  BY <1>1, <1>6, <2>2, <2>3 DEF HeaderInv
<1>9. KeysInv'
  BY <1>1, <1>2, <1>3, <1>5 DEF SettingsInv, KeysInv, OwnKeys, Moved
<1> QED  BY <1>4, <1>7, <1>8, <1>9 DEF SettingsInv

-----------------------------------------------------------------------------
(* The pages *)

Values == Nat \cup {Asked, Nothing}
LoadsOf(p) == [PartsOf(p) -> Values]
Writes == [op : Ops, at : {"sent", "done"}, mine : BOOLEAN, version : [Part -> Nat]]
RunPages == {"team", "costs"}

PagesTypeOK ==
  /\ page \in Page /\ pageBudget \in PageAllowances
  /\ data \in [Part -> Nat] /\ acked \in [Part -> Nat]
  /\ shown \in [Part -> Values] /\ loads \in Seq(LoadsOf(page))
  /\ writes \subseteq Writes
  /\ running \in BOOLEAN /\ runs \in [RunPages -> Nat]

\* No write was answered with a version the server has not reached.
Reached ==
  /\ \A part \in Part : acked[part] <= data[part]
  /\ \A w \in writes : \A part \in Part : w.version[part] <= data[part]

Recent(x, part) == x = Nothing \/ (x \in Nat /\ x >= acked[part])

\* The load begun last, or without one the page, has what the writes did.
OwnWritesInv ==
  pageRaces \cap {"failed", "overtook", "abandoned"} = {} =>
    /\ \A w \in writes : w.mine
    /\ loads = <<>> => \A part \in PartsOf(page) : Recent(shown[part], part)
    /\ loads # <<>> => \A part \in PartsOf(page) :
         loads[Len(loads)][part] = Asked \/ Recent(loads[Len(loads)][part], part)

PagesInv == PagesTypeOK /\ Reached /\ OwnWritesInv /\ RunsAreVisible

LEMMA PartsAreParts == ASSUME NEW p \in Page PROVE PartsOf(p) \subseteq Part
BY DEF Part

LEMMA LoadType == ASSUME NEW p PROVE Load(p) \in LoadsOf(p) /\ \A part \in PartsOf(p) : Load(p)[part] = Asked
BY DEF Load, LoadsOf, Values

\* A load is taken off the list.
LEMMA RemoveAtIs ==
  ASSUME NEW S, NEW s \in Seq(S), NEW i \in DOMAIN s
  PROVE  /\ RemoveAt(s, i) \in Seq(S)
         /\ i = 1 /\ RemoveAt(s, 1) # <<>> => RemoveAt(s, 1)[Len(RemoveAt(s, 1))] = s[Len(s)]
         /\ i = 1 /\ RemoveAt(s, 1) = <<>> => s[Len(s)] = s[1]
<1>1. Len(s) \in Nat /\ DOMAIN s = 1..Len(s) /\ \A j \in 1..Len(s) : s[j] \in S
  BY LenProperties, ElementOfSeq
<1>2. i \in 1..Len(s) /\ i - 1 \in Int /\ i + 1 \in Int /\ Len(s) \in Int
  BY <1>1
<1>3. SubSeq(s, 1, i - 1) \in Seq(S)
  BY <1>1, <1>2, SubSeqProperties
<1>4. SubSeq(s, i + 1, Len(s)) \in Seq(S)
  BY <1>1, <1>2, SubSeqProperties
<1>5. RemoveAt(s, i) \in Seq(S)
  BY <1>3, <1>4, ConcatProperties DEF RemoveAt
<1>6. ASSUME i = 1
      PROVE  RemoveAt(s, 1) = SubSeq(s, 2, Len(s))
  <2>1. SubSeq(s, 1, 1 - 1) = <<>>
    BY SubSeqEmpty
  <2>2. SubSeq(s, 2, Len(s)) \in Seq(S)
    BY <1>4, <1>6
  <2> QED  BY <2>1, <2>2, ConcatEmptySeq DEF RemoveAt
<1>7. ASSUME i = 1
      PROVE  /\ Len(SubSeq(s, 2, Len(s))) = Len(s) - 1
             /\ Len(s) > 1 => SubSeq(s, 2, Len(s))[Len(s) - 1] = s[Len(s)]
             /\ Len(s) = 1 => SubSeq(s, 2, Len(s)) = <<>>
  <2>1. \A j \in 2..Len(s) : s[j] \in S
    BY <1>1
  <2>2. /\ Len(SubSeq(s, 2, Len(s))) = IF 2 <= Len(s) THEN Len(s) - 2 + 1 ELSE 0
        /\ \A j \in 1..(Len(s) - 2 + 1) : SubSeq(s, 2, Len(s))[j] = s[2 + j - 1]
    BY <1>2, <2>1, SubSeqProperties
  <2>3. Len(s) >= 1
    BY <1>2
  <2>4. Len(s) > 1 => Len(s) - 1 \in 1..(Len(s) - 2 + 1) /\ 2 + (Len(s) - 1) - 1 = Len(s)
    BY <1>1
  <2>5. Len(s) = 1 => SubSeq(s, 2, Len(s)) = <<>>
    BY SubSeqEmpty
  <2> QED  BY <1>1, <2>2, <2>3, <2>4, <2>5
<1>8. Len(<<>>) = 0
  BY EmptySeq
<1> QED  BY <1>1, <1>2, <1>5, <1>6, <1>7, <1>8

LEMMA PageSpendKeeps ==
  ASSUME pageBudget \in PageAllowances,
         NEW what \in {"loads", "traffic", "fails", "writes", "runs"}, PageSpend(what)
  PROVE  pageBudget' \in PageAllowances
BY DEF PageSpend, PageAllowances

LEMMA AppendLast ==
  ASSUME NEW S, NEW s \in Seq(S), NEW e \in S
  PROVE  /\ Append(s, e) \in Seq(S) /\ Append(s, e) # <<>>
         /\ Append(s, e)[Len(Append(s, e))] = e
BY AppendProperties

LEMMA Replaced ==
  ASSUME NEW S, NEW s \in Seq(S), NEW i \in 1..Len(s), NEW e \in S, NEW t, t = [s EXCEPT ![i] = e]
  PROVE  /\ t \in Seq(S) /\ Len(t) = Len(s)
         /\ \A j \in 1..Len(s) : t[j] = IF j = i THEN e ELSE s[j]
BY ExceptSeq

\* A load appended is the last one, and asks for everything.
LEMMA Appended ==
  ASSUME PagesTypeOK, NEW p, p = page
  PROVE  /\ Append(loads, Load(p)) \in Seq(LoadsOf(p))
         /\ Append(loads, Load(p)) # <<>>
         /\ \A part \in PartsOf(p) :
              Append(loads, Load(p))[Len(Append(loads, Load(p)))][part] = Asked
<1>1. loads \in Seq(LoadsOf(p)) /\ Load(p) \in LoadsOf(p)
  BY LoadType DEF PagesTypeOK
<1>2. /\ Append(loads, Load(p)) \in Seq(LoadsOf(p)) /\ Append(loads, Load(p)) # <<>>
      /\ Append(loads, Load(p))[Len(Append(loads, Load(p)))] = Load(p)
  BY <1>1, AppendLast
<1> QED  BY <1>2, LoadType

LEMMA RefreshKeeps == PagesInv /\ Refresh => PagesInv'
<1> SUFFICES ASSUME PagesInv, Refresh PROVE PagesInv'
  OBVIOUS
<1>1. /\ loads' = Append(loads, Load(page))
      /\ UNCHANGED <<page, data, shown, writes, running, runs, acked, pageRaces, pageBudget>>
  BY DEF Refresh
<1>2. /\ loads' \in Seq(LoadsOf(page)) /\ loads' # <<>>
      /\ \A part \in PartsOf(page) : loads'[Len(loads')][part] = Asked
  BY <1>1, Appended DEF PagesInv
<1>3. PagesTypeOK' /\ Reached' /\ RunsAreVisible'
  BY <1>1, <1>2 DEF PagesInv, PagesTypeOK, Reached, RunsAreVisible, LoadsOf
<1>4. OwnWritesInv'
  BY <1>1, <1>2 DEF PagesInv, OwnWritesInv
<1> QED  BY <1>3, <1>4 DEF PagesInv

\* One part of load i gets a value that is recent or nothing.
LEMMA PartGets ==
  ASSUME PagesInv, NEW i \in DOMAIN loads, NEW part \in DOMAIN loads[i], NEW x \in Values,
         loads' = [loads EXCEPT ![i][part] = x], Recent(x, part),
         UNCHANGED <<page, data, shown, writes, running, runs, acked>>,
         pageRaces \subseteq pageRaces', pageBudget' \in PageAllowances
  PROVE  PagesInv'
<1>1. loads \in Seq(LoadsOf(page)) /\ i \in 1..Len(loads) /\ Len(loads) \in Nat
  BY LenProperties DEF PagesInv, PagesTypeOK
<1>2. loads[i] \in LoadsOf(page) /\ part \in PartsOf(page)
  BY <1>1, ElementOfSeq DEF LoadsOf
<1> DEFINE l == [loads[i] EXCEPT ![part] = x]
<1>3. l \in LoadsOf(page) /\ \A q \in PartsOf(page) : l[q] = IF q = part THEN x ELSE loads[i][q]
  BY <1>2 DEF LoadsOf
<1>4. loads' = [loads EXCEPT ![i] = l]
  OBVIOUS
<1> HIDE DEF l
<1>5. /\ loads' \in Seq(LoadsOf(page)) /\ Len(loads') = Len(loads)
      /\ \A j \in 1..Len(loads) : loads'[j] = IF j = i THEN l ELSE loads[j]
  <2> DEFINE S == LoadsOf(page)
  <2>1. loads \in Seq(S) /\ i \in 1..Len(loads) /\ l \in S
    BY <1>1, <1>3
  <2> HIDE DEF S
  <2>2. PICK t : t = [loads EXCEPT ![i] = l]
    OBVIOUS
  <2>3. t \in Seq(S) /\ Len(t) = Len(loads) /\ \A j \in 1..Len(loads) : t[j] = IF j = i THEN l ELSE loads[j]
    BY <2>1, <2>2, Replaced
  <2>4. loads' = t
    BY <1>4, <2>2
  <2> QED  BY <2>3, <2>4 DEF S
<1>6. PagesTypeOK' /\ Reached'
  BY <1>5 DEF PagesInv, PagesTypeOK, Reached, LoadsOf
<1>7. RunsAreVisible'
  BY DEF PagesInv, RunsAreVisible
<1>8. loads # <<>> /\ Len(loads) \in 1..Len(loads)
  BY <1>1, EmptySeq
<1>9. loads' # <<>>
  BY <1>5, <1>1, EmptySeq
<1>10. OwnWritesInv'
  <2> SUFFICES ASSUME pageRaces' \cap {"failed", "overtook", "abandoned"} = {}
               PROVE  OwnWritesInv'
    BY DEF OwnWritesInv
  <2>1. /\ \A w \in writes : w.mine
        /\ \A q \in PartsOf(page) :
             loads[Len(loads)][q] = Asked \/ Recent(loads[Len(loads)][q], q)
    BY <1>8 DEF PagesInv, OwnWritesInv
  <2>2. \A q \in PartsOf(page) : loads'[Len(loads')][q] = Asked \/ Recent(loads'[Len(loads')][q], q)
    BY <1>3, <1>5, <1>8, <2>1
  <2> QED  BY <1>9, <2>1, <2>2 DEF OwnWritesInv, Recent
<1> QED  BY <1>6, <1>7, <1>10 DEF PagesInv

LEMMA ReadPartKeeps == ASSUME PagesInv, NEW i \in DOMAIN loads, ReadPart(i) PROVE PagesInv'
<1>1. PICK part \in DOMAIN loads[i] :
        /\ loads' = [loads EXCEPT ![i][part] = data[part]]
        /\ UNCHANGED <<page, data, shown, writes, running, runs, acked, pageRaces, pageBudget>>
  BY DEF ReadPart
<1>2. loads[i] \in LoadsOf(page)
  BY LenProperties, ElementOfSeq DEF PagesInv, PagesTypeOK
<1>3. part \in Part
  BY <1>2, PartsAreParts DEF PagesInv, PagesTypeOK, LoadsOf
<1>4. data[part] \in Nat /\ data[part] >= acked[part]
  BY <1>3 DEF PagesInv, PagesTypeOK, Reached
<1>5. data[part] \in Values /\ Recent(data[part], part)
  BY <1>4 DEF Values, Recent
<1>6. pageBudget' \in PageAllowances
  BY <1>1 DEF PagesInv, PagesTypeOK
<1> QED  BY <1>1, <1>5, <1>6, PartGets

LEMMA PartFailsKeeps == PagesInv /\ PartFails => PagesInv'
<1> SUFFICES ASSUME PagesInv, PartFails PROVE PagesInv'
  OBVIOUS
<1>1. PICK i \in DOMAIN loads : \E part \in DOMAIN loads[i] :
        /\ PageSpend("fails") /\ loads' = LoadAfterFailure(i, part)
        /\ pageRaces' = pageRaces \cup IF part \in PageParts[page].must THEN {"failed"} ELSE {}
        /\ UNCHANGED <<page, data, shown, writes, running, runs, acked>>
  BY DEF PartFails
<1>2. PICK part \in DOMAIN loads[i] :
        /\ PageSpend("fails") /\ loads' = LoadAfterFailure(i, part)
        /\ pageRaces' = pageRaces \cup IF part \in PageParts[page].must THEN {"failed"} ELSE {}
        /\ UNCHANGED <<page, data, shown, writes, running, runs, acked>>
  BY <1>1
<1>3. pageBudget' \in PageAllowances
  BY <1>2, PageSpendKeeps DEF PagesInv, PagesTypeOK
<1>4. CASE part \in PageParts[page].must
  <2>1. loads' = RemoveAt(loads, i) /\ "failed" \in pageRaces' /\ pageRaces \subseteq pageRaces'
    BY <1>2, <1>4 DEF LoadAfterFailure
  <2>2. loads' \in Seq(LoadsOf(page))
    BY <2>1, RemoveAtIs DEF PagesInv, PagesTypeOK
  <2>3. PagesTypeOK' /\ Reached' /\ OwnWritesInv' /\ RunsAreVisible'
    BY <1>2, <1>3, <2>1, <2>2
    DEF PagesInv, PagesTypeOK, Reached, OwnWritesInv, RunsAreVisible, LoadsOf
  <2> QED  BY <2>3 DEF PagesInv
<1>5. CASE part \notin PageParts[page].must
  <2>1. loads' = [loads EXCEPT ![i][part] = Nothing]
    BY <1>2, <1>5 DEF LoadAfterFailure
  <2>2. Nothing \in Values /\ Recent(Nothing, part)
    BY DEF Values, Recent
  <2> QED  BY <1>2, <1>3, <2>1, <2>2, PartGets
<1> QED  BY <1>4, <1>5

\* What load i brings is shown; taken first in line, it is the last one only
\* when no other is left.
LEMMA ApplyKeeps == ASSUME PagesInv, NEW i \in DOMAIN loads, Apply(i) PROVE PagesInv'
<1>1. /\ \A part \in DOMAIN loads[i] : loads[i][part] # Asked
      /\ shown' = [part \in Part |-> IF part \in DOMAIN loads[i] THEN loads[i][part] ELSE shown[part]]
      /\ loads' = RemoveAt(loads, i)
      /\ pageRaces' = pageRaces \cup IF i > 1 THEN {"overtook"} ELSE {}
      /\ UNCHANGED <<page, data, writes, running, runs, acked, pageBudget>>
  BY DEF Apply
<1>2. loads \in Seq(LoadsOf(page)) /\ i \in 1..Len(loads) /\ loads[i] \in LoadsOf(page)
  BY LenProperties, ElementOfSeq DEF PagesInv, PagesTypeOK
<1>3. /\ DOMAIN loads[i] = PartsOf(page) /\ PartsOf(page) \subseteq Part
      /\ \A part \in PartsOf(page) : loads[i][part] \in Values
  BY <1>2, PartsAreParts DEF PagesInv, PagesTypeOK, LoadsOf
<1>4. /\ loads' \in Seq(LoadsOf(page))
      /\ i = 1 /\ loads' # <<>> => loads'[Len(loads')] = loads[Len(loads)]
      /\ i = 1 /\ loads' = <<>> => loads[Len(loads)] = loads[1]
  BY <1>1, <1>2, RemoveAtIs
<1>5. /\ shown' \in [Part -> Values]
      /\ \A part \in PartsOf(page) : shown'[part] = loads[i][part]
  BY <1>1, <1>3 DEF PagesInv, PagesTypeOK
<1>6. PagesTypeOK' /\ Reached' /\ RunsAreVisible'
  BY <1>1, <1>4, <1>5 DEF PagesInv, PagesTypeOK, Reached, RunsAreVisible, LoadsOf
<1>7. OwnWritesInv'
  <2> SUFFICES ASSUME pageRaces' \cap {"failed", "overtook", "abandoned"} = {}
               PROVE  OwnWritesInv'
    BY DEF OwnWritesInv
  <2>1. i = 1 /\ pageRaces \cap {"failed", "overtook", "abandoned"} = {}
    BY <1>1, <1>2
  <2>2. loads # <<>>
    BY <1>2, EmptySeq
  <2>3. /\ \A w \in writes : w.mine
        /\ \A part \in PartsOf(page) :
             loads[Len(loads)][part] = Asked \/ Recent(loads[Len(loads)][part], part)
    BY <2>1, <2>2 DEF PagesInv, OwnWritesInv
  <2>4. ASSUME loads' = <<>>
        PROVE  \A part \in PartsOf(page) : Recent(shown'[part], part)
    BY <1>1, <1>3, <1>4, <1>5, <2>1, <2>3, <2>4
  <2>5. ASSUME loads' # <<>>
        PROVE  \A part \in PartsOf(page) :
                 loads'[Len(loads')][part] = Asked \/ Recent(loads'[Len(loads')][part], part)
    BY <1>4, <2>1, <2>3, <2>5
  <2> QED  BY <1>1, <2>3, <2>4, <2>5 DEF OwnWritesInv, Recent
<1> QED  BY <1>6, <1>7 DEF PagesInv

\* A change at the server makes versions grow.
LEMMA ChangedGrows ==
  ASSUME data \in [Part -> Nat], NEW parts
  PROVE  /\ Changed(parts) \in [Part -> Nat]
         /\ \A part \in Part : data[part] <= Changed(parts)[part]
BY DEF Changed

\* The loads, the page and what was answered stay; the data may have grown.
LEMMA WritesChange ==
  ASSUME PagesInv, UNCHANGED <<page, shown, loads, running, runs, acked, pageRaces>>,
         data' \in [Part -> Nat], \A part \in Part : data[part] <= data'[part],
         writes' \subseteq Writes, \A w \in writes' : \A part \in Part : w.version[part] <= data'[part],
         (\A w \in writes : w.mine) => \A w \in writes' : w.mine,
         pageBudget' \in PageAllowances
  PROVE  PagesInv'
<1>1. PagesTypeOK'
  BY DEF PagesInv, PagesTypeOK, LoadsOf
<1>2. \A part \in Part : acked[part] \in Nat /\ data[part] \in Nat /\ data'[part] \in Nat
  BY DEF PagesInv, PagesTypeOK
<1>3. Reached'
  BY <1>2 DEF PagesInv, Reached
<1>4. OwnWritesInv' /\ RunsAreVisible'
  BY DEF PagesInv, OwnWritesInv, RunsAreVisible, Recent
<1> QED  BY <1>1, <1>3, <1>4 DEF PagesInv

LEMMA TrafficKeeps == PagesInv /\ Traffic => PagesInv'
<1> SUFFICES ASSUME PagesInv, Traffic PROVE PagesInv'
  OBVIOUS
<1>1. PICK part \in PartsOf(page) :
        /\ PageSpend("traffic") /\ data' = Changed({part})
        /\ UNCHANGED <<page, shown, loads, writes, running, runs, acked, pageRaces>>
  BY DEF Traffic
<1>2. pageBudget' \in PageAllowances
  BY <1>1, PageSpendKeeps DEF PagesInv, PagesTypeOK
<1>3. data' \in [Part -> Nat] /\ \A q \in Part : data[q] <= data'[q]
  BY <1>1, ChangedGrows DEF PagesInv, PagesTypeOK
<1>4. /\ writes \subseteq Writes
      /\ \A w \in writes : \A q \in Part :
           w.version[q] <= data[q] /\ w.version[q] \in Nat /\ data[q] \in Nat
  BY DEF PagesInv, PagesTypeOK, Reached, Writes
<1>5. \A w \in writes' : \A q \in Part : w.version[q] <= data'[q]
  <2> SUFFICES ASSUME NEW w \in writes', NEW q \in Part
               PROVE  w.version[q] <= data'[q]
    OBVIOUS
  <2>1. /\ w.version[q] <= data[q] /\ w.version[q] \in Nat /\ data[q] \in Nat
        /\ data[q] <= data'[q]
    BY <1>1, <1>3, <1>4
  <2>2. data'[q] \in Nat
    BY <1>3
  <2> QED  BY <2>1, <2>2
<1> QED  BY <1>1, <1>2, <1>3, <1>4, <1>5, WritesChange

LEMMA FillInKeeps == PagesInv /\ FillIn => PagesInv'
BY DEF FillIn, PagesInv, PagesTypeOK, Reached, OwnWritesInv, Recent, RunsAreVisible, LoadsOf

LEMMA WriteKeeps == PagesInv /\ Write => PagesInv'
<1> SUFFICES ASSUME PagesInv, Write PROVE PagesInv'
  OBVIOUS
<1>1. PICK o \in Ops :
        /\ PageSpend("writes")
        /\ writes' = writes \cup {[op |-> o, at |-> "sent", mine |-> TRUE, version |-> data]}
        /\ UNCHANGED <<page, data, shown, loads, running, runs, acked, pageRaces>>
  BY DEF Write
<1>2. pageBudget' \in PageAllowances
  BY <1>1, PageSpendKeeps DEF PagesInv, PagesTypeOK
<1>3. PICK new : new = [op |-> o, at |-> "sent", mine |-> TRUE, version |-> data]
  OBVIOUS
<1>4. data \in [Part -> Nat] /\ \A q \in Part : data[q] \in Nat
  BY DEF PagesInv, PagesTypeOK
<1>5. new \in Writes /\ new.mine /\ \A q \in Part : new.version[q] <= data[q]
  BY <1>3, <1>4 DEF Writes
<1>6. writes' = writes \cup {new}
  BY <1>1, <1>3
<1>7. /\ writes' \subseteq Writes /\ \A w \in writes' : \A q \in Part : w.version[q] <= data[q]
      /\ (\A w \in writes : w.mine) => \A w \in writes' : w.mine
  BY <1>5, <1>6 DEF PagesInv, PagesTypeOK, Reached
<1> QED  BY <1>1, <1>2, <1>4, <1>7, WritesChange

LEMMA ServeKeeps == PagesInv /\ Serve => PagesInv'
<1> SUFFICES ASSUME PagesInv, Serve PROVE PagesInv'
  OBVIOUS
<1>1. PICK w \in writes :
        /\ data' = Changed(w.op.changes)
        /\ writes' = (writes \ {w}) \cup {[w EXCEPT !.at = "done", !.version = data']}
        /\ UNCHANGED <<page, shown, loads, running, runs, acked, pageRaces, pageBudget>>
  BY DEF Serve
<1>2. data' \in [Part -> Nat] /\ \A q \in Part : data[q] <= data'[q]
  BY <1>1, ChangedGrows DEF PagesInv, PagesTypeOK
<1>3. \A q \in Part : data[q] \in Nat /\ data'[q] \in Nat
  BY <1>2 DEF PagesInv, PagesTypeOK
<1>4. PICK new : new = [w EXCEPT !.at = "done", !.version = data']
  OBVIOUS
<1>5. w \in Writes
  BY DEF PagesInv, PagesTypeOK
<1>6. /\ new \in Writes /\ new.mine = w.mine
      /\ \A q \in Part : new.version[q] <= data'[q]
  <2> DEFINE done == "done"
  <2>1. done \in {"sent", "done"} /\ new = [w EXCEPT !.at = done, !.version = data']
    BY <1>4
  <2> HIDE DEF done
  <2>2. PICK d : d = data'
    OBVIOUS
  <2>3. d \in [Part -> Nat] /\ new = [w EXCEPT !.at = done, !.version = d]
    BY <1>2, <2>1, <2>2
  <2>4. new \in Writes /\ new.mine = w.mine /\ new.version = d
    BY <1>5, <2>1, <2>3 DEF Writes
  <2>5. \A q \in Part : d[q] \in Nat /\ d[q] <= d[q]
    BY <2>3
  <2> QED  BY <2>2, <2>4, <2>5
<1>7. \A x \in writes : \A q \in Part : x.version[q] <= data[q] /\ x.version[q] \in Nat
  BY DEF PagesInv, PagesTypeOK, Reached, Writes
<1>8. writes' = (writes \ {w}) \cup {new}
  BY <1>1, <1>4
<1>9. \A x \in writes' : \A q \in Part : x.version[q] <= data'[q]
  BY <1>2, <1>3, <1>6, <1>7, <1>8
<1>10. /\ writes' \subseteq Writes
       /\ (\A x \in writes : x.mine) => \A x \in writes' : x.mine
  BY <1>6, <1>8 DEF PagesInv, PagesTypeOK
<1>11. pageBudget' \in PageAllowances
  BY <1>1 DEF PagesInv, PagesTypeOK
<1> QED  BY <1>1, <1>2, <1>9, <1>10, <1>11, WritesChange

LEMMA WriteRefusedKeeps == PagesInv /\ WriteRefused => PagesInv'
<1> SUFFICES ASSUME PagesInv, WriteRefused PROVE PagesInv'
  OBVIOUS
<1>1. /\ PageSpend("fails") /\ writes' \subseteq writes
      /\ UNCHANGED <<page, data, shown, loads, running, runs, acked, pageRaces>>
  BY DEF WriteRefused
<1>2. pageBudget' \in PageAllowances
  BY <1>1, PageSpendKeeps DEF PagesInv, PagesTypeOK
<1>3. data' \in [Part -> Nat] /\ \A q \in Part : data[q] <= data'[q]
  BY <1>1 DEF PagesInv, PagesTypeOK
<1>4. /\ writes' \subseteq Writes
      /\ \A w \in writes' : \A q \in Part : w.version[q] <= data'[q]
      /\ (\A w \in writes : w.mine) => \A w \in writes' : w.mine
  BY <1>1 DEF PagesInv, PagesTypeOK, Reached
<1> QED  BY <1>1, <1>2, <1>3, <1>4, WritesChange

\* The load that follows the answer asks for everything.
LEMMA WriteAnsweredKeeps == PagesInv /\ WriteAnswered => PagesInv'
<1> SUFFICES ASSUME PagesInv, WriteAnswered PROVE PagesInv'
  OBVIOUS
<1>1. PICK w \in writes :
        /\ writes' = writes \ {w} /\ loads' = LoadsAfter(w)
        /\ acked' = [part \in Part |-> IF part \in w.op.changes /\ w.version[part] > acked[part]
                                       THEN w.version[part] ELSE acked[part]]
        /\ UNCHANGED <<page, data, shown, running, runs, pageRaces, pageBudget>>
  BY DEF WriteAnswered
<1>2. \A q \in Part : /\ w.version[q] \in Nat /\ acked[q] \in Nat
                      /\ w.version[q] <= data[q] /\ acked[q] <= data[q]
  BY DEF PagesInv, PagesTypeOK, Reached, Writes
<1>3. acked' \in [Part -> Nat] /\ \A q \in Part : acked'[q] <= data[q]
  BY <1>1, <1>2
<1>4. /\ w.mine => /\ loads' \in Seq(LoadsOf(page)) /\ loads' # <<>>
                   /\ \A part \in PartsOf(page) : loads'[Len(loads')][part] = Asked
      /\ ~w.mine => loads' = loads
  BY <1>1, Appended DEF PagesInv, LoadsAfter
<1>5. loads' \in Seq(LoadsOf(page))
  BY <1>4 DEF PagesInv, PagesTypeOK
<1>6. PagesTypeOK' /\ Reached' /\ RunsAreVisible'
  BY <1>1, <1>3, <1>5 DEF PagesInv, PagesTypeOK, Reached, RunsAreVisible, LoadsOf
<1>7. OwnWritesInv'
  BY <1>1, <1>4 DEF PagesInv, OwnWritesInv
<1> QED  BY <1>6, <1>7 DEF PagesInv

\* Only the runs change and what the page says of them.
LEMMA RunsChange ==
  ASSUME PagesInv, UNCHANGED <<page, data, shown, loads, writes, acked, pageRaces>>,
         running' \in BOOLEAN, runs' \in [RunPages -> Nat], RunsAreVisible',
         pageBudget' \in PageAllowances
  PROVE  PagesInv'
<1>1. PagesTypeOK' /\ Reached'
  BY DEF PagesInv, PagesTypeOK, Reached, LoadsOf
<1>2. OwnWritesInv'
  BY DEF PagesInv, OwnWritesInv, Recent
<1> QED  BY <1>1, <1>2 DEF PagesInv

LEMMA StartRunKeeps == ASSUME PagesInv, NEW p \in RunPages, StartRun(p) PROVE PagesInv'
<1>1. /\ page = p /\ ~running /\ PageSpend("runs") /\ running' = TRUE
      /\ runs' = [runs EXCEPT ![p] = @ + 1]
      /\ UNCHANGED <<page, data, shown, loads, writes, acked, pageRaces>>
  BY DEF StartRun
<1>2. pageBudget' \in PageAllowances
  BY <1>1, PageSpendKeeps DEF PagesInv, PagesTypeOK
<1>3. runs \in [RunPages -> Nat] /\ DOMAIN runs = RunPages
  BY DEF PagesInv, PagesTypeOK
<1>4. runs' \in [RunPages -> Nat] /\ DOMAIN runs' = RunPages
      /\ \A q \in RunPages : runs'[q] = IF q = p THEN runs[p] + 1 ELSE runs[q]
  BY <1>1, <1>3
<1>5. RunsAreVisible'
  BY <1>1, <1>3, <1>4 DEF PagesInv, RunsAreVisible
<1> QED  BY <1>1, <1>2, <1>4, <1>5, RunsChange

LEMMA RunEndsKeeps == PagesInv /\ RunEnds => PagesInv'
<1> SUFFICES ASSUME PagesInv, RunEnds PROVE PagesInv'
  OBVIOUS
<1>1. PICK p \in RunPages :
        /\ runs[p] > 0 /\ runs' = [runs EXCEPT ![p] = @ - 1]
        /\ \/ p = page /\ running /\ running' = FALSE
           \/ runs[p] > (IF p = page /\ running THEN 1 ELSE 0) /\ UNCHANGED running
        /\ UNCHANGED <<page, data, shown, loads, writes, acked, pageRaces, pageBudget>>
  BY DEF RunEnds, RunPages
<1>2. runs \in [RunPages -> Nat] /\ DOMAIN runs = RunPages /\ running \in BOOLEAN
  BY DEF PagesInv, PagesTypeOK
<1>3. /\ runs' \in [RunPages -> Nat] /\ DOMAIN runs' = RunPages
      /\ \A q \in RunPages : runs'[q] = IF q = p THEN runs[p] - 1 ELSE runs[q]
  BY <1>1, <1>2
<1>4. running' \in BOOLEAN /\ pageBudget' \in PageAllowances
  BY <1>1, <1>2 DEF PagesInv, PagesTypeOK
<1>5. RunsAreVisible'
  BY <1>1, <1>2, <1>3 DEF PagesInv, RunsAreVisible
<1> QED  BY <1>1, <1>3, <1>4, <1>5, RunsChange

\* A page is entered without anything of the one that is left: its writes are
\* nobody's, its run is out of sight.
LEMMA MountedKeeps ==
  ASSUME PagesInv, NEW p \in Page, Mounted(p), pageBudget' \in PageAllowances
  PROVE  PagesInv'
<1>1. /\ page' = p /\ shown' = [part \in Part |-> Nothing]
      /\ loads' = IF p = "other" THEN <<>> ELSE <<Load(p)>>
      /\ writes' = {[w EXCEPT !.mine = FALSE] : w \in writes}
      /\ running' = FALSE
      /\ pageRaces' = pageRaces \cup (IF running THEN {"left"} ELSE {})
                                \cup (IF writes # {} THEN {"abandoned"} ELSE {})
      /\ UNCHANGED <<data, runs, acked>>
  BY DEF Mounted
<1>2. /\ loads' \in Seq(LoadsOf(p))
      /\ loads' # <<>> => \A part \in PartsOf(p) : loads'[Len(loads')][part] = Asked
  <2> DEFINE S == LoadsOf(p)
  <2>1. Load(p) \in S /\ \A part \in PartsOf(p) : Load(p)[part] = Asked
    BY LoadType
  <2> HIDE DEF S
  <2>2. PICK l : l = Load(p)
    OBVIOUS
  <2>3. l \in S
    BY <2>1, <2>2
  <2>4. <<l>> \in Seq(S) /\ Len(<<l>>) = 1 /\ <<l>>[1] = l /\ <<>> \in Seq(S)
    BY <2>3
  <2> QED  BY <1>1, <2>1, <2>2, <2>4 DEF S
<1>3. shown' \in [Part -> Values] /\ \A part \in Part : shown'[part] = Nothing
  BY <1>1 DEF Values
<1>4. /\ writes' \subseteq Writes
      /\ \A w \in writes' : \A part \in Part : w.version[part] <= data[part]
  <2> SUFFICES ASSUME NEW n \in writes'
               PROVE  n \in Writes /\ \A part \in Part : n.version[part] <= data[part]
    OBVIOUS
  <2>1. PICK w \in writes : n = [w EXCEPT !.mine = FALSE]
    BY <1>1
  <2>2. w \in Writes /\ \A part \in Part : w.version[part] <= data[part]
    BY DEF PagesInv, PagesTypeOK, Reached
  <2>3. n \in Writes /\ n.version = w.version
    BY <2>1, <2>2 DEF Writes
  <2> QED  BY <2>2, <2>3
<1>5. PagesTypeOK' /\ Reached'
  BY <1>1, <1>2, <1>3, <1>4 DEF PagesInv, PagesTypeOK, Reached, LoadsOf
<1>6. OwnWritesInv'
  <2> SUFFICES ASSUME pageRaces' \cap {"failed", "overtook", "abandoned"} = {}
               PROVE  OwnWritesInv'
    BY DEF OwnWritesInv
  <2>1. writes = {}
    BY <1>1
  <2>2. writes' = {}
    BY <1>1, <2>1
  <2> QED  BY <1>1, <1>2, <1>3, <2>2, PartsAreParts DEF OwnWritesInv, Recent
<1>7. RunsAreVisible'
  BY <1>1 DEF PagesInv, PagesTypeOK, RunsAreVisible
<1> QED  BY <1>5, <1>6, <1>7 DEF PagesInv

LEMMA PagesSame == PagesInv /\ UNCHANGED pageVars => PagesInv'
BY DEF pageVars, PagesInv, PagesTypeOK, Reached, OwnWritesInv, Recent, RunsAreVisible, LoadsOf

-----------------------------------------------------------------------------
(* The shell *)

LEMMA PagesStep == PagesInv /\ PagesNext => PagesInv'
<1> SUFFICES ASSUME PagesInv, PagesNext PROVE PagesInv'
  OBVIOUS
<1>1. CASE \E i \in DOMAIN loads : ReadPart(i) \/ Apply(i)
  BY <1>1, ReadPartKeeps, ApplyKeeps
<1>2. CASE RunTeam
  BY <1>2, StartRunKeeps DEF RunTeam, RunPages
<1>3. CASE Compare
  BY <1>3, StartRunKeeps DEF Compare, RunPages
<1> QED
  BY <1>1, <1>2, <1>3, RefreshKeeps, PartFailsKeeps, TrafficKeeps, FillInKeeps, WriteKeeps,
     ServeKeeps, WriteRefusedKeeps, WriteAnsweredKeeps, RunEndsKeeps
  DEF PagesNext

\* The status bar is apart from the settings.
LEMMA BarKeeps ==
  SettingsInv /\ (Poll \/ StatusFails \/ \E i \in DOMAIN polls : ReadStatus(i) \/ StatusAnswered(i))
    => SettingsInv'
<1> SUFFICES ASSUME SettingsInv,
                    Poll \/ StatusFails \/ \E i \in DOMAIN polls : ReadStatus(i) \/ StatusAnswered(i)
             PROVE  SettingsInv'
  OBVIOUS
<1>1. UNCHANGED <<live, cfg, sel, fetched, header, requests, settingsRaces>>
  BY DEF Poll, StatusFails, ReadStatus, StatusAnswered
<1> QED  BY <1>1, SettingsSame

LEMMA SettingsStep == SettingsInv /\ SettingsNext => SettingsInv'
<1> SUFFICES ASSUME SettingsInv, SettingsNext PROVE SettingsInv'
  OBVIOUS
<1>1. CASE Poll \/ StatusFails \/ \E i \in DOMAIN polls : ReadStatus(i) \/ StatusAnswered(i)
  BY <1>1, BarKeeps
<1>2. CASE FetchRead \/ FetchAnswered \/ LoadCfg \/ TruncateCfg \/ WriteCfg
           \/ SaveCfgFails \/ KeyAnswered \/ PutAnswered \/ RequestFails \/ RestartServer
  BY <1>2, FetchReadKeeps, FetchAnsweredKeeps, LoadKeeps, TruncateKeeps, WriteCfgKeeps,
     SaveCfgFailsKeeps, KeyAnsweredKeeps, PutAnsweredKeeps, FailsKeeps, RestartKeeps
<1>3. CASE QuickCloud \/ SelectProvider \/ SelectModel \/ TypeKey \/ QuickLocal \/ StartWithKey
  BY <1>3, SelectKeeps, TypeKeyKeeps, QuickLocalKeeps, StartWithKeyKeeps
<1>4. CASE ApplyAdvanced \/ SetLanguage \/ PickModel \/ RewriteFile
  BY <1>4, OtherPutsKeep
<1> QED  BY <1>1, <1>2, <1>3, <1>4 DEF SettingsNext

\* A page that is gone to is one of the budget's.
LEMMA GoToPageKeeps == PagesInv /\ GoToPage => PagesInv'
<1> SUFFICES ASSUME PagesInv, GoToPage PROVE PagesInv'
  OBVIOUS
<1>1. /\ pageBudget.visits # <<>> /\ Mounted(Head(pageBudget.visits))
      /\ pageBudget' = [pageBudget EXCEPT !.visits = Tail(@)]
  BY DEF GoToPage
<1> DEFINE P == Page
<1>2. pageBudget \in PageAllowances /\ pageBudget.visits \in Seq(P)
  BY DEF PagesInv, PagesTypeOK, PageAllowances
<1> HIDE DEF P
<1>3. Head(pageBudget.visits) \in P /\ Tail(pageBudget.visits) \in Seq(P)
  BY <1>1, <1>2, HeadTailProperties
<1>4. pageBudget' \in PageAllowances
  BY <1>1, <1>2, <1>3 DEF PageAllowances, P
<1> QED  BY <1>1, <1>3, <1>4, MountedKeeps DEF P

PanelsInv == SettingsInv /\ PagesInv

LEMMA InitHolds == Init => PanelsInv
<1> SUFFICES ASSUME Init PROVE PanelsInv
  OBVIOUS
<1>1. /\ live = Choice(Local, Preset[Local])
      /\ cfg = [provider |-> live.provider, model |-> live.model, keys |-> [p \in Provider |-> None]]
      /\ fetched = None /\ header = None /\ sel = Unselected /\ requests = {} /\ settingsRaces = {}
  BY DEF Init, SettingsInit
<1>2. live \in Lives /\ live = Persisted
  BY <1>1, SettingsAssumption DEF SettingsAssumption, Choice, Lives, Model, Persisted
<1>3. [p \in Provider |-> None] \in [Provider -> OptProvider] /\ None \in OptProvider
  BY DEF OptProvider
<1>4. cfg \in Files /\ OwnKeys(cfg)
  BY <1>1, <1>2, <1>3 DEF Files, OwnKeys, Lives, OptProvider
<1>5. sel \in Selections /\ Sound(sel) /\ sel.key = None
  BY <1>1, <1>3 DEF Unselected, Selections, Sound, Model
<1>6. SettingsInv
  BY <1>1, <1>2, <1>4, <1>5 DEF SettingsInv, TypeOK, RestartInv, HeaderInv, KeysInv
<1>7. /\ data = [part \in Part |-> 0] /\ acked = data
      /\ page = "other" /\ shown = [part \in Part |-> Nothing] /\ loads = <<>>
      /\ writes = {} /\ running = FALSE /\ runs = [p \in RunPages |-> 0]
  BY DEF Init, PagesInit, RunPages
<1>8. pageBudget \in PageAllowances
  BY BudgetsAssumption DEF Init, BudgetsAssumption
<1>9. /\ page \in Page /\ data \in [Part -> Nat] /\ runs \in [RunPages -> Nat]
      /\ shown \in [Part -> Values] /\ \A part \in Part : shown[part] = Nothing
  BY <1>7 DEF Page, PageParts, Values
<1>10. loads \in Seq(LoadsOf(page))
  BY <1>7
<1>11. PagesTypeOK /\ Reached /\ RunsAreVisible
  <2>1. RunsAreVisible
    BY <1>7 DEF RunsAreVisible
  <2>2. \A part \in Part : acked[part] <= data[part]
    BY <1>7, <1>9
  <2>3. Reached
    BY <1>7, <2>2 DEF Reached
  <2>4. PagesTypeOK
    BY <1>7, <1>8, <1>9, <1>10 DEF PagesTypeOK
  <2> QED  BY <2>1, <2>3, <2>4
<1>12. OwnWritesInv
  BY <1>7, <1>9, PartsAreParts DEF OwnWritesInv, Recent
<1> QED  BY <1>6, <1>11, <1>12 DEF PanelsInv, PagesInv

LEMMA StepHolds == PanelsInv /\ [Next]_vars => PanelsInv'
<1> SUFFICES ASSUME PanelsInv, [Next]_vars PROVE PanelsInv'
  OBVIOUS
<1> USE DEF PanelsInv
<1>1. UNCHANGED settingsVars => SettingsInv'
  BY SettingsSame DEF settingsVars
<1>2. UNCHANGED pageVars => PagesInv'
  BY PagesSame
<1>3. CASE PagesNext /\ UNCHANGED settingsVars
  BY <1>1, <1>3, PagesStep
<1>4. CASE SettingsNext /\ UNCHANGED pageVars
  BY <1>2, <1>4, SettingsStep
<1>5. CASE GoToPage
  BY <1>1, <1>5, GoToPageKeeps DEF GoToPage
<1>6. CASE GoToSettings
  <2>1. Mounted("other") /\ UNCHANGED pageBudget /\ Opened(TRUE)
    BY <1>6 DEF GoToSettings
  <2>2. "other" \in Page /\ pageBudget' \in PageAllowances
    BY <2>1 DEF Page, PageParts, PagesInv, PagesTypeOK
  <2> QED  BY <2>1, <2>2, MountedKeeps, OpenedKeeps
<1>7. CASE LeaveSettings
  BY <1>2, <1>7, OpenedKeeps DEF LeaveSettings
<1>8. CASE UNCHANGED vars
  BY <1>1, <1>2, <1>8 DEF vars
<1> QED  BY <1>3, <1>4, <1>5, <1>6, <1>7, <1>8 DEF Next

-----------------------------------------------------------------------------
(* The theorems *)

\* The types hold, and with them what each request, load and write under way
\* has done so far: the invariant that the two theorems below follow from.
THEOREM Invariance == Spec => []PanelsInv
BY InitHolds, StepHolds, PTL DEF Spec

\* However the clicks, the requests of Settings, of the status bar and of the
\* projects that rewrite the file, the two steps of each rewriting, their
\* failures and restarts of the server interleave, except where the named races
\* say: a restart goes on with the model that answers (handleSetConfig and
\* handleRegisterProvider), Settings show it (Settings.tsx), and a key is
\* registered for the provider it was typed for.
THEOREM SettingsTheorem == Spec => []SettingsHold
<1>1. SettingsInv => RestartKeepsModel
  BY DEF SettingsInv, RestartInv, RestartKeepsModel
<1>2. SettingsInv => HeaderIsLive
  BY DEF SettingsInv, HeaderInv, HeaderIsLive
<1>3. SettingsInv => KeysAtTheirProvider
  BY DEF SettingsInv, KeysInv, OwnKeys, KeysAtTheirProvider
<1>4. PanelsInv => SettingsHold
  BY <1>1, <1>2, <1>3 DEF PanelsInv, SettingsHold
<1> QED  BY <1>4, Invariance, PTL

\* For any number of loads, writes, team runs and visits: a page at rest shows
\* what its own last write did, and says of every team run and comparison that
\* it is under way (Costs, Kairos, Team, Memory and Routes), except where the
\* named races say.
THEOREM PagesTheorem == Spec => []PagesAreCurrent
<1>1. ASSUME PagesInv, loads = <<>>, pageRaces \cap {"failed", "overtook", "abandoned"} = {},
             NEW part \in PartsOf(page), shown[part] # Nothing
      PROVE  shown[part] >= acked[part]
  BY <1>1 DEF PagesInv, OwnWritesInv, Recent
<1>2. PagesInv => OwnWritesShown
  BY <1>1 DEF OwnWritesShown
<1>3. PanelsInv => PagesAreCurrent
  BY <1>2 DEF PanelsInv, PagesInv, PagesAreCurrent
<1> QED  BY <1>3, Invariance, PTL
=============================================================================
