----------------------------- MODULE WebPanels -----------------------------
(***************************************************************************)
(* The shell of the web client (App.tsx): its status bar, and one page at  *)
(* a time, the Settings page (WebSettings) or one of the data pages        *)
(* (WebPages).  Going to another page unmounts the one that is shown.      *)
(***************************************************************************)
EXTENDS WebPages, WebSettings, FiniteSets

CONSTANT Budgets   \* bounds of a run: [pages, settings]

ASSUME BudgetsAssumption == \A b \in Budgets : b.pages \in PageAllowances

vars == <<pageVars, settingsVars>>

\* A run's budget says which pages are visited.
GoToPage ==
  /\ ~open /\ pageBudget.visits # <<>>
  /\ Mounted(Head(pageBudget.visits))
  /\ pageBudget' = [pageBudget EXCEPT !.visits = Tail(@)]
  /\ UNCHANGED settingsVars

GoToSettings ==
  /\ ~open /\ SettingsSpend("visits")
  /\ Mounted("other") /\ UNCHANGED pageBudget
  /\ Opened(TRUE)

LeaveSettings ==
  /\ open /\ SettingsSpend("visits")
  /\ Opened(FALSE)
  /\ UNCHANGED pageVars

Init ==
  /\ PagesInit /\ SettingsInit
  /\ \E b \in Budgets : pageBudget = b.pages /\ settingsBudget = b.settings

Next ==
  \/ PagesNext /\ UNCHANGED settingsVars
  \/ SettingsNext /\ UNCHANGED pageVars
  \/ GoToPage
  \/ GoToSettings
  \/ LeaveSettings

Spec == Init /\ [][Next]_vars /\ PagesFairness /\ SettingsFairness

-----------------------------------------------------------------------------
(* Properties *)

\* What a page shows when none of its requests is under way includes what its
\* own last write did, unless a load failed, an older load was overtaken by a
\* newer one, or the page was left under the write; and a team run or a
\* comparison is under way only while its page says so, unless that page was
\* left.
OwnWritesShown ==
  loads = <<>> /\ writes = {} /\ pageRaces \cap {"failed", "overtook", "abandoned"} = {} =>
    \A part \in PartsOf(page) : shown[part] # Nothing => shown[part] >= acked[part]
RunsAreVisible ==
  "left" \notin pageRaces => \A p \in DOMAIN runs : runs[p] = IF p = page /\ running THEN 1 ELSE 0
PagesAreCurrent == OwnWritesShown /\ RunsAreVisible

\* The running server and the file agree when no request is under way, so that
\* a restart goes on with the same model, unless two requests that rewrite the
\* file overlapped (a command of the projects is one), a provider was applied
\* without a model (which Advanced Settings allow), or a save failed or was cut
\* off, which nobody is told.
RestartKeepsModel ==
  requests = {} /\ settingsRaces \cap {"overlapped", "noModel", "unsaved"} = {} =>
    live = Persisted
\* What Settings show as current is what answers.
HeaderIsLive ==
  requests = {} /\ fetched = None /\ header # None
  /\ settingsRaces \cap {"overlapped", "unheard", "failed", "unsaved"} = {} => header = live
\* A key is registered for the provider it was typed for, unless another
\* provider was selected over it: its field is not cleared.
KeysAtTheirProvider ==
  "keyKept" \notin settingsRaces => \A p \in Provider : cfg.keys[p] \in {None, p}
SettingsHold == RestartKeepsModel /\ HeaderIsLive /\ KeysAtTheirProvider

\* Once the server's data no longer changes (a run's budget ends), the polled
\* pages come to show it and the status bar the active model, whatever was lost
\* or answered out of order before: the pages that load after their own writes
\* only have no such promise.
ViewsCatchUp ==
  /\ <>[](page \in Polled => \A part \in PartsOf(page) : shown[part] = data[part])
  /\ <>[](status = live)
=============================================================================
