---------------------------- MODULE WebProjects ----------------------------
(***************************************************************************)
(* The project switcher, the file tree and the editor of the web client:   *)
(* the side panel (components/SidePanel.tsx) and the status bar and file   *)
(* editor of the shell (App.tsx), against the server's active workspace,   *)
(* its configuration file and the files of the projects.                   *)
(*                                                                         *)
(* The panel and the bar each keep a copy of the project list and are      *)
(* refreshed by requests that are asked, read at the server and applied in *)
(* three separate steps; the editor names its file by a path relative to   *)
(* whatever workspace is active when the server gets the request.  The     *)
(* configuration file is written by other handlers too, and the files of   *)
(* the projects by the tools of sessions, teams and KAIROS tasks.          *)
(*                                                                         *)
(* The content of a file is [of, whole, empty, edits, tools]: whose text it*)
(* is, whether it is all of it (the server sends a placeholder for a binary*)
(* file and cuts a long one), whether it has no characters, and how often  *)
(* the user and how often tools have changed it.  races is a ghost: the    *)
(* interleavings met that the code does not guard against.                 *)
(***************************************************************************)
EXTENDS Integers, FiniteSets

CONSTANTS
  Project,     \* directories
  Path,        \* relative paths, present in every project
  Opaque,      \* the files <<project, path>> the server sends no full text of
  Home,        \* where the server is started: its workspace if the file has none
  NoProject,   \* no active project, nothing listed yet
  Empty,       \* no file open, no edit under way
  Budgets      \* bounds of a run, see Spend

ASSUME OpaqueAssumption == Opaque \subseteq Project \X Path
ASSUME HomeAssumption == Home \in Project

VARIABLES
  workDir,     \* the server's active workspace
  cfg,         \* [projects, workDir], the configuration file
  disk,        \* <<project, path>> -> content
  toolWrites,  \* ghost: <<project, path>> -> how often tools have written it
  bar,         \* [projects, active]: App's projects, shown in the status bar
  panel,       \* [projects, active, sessions, tree]: whose each of them is
  viewing,     \* [path, content] or Empty: viewingFile
  edit,        \* content or Empty: editMode and editContent
  commands,    \* PUT, POST and DELETE in flight
  gets,        \* GET in flight
  added,       \* projects whose addition was answered ok and not removed since
  races,       \* ghost
  budget

editor == <<disk, toolWrites, viewing, edit>>
vars == <<workDir, cfg, bar, panel, commands, gets, added, races, budget, editor>>

Spend(what) == budget[what] > 0 /\ budget' = [budget EXCEPT ![what] = @ - 1]
Raced(name, met) == IF met THEN {name} ELSE {}

List(projects, active) ==
  [projects |-> projects, active |-> IF active \in projects THEN active ELSE NoProject]
Get(what, by, chain, arg) ==
  [what |-> what, by |-> by, chain |-> chain, arg |-> arg, read |-> FALSE, val |-> NoProject]
Reload == {Get("projects", "panel", FALSE, NoProject),
           Get("workspace", "panel", FALSE, NoProject),
           Get("tree", "panel", FALSE, NoProject)}

\* A reload of the lists is under way.
Loading == \E g \in gets : g.what # "file"
Switching == \E c \in commands : c.op # "write"
Opening == \E g \in gets : g.what = "file"
Saving == \E c \in commands : c.op = "write"

-----------------------------------------------------------------------------
(* Commands of the user *)

Command(op, by, path) ==
  [op |-> op, by |-> by, path |-> path, at |-> "sent", cfg |-> cfg, view |-> Empty,
   content |-> Empty]

Issue(op, by, path) ==
  /\ Spend("commands")
  /\ commands' = commands \cup {Command(op, by, path)}
  /\ races' = races \cup Raced("overlapped", Loading \/ Switching)
                    \cup Raced("unheard", by = "bar" \/ op = "remove")
  /\ UNCHANGED <<workDir, cfg, bar, panel, gets, added, editor>>

SwitchFromPanel == \E p \in panel.projects : Issue("switch", "panel", p)
SwitchFromBar == \E p \in bar.projects : Issue("switch", "bar", p)
\* The folder browser walks to any directory.
Addable == Project
AddProject == \E p \in Addable : Issue("add", "panel", p)
RemoveProject == \E p \in panel.projects : Issue("remove", "panel", p)
\* The model picker, a provider's key, the source of the skills: they rewrite
\* the same file.
OtherSetting == Issue("other", "app", NoProject)

-----------------------------------------------------------------------------
(* The server: the file is read, changed and written without a lock *)

\* What Load makes of a file that is missing, empty or no JSON.
Defaults == [projects |-> {}, workDir |-> NoProject]

\* The workspace under an open, or opening, file changes.
Moved(dir) == Raced("moved", dir # workDir /\ (viewing # Empty \/ Opening \/ Saving))

Refused(c) ==
  \/ c.op = "add" /\ c.path \in cfg.projects
  \/ c.op = "remove" /\ c.path \notin cfg.projects

\* Between the load of the file and the end of its rewriting.
Rewriting(c) == c.at \in {"loaded", "writing"}

\* handleSetWorkspace sets the workspace first, then loads the file.
LoadConfig == \E c \in commands :
  LET dir == IF c.op = "switch" THEN c.path ELSE workDir IN
  /\ c.at = "sent" /\ c.op # "write"
  /\ commands' = (commands \ {c})
       \cup {[c EXCEPT !.at = IF Refused(c) THEN "refused" ELSE "loaded", !.cfg = cfg]}
  /\ workDir' = dir
  /\ races' = races \cup Moved(dir) \cup Raced("interleaved", \E d \in commands : Rewriting(d))
  /\ UNCHANGED <<cfg, bar, panel, gets, added, budget, editor>>

\* Mutant: the file is written from the request alone.
UpdatedAnew(c) == [projects |-> {c.path}, workDir |-> c.path]

Updated(c) ==
  CASE c.op = "switch" -> [c.cfg EXCEPT !.workDir = c.path]
    [] c.op = "add" -> [c.cfg EXCEPT !.projects = @ \cup {c.path}]
    [] c.op = "remove" -> [c.cfg EXCEPT !.projects = @ \ {c.path}]
    [] OTHER -> c.cfg

\* config.Save rewrites the file in place: first it is cut to nothing.
TruncateConfig == \E c \in commands :
  /\ c.at = "loaded"
  /\ cfg' = Defaults
  /\ commands' = (commands \ {c}) \cup {[c EXCEPT !.at = "writing"]}
  /\ UNCHANGED <<workDir, bar, panel, gets, added, races, budget, editor>>

\* Over a longer text that another handler wrote meanwhile, the rest of it
\* stays and the file is no JSON.  handleAddProject switches after it saved; the
\* workspace it switches to is not in the file.
WriteConfig == \E c \in commands :
  LET dir == IF c.op = "add" THEN c.path ELSE workDir IN
  /\ c.at = "writing"
  /\ cfg' = Updated(c) \/ (cfg # Defaults /\ cfg' = Defaults)
  /\ commands' = (commands \ {c}) \cup {[c EXCEPT !.at = "done"]}
  /\ workDir' = dir
  /\ added' = CASE c.op = "add" -> added \cup {c.path}
                [] c.op = "remove" -> added \ {c.path}
                [] OTHER -> added
  /\ races' = races \cup Moved(dir)
  /\ UNCHANGED <<bar, panel, gets, budget, editor>>

\* The file cannot be opened, or the disk is full once it is cut: an addition is
\* answered 500, the others ignore it.
SaveFails == \E c \in commands :
  /\ Rewriting(c) /\ Spend("fails")
  /\ commands' = (commands \ {c})
       \cup {[c EXCEPT !.at = IF c.op = "add" THEN "refused" ELSE "done"]}
  /\ added' = IF c.op = "remove" THEN added \ {c.path} ELSE added
  /\ races' = races \cup Raced("cut", c.at = "writing")
  /\ UNCHANGED <<workDir, cfg, bar, panel, gets, editor>>

\* A restarted server takes its workspace from the file.  What it had not
\* answered is lost; a configuration it was writing stays cut.  (A GET it was
\* answering fails, see GetFails and OpenFails; a file it was saving may be cut,
\* see WriteFile.)
Restart ==
  LET dir == IF cfg.workDir = NoProject THEN Home ELSE cfg.workDir IN
  /\ \A g \in gets : g.read
  /\ Spend("restarts")
  /\ commands' \in SUBSET {c \in commands : c.at \in {"done", "refused"}}
  /\ workDir' = dir
  /\ races' = races \cup Moved(dir) \cup Raced("reverted", dir # workDir)
                    \cup Raced("failed", commands' # commands)
                    \cup Raced("cut", \E c \in commands : c.at = "writing")
                    \cup Raced("refused", \E c \in commands \ commands' : c.op = "write")
  /\ UNCHANGED <<cfg, bar, panel, gets, added, editor>>

-----------------------------------------------------------------------------
(* The client goes on *)

\* Mutant: a switch reloads the project list only.
ReloadsProjectsOnly(c) == IF c.op = "other" THEN {} ELSE {Get("projects", c.by, FALSE, NoProject)}

\* What each caller reloads when its command is answered.
Reloads(c) ==
  IF c.op = "other" THEN {} ELSE
  CASE c.by = "bar" -> {Get("projects", "bar", FALSE, NoProject)}
    [] c.by = "panel" /\ c.op = "remove" -> {Get("projects", "panel", FALSE, NoProject)}
    [] OTHER -> {Get("projects", "panel", TRUE, NoProject)}

CommandAnswered == \E c \in commands :
  /\ c.at \in {"done", "refused"} /\ c.op # "write"
  /\ commands' = commands \ {c}
  /\ gets' = IF c.at = "done" THEN gets \cup Reloads(c) ELSE gets
  /\ UNCHANGED <<workDir, cfg, bar, panel, added, races, budget, editor>>

\* Mutant: a file is read in the project of the panel's tree.
AnswerFromTree(g) ==
  CASE g.what = "projects" -> List(cfg.projects, workDir)
    [] g.what = "sessions" -> g.arg
    [] g.what = "file" -> disk[<<panel.tree, g.arg>>]
    [] OTHER -> workDir

\* What a GET finds at the server.  A list of sessions is asked for a
\* workspace that an earlier answer named.
Answer(g) ==
  CASE g.what = "projects" -> List(cfg.projects, workDir)
    [] g.what = "sessions" -> g.arg
    [] g.what = "file" ->
         LET file == <<workDir, g.arg>>
         IN  IF file \in Opaque THEN [disk[file] EXCEPT !.whole = FALSE] ELSE disk[file]
    [] OTHER -> workDir

ReadGet == \E g \in gets :
  /\ ~g.read
  /\ gets' = (gets \ {g}) \cup {[g EXCEPT !.read = TRUE, !.val = Answer(g)]}
  /\ UNCHANGED <<workDir, cfg, bar, panel, commands, added, races, budget, editor>>

\* After the panel's switch: sessions, tree and, through onProjectSwitch, App.
Then(g) ==
  CASE g.what = "projects" /\ g.chain ->
         {Get("workspace", "panel", FALSE, NoProject), Get("tree", "panel", FALSE, NoProject),
          Get("projects", "bar", FALSE, NoProject)}
    [] g.what = "workspace" -> {Get("sessions", "panel", FALSE, g.val)}
    [] OTHER -> {}

ApplyList(g) ==
  CASE g.what = "projects" /\ g.by = "bar" -> bar' = g.val /\ UNCHANGED panel
    [] g.what = "projects" /\ g.by = "panel" ->
         /\ panel' = [panel EXCEPT !.projects = g.val.projects, !.active = g.val.active]
         /\ UNCHANGED bar
    [] g.what = "sessions" -> panel' = [panel EXCEPT !.sessions = g.val] /\ UNCHANGED bar
    [] g.what = "tree" -> panel' = [panel EXCEPT !.tree = g.val] /\ UNCHANGED bar
    [] OTHER -> UNCHANGED <<bar, panel>>

ListAnswered == \E g \in gets :
  /\ g.read /\ g.what # "file"
  /\ gets' = (gets \ {g}) \cup Then(g)
  /\ ApplyList(g)
  /\ UNCHANGED <<workDir, cfg, commands, added, races, budget, editor>>

\* A failed GET shows an empty list; the chain goes on, and without a workspace
\* the sessions of all of them are listed.
GetFails == \E g \in gets :
  LET none == [g EXCEPT !.val = IF g.what = "projects" THEN List({}, NoProject) ELSE NoProject] IN
  /\ g.what # "file" /\ Spend("fails")
  /\ gets' = (gets \ {g}) \cup Then(none)
  /\ ApplyList(none)
  /\ races' = races \cup {"failed"}
  /\ UNCHANGED <<workDir, cfg, commands, added, editor>>

-----------------------------------------------------------------------------
(* The editor *)

shell == <<workDir, cfg, bar, panel, added>>

\* A click on a file of the tree.
Open == \E f \in Path :
  /\ panel.tree # NoProject /\ Spend("opens")
  /\ gets' = gets \cup {Get("file", "app", FALSE, f)}
  /\ races' = races \cup Raced("reopened", Saving)
  /\ UNCHANGED <<shell, commands, editor>>

\* data.content || data: an empty text is falsy and the view gets the whole
\* answer for it, an object that is no text of the file.
Displayed(content) == IF content.empty THEN [content EXCEPT !.whole = FALSE] ELSE content

\* The answer is shown whatever is being edited; edit mode stays on.
FileAnswered == \E g \in gets :
  /\ g.what = "file" /\ g.read
  /\ gets' = gets \ {g}
  /\ viewing' = [path |-> g.arg, content |-> Displayed(g.val)]
  /\ races' = races \cup Raced("reopened", edit # Empty \/ Saving)
                    \cup Raced("placeholder", ~Displayed(g.val).whole)
  /\ UNCHANGED <<shell, disk, toolWrites, edit, commands, budget>>

\* A file that cannot be read is shown as "Failed to load file", which can be
\* edited and saved like any text.
LoadError(file) == [of |-> file, whole |-> FALSE, empty |-> FALSE, edits |-> 0, tools |-> 0]

OpenFails == \E g \in gets :
  /\ g.what = "file" /\ Spend("fails")
  /\ gets' = gets \ {g}
  /\ viewing' = [path |-> g.arg, content |-> LoadError(<<workDir, g.arg>>)]
  /\ races' = races \cup {"placeholder"} \cup Raced("reopened", edit # Empty \/ Saving)
  /\ UNCHANGED <<shell, disk, toolWrites, edit, commands>>

StartEdit ==
  /\ viewing # Empty /\ edit = Empty
  /\ edit' = viewing.content
  /\ UNCHANGED <<shell, disk, toolWrites, viewing, commands, gets, races, budget>>

\* The user may delete all of the text.
Type == \E empty \in BOOLEAN :
  /\ edit # Empty /\ Spend("types")
  /\ edit' = [edit EXCEPT !.edits = @ + 1, !.empty = empty]
  /\ UNCHANGED <<shell, disk, toolWrites, viewing, commands, gets, races>>

CancelEdit ==
  /\ edit # Empty
  /\ edit' = Empty
  /\ UNCHANGED <<shell, disk, toolWrites, viewing, commands, gets, races, budget>>

Close ==
  /\ viewing # Empty /\ Spend("closes")
  /\ viewing' = Empty
  /\ edit' = Empty
  /\ races' = races \cup Raced("reopened", Saving)
  /\ UNCHANGED <<shell, disk, toolWrites, commands, gets>>

\* Save posts the text under the path of the file in view.
SaveFile ==
  /\ edit # Empty /\ viewing # Empty /\ Spend("saves")
  /\ commands' = commands \cup
       {[Command("write", "app", viewing.path) EXCEPT !.view = viewing, !.content = edit]}
  /\ races' = races \cup Raced("reopened", Opening \/ Saving)
  /\ UNCHANGED <<shell, gets, editor>>

\* The path is joined to the workspace of the moment.  A refusal is an answer
\* like any other: the status is not looked at.
Written(c) == [disk EXCEPT ![<<workDir, c.path>>] = c.content]
\* Only a part of the text was written.
Torn(c) == [disk EXCEPT ![<<workDir, c.path>>] = [c.content EXCEPT !.whole = FALSE]]

WriteFile == \E c \in commands :
  /\ c.op = "write" /\ c.at = "sent"
  /\ commands' = (commands \ {c}) \cup {[c EXCEPT !.at = "done"]}
  /\ \/ disk' = Written(c) /\ UNCHANGED <<races, budget>>
     \/ Spend("fails") /\ races' = races \cup {"refused"} /\ UNCHANGED disk
     \/ Spend("fails") /\ races' = races \cup {"refused", "torn"} /\ disk' = Torn(c)
  /\ UNCHANGED <<shell, toolWrites, viewing, edit, gets>>

\* Mutant: the view is not given the saved text.
FileSavedStale == \E c \in commands :
  /\ c.op = "write" /\ c.at = "done"
  /\ commands' = commands \ {c}
  /\ edit' = Empty
  /\ UNCHANGED <<shell, disk, toolWrites, viewing, gets, races, budget>>

\* The file and the text of the click are shown again, edit mode ends.
FileSaved == \E c \in commands :
  /\ c.op = "write" /\ c.at = "done"
  /\ commands' = commands \ {c}
  /\ viewing' = [c.view EXCEPT !.content = c.content]
  /\ edit' = Empty
  /\ UNCHANGED <<shell, disk, toolWrites, gets, races, budget>>

\* The file is in view, on its way there or being saved.
InEditor(file) ==
  \/ viewing # Empty /\ file = <<workDir, viewing.path>>
  \/ \E g \in gets : g.what = "file" /\ g.read /\ file = <<workDir, g.arg>>
  \/ \E c \in commands : c.op = "write" /\ file = <<workDir, c.path>>

\* Write, Edit or Bash of a session, a team's worker or a KAIROS task.
ToolWrites == \E file \in Project \X Path, empty \in BOOLEAN :
  /\ Spend("tools")
  /\ toolWrites' = [toolWrites EXCEPT ![file] = @ + 1]
  /\ disk' = [disk EXCEPT ![file] = [of |-> file, whole |-> TRUE, empty |-> empty, edits |-> 0,
                                     tools |-> toolWrites'[file]]]
  /\ races' = races \cup Raced("rewritten", InEditor(file))
  /\ UNCHANGED <<shell, viewing, edit, commands, gets>>

\* The client has just been mounted, or has loaded its lists already.
Init ==
  /\ budget \in Budgets
  /\ workDir \in Project
  /\ cfg = [projects |-> {workDir}, workDir |-> workDir]
  /\ disk = [file \in Project \X Path |->
               [of |-> file, whole |-> TRUE, empty |-> FALSE, edits |-> 0, tools |-> 0]]
  /\ toolWrites = [file \in Project \X Path |-> 0]
  /\ IF budget.mounting = 1
     THEN /\ bar = List({}, NoProject)
          /\ panel = [projects |-> {}, active |-> NoProject, sessions |-> NoProject,
                      tree |-> NoProject]
          /\ gets = Reload \cup {Get("projects", "bar", FALSE, NoProject)}
     ELSE /\ bar = List(cfg.projects, workDir)
          /\ panel = [projects |-> cfg.projects, active |-> workDir, sessions |-> workDir,
                      tree |-> workDir]
          /\ gets = {}
  /\ viewing = Empty /\ edit = Empty /\ commands = {}
  /\ added = {} /\ races = {}

Next ==
  \/ SwitchFromPanel \/ SwitchFromBar \/ AddProject \/ RemoveProject \/ OtherSetting
  \/ LoadConfig \/ TruncateConfig \/ WriteConfig \/ SaveFails \/ Restart
  \/ CommandAnswered \/ ReadGet \/ ListAnswered \/ GetFails
  \/ Open \/ FileAnswered \/ OpenFails \/ StartEdit \/ Type \/ CancelEdit \/ Close \/ SaveFile
  \/ WriteFile \/ FileSaved \/ ToolWrites

Spec == Init /\ [][Next]_vars

-----------------------------------------------------------------------------
(* Properties *)

AtRest == ~Loading /\ ~Switching

\* At rest the bar, the panel's header, its sessions and its file tree all show
\* the server's workspace, so that a file is read where it was picked.  It may
\* fail only after a switch from the bar or a removal (each refreshes one of the
\* two copies), overlapping commands, a failed request, a configuration file cut
\* off while it was written, or a restart that returns to another workspace: a
\* project that was added is active without being written to the file as the
\* workspace.
CopiesAgree ==
  AtRest /\ races \cap {"unheard", "overlapped", "failed", "cut", "reverted"} = {} =>
    /\ panel.tree = workDir
    /\ panel.sessions = workDir
    /\ panel.active = List(cfg.projects, workDir).active
    /\ bar = List(cfg.projects, workDir)

\* A project whose addition was answered ok stays registered until it is
\* removed, however many requests that rewrite the file are in flight: only two
\* rewritings of it that interleave, from the load to the last byte, or one that
\* is cut off, lose it.  (While the file is being written it is empty.)
AddedStaysRegistered ==
  races \cap {"interleaved", "cut"} = {} /\ (\A c \in commands : c.at # "writing")
    => added \subseteq cfg.projects

\* A file only ever gets text that was read from it, all of it, and with all
\* that tools wrote to it: saving may destroy a file's text only after the
\* workspace changed under the editor, another file was opened in edit mode, a
\* placeholder (or an empty file, shown as its answer) was opened for editing, a
\* tool wrote the file while the editor had it, or the save itself was cut off.
FilesKeepTheirText ==
  races \cap {"moved", "reopened", "placeholder", "rewritten", "torn"} = {} =>
    \A file \in DOMAIN disk :
      disk[file].of = file /\ disk[file].whole /\ disk[file].tools = toolWrites[file]

\* What the closed editor shows of a file is what is on disk, unless a write
\* was refused (App does not look at its status), its answer was lost, or one of
\* the races above.
EditorShowsDisk ==
  viewing # Empty /\ edit = Empty /\ ~Saving
  /\ races \cap {"moved", "reopened", "placeholder", "rewritten", "refused"} = {}
    => disk[<<workDir, viewing.path>>] = viewing.content
=============================================================================
