------------------------- MODULE WebProjects_proofs -------------------------
(***************************************************************************)
(* What holds of the project switcher, the file tree and the editor for    *)
(* any number of projects, files, clicks, requests and restarts: which     *)
(* interleavings part the client's copies from the server, lose a project  *)
(* that was added, or put a text into a file it was not read from.         *)
(***************************************************************************)
EXTENDS WebProjects, TLAPS

-----------------------------------------------------------------------------
(* Types *)

OptProject == Project \cup {NoProject}
Configs == [projects : SUBSET Project, workDir : OptProject]
Files == Project \X Path
Contents == [of : Files, whole : BOOLEAN, empty : BOOLEAN, edits : Nat, tools : Nat]
Views == [path : Path, content : Contents]
Lists == [projects : SUBSET Project, active : OptProject]
Panels == [projects : SUBSET Project, active : OptProject, sessions : OptProject, tree : OptProject]
OpNames == {"switch", "add", "remove", "other", "write"}
Places == {"sent", "loaded", "writing", "refused", "done"}
Targets == Project \cup Path \cup {NoProject}
Commands ==
  [op : OpNames, by : {"panel", "bar", "app"}, path : Targets, at : Places,
   cfg : Configs, view : Views \cup {Empty}, content : Contents \cup {Empty}]
Kinds == {"projects", "workspace", "tree", "sessions", "file"}
Askers == {"panel", "bar", "app"}
Gets ==
  [what : Kinds, by : Askers, chain : BOOLEAN, arg : OptProject \cup Path, read : BOOLEAN,
   val : OptProject \cup Lists \cup Contents]

CommandType(c) ==
  IF c.op = "write"
  THEN /\ c.path \in Path /\ c.at \in {"sent", "done"}
       /\ c.view \in Views /\ c.content \in Contents /\ c.path = c.view.path
  ELSE /\ c.op # "other" => c.path \in Project
       /\ c.at = "refused" => c.op \notin {"switch", "other"}

GetType(g) ==
  /\ g.what = "file" => g.arg \in Path /\ (g.read => g.val \in Contents)
  /\ g.what = "projects" => g.by \in {"panel", "bar"} /\ (g.read => g.val \in Lists)
  /\ g.what \in {"workspace", "tree", "sessions"} =>
       g.arg \in OptProject /\ (g.read => g.val \in OptProject)
  /\ g.chain => g.what = "projects" /\ g.by = "panel"

TypeOK ==
  /\ workDir \in Project /\ cfg \in Configs
  /\ disk \in [Files -> Contents] /\ toolWrites \in [Files -> Nat]
  /\ bar \in Lists /\ panel \in Panels
  /\ viewing \in Views \cup {Empty} /\ edit \in Contents \cup {Empty}
  /\ commands \subseteq Commands /\ \A c \in commands : CommandType(c)
  /\ gets \subseteq Gets /\ \A g \in gets : GetType(g)

-----------------------------------------------------------------------------
(* The invariant *)

\* One command at a time, and no list is loaded meanwhile; what it read of the
\* file is still there until it cuts the file.
OneAtATime ==
  "overlapped" \notin races =>
    /\ \A c, d \in commands : c.op # "write" /\ d.op # "write" => c = d
    /\ Switching => ~Loading
    /\ \A c \in commands : c.at = "loaded" => c.cfg = cfg
    /\ \A c \in commands : c.at = "writing" => cfg = Defaults

\* One command rewrites the file at a time, from what the file says, or said
\* before it was cut.
AddedInv ==
  races \cap {"interleaved", "cut"} = {} =>
    /\ \A c, d \in commands : Rewriting(c) /\ Rewriting(d) => c = d
    /\ \A c \in commands : c.at = "loaded" => c.cfg = cfg
    /\ \A c \in commands : c.at = "writing" => cfg = Defaults /\ added \subseteq c.cfg.projects
    /\ (\A c \in commands : c.at # "writing") => added \subseteq cfg.projects

\* A text is all of the file that a path means now, with all that tools wrote.
Own(text, path) ==
  text.of = <<workDir, path>> /\ text.whole /\ text.tools = toolWrites[<<workDir, path>>]

FilesInv ==
  races \cap {"moved", "reopened", "placeholder", "rewritten", "torn"} = {} =>
    /\ \A f \in Files : disk[f].of = f /\ disk[f].whole /\ disk[f].tools = toolWrites[f]
    /\ viewing # Empty => Own(viewing.content, viewing.path)
    /\ edit # Empty => viewing # Empty /\ Own(edit, viewing.path)
    /\ \A c \in commands : c.op = "write" => Own(c.content, c.path)
    /\ \A g \in gets : g.what = "file" /\ g.read =>
         g.val.of = <<workDir, g.arg>> /\ g.val.tools = toolWrites[<<workDir, g.arg>>]

\* One file is opened or saved at a time, and what was read or written is still
\* on disk.
OnDisk(text, path) == disk[<<workDir, path>>] = text
EditorInv ==
  races \cap {"moved", "reopened", "placeholder", "rewritten", "refused"} = {} =>
    /\ Opening => ~Saving
    /\ \A c, d \in commands : c.op = "write" /\ d.op = "write" => c = d
    /\ viewing # Empty /\ ~Saving => OnDisk(viewing.content, viewing.path)
    /\ \A c \in commands : c.op = "write" /\ c.at = "done" => OnDisk(c.content, c.path)
    /\ \A g \in gets : g.what = "file" /\ g.read /\ g.val.whole => OnDisk(g.val, g.arg)

\* A copy that is out of date has a request under way that will renew it.
Chained == \E g \in gets : g.what = "projects" /\ g.by = "panel" /\ g.chain
Asks(what) == \E g \in gets : g.what = what
AsksFor(by) == \E g \in gets : g.what = "projects" /\ g.by = by
Covered(file) ==
  /\ Chained \/ panel.tree = workDir \/ Asks("tree")
  /\ Chained \/ panel.sessions = workDir \/ Asks("workspace") \/ Asks("sessions")
  /\ panel.active = List(file.projects, workDir).active \/ AsksFor("panel")
  /\ Chained \/ bar = List(file.projects, workDir) \/ AsksFor("bar")
\* The command has changed what the copies are copies of, and is not answered.
Changing(c) ==
  \/ c.op \in {"switch", "add"} /\ c.at \in {"writing", "done"}
  \/ c.op = "switch" /\ c.at = "loaded"
  \/ c.op = "other" /\ c.at = "writing"
Quiet == \A c \in commands : ~Changing(c)
Fresh(g) ==
  /\ g.what = "projects" => g.val = List(cfg.projects, workDir)
  /\ g.what \in {"workspace", "tree", "sessions"} => g.val = workDir
CopiesInv ==
  races \cap {"unheard", "overlapped", "failed", "cut", "reverted"} = {} =>
    /\ \A c \in commands : c.op \notin {"write", "other"} => c.by = "panel" /\ c.op # "remove"
    /\ \A g \in gets : g.read => Fresh(g)
    /\ \A g \in gets : g.what = "sessions" => g.arg = workDir
    /\ Quiet => Covered(cfg)
    /\ \A c \in commands : c.op = "other" /\ c.at = "writing" => Covered(c.cfg)

ProjectsInv == TypeOK /\ OneAtATime /\ AddedInv /\ FilesInv /\ EditorInv /\ CopiesInv

-----------------------------------------------------------------------------
(* Records *)

\* A command goes on.
LEMMA CommandArrives ==
  ASSUME NEW c \in Commands, NEW a \in Places, NEW n, n = [c EXCEPT !.at = a]
  PROVE  /\ n \in Commands /\ n.op = c.op /\ n.by = c.by /\ n.path = c.path /\ n.at = a
         /\ n.cfg = c.cfg /\ n.view = c.view /\ n.content = c.content
BY DEF Commands

\* A request is made.
LEMMA CommandIs ==
  ASSUME cfg \in Configs, NEW op \in OpNames, NEW by \in Askers, NEW path \in Targets
  PROVE  /\ Command(op, by, path) \in Commands
         /\ Command(op, by, path).op = op /\ Command(op, by, path).by = by
         /\ Command(op, by, path).path = path /\ Command(op, by, path).at = "sent"
<1> DEFINE a == "sent"
<1>1. a \in Places /\ by \in {"panel", "bar", "app"}
  BY DEF Places, Askers
<1>2. Command(op, by, path) = [op |-> op, by |-> by, path |-> path, at |-> a, cfg |-> cfg,
                               view |-> Empty, content |-> Empty]
  BY DEF Command
<1> HIDE DEF a
<1>3. /\ Command(op, by, path) \in Commands
      /\ Command(op, by, path).op = op /\ Command(op, by, path).by = by
      /\ Command(op, by, path).path = path /\ Command(op, by, path).at = a
  BY <1>1, <1>2 DEF Commands
<1> QED  BY <1>3 DEF a

LEMMA GetIs ==
  ASSUME NEW what \in Kinds, NEW by \in Askers, NEW chain \in BOOLEAN,
         NEW arg \in OptProject \cup Path, NEW g, g = Get(what, by, chain, arg)
  PROVE  /\ g \in Gets /\ g.what = what /\ g.by = by /\ g.chain = chain /\ g.arg = arg /\ ~g.read
<1> DEFINE no == FALSE
<1>1. no \in BOOLEAN /\ NoProject \in OptProject \cup Lists \cup Contents
  BY DEF OptProject
<1>2. g = [what |-> what, by |-> by, chain |-> chain, arg |-> arg, read |-> no, val |-> NoProject]
  BY DEF Get
<1> HIDE DEF no
<1>3. g \in Gets /\ g.what = what /\ g.by = by /\ g.chain = chain /\ g.arg = arg /\ g.read = no
  BY <1>1, <1>2 DEF Gets
<1> QED  BY <1>3 DEF no

LEMMA ListIs ==
  ASSUME NEW P \in SUBSET Project, NEW p \in OptProject
  PROVE  /\ List(P, p) \in Lists /\ List(P, p).projects = P
         /\ List(P, p).active = IF p \in P THEN p ELSE NoProject
BY DEF List, Lists, OptProject

-----------------------------------------------------------------------------
(* Commands *)

\* Nothing of the editor's changes.
LEMMA EditorStays ==
  ASSUME ProjectsInv, UNCHANGED <<workDir, editor>>, races \subseteq races',
         \A g \in gets' : g.what = "file" => g \in gets,
         \A g \in gets : g.what = "file" => g \in gets',
         \A c \in commands' : c.op = "write" => c \in commands,
         \A c \in commands : c.op = "write" => c \in commands' \/ "refused" \in races'
  PROVE  FilesInv' /\ EditorInv'
<1>1. FilesInv'
  BY DEF editor, ProjectsInv, FilesInv, Own
<1>2. Opening' = Opening /\ (Saving' => Saving) /\ ("refused" \notin races' => Saving' = Saving)
  BY DEF Opening, Saving
<1>3. EditorInv'
  BY <1>2 DEF editor, ProjectsInv, EditorInv, OnDisk
<1> QED  BY <1>1, <1>3

LEMMA IssueKeeps ==
  ASSUME ProjectsInv, NEW op \in {"switch", "add", "remove", "other"}, NEW by \in Askers,
         NEW p \in Targets, op # "other" => p \in Project /\ by # "app", Issue(op, by, p)
  PROVE  ProjectsInv'
<1> DEFINE n == Command(op, by, p)
<1>1. /\ commands' = commands \cup {n}
      /\ races' = races \cup Raced("overlapped", Loading \/ Switching)
                        \cup Raced("unheard", by = "bar" \/ op = "remove")
      /\ UNCHANGED <<workDir, cfg, bar, panel, gets, added, editor>>
  BY DEF Issue
<1>2. n \in Commands /\ n.op = op /\ n.by = by /\ n.path = p /\ n.at = "sent"
  BY CommandIs DEF ProjectsInv, TypeOK, OpNames
<1> HIDE DEF n
<1>3. /\ races \subseteq races'
      /\ "overlapped" \notin races' => "overlapped" \notin races /\ ~Loading /\ ~Switching
      /\ "unheard" \notin races' => by # "bar" /\ op # "remove"
      /\ "interleaved" \notin races' => "interleaved" \notin races
  BY <1>1 DEF Raced
<1>4. CommandType(n)
  BY <1>2 DEF CommandType
<1>5. TypeOK'
  BY <1>1, <1>2, <1>4 DEF ProjectsInv, TypeOK, editor
<1>6. OneAtATime'
  <2> SUFFICES ASSUME "overlapped" \notin races' PROVE OneAtATime'
    BY DEF OneAtATime
  <2>1. /\ ~Loading /\ ~Switching
        /\ \A c \in commands : c.at = "loaded" => c.cfg = cfg
        /\ \A c \in commands : c.at = "writing" => cfg = Defaults
    BY <1>3 DEF ProjectsInv, OneAtATime
  <2>2. \A c \in commands' : c.op # "write" => c = n
    BY <1>1, <2>1 DEF Switching
  <2>3. ~Loading'
    BY <1>1, <2>1 DEF Loading
  <2>4. /\ \A c \in commands' : c.at = "loaded" => c.cfg = cfg
        /\ \A c \in commands' : c.at = "writing" => cfg = Defaults
    BY <1>1, <1>2, <2>1 DEF Defaults
  <2> QED  BY <1>1, <2>2, <2>3, <2>4 DEF OneAtATime, Defaults
<1>7. AddedInv'
  <2>1. \A c \in commands' : Rewriting(c) => c \in commands /\ Rewriting(c)
    BY <1>1, <1>2 DEF Rewriting
  <2> QED  BY <1>1, <1>2, <1>3, <2>1 DEF ProjectsInv, AddedInv, Rewriting, Defaults
<1>8. FilesInv' /\ EditorInv'
  <2>1. n.op # "write"
    BY <1>2
  <2> QED  BY <1>1, <1>3, <2>1, EditorStays
<1>9. CopiesInv'
  <2> SUFFICES ASSUME races' \cap {"unheard", "overlapped", "failed", "cut", "reverted"} = {}
               PROVE  CopiesInv'
    BY DEF CopiesInv
  <2>1. /\ races \cap {"unheard", "overlapped", "failed", "cut", "reverted"} = {}
        /\ ~Switching /\ by # "bar" /\ op # "remove"
    BY <1>3
  <2>2. Quiet
    BY <2>1 DEF Quiet, Changing, Switching
  <2>3. Covered(cfg)
    BY <2>1, <2>2 DEF ProjectsInv, CopiesInv
  <2>4. Covered(cfg)'
    BY <1>1, <2>3 DEF Covered, Chained, Asks, AsksFor
  <2>5. \A c \in commands' : c.op \notin {"write", "other"} => c.by = "panel" /\ c.op # "remove"
    BY <1>1, <1>2, <2>1 DEF Switching, Askers
  <2>6. /\ \A g \in gets' : g.read => Fresh(g)'
        /\ \A g \in gets' : g.what = "sessions" => g.arg = workDir'
    BY <1>1, <2>1 DEF ProjectsInv, CopiesInv, Fresh
  <2>7. \A c \in commands' : c.op = "other" => c.at # "writing"
    BY <1>1, <1>2, <2>1 DEF Switching
  <2> QED  BY <2>4, <2>5, <2>6, <2>7 DEF CopiesInv
<1> QED  BY <1>5, <1>6, <1>7, <1>8, <1>9 DEF ProjectsInv

LEMMA CommandsKeep ==
  ProjectsInv /\ (SwitchFromPanel \/ SwitchFromBar \/ AddProject \/ RemoveProject \/ OtherSetting)
    => ProjectsInv'
<1> SUFFICES ASSUME ProjectsInv,
                    SwitchFromPanel \/ SwitchFromBar \/ AddProject \/ RemoveProject \/ OtherSetting
             PROVE  ProjectsInv'
  OBVIOUS
<1>1. panel.projects \subseteq Project /\ bar.projects \subseteq Project
  BY DEF ProjectsInv, TypeOK, Panels, Lists
<1>2. Project \subseteq Targets /\ NoProject \in Targets
  BY DEF Targets
<1>3. "panel" \in Askers /\ "bar" \in Askers /\ "app" \in Askers
  BY DEF Askers
<1>4. CASE SwitchFromPanel
  BY <1>1, <1>2, <1>3, <1>4, IssueKeeps DEF SwitchFromPanel
<1>5. CASE SwitchFromBar
  BY <1>1, <1>2, <1>3, <1>5, IssueKeeps DEF SwitchFromBar
<1>6. CASE AddProject
  BY <1>2, <1>3, <1>6, IssueKeeps DEF AddProject, Addable
<1>7. CASE RemoveProject
  BY <1>1, <1>2, <1>3, <1>7, IssueKeeps DEF RemoveProject
<1>8. CASE OtherSetting
  BY <1>2, <1>3, <1>8, IssueKeeps DEF OtherSetting
<1> QED  BY <1>4, <1>5, <1>6, <1>7, <1>8

\* A command that is not a write takes the place of itself.
LEMMA CommandReplaced ==
  ASSUME NEW c \in commands, c.op # "write", NEW n, n.op = c.op,
         commands' = (commands \ {c}) \cup {n}
  PROVE  /\ \A d \in commands' : d.op = "write" => d \in commands
         /\ \A d \in commands : d.op = "write" => d \in commands'
         /\ (\A d, e \in commands : d.op # "write" /\ e.op # "write" => d = e)
              => \A d \in commands' : d.op # "write" => d = n
         /\ Switching /\ Saving' = Saving
<1>1. /\ \A d \in commands' : d.op = "write" => d \in commands
      /\ \A d \in commands : d.op = "write" => d \in commands'
  OBVIOUS
<1> QED  BY <1>1 DEF Switching, Saving

\* The workspace moves only when no file is open, opened or saved.
LEMMA WorkspaceMoves ==
  ASSUME ProjectsInv, UNCHANGED <<editor, gets>>,
         races \subseteq races', Moved(workDir') \subseteq races',
         \A c \in commands' : c.op = "write" => c \in commands,
         \A c \in commands : c.op = "write" => c \in commands' \/ "refused" \in races'
  PROVE  FilesInv' /\ EditorInv'
<1>1. CASE workDir' = workDir
  BY <1>1, EditorStays
<1>2. CASE workDir' # workDir /\ (viewing # Empty \/ Opening \/ Saving)
  BY <1>2 DEF Moved, Raced, FilesInv, EditorInv
<1>3. CASE viewing = Empty /\ ~Opening /\ ~Saving
  <2>1. ~Opening' /\ ~Saving'
    BY <1>3 DEF Opening, Saving
  <2>2. FilesInv'
    BY <1>3, <2>1 DEF ProjectsInv, FilesInv, Opening, Saving, editor
  <2>3. EditorInv'
    BY <1>3, <2>1 DEF EditorInv, Opening, Saving, editor
  <2> QED  BY <2>2, <2>3
<1> QED  BY <1>1, <1>2, <1>3

LEMMA MovedIs == ASSUME NEW dir PROVE Moved(dir) \subseteq {"moved"}
BY DEF Moved, Raced

\* One request at the server is put forward: what remains to be shown is said of
\* the request and the file alone.
LEMMA RequestGoesOn ==
  ASSUME ProjectsInv, NEW c \in commands, c.op # "write", NEW n \in Commands,
         n.op = c.op, n.by = c.by, n.path = c.path, CommandType(n),
         commands' = (commands \ {c}) \cup {n}, workDir' \in Project, cfg' \in Configs,
         races \subseteq races', Moved(workDir') \subseteq races',
         UNCHANGED <<bar, panel, gets, editor>>,
         "overlapped" \notin races' =>
           (n.at = "loaded" => n.cfg = cfg') /\ (n.at = "writing" => cfg' = Defaults),
         AddedInv',
         races' \cap {"unheard", "overlapped", "failed", "cut", "reverted"} = {} =>
           /\ ~Changing(n) =>
                /\ workDir' = workDir
                /\ \/ ~Changing(c) /\ cfg' = cfg
                   \/ n.op = "other" /\ c.at = "writing" /\ cfg' = c.cfg
           /\ n.op = "other" /\ n.at = "writing" =>
                ~Changing(c) /\ workDir' = workDir /\ n.cfg = cfg
  PROVE  ProjectsInv'
<1>1. /\ \A d \in commands' : d.op = "write" => d \in commands
      /\ \A d \in commands : d.op = "write" => d \in commands'
      /\ (\A d, e \in commands : d.op # "write" /\ e.op # "write" => d = e)
           => \A d \in commands' : d.op # "write" => d = n
      /\ Switching
  BY CommandReplaced
<1>2. TypeOK'
  BY DEF ProjectsInv, TypeOK, editor
<1>3. ASSUME "overlapped" \notin races'
      PROVE  /\ \A d \in commands : d.op # "write" => d = c
             /\ \A d \in commands' : d.op # "write" => d = n
             /\ ~Loading
  BY <1>1, <1>3 DEF ProjectsInv, OneAtATime
<1>4. OneAtATime'
  <2> SUFFICES ASSUME "overlapped" \notin races' PROVE OneAtATime'
    BY DEF OneAtATime
  <2>1. \A d \in commands' : d.at \in {"loaded", "writing"} => d = n
    BY <1>2, <1>3 DEF TypeOK, CommandType
  <2>2. ~Loading'
    BY <1>3 DEF Loading
  <2> QED  BY <1>3, <2>1, <2>2 DEF OneAtATime, Defaults
<1>5. FilesInv' /\ EditorInv'
  BY <1>1, WorkspaceMoves
<1>6. CopiesInv'
  <2> SUFFICES ASSUME races' \cap {"unheard", "overlapped", "failed", "cut", "reverted"} = {}
               PROVE  CopiesInv'
    BY DEF CopiesInv
  <2>1. /\ races \cap {"unheard", "overlapped", "failed", "cut", "reverted"} = {}
        /\ "overlapped" \notin races'
    OBVIOUS
  <2>2. /\ \A d \in commands : d.op # "write" => d = c
        /\ \A d \in commands' : d.op # "write" => d = n
        /\ ~Loading /\ n \in commands'
    BY <1>3, <2>1
  <2>3. \A d \in commands' : d.op \notin {"write", "other"} => d.by = "panel" /\ d.op # "remove"
    BY <2>1, <2>2 DEF ProjectsInv, CopiesInv
  <2>4. \A g \in gets : g.what = "file"
    BY <2>2 DEF Loading
  <2>5. /\ \A g \in gets' : g.read => Fresh(g)'
        /\ \A g \in gets' : g.what = "sessions" => g.arg = workDir'
    BY <2>4 DEF Fresh
  <2>6. ASSUME ~Changing(c) PROVE Covered(cfg)
    <3>1. Quiet
      BY <2>2, <2>6 DEF Quiet, Changing
    <3> QED  BY <2>1, <3>1 DEF ProjectsInv, CopiesInv
  <2>7. ASSUME Quiet' PROVE Covered(cfg)'
    <3>1. ~Changing(n)
      BY <2>2, <2>7 DEF Quiet, Changing
    <3>2. CASE ~Changing(c) /\ workDir' = workDir /\ cfg' = cfg
      BY <2>6, <3>2 DEF Covered, Chained, Asks, AsksFor
    <3>3. CASE workDir' = workDir /\ n.op = "other" /\ c.at = "writing" /\ cfg' = c.cfg
      <4>1. Covered(c.cfg)
        BY <2>1, <3>3 DEF ProjectsInv, CopiesInv
      <4> QED  BY <3>3, <4>1 DEF Covered, Chained, Asks, AsksFor
    <3> QED  BY <3>1, <3>2, <3>3
  <2>8. ASSUME NEW d \in commands', d.op = "other", d.at = "writing" PROVE Covered(d.cfg)'
    <3>1. d = n /\ Covered(cfg) /\ workDir' = workDir /\ n.cfg = cfg
      BY <2>2, <2>6, <2>8
    <3> QED  BY <3>1 DEF Covered, Chained, Asks, AsksFor
  <2> QED  BY <2>3, <2>5, <2>7, <2>8 DEF CopiesInv
<1> QED  BY <1>2, <1>4, <1>5, <1>6 DEF ProjectsInv

LEMMA LoadConfigKeeps == ProjectsInv /\ LoadConfig => ProjectsInv'
<1> SUFFICES ASSUME ProjectsInv, LoadConfig PROVE ProjectsInv'
  OBVIOUS
<1>1. PICK c \in commands :
        /\ c.at = "sent" /\ c.op # "write"
        /\ commands' = (commands \ {c})
             \cup {[c EXCEPT !.at = IF Refused(c) THEN "refused" ELSE "loaded", !.cfg = cfg]}
        /\ workDir' = IF c.op = "switch" THEN c.path ELSE workDir
        /\ races' = races \cup Moved(IF c.op = "switch" THEN c.path ELSE workDir)
                          \cup Raced("interleaved", \E d \in commands : Rewriting(d))
        /\ UNCHANGED <<cfg, bar, panel, gets, added, budget, editor>>
  BY DEF LoadConfig
<1>2. PICK a : a = IF Refused(c) THEN "refused" ELSE "loaded"
  OBVIOUS
<1>3. PICK n : n = [c EXCEPT !.at = a, !.cfg = cfg]
  OBVIOUS
<1>4. commands' = (commands \ {c}) \cup {n}
  BY <1>1, <1>2, <1>3
<1>5. c \in Commands /\ CommandType(c) /\ a \in Places /\ cfg \in Configs
  BY <1>1, <1>2 DEF ProjectsInv, TypeOK, Places
<1>6. n \in Commands /\ n.op = c.op /\ n.by = c.by /\ n.path = c.path /\ n.at = a /\ n.cfg = cfg
  <2>1. PICK k : k = cfg
    OBVIOUS
  <2>2. k \in Configs /\ n = [c EXCEPT !.at = a, !.cfg = k]
    BY <1>3, <1>5, <2>1
  <2>3. n \in Commands /\ n.op = c.op /\ n.by = c.by /\ n.path = c.path /\ n.at = a /\ n.cfg = k
    BY <1>5, <2>2 DEF Commands
  <2> QED  BY <2>1, <2>3
<1>7. a \in {"refused", "loaded"} /\ (a = "refused" => c.op \notin {"switch", "other"})
  BY <1>2 DEF Refused
<1>8. CommandType(n)
  BY <1>1, <1>5, <1>6, <1>7 DEF CommandType
<1>9. races \subseteq races' /\ workDir' \in Project /\ Moved(workDir') \subseteq races'
  BY <1>1, <1>5 DEF ProjectsInv, TypeOK, CommandType
<1>10. "interleaved" \notin races' => \A d \in commands : ~Rewriting(d)
  BY <1>1 DEF Raced
<1>11. AddedInv'
  <2> SUFFICES ASSUME races' \cap {"interleaved", "cut"} = {} PROVE AddedInv'
    BY DEF AddedInv
  <2>1. races \cap {"interleaved", "cut"} = {} /\ \A d \in commands : ~Rewriting(d)
    BY <1>9, <1>10
  <2>2. added \subseteq cfg.projects
    BY <2>1 DEF ProjectsInv, AddedInv, Rewriting
  <2>3. \A d \in commands' : Rewriting(d) => d = n
    BY <1>4, <2>1
  <2>4. n.at # "writing"
    BY <1>6, <1>7
  <2> QED  BY <1>1, <1>6, <2>2, <2>3, <2>4 DEF AddedInv, Rewriting
<1>12. /\ ~Changing(c)
       /\ ~Changing(n) => workDir' = workDir
       /\ n.at # "writing"
  BY <1>1, <1>6, <1>7 DEF Changing
<1> QED  BY <1>1, <1>4, <1>5, <1>6, <1>8, <1>9, <1>11, <1>12, RequestGoesOn

LEMMA DefaultsAre == Defaults \in Configs /\ Defaults.projects = {}
<1> DEFINE none == {}
<1>1. none \in SUBSET Project /\ NoProject \in OptProject
  BY DEF OptProject
<1>2. Defaults = [projects |-> none, workDir |-> NoProject]
  BY DEF Defaults
<1> HIDE DEF none
<1>3. Defaults \in Configs /\ Defaults.projects = none
  BY <1>1, <1>2 DEF Configs
<1> QED  BY <1>3 DEF none

LEMMA UpdatedIs ==
  ASSUME NEW c \in Commands, c.op \in {"switch", "add", "remove", "other"},
         c.op # "other" => c.path \in Project
  PROVE  /\ Updated(c) \in Configs
         /\ c.op = "switch" => Updated(c).projects = c.cfg.projects
         /\ c.op = "add" => Updated(c).projects = c.cfg.projects \cup {c.path}
         /\ c.op = "remove" => Updated(c).projects = c.cfg.projects \ {c.path}
         /\ c.op = "other" => Updated(c) = c.cfg
<1>1. c.cfg \in Configs
  BY DEF Commands
<1>2. CASE c.op = "switch"
  BY <1>1, <1>2 DEF Updated, Configs, OptProject
<1>3. CASE c.op = "add"
  BY <1>1, <1>3 DEF Updated, Configs
<1>4. CASE c.op = "remove"
  BY <1>1, <1>4 DEF Updated, Configs
<1>5. CASE c.op = "other"
  BY <1>1, <1>5 DEF Updated
<1> QED  BY <1>2, <1>3, <1>4, <1>5

LEMMA TruncateConfigKeeps == ProjectsInv /\ TruncateConfig => ProjectsInv'
<1> SUFFICES ASSUME ProjectsInv, TruncateConfig PROVE ProjectsInv'
  OBVIOUS
<1>1. PICK c \in commands :
        /\ c.at = "loaded" /\ cfg' = Defaults
        /\ commands' = (commands \ {c}) \cup {[c EXCEPT !.at = "writing"]}
        /\ UNCHANGED <<workDir, bar, panel, gets, added, races, budget, editor>>
  BY DEF TruncateConfig
<1>2. PICK a : a = "writing"
  OBVIOUS
<1>3. PICK n : n = [c EXCEPT !.at = a]
  OBVIOUS
<1>4. commands' = (commands \ {c}) \cup {n}
  BY <1>1, <1>2, <1>3
<1>5. c \in Commands /\ CommandType(c) /\ a \in Places /\ c.op # "write"
  BY <1>1, <1>2 DEF ProjectsInv, TypeOK, Places, CommandType
<1>6. /\ n \in Commands /\ n.op = c.op /\ n.by = c.by /\ n.path = c.path /\ n.at = "writing"
      /\ n.cfg = c.cfg
  BY <1>2, <1>3, <1>5, CommandArrives
<1>7. CommandType(n)
  BY <1>5, <1>6 DEF CommandType
<1>8. AddedInv'
  <2> SUFFICES ASSUME races \cap {"interleaved", "cut"} = {} PROVE AddedInv'
    BY <1>1 DEF AddedInv
  <2>1. c.cfg = cfg /\ \A d \in commands : Rewriting(d) => d = c
    BY <1>1 DEF ProjectsInv, AddedInv, Rewriting
  <2>2. added \subseteq cfg.projects
    BY <1>1, <2>1 DEF ProjectsInv, AddedInv, Rewriting
  <2>3. \A d \in commands' : Rewriting(d) => d = n
    BY <1>4, <2>1
  <2> QED  BY <1>1, <1>4, <1>6, <2>1, <2>2, <2>3 DEF AddedInv, Rewriting
<1>9. /\ Changing(n) \/ c.op = "remove"
      /\ n.op = "other" => ~Changing(c)
  BY <1>1, <1>5, <1>6 DEF Changing, Commands, OpNames
<1>10. "overlapped" \notin races => c.cfg = cfg
  BY <1>1 DEF ProjectsInv, OneAtATime
<1>11. races \cap {"unheard", "overlapped", "failed", "cut", "reverted"} = {} => c.op # "remove"
  BY <1>5 DEF ProjectsInv, CopiesInv
<1>12. Moved(workDir') \subseteq races' /\ workDir' \in Project /\ cfg' \in Configs
  BY <1>1, DefaultsAre DEF Moved, Raced, ProjectsInv, TypeOK
<1> QED  BY <1>1, <1>4, <1>5, <1>6, <1>7, <1>8, <1>9, <1>10, <1>11, <1>12, RequestGoesOn

LEMMA WriteConfigKeeps == ProjectsInv /\ WriteConfig => ProjectsInv'
<1> SUFFICES ASSUME ProjectsInv, WriteConfig PROVE ProjectsInv'
  OBVIOUS
<1>1. PICK c \in commands :
        /\ c.at = "writing"
        /\ cfg' = Updated(c) \/ (cfg # Defaults /\ cfg' = Defaults)
        /\ commands' = (commands \ {c}) \cup {[c EXCEPT !.at = "done"]}
        /\ workDir' = IF c.op = "add" THEN c.path ELSE workDir
        /\ added' = CASE c.op = "add" -> added \cup {c.path}
                      [] c.op = "remove" -> added \ {c.path}
                      [] OTHER -> added
        /\ races' = races \cup Moved(IF c.op = "add" THEN c.path ELSE workDir)
        /\ UNCHANGED <<bar, panel, gets, budget, editor>>
  BY DEF WriteConfig
<1>2. PICK a : a = "done"
  OBVIOUS
<1>3. PICK n : n = [c EXCEPT !.at = a]
  OBVIOUS
<1>4. commands' = (commands \ {c}) \cup {n}
  BY <1>1, <1>2, <1>3
<1>5. c \in Commands /\ CommandType(c) /\ a \in Places
  BY <1>2 DEF ProjectsInv, TypeOK, Places
<1>6. /\ c.op # "write" /\ c.op \in {"switch", "add", "remove", "other"}
      /\ c.op # "other" => c.path \in Project
  BY <1>1, <1>5 DEF CommandType, Commands, OpNames
<1>7. n \in Commands /\ n.op = c.op /\ n.by = c.by /\ n.path = c.path /\ n.at = "done"
  BY <1>2, <1>3, <1>5, CommandArrives
<1>8. CommandType(n)
  BY <1>6, <1>7 DEF CommandType
<1>9. /\ races \subseteq races' /\ races' \subseteq races \cup {"moved"}
      /\ workDir' \in Project /\ Moved(workDir') \subseteq races'
  BY <1>1, <1>6, MovedIs DEF ProjectsInv, TypeOK
<1>10. /\ Updated(c) \in Configs
       /\ c.op = "switch" => Updated(c).projects = c.cfg.projects
       /\ c.op = "add" => Updated(c).projects = c.cfg.projects \cup {c.path}
       /\ c.op = "remove" => Updated(c).projects = c.cfg.projects \ {c.path}
       /\ c.op = "other" => Updated(c) = c.cfg
  BY <1>5, <1>6, UpdatedIs
<1>11. cfg' \in Configs
  BY <1>1, <1>10, DefaultsAre
<1>12. AddedInv'
  <2> SUFFICES ASSUME races' \cap {"interleaved", "cut"} = {} PROVE AddedInv'
    BY DEF AddedInv
  <2>1. /\ cfg = Defaults /\ added \subseteq c.cfg.projects
        /\ \A d \in commands : Rewriting(d) => d = c
    BY <1>1, <1>9 DEF ProjectsInv, AddedInv, Rewriting
  <2>2. cfg' = Updated(c)
    BY <1>1, <2>1
  <2>3. added' \subseteq cfg'.projects
    <3>1. CASE c.op = "switch"
      BY <1>1, <1>10, <2>1, <2>2, <3>1
    <3>2. CASE c.op = "add"
      BY <1>1, <1>10, <2>1, <2>2, <3>2
    <3>3. CASE c.op = "remove"
      BY <1>1, <1>10, <2>1, <2>2, <3>3
    <3>4. CASE c.op = "other"
      BY <1>1, <1>10, <2>1, <2>2, <3>4
    <3> QED  BY <1>6, <3>1, <3>2, <3>3, <3>4
  <2>4. \A d \in commands' : ~Rewriting(d)
    BY <1>4, <1>7, <2>1 DEF Rewriting
  <2> QED  BY <2>3, <2>4 DEF AddedInv, Rewriting
<1>13. c.op \in {"switch", "add"} => Changing(n)
  BY <1>7 DEF Changing
<1>14. races' \cap {"unheard", "overlapped", "failed", "cut", "reverted"} = {} =>
         c.op # "remove" /\ cfg = Defaults
  BY <1>1, <1>6, <1>9 DEF ProjectsInv, CopiesInv, OneAtATime
<1>15. c.op = "other" => workDir' = workDir
  BY <1>1
<1> QED  BY <1>1, <1>4, <1>5, <1>6, <1>7, <1>8, <1>9, <1>10, <1>11, <1>12, <1>13, <1>14, <1>15,
            RequestGoesOn

LEMMA SaveFailsKeeps == ProjectsInv /\ SaveFails => ProjectsInv'
<1> SUFFICES ASSUME ProjectsInv, SaveFails PROVE ProjectsInv'
  OBVIOUS
<1>1. PICK c \in commands :
        /\ Rewriting(c)
        /\ commands' = (commands \ {c})
             \cup {[c EXCEPT !.at = IF c.op = "add" THEN "refused" ELSE "done"]}
        /\ added' = IF c.op = "remove" THEN added \ {c.path} ELSE added
        /\ races' = races \cup Raced("cut", c.at = "writing")
        /\ UNCHANGED <<workDir, cfg, bar, panel, gets, editor>>
  BY DEF SaveFails
<1>2. PICK a : a = IF c.op = "add" THEN "refused" ELSE "done"
  OBVIOUS
<1>3. PICK n : n = [c EXCEPT !.at = a]
  OBVIOUS
<1>4. commands' = (commands \ {c}) \cup {n}
  BY <1>1, <1>2, <1>3
<1>5. c \in Commands /\ CommandType(c) /\ a \in Places /\ c.op # "write"
  BY <1>1, <1>2 DEF ProjectsInv, TypeOK, Places, CommandType, Rewriting
<1>6. n \in Commands /\ n.op = c.op /\ n.by = c.by /\ n.path = c.path /\ n.at = a
  BY <1>3, <1>5, CommandArrives
<1>7. CommandType(n)
  BY <1>2, <1>5, <1>6 DEF CommandType
<1>8. races \subseteq races' /\ ("cut" \notin races' => c.at = "loaded")
  BY <1>1 DEF Raced, Rewriting
<1>9. n.at \in {"refused", "done"} /\ ~Rewriting(n)
  BY <1>2, <1>6 DEF Rewriting
<1>10. AddedInv'
  <2> SUFFICES ASSUME races' \cap {"interleaved", "cut"} = {} PROVE AddedInv'
    BY DEF AddedInv
  <2>1. c.at = "loaded" /\ \A d \in commands : Rewriting(d) => d = c
    BY <1>1, <1>8 DEF ProjectsInv, AddedInv
  <2>2. added \subseteq cfg.projects
    BY <1>8, <2>1 DEF ProjectsInv, AddedInv, Rewriting
  <2>3. \A d \in commands' : ~Rewriting(d)
    BY <1>4, <1>9, <2>1
  <2> QED  BY <1>1, <2>2, <2>3 DEF AddedInv, Rewriting
<1>11. c.at = "loaded" => (~Changing(n) => ~Changing(c))
  BY <1>2, <1>6 DEF Changing
<1>12. Moved(workDir') \subseteq races' /\ workDir' \in Project /\ cfg' \in Configs
  BY <1>1 DEF Moved, Raced, ProjectsInv, TypeOK
<1> QED  BY <1>1, <1>4, <1>5, <1>6, <1>7, <1>8, <1>9, <1>10, <1>11, <1>12, RequestGoesOn

LEMMA RestartKeeps == ProjectsInv /\ Restart => ProjectsInv'
<1> SUFFICES ASSUME ProjectsInv, Restart PROVE ProjectsInv'
  OBVIOUS
<1>1. /\ commands' \subseteq {c \in commands : c.at \in {"done", "refused"}}
      /\ workDir' = IF cfg.workDir = NoProject THEN Home ELSE cfg.workDir
      /\ races' = races \cup Moved(workDir') \cup Raced("reverted", workDir' # workDir)
                        \cup Raced("failed", commands' # commands)
                        \cup Raced("cut", \E c \in commands : c.at = "writing")
                        \cup Raced("refused", \E c \in commands \ commands' : c.op = "write")
      /\ UNCHANGED <<cfg, bar, panel, gets, added, editor>>
  BY DEF Restart
<1>2. /\ races \subseteq races' /\ Moved(workDir') \subseteq races'
      /\ "reverted" \notin races' => workDir' = workDir
      /\ "failed" \notin races' => commands' = commands
      /\ "cut" \notin races' => \A c \in commands : c.at # "writing"
      /\ "refused" \notin races' => \A c \in commands : c.op = "write" => c \in commands'
  BY <1>1 DEF Raced
<1>3. workDir' \in Project
  BY <1>1, HomeAssumption DEF ProjectsInv, TypeOK, Configs, OptProject
<1>4. commands' \subseteq commands /\ \A c \in commands' : c.at \in {"done", "refused"}
  BY <1>1
<1>5. TypeOK'
  BY <1>1, <1>3, <1>4 DEF ProjectsInv, TypeOK, editor
<1>6. OneAtATime'
  BY <1>1, <1>2, <1>4 DEF ProjectsInv, OneAtATime, Switching, Loading
<1>7. AddedInv'
  BY <1>1, <1>2, <1>4 DEF ProjectsInv, AddedInv, Rewriting
<1>8. FilesInv' /\ EditorInv'
  BY <1>1, <1>2, <1>4, WorkspaceMoves
<1>9. CopiesInv'
  <2> SUFFICES ASSUME races' \cap {"unheard", "overlapped", "failed", "cut", "reverted"} = {}
               PROVE  CopiesInv'
    BY DEF CopiesInv
  <2>1. /\ races \cap {"unheard", "overlapped", "failed", "cut", "reverted"} = {}
        /\ workDir' = workDir /\ commands' = commands
    BY <1>2
  <2> QED  BY <1>1, <1>2, <2>1
           DEF ProjectsInv, CopiesInv, Fresh, Quiet, Changing, Covered, Chained, Asks, AsksFor
<1> QED  BY <1>5, <1>6, <1>7, <1>8, <1>9 DEF ProjectsInv

\* The list that the panel or the bar asks for.
LEMMA ProjectsGet ==
  ASSUME NEW by \in {"panel", "bar"}, NEW chain \in BOOLEAN, chain => by = "panel",
         NEW g, g = Get("projects", by, chain, NoProject)
  PROVE  g \in Gets /\ GetType(g) /\ g.what = "projects" /\ g.by = by /\ g.chain = chain /\ ~g.read
<1> DEFINE p == "projects"
<1>1. p \in Kinds /\ by \in Askers /\ NoProject \in OptProject \cup Path
  BY DEF Kinds, Askers, OptProject
<1>2. g = Get(p, by, chain, NoProject)
  OBVIOUS
<1> HIDE DEF p
<1>3. g \in Gets /\ g.what = p /\ g.by = by /\ g.chain = chain /\ ~g.read
  BY <1>1, <1>2, GetIs
<1> QED  BY <1>3 DEF p, GetType

LEMMA ReloadsAre ==
  ASSUME NEW c, NEW g \in Reloads(c)
  PROVE  /\ g \in Gets /\ GetType(g) /\ g.what = "projects" /\ ~g.read
         /\ c.by = "panel" /\ c.op # "remove" => g.by = "panel" /\ g.chain
<1>1. c.op # "other"
  BY DEF Reloads
<1>2. CASE c.by = "bar"
  <2>1. g = Get("projects", "bar", FALSE, NoProject)
    BY <1>1, <1>2 DEF Reloads
  <2> QED  BY <1>2, <2>1, ProjectsGet
<1>3. CASE c.by = "panel" /\ c.op = "remove"
  <2>1. g = Get("projects", "panel", FALSE, NoProject)
    BY <1>1, <1>3 DEF Reloads
  <2> QED  BY <1>3, <2>1, ProjectsGet
<1>4. CASE c.by # "bar" /\ ~(c.by = "panel" /\ c.op = "remove")
  <2>1. g = Get("projects", "panel", TRUE, NoProject)
    BY <1>1, <1>4 DEF Reloads
  <2> QED  BY <2>1, ProjectsGet
<1> QED  BY <1>2, <1>3, <1>4

LEMMA ReloadsSomething ==
  ASSUME NEW c, c.by = "panel", c.op \notin {"remove", "other"} PROVE \E g : g \in Reloads(c)
<1>1. Reloads(c) = {Get("projects", "panel", TRUE, NoProject)}
  BY DEF Reloads
<1> QED  BY <1>1

LEMMA CommandAnsweredKeeps == ProjectsInv /\ CommandAnswered => ProjectsInv'
<1> SUFFICES ASSUME ProjectsInv, CommandAnswered PROVE ProjectsInv'
  OBVIOUS
<1>1. PICK c \in commands :
        /\ c.at \in {"done", "refused"} /\ c.op # "write"
        /\ commands' = commands \ {c}
        /\ gets' = IF c.at = "done" THEN gets \cup Reloads(c) ELSE gets
        /\ UNCHANGED <<workDir, cfg, bar, panel, added, races, budget, editor>>
  BY DEF CommandAnswered
<1>2. /\ gets \subseteq gets' /\ gets' \subseteq Gets
      /\ \A g \in gets' : GetType(g)
      /\ \A g \in gets' : g \in gets \/ (g.what = "projects" /\ ~g.read)
  <2> SUFFICES ASSUME NEW g \in gets'
               PROVE  g \in Gets /\ GetType(g) /\ (g \in gets \/ (g.what = "projects" /\ ~g.read))
    BY <1>1
  <2>1. g \in gets \/ g \in Reloads(c)
    BY <1>1
  <2> QED  BY <2>1, ReloadsAre DEF ProjectsInv, TypeOK
<1>3. TypeOK'
  BY <1>1, <1>2 DEF ProjectsInv, TypeOK, editor
<1>4. OneAtATime'
  <2> SUFFICES ASSUME "overlapped" \notin races' PROVE OneAtATime'
    BY DEF OneAtATime
  <2>1. /\ \A d, e \in commands : d.op # "write" /\ e.op # "write" => d = e
        /\ \A d \in commands : d.at = "loaded" => d.cfg = cfg
        /\ \A d \in commands : d.at = "writing" => cfg = Defaults
    BY <1>1 DEF ProjectsInv, OneAtATime
  <2>2. ~Switching'
    BY <1>1, <2>1 DEF Switching
  <2> QED  BY <1>1, <2>1, <2>2 DEF OneAtATime, Defaults
<1>5. AddedInv'
  <2>1. \A d \in commands : d.at = "writing" => d \in commands'
    BY <1>1
  <2> QED  BY <1>1, <2>1 DEF ProjectsInv, AddedInv, Rewriting, Defaults
<1>6. FilesInv' /\ EditorInv'
  <2>1. /\ \A g \in gets' : g.what = "file" => g \in gets
        /\ \A g \in gets : g.what = "file" => g \in gets'
        /\ \A d \in commands' : d.op = "write" => d \in commands
        /\ \A d \in commands : d.op = "write" => d \in commands'
    BY <1>1, <1>2
  <2> QED  BY <1>1, <2>1, EditorStays
<1>7. CopiesInv'
  <2> SUFFICES ASSUME races' \cap {"unheard", "overlapped", "failed", "cut", "reverted"} = {}
               PROVE  CopiesInv'
    BY DEF CopiesInv
  <2>1. /\ races \cap {"unheard", "overlapped", "failed", "cut", "reverted"} = {}
        /\ "overlapped" \notin races
    BY <1>1
  <2>2. /\ \A d \in commands : d.op # "write" => d = c
        /\ c.op # "other" => c.by = "panel" /\ c.op # "remove"
    BY <1>1, <2>1 DEF ProjectsInv, OneAtATime, CopiesInv
  <2>3. /\ \A d \in commands' : d.op = "write"
        /\ \A g \in gets' : g.read => Fresh(g)'
        /\ \A g \in gets' : g.what = "sessions" => g.arg = workDir'
    BY <1>1, <1>2, <2>1, <2>2 DEF ProjectsInv, CopiesInv, Fresh
  <2>4. CASE c.at = "done" /\ c.op # "other"
    <3>1. PICK g : g \in Reloads(c)
      BY <2>2, <2>4, ReloadsSomething
    <3>2. g \in gets' /\ g.what = "projects" /\ g.by = "panel" /\ g.chain
      BY <1>1, <2>2, <2>4, <3>1, ReloadsAre
    <3>3. Covered(cfg)'
      BY <3>2 DEF Covered, Chained, AsksFor
    <3> QED  BY <2>3, <3>3 DEF CopiesInv
  <2>5. CASE c.at = "refused" \/ c.op = "other"
    <3>1. Quiet
      BY <2>2, <2>5, <1>1 DEF Quiet, Changing
    <3>2. Covered(cfg)
      BY <2>1, <3>1 DEF ProjectsInv, CopiesInv
    <3>3. gets' = gets
      BY <1>1, <2>5 DEF Reloads
    <3>4. Covered(cfg)'
      BY <1>1, <3>2, <3>3 DEF Covered, Chained, Asks, AsksFor
    <3> QED  BY <2>3, <3>4 DEF CopiesInv
  <2> QED  BY <1>1, <2>4, <2>5
<1> QED  BY <1>3, <1>4, <1>5, <1>6, <1>7 DEF ProjectsInv

-----------------------------------------------------------------------------
(* Lists *)

LEMMA AnswerType ==
  ASSUME TypeOK, NEW g \in gets
  PROVE  /\ Answer(g) \in OptProject \cup Lists \cup Contents
         /\ g.what = "projects" => Answer(g) \in Lists /\ Answer(g) = List(cfg.projects, workDir)
         /\ g.what = "sessions" => Answer(g) = g.arg
         /\ g.what \in {"workspace", "tree"} => Answer(g) = workDir
         /\ g.what \in {"workspace", "tree", "sessions"} => Answer(g) \in OptProject
         /\ g.what = "file" => /\ Answer(g) \in Contents
                               /\ Answer(g).of = disk[<<workDir, g.arg>>].of
                               /\ Answer(g).tools = disk[<<workDir, g.arg>>].tools
                               /\ Answer(g).whole => OnDisk(Answer(g), g.arg)
<1>1. g \in Gets /\ GetType(g) /\ g.what \in Kinds /\ workDir \in OptProject
  BY DEF TypeOK, Gets, OptProject
<1>2. CASE g.what = "projects"
  <2>1. Answer(g) = List(cfg.projects, workDir)
    BY <1>2 DEF Answer
  <2>2. cfg.projects \in SUBSET Project
    BY DEF TypeOK, Configs
  <2> QED  BY <1>1, <1>2, <2>1, <2>2, ListIs
<1>3. CASE g.what = "sessions"
  BY <1>1, <1>3 DEF Answer, GetType
<1>4. CASE g.what \in {"workspace", "tree"}
  BY <1>1, <1>4 DEF Answer
<1>5. CASE g.what = "file"
  <2>1. PICK file : file = <<workDir, g.arg>>
    OBVIOUS
  <2>2. file \in Files
    BY <1>1, <1>5, <2>1 DEF GetType, TypeOK, Files
  <2>3. PICK text : text = disk[file]
    OBVIOUS
  <2>4. text \in Contents
    BY <2>2, <2>3 DEF TypeOK
  <2>5. Answer(g) = IF file \in Opaque THEN [text EXCEPT !.whole = FALSE] ELSE text
    BY <1>5, <2>1, <2>3 DEF Answer
  <2> DEFINE no == FALSE
  <2>6. no \in BOOLEAN /\ ~no /\ (file \in Opaque => Answer(g) = [text EXCEPT !.whole = no])
    BY <2>5
  <2> HIDE DEF no
  <2>7. file \in Opaque => /\ Answer(g) \in Contents /\ ~Answer(g).whole
                            /\ Answer(g).of = text.of /\ Answer(g).tools = text.tools
    BY <2>4, <2>6 DEF Contents
  <2>8. file \notin Opaque => Answer(g) = text
    BY <2>5
  <2>9. /\ Answer(g) \in Contents /\ Answer(g).of = disk[<<workDir, g.arg>>].of
        /\ Answer(g).tools = disk[<<workDir, g.arg>>].tools
        /\ Answer(g).whole => OnDisk(Answer(g), g.arg)
    BY <2>1, <2>3, <2>4, <2>7, <2>8 DEF OnDisk
  <2> QED  BY <1>5, <2>9
<1> QED  BY <1>1, <1>2, <1>3, <1>4, <1>5 DEF Kinds

\* A request of lists that is answered, or fails, is gone; the others stay.
LEMMA OthersStay ==
  ASSUME NEW g \in gets, gets \ {g} \subseteq gets'
  PROVE  /\ Chained /\ ~g.chain => Chained'
         /\ Asks("tree") /\ g.what # "tree" => Asks("tree")'
         /\ Asks("workspace") /\ g.what # "workspace" => Asks("workspace")'
         /\ Asks("sessions") /\ g.what # "sessions" => Asks("sessions")'
         /\ AsksFor("panel") /\ ~(g.what = "projects" /\ g.by = "panel") => AsksFor("panel")'
         /\ AsksFor("bar") /\ ~(g.what = "projects" /\ g.by = "bar") => AsksFor("bar")'
BY DEF Chained, Asks, AsksFor

LEMMA ReadGetKeeps == ProjectsInv /\ ReadGet => ProjectsInv'
<1> SUFFICES ASSUME ProjectsInv, ReadGet PROVE ProjectsInv'
  OBVIOUS
<1>1. PICK g \in gets :
        /\ ~g.read
        /\ gets' = (gets \ {g}) \cup {[g EXCEPT !.read = TRUE, !.val = Answer(g)]}
        /\ UNCHANGED <<workDir, cfg, bar, panel, commands, added, races, editor>>
  BY DEF ReadGet
<1>2. PICK x : x = Answer(g)
  OBVIOUS
<1>3. PICK n : n = [g EXCEPT !.read = TRUE, !.val = x]
  OBVIOUS
<1>4. gets' = (gets \ {g}) \cup {n}
  BY <1>1, <1>2, <1>3
<1>5. g \in Gets /\ GetType(g) /\ x \in OptProject \cup Lists \cup Contents
  BY <1>2, AnswerType DEF ProjectsInv, TypeOK
<1>6. /\ n \in Gets /\ n.what = g.what /\ n.by = g.by /\ n.chain = g.chain /\ n.arg = g.arg
      /\ n.read /\ n.val = x
  <2> DEFINE yes == TRUE
  <2>1. yes \in BOOLEAN /\ yes /\ n = [g EXCEPT !.read = yes, !.val = x]
    BY <1>3
  <2> HIDE DEF yes
  <2>2. /\ n \in Gets /\ n.what = g.what /\ n.by = g.by /\ n.chain = g.chain /\ n.arg = g.arg
        /\ n.read = yes /\ n.val = x
    BY <1>5, <2>1 DEF Gets
  <2> QED  BY <2>1, <2>2
<1>7. /\ g.what = "projects" => x \in Lists /\ x = List(cfg.projects, workDir)
      /\ g.what = "sessions" => x = g.arg
      /\ g.what \in {"workspace", "tree"} => x = workDir
      /\ g.what \in {"workspace", "tree", "sessions"} => x \in OptProject
      /\ g.what = "file" => /\ x \in Contents /\ x.of = disk[<<workDir, g.arg>>].of
                            /\ x.tools = disk[<<workDir, g.arg>>].tools
                            /\ x.whole => OnDisk(x, g.arg)
  BY <1>2, AnswerType DEF ProjectsInv
<1>8. GetType(n)
  BY <1>5, <1>6, <1>7 DEF GetType
<1>9. TypeOK'
  BY <1>1, <1>4, <1>6, <1>8 DEF ProjectsInv, TypeOK, editor
<1>10. /\ Loading' = Loading /\ Opening' = Opening /\ Chained' = Chained
       /\ \A what \in Kinds : Asks(what)' = Asks(what)
       /\ \A by \in Askers : AsksFor(by)' = AsksFor(by)
  BY <1>4, <1>6 DEF Loading, Opening, Chained, Asks, AsksFor
<1>11. OneAtATime' /\ AddedInv'
  BY <1>1, <1>10 DEF ProjectsInv, OneAtATime, AddedInv, Switching, Rewriting, Defaults
<1>12. FilesInv'
  <2> SUFFICES ASSUME races' \cap {"moved", "reopened", "placeholder", "rewritten", "torn"} = {}
               PROVE  FilesInv'
    BY DEF FilesInv
  <2>1. \A f \in Files : disk[f].of = f /\ disk[f].tools = toolWrites[f]
    BY <1>1 DEF ProjectsInv, FilesInv
  <2>2. g.what = "file" => <<workDir, g.arg>> \in Files
    BY <1>5 DEF GetType, ProjectsInv, TypeOK, Files
  <2>3. \A h \in gets' : h.what = "file" /\ h.read =>
          h.val.of = <<workDir, h.arg>> /\ h.val.tools = toolWrites[<<workDir, h.arg>>]
    BY <1>1, <1>4, <1>6, <1>7, <2>1, <2>2 DEF ProjectsInv, FilesInv
  <2> QED  BY <1>1, <2>3 DEF ProjectsInv, FilesInv, Own, editor
<1>13. EditorInv'
  <2> SUFFICES ASSUME races' \cap {"moved", "reopened", "placeholder", "rewritten", "refused"} = {}
               PROVE  EditorInv'
    BY DEF EditorInv
  <2>1. \A h \in gets' : h.what = "file" /\ h.read /\ h.val.whole => OnDisk(h.val, h.arg)
    BY <1>1, <1>4, <1>6, <1>7 DEF ProjectsInv, EditorInv
  <2> QED  BY <1>1, <1>10, <2>1 DEF ProjectsInv, EditorInv, OnDisk, Saving, editor
<1>14. CopiesInv'
  <2> SUFFICES ASSUME races' \cap {"unheard", "overlapped", "failed", "cut", "reverted"} = {}
               PROVE  CopiesInv'
    BY DEF CopiesInv
  <2>1. /\ \A h \in gets : h.read => Fresh(h)
        /\ \A h \in gets : h.what = "sessions" => h.arg = workDir
    BY <1>1 DEF ProjectsInv, CopiesInv
  <2>2. Fresh(n)
    BY <1>6, <1>7, <2>1 DEF Fresh
  <2>3. /\ \A h \in gets' : h.read => Fresh(h)
        /\ \A h \in gets' : h.what = "sessions" => h.arg = workDir
    BY <1>4, <1>6, <2>1, <2>2
  <2>4. \A h \in gets' : h.read => Fresh(h)'
    BY <1>1, <2>3 DEF Fresh
  <2>5. \A file : Covered(file) => Covered(file)'
    BY <1>1, <1>10 DEF Covered, Kinds, Askers, List
  <2>6. Quiet' => Covered(cfg)'
    <3>1. Quiet' => Covered(cfg)
      BY <1>1 DEF ProjectsInv, CopiesInv, Quiet
    <3>2. Covered(cfg) => Covered(cfg)'
      BY <1>1, <1>10 DEF Covered, Kinds, Askers
    <3> QED  BY <3>1, <3>2
  <2>7. \A d \in commands' : d.op = "other" /\ d.at = "writing" => Covered(d.cfg)'
    BY <1>1, <2>5 DEF ProjectsInv, CopiesInv
  <2>8. \A d \in commands' :
          d.op \notin {"write", "other"} => d.by = "panel" /\ d.op # "remove"
    BY <1>1 DEF ProjectsInv, CopiesInv
  <2> QED  BY <1>1, <2>3, <2>4, <2>6, <2>7, <2>8 DEF CopiesInv
<1> QED  BY <1>9, <1>11, <1>12, <1>13, <1>14 DEF ProjectsInv

\* What follows the answer of one of the lists.
LEMMA ThenIs ==
  ASSUME NEW h, h.what = "workspace" => h.val \in OptProject, NEW g \in Then(h)
  PROVE  /\ g \in Gets /\ GetType(g) /\ g.what # "file" /\ ~g.read
         /\ g.what = "sessions" => h.what = "workspace" /\ g.arg = h.val
<1> DEFINE projects == "projects"  workspace == "workspace"  tree == "tree"
           sessions == "sessions"  panel1 == "panel"  bar1 == "bar"  no == FALSE
<1>1. /\ projects \in Kinds /\ workspace \in Kinds /\ tree \in Kinds /\ sessions \in Kinds
      /\ panel1 \in Askers /\ bar1 \in Askers /\ no \in BOOLEAN /\ ~no
      /\ NoProject \in OptProject /\ OptProject \subseteq OptProject \cup Path
  BY DEF Kinds, Askers, OptProject
<1>2. CASE h.what = "projects" /\ h.chain
  <2>1. \/ g = Get(workspace, panel1, no, NoProject)
        \/ g = Get(tree, panel1, no, NoProject)
        \/ g = Get(projects, bar1, no, NoProject)
    BY <1>2 DEF Then
  <2> HIDE DEF projects, workspace, tree, sessions, panel1, bar1, no
  <2>2. CASE g = Get(workspace, panel1, no, NoProject)
    <3>1. /\ g \in Gets /\ g.what = workspace /\ g.by = panel1 /\ g.chain = no
          /\ g.arg = NoProject /\ ~g.read
      BY <1>1, <2>2, GetIs
    <3> QED  BY <1>1, <3>1 DEF workspace, GetType
  <2>3. CASE g = Get(tree, panel1, no, NoProject)
    <3>1. g \in Gets /\ g.what = tree /\ g.by = panel1 /\ g.chain = no /\ g.arg = NoProject /\ ~g.read
      BY <1>1, <2>3, GetIs
    <3> QED  BY <1>1, <3>1 DEF tree, GetType
  <2>4. CASE g = Get(projects, bar1, no, NoProject)
    <3>1. g \in Gets /\ g.what = projects /\ g.by = bar1 /\ g.chain = no /\ ~g.read
      BY <1>1, <2>4, GetIs
    <3> QED  BY <1>1, <3>1 DEF projects, bar1, GetType
  <2> QED  BY <2>1, <2>2, <2>3, <2>4
<1>3. CASE h.what = "workspace"
  <2>1. g = Get(sessions, panel1, no, h.val)
    BY <1>3 DEF Then
  <2> HIDE DEF projects, workspace, tree, sessions, panel1, bar1, no
  <2>2. h.val \in OptProject \cup Path
    BY <1>3
  <2>3. g \in Gets /\ g.what = sessions /\ g.by = panel1 /\ g.chain = no /\ g.arg = h.val /\ ~g.read
    BY <1>1, <2>1, <2>2, GetIs
  <2> QED  BY <1>1, <1>3, <2>3 DEF sessions, GetType
<1>4. CASE ~(h.what = "projects" /\ h.chain) /\ h.what # "workspace"
  BY <1>4 DEF Then
<1> QED  BY <1>2, <1>3, <1>4

LEMMA ThenAsks ==
  ASSUME NEW h, Then(h) \subseteq gets'
  PROVE  /\ h.what = "projects" /\ h.chain => Asks("tree")' /\ Asks("workspace")' /\ AsksFor("bar")'
         /\ h.what = "workspace" => Asks("sessions")'
<1>1. CASE h.what = "projects" /\ h.chain
  <2>1. /\ Get("workspace", "panel", FALSE, NoProject) \in gets'
        /\ Get("tree", "panel", FALSE, NoProject) \in gets'
        /\ Get("projects", "bar", FALSE, NoProject) \in gets'
    BY <1>1 DEF Then
  <2>2. /\ Get("workspace", "panel", FALSE, NoProject).what = "workspace"
        /\ Get("tree", "panel", FALSE, NoProject).what = "tree"
        /\ Get("projects", "bar", FALSE, NoProject).what = "projects"
        /\ Get("projects", "bar", FALSE, NoProject).by = "bar"
    BY DEF Get
  <2> QED  BY <1>1, <2>1, <2>2 DEF Asks, AsksFor
<1>2. CASE h.what = "workspace"
  <2>1. Get("sessions", "panel", FALSE, h.val) \in gets'
    BY <1>2 DEF Then
  <2>2. Get("sessions", "panel", FALSE, h.val).what = "sessions"
    BY DEF Get
  <2> QED  BY <1>2, <2>1, <2>2 DEF Asks
<1> QED  BY <1>1, <1>2

\* The part of the panel, or the bar, that an answer renews.
LEMMA ApplyListIs ==
  ASSUME TypeOK, NEW h, ApplyList(h), h.what \in Kinds \ {"file"},
         h.what = "projects" => h.by \in {"panel", "bar"} /\ h.val \in Lists,
         h.what # "projects" => h.val \in OptProject
  PROVE  /\ bar' \in Lists /\ panel' \in Panels
         /\ bar' = IF h.what = "projects" /\ h.by = "bar" THEN h.val ELSE bar
         /\ panel'.active = IF h.what = "projects" /\ h.by = "panel" THEN h.val.active ELSE panel.active
         /\ panel'.tree = IF h.what = "tree" THEN h.val ELSE panel.tree
         /\ panel'.sessions = IF h.what = "sessions" THEN h.val ELSE panel.sessions
<1>1. bar \in Lists /\ panel \in Panels
  BY DEF TypeOK
<1>2. CASE h.what = "projects" /\ h.by = "bar"
  <2>1. bar' = h.val /\ panel' = panel
    BY <1>2 DEF ApplyList
  <2> QED  BY <1>1, <1>2, <2>1
<1>3. CASE h.what = "projects" /\ h.by = "panel"
  <2>1. /\ panel' = [panel EXCEPT !.projects = h.val.projects, !.active = h.val.active]
        /\ bar' = bar
    BY <1>3 DEF ApplyList
  <2>2. h.val.projects \in SUBSET Project /\ h.val.active \in OptProject
    BY <1>3 DEF Lists
  <2>3. PICK new : new = panel'
    OBVIOUS
  <2>4. new = [panel EXCEPT !.projects = h.val.projects, !.active = h.val.active]
    BY <2>1, <2>3
  <2>5. /\ new \in Panels /\ new.active = h.val.active /\ new.tree = panel.tree
        /\ new.sessions = panel.sessions
    BY <1>1, <2>2, <2>4 DEF Panels
  <2> QED  BY <1>1, <1>3, <2>1, <2>3, <2>5
<1>4. CASE h.what = "sessions"
  <2>1. panel' = [panel EXCEPT !.sessions = h.val] /\ bar' = bar
    BY <1>4 DEF ApplyList
  <2>2. panel' \in Panels /\ panel'.sessions = h.val /\ panel'.tree = panel.tree
        /\ panel'.active = panel.active
    BY <1>1, <1>4, <2>1 DEF Panels
  <2> QED  BY <1>1, <1>4, <2>1, <2>2
<1>5. CASE h.what = "tree"
  <2>1. panel' = [panel EXCEPT !.tree = h.val] /\ bar' = bar
    BY <1>5 DEF ApplyList
  <2>2. panel' \in Panels /\ panel'.tree = h.val /\ panel'.sessions = panel.sessions
        /\ panel'.active = panel.active
    BY <1>1, <1>5, <2>1 DEF Panels
  <2> QED  BY <1>1, <1>5, <2>1, <2>2
<1>6. CASE h.what = "workspace"
  <2>1. panel' = panel /\ bar' = bar
    BY <1>6 DEF ApplyList
  <2> QED  BY <1>1, <1>6, <2>1
<1> QED  BY <1>2, <1>3, <1>4, <1>5, <1>6 DEF Kinds

\* An answer that is up to date renews what was asked for, or asks on.
LEMMA CoveredStill ==
  ASSUME TypeOK, Covered(cfg), NEW g \in gets, g.what # "file", Fresh(g), ApplyList(g),
         g.what = "sessions" => g.val = workDir,
         gets' = (gets \ {g}) \cup Then(g), UNCHANGED <<workDir, cfg>>
  PROVE  Covered(cfg)'
<1>1. g \in Gets /\ GetType(g) /\ workDir \in Project /\ cfg.projects \in SUBSET Project
  BY DEF TypeOK, Configs
<1>2. g.what \in Kinds \ {"file"} /\ workDir \in OptProject
  BY <1>1 DEF Gets, OptProject
<1>3. /\ g.what = "projects" => g.val = List(cfg.projects, workDir) /\ g.val \in Lists
      /\ g.what # "projects" => g.val = workDir /\ g.val \in OptProject
  BY <1>1, <1>2, ListIs DEF Fresh, Kinds
<1>4. /\ g.what = "projects" => g.by \in {"panel", "bar"}
      /\ g.chain => g.what = "projects" /\ g.by = "panel"
  BY <1>1 DEF GetType
<1>5. /\ bar' = IF g.what = "projects" /\ g.by = "bar" THEN g.val ELSE bar
      /\ panel'.active = IF g.what = "projects" /\ g.by = "panel" THEN g.val.active ELSE panel.active
      /\ panel'.tree = IF g.what = "tree" THEN g.val ELSE panel.tree
      /\ panel'.sessions = IF g.what = "sessions" THEN g.val ELSE panel.sessions
  BY <1>2, <1>3, <1>4, ApplyListIs
<1>6. /\ Chained /\ ~g.chain => Chained'
      /\ Asks("tree") /\ g.what # "tree" => Asks("tree")'
      /\ Asks("workspace") /\ g.what # "workspace" => Asks("workspace")'
      /\ Asks("sessions") /\ g.what # "sessions" => Asks("sessions")'
      /\ AsksFor("panel") /\ ~(g.what = "projects" /\ g.by = "panel") => AsksFor("panel")'
      /\ AsksFor("bar") /\ ~(g.what = "projects" /\ g.by = "bar") => AsksFor("bar")'
  BY OthersStay
<1>7. /\ g.what = "projects" /\ g.chain => Asks("tree")' /\ Asks("workspace")' /\ AsksFor("bar")'
      /\ g.what = "workspace" => Asks("sessions")'
  BY ThenAsks
<1>8. List(cfg'.projects, workDir') = List(cfg.projects, workDir)
  OBVIOUS
<1>9. Chained' \/ panel'.tree = workDir' \/ Asks("tree")'
  BY <1>3, <1>4, <1>5, <1>6, <1>7 DEF Covered
<1>10. Chained' \/ panel'.sessions = workDir' \/ Asks("workspace")' \/ Asks("sessions")'
  BY <1>3, <1>4, <1>5, <1>6, <1>7 DEF Covered
<1>11. panel'.active = List(cfg'.projects, workDir').active \/ AsksFor("panel")'
  BY <1>3, <1>5, <1>6, <1>8 DEF Covered
<1>12. Chained' \/ bar' = List(cfg'.projects, workDir') \/ AsksFor("bar")'
  BY <1>3, <1>4, <1>5, <1>6, <1>7, <1>8 DEF Covered
<1> QED  BY <1>9, <1>10, <1>11, <1>12 DEF Covered

\* The answer h of request g is shown.
LEMMA ListShown ==
  ASSUME ProjectsInv, NEW g \in gets, g.what # "file", NEW h,
         h.what = g.what, h.by = g.by, h.chain = g.chain,
         g.what = "projects" => h.val \in Lists, g.what # "projects" => h.val \in OptProject,
         ApplyList(h), gets' = (gets \ {g}) \cup Then(h), races \subseteq races',
         UNCHANGED <<workDir, cfg, editor, commands, added>>,
         "failed" \notin races' => h = g /\ g.read
  PROVE  ProjectsInv'
<1>1. g \in Gets /\ GetType(g) /\ g.what \in Kinds /\ TypeOK
  BY DEF ProjectsInv, TypeOK, Gets
<1>2. \A x \in Then(h) : /\ x \in Gets /\ GetType(x) /\ x.what # "file" /\ ~x.read
                         /\ x.what = "sessions" => h.what = "workspace" /\ x.arg = h.val
  BY ThenIs
<1>3. bar' \in Lists /\ panel' \in Panels
  BY <1>1, ApplyListIs DEF GetType
<1>4. TypeOK'
  BY <1>2, <1>3 DEF ProjectsInv, TypeOK, editor
<1>5. OneAtATime' /\ AddedInv'
  BY DEF ProjectsInv, OneAtATime, AddedInv, Loading, Switching, Rewriting, Defaults
<1>6. FilesInv' /\ EditorInv'
  BY <1>2, EditorStays
<1>7. CopiesInv'
  <2> SUFFICES ASSUME races' \cap {"unheard", "overlapped", "failed", "cut", "reverted"} = {}
               PROVE  CopiesInv'
    BY DEF CopiesInv
  <2>1. h = g /\ g.read /\ ~Switching
    BY DEF ProjectsInv, OneAtATime, Loading
  <2>2. /\ \A c \in commands : c.op = "write"
        /\ \A x \in gets : x.read => Fresh(x)
        /\ \A x \in gets : x.what = "sessions" => x.arg = workDir
        /\ Quiet /\ Covered(cfg)
    BY <2>1 DEF ProjectsInv, CopiesInv, Quiet, Changing, Switching
  <2>3. Fresh(g)
    BY <2>1, <2>2
  <2>4. g.what = "sessions" => g.val = workDir
    BY <2>3 DEF Fresh
  <2>5. Covered(cfg)'
    BY <1>1, <2>1, <2>2, <2>3, <2>4, CoveredStill
  <2>6. \A x \in gets' : (x.read => Fresh(x)) /\ (x.what = "sessions" => x.arg = workDir)
    BY <1>2, <2>1, <2>2, <2>3 DEF Fresh
  <2>7. \A x \in gets' : x.read => Fresh(x)'
    BY <2>6 DEF Fresh
  <2> QED  BY <2>2, <2>5, <2>6, <2>7 DEF CopiesInv
<1> QED  BY <1>4, <1>5, <1>6, <1>7 DEF ProjectsInv

LEMMA ListAnsweredKeeps == ProjectsInv /\ ListAnswered => ProjectsInv'
<1> SUFFICES ASSUME ProjectsInv, ListAnswered PROVE ProjectsInv'
  OBVIOUS
<1>1. PICK g \in gets :
        /\ g.read /\ g.what # "file" /\ ApplyList(g) /\ gets' = (gets \ {g}) \cup Then(g)
        /\ UNCHANGED <<workDir, cfg, commands, added, races, editor>>
  BY DEF ListAnswered
<1>2. g \in Gets /\ GetType(g)
  BY DEF ProjectsInv, TypeOK
<1>3. /\ g.what = "projects" => g.val \in Lists
      /\ g.what # "projects" => g.val \in OptProject
  BY <1>1, <1>2 DEF GetType, Gets, Kinds
<1> QED  BY <1>1, <1>3, ListShown

LEMMA GetFailsKeeps == ProjectsInv /\ GetFails => ProjectsInv'
<1> SUFFICES ASSUME ProjectsInv, GetFails PROVE ProjectsInv'
  OBVIOUS
<1> DEFINE Lost(g) ==
             [g EXCEPT !.val = IF g.what = "projects" THEN List({}, NoProject) ELSE NoProject]
<1>1. PICK g \in gets :
        /\ g.what # "file" /\ ApplyList(Lost(g)) /\ gets' = (gets \ {g}) \cup Then(Lost(g))
        /\ races' = races \cup {"failed"}
        /\ UNCHANGED <<workDir, cfg, commands, added, editor>>
  BY DEF GetFails
<1>2. PICK x : x = IF g.what = "projects" THEN List({}, NoProject) ELSE NoProject
  OBVIOUS
<1>3. PICK h : h = [g EXCEPT !.val = x]
  OBVIOUS
<1>4. h = Lost(g)
  BY <1>2, <1>3
<1> HIDE DEF Lost
<1>5. {} \in SUBSET Project /\ NoProject \in OptProject
  BY DEF OptProject
<1>6. /\ g.what = "projects" => x \in Lists
      /\ g.what # "projects" => x \in OptProject
  BY <1>2, <1>5, ListIs
<1>7. g \in Gets
  BY DEF ProjectsInv, TypeOK
<1>8. h.what = g.what /\ h.by = g.by /\ h.chain = g.chain /\ h.val = x
  BY <1>3, <1>7 DEF Gets
<1>9. ApplyList(h) /\ gets' = (gets \ {g}) \cup Then(h)
  BY <1>1, <1>4
<1> QED  BY <1>1, <1>6, <1>8, <1>9, ListShown

-----------------------------------------------------------------------------
(* The editor *)

\* Nothing of the lists and the projects changes.
LEMMA ListsStay ==
  ASSUME ProjectsInv, TypeOK', UNCHANGED <<workDir, cfg, bar, panel, added>>, races \subseteq races',
         \A g \in gets' : g.what # "file" => g \in gets,
         \A g \in gets : g.what # "file" => g \in gets',
         \A c \in commands' : c.op # "write" => c \in commands,
         \A c \in commands : c.op # "write" => c \in commands',
         \A g \in gets' : g.what = "file" /\ g.read => Fresh(g)
  PROVE  OneAtATime' /\ AddedInv' /\ CopiesInv'
<1>1. \A c \in commands' \cup commands : c.op = "write" => c.at \in {"sent", "done"}
  BY DEF ProjectsInv, TypeOK, CommandType
<1>2. \A g \in gets : g.chain => g.what # "file"
  BY DEF ProjectsInv, TypeOK, GetType
<1>3. \A g \in gets' : g.chain => g.what # "file"
  BY DEF TypeOK, GetType
<1>4. Switching' = Switching /\ Loading' = Loading
  BY DEF Switching, Loading
<1>5. OneAtATime'
  BY <1>1, <1>4 DEF ProjectsInv, OneAtATime, Defaults
<1>6. AddedInv'
  BY <1>1 DEF ProjectsInv, AddedInv, Rewriting, Defaults
<1>7. \A file : Covered(file) => Covered(file)'
  BY <1>2 DEF Covered, Chained, Asks, AsksFor, List
<1>8. Covered(cfg) => Covered(cfg)'
  BY <1>2 DEF Covered, Chained, Asks, AsksFor
<1>9. Quiet' => Quiet
  BY DEF Quiet, Changing
<1>10. CopiesInv'
  <2> SUFFICES ASSUME races' \cap {"unheard", "overlapped", "failed", "cut", "reverted"} = {}
               PROVE  CopiesInv'
    BY DEF CopiesInv
  <2>1. /\ \A c \in commands : c.op \notin {"write", "other"} => c.by = "panel" /\ c.op # "remove"
        /\ \A g \in gets : g.read => Fresh(g)
        /\ \A g \in gets : g.what = "sessions" => g.arg = workDir
        /\ Quiet => Covered(cfg)
        /\ \A c \in commands : c.op = "other" /\ c.at = "writing" => Covered(c.cfg)
    BY DEF ProjectsInv, CopiesInv
  <2>2. \A c \in commands' : c.op \notin {"write", "other"} => c.by = "panel" /\ c.op # "remove"
    BY <2>1
  <2>3. \A g \in gets' : (g.read => Fresh(g)') /\ (g.what = "sessions" => g.arg = workDir')
    BY <2>1 DEF Fresh
  <2>4. Quiet' => Covered(cfg)'
    BY <1>8, <1>9, <2>1
  <2>5. \A c \in commands' : c.op = "other" /\ c.at = "writing" => Covered(c.cfg)'
    BY <1>7, <2>1
  <2> QED  BY <2>2, <2>3, <2>4, <2>5 DEF CopiesInv
<1> QED  BY <1>5, <1>6, <1>10

LEMMA FilesAreFresh == ASSUME NEW g, g.what = "file" PROVE Fresh(g)
BY DEF Fresh

LEMMA OpenKeeps == ProjectsInv /\ Open => ProjectsInv'
<1> SUFFICES ASSUME ProjectsInv, Open PROVE ProjectsInv'
  OBVIOUS
<1>1. PICK f \in Path :
        /\ gets' = gets \cup {Get("file", "app", FALSE, f)}
        /\ races' = races \cup Raced("reopened", Saving)
        /\ UNCHANGED <<shell, commands, editor>>
  BY DEF Open
<1>2. PICK n : n = Get("file", "app", FALSE, f)
  OBVIOUS
<1>3. n \in Gets /\ n.what = "file" /\ ~n.chain /\ n.arg = f /\ ~n.read
  <2> DEFINE file == "file"  app == "app"  no == FALSE
  <2>1. /\ file \in Kinds /\ app \in Askers /\ no \in BOOLEAN /\ ~no /\ f \in OptProject \cup Path
        /\ n = Get(file, app, no, f)
    BY <1>2 DEF Kinds, Askers
  <2> HIDE DEF file, app, no
  <2>2. n \in Gets /\ n.what = file /\ n.chain = no /\ n.arg = f /\ ~n.read
    BY <2>1, GetIs
  <2> QED  BY <2>1, <2>2 DEF file
<1>4. gets' = gets \cup {n} /\ GetType(n)
  BY <1>1, <1>2, <1>3 DEF GetType
<1>5. races \subseteq races' /\ ("reopened" \notin races' => ~Saving)
  BY <1>1 DEF Raced
<1>6. TypeOK'
  BY <1>1, <1>3, <1>4 DEF ProjectsInv, TypeOK, shell, editor
<1>7. OneAtATime' /\ AddedInv' /\ CopiesInv'
  BY <1>1, <1>3, <1>4, <1>5, <1>6, ListsStay, FilesAreFresh DEF shell
<1>8. FilesInv'
  BY <1>1, <1>3, <1>4, <1>5 DEF ProjectsInv, FilesInv, Own, shell, editor
<1>9. EditorInv'
  BY <1>1, <1>3, <1>4, <1>5 DEF ProjectsInv, EditorInv, OnDisk, Saving, shell, editor
<1> QED  BY <1>6, <1>7, <1>8, <1>9 DEF ProjectsInv

\* The file of the click is shown with the text given.
LEMMA FileShown ==
  ASSUME ProjectsInv, NEW g \in gets, g.what = "file", NEW text \in Contents, gets' = gets \ {g},
         viewing' = [path |-> g.arg, content |-> text], races \subseteq races',
         UNCHANGED <<workDir, cfg, bar, panel, added, disk, toolWrites, edit, commands>>,
         edit # Empty \/ Saving => "reopened" \in races',
         ~text.whole => "placeholder" \in races',
         text.whole => g.read /\ text = g.val
  PROVE  ProjectsInv'
<1>1. g \in Gets /\ GetType(g) /\ g.arg \in Path
  BY DEF ProjectsInv, TypeOK, GetType
<1>2. viewing' \in Views /\ viewing'.path = g.arg /\ viewing'.content = text
  BY <1>1 DEF Views
<1>3. TypeOK'
  BY <1>2 DEF ProjectsInv, TypeOK
<1>4. \A h \in gets' : h.what = "file" => Fresh(h)
  BY FilesAreFresh
<1>5. OneAtATime' /\ AddedInv' /\ CopiesInv'
  BY <1>3, <1>4, ListsStay
<1>6. FilesInv'
  <2> SUFFICES ASSUME races' \cap {"moved", "reopened", "placeholder", "rewritten", "torn"} = {}
               PROVE  FilesInv'
    BY DEF FilesInv
  <2>1. edit = Empty /\ g.read /\ text = g.val /\ text.whole
    OBVIOUS
  <2>2. Own(text, g.arg)
    BY <2>1 DEF ProjectsInv, FilesInv, Own
  <2> QED  BY <1>2, <2>1, <2>2 DEF ProjectsInv, FilesInv, Own
<1>7. EditorInv'
  <2> SUFFICES ASSUME races' \cap {"moved", "reopened", "placeholder", "rewritten", "refused"} = {}
               PROVE  EditorInv'
    BY DEF EditorInv
  <2>1. ~Saving /\ g.read /\ text = g.val /\ text.whole
    OBVIOUS
  <2>2. OnDisk(text, g.arg)
    BY <2>1 DEF ProjectsInv, EditorInv
  <2>3. ~Saving'
    BY <2>1 DEF Saving
  <2> QED  BY <1>2, <2>2, <2>3 DEF ProjectsInv, EditorInv, OnDisk
<1> QED  BY <1>3, <1>5, <1>6, <1>7 DEF ProjectsInv

LEMMA FileAnsweredKeeps == ProjectsInv /\ FileAnswered => ProjectsInv'
<1> SUFFICES ASSUME ProjectsInv, FileAnswered PROVE ProjectsInv'
  OBVIOUS
<1>1. PICK g \in gets :
        /\ g.what = "file" /\ g.read /\ gets' = gets \ {g}
        /\ viewing' = [path |-> g.arg, content |-> Displayed(g.val)]
        /\ races' = races \cup Raced("reopened", edit # Empty \/ Saving)
                          \cup Raced("placeholder", ~Displayed(g.val).whole)
        /\ UNCHANGED <<shell, disk, toolWrites, edit, commands, budget>>
  BY DEF FileAnswered
<1>2. g.val \in Contents
  BY <1>1 DEF ProjectsInv, TypeOK, GetType
<1>3. PICK text : text = Displayed(g.val)
  OBVIOUS
<1>4. text \in Contents /\ (text.whole => text = g.val)
  <2> DEFINE no == FALSE
  <2>1. no \in BOOLEAN /\ ~no /\ text = IF g.val.empty THEN [g.val EXCEPT !.whole = no] ELSE g.val
    BY <1>3 DEF Displayed
  <2> HIDE DEF no
  <2> QED  BY <1>2, <2>1 DEF Contents
<1>5. /\ races \subseteq races' /\ (edit # Empty \/ Saving => "reopened" \in races')
      /\ ~text.whole => "placeholder" \in races'
  BY <1>1, <1>3 DEF Raced
<1>6. viewing' = [path |-> g.arg, content |-> text]
  BY <1>1, <1>3
<1>7. UNCHANGED <<workDir, cfg, bar, panel, added, disk, toolWrites, edit, commands>>
  BY <1>1 DEF shell
<1> QED  BY <1>1, <1>4, <1>5, <1>6, <1>7, FileShown

LEMMA OpenFailsKeeps == ProjectsInv /\ OpenFails => ProjectsInv'
<1> SUFFICES ASSUME ProjectsInv, OpenFails PROVE ProjectsInv'
  OBVIOUS
<1>1. PICK g \in gets :
        /\ g.what = "file" /\ gets' = gets \ {g}
        /\ viewing' = [path |-> g.arg, content |-> LoadError(<<workDir, g.arg>>)]
        /\ races' = races \cup {"placeholder"} \cup Raced("reopened", edit # Empty \/ Saving)
        /\ UNCHANGED <<shell, disk, toolWrites, edit, commands>>
  BY DEF OpenFails
<1>2. PICK text : text = LoadError(<<workDir, g.arg>>)
  OBVIOUS
<1>3. text \in Contents /\ ~text.whole
  <2> DEFINE no == FALSE  zero == 0
  <2>1. no \in BOOLEAN /\ ~no /\ zero \in Nat
    OBVIOUS
  <2>2. PICK file : file = <<workDir, g.arg>>
    OBVIOUS
  <2>3. file \in Files
    BY <1>1, <2>2 DEF ProjectsInv, TypeOK, GetType, Files
  <2>4. text = [of |-> file, whole |-> no, empty |-> no, edits |-> zero, tools |-> zero]
    BY <1>2, <2>2 DEF LoadError
  <2> HIDE DEF no, zero
  <2>5. text \in Contents /\ text.whole = no
    BY <2>1, <2>3, <2>4 DEF Contents
  <2> QED  BY <2>1, <2>5
<1>4. viewing' = [path |-> g.arg, content |-> text]
  BY <1>1, <1>2
<1>5. /\ races \subseteq races' /\ "placeholder" \in races'
      /\ edit # Empty \/ Saving => "reopened" \in races'
  BY <1>1 DEF Raced
<1>6. UNCHANGED <<workDir, cfg, bar, panel, added, disk, toolWrites, edit, commands>>
  BY <1>1 DEF shell
<1> QED  BY <1>1, <1>3, <1>4, <1>5, <1>6, FileShown

\* Only what is in view or edited changes.
LEMMA ViewChanges ==
  ASSUME ProjectsInv, viewing' \in Views \cup {Empty}, edit' \in Contents \cup {Empty},
         UNCHANGED <<workDir, cfg, bar, panel, added, disk, toolWrites, commands, gets>>,
         races \subseteq races', viewing' = viewing \/ viewing' = Empty,
         FilesInv /\ edit' # Empty =>
           \/ races \cap {"moved", "reopened", "placeholder", "rewritten", "torn"} # {}
           \/ (viewing' # Empty /\ Own(edit', viewing'.path))
  PROVE  ProjectsInv'
<1>1. TypeOK'
  BY DEF ProjectsInv, TypeOK
<1>2. \A h \in gets' : h.what = "file" => Fresh(h)
  BY FilesAreFresh
<1>3. OneAtATime' /\ AddedInv' /\ CopiesInv'
  BY <1>1, <1>2, ListsStay
<1>4. FilesInv'
  BY DEF ProjectsInv, FilesInv, Own
<1>5. EditorInv'
  BY DEF ProjectsInv, EditorInv, OnDisk, Opening, Saving
<1> QED  BY <1>1, <1>3, <1>4, <1>5 DEF ProjectsInv

LEMMA StartEditKeeps == ProjectsInv /\ StartEdit => ProjectsInv'
<1> SUFFICES ASSUME ProjectsInv, StartEdit PROVE ProjectsInv'
  OBVIOUS
<1>1. /\ viewing # Empty /\ edit' = viewing.content
      /\ UNCHANGED <<workDir, cfg, bar, panel, added, disk, toolWrites, viewing, commands, gets>>
      /\ races' = races
  BY DEF StartEdit, shell
<1>2. viewing \in Views \cup {Empty} /\ viewing.content \in Contents
  BY <1>1 DEF ProjectsInv, TypeOK, Views
<1>3. FilesInv => races \cap {"moved", "reopened", "placeholder", "rewritten", "torn"} # {}
                  \/ Own(viewing.content, viewing.path)
  BY <1>1 DEF FilesInv
<1> QED  BY <1>1, <1>2, <1>3, ViewChanges

LEMMA TypeKeeps == ProjectsInv /\ Type => ProjectsInv'
<1> SUFFICES ASSUME ProjectsInv, Type PROVE ProjectsInv'
  OBVIOUS
<1>1. PICK b \in BOOLEAN :
        /\ edit # Empty /\ edit' = [edit EXCEPT !.edits = @ + 1, !.empty = b]
        /\ UNCHANGED <<workDir, cfg, bar, panel, added, disk, toolWrites, viewing, commands, gets>>
        /\ races' = races
  BY DEF Type, shell
<1>2. edit \in Contents /\ viewing \in Views \cup {Empty}
  BY <1>1 DEF ProjectsInv, TypeOK
<1>3. PICK e : e = [edit EXCEPT !.edits = @ + 1, !.empty = b]
  OBVIOUS
<1>4. e \in Contents /\ e.of = edit.of /\ e.whole = edit.whole /\ e.tools = edit.tools
  <2>1. edit.edits + 1 \in Nat
    BY <1>2 DEF Contents
  <2>2. PICK m : m = edit.edits + 1
    OBVIOUS
  <2>3. m \in Nat /\ e = [edit EXCEPT !.edits = m, !.empty = b]
    BY <1>3, <2>1, <2>2
  <2> QED  BY <1>1, <1>2, <2>3 DEF Contents
<1>5. FilesInv => races \cap {"moved", "reopened", "placeholder", "rewritten", "torn"} # {}
                  \/ (viewing # Empty /\ Own(e, viewing.path))
  BY <1>1, <1>4 DEF FilesInv, Own
<1>6. edit' = e
  BY <1>1, <1>3
<1> QED  BY <1>1, <1>2, <1>4, <1>5, <1>6, ViewChanges

LEMMA CancelKeeps == ProjectsInv /\ (CancelEdit \/ Close) => ProjectsInv'
<1> SUFFICES ASSUME ProjectsInv, CancelEdit \/ Close PROVE ProjectsInv'
  OBVIOUS
<1>1. /\ edit' = Empty /\ (viewing' = viewing \/ viewing' = Empty) /\ races \subseteq races'
      /\ UNCHANGED <<workDir, cfg, bar, panel, added, disk, toolWrites, commands, gets>>
  BY DEF CancelEdit, Close, shell
<1>2. viewing' \in Views \cup {Empty}
  BY <1>1 DEF ProjectsInv, TypeOK
<1> QED  BY <1>1, <1>2, ViewChanges

LEMMA SaveFileKeeps == ProjectsInv /\ SaveFile => ProjectsInv'
<1> SUFFICES ASSUME ProjectsInv, SaveFile PROVE ProjectsInv'
  OBVIOUS
<1>1. /\ edit # Empty /\ viewing # Empty
      /\ commands' = commands \cup
           {[Command("write", "app", viewing.path) EXCEPT !.view = viewing, !.content = edit]}
      /\ races' = races \cup Raced("reopened", Opening \/ Saving)
      /\ UNCHANGED <<workDir, cfg, bar, panel, added, disk, toolWrites, viewing, edit, gets>>
  BY DEF SaveFile, shell, editor
<1>2. edit \in Contents /\ viewing \in Views /\ viewing.path \in Path /\ cfg \in Configs
  BY <1>1 DEF ProjectsInv, TypeOK, Views
<1>3. PICK c : c = Command("write", "app", viewing.path)
  OBVIOUS
<1>4. c \in Commands /\ c.op = "write" /\ c.path = viewing.path /\ c.at = "sent"
  <2> DEFINE write == "write"  app == "app"
  <2>1. write \in OpNames /\ app \in Askers /\ viewing.path \in Targets
        /\ c = Command(write, app, viewing.path)
    BY <1>2, <1>3 DEF OpNames, Askers, Targets
  <2> HIDE DEF write, app
  <2>2. c \in Commands /\ c.op = write /\ c.path = viewing.path /\ c.at = "sent"
    BY <1>2, <2>1, CommandIs
  <2> QED  BY <2>2 DEF write
<1>5. PICK n : n = [c EXCEPT !.view = viewing, !.content = edit]
  OBVIOUS
<1>6. commands' = commands \cup {n}
  BY <1>1, <1>3, <1>5
<1>7. /\ n \in Commands /\ n.op = "write" /\ n.path = viewing.path /\ n.at = "sent"
      /\ n.view = viewing /\ n.content = edit
  <2>1. PICK v, e : v = viewing /\ e = edit
    OBVIOUS
  <2>2. v \in Views \cup {Empty} /\ e \in Contents \cup {Empty}
        /\ n = [c EXCEPT !.view = v, !.content = e]
    BY <1>2, <1>5, <2>1
  <2>3. /\ n \in Commands /\ n.op = c.op /\ n.path = c.path /\ n.at = c.at
        /\ n.view = v /\ n.content = e
    BY <1>4, <2>2 DEF Commands
  <2> QED  BY <1>4, <2>1, <2>3
<1>8. CommandType(n)
  BY <1>2, <1>7 DEF CommandType
<1>9. races \subseteq races' /\ ("reopened" \notin races' => ~Opening /\ ~Saving)
  BY <1>1 DEF Raced
<1>10. TypeOK'
  BY <1>1, <1>6, <1>7, <1>8 DEF ProjectsInv, TypeOK
<1>11. OneAtATime' /\ AddedInv' /\ CopiesInv'
  BY <1>1, <1>6, <1>7, <1>9, <1>10, ListsStay, FilesAreFresh
<1>12. FilesInv'
  BY <1>1, <1>6, <1>7, <1>9 DEF ProjectsInv, FilesInv, Own
<1>13. EditorInv'
  <2> SUFFICES ASSUME races' \cap {"moved", "reopened", "placeholder", "rewritten", "refused"} = {}
               PROVE  EditorInv'
    BY DEF EditorInv
  <2>1. ~Opening' /\ \A c1 \in commands' : c1.op = "write" => c1 = n
    BY <1>1, <1>6, <1>9 DEF Opening, Saving
  <2>2. Saving'
    BY <1>6, <1>7 DEF Saving
  <2> QED  BY <1>7, <2>1, <2>2 DEF EditorInv, Opening
<1> QED  BY <1>10, <1>11, <1>12, <1>13 DEF ProjectsInv

LEMMA WriteFileKeeps == ProjectsInv /\ WriteFile => ProjectsInv'
<1> SUFFICES ASSUME ProjectsInv, WriteFile PROVE ProjectsInv'
  OBVIOUS
<1>1. PICK c \in commands :
        /\ c.op = "write" /\ c.at = "sent"
        /\ commands' = (commands \ {c}) \cup {[c EXCEPT !.at = "done"]}
        /\ \/ disk' = Written(c) /\ UNCHANGED races
           \/ races' = races \cup {"refused"} /\ UNCHANGED disk
           \/ races' = races \cup {"refused", "torn"} /\ disk' = Torn(c)
        /\ UNCHANGED <<workDir, cfg, bar, panel, added, toolWrites, viewing, edit, gets>>
  BY DEF WriteFile, shell
<1>2. PICK a : a = "done"
  OBVIOUS
<1>3. PICK n : n = [c EXCEPT !.at = a]
  OBVIOUS
<1>4. commands' = (commands \ {c}) \cup {n}
  BY <1>1, <1>2, <1>3
<1>5. c \in Commands /\ CommandType(c) /\ a \in Places
  BY <1>2 DEF ProjectsInv, TypeOK, Places
<1>6. /\ n \in Commands /\ n.op = "write" /\ n.path = c.path /\ n.at = "done"
      /\ n.view = c.view /\ n.content = c.content
  BY <1>1, <1>2, <1>3, <1>5, CommandArrives
<1>7. CommandType(n) /\ c.path \in Path /\ c.content \in Contents
  BY <1>1, <1>5, <1>6 DEF CommandType
<1>8. races \subseteq races' /\ Saving' /\ Saving
  BY <1>1, <1>4, <1>6 DEF Saving
<1>9. PICK file : file = <<workDir, c.path>>
  OBVIOUS
<1>10. file \in Files
  BY <1>7, <1>9 DEF ProjectsInv, TypeOK, Files
<1>11. PICK torn : torn = [c.content EXCEPT !.whole = FALSE]
  OBVIOUS
<1>12. torn \in Contents
  <2> DEFINE no == FALSE
  <2>1. no \in BOOLEAN /\ torn = [c.content EXCEPT !.whole = no]
    BY <1>11
  <2> HIDE DEF no
  <2> QED  BY <1>7, <2>1 DEF Contents
<1>13. \/ disk' = [disk EXCEPT ![file] = c.content]
       \/ disk' = disk /\ "refused" \in races'
       \/ disk' = [disk EXCEPT ![file] = torn] /\ "refused" \in races' /\ "torn" \in races'
  BY <1>1, <1>9, <1>11 DEF Written, Torn
<1>14. /\ disk' \in [Files -> Contents]
       /\ "torn" \notin races' =>
            \A f \in Files : disk'[f] = disk[f] \/ (f = file /\ disk'[f] = c.content)
       /\ "refused" \notin races' => disk'[file] = c.content
  BY <1>7, <1>10, <1>12, <1>13 DEF ProjectsInv, TypeOK
<1>15. TypeOK'
  BY <1>1, <1>4, <1>6, <1>7, <1>14 DEF ProjectsInv, TypeOK
<1>16. OneAtATime' /\ AddedInv' /\ CopiesInv'
  BY <1>1, <1>4, <1>6, <1>8, <1>15, ListsStay, FilesAreFresh
<1>17. FilesInv'
  <2> SUFFICES ASSUME races' \cap {"moved", "reopened", "placeholder", "rewritten", "torn"} = {}
               PROVE  FilesInv'
    BY DEF FilesInv
  <2>1. /\ \A f \in Files : disk[f].of = f /\ disk[f].whole /\ disk[f].tools = toolWrites[f]
        /\ c.content.of = file /\ c.content.whole /\ c.content.tools = toolWrites[file]
        /\ \A d \in commands : d.op = "write" => Own(d.content, d.path)
    BY <1>1, <1>8, <1>9 DEF ProjectsInv, FilesInv, Own
  <2>2. \A f \in Files : disk'[f].of = f /\ disk'[f].whole /\ disk'[f].tools = toolWrites[f]
    BY <1>14, <2>1
  <2>3. \A d \in commands' : d.op = "write" => Own(d.content, d.path)
    BY <1>1, <1>4, <1>6, <2>1 DEF Own
  <2> QED  BY <1>1, <1>8, <2>2, <2>3 DEF ProjectsInv, FilesInv, Own
<1>18. EditorInv'
  <2> SUFFICES ASSUME races' \cap {"moved", "reopened", "placeholder", "rewritten", "refused"} = {}
               PROVE  EditorInv'
    BY DEF EditorInv
  <2>1. ~Opening /\ \A d \in commands : d.op = "write" => d = c
    BY <1>1, <1>8 DEF ProjectsInv, EditorInv
  <2>2. ~Opening' /\ \A d \in commands' : d.op = "write" => d = n
    BY <1>1, <1>4, <2>1 DEF Opening
  <2>3. disk'[<<workDir', n.path>>] = n.content
    BY <1>1, <1>6, <1>9, <1>14
  <2> QED  BY <1>8, <2>2, <2>3 DEF EditorInv, OnDisk, Opening
<1> QED  BY <1>15, <1>16, <1>17, <1>18 DEF ProjectsInv

LEMMA FileSavedKeeps == ProjectsInv /\ FileSaved => ProjectsInv'
<1> SUFFICES ASSUME ProjectsInv, FileSaved PROVE ProjectsInv'
  OBVIOUS
<1>1. PICK c \in commands :
        /\ c.op = "write" /\ c.at = "done" /\ commands' = commands \ {c}
        /\ viewing' = [c.view EXCEPT !.content = c.content] /\ edit' = Empty
        /\ UNCHANGED <<workDir, cfg, bar, panel, added, disk, toolWrites, gets, races>>
  BY DEF FileSaved, shell
<1>2. c.view \in Views /\ c.content \in Contents /\ c.path = c.view.path
  BY <1>1 DEF ProjectsInv, TypeOK, CommandType
<1>3. viewing' \in Views /\ viewing'.path = c.path /\ viewing'.content = c.content
  <2>1. PICK v, e : v = c.view /\ e = c.content
    OBVIOUS
  <2>2. PICK n : n = [v EXCEPT !.content = e]
    OBVIOUS
  <2>3. n \in Views /\ n.path = v.path /\ n.content = e
    BY <1>2, <2>1, <2>2 DEF Views
  <2> QED  BY <1>1, <1>2, <2>1, <2>2, <2>3
<1>4. TypeOK'
  BY <1>1, <1>3 DEF ProjectsInv, TypeOK
<1>5. OneAtATime' /\ AddedInv' /\ CopiesInv'
  BY <1>1, <1>4, ListsStay, FilesAreFresh
<1>6. FilesInv'
  BY <1>1, <1>3 DEF ProjectsInv, FilesInv, Own
<1>7. EditorInv'
  BY <1>1, <1>3 DEF ProjectsInv, EditorInv, OnDisk, Opening, Saving
<1> QED  BY <1>4, <1>5, <1>6, <1>7 DEF ProjectsInv

LEMMA ToolWritesKeep == ProjectsInv /\ ToolWrites => ProjectsInv'
<1> SUFFICES ASSUME ProjectsInv, ToolWrites PROVE ProjectsInv'
  OBVIOUS
<1>1. PICK file \in Project \X Path, b \in BOOLEAN :
        /\ toolWrites' = [toolWrites EXCEPT ![file] = @ + 1]
        /\ disk' = [disk EXCEPT ![file] = [of |-> file, whole |-> TRUE, empty |-> b, edits |-> 0,
                                           tools |-> toolWrites'[file]]]
        /\ races' = races \cup Raced("rewritten", InEditor(file))
        /\ UNCHANGED <<workDir, cfg, bar, panel, added, viewing, edit, commands, gets>>
  BY DEF ToolWrites, shell
<1>2. file \in Files /\ toolWrites \in [Files -> Nat] /\ disk \in [Files -> Contents]
  BY DEF Files, ProjectsInv, TypeOK
<1>3. PICK k : k = toolWrites'[file]
  OBVIOUS
<1>4. /\ k \in Nat /\ toolWrites' \in [Files -> Nat] /\ toolWrites'[file] = k
      /\ \A f \in Files : f # file => toolWrites'[f] = toolWrites[f]
  BY <1>1, <1>2, <1>3
<1>5. PICK text : text = [of |-> file, whole |-> TRUE, empty |-> b, edits |-> 0, tools |-> k]
  OBVIOUS
<1>6. text \in Contents /\ text.of = file /\ text.whole /\ text.tools = k
  <2> DEFINE yes == TRUE  zero == 0
  <2>1. /\ yes \in BOOLEAN /\ yes /\ zero \in Nat
        /\ text = [of |-> file, whole |-> yes, empty |-> b, edits |-> zero, tools |-> k]
    BY <1>5
  <2> HIDE DEF yes, zero
  <2>2. text \in Contents /\ text.of = file /\ text.whole = yes /\ text.tools = k
    BY <1>2, <1>4, <2>1 DEF Contents
  <2> QED  BY <2>1, <2>2
<1>7. /\ disk' \in [Files -> Contents] /\ disk'[file] = text
      /\ \A f \in Files : f # file => disk'[f] = disk[f]
  BY <1>1, <1>2, <1>3, <1>5, <1>6
<1>8. races \subseteq races' /\ ("rewritten" \notin races' => ~InEditor(file))
  BY <1>1 DEF Raced
<1>9. TypeOK'
  BY <1>1, <1>4, <1>7 DEF ProjectsInv, TypeOK
<1>10. OneAtATime' /\ AddedInv' /\ CopiesInv'
  BY <1>1, <1>8, <1>9, ListsStay, FilesAreFresh
<1>11. ASSUME "rewritten" \notin races'
       PROVE  /\ viewing # Empty => <<workDir, viewing.path>> # file
              /\ \A g \in gets : g.what = "file" /\ g.read => <<workDir, g.arg>> # file
              /\ \A c \in commands : c.op = "write" => <<workDir, c.path>> # file
  BY <1>8, <1>11 DEF InEditor
<1>12. /\ viewing # Empty => <<workDir, viewing.path>> \in Files
       /\ \A g \in gets : g.what = "file" => <<workDir, g.arg>> \in Files
       /\ \A c \in commands : c.op = "write" => <<workDir, c.path>> \in Files
  BY DEF ProjectsInv, TypeOK, Views, GetType, CommandType, Files
<1>13. FilesInv'
  <2> SUFFICES ASSUME races' \cap {"moved", "reopened", "placeholder", "rewritten", "torn"} = {}
               PROVE  FilesInv'
    BY DEF FilesInv
  <2>1. /\ \A f \in Files : disk[f].of = f /\ disk[f].whole /\ disk[f].tools = toolWrites[f]
        /\ viewing # Empty => Own(viewing.content, viewing.path)
        /\ edit # Empty => viewing # Empty /\ Own(edit, viewing.path)
        /\ \A c \in commands : c.op = "write" => Own(c.content, c.path)
        /\ \A g \in gets : g.what = "file" /\ g.read =>
             g.val.of = <<workDir, g.arg>> /\ g.val.tools = toolWrites[<<workDir, g.arg>>]
    BY <1>8 DEF ProjectsInv, FilesInv
  <2>2. \A f \in Files : disk'[f].of = f /\ disk'[f].whole /\ disk'[f].tools = toolWrites'[f]
    BY <1>4, <1>6, <1>7, <2>1
  <2>3. /\ viewing' # Empty => Own(viewing.content, viewing.path)'
        /\ edit' # Empty => viewing' # Empty /\ Own(edit, viewing.path)'
    BY <1>1, <1>4, <1>11, <1>12, <2>1 DEF Own
  <2>4. \A c \in commands' : c.op = "write" => Own(c.content, c.path)'
    BY <1>1, <1>4, <1>11, <1>12, <2>1 DEF Own
  <2>5. \A g \in gets' : g.what = "file" /\ g.read =>
          g.val.of = <<workDir', g.arg>> /\ g.val.tools = toolWrites'[<<workDir', g.arg>>]
    BY <1>1, <1>4, <1>11, <1>12, <2>1
  <2> QED  BY <2>2, <2>3, <2>4, <2>5 DEF FilesInv
<1>14. EditorInv'
  BY <1>1, <1>7, <1>8, <1>11, <1>12 DEF ProjectsInv, EditorInv, OnDisk, Opening, Saving
<1> QED  BY <1>9, <1>10, <1>13, <1>14 DEF ProjectsInv

-----------------------------------------------------------------------------
(* The theorems *)

LEMMA InitHolds == Init => ProjectsInv
<1> SUFFICES ASSUME Init PROVE ProjectsInv
  OBVIOUS
<1>1. /\ workDir \in Project /\ cfg = [projects |-> {workDir}, workDir |-> workDir]
      /\ disk = [file \in Project \X Path |->
                   [of |-> file, whole |-> TRUE, empty |-> FALSE, edits |-> 0, tools |-> 0]]
      /\ toolWrites = [file \in Project \X Path |-> 0]
      /\ viewing = Empty /\ edit = Empty /\ commands = {} /\ added = {} /\ races = {}
      /\ \/ /\ bar = List({}, NoProject)
            /\ panel = [projects |-> {}, active |-> NoProject, sessions |-> NoProject,
                        tree |-> NoProject]
            /\ gets = Reload \cup {Get("projects", "bar", FALSE, NoProject)}
         \/ /\ bar = List(cfg.projects, workDir)
            /\ panel = [projects |-> cfg.projects, active |-> workDir, sessions |-> workDir,
                        tree |-> workDir]
            /\ gets = {}
  BY DEF Init
<1>2. cfg \in Configs /\ cfg.projects \in SUBSET Project /\ workDir \in cfg.projects
  BY <1>1 DEF Configs, OptProject
<1>3. workDir \in OptProject /\ NoProject \in OptProject /\ {} \in SUBSET Project
  BY <1>1 DEF OptProject
<1>4. /\ disk \in [Files -> Contents] /\ toolWrites \in [Files -> Nat]
      /\ \A f \in Files : disk[f].of = f /\ disk[f].whole /\ disk[f].tools = toolWrites[f]
  <2> DEFINE Text(f) == [of |-> f, whole |-> TRUE, empty |-> FALSE, edits |-> 0, tools |-> 0]
  <2>1. \A f \in Files :
          Text(f) \in Contents /\ Text(f).of = f /\ Text(f).whole /\ Text(f).tools = 0
    BY DEF Contents
  <2>2. disk = [f \in Files |-> Text(f)] /\ toolWrites = [f \in Files |-> 0]
    BY <1>1 DEF Files
  <2> HIDE DEF Text
  <2> QED  BY <2>1, <2>2
<1>5. bar \in Lists /\ panel \in Panels
  <2>1. List({}, NoProject) \in Lists /\ List(cfg.projects, workDir) \in Lists
    BY <1>2, <1>3, ListIs
  <2> DEFINE none == {}
  <2>2. none \in SUBSET Project
    BY <1>3
  <2>3. /\ bar \in Lists
        /\ \/ panel = [projects |-> none, active |-> NoProject, sessions |-> NoProject,
                       tree |-> NoProject]
           \/ panel = [projects |-> cfg.projects, active |-> workDir, sessions |-> workDir,
                       tree |-> workDir]
    BY <1>1, <2>1
  <2> HIDE DEF none
  <2>4. CASE panel = [projects |-> none, active |-> NoProject, sessions |-> NoProject,
                      tree |-> NoProject]
    BY <1>3, <2>2, <2>3, <2>4 DEF Panels
  <2>5. CASE panel = [projects |-> cfg.projects, active |-> workDir, sessions |-> workDir,
                      tree |-> workDir]
    BY <1>2, <1>3, <2>3, <2>5 DEF Panels
  <2> QED  BY <2>3, <2>4, <2>5
<1>6. \A g \in gets : g \in Gets /\ GetType(g) /\ ~g.read /\ g.what \notin {"file", "sessions"}
  <2> SUFFICES ASSUME NEW g \in gets
               PROVE  g \in Gets /\ GetType(g) /\ ~g.read /\ g.what \notin {"file", "sessions"}
    OBVIOUS
  <2> DEFINE workspace == "workspace"  tree == "tree"  panel1 == "panel"  no == FALSE
  <2>1. \/ g = Get("projects", "panel", FALSE, NoProject)
        \/ g = Get("projects", "bar", FALSE, NoProject)
        \/ g = Get(workspace, panel1, no, NoProject)
        \/ g = Get(tree, panel1, no, NoProject)
    BY <1>1 DEF Reload
  <2>2. CASE g = Get("projects", "panel", FALSE, NoProject)
    BY <2>2, ProjectsGet
  <2>3. CASE g = Get("projects", "bar", FALSE, NoProject)
    BY <2>3, ProjectsGet
  <2>4. /\ workspace \in Kinds /\ tree \in Kinds /\ panel1 \in Askers /\ no \in BOOLEAN /\ ~no
        /\ NoProject \in OptProject \cup Path
    BY <1>3 DEF Kinds, Askers
  <2> HIDE DEF workspace, tree, panel1, no
  <2>5. CASE g = Get(workspace, panel1, no, NoProject)
    <3>1. g \in Gets /\ g.what = workspace /\ g.chain = no /\ g.arg = NoProject /\ ~g.read
      BY <2>4, <2>5, GetIs
    <3> QED  BY <1>3, <2>4, <3>1 DEF workspace, GetType
  <2>6. CASE g = Get(tree, panel1, no, NoProject)
    <3>1. g \in Gets /\ g.what = tree /\ g.chain = no /\ g.arg = NoProject /\ ~g.read
      BY <2>4, <2>6, GetIs
    <3> QED  BY <1>3, <2>4, <3>1 DEF tree, GetType
  <2> QED  BY <2>1, <2>2, <2>3, <2>5, <2>6
<1>7. TypeOK
  BY <1>1, <1>2, <1>4, <1>5, <1>6 DEF TypeOK
<1>8. OneAtATime /\ AddedInv
  BY <1>1 DEF OneAtATime, AddedInv, Switching
<1>9. FilesInv
  BY <1>1, <1>4, <1>6 DEF FilesInv
<1>10. EditorInv
  BY <1>1, <1>6 DEF EditorInv, Saving
<1>11. Covered(cfg)
  <2>1. CASE gets = {} /\ bar = List(cfg.projects, workDir)
             /\ panel = [projects |-> cfg.projects, active |-> workDir, sessions |-> workDir,
                         tree |-> workDir]
    BY <1>2, <1>3, <2>1, ListIs DEF Covered
  <2>2. CASE gets = Reload \cup {Get("projects", "bar", FALSE, NoProject)}
    <3>1. /\ Get("projects", "panel", FALSE, NoProject) \in gets
          /\ Get("workspace", "panel", FALSE, NoProject) \in gets
          /\ Get("tree", "panel", FALSE, NoProject) \in gets
          /\ Get("projects", "bar", FALSE, NoProject) \in gets
      BY <2>2 DEF Reload
    <3>2. /\ Get("projects", "panel", FALSE, NoProject).what = "projects"
          /\ Get("projects", "panel", FALSE, NoProject).by = "panel"
          /\ Get("workspace", "panel", FALSE, NoProject).what = "workspace"
          /\ Get("tree", "panel", FALSE, NoProject).what = "tree"
          /\ Get("projects", "bar", FALSE, NoProject).what = "projects"
          /\ Get("projects", "bar", FALSE, NoProject).by = "bar"
      BY DEF Get
    <3> QED  BY <3>1, <3>2 DEF Covered, Asks, AsksFor
  <2> QED  BY <1>1, <2>1, <2>2
<1>12. CopiesInv
  BY <1>1, <1>6, <1>11 DEF CopiesInv
<1> QED  BY <1>7, <1>8, <1>9, <1>10, <1>12 DEF ProjectsInv

LEMMA NothingHappens == ProjectsInv /\ UNCHANGED vars => ProjectsInv'
<1> SUFFICES ASSUME ProjectsInv, UNCHANGED vars PROVE ProjectsInv'
  OBVIOUS
<1>1. /\ UNCHANGED <<workDir, cfg, bar, panel, added, disk, toolWrites, viewing, edit, commands,
                     gets, races>>
      /\ viewing \in Views \cup {Empty} /\ edit \in Contents \cup {Empty}
  BY DEF vars, editor, ProjectsInv, TypeOK
<1>2. FilesInv /\ edit # Empty =>
        \/ races \cap {"moved", "reopened", "placeholder", "rewritten", "torn"} # {}
        \/ (viewing # Empty /\ Own(edit, viewing.path))
  BY DEF FilesInv
<1> QED  BY <1>1, <1>2, ViewChanges

LEMMA StepHolds == ProjectsInv /\ [Next]_vars => ProjectsInv'
<1> SUFFICES ASSUME ProjectsInv, [Next]_vars PROVE ProjectsInv'
  OBVIOUS
<1>1. CASE SwitchFromPanel \/ SwitchFromBar \/ AddProject \/ RemoveProject \/ OtherSetting
  BY <1>1, CommandsKeep
<1>2. CASE LoadConfig \/ TruncateConfig \/ WriteConfig \/ SaveFails \/ Restart \/ CommandAnswered
  BY <1>2, LoadConfigKeeps, TruncateConfigKeeps, WriteConfigKeeps, SaveFailsKeeps, RestartKeeps,
     CommandAnsweredKeeps
<1>3. CASE ReadGet \/ ListAnswered \/ GetFails
  BY <1>3, ReadGetKeeps, ListAnsweredKeeps, GetFailsKeeps
<1>4. CASE Open \/ FileAnswered \/ OpenFails \/ StartEdit \/ Type \/ CancelEdit \/ Close
  BY <1>4, OpenKeeps, FileAnsweredKeeps, OpenFailsKeeps, StartEditKeeps, TypeKeeps, CancelKeeps
<1>5. CASE SaveFile \/ WriteFile \/ FileSaved \/ ToolWrites
  BY <1>5, SaveFileKeeps, WriteFileKeeps, FileSavedKeeps, ToolWritesKeep
<1>6. CASE UNCHANGED vars
  BY <1>6, NothingHappens
<1> QED  BY <1>1, <1>2, <1>3, <1>4, <1>5, <1>6 DEF Next

\* The types hold, and with them what each command and request under way has
\* done so far: the invariant the theorems below follow from.
THEOREM Invariance == Spec => []ProjectsInv
BY InitHolds, StepHolds, PTL DEF Spec

\* Whatever is clicked and however the requests interleave, the status bar and
\* the side panel come to show the workspace of the server when they are at
\* rest (SidePanel.tsx and App.tsx), except where the named races say.
THEOREM CopiesTheorem == Spec => []CopiesAgree
<1>1. ASSUME ProjectsInv, AtRest,
             races \cap {"unheard", "overlapped", "failed", "cut", "reverted"} = {}
      PROVE  /\ panel.tree = workDir /\ panel.sessions = workDir
             /\ panel.active = List(cfg.projects, workDir).active
             /\ bar = List(cfg.projects, workDir)
  <2>1. Quiet /\ \A g \in gets : g.what = "file" /\ ~g.chain
    BY <1>1 DEF AtRest, Loading, Switching, Quiet, Changing, ProjectsInv, TypeOK, GetType
  <2>2. Covered(cfg)
    BY <1>1, <2>1 DEF ProjectsInv, CopiesInv
  <2> QED  BY <2>1, <2>2 DEF Covered, Chained, Asks, AsksFor
<1>2. ProjectsInv => CopiesAgree
  BY <1>1 DEF CopiesAgree
<1> QED  BY <1>2, Invariance, PTL

\* A project that was added stays in the configuration file until it is removed,
\* whatever else rewrites that file (handleAddProject, handleDeleteProject,
\* handleSetWorkspace, the model picker, the registration of providers and the
\* skill source, all without a lock), unless two rewritings interleave or one is
\* cut off in the middle of its write.
THEOREM AddedTheorem == Spec => []AddedStaysRegistered
<1>1. ProjectsInv => AddedStaysRegistered
  BY DEF ProjectsInv, AddedInv, AddedStaysRegistered
<1> QED  BY <1>1, Invariance, PTL

\* No order of opening, editing, saving, switching, failing and writing by tools
\* puts a text into a file that it is not all of, or takes from a file what a
\* tool wrote to it, except those that are named (App.tsx's editor against
\* handleFileWrite, which joins the path to the workspace of the moment).
THEOREM FilesTheorem == Spec => []FilesKeepTheirText
<1>1. TypeOK => DOMAIN disk = Files
  BY DEF TypeOK
<1>2. ProjectsInv => FilesKeepTheirText
  BY <1>1 DEF ProjectsInv, FilesInv, FilesKeepTheirText
<1> QED  BY <1>2, Invariance, PTL

\* The closed editor shows what is on disk, tools writing files or not, with one
\* more exception: a write that was refused, or whose answer was lost.
THEOREM EditorTheorem == Spec => []EditorShowsDisk
<1>1. ProjectsInv => EditorShowsDisk
  BY DEF ProjectsInv, EditorInv, EditorShowsDisk, OnDisk
<1> QED  BY <1>1, Invariance, PTL
=============================================================================
