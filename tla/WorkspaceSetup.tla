--------------------------- MODULE WorkspaceSetup ---------------------------
(* Opening a workspace: the kinds of project its root holds, the language   *)
(* servers and tasks that follow from them and from workspace.toml, and the *)
(* server a document brings up.  The root is read once, when it is opened.  *)
EXTENDS Naturals, Sequences, SequencesExt

CONSTANTS Roots,        \* root directories: names, what can be read, scripts, settings
          Extensions,   \* of the documents the user opens
          Commands,     \* what an agent may run: program and arguments
          MaxScripts,   \* scripts of package.json listed as tasks
          MaxSteps      \* bound on what the user and the agent do

VARIABLES rootDir,  \* the root directory on disk
          setup,    \* what the model made of it
          steps
setupVars == <<rootDir, setup, steps>>

-----------------------------------------------------------------------------
(* Kinds of project. *)
ProjectMarkers ==
  << <<"Cargo.toml", "rust">>, <<"pom.xml", "java">>, <<"build.gradle", "java">>,
     <<"build.gradle.kts", "java">>, <<"settings.gradle", "java">>,
     <<"settings.gradle.kts", "java">>, <<"go.mod", "go">>, <<"pyproject.toml", "python">>,
     <<"package.json", "node">> >>
\* Every kind found, once, in the order of its first marker.
KindsAt(r) ==
  FoldLeft(LAMBDA kinds, m : IF Contains(kinds, m[2]) THEN kinds ELSE Append(kinds, m[2]), <<>>,
           SelectSeq(ProjectMarkers, LAMBDA m : m[1] \in r.names))

-----------------------------------------------------------------------------
(* .termesh/workspace.toml: one wrong entry spoils the whole file. *)
NoSettings == [commands |-> {}, tasks |-> <<>>, failed |-> FALSE]
FromDocument(d) ==
  IF \E l \in DOMAIN d.lsp : d.lsp[l] = "wrong" THEN [NoSettings EXCEPT !.failed = TRUE]
  ELSE IF \E i \in DOMAIN d.tasks : d.tasks[i].wrong THEN [NoSettings EXCEPT !.failed = TRUE]
  ELSE [commands |-> {l \in DOMAIN d.lsp : d.lsp[l] = "argv"}, tasks |-> d.tasks, failed |-> FALSE]
LoadSettings(r) ==
  CASE r.settings.state = "absent" -> NoSettings
    [] r.settings.state = "damaged" -> [NoSettings EXCEPT !.failed = TRUE]
    [] OTHER -> FromDocument(r.settings)

-----------------------------------------------------------------------------
(* Language servers. *)
Recipe(language, command, extensions) ==
  [language |-> language, command |-> command, extensions |-> extensions]
RecipeKinds == {"rust", "node", "python", "java"}
RecipeFor(kind) ==
  CASE kind = "rust" -> Recipe("rust", <<"rust-analyzer">>, {"rs"})
    [] kind = "node" -> Recipe("typescript", <<"typescript-language-server", "--stdio">>,
                               {"ts", "tsx", "js", "jsx", "mjs", "cjs"})
    [] kind = "python" -> Recipe("python", <<"pyright-langserver", "--stdio">>, {"py", "pyi"})
    [] kind = "java" -> Recipe("java", <<"jdtls">>, {"java"})
\* The override is looked up by the label of the kind, and replaces the whole command.
Declared(kind) == <<"declared", kind>>
ResolveRecipe(kind, settings) ==
  IF kind \in settings.commands THEN [RecipeFor(kind) EXCEPT !.command = Declared(kind)]
  ELSE RecipeFor(kind)
Configured(r, settings) ==
  LET kinds == SelectSeq(KindsAt(r), LAMBDA k : k \in RecipeKinds)
  IN  [i \in DOMAIN kinds |-> ResolveRecipe(kinds[i], settings)]

ServerFor(s, extension) ==
  SelectInSeq(s.sessions, LAMBDA c : extension \in c.extensions)
RecipeForPath(s, extension) ==
  SelectInSeq(s.configured, LAMBDA c : extension \in c.extensions)
\* sync_lsp_documents: the first document a recipe claims starts its server.
Served(s, extension) ==
  LET i == RecipeForPath(s, extension)
  IN  IF ServerFor(s, extension) # 0 \/ i = 0 THEN s
      ELSE [s EXCEPT !.configured = RemoveAt(@, i), !.sessions = Append(@, s.configured[i])]

-----------------------------------------------------------------------------
(* Tasks. *)
TaskSpec(adapter, name, program, args) ==
  [id |-> <<adapter, name>>, program |-> program, args |-> args]
Exists(r, name) == name \in r.readable
CargoGoals == <<"check", "build", "test", "clippy">>
\* Built-in cargo tasks ask for their messages as JSON.
AsJson(goal) == <<goal, "json">>
CargoTasks == [i \in DOMAIN CargoGoals |->
                 TaskSpec("cargo", CargoGoals[i], "cargo", AsJson(CargoGoals[i]))]
Managers == << <<"pnpm-lock.yaml", "pnpm">>, <<"yarn.lock", "yarn">>, <<"bun.lockb", "bun">>,
               <<"package-lock.json", "npm">> >>
PackageManager(r) ==
  LET i == SelectInSeq(Managers, LAMBDA m : Exists(r, m[1]))
  IN  IF i = 0 THEN "npm" ELSE Managers[i][2]
\* The scripts come sorted; a manifest that does not parse has none.
NodeTasks(r) ==
  IF ~Exists(r, "package.json") THEN <<>>
  ELSE LET kept == SubSeq(r.scripts, 1, IF Len(r.scripts) < MaxScripts THEN Len(r.scripts) ELSE MaxScripts)
       IN  [i \in DOMAIN kept |-> TaskSpec("npm", kept[i], PackageManager(r), <<"run", kept[i]>>)]
PythonTasks == <<TaskSpec("python", "pytest", "pytest", <<>>)>>
\* Mutant: a root that declares only its settings is no Gradle project.
OnlyBuildFiles == {"build.gradle", "build.gradle.kts"}
GradleBuildFiles == {"build.gradle", "build.gradle.kts", "settings.gradle", "settings.gradle.kts"}
WrapperOrTool(r, wrapper, tool) == IF Exists(r, wrapper) THEN wrapper ELSE tool
MavenGoals == <<"clean", "compile", "test", "package", "verify">>
GradleGoals == <<"build", "test", "clean", "check", "assemble">>
JavaTasks(r) ==
  LET tasks(adapter, goals, program) ==
        [i \in DOMAIN goals |-> TaskSpec(adapter, goals[i], program, <<goals[i]>>)]
  IN  (IF Exists(r, "pom.xml") THEN tasks("maven", MavenGoals, WrapperOrTool(r, "mvnw", "mvn"))
       ELSE <<>>)
      \o (IF \E f \in GradleBuildFiles : Exists(r, f)
          THEN tasks("gradle", GradleGoals, WrapperOrTool(r, "gradlew", "gradle")) ELSE <<>>)
\* A task of workspace.toml keeps its own name space.
WorkspaceTasks(settings) ==
  [i \in DOMAIN settings.tasks |->
     TaskSpec("workspace", settings.tasks[i].id, settings.tasks[i].program, settings.tasks[i].args)]
Catalog(r, settings) ==
  LET of(kind, tasks) == IF Contains(KindsAt(r), kind) THEN tasks ELSE <<>>
  IN  of("rust", CargoTasks) \o of("node", NodeTasks(r)) \o of("python", PythonTasks)
      \o of("java", JavaTasks(r)) \o WorkspaceTasks(settings)
\* The decoder is chosen by the task's id.
DecoderOf(task) == IF task.id[1] = "cargo" THEN "cargo" ELSE "text"

-----------------------------------------------------------------------------
(* What happens. *)
NoRun == [origin |-> "none", program |-> "none", args |-> <<>>, decoder |-> "none"]
Unopened == [open |-> FALSE, seen |-> [names |-> {}], notice |-> FALSE, configured |-> <<>>,
             sessions |-> <<>>, documents |-> {}, catalog |-> <<>>, run |-> NoRun,
             changed |-> {}, reload |-> {}]
SetupInit == rootDir \in Roots /\ setup = Unopened /\ steps = 0
Step == steps < MaxSteps /\ steps' = steps + 1

\* open_workspace_configured: a file that cannot be used is reported, and the
\* built-in recipes and tasks are taken instead.
OpenWorkspaceConfigured ==
  LET settings == LoadSettings(rootDir)
  IN  /\ ~setup.open
      /\ setup' = [Unopened EXCEPT !.open = TRUE, !.seen = rootDir, !.notice = settings.failed,
                                   !.configured = Configured(rootDir, settings),
                                   !.catalog = Catalog(rootDir, settings)]
      /\ UNCHANGED <<rootDir, steps>>

\* Outside, the settings are written; nothing re-reads them.
RootChanges ==
  /\ Step /\ rootDir' \in {r \in Roots : r.names = rootDir.names /\ r.settings.state = "read"}
  /\ UNCHANGED setup

\* A document is opened, or saved under this extension.
ShowDocument(extension) ==
  /\ setup.open /\ Step
  /\ setup' = [Served(setup, extension) EXCEPT !.documents = @ \cup {extension}]
  /\ UNCHANGED rootDir

Run(origin, task, decoder) ==
  [origin |-> origin, program |-> task.program, args |-> task.args, decoder |-> decoder]
RunListed(i) ==
  /\ setup.open /\ Step
  /\ LET task == setup.catalog[i]
     IN  setup' = [setup EXCEPT !.run = Run("human", task, DecoderOf(task))]
  /\ UNCHANGED rootDir
\* spawn_agent_terminal: the agent's command is a run of the first task it equals.
AgentRuns(command) ==
  LET i == SelectInSeq(setup.catalog,
                       LAMBDA t : t.program = command.program /\ t.args = command.args)
  IN  /\ setup.open /\ Step
      /\ setup' = [setup EXCEPT !.run =
                     IF i = 0 THEN Run("plain", command, "none")
                     ELSE Run("agent", setup.catalog[i], DecoderOf(setup.catalog[i]))]
      /\ UNCHANGED rootDir

IsJavaBuildFile(name) == name \in GradleBuildFiles \cup {"pom.xml"}
JavaServes(s) == \E i \in DOMAIN s.sessions : s.sessions[i].language = "java"
\* notify_lsp_watched_files: a Java server reloads its project for a build file.
FileChanges(name) ==
  /\ setup.open /\ JavaServes(setup) /\ Step
  /\ setup' = [setup EXCEPT !.changed = @ \cup {name},
                            !.reload = IF IsJavaBuildFile(name) THEN @ \cup {name} ELSE @]
  /\ UNCHANGED rootDir

SetupNext ==
  \/ OpenWorkspaceConfigured \/ RootChanges
  \/ \E e \in Extensions : ShowDocument(e)
  \/ \E i \in DOMAIN setup.catalog : RunListed(i)
  \/ \E c \in Commands : AgentRuns(c)
  \/ \E i \in DOMAIN ProjectMarkers : FileChanges(ProjectMarkers[i][1])

-----------------------------------------------------------------------------
(* Properties. *)
MarkerOf(name) == ProjectMarkers[SelectInSeq(ProjectMarkers, LAMBDA m : m[1] = name)]
MarkerNames == {ProjectMarkers[i][1] : i \in DOMAIN ProjectMarkers}
Kinds(r) == {MarkerOf(n)[2] : n \in r.names \cap MarkerNames}
Claiming(e) == {i \in DOMAIN setup.sessions : e \in setup.sessions[i].extensions}
Usable(r) ==
  /\ r.settings.state = "read" /\ \A l \in DOMAIN r.settings.lsp : r.settings.lsp[l] # "wrong"
  /\ \A i \in DOMAIN r.settings.tasks : ~r.settings.tasks[i].wrong

\* A document is served by the one server of a kind the root held when it was
\* opened, started with the command its settings gave, and no server runs
\* that no document asked for.
ServersAreAsDeclared ==
  /\ \A e \in setup.documents, k \in Kinds(setup.seen) \cap RecipeKinds :
       e \in RecipeFor(k).extensions =>
         \E i \in Claiming(e) :
           /\ Claiming(e) = {i}
           /\ setup.sessions[i].command =
                IF Usable(setup.seen) /\ k \in DOMAIN setup.seen.settings.lsp
                   /\ setup.seen.settings.lsp[k] = "argv"
                THEN Declared(k) ELSE RecipeFor(k).command
  /\ \A i \in DOMAIN setup.sessions : \E e \in setup.documents : i \in Claiming(e)

\* Every file that makes the root a Java project earns it tasks of its build
\* tool, and has a running server reload the project; tasks are told apart.
BuildFilesAgree ==
  /\ \A n \in setup.seen.names \cap MarkerNames :
       MarkerOf(n)[2] = "java" /\ Exists(setup.seen, n) =>
         \E i \in DOMAIN setup.catalog :
           setup.catalog[i].id[1] = IF n = "pom.xml" THEN "maven" ELSE "gradle"
  /\ setup.reload = {n \in setup.changed : MarkerOf(n)[2] = "java"}
  /\ \A i, j \in DOMAIN setup.catalog : setup.catalog[i].id = setup.catalog[j].id => i = j

\* What a run prints is read as what it is: only cargo tasks that ask for JSON
\* are read as JSON, and an agent's equal command is read the same way.
RunsAreReadAsTheyPrint ==
  LET json == setup.run.program = "cargo" /\ \E i \in DOMAIN CargoGoals :
                setup.run.args = AsJson(CargoGoals[i])
  IN  /\ setup.run.decoder = "cargo" => json
      /\ json /\ "rust" \in Kinds(setup.seen) /\ setup.run.origin # "human" =>
           setup.run.decoder = "cargo"

\* A workspace is set up as its root says: servers, tasks and decoders
\* (open_workspace_configured and what later reads its result).
SetupFollowsTheRoot ==
  setup.open => ServersAreAsDeclared /\ BuildFilesAgree /\ RunsAreReadAsTheyPrint

=============================================================================
