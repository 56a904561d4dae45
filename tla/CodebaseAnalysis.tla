--------------------------- MODULE CodebaseAnalysis ---------------------------
(***************************************************************************)
(* What is known of a repository before anything is written about it.      *)
(* RepositoryAnalysisService sums up the files in its root; in             *)
(* SourceCodeAnalysisService three analyzers look at all files one after   *)
(* the other, their partial results are merged, and every list is cut to   *)
(* its limit.                                                              *)
(*                                                                         *)
(* A file is a record of what the analyzers' patterns find in it, and the  *)
(* many limits (10, 20, 50, 100) are one.                                  *)
(***************************************************************************)
EXTENDS Naturals, Sequences, FiniteSets, SequencesExt

CONSTANT Limit
ASSUME CodebaseAnalysisAssumption == Limit \in Nat \ {0}

AnalyzerOrder == <<"typescript", "dependency", "architecture">>
Analyzer == {AnalyzerOrder[i] : i \in 1..Len(AnalyzerOrder)}

\* What the patterns find in a file, and what is in a package.json.
IndexedFile ==
  [path : STRING, source : BOOLEAN, read : BOOLEAN, entry : BOOLEAN, configuration : BOOLEAN,
   routes : Seq(STRING), express : Seq(STRING), services : Seq(STRING),
   production : Seq(STRING), development : Seq(STRING), peer : Seq(STRING), name : STRING,
   package : BOOLEAN, directories : Seq(STRING)]

Listed(list, x) == \E i \in 1..Len(list) : list[i] = x
Cut(list) == SubSeq(list, 1, IF Len(list) < Limit THEN Len(list) ELSE Limit)

\* One list after the other; the elements of a list that are kept, in their order.
Joined(lists) == FoldLeft(LAMBDA joined, list : joined \o list, <<>>, lists)
Among(list, kept) == Joined([i \in 1..Len(list) |-> IF list[i] \in kept THEN <<list[i]>> ELSE <<>>])

\* push, if there is room, and if it is new.
PushTo(list, x) == IF Len(list) < Limit THEN Append(list, x) ELSE list
PushNew(list, x) == IF Listed(list, x) THEN list ELSE PushTo(list, x)
PushAll(list, found) == FoldLeft(PushTo, list, found)
PushAllNew(list, found) == FoldLeft(PushNew, list, found)
Collect(found) == PushAll(<<>>, Joined(found))
CollectNew(found) == PushAllNew(<<>>, Joined(found))
Distinct(list) == FoldLeft(LAMBDA kept, x : IF Listed(kept, x) THEN kept ELSE Append(kept, x), <<>>, list)

-----------------------------------------------------------------------------
(* The analyzers.  An unreadable or large file counts, but nothing is found in it. *)

Sources(files) == Among(files, {file \in ToSet(files) : file.source})

\* A controller's routes are pushed as they come, an Express route only if it is new.
PushRoutes(list, file) ==
  IF file.read THEN PushAllNew(PushAll(list, file.routes), file.express) ELSE list
TypeScriptAnalysis(files) ==
  LET sources == Sources(files)
      Entries == [i \in DOMAIN sources |-> IF sources[i].entry THEN <<sources[i].path>> ELSE <<>>]
      Services == [i \in DOMAIN sources |-> IF sources[i].read THEN sources[i].services ELSE <<>>]
      services == Collect(Services)
  IN [entryPoints |-> Collect(Entries),
      apiEndpoints |-> FoldLeft(PushRoutes, <<>>, sources),
      services |-> services,
      totalSourceFiles |-> Len(sources),
      serviceCount |-> Len(services)]

\* package.json at the root: with one that cannot be parsed the lists stay empty.
Package(files) == CHOOSE file \in ToSet(files) : file.path = "package.json"
Framework == {"nestjs", "react"}
Database == {"pg", "prisma"}

DependencyAnalysis(files) ==
  LET production == IF Package(files).read THEN Package(files).production ELSE <<>>
      development == IF Package(files).read THEN Package(files).development ELSE <<>>
      all == production \o development
      databases == PushAllNew(<<>>, Among(all, Database))
  IN [production |-> PushAll(<<>>, production),
      development |-> PushAll(<<>>, development),
      frameworks |-> PushAllNew(<<>>, Among(all, Framework)),
      databases |-> databases,
      database |-> databases,
      technologies |-> Cut(Distinct(Among(all, Framework \cup Database)))]

TopDirectory == {"src"}
ModuleDirectory == {"src/modules", "src/modules/runs"}

ArchitectureAnalysis(files) ==
  LET directories == Cut(Distinct(Joined([i \in DOMAIN files |-> files[i].directories])))
      Configuration(file) == IF file.configuration THEN <<file.path>> ELSE <<>>
      Important(file) == IF file.configuration \/ file.entry THEN <<file.path>> ELSE <<>>
      modules == Among(directories, ModuleDirectory)
  IN [importantDirectories |-> directories,
      configurationFiles |-> Collect([i \in DOMAIN files |-> Configuration(files[i])]),
      importantFiles |-> CollectNew([i \in DOMAIN files |-> Important(files[i])]),
      modules |-> Cut(modules),
      moduleStructure |-> Among(directories, ModuleDirectory \cup TopDirectory),
      style |-> IF modules # <<>> THEN "modular" ELSE "standard"]

Supports(analyzer, files) ==
  CASE analyzer = "typescript" ->
         \E i \in 1..Len(files) : files[i].source \/ files[i].path = "package.json"
    [] analyzer = "dependency" -> \E i \in 1..Len(files) : files[i].path = "package.json"
    [] OTHER -> TRUE

Partial(analyzer, files) ==
  CASE analyzer = "typescript" -> TypeScriptAnalysis(files)
    [] analyzer = "dependency" -> DependencyAnalysis(files)
    [] OTHER -> ArchitectureAnalysis(files)

-----------------------------------------------------------------------------
(* analyzeRepository. *)

Nothing == [field \in {} |-> <<>>]
Lists == {"entryPoints", "apiEndpoints", "services", "production", "development", "frameworks",
          "databases", "database", "technologies", "importantDirectories", "configurationFiles",
          "importantFiles", "modules", "moduleStructure"}
Counts == {"totalSourceFiles", "serviceCount"}

\* What the source lacks stays. Lists are united, what was there before first; of two
\* numbers the larger one stays.
Of(partial, field, default) == IF field \in DOMAIN partial THEN partial[field] ELSE default
MergePartialAnalysis(target, source) ==
  [field \in DOMAIN target \cup DOMAIN source |->
     CASE field \notin DOMAIN source -> target[field]
       [] field \in DOMAIN source \cap Lists -> Distinct(Of(target, field, <<>>) \o source[field])
       [] field \in DOMAIN source \cap Counts -> Max({Of(target, field, 0), source[field]})
       [] OTHER -> source[field]]

\* A list nobody delivered is empty, and the number of sources is that of all files.
FinalizeAndEnforceLimits(merged, files) ==
  [field \in Lists \cup Counts \cup {"moduleCount", "style"} |->
     CASE field \in Lists -> Cut(Of(merged, field, <<>>))
       [] field = "totalSourceFiles" -> Of(merged, field, Len(files))
       [] field = "serviceCount" -> Of(merged, field, 0)
       [] field = "moduleCount" ->
            Max({Len(Of(merged, "modules", <<>>)), Len(Of(merged, "moduleStructure", <<>>))})
       [] OTHER -> Of(merged, field, "Generic App")]

\* The loop over the analyzers, some of which contribute.
MergedFrom(files, contributing) ==
  LET Step(merged, analyzer) ==
        IF analyzer \in contributing
          THEN MergePartialAnalysis(merged, Partial(analyzer, files)) ELSE merged
  IN Step(Step(Step(Nothing, AnalyzerOrder[1]), AnalyzerOrder[2]), AnalyzerOrder[3])

\* Mutant: the first failure ends the loop over the analyzers.
AnalyzeUntilFailure(files, failing) ==
  LET reached == {i \in 1..Len(AnalyzerOrder) : \A j \in 1..i : AnalyzerOrder[j] \notin failing}
      contributing == {AnalyzerOrder[i] : i \in {j \in reached : Supports(AnalyzerOrder[j], files)}}
  IN FinalizeAndEnforceLimits(MergedFrom(files, contributing), files)

\* An analyzer that throws contributes nothing.
AnalyzeRepository(files, failing) ==
  LET contributing == {analyzer \in Analyzer : Supports(analyzer, files) /\ analyzer \notin failing}
  IN FinalizeAndEnforceLimits(MergedFrom(files, contributing), files)

-----------------------------------------------------------------------------
(* RepositoryAnalysisService: every detector by itself, none of them fails. *)

\* What readdir of the root returns, and the directories that exist.
InRoot(file) == file.directories = <<>>
Directories(files) == UNION {ToSet(files[i].directories) : i \in 1..Len(files)}
Entries(files) ==
  {files[i].path : i \in {j \in 1..Len(files) : InRoot(files[j])}}
    \cup {Head(files[i].directories) : i \in {j \in 1..Len(files) : ~InRoot(files[j])}}
Present(known, entries) == Among(known, entries)

\* parsePackageJson: null if there is none or if it cannot be parsed.
NoPackage == [name |-> "", dependencies |-> <<>>]
ParsePackageJson(files) ==
  IF \E i \in 1..Len(files) : files[i].path = "package.json" /\ files[i].read
    THEN LET package == Package(files) IN
         [name |-> package.name,
          dependencies |-> package.production \o package.development \o package.peer]
    ELSE NoPackage

\* Two of the known frameworks have no packages, only files, which are not looked for.
FRAMEWORKS ==
  <<[name |-> "nestjs", packages |-> {"nestjs"}], [name |-> "react", packages |-> {"react"}],
    [name |-> "django", packages |-> {}]>>
DetectFrameworks(dependencies) ==
  LET found == Among(FRAMEWORKS, {known \in ToSet(FRAMEWORKS) : known.packages \cap ToSet(dependencies) # {}})
  IN [i \in 1..Len(found) |-> found[i].name]

LANGUAGES ==
  <<[name |-> "typescript", patterns |-> {"tsconfig.json", "main.ts"}],
    [name |-> "go", patterns |-> {"go.mod"}]>>
DetectLanguages(entries) ==
  LET found == Among(LANGUAGES, {known \in ToSet(LANGUAGES) : known.patterns \cap entries # {}})
  IN [i \in 1..Len(found) |-> found[i].name]

PACKAGE_MANAGERS == <<"pnpm-lock.yaml", "package-lock.json">>
DetectPackageManager(entries) ==
  LET found == Present(PACKAGE_MANAGERS, entries) IN IF found = <<>> THEN "none" ELSE Head(found)

MONOREPO_CONFIGS == <<"pnpm-workspace.yaml", "turbo.json">>
WORKSPACE_FOLDERS == <<"apps", "packages">>
DOCUMENTATION == {"README.md", "docs"}

\* The one in the root, and those of the directories right below a workspace folder.
CalculatePackageCount(files) ==
  Cardinality({i \in 1..Len(files) :
                 /\ files[i].package
                 /\ \/ InRoot(files[i])
                    \/ /\ Len(files[i].directories) = 2
                       /\ Head(files[i].directories) \in ToSet(WORKSPACE_FOLDERS)})

RepositorySummary(files, basename) ==
  LET package == ParsePackageJson(files)
      entries == Entries(files)
      tools == Present(MONOREPO_CONFIGS, entries)
  IN [name |-> IF package.name # "" THEN package.name ELSE basename,
      isMonorepo |-> tools # <<>>,
      workspaceType |-> IF tools # <<>> THEN Head(tools) ELSE "none",
      packageManager |-> DetectPackageManager(entries),
      languages |-> DetectLanguages(entries),
      frameworks |-> DetectFrameworks(package.dependencies),
      documentation |-> entries \cap DOCUMENTATION,
      workspaceFolders |-> Present(WORKSPACE_FOLDERS, Directories(files)),
      packageCount |-> CalculatePackageCount(files)]
=============================================================================
