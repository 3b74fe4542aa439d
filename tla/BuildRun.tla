------------------------------ MODULE BuildRun ------------------------------
(***************************************************************************)
(* One run of pxf build: the arguments become import roots and targets,    *)
(* the targets and what they import are opened along a chain of openers,   *)
(* and the image is written with its imports marked.  The compiler is      *)
(* modelled by the files it opens and the errors it may find.              *)
(***************************************************************************)
EXTENDS CommandLine

CONSTANTS
  BuildRuns,
  Tree,      \* Tree[root]: the import paths beneath a directory, and the file of each
  Imports,   \* Imports[file]: the import paths the file names
  Broken,    \* the files with an error of their own
  Bundled,   \* the import paths embedded in the program
  Standard   \* those of the well-known types

Roots == DOMAIN Tree
File(root, p) == Tree[root][p]

\* args: root, and path for a file argument or None for a directory; bad for
\* one that is missing or no .proto; libs are the configured function libraries,
\* None when the configuration does not load.
BuildFields == {"args", "importRoots", "libs", "check"}

ASSUME BuildAssumption ==
  /\ \A r \in BuildRuns :
       /\ DOMAIN r = BuildFields /\ r.check \in BOOLEAN
       /\ r.args \in Seq(Named(r.args)) /\ r.importRoots \in Seq(Named(r.importRoots))
       /\ \A i \in DOMAIN r.args : r.args[i].root \in Roots \/ r.args[i].bad
  /\ None \notin UNION {DOMAIN Tree[r] : r \in Roots}

VARIABLES
  buildInput,
  buildStage,
  argAt,        \* the argument of this iteration
  roots,
  claimed,      \* fileFor: the file each import path was claimed for
  targets,      \* paths
  opened,       \* the files the compiler opened, by import path
  faults,       \* error diagnostics
  image         \* what the output holds: the last image, a part of one, or this one

buildVars == <<buildInput, buildStage, argAt, roots, claimed, targets, opened, faults, image>>

-----------------------------------------------------------------------------
Extend(f, p, x) == [q \in DOMAIN f \union {p} |-> IF q = p THEN x ELSE f[q]]

\* addPath: the paths an earlier argument claimed for another file.
ClaimedTwice(paths, root) ==
  {p \in paths \intersect DOMAIN claimed : claimed[p] # File(root, p)}

PathsOf(arg) == IF arg.path # None THEN {arg.path} ELSE DOMAIN Tree[arg.root]

\* The directories of the chain: the arguments' roots, then -I.
Chain == roots \o buildInput.importRoots

Serves(i, p) == p \in DOMAIN Tree[Chain[i]]

\* The first opener that has the path serves it: the bundled schemas, the
\* directories, the well-known types.
Open(p) ==
  IF p \in Bundled THEN "bundled"
  ELSE LET first == {i \in DOMAIN Chain : Serves(i, p) /\ \A j \in 1..i - 1 : ~Serves(j, p)}
       IN IF first # {} THEN File(Chain[CHOOSE i \in first : TRUE], p)
          ELSE IF p \in Standard THEN "bundled" ELSE None

ImportsOf(f) == IF f \in DOMAIN Imports THEN Imports[f] ELSE {}

\* What is still to be opened: a target, or an import of an opened file.
Pending ==
  (targets \union UNION {ImportsOf(opened[p]) : p \in DOMAIN opened}) \ (DOMAIN opened \union faults)

-----------------------------------------------------------------------------
BuildIdle ==
  /\ buildInput = None /\ buildStage = None /\ argAt = 1
  /\ roots = <<>> /\ claimed = <<>> /\ targets = {}
  /\ opened = <<>> /\ faults = {} /\ image = None

BuildInit ==
  /\ buildInput \in BuildRuns
  /\ buildStage = "collect" /\ argAt = 1
  /\ roots = <<>> /\ claimed = <<>> /\ targets = {}
  /\ opened = <<>> /\ faults = {}
  /\ image = [is |-> "previous", files |-> <<>>]

BuildFails ==
  /\ buildStage' = "error"
  /\ UNCHANGED <<buildInput, argAt, roots, claimed, targets, opened, faults, image>>

\* collectBuildInputs, an argument at a time.
CollectInput ==
  /\ buildStage = "collect" /\ argAt <= Len(buildInput.args)
  /\ LET arg == buildInput.args[argAt]
     IN IF arg.bad \/ PathsOf(arg) = {} \/ ClaimedTwice(PathsOf(arg), arg.root) # {}
        THEN BuildFails
        ELSE /\ roots' = IF arg.root \in Named(roots) THEN roots ELSE Append(roots, arg.root)
             /\ claimed' = [p \in DOMAIN claimed \union PathsOf(arg) |->
                              IF p \in DOMAIN claimed THEN claimed[p] ELSE File(arg.root, p)]
             /\ targets' = targets \union PathsOf(arg)
             /\ argAt' = argAt + 1
             /\ UNCHANGED <<buildInput, buildStage, opened, faults, image>>

\* The configured function libraries are targets too; -I names directories.
Configure ==
  /\ buildStage = "collect" /\ argAt > Len(buildInput.args)
  /\ IF buildInput.libs # None /\ Named(buildInput.importRoots) \subseteq Roots
     THEN /\ targets' = targets \union Named(buildInput.libs)
          /\ buildStage' = "compile"
          /\ UNCHANGED <<buildInput, argAt, roots, claimed, opened, faults, image>>
     ELSE BuildFails

\* The compiler opens files in any order, and goes on after an error.
Compile ==
  /\ buildStage = "compile"
  /\ \E p \in Pending :
       IF Open(p) = None
       THEN faults' = faults \union {p} /\ UNCHANGED opened
       ELSE /\ opened' = Extend(opened, p, Open(p))
            /\ faults' = IF Open(p) \in Broken THEN faults \union {p} ELSE faults
  /\ UNCHANGED <<buildInput, buildStage, argAt, roots, claimed, targets, image>>

\* incremental.Run or the rendering of its report fails.
CompilerFails == buildStage = "compile" /\ BuildFails

\* Two import paths of one file declare everything twice.
Redeclared == \E p, q \in DOMAIN opened : p # q /\ opened[p] = opened[q] /\ opened[p] # "bundled"

Faulty == faults # {} \/ Redeclared

\* A mutant: --check is looked at before the errors are counted.
CheckedFirst == IF buildInput.check THEN "ok" ELSE IF Faulty THEN "error" ELSE "write"

Compiled == IF Faulty THEN "error" ELSE IF buildInput.check THEN "ok" ELSE "write"

Report ==
  /\ buildStage = "compile" /\ Pending = {}
  /\ buildStage' = Compiled
  /\ UNCHANGED <<buildInput, argAt, roots, claimed, targets, opened, faults, image>>

\* markImports: whatever the arguments and the configuration did not name.
Marked == [p \in DOMAIN opened |-> [file |-> opened[p], isImport |-> p \notin targets]]

\* To a file or to standard output.
WriteImage ==
  /\ buildStage = "write"
  /\ \/ image' = [is |-> "new", files |-> Marked] /\ buildStage' = "ok"
     \/ \* the image is not one, or its output can not be opened
        UNCHANGED image /\ buildStage' = "error"
     \/ \* os.WriteFile truncates the file, and the write fails or is interrupted
        /\ image' = [is |-> "torn", files |-> <<>>] /\ buildStage' \in {"error", "killed"}
  /\ UNCHANGED <<buildInput, argAt, roots, claimed, targets, opened, faults>>

BuildKilled ==
  /\ buildStage \in {"collect", "compile", "write"}
  /\ buildStage' = "killed"
  /\ UNCHANGED <<buildInput, argAt, roots, claimed, targets, opened, faults, image>>

BuildNext == \/ CollectInput \/ Configure \/ Compile \/ CompilerFails \/ Report \/ WriteImage \/ BuildKilled

BuildSpec == BuildInit /\ [][BuildNext]_buildVars

-----------------------------------------------------------------------------
BuildTypeOK ==
  buildStage # None =>
    /\ DOMAIN buildInput = BuildFields
    /\ buildStage \in {"collect", "compile", "write"} \union Ended
    /\ argAt \in Nat \ {0}
    /\ Named(roots) \subseteq Roots
    /\ DOMAIN claimed \subseteq targets
    /\ image.is \in {"previous", "torn", "new"}

\* Each argument that claims a path, with the file it names.
Claims ==
  UNION {{<<p, File(buildInput.args[i].root, p)>> : p \in PathsOf(buildInput.args[i])} :
           i \in DOMAIN buildInput.args}

Directories == \A i \in DOMAIN buildInput.args : buildInput.args[i].path = None

\* Whatever was asked for and all its imports were found, in different files,
\* none of which has an error.
Errorless ==
  /\ {c[1] : c \in Claims} \union Named(buildInput.libs) \subseteq DOMAIN opened
  /\ \A p \in DOMAIN opened : opened[p] \notin Broken /\ ImportsOf(opened[p]) \subseteq DOMAIN opened
  /\ ~Redeclared

\* The files of the image are those opened, unmarked exactly if the arguments or
\* the configuration name them.
Complete ==
  /\ DOMAIN image.files = DOMAIN opened
  /\ \A p \in DOMAIN opened : image.files[p].file = opened[p]
  /\ {p \in DOMAIN opened : ~image.files[p].isImport} = {c[1] : c \in Claims} \union Named(buildInput.libs)

(***************************************************************************)
(* build.go:223-248: the image is written only by a build without errors,  *)
(* and --check writes none.  The output holds the last build's image until *)
(* it holds this one's, whole; or a part of this one's, if writing it      *)
(* failed or was interrupted, and then the run does not end well.  Built   *)
(* from directories, an image has each path from the argument that has it, *)
(* though another argument, a -I root or a library may have the path too;  *)
(* but for the paths of the bundled libraries, which the program embeds.   *)
(***************************************************************************)
ImageFaithful ==
  buildStage # None =>
    /\ buildStage = "ok" => Errorless /\ (image.is = "new" <=> ~buildInput.check)
    /\ image.is # "previous" => Errorless /\ ~buildInput.check
    /\ image.is = "torn" => buildStage \in {"error", "killed"}
    /\ image.is = "new" =>
         /\ buildStage = "ok" /\ Complete
         /\ Directories => \A c \in Claims : c[1] \in Bundled \/ image.files[c[1]].file = c[2]

\* "A file contributes its base name with its parent directory as root. Two
\* arguments claiming one import path for different files is an error": so each
\* argument is compiled from the file it names.
ArgumentsCompiled ==
  buildStage = "ok" /\ ~buildInput.check =>
    \A c \in Claims : c[1] \in Bundled \/ image.files[c[1]].file = c[2]
=============================================================================
