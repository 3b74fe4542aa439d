------------------------------- MODULE FmtRun -------------------------------
(***************************************************************************)
(* One run of pxf fmt over several files.  What a file holds is one of     *)
(* Content: whether it parses, what it says (how often each comment, name, *)
(* string and number occurs) and what the printer makes of it.             *)
(***************************************************************************)
EXTENDS CommandLine

CONSTANTS
  FmtRuns,
  Content,   \* what is known of each content, by its name
  Torn       \* a file that was truncated and not yet written

Token == {"comment", "annotation", "name"}

Contents == DOMAIN Content

\* printed is the printer's output, None when it fails; type is the message
\* the document names, and keyed the content once keyed fields are canonical.
ContentInfo ==
  [parses : BOOLEAN, says : [Token -> Nat], printed : Contents \union {None},
   type : {"none", "found", "missing"}, keyed : Contents]

\* args has a record of each argument: missing, dir and the files it stands
\* for; protos are the files named .proto, the others are PXF; message is what
\* -m resolves to.
FmtFields == {"args", "protos", "disk", "unreadable", "message", "write", "check"}

ASSUME FmtAssumption ==
  /\ Content \in [Contents -> ContentInfo]
  /\ Torn \in Contents
  /\ None \notin Contents
  /\ \A r \in FmtRuns :
       /\ DOMAIN r = FmtFields /\ r.write \in BOOLEAN /\ r.check \in BOOLEAN
       /\ r.disk \in [DOMAIN r.disk -> Contents]
       /\ r.protos \subseteq DOMAIN r.disk
       /\ r.args \in Seq([missing : BOOLEAN, dir : BOOLEAN, files : Seq(DOMAIN r.disk)])

VARIABLES
  fmtInput,
  fmtStage,
  files, at,     \* what collectFmtInputs found; the file of this iteration
  disk,
  src, out,      \* what was read, and what it was formatted to
  unformatted

fmtVars == <<fmtInput, fmtStage, files, at, disk, src, out, unformatted>>

-----------------------------------------------------------------------------
\* A mutant: what the layout leaves out is not compared.
LosesComments(before, after) ==
  \E t \in Token \ {"comment"} : Content[after].says[t] < Content[before].says[t]

\* lostTokens: punctuation and layout aside, after says less than before.
Loses(before, after) ==
  \E t \in Token : Content[after].says[t] < Content[before].says[t]

\* formatProto: a file the printer would lose something of is refused.
FormatProto(c) ==
  LET after == Content[c].printed
  IN IF Content[c].parses /\ after # None /\ Content[after].parses /\ ~Loses(c, after)
     THEN after ELSE None

\* formatPXF: -m or @type name the message; one that is not found is an error.
FormatPxf(c) ==
  LET type == IF fmtInput.message # "none" THEN fmtInput.message ELSE Content[c].type
  IN IF ~Content[c].parses \/ type = "missing" THEN None
     ELSE Content[IF type = "found" THEN Content[c].keyed ELSE c].printed

\* formatFile, None for an error.
Format(path, c) == IF path \in fmtInput.protos THEN FormatProto(c) ELSE FormatPxf(c)

-----------------------------------------------------------------------------
FmtIdle ==
  /\ fmtInput = None /\ fmtStage = None
  /\ files = <<>> /\ at = 1
  /\ disk = None /\ src = None /\ out = None
  /\ unformatted = 0

FmtInit ==
  /\ fmtInput \in FmtRuns
  /\ fmtStage = "collect"
  /\ files = <<>> /\ at = 1
  /\ disk = fmtInput.disk /\ src = None /\ out = None
  /\ unformatted = 0

FmtFails == fmtStage' = "error" /\ UNCHANGED <<fmtInput, files, at, disk, src, out, unformatted>>

Listed(f) == IF Len(f) > 1 /\ ~fmtInput.write /\ ~fmtInput.check THEN "error" ELSE "read"

\* collectFmtInputs, an argument at a time; a directory adds what it holds.
FmtCollect ==
  /\ fmtStage = "collect" /\ at <= Len(fmtInput.args)
  /\ ~(fmtInput.write /\ fmtInput.check)
  /\ LET arg == fmtInput.args[at]
     IN IF arg.missing \/ (arg.dir /\ arg.files = <<>>) THEN FmtFails
        ELSE /\ files' = files \o arg.files
             /\ at' = at + 1
             /\ UNCHANGED <<fmtInput, fmtStage, disk, src, out, unformatted>>

FmtFlags ==
  /\ fmtStage = "collect"
  /\ \/ fmtInput.write /\ fmtInput.check
     \/ at > Len(fmtInput.args) /\ Listed(files) = "error"
  /\ FmtFails

FmtListed ==
  /\ fmtStage = "collect" /\ at > Len(fmtInput.args) /\ Listed(files) = "read"
  /\ ~(fmtInput.write /\ fmtInput.check)
  /\ fmtStage' = "read" /\ at' = 1
  /\ UNCHANGED <<fmtInput, files, disk, src, out, unformatted>>

Path == files[at]

\* A file whose formatting fails ends the run, those before it rewritten.
FmtRead ==
  /\ fmtStage = "read" /\ at <= Len(files)
  /\ IF Path \in fmtInput.unreadable \/ Format(Path, disk[Path]) = None THEN FmtFails
     ELSE /\ src' = disk[Path] /\ out' = Format(Path, disk[Path])
          /\ fmtStage' = "formatted"
          /\ UNCHANGED <<fmtInput, files, at, disk, unformatted>>

FmtNextFile == fmtStage' = "read" /\ at' = at + 1 /\ UNCHANGED <<fmtInput, files, disk, src, out>>

FmtVerify ==
  /\ fmtStage = "formatted" /\ (fmtInput.check \/ ~fmtInput.write \/ src = out)
  /\ unformatted' = IF fmtInput.check /\ src # out THEN unformatted + 1 ELSE unformatted
  /\ FmtNextFile

\* os.WriteFile truncates the file, then writes it.
FmtTruncate ==
  /\ fmtStage = "formatted" /\ fmtInput.write /\ src # out
  /\ disk' = [disk EXCEPT ![Path] = Torn]
  /\ fmtStage' = "writing"
  /\ UNCHANGED <<fmtInput, files, at, src, out, unformatted>>

FmtWrite ==
  /\ fmtStage = "writing"
  /\ disk' = [disk EXCEPT ![Path] = out]
  /\ fmtStage' = "read" /\ at' = at + 1
  /\ UNCHANGED <<fmtInput, files, src, out, unformatted>>

\* The disk is full.
FmtWriteFails == fmtStage = "writing" /\ FmtFails

FmtKilled ==
  /\ fmtStage \in {"collect", "read", "formatted", "writing"}
  /\ fmtStage' = "killed"
  /\ UNCHANGED <<fmtInput, files, at, disk, src, out, unformatted>>

FmtDone ==
  /\ fmtStage = "read" /\ at > Len(files)
  /\ fmtStage' = IF unformatted > 0 THEN "error" ELSE "ok"
  /\ UNCHANGED <<fmtInput, files, at, disk, src, out, unformatted>>

FmtNext == \/ FmtCollect \/ FmtFlags \/ FmtListed \/ FmtRead \/ FmtVerify
           \/ FmtTruncate \/ FmtWrite \/ FmtWriteFails \/ FmtKilled \/ FmtDone

FmtSpec == FmtInit /\ [][FmtNext]_fmtVars

-----------------------------------------------------------------------------
FmtTypeOK ==
  fmtStage # None =>
    /\ DOMAIN fmtInput = FmtFields
    /\ fmtStage \in {"collect", "read", "formatted", "writing"} \union Ended
    /\ at \in Nat \ {0} /\ unformatted \in Nat
    /\ disk \in [DOMAIN fmtInput.disk -> Contents]
    /\ src \in Contents \union {None} /\ out \in Contents \union {None}

\* A .proto says at least what it said.
Kept(p) ==
  LET now == disk[p] before == fmtInput.disk[p]
  IN /\ now # before => Content[now].parses
     /\ \A t \in Token : Content[now].says[t] >= Content[before].says[t]

\* "The formatter refuses rather than delete source": however many files the
\* run was given, one of them twice or the last of them broken, and wherever it
\* ended, each .proto says what it said before, but for the one file the
\* program was writing when it was stopped.  --check leaves all of them alone.
NothingLost ==
  fmtStage # None =>
    /\ \A p \in fmtInput.protos : Kept(p) \/ (at <= Len(files) /\ p = Path /\ disk[p] = Torn)
    /\ fmtInput.check => disk = fmtInput.disk
    /\ fmtStage = "ok" => \A p \in fmtInput.protos : Kept(p)
=============================================================================
