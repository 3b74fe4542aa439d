------------------------- MODULE FileCommandProofs -------------------------
(***************************************************************************)
(* The two commands that write files of their own.  However many files pxf *)
(* fmt is given, and wherever it stops, no .proto says less than it said:  *)
(* the invariant follows one file from the disk to src, from src to out    *)
(* and from out to the disk, and each says at least what the one before    *)
(* says.  The image pxf build writes is the program its arguments name:    *)
(* the argument has two halves, what the loop over the arguments has       *)
(* claimed, and that a path claimed from a directory is served from a root *)
(* that claimed it, because the roots of the arguments come first.         *)
(***************************************************************************)
EXTENDS PxfCommand, SequenceTheorems, InductionLemmas

\* Content c may stand where before stood.
SaysAsMuch(c, before) ==
  /\ c # before => Content[c].parses
  /\ \A t \in Token : Content[c].says[t] >= Content[before].says[t]

Working == {"read", "formatted", "writing"}

FmtTypes ==
  /\ fmtInput \in FmtRuns
  /\ fmtStage \in {"collect", "read", "formatted", "writing"} \union Ended
  /\ at \in Nat \ {0} /\ unformatted \in Nat
  /\ files \in Seq(DOMAIN fmtInput.disk)
  /\ disk \in [DOMAIN fmtInput.disk -> Contents]
  /\ src \in Contents \union {None} /\ out \in Contents \union {None}

\* --check and -w exclude one another from the first file on, and no file is
\* written before.
FmtModes ==
  /\ fmtStage \in Working => ~(fmtInput.write /\ fmtInput.check)
  /\ fmtStage = "collect" \/ fmtInput.check => disk = fmtInput.disk
  /\ fmtStage = "writing" => fmtInput.write

\* The file of this iteration: what was read and what it was formatted to.
FmtInHand ==
  /\ fmtStage \in {"formatted", "writing"} =>
       /\ at <= Len(files)
       /\ src \in Contents /\ out = Format(Path, src) /\ out # None
       /\ Path \in fmtInput.protos => SaysAsMuch(src, fmtInput.disk[Path])
  /\ fmtStage = "writing" => disk[Path] = Torn

\* Only the file in hand may be torn, and only while it is written or when the
\* run ended there.
FmtKept ==
  \A p \in fmtInput.protos :
    \/ Kept(p)
    \/ /\ fmtStage \in {"writing", "error", "killed"}
       /\ at <= Len(files) /\ p = Path /\ disk[p] = Torn

FmtIInv == FmtTypes /\ FmtModes /\ FmtInHand /\ FmtKept

-----------------------------------------------------------------------------
\* A file whose content may stand where the input's stood is Kept.
LEMMA KeptIsSaysAsMuch ==
  ASSUME NEW p
  PROVE  Kept(p) <=> SaysAsMuch(disk[p], fmtInput.disk[p])
BY DEF Kept, SaysAsMuch

\* What a file says is counted.
LEMMA SaysCounted ==
  ASSUME NEW c \in Contents, NEW t \in Token
  PROVE  Content[c].says[t] \in Nat
<1>1. Content \in [Contents -> ContentInfo]
  BY FmtAssumption
<1>2. Content[c] \in ContentInfo
  BY <1>1
<1> QED BY <1>2 DEF ContentInfo

\* Every content may stand where it stood.
LEMMA SaysItself ==
  ASSUME NEW c \in Contents PROVE SaysAsMuch(c, c)
BY SaysCounted DEF SaysAsMuch

\* The printer's outputs are contents.
LEMMA FormatType ==
  ASSUME NEW c \in Contents, NEW path
  PROVE  Format(path, c) \in Contents \union {None}
<1>1. Content \in [Contents -> ContentInfo]
  BY FmtAssumption
<1>2. Content[c] \in ContentInfo
  BY <1>1
<1>3. Content[c].keyed \in Contents
  BY <1>2 DEF ContentInfo
<1>4. Content[Content[c].keyed] \in ContentInfo
  BY <1>1, <1>3
<1>5. FormatProto(c) \in Contents \union {None}
  BY <1>2 DEF FormatProto, ContentInfo
<1>6. FormatPxf(c) \in Contents \union {None}
  BY <1>2, <1>4 DEF FormatPxf, ContentInfo
<1> QED BY <1>5, <1>6 DEF Format

\* formatProto's last check: what it returns parses, and says no less than what
\* it was given.
LEMMA FormatKeeps ==
  ASSUME NEW c \in Contents, FormatProto(c) # None
  PROVE  /\ FormatProto(c) \in Contents
         /\ Content[FormatProto(c)].parses
         /\ \A t \in Token : Content[FormatProto(c)].says[t] >= Content[c].says[t]
<1>1. Content \in [Contents -> ContentInfo] /\ None \notin Contents
  BY FmtAssumption
<1>2. Content[c] \in ContentInfo
  BY <1>1
<1> DEFINE after == Content[c].printed
<1>3. /\ FormatProto(c) = after /\ after # None
      /\ Content[after].parses /\ ~Loses(c, after)
  BY DEF FormatProto
<1>4. after \in Contents
  BY <1>2, <1>3 DEF ContentInfo
<1>5. ASSUME NEW t \in Token PROVE Content[after].says[t] >= Content[c].says[t]
  <2>1. ~(Content[after].says[t] < Content[c].says[t])
    BY <1>3 DEF Loses
  <2>2. Content[after].says[t] \in Nat /\ Content[c].says[t] \in Nat
    BY <1>4, SaysCounted
  <2> QED BY <2>1, <2>2
<1> QED BY <1>3, <1>4, <1>5

\* And so what is written over a .proto may stand where the input stood.
LEMMA FormattedSaysAsMuch ==
  ASSUME NEW c \in Contents, NEW before \in Contents,
         SaysAsMuch(c, before), FormatProto(c) # None
  PROVE  SaysAsMuch(FormatProto(c), before)
<1> DEFINE after == FormatProto(c)
<1>1. /\ after \in Contents /\ Content[after].parses
      /\ \A t \in Token : Content[after].says[t] >= Content[c].says[t]
  BY FormatKeeps
<1>2. ASSUME NEW t \in Token PROVE Content[after].says[t] >= Content[before].says[t]
  <2>1. /\ Content[after].says[t] \in Nat /\ Content[c].says[t] \in Nat
        /\ Content[before].says[t] \in Nat
    BY <1>1, SaysCounted
  <2>2. Content[after].says[t] >= Content[c].says[t]
    BY <1>1
  <2>3. Content[c].says[t] >= Content[before].says[t]
    BY DEF SaysAsMuch
  <2> HIDE DEF after
  <2> QED BY <2>1, <2>2, <2>3
<1> QED BY <1>1, <1>2 DEF SaysAsMuch

-----------------------------------------------------------------------------
\* The runs' inputs are as FmtRuns says.
LEMMA FmtInputs ==
  ASSUME fmtInput \in FmtRuns
  PROVE  /\ DOMAIN fmtInput = FmtFields
         /\ fmtInput.write \in BOOLEAN /\ fmtInput.check \in BOOLEAN
         /\ fmtInput.disk \in [DOMAIN fmtInput.disk -> Contents]
         /\ fmtInput.protos \subseteq DOMAIN fmtInput.disk
         /\ \A i \in 1..Len(fmtInput.args) :
              fmtInput.args[i].files \in Seq(DOMAIN fmtInput.disk)
<1>1. fmtInput.args \in Seq([missing : BOOLEAN, dir : BOOLEAN, files : Seq(DOMAIN fmtInput.disk)])
  BY FmtAssumption
<1>2. ASSUME NEW i \in 1..Len(fmtInput.args)
      PROVE  fmtInput.args[i].files \in Seq(DOMAIN fmtInput.disk)
  <2> DEFINE D == DOMAIN fmtInput.disk
             A == [missing : BOOLEAN, dir : BOOLEAN, files : Seq(D)]
             args == fmtInput.args
  <2>1. args \in Seq(A)
    BY <1>1
  <2>2. args[i] \in A
    <3> HIDE DEF A, args
    <3>1. i \in 1..Len(args)
      BY DEF args
    <3> QED BY <2>1, <3>1, ElementOfSeq
  <2> QED BY <2>2
<1> QED BY <1>2, FmtAssumption

\* Before a run starts nothing is lost.
LEMMA FmtInitInv == FmtInit => FmtIInv
<1> SUFFICES ASSUME FmtInit PROVE FmtIInv
  OBVIOUS
<1>1. fmtInput \in FmtRuns /\ fmtStage = "collect" /\ disk = fmtInput.disk
  BY DEF FmtInit
<1>2. FmtTypes
  BY <1>1, FmtInputs DEF FmtInit, FmtTypes
<1>3. FmtModes /\ FmtInHand
  BY <1>1 DEF FmtModes, FmtInHand, Working
<1>4. FmtKept
  BY <1>1, FmtInputs, SaysItself, KeptIsSaysAsMuch DEF FmtKept
<1> QED BY <1>2, <1>3, <1>4 DEF FmtIInv

-----------------------------------------------------------------------------
\* A step that leaves the files alone and goes to no stage of the loop.
LEMMA FmtLeaves ==
  ASSUME FmtIInv, fmtStage' \in Ended,
         \A p \in fmtInput.protos : fmtStage' = "ok" => Kept(p),
         UNCHANGED <<fmtInput, files, at, disk, src, out, unformatted>>
  PROVE  FmtIInv'
<1>1. FmtTypes'
  BY DEF FmtIInv, FmtTypes
<1>2. FmtModes' /\ FmtInHand'
  BY DEF FmtIInv, FmtModes, FmtInHand, Working, Ended
<1>3. FmtKept'
  BY DEF FmtIInv, FmtKept, Kept, Path, Ended
<1> QED BY <1>1, <1>2, <1>3 DEF FmtIInv

\* Every action of a run keeps the invariant.
LEMMA FmtStepInv == FmtIInv /\ [FmtNext]_fmtVars => FmtIInv'
<1> SUFFICES ASSUME FmtIInv, [FmtNext]_fmtVars PROVE FmtIInv'
  OBVIOUS
<1> USE DEF FmtIInv
<1>1. CASE FmtCollect
  <2> DEFINE arg == fmtInput.args[at]
  <2>1. CASE FmtFails
    BY <1>1, <2>1, FmtLeaves DEF FmtFails, FmtKept, FmtCollect, Ended
  <2>2. CASE ~FmtFails
    <3>1. /\ fmtStage = "collect" /\ at <= Len(fmtInput.args)
          /\ files' = files \o arg.files /\ at' = at + 1
          /\ UNCHANGED <<fmtInput, fmtStage, disk, src, out, unformatted>>
      BY <1>1, <2>2 DEF FmtCollect
    <3>2. at \in 1..Len(fmtInput.args)
      <4>1. fmtInput.args \in Seq([missing : BOOLEAN, dir : BOOLEAN, files : Seq(DOMAIN fmtInput.disk)])
        BY FmtAssumption DEF FmtTypes
      <4>2. Len(fmtInput.args) \in Nat
        BY <4>1, LenProperties
      <4> QED BY <3>1, <4>2 DEF FmtTypes
    <3>3. arg.files \in Seq(DOMAIN fmtInput.disk)
      BY <3>2, FmtInputs DEF FmtTypes
    <3>4. files' \in Seq(DOMAIN fmtInput.disk)
      BY <3>1, <3>3, ConcatProperties DEF FmtTypes
    <3>5. FmtTypes'
      BY <3>1, <3>4 DEF FmtTypes
    <3>6. FmtModes' /\ FmtInHand'
      BY <3>1 DEF FmtModes, FmtInHand, Working
    <3>7. FmtKept'
      BY <3>1 DEF FmtKept, Kept
    <3> QED BY <3>5, <3>6, <3>7
  <2> QED BY <2>1, <2>2
<1>2. CASE FmtFlags
  BY <1>2, FmtLeaves DEF FmtFlags, FmtFails, Ended
<1>3. CASE FmtListed
  <2>1. FmtTypes'
    BY <1>3 DEF FmtListed, FmtTypes
  <2>2. FmtModes' /\ FmtInHand'
    BY <1>3 DEF FmtListed, FmtModes, FmtInHand, Working
  <2>3. FmtKept'
    BY <1>3 DEF FmtListed, FmtKept, Kept
  <2> QED BY <2>1, <2>2, <2>3
<1>4. CASE FmtRead
  <2>1. CASE FmtFails
    BY <1>4, <2>1, FmtLeaves DEF FmtFails, Ended
  <2>2. CASE ~FmtFails
    <3>1. /\ fmtStage = "read" /\ at <= Len(files)
          /\ Format(Path, disk[Path]) # None
          /\ src' = disk[Path] /\ out' = Format(Path, disk[Path])
          /\ fmtStage' = "formatted"
          /\ UNCHANGED <<fmtInput, files, at, disk, unformatted>>
      BY <1>4, <2>2 DEF FmtRead
    <3>2. Path \in DOMAIN fmtInput.disk
      BY <3>1, ElementOfSeq DEF FmtTypes, Path
    <3>3. disk[Path] \in Contents
      BY <3>2 DEF FmtTypes
    <3>4. FmtTypes'
      BY <3>1, <3>3, FormatType DEF FmtTypes
    <3>5. FmtModes'
      BY <3>1 DEF FmtModes, Working
    <3>6. Path \in fmtInput.protos => SaysAsMuch(disk[Path], fmtInput.disk[Path])
      BY <3>1, KeptIsSaysAsMuch DEF FmtKept
    <3>7. Path' = Path /\ Format(Path, src)' = Format(Path, disk[Path])
      BY <3>1 DEF Path, Format, FormatPxf
    <3>8. FmtInHand'
      BY <3>1, <3>3, <3>6, <3>7 DEF FmtInHand, SaysAsMuch
    <3>9. FmtKept'
      BY <3>1 DEF FmtKept, Kept
    <3> QED BY <3>4, <3>5, <3>8, <3>9
  <2> QED BY <2>1, <2>2
<1>5. CASE FmtVerify
  <2>1. FmtTypes'
    BY <1>5 DEF FmtVerify, FmtNextFile, FmtTypes
  <2>2. FmtModes' /\ FmtInHand'
    BY <1>5 DEF FmtVerify, FmtNextFile, FmtModes, FmtInHand, Working
  <2>3. FmtKept'
    BY <1>5 DEF FmtVerify, FmtNextFile, FmtKept, Kept
  <2> QED BY <2>1, <2>2, <2>3
<1>6. CASE FmtTruncate
  <2>1. /\ fmtStage = "formatted" /\ fmtInput.write
        /\ disk' = [disk EXCEPT ![Path] = Torn] /\ fmtStage' = "writing"
        /\ UNCHANGED <<fmtInput, files, at, src, out, unformatted>>
    BY <1>6 DEF FmtTruncate
  <2>2. at <= Len(files) /\ Path \in DOMAIN fmtInput.disk
    BY <2>1, ElementOfSeq DEF FmtInHand, FmtTypes, Path
  <2>3. FmtTypes'
    BY <2>1, FmtAssumption DEF FmtTypes
  <2>4. FmtModes'
    BY <2>1, FmtInputs DEF FmtModes, Working, FmtTypes
  <2>5. Path' = Path /\ disk'[Path] = Torn /\ \A p : p # Path => disk'[p] = disk[p]
    BY <2>1, <2>2 DEF Path, FmtTypes
  <2>6. FmtInHand'
    BY <2>1, <2>5 DEF FmtInHand, Format, FormatPxf, SaysAsMuch
  <2>7. FmtKept'
    BY <2>1, <2>2, <2>5 DEF FmtKept, Kept
  <2> QED BY <2>3, <2>4, <2>6, <2>7
<1>7. CASE FmtWrite
  <2>1. /\ fmtStage = "writing"
        /\ disk' = [disk EXCEPT ![Path] = out] /\ fmtStage' = "read" /\ at' = at + 1
        /\ UNCHANGED <<fmtInput, files, src, out, unformatted>>
    BY <1>7 DEF FmtWrite
  <2>2. /\ Path \in DOMAIN fmtInput.disk /\ src \in Contents
        /\ out = Format(Path, src) /\ out # None /\ out \in Contents
    BY <2>1, ElementOfSeq DEF FmtInHand, FmtTypes, Path
  <2>3. FmtTypes'
    BY <2>1, <2>2 DEF FmtTypes
  <2>4. FmtModes' /\ FmtInHand'
    BY <2>1, FmtInputs DEF FmtModes, FmtInHand, Working, FmtTypes
  <2>5. disk'[Path] = out /\ \A p : p # Path => disk'[p] = disk[p]
    BY <2>1, <2>2 DEF FmtTypes
  <2>6. ASSUME NEW p \in fmtInput.protos
        PROVE  SaysAsMuch(disk'[p], fmtInput.disk[p])
    <3>1. CASE p = Path
      <4>1. out = FormatProto(src) /\ SaysAsMuch(src, fmtInput.disk[p])
        BY <2>1, <2>2, <3>1 DEF FmtInHand, Format
      <4>2. fmtInput.disk[p] \in Contents
        BY FmtInputs DEF FmtTypes
      <4> QED BY <2>2, <2>5, <3>1, <4>1, <4>2, FormattedSaysAsMuch
    <3>2. CASE p # Path
      BY <2>1, <2>5, <3>2, KeptIsSaysAsMuch DEF FmtKept
    <3> QED BY <3>1, <3>2
  <2>7. FmtKept'
    BY <2>1, <2>6 DEF FmtKept, Kept, SaysAsMuch
  <2> QED BY <2>3, <2>4, <2>7
<1>8. CASE FmtWriteFails
  BY <1>8, FmtLeaves DEF FmtWriteFails, FmtFails, Ended
<1>9. CASE FmtKilled
  BY <1>9, FmtLeaves DEF FmtKilled, Ended
<1>10. CASE FmtDone
  BY <1>10, FmtLeaves DEF FmtDone, Ended, FmtKept
<1>11. CASE UNCHANGED fmtVars
  <2>1. FmtTypes' /\ FmtModes'
    BY <1>11 DEF fmtVars, FmtTypes, FmtModes
  <2>2. FmtInHand' /\ FmtKept'
    BY <1>11 DEF fmtVars, FmtInHand, FmtKept, Kept, Path, Format, FormatPxf, SaysAsMuch
  <2> QED BY <2>1, <2>2
<1> QED
  BY <1>1, <1>2, <1>3, <1>4, <1>5, <1>6, <1>7, <1>8, <1>9, <1>10, <1>11 DEF FmtNext

\* The invariant is what NothingLost and the type invariant say, and more.
LEMMA FmtInvImplies == FmtIInv => NothingLost /\ FmtTypeOK
<1> SUFFICES ASSUME FmtIInv PROVE NothingLost /\ FmtTypeOK
  OBVIOUS
<1>1. NothingLost
  BY DEF FmtIInv, FmtModes, FmtKept, NothingLost
<1>2. FmtTypeOK
  BY FmtInputs DEF FmtIInv, FmtTypes, FmtTypeOK
<1> QED BY <1>1, <1>2

-----------------------------------------------------------------------------
\* pxf fmt on its own: wherever a run ends, each .proto says what it said.
THEOREM FmtLosesNothing == FmtSpec => []NothingLost
<1>1. FmtInit => FmtIInv
  BY FmtInitInv
<1>2. FmtIInv /\ [FmtNext]_fmtVars => FmtIInv'
  BY FmtStepInv
<1>3. FmtIInv => NothingLost
  BY FmtInvImplies
<1> QED BY <1>1, <1>2, <1>3, PTL DEF FmtSpec

\* In the program a run is of pxf fmt, or fmt is idle.
FmtOrIdle == IF command = "fmt" THEN FmtIInv ELSE fmtStage = None

\* The program starts one command.
LEMMA FmtOrIdleInit == Init => FmtOrIdle
BY FmtInitInv DEF Init, FmtIdle, FmtOrIdle

\* No other command moves fmt's state.
LEMMA FmtOrIdleStep == FmtOrIdle /\ [Next]_vars => FmtOrIdle'
<1> SUFFICES ASSUME FmtOrIdle, [Next]_vars PROVE FmtOrIdle'
  OBVIOUS
<1>1. command' = command
  BY DEF Next, vars
<1>2. CASE command = "fmt"
  <2>1. [FmtNext]_fmtVars
    BY <1>2 DEF Next, vars
  <2> QED BY <1>1, <1>2, <2>1, FmtStepInv DEF FmtOrIdle
<1>3. CASE command # "fmt"
  <2>1. fmtStage' = fmtStage
    BY <1>3 DEF Next, vars, fmtVars
  <2> QED BY <1>1, <1>3, <2>1 DEF FmtOrIdle
<1> QED BY <1>2, <1>3

\* The same of the whole program, whatever command it runs.
THEOREM PxfLosesNothing == Spec => []NothingLost
<1>1. FmtOrIdle => NothingLost
  BY FmtInvImplies DEF FmtOrIdle, NothingLost
<1> QED BY <1>1, FmtOrIdleInit, FmtOrIdleStep, PTL DEF Spec

\* fmt's part of the type invariant, of every run of the program.
THEOREM FmtTypeSafe == Spec => []FmtTypeOK
<1>1. FmtOrIdle => FmtTypeOK
  BY FmtInvImplies DEF FmtOrIdle, FmtTypeOK
<1> QED BY <1>1, FmtOrIdleInit, FmtOrIdleStep, PTL DEF Spec

-----------------------------------------------------------------------------
(* pxf build. *)

Args == buildInput.args

\* The arguments the loop is past.
Collected == 1..argAt - 1

BuildTypes ==
  /\ buildInput \in BuildRuns
  /\ buildStage \in {"collect", "compile", "write"} \union Ended
  /\ argAt \in Nat \ {0} /\ Collected \subseteq 1..Len(Args)
  /\ roots \in Seq(Roots)

\* Each argument's directory is a root and each root an argument's; each path
\* is claimed for the file of every argument that has it.
ClaimsCollected ==
  /\ \A i \in Collected : Args[i].root \in Named(roots)
  /\ \A k \in DOMAIN roots : \E i \in Collected : roots[k] = Args[i].root
  /\ DOMAIN claimed = UNION {PathsOf(Args[i]) : i \in Collected}
  /\ \A i \in Collected : \A p \in PathsOf(Args[i]) : claimed[p] = File(Args[i].root, p)

TargetsCollected ==
  /\ DOMAIN claimed \subseteq targets
  /\ buildStage = "collect" => targets = DOMAIN claimed /\ DOMAIN opened = {}
  /\ buildStage \in {"compile", "write", "ok"} \/ image.is = "torn" =>
       Collected = 1..Len(Args) /\ targets = DOMAIN claimed \union Named(buildInput.libs)

\* What was opened is what the chain serves, and whatever is wrong with it is
\* known; once the image is written nothing is missing or wrong.
OpenedAll ==
  /\ \A p \in DOMAIN opened : opened[p] = Open(p) /\ (opened[p] \in Broken => p \in faults)
  /\ buildStage \in {"write", "ok"} \/ image.is = "torn" => Pending = {} /\ ~Faulty

ImageOf ==
  /\ image.is \in {"previous", "torn", "new"}
  /\ buildStage \in {"collect", "compile", "write"} => image.is = "previous"
  /\ buildStage = "write" \/ image.is = "torn" => ~buildInput.check
  /\ buildStage = "ok" =>
       IF buildInput.check THEN image.is = "previous" ELSE image = [is |-> "new", files |-> Marked]
  /\ image.is = "new" => buildStage = "ok"
  /\ image.is = "torn" => buildStage \in {"error", "killed"}

BuildIInv == BuildTypes /\ ClaimsCollected /\ TargetsCollected /\ OpenedAll /\ ImageOf

-----------------------------------------------------------------------------
\* The runs' inputs are as BuildRuns says.
LEMMA BuildInputs ==
  ASSUME buildInput \in BuildRuns
  PROVE  /\ DOMAIN buildInput = BuildFields
         /\ buildInput.check \in BOOLEAN
         /\ Len(Args) \in Nat /\ DOMAIN Args = 1..Len(Args)
         /\ \A i \in 1..Len(Args) : Args[i].root \in Roots \/ Args[i].bad
         /\ buildInput.importRoots \in Seq(Named(buildInput.importRoots))
<1>1. Args \in Seq(Named(Args))
  BY BuildAssumption DEF Args
<1>2. Len(Args) \in Nat /\ DOMAIN Args = 1..Len(Args)
  BY <1>1, LenProperties
<1> QED BY <1>2, BuildAssumption DEF Args

\* A path some root has is opened in the first root that has it: the roots of
\* the arguments come before -I.
LEMMA OpenedInRoot ==
  ASSUME buildInput \in BuildRuns, roots \in Seq(Roots),
         NEW p, p \notin Bundled, NEW k \in DOMAIN roots, p \in DOMAIN Tree[roots[k]]
  PROVE  \E j \in DOMAIN roots : p \in DOMAIN Tree[roots[j]] /\ Open(p) = File(roots[j], p)
<1> DEFINE I == buildInput.importRoots
           T == {i \in DOMAIN Chain : Serves(i, p)}
           First == {i \in DOMAIN Chain : Serves(i, p) /\ \A j \in 1..i - 1 : ~Serves(j, p)}
<1>1. /\ Len(roots) \in Nat /\ DOMAIN roots = 1..Len(roots)
      /\ Len(I) \in Nat
  BY BuildInputs, LenProperties
<1>2. /\ DOMAIN Chain = 1..Len(roots) + Len(I)
      /\ \A i \in DOMAIN roots : Chain[i] = roots[i]
  BY <1>1, BuildInputs DEF Chain
<1>3. k \in T /\ T \subseteq Nat
  BY <1>1, <1>2 DEF Serves
<1>4. PICK x \in T : \A y \in T : x <= y
  BY <1>3, LeastNatural
<1>5. x \in First
  <2>1. ASSUME NEW j \in 1..x - 1, Serves(j, p) PROVE FALSE
    <3>1. x \in 1..Len(roots) + Len(I)
      BY <1>2, <1>4
    <3>2. j \in DOMAIN Chain /\ j < x
      BY <1>1, <1>2, <3>1
    <3>3. x <= j
      BY <1>4, <2>1, <3>2
    <3> QED BY <3>1, <3>2, <3>3
  <2> QED BY <1>4, <2>1
<1>6. ASSUME NEW i \in First PROVE i \in DOMAIN roots /\ p \in DOMAIN Tree[roots[i]]
  <2>1. i \in 1..Len(roots) + Len(I) /\ k \in 1..Len(roots) /\ Serves(k, p)
    BY <1>1, <1>2, <1>3
  <2>2. k \notin 1..i - 1
    BY <2>1
  <2>3. i <= k
    BY <1>1, <2>1, <2>2
  <2>4. i \in DOMAIN roots
    BY <1>1, <2>1, <2>3
  <2> QED BY <1>2, <2>4 DEF Serves
<1>7. Open(p) = File(Chain[CHOOSE i \in First : TRUE], p)
  BY <1>5 DEF Open
<1>8. (CHOOSE i \in First : TRUE) \in First
  BY <1>5
<1> QED BY <1>2, <1>6, <1>7, <1>8

-----------------------------------------------------------------------------
\* Before a build starts nothing is claimed, opened or written.
LEMMA BuildInitInv == BuildInit => BuildIInv
<1> SUFFICES ASSUME BuildInit PROVE BuildIInv
  OBVIOUS
<1>1. /\ buildInput \in BuildRuns /\ buildStage = "collect" /\ argAt = 1
      /\ roots = <<>> /\ claimed = <<>> /\ targets = {} /\ opened = <<>> /\ faults = {}
      /\ image = [is |-> "previous", files |-> <<>>]
  BY DEF BuildInit
<1>2. Collected = {}
  BY <1>1 DEF Collected
<1>3. BuildTypes
  BY <1>1, <1>2 DEF BuildTypes
<1>4. ClaimsCollected /\ TargetsCollected
  BY <1>1, <1>2 DEF ClaimsCollected, TargetsCollected
<1>5. OpenedAll /\ ImageOf
  BY <1>1 DEF OpenedAll, ImageOf
<1> QED BY <1>3, <1>4, <1>5 DEF BuildIInv

\* The chain is complete before a file is opened.
LEMMA OpenSame ==
  ASSUME UNCHANGED <<buildInput, roots>>, NEW p
  PROVE  Open(p)' = Open(p)
<1>1. Chain' = Chain
  BY DEF Chain
<1>2. \A i : Serves(i, p)' = Serves(i, p)
  BY <1>1 DEF Serves
<1> DEFINE First == {i \in DOMAIN Chain : Serves(i, p) /\ \A j \in 1..i - 1 : ~Serves(j, p)}
<1>3. First' = First
  BY <1>1, <1>2
<1>4. File(Chain[CHOOSE i \in First : TRUE], p)' = File(Chain[CHOOSE i \in First : TRUE], p)
  BY <1>1, <1>3 DEF File
<1>5. Open(p) = IF p \in Bundled THEN "bundled"
                ELSE IF First # {} THEN File(Chain[CHOOSE i \in First : TRUE], p)
                ELSE IF p \in Standard THEN "bundled" ELSE None
  BY DEF Open
<1>6. Open(p)' = IF p \in Bundled THEN "bundled"
                ELSE IF First' # {} THEN File(Chain[CHOOSE i \in First : TRUE], p)'
                ELSE IF p \in Standard THEN "bundled" ELSE None
  BY DEF Open
<1> HIDE DEF First
<1> QED BY <1>3, <1>4, <1>5, <1>6

\* What is missing or wrong depends on what was opened.
LEMMA FaultySame ==
  ASSUME UNCHANGED <<targets, opened, faults>>
  PROVE  Pending' = Pending /\ Faulty' = Faulty
BY DEF Pending, ImportsOf, Faulty, Redeclared

\* A step of a running build to an end, which changes the image only if it was
\* being written.
LEMMA BuildEnds ==
  ASSUME BuildIInv, buildStage \in {"collect", "compile", "write"}, buildStage' \in {"error", "killed"},
         UNCHANGED image \/ (buildStage = "write" /\ image'.is = "torn"),
         UNCHANGED <<buildInput, argAt, roots, claimed, targets, opened, faults>>
  PROVE  BuildIInv'
<1> USE DEF BuildIInv
<1>1. BuildTypes'
  BY DEF BuildTypes, Collected, Ended, Args
<1>2. ClaimsCollected'
  BY DEF ClaimsCollected, Collected, Args, PathsOf, File, Named
<1>3. TargetsCollected'
  BY DEF TargetsCollected, Collected, Args, ImageOf
<1>4. OpenedAll'
  <2>1. \A p \in DOMAIN opened : Open(p)' = Open(p)
    BY OpenSame
  <2>2. image'.is = "torn" => buildStage = "write"
    BY DEF ImageOf
  <2> QED BY <2>1, <2>2, FaultySame DEF OpenedAll
<1>5. ImageOf'
  BY DEF ImageOf
<1> QED BY <1>1, <1>2, <1>3, <1>4, <1>5

\* The loop over the arguments.
LEMMA CollectInputInv == BuildIInv /\ CollectInput => BuildIInv'
<1> SUFFICES ASSUME BuildIInv, CollectInput PROVE BuildIInv'
  OBVIOUS
<1> USE DEF BuildIInv
<1> DEFINE arg == Args[argAt]
<1>1. CASE BuildFails
  BY <1>1, BuildEnds DEF BuildFails, CollectInput
<1>2. CASE ~BuildFails
  <2>1. /\ buildStage = "collect" /\ argAt <= Len(Args)
        /\ ~arg.bad /\ ClaimedTwice(PathsOf(arg), arg.root) = {}
        /\ roots' = IF arg.root \in Named(roots) THEN roots ELSE Append(roots, arg.root)
        /\ claimed' = [p \in DOMAIN claimed \union PathsOf(arg) |->
                          IF p \in DOMAIN claimed THEN claimed[p] ELSE File(arg.root, p)]
        /\ targets' = targets \union PathsOf(arg)
        /\ argAt' = argAt + 1
        /\ UNCHANGED <<buildInput, buildStage, opened, faults, image>>
    BY <1>2 DEF CollectInput, Args
  <2>2. argAt \in 1..Len(Args) /\ arg.root \in Roots
    <3>1. Len(Args) \in Nat
      BY BuildInputs DEF BuildTypes
    <3>2. argAt \in 1..Len(Args)
      BY <2>1, <3>1 DEF BuildTypes
    <3> QED BY <2>1, <3>2, BuildInputs DEF BuildTypes
  <2>3. Args' = Args /\ Collected' = Collected \union {argAt}
    <3>1. Collected' = 1..(argAt + 1) - 1
      BY <2>1 DEF Collected
    <3>2. argAt \in Nat \ {0}
      BY DEF BuildTypes
    <3> QED BY <2>1, <3>1, <3>2 DEF Args, Collected
  <2>4. roots' \in Seq(Roots) /\ Named(roots') = Named(roots) \union {arg.root}
    <3>1. CASE arg.root \in Named(roots)
      BY <2>1, <3>1 DEF BuildTypes
    <3>2. CASE arg.root \notin Named(roots)
      <4>1. roots' = Append(roots, arg.root)
        BY <2>1, <3>2
      <4>2. /\ roots' \in Seq(Roots) /\ Len(roots') = Len(roots) + 1
            /\ \A k \in 1..Len(roots) : roots'[k] = roots[k]
            /\ roots'[Len(roots) + 1] = arg.root
        BY <2>2, <4>1, AppendProperties DEF BuildTypes
      <4>3. /\ Len(roots) \in Nat /\ DOMAIN roots = 1..Len(roots)
            /\ DOMAIN roots' = 1..Len(roots) + 1
        BY <4>2, LenProperties DEF BuildTypes
      <4>4. DOMAIN roots' = DOMAIN roots \union {Len(roots) + 1}
        BY <4>3
      <4> QED BY <4>2, <4>3, <4>4 DEF Named
    <3> QED BY <3>1, <3>2
  <2>5. BuildTypes'
    <3>1. Collected' \subseteq 1..Len(Args)
      BY <2>2, <2>3 DEF BuildTypes
    <3> QED BY <2>1, <2>3, <2>4, <3>1 DEF BuildTypes
  <2>6. DOMAIN claimed' = UNION {PathsOf(Args[i]) : i \in Collected'}
    <3>1. DOMAIN claimed' = DOMAIN claimed \union PathsOf(arg)
      BY <2>1
    <3>2. DOMAIN claimed = UNION {PathsOf(Args[i]) : i \in Collected}
      BY DEF ClaimsCollected
    <3> HIDE DEF arg
    <3> QED BY <2>3, <3>1, <3>2 DEF arg
  <2>7. ASSUME NEW i \in Collected', NEW p \in PathsOf(Args[i])
        PROVE  claimed'[p] = File(Args[i].root, p)
    <3>1. CASE i \in Collected
      <4>1. claimed[p] = File(Args[i].root, p) /\ p \in DOMAIN claimed
        BY <3>1 DEF ClaimsCollected
      <4> QED BY <2>1, <4>1
    <3>2. CASE i = argAt
      <4>1. p \in PathsOf(arg)
        BY <3>2
      <4>2. p \in DOMAIN claimed => claimed[p] = File(arg.root, p)
        BY <2>1, <4>1 DEF ClaimedTwice
      <4> QED BY <2>1, <3>2, <4>1, <4>2
    <3> QED BY <2>3, <3>1, <3>2
  <2>8. \A i \in Collected' : Args[i].root \in Named(roots')
    BY <2>3, <2>4 DEF ClaimsCollected
  <2>9. ASSUME NEW k \in DOMAIN roots' PROVE \E i \in Collected' : roots'[k] = Args[i].root
    <3>1. roots'[k] \in Named(roots')
      BY DEF Named
    <3>2. CASE roots'[k] = arg.root
      BY <2>3, <3>2
    <3>3. CASE roots'[k] \in Named(roots)
      <4>1. PICK j \in DOMAIN roots : roots'[k] = roots[j]
        BY <3>3 DEF Named
      <4> QED BY <2>3, <4>1 DEF ClaimsCollected
    <3> QED BY <2>4, <3>1, <3>2, <3>3
  <2>10. ClaimsCollected'
    <3>1. \A i \in Collected' : PathsOf(Args[i])' = PathsOf(Args[i]) /\ Args'[i] = Args[i]
      BY <2>3 DEF PathsOf
    <3>2. UNION {PathsOf(Args[i]) : i \in Collected'} = UNION {PathsOf(Args'[i]) : i \in Collected'}
      BY <2>3
    <3> QED BY <2>3, <2>6, <2>7, <2>8, <2>9, <3>1, <3>2 DEF ClaimsCollected, Named, File, PathsOf
  <2>11. TargetsCollected'
    BY <2>1 DEF TargetsCollected, ImageOf
  <2>12. OpenedAll' /\ ImageOf'
    BY <2>1 DEF OpenedAll, ImageOf, TargetsCollected
  <2> QED BY <2>5, <2>10, <2>11, <2>12
<1> QED BY <1>1, <1>2

\* The function libraries become targets.
LEMMA ConfigureInv == BuildIInv /\ Configure => BuildIInv'
<1> SUFFICES ASSUME BuildIInv, Configure PROVE BuildIInv'
  OBVIOUS
<1> USE DEF BuildIInv
<1>1. CASE BuildFails
  BY <1>1, BuildEnds DEF BuildFails, Configure
<1>2. CASE ~BuildFails
  <2>1. /\ buildStage = "collect" /\ argAt > Len(Args)
        /\ targets' = targets \union Named(buildInput.libs)
        /\ buildStage' = "compile"
        /\ UNCHANGED <<buildInput, argAt, roots, claimed, opened, faults, image>>
    BY <1>2 DEF Configure, Args
  <2>2. Collected = 1..Len(Args)
    <3>1. Len(Args) \in Nat
      BY BuildInputs DEF BuildTypes
    <3> QED BY <2>1, <3>1 DEF BuildTypes, Collected
  <2>3. BuildTypes'
    BY <2>1 DEF BuildTypes, Collected, Args
  <2>4. ClaimsCollected'
    BY <2>1 DEF ClaimsCollected, Collected, Args, PathsOf, File, Named
  <2>5. TargetsCollected'
    BY <2>1, <2>2 DEF TargetsCollected, Collected, Args
  <2>6. OpenedAll' /\ ImageOf'
    BY <2>1 DEF OpenedAll, ImageOf, TargetsCollected
  <2> QED BY <2>3, <2>4, <2>5, <2>6
<1> QED BY <1>1, <1>2

\* Each file is opened where the chain has it.
LEMMA CompileInv == BuildIInv /\ Compile => BuildIInv'
<1> SUFFICES ASSUME BuildIInv, Compile PROVE BuildIInv'
  OBVIOUS
<1> USE DEF BuildIInv
<1>1. /\ buildStage = "compile" /\ buildStage' = "compile"
      /\ UNCHANGED <<buildInput, argAt, roots, claimed, targets, image>>
  BY DEF Compile
<1>2. PICK p \in Pending :
        IF Open(p) = None
        THEN faults' = faults \union {p} /\ UNCHANGED opened
        ELSE /\ opened' = Extend(opened, p, Open(p))
             /\ faults' = IF Open(p) \in Broken THEN faults \union {p} ELSE faults
  BY DEF Compile
<1>3. BuildTypes'
  BY <1>1 DEF BuildTypes, Collected, Args
<1>4. ClaimsCollected'
  BY <1>1 DEF ClaimsCollected, Collected, Args, PathsOf, File, Named
<1>5. TargetsCollected'
  BY <1>1 DEF TargetsCollected, Collected, Args
<1>6. OpenedAll'
  <2>1. faults \subseteq faults'
    BY <1>2
  <2>2. ASSUME NEW q \in DOMAIN opened'
        PROVE  opened'[q] = Open(q) /\ (opened'[q] \in Broken => q \in faults')
    BY <1>2, <2>1 DEF OpenedAll, Extend
  <2>3. \A q \in DOMAIN opened' : Open(q)' = Open(q)
    BY <1>1, OpenSame
  <2> QED BY <1>1, <2>2, <2>3 DEF OpenedAll, ImageOf
<1>7. ImageOf'
  BY <1>1 DEF ImageOf
<1> QED BY <1>3, <1>4, <1>5, <1>6, <1>7

\* The compiler is done: with errors the build fails, and without one every
\* file it needs was opened.
LEMMA ReportInv == BuildIInv /\ Report => BuildIInv'
<1> SUFFICES ASSUME BuildIInv, Report PROVE BuildIInv'
  OBVIOUS
<1> USE DEF BuildIInv
<1>1. /\ buildStage = "compile" /\ Pending = {} /\ buildStage' = Compiled
      /\ UNCHANGED <<buildInput, argAt, roots, claimed, targets, opened, faults, image>>
  BY DEF Report
<1>2. CASE Faulty
  BY <1>1, <1>2, BuildEnds DEF Compiled
<1>3. CASE ~Faulty
  <2>1. buildStage' = IF buildInput.check THEN "ok" ELSE "write"
    BY <1>1, <1>3 DEF Compiled
  <2>2. BuildTypes'
    BY <1>1, <2>1 DEF BuildTypes, Collected, Args, Ended
  <2>3. ClaimsCollected'
    BY <1>1 DEF ClaimsCollected, Collected, Args, PathsOf, File, Named
  <2>4. TargetsCollected'
    BY <1>1, <2>1 DEF TargetsCollected, Collected, Args
  <2>5. OpenedAll'
    <3>1. \A p \in DOMAIN opened : Open(p)' = Open(p)
      BY <1>1, OpenSame
    <3> QED BY <1>1, <1>3, <3>1, FaultySame DEF OpenedAll
  <2>6. ImageOf'
    BY <1>1, <2>1, BuildInputs DEF ImageOf, BuildTypes
  <2> QED BY <2>2, <2>3, <2>4, <2>5, <2>6
<1> QED BY <1>2, <1>3

\* The image is written whole, or what is left of it is torn.
LEMMA WriteImageInv == BuildIInv /\ WriteImage => BuildIInv'
<1> SUFFICES ASSUME BuildIInv, WriteImage PROVE BuildIInv'
  OBVIOUS
<1> USE DEF BuildIInv
<1>1. /\ buildStage = "write"
      /\ UNCHANGED <<buildInput, argAt, roots, claimed, targets, opened, faults>>
  BY DEF WriteImage
<1>2. CASE image' = [is |-> "new", files |-> Marked] /\ buildStage' = "ok"
  <2>2. BuildTypes'
    BY <1>1, <1>2 DEF BuildTypes, Collected, Args, Ended
  <2>3. ClaimsCollected'
    BY <1>1 DEF ClaimsCollected, Collected, Args, PathsOf, File, Named
  <2>4. TargetsCollected'
    BY <1>1, <1>2 DEF TargetsCollected, Collected, Args
  <2>5. OpenedAll'
    <3>1. \A p \in DOMAIN opened : Open(p)' = Open(p)
      BY <1>1, OpenSame
    <3> QED BY <1>1, <3>1, FaultySame DEF OpenedAll
  <2>6. ImageOf'
    BY <1>1, <1>2 DEF ImageOf, Marked
  <2> QED BY <2>2, <2>3, <2>4, <2>5, <2>6
<1>3. CASE UNCHANGED image /\ buildStage' = "error"
  BY <1>1, <1>3, BuildEnds
<1>4. CASE image' = [is |-> "torn", files |-> <<>>] /\ buildStage' \in {"error", "killed"}
  BY <1>1, <1>4, BuildEnds
<1> QED BY <1>2, <1>3, <1>4 DEF WriteImage

\* Every action of a build keeps the invariant.
LEMMA BuildStepInv == BuildIInv /\ [BuildNext]_buildVars => BuildIInv'
<1> SUFFICES ASSUME BuildIInv, [BuildNext]_buildVars PROVE BuildIInv'
  OBVIOUS
<1>1. CASE BuildKilled \/ CompilerFails
  BY <1>1, BuildEnds DEF BuildKilled, CompilerFails, BuildFails
<1>2. CASE UNCHANGED buildVars
  <2>1. BuildTypes' /\ TargetsCollected'
    BY <1>2 DEF buildVars, BuildIInv, BuildTypes, TargetsCollected, Collected, Args
  <2>2. ClaimsCollected'
    BY <1>2 DEF buildVars, BuildIInv, ClaimsCollected, Collected, Args, PathsOf, File, Named
  <2>3. OpenedAll'
    <3>1. \A p \in DOMAIN opened : Open(p)' = Open(p)
      BY <1>2, OpenSame DEF buildVars
    <3>2. Pending' = Pending /\ Faulty' = Faulty
      BY <1>2, FaultySame DEF buildVars
    <3> QED BY <1>2, <3>1, <3>2 DEF buildVars, BuildIInv, OpenedAll
  <2>4. ImageOf'
    BY <1>2 DEF buildVars, BuildIInv, ImageOf, Marked
  <2> QED BY <2>1, <2>2, <2>3, <2>4 DEF BuildIInv
<1> QED
  BY <1>1, <1>2, CollectInputInv, ConfigureInv, CompileInv, ReportInv, WriteImageInv DEF BuildNext

-----------------------------------------------------------------------------
\* Once every argument is collected, the claimed paths are those of the
\* arguments.
LEMMA ClaimedPaths ==
  ASSUME BuildTypes, ClaimsCollected, Collected = 1..Len(Args)
  PROVE  /\ \A c : c \in Claims <=>
              \E i \in 1..Len(Args) : \E p \in PathsOf(Args[i]) : c = <<p, File(Args[i].root, p)>>
         /\ {c[1] : c \in Claims} = DOMAIN claimed
<1>1. DOMAIN Args = 1..Len(Args)
  BY BuildInputs DEF BuildTypes
<1>2. \A c : c \in Claims <=>
        \E i \in 1..Len(Args) : \E p \in PathsOf(Args[i]) : c = <<p, File(Args[i].root, p)>>
  BY <1>1 DEF Claims, Args
<1>3. ASSUME NEW c \in Claims PROVE c[1] \in DOMAIN claimed
  <2>1. PICK i \in 1..Len(Args) : \E p \in PathsOf(Args[i]) : c = <<p, File(Args[i].root, p)>>
    BY <1>2
  <2>2. PICK p \in PathsOf(Args[i]) : c = <<p, File(Args[i].root, p)>>
    BY <2>1
  <2> QED BY <2>2 DEF ClaimsCollected
<1>4. ASSUME NEW p \in DOMAIN claimed PROVE \E c \in Claims : p = c[1]
  <2>1. PICK i \in 1..Len(Args) : p \in PathsOf(Args[i])
    BY DEF ClaimsCollected
  <2>2. <<p, File(Args[i].root, p)>> \in Claims
    BY <1>2, <2>1
  <2> QED BY <2>2
<1> QED BY <1>2, <1>3, <1>4

\* Where nothing is pending and nothing is faulty, whatever was asked for was
\* found and is without errors.
LEMMA ErrorlessBuild ==
  ASSUME BuildIInv, buildStage = "ok" \/ image.is = "torn"
  PROVE  Errorless
<1>1. /\ Pending = {} /\ faults = {} /\ ~Redeclared
      /\ \A p \in DOMAIN opened : opened[p] \in Broken => p \in faults
  BY DEF BuildIInv, OpenedAll, Faulty
<1>2. /\ Collected = 1..Len(Args)
      /\ targets = DOMAIN claimed \union Named(buildInput.libs)
  BY DEF BuildIInv, TargetsCollected
<1>3. {c[1] : c \in Claims} = DOMAIN claimed
  BY <1>2, ClaimedPaths DEF BuildIInv
<1>4. /\ targets \subseteq DOMAIN opened
      /\ \A p \in DOMAIN opened : ImportsOf(opened[p]) \subseteq DOMAIN opened
  BY <1>1 DEF Pending
<1> QED BY <1>1, <1>2, <1>3, <1>4 DEF Errorless

\* The files of an image that is there are the ones opened, as they were asked
\* for, and those of directories come from them.
LEMMA WrittenImage ==
  ASSUME BuildIInv, image.is = "new"
  PROVE  /\ Complete
         /\ Directories => \A c \in Claims : c[1] \in Bundled \/ image.files[c[1]].file = c[2]
<1> USE DEF BuildIInv
<1>1. buildStage = "ok" /\ image = [is |-> "new", files |-> Marked]
  BY DEF ImageOf
<1>2. /\ image.files = Marked /\ Pending = {} /\ faults = {}
      /\ Collected = 1..Len(Args) /\ DOMAIN Args = 1..Len(Args)
      /\ targets = DOMAIN claimed \union Named(buildInput.libs)
  BY <1>1, BuildInputs DEF OpenedAll, TargetsCollected, BuildTypes, Faulty
<1>3. /\ DOMAIN image.files = DOMAIN opened
      /\ \A p \in DOMAIN opened :
           image.files[p].file = opened[p] /\ (image.files[p].isImport <=> p \notin targets)
  <2>1. DOMAIN image.files = DOMAIN opened
    BY <1>2 DEF Marked
  <2>2. ASSUME NEW p \in DOMAIN opened
        PROVE  image.files[p] = [file |-> opened[p], isImport |-> p \notin targets]
    BY <1>2 DEF Marked
  <2>3. ASSUME NEW p \in DOMAIN opened
        PROVE  image.files[p].file = opened[p] /\ image.files[p].isImport = (p \notin targets)
    <3> DEFINE mark == p \notin targets
    <3>1. image.files[p] = [file |-> opened[p], isImport |-> mark]
      BY <2>2
    <3> HIDE DEF mark
    <3>2. image.files[p].file = opened[p] /\ image.files[p].isImport = mark
      BY <3>1
    <3> QED BY <3>2 DEF mark
  <2>4. ASSUME NEW p \in DOMAIN opened
        PROVE  image.files[p].isImport <=> p \notin targets
    BY <2>3
  <2> QED BY <2>1, <2>3, <2>4
<1>4. targets \subseteq DOMAIN opened
  BY <1>2 DEF Pending
<1>5. /\ \A c : c \in Claims <=>
           \E i \in 1..Len(Args) : \E p \in PathsOf(Args[i]) : c = <<p, File(Args[i].root, p)>>
      /\ {c[1] : c \in Claims} = DOMAIN claimed
  BY <1>2, ClaimedPaths
<1>6. Complete
  <2>1. {p \in DOMAIN opened : ~image.files[p].isImport} = targets
    BY <1>3, <1>4
  <2> QED BY <1>2, <1>3, <1>5, <2>1 DEF Complete
<1>7. ASSUME Directories, NEW c \in Claims, c[1] \notin Bundled
      PROVE  image.files[c[1]].file = c[2]
  <2>0. PICK i \in 1..Len(Args) : \E p \in PathsOf(Args[i]) : c = <<p, File(Args[i].root, p)>>
    BY <1>5
  <2>1. PICK p \in PathsOf(Args[i]) : c = <<p, File(Args[i].root, p)>>
    BY <2>0
  <2>2. \A k \in 1..Len(Args) : PathsOf(Args[k]) = DOMAIN Tree[Args[k].root]
    BY <1>2, <1>7 DEF Directories, PathsOf, Args
  <2>3. PICK k \in DOMAIN roots : roots[k] = Args[i].root
    BY <1>2, <2>1 DEF ClaimsCollected, Named
  <2>4. PICK j \in DOMAIN roots : p \in DOMAIN Tree[roots[j]] /\ Open(p) = File(roots[j], p)
    BY <1>7, <2>1, <2>2, <2>3, OpenedInRoot DEF BuildTypes
  <2>5. PICK m \in 1..Len(Args) : roots[j] = Args[m].root
    BY <1>2, <2>4 DEF ClaimsCollected
  <2>6. p \in PathsOf(Args[m])
    BY <2>2, <2>4, <2>5
  <2>7. claimed[p] = File(Args[m].root, p) /\ claimed[p] = File(Args[i].root, p)
    BY <1>2, <2>1, <2>6 DEF ClaimsCollected
  <2>8. p \in DOMAIN opened /\ opened[p] = Open(p)
    <3>1. p \in DOMAIN claimed
      BY <1>2, <2>1 DEF ClaimsCollected
    <3> QED BY <1>2, <1>4, <3>1 DEF OpenedAll
  <2> QED BY <1>3, <2>1, <2>4, <2>5, <2>7, <2>8
<1> QED BY <1>6, <1>7

\* What the invariant says of the image and of how the run ends.
LEMMA BuildInvImplies == BuildIInv => ImageFaithful
<1> SUFFICES ASSUME BuildIInv PROVE ImageFaithful
  OBVIOUS
<1> USE DEF BuildIInv
<1>1. buildStage = "ok" => Errorless /\ (image.is = "new" <=> ~buildInput.check)
  BY ErrorlessBuild, BuildInputs DEF ImageOf, BuildTypes
<1>2. image.is # "previous" => Errorless /\ ~buildInput.check
  BY ErrorlessBuild DEF ImageOf
<1>3. image.is = "torn" => buildStage \in {"error", "killed"}
  BY DEF ImageOf
<1>4. image.is = "new" =>
        /\ buildStage = "ok" /\ Complete
        /\ Directories => \A c \in Claims : c[1] \in Bundled \/ image.files[c[1]].file = c[2]
  BY WrittenImage DEF ImageOf
<1> QED BY <1>1, <1>2, <1>3, <1>4 DEF ImageFaithful

\* The type invariant follows.
LEMMA BuildInvTyped == BuildIInv => BuildTypeOK
<1> SUFFICES ASSUME BuildIInv PROVE BuildTypeOK
  OBVIOUS
<1>1. Named(roots) \subseteq Roots
  BY ElementOfSeq, LenProperties DEF BuildIInv, BuildTypes, Named
<1> QED BY <1>1, BuildInputs DEF BuildIInv, BuildTypes, TargetsCollected, ImageOf, BuildTypeOK

-----------------------------------------------------------------------------
\* pxf build on its own: it writes an image only if there are no errors and
\* --check is not given; a run that ends well wrote it whole, its imports marked
\* and what directories name compiled from them; one that does not left the
\* previous image, or a part of this one if it failed while writing.
THEOREM BuildFaithful == BuildSpec => []ImageFaithful
<1> QED BY BuildInitInv, BuildStepInv, BuildInvImplies, PTL DEF BuildSpec

\* In the program a run is of pxf build, or build is idle.
BuildOrIdle ==
  IF command = "build" THEN BuildIInv ELSE buildStage = None

\* The program starts one command.
LEMMA BuildOrIdleInit == Init => BuildOrIdle
BY BuildInitInv DEF Init, BuildIdle, BuildOrIdle

\* No other command moves build's state.
LEMMA BuildOrIdleStep == BuildOrIdle /\ [Next]_vars => BuildOrIdle'
<1> SUFFICES ASSUME BuildOrIdle, [Next]_vars PROVE BuildOrIdle'
  OBVIOUS
<1>1. command' = command
  BY DEF Next, vars
<1>2. CASE command = "build"
  <2>1. [BuildNext]_buildVars
    BY <1>2 DEF Next, vars
  <2> QED BY <1>1, <1>2, <2>1, BuildStepInv DEF BuildOrIdle
<1>3. CASE command # "build"
  <2>1. buildStage' = buildStage
    BY <1>3 DEF Next, vars, buildVars
  <2> QED BY <1>1, <1>3, <2>1 DEF BuildOrIdle
<1> QED BY <1>2, <1>3

\* The same of the whole program, whatever command it runs.
THEOREM PxfBuildFaithful == Spec => []ImageFaithful
<1>1. BuildOrIdle => ImageFaithful
  BY BuildInvImplies DEF BuildOrIdle, ImageFaithful
<1> QED BY <1>1, BuildOrIdleInit, BuildOrIdleStep, PTL DEF Spec

\* build's part of the type invariant, of every run of the program.
THEOREM BuildTypeSafe == Spec => []BuildTypeOK
<1>1. BuildOrIdle => BuildTypeOK
  BY BuildInvTyped DEF BuildOrIdle, BuildTypeOK
<1> QED BY <1>1, BuildOrIdleInit, BuildOrIdleStep, PTL DEF Spec
=============================================================================
