------------------------------- MODULE Rename -------------------------------
(***************************************************************************)
(* `aiball project rename-all`: a project's name on the board, its         *)
(* .aiball.yaml, its folder and what Claude and the loops keep by the      *)
(* folder's path, changed by one command in many writes.  The command is   *)
(* planned whole, then applied step by step; it may stop at any of them,   *)
(* be run again, by the command line or the bus, and overlap with itself.  *)
(*                                                                         *)
(* "old" and "new" stand for the two names and for the two paths.  A step  *)
(* of a run is one write; between two steps sessions start, other files'   *)
(* writers come by and the folder may be moved by hand.                    *)
(*                                                                         *)
(* RenameInit, RenameNext, RenameSpec, renameVars and RenameTypeOK are     *)
(* what other modules call Init, Next, Spec, vars and TypeOK, so that one  *)
(* module can extend this one and another.                                 *)
(***************************************************************************)
EXTENDS Naturals

CONSTANTS
    Runs,           \* runs of the command that may overlap
    Folders,        \* the project's folder and the subfolders Claude has run in
    Root,           \* the project's folder
    Transcripts,    \* Claude's transcripts, one in each folder and those to come
    FolderOf,       \* the folder a transcript belongs to
    Begun,          \* the transcripts there are before the command
    None,
    AgainWay,       \* how the folder is named when the command is run again
    Budgets         \* how many times each thing outside a run may happen, in each case

Ways == {"given", "shell", "known"}
Things == {"command", "crash", "session", "elsewhere", "handmove"}

ASSUME RootAssumption == Root \in Folders
ASSUME TranscriptsAssumption ==
    /\ FolderOf \in [Transcripts -> Folders] /\ Begun \subseteq Transcripts
    /\ {"plate", "history"} \cap Transcripts = {}
ASSUME NoneAssumption == None \notin Transcripts \cup {"old", "new", "plate", "history"}
ASSUME AgainAssumption == AgainWay \in Ways
ASSUME BudgetsAssumption == Budgets \subseteq [Things -> Nat]

Paths == {"old", "new"}
Files == Transcripts \cup {"plate", "history"}

VARIABLES
    names,      \* the project's names the daemon knows
    yaml,       \* what .aiball.yaml says of the project and of its agent
    place,      \* where the folder is
    root,       \* the path its loop pushed to the daemon
    home,       \* transcript -> the path whose key its directory carries
    holds,      \* state file -> the paths it records
    session,    \* where the Claude session of the project was started
    run,        \* run -> its plan and how far it is
    left        \* what is left of the budget

machine == <<place, root, home, holds, session>>
renameVars == <<names, yaml, machine, run, left>>

Modes == {"move", "state", "stay"}
Steps == {"rename", "patch", "move", "dirs", "files"}
Phases == Steps \cup {"idle", "refused", "failed", "over"}

NoRun == [phase |-> "idle", bus |-> FALSE, mode |-> "move", at |-> "old",
          name |-> FALSE, file |-> FALSE, agent |-> FALSE, dirs |-> {}, files |-> {},
          reading |-> None, stale |-> FALSE, skipped |-> FALSE, crossed |-> FALSE]

RenameTypeOK ==
    /\ names \in {{"old"}, {"new"}}
    /\ yaml \in [project : Paths \cup {None}, agent : BOOLEAN]
    /\ place \in Paths /\ root \in Paths /\ session \in Paths \cup {None}
    /\ home \in [Transcripts -> Paths \cup {None}]
    /\ holds \in [Files -> SUBSET Paths]
    /\ run \in [Runs -> [phase : Phases, bus : BOOLEAN, mode : Modes, at : Paths,
                         name : BOOLEAN, file : BOOLEAN, agent : BOOLEAN,
                         dirs : SUBSET Folders, files : SUBSET Files,
                         reading : Files \cup {None}, stale : BOOLEAN,
                         skipped : BOOLEAN, crossed : BOOLEAN]]
    /\ left \in [Things -> Nat]

\* The project under its old name, its loop having run; .aiball.yaml may leave
\* the project to the folder's name, and the agent to the project's.
RenameInit ==
    /\ names = {"old"} /\ yaml \in [project : {"old", None}, agent : BOOLEAN]
    /\ place = "old" /\ root = "old" /\ session = None
    /\ home = [t \in Transcripts |-> IF t \in Begun THEN "old" ELSE None]
    /\ holds = [x \in Files |-> IF x \in Begun \cup {"plate", "history"} THEN {"old"} ELSE {}]
    /\ run = [r \in Runs |-> NoRun]
    /\ left \in Budgets

Spend(thing) == left[thing] > 0 /\ left' = [left EXCEPT ![thing] = @ - 1]

Active(r) == run[r].phase \in Steps

\* The runs, once the files in xs are written: compare-and-swap sees it.
Written(xs) == [r \in Runs |-> [run[r] EXCEPT !.stale = @ \/ run[r].reading \in xs]]

\* The same, something having come between a run's plan and its end.
Crossed(xs) == [r \in Runs |-> [Written(xs)[r] EXCEPT !.crossed = @ \/ Active(r)]]

-----------------------------------------------------------------------------
(* The plan: planRenameAll and, unless --no-move, planRelocate.            *)

Directory(f, path) == {t \in Transcripts : FolderOf[t] = f /\ home[t] = path}

\* The directories that carry the old key and whose lines say they belong here.
Claimed == {f \in Folders : \E t \in Directory(f, "old") : "old" \in holds[t]}

\* Variant: a directory already renamed is taken as done.
FilesOfClaimedOnly ==
    {x \in Files : "old" \in holds[x] /\ (x \in Transcripts => FolderOf[x] \in Claimed /\ home[x] = "old")}

\* What records the old path: in a claimed directory, or in one renamed before.
Rewrites ==
    {x \in Files : /\ "old" \in holds[x]
                   /\ x \in Transcripts => home[x] = "new" \/ FolderOf[x] \in Claimed}

\* Claude already has a history for the new path.
TwoHistories == \E f \in Claimed : Directory(f, "new") # {}

\* The folder as the command names it: --from; else the shell's, which follows
\* the folder; or, on the bus, the root the daemon knows.
From(way) == CASE way = "given" -> "old" [] way = "shell" -> place [] way = "known" -> root

\* Variant: a folder already moved is not recognised.
ModeUnaware(stay) == IF stay THEN "stay" ELSE "move"
Mode(stay) == IF stay THEN "stay" ELSE IF place = "old" THEN "move" ELSE "state"

\* A folder that is not named after the old project, a session in it, two
\* histories; and a .aiball.yaml that is not where it is looked for.
Blocked(way, stay) ==
    IF stay THEN From(way) # place
    ELSE From(way) # "old" \/ session # None \/ TwoHistories

PlanOf(way, stay) ==
    [NoRun EXCEPT
        !.phase = "rename", !.bus = (way = "known"), !.mode = Mode(stay), !.at = place,
        !.name = "old" \in names, !.file = yaml.project # "new", !.agent = ~yaml.agent,
        !.dirs = IF stay THEN {} ELSE Claimed,
        !.files = IF stay THEN {} ELSE Rewrites]

Plan(r, way, stay) ==
    /\ ~Active(r)
    /\ run' = [run EXCEPT ![r] =
                  IF Blocked(way, stay) THEN [NoRun EXCEPT !.phase = "refused"]
                  ELSE PlanOf(way, stay)]
    /\ UNCHANGED <<names, yaml, machine>>

Command(r) ==
    /\ Spend("command")
    /\ \E way \in Ways, stay \in BOOLEAN : Plan(r, way, stay)

-----------------------------------------------------------------------------
(* applyRenameAll, write by write.                                         *)

Goes(r, phase) == run' = [run EXCEPT ![r].phase = phase]

Fails(r) == run' = [run EXCEPT ![r] = [NoRun EXCEPT !.phase = "failed"]]

\* What is kept of a run: whether it moved anything, skipped a file, was crossed.
Ends(r) == run' = [run EXCEPT ![r] =
    [NoRun EXCEPT !.phase = "over", !.mode = run[r].mode,
                  !.skipped = run[r].skipped, !.crossed = run[r].crossed]]

\* Variant: the old name's row is left behind.
RenamedKeepingTheOld(ns) == ns \cup {"new"}
Renamed(ns) == {"new"}

RenameProject(r) ==
    /\ run[r].phase = "rename"
    /\ IF ~run[r].name THEN Goes(r, "patch") /\ UNCHANGED names
       ELSE IF "old" \in names THEN Goes(r, "patch") /\ names' = Renamed(names)
       ELSE Fails(r) /\ UNCHANGED names
    /\ UNCHANGED <<yaml, machine, left>>

\* The project and, when nothing names it, the agent, in one write.
Patched(y, named) == [project |-> "new", agent |-> y.agent \/ named]

PatchFile(r) ==
    /\ run[r].phase = "patch"
    /\ IF ~run[r].file THEN Goes(r, "move") /\ UNCHANGED yaml
       ELSE IF place = run[r].at
            THEN Goes(r, "move") /\ yaml' = Patched(yaml, run[r].agent)
       ELSE Fails(r) /\ UNCHANGED yaml
    /\ UNCHANGED <<names, machine, left>>

MoveFolder(r) ==
    /\ run[r].phase = "move"
    /\ CASE run[r].mode = "stay"  -> Ends(r) /\ UNCHANGED place
         [] run[r].mode = "state" -> Goes(r, "dirs") /\ UNCHANGED place
         [] run[r].mode = "move"  ->
                IF place = "old" THEN Goes(r, "dirs") /\ place' = "new"
                ELSE Fails(r) /\ UNCHANGED place
    /\ UNCHANGED <<names, yaml, root, home, holds, session, left>>

RenameDirectory(r, f) ==
    /\ run[r].phase = "dirs" /\ f \in run[r].dirs
    /\ IF Directory(f, "old") # {} /\ Directory(f, "new") = {}
       THEN /\ home' = [t \in Transcripts |->
                           IF t \in Directory(f, "old") THEN "new" ELSE home[t]]
            /\ run' = [run EXCEPT ![r].dirs = @ \ {f}]
       ELSE Fails(r) /\ UNCHANGED home
    /\ UNCHANGED <<names, yaml, place, root, holds, session, left>>

DirectoriesDone(r) ==
    /\ run[r].phase = "dirs" /\ run[r].dirs = {}
    /\ Goes(r, "files")
    /\ UNCHANGED <<names, yaml, machine, left>>

\* The plates come first, the transcripts, then what all projects share.
Upcoming(xs) ==
    IF "plate" \in xs THEN {"plate"}
    ELSE IF xs \cap Transcripts # {} THEN xs \cap Transcripts ELSE xs

\* A file is read; one without the old path is skipped.
ReadFile(r, x) ==
    LET p == run[r]
    IN /\ p.phase = "files" /\ p.reading = None /\ x \in Upcoming(p.files)
       /\ run' = [run EXCEPT ![r] =
                     IF "old" \in holds[x]
                     THEN [p EXCEPT !.reading = x, !.stale = FALSE, !.files = @ \ {x}]
                     ELSE [p EXCEPT !.skipped = TRUE, !.files = @ \ {x}]]
       /\ UNCHANGED <<names, yaml, machine, left>>

\* ... and replaced, unless it has changed meanwhile.
SwapFile(r) ==
    LET p == run[r]
        x == p.reading
    IN /\ x # None
       /\ IF p.stale
          THEN /\ run' = [run EXCEPT ![r] =
                              [p EXCEPT !.reading = None, !.stale = FALSE, !.skipped = TRUE]]
               /\ UNCHANGED holds
          ELSE /\ holds' = [holds EXCEPT ![x] = (@ \ {"old"}) \cup {"new"}]
               /\ run' = [Written({x}) EXCEPT ![r] = [p EXCEPT !.reading = None, !.stale = FALSE]]
       /\ UNCHANGED <<names, yaml, place, root, home, session, left>>

\* On the bus, the root the loop pushed follows the folder.
Finish(r) ==
    /\ run[r].phase = "files" /\ run[r].files = {} /\ run[r].reading = None
    /\ Ends(r)
    /\ root' = IF run[r].bus THEN "new" ELSE root
    /\ UNCHANGED <<names, yaml, place, home, holds, session, left>>

Step(r) ==
    \/ RenameProject(r) \/ PatchFile(r) \/ MoveFolder(r)
    \/ \E f \in Folders : RenameDirectory(r, f)
    \/ DirectoriesDone(r)
    \/ \E x \in Files : ReadFile(r, x)
    \/ SwapFile(r) \/ Finish(r)

\* The process is gone, wherever it was.
Crash(r) ==
    /\ Active(r) /\ Spend("crash")
    /\ Fails(r)
    /\ UNCHANGED <<names, yaml, machine>>

-----------------------------------------------------------------------------
(* The machine around it.                                                  *)

\* Claude starts in the folder, by hand or under the project's loop, and
\* writes its transcript, the prompts' history and, with
\* a loop, its plate.
SessionStarts(t, loop) ==
    LET xs == {t, "history"} \cup (IF loop THEN {"plate"} ELSE {})
    IN /\ Spend("session")
       /\ session = None /\ home[t] = None /\ FolderOf[t] = Root
       /\ session' = place
       /\ home' = [home EXCEPT ![t] = place]
       /\ holds' = [x \in Files |->
                       IF x = "plate" /\ loop THEN {place}
                       ELSE IF x \in xs THEN holds[x] \cup {place} ELSE holds[x]]
       /\ root' = IF loop THEN place ELSE root
       /\ run' = Crossed(xs)
       /\ UNCHANGED <<names, yaml, place>>

\* The session records where it was started, wherever its folder is by now.
SessionWrites ==
    /\ session # None
    /\ holds' = [holds EXCEPT !["history"] = @ \cup {session}]
    /\ run' = Written({"history"})
    /\ UNCHANGED <<names, yaml, place, root, home, session, left>>

SessionEnds ==
    /\ session # None /\ session' = None
    /\ UNCHANGED <<names, yaml, place, root, home, holds, run, left>>

\* A session of another project writes what all of them share.
ElsewhereWrites ==
    /\ Spend("elsewhere")
    /\ run' = Written({"history"})
    /\ UNCHANGED <<names, yaml, machine>>

MovedByHand ==
    /\ Spend("handmove")
    /\ place = "old" /\ place' = "new"
    /\ run' = Crossed({})
    /\ UNCHANGED <<names, yaml, root, home, holds, session>>

-----------------------------------------------------------------------------
\* The agent .aiball.yaml gives is still the one it gave.
AgentKept == yaml.agent \/ yaml.project = "old" \/ (yaml.project = None /\ place = "old")

Renaming == names = {"new"} /\ yaml.project = "new" /\ AgentKept

\* Everything is at the new path, and nothing records the old one.
Relocated ==
    /\ place = "new"
    /\ \A t \in Transcripts : home[t] # "old"
    /\ \A x \in Files : "old" \notin holds[x]

Whole == Renaming /\ Relocated

\* Somebody runs the command again, until it has done its work.
Again(r) ==
    /\ \A q \in Runs : ~Active(q)
    /\ session = None /\ ~Whole
    /\ Plan(r, AgainWay, FALSE) /\ UNCHANGED left

RenameNext ==
    \/ \E r \in Runs : Command(r) \/ Again(r) \/ Step(r) \/ Crash(r)
    \/ \E t \in Transcripts, loop \in BOOLEAN : SessionStarts(t, loop)
    \/ SessionWrites \/ SessionEnds \/ ElsewhereWrites \/ MovedByHand

Safety == RenameInit /\ [][RenameNext]_renameVars

\* A run goes on until it ends or dies, a session ends, and the command is run
\* again.  Nothing else is owed.
RenameSpec ==
    /\ Safety
    /\ \A r \in Runs : WF_renameVars(Step(r))
    /\ WF_renameVars(SessionEnds) /\ WF_renameVars(\E r \in Runs : Again(r))

-----------------------------------------------------------------------------
(* Properties.                                                             *)

(* A run that says it has done everything has: name, file, agent, folder,  *)
(* directories and every record of the path, whatever earlier runs left    *)
(* half done and whatever another run does at the same time; unless a      *)
(* session started, or the folder was moved, under it.                     *)
FinishedIsWhole ==
    \A r \in Runs :
        run[r].phase = "over" /\ ~run[r].skipped /\ ~run[r].crossed
        => Renaming /\ (run[r].mode = "stay" \/ Relocated)

(* Wherever a run stopped, running the command again with the old folder   *)
(* named to it (AgainWay = "given") ends with the project whole, but for   *)
(* one thing the command leaves to its user: Claude has begun a history at *)
(* the new path while one waits at the old.  By its default, the shell's   *)
(* folder, it does not: once the folder has moved, the rerun is refused.   *)
RerunFinishes == <>[](Whole \/ TwoHistories)

=============================================================================
