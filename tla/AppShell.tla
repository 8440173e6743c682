------------------------------- MODULE AppShell -------------------------------
(***************************************************************************)
(* A run of the program from its command line to its exit: app/main.cpp,   *)
(* app/autosave.cpp, app/input_script.cpp, the list of recent projects of  *)
(* io/settings.cpp and ui/projects_view, and all of it again after a crash. *)
(*                                                                         *)
(* A project is where it came from and how many edits it has had since; a  *)
(* file holds one, or is a tracker module, or is a torn project file: a    *)
(* save truncates its file in one step and has written it in another, and  *)
(* the program may die between the two.                                    *)
(***************************************************************************)
EXTENDS Integers, Sequences, FiniteSets, SequencesExt

CONSTANTS SongPaths,     \* paths of project files
          ModulePaths,   \* paths with the extension of a tracker module
          CommandLines,  \* [load, save, export, script, frames] the program is started with
          Interval,      \* kIntervalSeconds, in frames
          RecentCap,     \* kUnpinnedRecentCap
          MaxFrames,     \* bound: frames of all runs
          MaxLaunches,   \* bound: runs
          MaxMenu        \* bound: things the user does

FilePaths == SongPaths \cup ModulePaths
NoPath == ""

ASSUME ShellAssumption ==
    /\ SongPaths \cap ModulePaths = {} /\ NoPath \notin FilePaths
    /\ Interval \in Nat \ {0} /\ RecentCap \in Nat \ {0}
    /\ MaxFrames \in Nat /\ MaxLaunches \in Nat /\ MaxMenu \in Nat

VARIABLES process,   \* "off", "running", or "stopping" and "writing" settings after the loop
          project,   \* the open project
          disk,      \* path -> what is there
          slots,     \* the autosave files: what is in them, and when they were written
          lock,      \* session.lock is there
          crashed,   \* previous_crashed_
          nextSlot,  \* next_slot_
          lastSave,  \* last_save_
          saving,    \* what a save that has truncated its file is about to write, and where
          menu,      \* project_path and the dialog that is open
          recents,   \* settings.recent_projects
          settings,  \* settings.json, for that list
          script,    \* actions_ from next_ on, wait_counter_, the frames left, and whether to quit
          frame,     \* frames so far, the clock of everything here
          launches,  \* runs so far
          clicks,    \* things the user did
          kept,      \* the last autosave that was completed
          tries      \* autosaves begun since

shellFiles == <<disk, slots, lock, settings>>
autosaveVars == <<crashed, nextSlot, lastSave>>
shellGhosts == <<kept, tries>>
shellVars == <<process, project, shellFiles, autosaveVars, saving, menu, recents, script, frame,
               launches, clicks, shellGhosts>>

Slots == 3   \* kSlots
NothingThere == [kind |-> "nothing"]
TornSettings == [torn |-> TRUE, list |-> <<>>]
TornFile == [kind |-> "torn"]
ModuleFile == [kind |-> "module"]
ProjectFrom(p) == [kind |-> "project", from |-> p, work |-> 0]
NoSave == [path |-> NoPath, slot |-> -1, what |-> NothingThere]
NoMenu == [path |-> NoPath, dialog |-> "none"]
NoScript == [rest |-> <<>>, wait |-> 0, left |-> 0, quit |-> FALSE]

----------------------------------------------------------------------------
(* The list of recent projects.                                            *)

\* sort_recent_projects: pinned first, then the latest, and stable.
Precede(a, b) == (a.pinned /\ ~b.pinned) \/ (a.pinned = b.pinned /\ a.at > b.at)
SortRecent(list) ==
    LET rank(i) == Cardinality({j \in DOMAIN list : Precede(list[j], list[i]) \/ (j < i /\ ~Precede(list[i], list[j]))})
    IN  [r \in DOMAIN list |-> list[CHOOSE i \in DOMAIN list : rank(i) = r - 1]]

\* Over the cap, the tail goes, up to the first entry that is pinned.
Evicted(list) ==
    LET unpinned == Len(SelectSeq(list, LAMBDA r : ~r.pinned))
    IN  SubSeq(list, 1, Len(list) - (IF unpinned > RecentCap THEN unpinned - RecentCap ELSE 0))

\* record_recent_project
RecentAt(list, p) == SelectInSeq(list, LAMBDA r : r.path = p)
RecordRecent(list, p) ==
    LET i == RecentAt(list, p)
        entry(pinned) == [path |-> p, at |-> frame, pinned |-> pinned]
    IN  Evicted(SortRecent(IF i = 0 THEN Append(list, entry(FALSE)) ELSE [list EXCEPT ![i] = entry(list[i].pinned)]))

----------------------------------------------------------------------------
(* The command line and the end of a run.                                  *)

Openable(files, p) == files[p].kind = (IF p \in ModulePaths THEN "module" ELSE "project")
OpenedFrom(files, p) == IF p \in ModulePaths THEN ProjectFrom(p) ELSE files[p]

\* What a process leaves behind is its files.
SessionGone ==
    /\ project' = ProjectFrom(NoPath) /\ menu' = NoMenu /\ script' = NoScript
    /\ crashed' = FALSE /\ nextSlot' = 0 /\ lastSave' = 0 /\ saving' = NoSave
    /\ kept' = NothingThere /\ tries' = 0
MemoryGone == SessionGone /\ process' = "off" /\ recents' = <<>>

\* parse_cli, and main up to its loop. The lock of a run that did not remove it means a crash;
\* then the files of the command line, each of which may fail and be gone on without. An
\* export, and a script that is not one, end the run from here. (The save of a command line
\* is whole: it happens once, and a crash in it is like one in any save.)
\* load_settings: a file that is malformed yields defaults.
LoadedSettings == IF settings.torn THEN <<>> ELSE settings.list

Opens(cli) == cli.load # NoPath /\ Openable(disk, cli.load)
Starting(cli) ==
    LET opened == IF Opens(cli) THEN OpenedFrom(disk, cli.load) ELSE ProjectFrom(NoPath)
        saves == cli.save # NoPath /\ ~cli.export
        listed == (IF Opens(cli) THEN <<cli.load>> ELSE <<>>) \o (IF saves THEN <<cli.save>> ELSE <<>>)
    IN  /\ project' = opened
        /\ disk' = IF saves THEN [disk EXCEPT ![cli.save] = opened] ELSE disk
        /\ recents' = FoldLeft(RecordRecent, LoadedSettings, listed)
Refuses(cli) == cli.export \/ \E i \in DOMAIN cli.script : cli.script[i] = "mistake"
Begin(cli) ==
    /\ process = "off" /\ launches < MaxLaunches
    /\ launches' = launches + 1 /\ frame' = frame + 1 /\ lock' = TRUE
    /\ UNCHANGED <<slots, settings, clicks>>
Launch(cli) ==
    /\ Begin(cli) /\ ~Refuses(cli)
    /\ process' = "running" /\ crashed' = lock
    /\ Starting(cli)
    /\ nextSlot' = 0 /\ lastSave' = 0 /\ saving' = NoSave /\ menu' = NoMenu
    /\ script' = [rest |-> cli.script, wait |-> 0, left |-> cli.frames, quit |-> FALSE]
    /\ UNCHANGED shellGhosts
LaunchToReturn(cli) ==
    /\ Begin(cli) /\ Refuses(cli)
    /\ MemoryGone
    /\ disk' = IF cli.save # NoPath /\ ~cli.export
               THEN [disk EXCEPT ![cli.save] = IF Opens(cli) THEN OpenedFrom(disk, cli.load) ELSE ProjectFrom(NoPath)]
               ELSE disk

\* The loop ends when the window closes, the script says so or the frames are used up:
\* end_session, and only after the server and the device have stopped save_settings.
Quit ==
    /\ process = "running" /\ saving = NoSave
    /\ process' = "stopping" /\ lock' = FALSE
    /\ SessionGone
    /\ UNCHANGED <<disk, slots, settings, recents, frame, launches, clicks>>
\* save_settings truncates its file, too.
SaveSettings ==
    /\ process = "stopping" /\ process' = "writing"
    /\ settings' = TornSettings
    /\ UNCHANGED <<project, disk, slots, lock, autosaveVars, saving, menu, recents, script, frame, launches, clicks, shellGhosts>>
Exit ==
    /\ process = "writing" /\ MemoryGone
    /\ settings' = [torn |-> FALSE, list |-> recents]
    /\ UNCHANGED <<disk, slots, lock, frame, launches, clicks>>

\* A plugin takes the process down, the power fails.
Crash ==
    /\ process # "off" /\ MemoryGone
    /\ UNCHANGED <<shellFiles, frame, launches, clicks>>

----------------------------------------------------------------------------
(* Saving.                                                                 *)

\* save_ftrk opens its file, which truncates it,
TruncateSlot(s) ==
    /\ saving' = [path |-> NoPath, slot |-> s, what |-> project]
    /\ slots' = [slots EXCEPT ![s] = [holds |-> TornFile, at |-> frame']]
TruncateFile(p) ==
    /\ saving' = [path |-> p, slot |-> -1, what |-> project]
    /\ disk' = [disk EXCEPT ![p] = TornFile]
\* and then has written all of it, or not.
FinishAutosave ==
    /\ process = "running" /\ saving.slot # -1
    /\ saving' = NoSave /\ kept' = saving.what /\ tries' = 0
    /\ slots' = [slots EXCEPT ![saving.slot].holds = saving.what]
    /\ UNCHANGED <<process, project, disk, lock, settings, autosaveVars, menu, recents, script, frame, launches, clicks>>
FinishSave ==
    /\ process = "running" /\ saving.path # NoPath
    /\ saving' = NoSave
    /\ disk' = [disk EXCEPT ![saving.path] = saving.what]
    /\ recents' = RecordRecent(recents, saving.path)
    /\ UNCHANGED <<process, project, slots, lock, settings, autosaveVars, menu, script, frame, launches, clicks, shellGhosts>>
DiskFull ==
    /\ process = "running" /\ saving # NoSave
    /\ saving' = NoSave
    /\ UNCHANGED <<process, project, shellFiles, autosaveVars, menu, recents, script, frame, launches, clicks, shellGhosts>>

----------------------------------------------------------------------------
(* A frame: the script, then the windows, and among them the autosave.     *)

\* InputScript::update: one event a frame, and none while it waits.
Scripted ==
    CASE script.wait > 0 -> [script EXCEPT !.wait = @ - 1]
      [] script.wait = 0 /\ script.rest = <<>> -> script
      [] script.wait = 0 /\ script.rest # <<>> ->
            [script EXCEPT !.rest = Tail(@), !.wait = IF Head(script.rest) = "wait" THEN 1 ELSE 0,
                           !.quit = Head(script.rest) = "quit"]
\* The frames of the command line are counted with it.
ScriptAfter == [Scripted EXCEPT !.left = IF @ > 0 THEN @ - 1 ELSE 0, !.quit = @ \/ script.left = 1]

\* Autosave::update: the first interval is measured from launch; one that has passed
\* takes the next slot, whatever comes of the save.
SlotAfterKept(s) == s
SlotAfter(s) == (s + 1) % Slots
Due == lastSave # 0 /\ frame' - lastSave >= Interval
Frame ==
    /\ process = "running" /\ saving = NoSave /\ ~script.quit /\ frame < MaxFrames
    /\ frame' = frame + 1 /\ script' = ScriptAfter
    /\ lastSave' = IF lastSave = 0 \/ Due THEN frame' ELSE lastSave
    /\ \/ /\ Due
          /\ TruncateSlot(nextSlot) /\ nextSlot' = SlotAfter(nextSlot) /\ tries' = tries + 1
       \/ /\ Due \* the slot cannot be opened
          /\ nextSlot' = SlotAfter(nextSlot) /\ tries' = tries + 1 /\ UNCHANGED <<saving, slots>>
       \/ /\ ~Due
          /\ UNCHANGED <<saving, slots, nextSlot, tries>>
    /\ UNCHANGED <<process, project, disk, lock, settings, crashed, menu, recents, launches, clicks, kept>>

\* latest_slot, of what is there when the button is drawn: the first of the newest.
FullSlots == {s \in 0..Slots - 1 : slots[s].holds # NothingThere}
LatestSlot == CHOOSE s \in FullSlots : \A t \in FullSlots : slots[t].at < slots[s].at \/ (slots[t].at = slots[s].at /\ t >= s)

----------------------------------------------------------------------------
(* The menus and the windows.                                              *)

Click ==
    /\ process = "running" /\ saving = NoSave /\ clicks < MaxMenu
    /\ clicks' = clicks + 1
SameProgram == UNCHANGED <<process, lock, slots, settings, autosaveVars, script, frame, launches, shellGhosts>>
InMenu == Click /\ menu.dialog = "none" /\ SameProgram

\* load_file; one that fails leaves the open project as it was.
Opening(p) ==
    IF Openable(disk, p)
    THEN project' = OpenedFrom(disk, p) /\ recents' = RecordRecent(recents, p)
    ELSE UNCHANGED <<project, recents>>

\* An edit, any of them.
EditProject ==
    /\ InMenu
    /\ project' = [project EXCEPT !.work = @ + 1]
    /\ UNCHANGED <<disk, saving, menu, recents>>

\* "new project", and the templates of the projects window
NewSong == InMenu /\ project' = ProjectFrom(NoPath) /\ UNCHANGED <<disk, saving, menu, recents>>

\* "open...": the path is typed into project_path itself, and stays there if the dialog
\* is cancelled, or the load fails, or the file is a module and one has yet to say how to open it.
OpenFile(p) ==
    /\ InMenu
    /\ menu' = [path |-> p, dialog |-> IF p \in ModulePaths THEN "module" ELSE "none"]
    /\ IF p \in ModulePaths THEN UNCHANGED <<project, recents>> ELSE Opening(p)
    /\ UNCHANGED <<disk, saving>>
CancelDialog(p) ==
    /\ InMenu
    /\ menu' = [menu EXCEPT !.path = p]
    /\ UNCHANGED <<project, disk, saving, recents>>

\* "import module...", which has a path of its own, and the list of recent projects
OpenWithoutPath(p) == InMenu /\ Opening(p) /\ UNCHANGED <<disk, saving, menu>>

\* draw_module_choice_modal: import, or the player, or neither.
ChooseImport ==
    /\ Click /\ SameProgram /\ menu.dialog = "module"
    /\ menu' = [menu EXCEPT !.dialog = "none"]
    /\ Opening(menu.path)
    /\ UNCHANGED <<disk, saving>>
ChooseOther ==
    /\ Click /\ SameProgram /\ menu.dialog = "module"
    /\ menu' = [menu EXCEPT !.dialog = "none"]
    /\ UNCHANGED <<project, disk, saving, recents>>

\* "save" takes project_path when there is one, "save as..." asks for it.
SaveTo(p) ==
    /\ Click /\ menu.dialog = "none"
    /\ TruncateFile(p) /\ menu' = [menu EXCEPT !.path = p]
    /\ UNCHANGED <<process, project, slots, lock, settings, autosaveVars, recents, script, frame, launches, shellGhosts>>
SaveFile == menu.path # NoPath /\ SaveTo(menu.path)
SaveAs(p) == SaveTo(p)

\* "recover autosave"; a slot that is torn does not load.
Recover ==
    /\ InMenu /\ crashed /\ FullSlots # {}
    /\ project' = IF slots[LatestSlot].holds = TornFile THEN project ELSE slots[LatestSlot].holds
    /\ UNCHANGED <<disk, saving, menu, recents>>

\* The projects window: pins, and entries whose file is missing.
TogglePin(i) ==
    /\ InMenu /\ i \in DOMAIN recents
    /\ recents' = SortRecent([recents EXCEPT ![i].pinned = ~@])
    /\ UNCHANGED <<project, disk, saving, menu>>
ForgetMissing(i) ==
    /\ InMenu /\ i \in DOMAIN recents /\ disk[recents[i].path] = NothingThere
    /\ recents' = RemoveAt(recents, i)
    /\ UNCHANGED <<project, disk, saving, menu>>
\* A drive is unmounted; not the program's doing.
FileGone(p) ==
    /\ InMenu /\ disk[p] # NothingThere
    /\ disk' = [disk EXCEPT ![p] = NothingThere]
    /\ UNCHANGED <<project, saving, menu, recents>>

----------------------------------------------------------------------------

ShellInit ==
    /\ process = "off" /\ project = ProjectFrom(NoPath)
    /\ disk = [p \in FilePaths |-> IF p \in ModulePaths THEN ModuleFile ELSE NothingThere]
    /\ slots = [s \in 0..Slots - 1 |-> [holds |-> NothingThere, at |-> 0]]
    /\ lock = FALSE /\ crashed = FALSE /\ nextSlot = 0 /\ lastSave = 0 /\ saving = NoSave
    /\ menu = NoMenu /\ recents = <<>> /\ settings = [torn |-> FALSE, list |-> <<>>]
    /\ script = NoScript /\ frame = 0 /\ launches = 0 /\ clicks = 0
    /\ kept = NothingThere /\ tries = 0

ShellNext ==
    \/ \E cli \in CommandLines : Launch(cli) \/ LaunchToReturn(cli)
    \/ Quit \/ SaveSettings \/ Exit \/ Crash
    \/ FinishAutosave \/ FinishSave \/ DiskFull
    \/ Frame
    \/ EditProject \/ NewSong
    \/ \E p \in FilePaths : OpenFile(p) \/ CancelDialog(p) \/ OpenWithoutPath(p) \/ SaveAs(p) \/ FileGone(p)
    \/ ChooseImport \/ ChooseOther
    \/ SaveFile
    \/ Recover
    \/ \E i \in 1..RecentCap + 2 : TogglePin(i) \/ ForgetMissing(i)

ShellSpec == ShellInit /\ [][ShellNext]_shellVars

----------------------------------------------------------------------------

Contents == {NothingThere, TornFile, ModuleFile} \cup
            {[ProjectFrom(p) EXCEPT !.work = n] : p \in FilePaths \cup {NoPath}, n \in 0..MaxMenu}
ShellTypeOK ==
    /\ process \in {"off", "running", "stopping", "writing"} /\ project \in Contents
    /\ disk \in [FilePaths -> Contents] /\ slots \in [0..Slots - 1 -> [holds : Contents, at : Nat]]
    /\ lock \in BOOLEAN /\ crashed \in BOOLEAN
    /\ nextSlot \in 0..Slots - 1 /\ lastSave \in 0..frame /\ kept \in Contents
    /\ tries \in 0..MaxFrames /\ saving \in [path : FilePaths \cup {NoPath}, slot : -1..Slots - 1, what : Contents]
    /\ menu \in [path : FilePaths \cup {NoPath}, dialog : {"none", "module"}]

\* The list of recent projects names each path once, is in its order, and holds no
\* more unpinned entries than its cap.
RecentsSound ==
    /\ \A i, j \in DOMAIN recents : i < j => recents[i].path # recents[j].path /\ ~Precede(recents[j], recents[i])
    /\ Cardinality({i \in DOMAIN recents : ~recents[i].pinned}) <= RecentCap

\* What the rotation is for: through a save that tears its file, or two in a row, the last
\* autosave the run has completed is still there to be recovered.
LastSaveSurvives ==
    process = "running" /\ kept # NothingThere /\ tries < Slots => \E s \in 0..Slots - 1 : slots[s].holds = kept
=============================================================================
