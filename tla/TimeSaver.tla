------------------------------- MODULE TimeSaver -------------------------------
(***************************************************************************)
(* The time saver (src/batteryd/timesaver.c.in), with the life of the      *)
(* daemon around it (src/batteryd/main.c): the wall clock is written to a  *)
(* file on exit, and set from it at the next start if it has fallen back.  *)
(*                                                                         *)
(* The file system is modelled as far as POSIX promises: names and         *)
(* contents reach the disk in any order and at any time, unless fsync()    *)
(* makes them, and a rename is atomic.  A power cut leaves what is on the  *)
(* disk.  A file's content is the decimal number it holds and its length.  *)
(* A write() of the few bytes of a timestamp to the start of a file is     *)
(* made as a whole or fails.                                               *)
(***************************************************************************)
EXTENDS Integers

CONSTANTS
    Inodes,         \* the files that can exist at a time; 4 are enough
    NoFile,
    Base,           \* the base timestamps are printed in
    Times,          \* what a clock can show, in seconds
    RtcReset        \* what the real time clock falls back to

ASSUME InodesAssumption == NoFile \notin Inodes
ASSUME TimesAssumption == Times \subseteq Nat /\ RtcReset \in Times

Names == {"time_db", "time_db_tmp"}

VARIABLES
    pc,         \* where the daemon is; "off": the device is
    clock,      \* CLOCK_REALTIME
    latest,     \* history: the latest time a clock ever showed of its own
    failing,    \* history: write() or fsync() has failed in the save under way
    unsafe,     \* history: it had in the last save that was renamed into place
    dir, data,          \* names and contents, as programs see them
    diskDir, diskData   \* names and contents a power cut would leave

fileVars == <<dir, data, diskDir, diskData>>
vars == <<pc, clock, latest, failing, unsafe, fileVars>>

Content == [digits : Nat, value : Nat]
EmptyFile == [digits |-> 0, value |-> 0]

\* sprintf("%ld").
Printed(t) ==
    [digits |-> CHOOSE n \in 1..16 : t < Base^n /\ \A m \in 1..(n - 1) : t >= Base^m,
     value  |-> t]

\* Fault: O_APPEND instead of O_CREAT alone.
AppendedTo(old, new) ==
    [digits |-> old.digits + new.digits,
     value  |-> (old.value * Base^new.digits) + new.value]

\* write() to a file that open() did not truncate: what was longer sticks out.
WrittenOver(old, new) ==
    IF old.digits <= new.digits
      THEN new
      ELSE LET rest == Base^(old.digits - new.digits)
           IN  [digits |-> old.digits,
                value  |-> (new.value * rest) + (old.value % rest)]

Running == {"starting", "mainloop", "saving", "opened", "written", "synced", "renamed"}

TypeOK ==
    /\ pc \in Running \cup {"off", "exited"}
    /\ clock \in Nat
    /\ latest \in Nat
    /\ failing \in BOOLEAN
    /\ unsafe \in BOOLEAN
    /\ dir \in [Names -> Inodes \cup {NoFile}]
    /\ diskDir \in [Names -> Inodes \cup {NoFile}]
    /\ data \in [Inodes -> Content]
    /\ diskData \in [Inodes -> Content]
    /\ pc \in {"opened", "written", "synced"} => dir["time_db_tmp"] # NoFile
    /\ dir["time_db_tmp"] \in Inodes => dir["time_db"] # dir["time_db_tmp"]

Init ==
    /\ pc = "off"
    /\ clock \in Times
    /\ latest = clock
    /\ failing = FALSE
    /\ unsafe = FALSE
    /\ dir = [n \in Names |-> NoFile]
    /\ data = [i \in Inodes |-> EmptyFile]
    /\ diskDir = dir
    /\ diskData = data

--------------------------------------------------------------------------------
(***************************************************************************)
(* The daemon's life.                                                      *)
(***************************************************************************)

\* The device boots, or systemd restarts the daemon.
Start ==
    /\ pc \in {"off", "exited"}
    /\ pc' = "starting"
    /\ UNCHANGED <<clock, latest, failing, unsafe, fileVars>>

\* A file that is not there or holds nothing reads as 0.
timesaver_get_saved_secs ==
    IF dir["time_db"] = NoFile THEN 0 ELSE data[dir["time_db"]].value

\* TheOneInit(), as far as the time is concerned.
timesaver_init ==
    /\ pc = "starting"
    /\ pc' = "mainloop"
    /\ clock' = IF timesaver_get_saved_secs > clock
                  THEN timesaver_get_saved_secs
                  ELSE clock
    /\ UNCHANGED <<latest, failing, unsafe, fileVars>>

\* SIGTERM or SIGINT quits the main loop, and main() goes on to save the time.
\* Before the main loop runs it has no effect: g_main_loop_run() undoes it.
term_handler ==
    /\ pc = "mainloop"
    /\ pc' = "saving"
    /\ UNCHANGED <<clock, latest, failing, unsafe, fileVars>>

--------------------------------------------------------------------------------
(***************************************************************************)
(* timesaver_save().                                                       *)
(***************************************************************************)

\* open() takes up a file that an earlier, interrupted save has left.
OpenTmp ==
    /\ pc = "saving"
    /\ pc' = "opened"
    /\ IF dir["time_db_tmp"] # NoFile
         THEN UNCHANGED fileVars
         ELSE \E i \in Inodes :
                /\ \A n \in Names : i \notin {dir[n], diskDir[n]}
                /\ dir' = [dir EXCEPT !["time_db_tmp"] = i]
                /\ data' = [data EXCEPT ![i] = EmptyFile]
                /\ diskData' = [diskData EXCEPT ![i] = EmptyFile]
                /\ UNCHANGED diskDir
    /\ UNCHANGED <<clock, latest, failing, unsafe>>

OpenFails ==
    /\ pc = "saving"
    /\ pc' = "exited"
    /\ UNCHANGED <<clock, latest, failing, unsafe, fileVars>>

\* What write() returns is not looked at.
WriteTmp ==
    /\ pc = "opened"
    /\ pc' = "written"
    /\ \/ /\ data' = [data EXCEPT ![dir["time_db_tmp"]] = WrittenOver(@, Printed(clock))]
          /\ UNCHANGED failing
       \/ /\ failing' = TRUE
          /\ UNCHANGED data
    /\ UNCHANGED <<clock, latest, unsafe, dir, diskDir, diskData>>

\* Fault: the file is closed without fsync().
CloseTmp ==
    /\ pc = "written"
    /\ pc' = "synced"
    /\ UNCHANGED <<clock, latest, failing, unsafe, fileVars>>

\* Nor is what fsync() returns: one that fails promises nothing.
SyncTmp ==
    /\ pc = "written"
    /\ pc' = "synced"
    /\ \/ /\ diskData' = [diskData EXCEPT ![dir["time_db_tmp"]] = data[dir["time_db_tmp"]]]
          /\ UNCHANGED failing
       \/ /\ failing' = TRUE
          /\ UNCHANGED diskData
    /\ UNCHANGED <<clock, latest, unsafe, dir, data, diskDir>>

\* Fault: the file gets its second name and keeps its first.
LinkTmp ==
    /\ pc = "synced"
    /\ pc' = "renamed"
    /\ dir' = [dir EXCEPT !["time_db"] = dir["time_db_tmp"]]
    /\ UNCHANGED <<clock, latest, failing, unsafe, data, diskDir, diskData>>

\* rename() may fail, and save() goes on all the same.
RenameTmp ==
    /\ pc = "synced"
    /\ pc' = "renamed"
    /\ \/ /\ dir' = [time_db |-> dir["time_db_tmp"], time_db_tmp |-> NoFile]
          /\ unsafe' = failing
       \/ UNCHANGED <<dir, unsafe>>
    /\ failing' = FALSE
    /\ UNCHANGED <<clock, latest, data, diskDir, diskData>>

\* After a rename that succeeded there is nothing to unlink.
UnlinkTmp ==
    /\ pc = "renamed"
    /\ pc' = "exited"
    /\ dir' = [dir EXCEPT !["time_db_tmp"] = NoFile]
    /\ UNCHANGED <<clock, latest, failing, unsafe, data, diskDir, diskData>>

--------------------------------------------------------------------------------
(***************************************************************************)
(* The world around it.                                                    *)
(***************************************************************************)

\* Time passes, or someone sets the clock, forward or back.
ClockChanges ==
    /\ clock' \in Times \ {clock}
    /\ latest' = IF clock' > latest THEN clock' ELSE latest
    /\ UNCHANGED <<pc, failing, unsafe, fileVars>>

WriteBackNames ==
    /\ diskDir' = dir
    /\ UNCHANGED <<pc, clock, latest, failing, unsafe, dir, data, diskData>>

WriteBackContent(i) ==
    /\ \E n \in Names : i \in {dir[n], diskDir[n]}
    /\ diskData' = [diskData EXCEPT ![i] = data[i]]
    /\ UNCHANGED <<pc, clock, latest, failing, unsafe, dir, data, diskDir>>

\* The daemon dies at any point of its life without saving.
Killed ==
    /\ pc \in Running
    /\ pc' = "exited"
    /\ failing' = FALSE
    /\ UNCHANGED <<clock, latest, unsafe, fileVars>>

\* The battery is pulled; with it gone for long enough the clock is lost too.
PowerCut ==
    /\ pc # "off"
    /\ pc' = "off"
    /\ clock' \in {clock, RtcReset}
    /\ latest' = IF clock' > latest THEN clock' ELSE latest
    /\ dir' = diskDir
    /\ data' = diskData
    /\ failing' = FALSE
    /\ UNCHANGED <<unsafe, diskDir, diskData>>

Next ==
    \/ Start
    \/ timesaver_init
    \/ term_handler
    \/ OpenTmp
    \/ OpenFails
    \/ WriteTmp
    \/ SyncTmp
    \/ RenameTmp
    \/ UnlinkTmp
    \/ ClockChanges
    \/ WriteBackNames
    \/ \E i \in Inodes : WriteBackContent(i)
    \/ Killed
    \/ PowerCut

Spec == Init /\ [][Next]_vars

--------------------------------------------------------------------------------
(***************************************************************************)
(* Properties.                                                             *)
(***************************************************************************)

\* timesaver.c.in:125-126: whatever power cuts interrupt a save, the time
\* restored from the file was saved by someone, and the clock is never set to
\* one later than any clock has shown.
NoInventedTime == clock <= latest

\* There is a time for the next start to restore.
Holds(names, contents) ==
    /\ names["time_db"] # NoFile
    /\ contents[names["time_db"]].digits > 0

\* timesaver.c.in:125-126: once a time is on the disk, no step of a later save,
\* whatever interrupts it, leaves the device without one, unless the file last
\* renamed into place is one whose write() or fsync() failed; the next save in
\* which neither does makes it safe again.
SavedTimeIsNotLost ==
    [][~unsafe' /\ Holds(diskDir, diskData) => Holds(diskDir', diskData')]_vars
================================================================================
