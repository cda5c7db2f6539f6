---------------------------- MODULE TimeSaver_proof ----------------------------
(***************************************************************************)
(* What holds of the time saver wherever all times are printed with the    *)
(* same number of digits, as are those of the years 2001 to 2286; the run  *)
(* TimeSaverShort shows what happens elsewhere.                            *)
(***************************************************************************)
EXTENDS TimeSaver, TLAPS

EqualWidths == \E w \in Nat \ {0} : \A t \in Times : Printed(t).digits = w

\* The contents a file can have: nothing, or a time some clock has shown.
Stamps(last) == {EmptyFile} \cup {Printed(t) : t \in {u \in Times : u <= last}}

Distinct(names) ==
    names["time_db_tmp"] \in Inodes => names["time_db"] # names["time_db_tmp"]

\* The strengthening of NoInventedTime: every file, and not only the one that
\* is read, holds a time that a clock has shown, and so does the disk.
IInv ==
    /\ TypeOK
    /\ Distinct(diskDir)
    /\ clock \in Times
    /\ latest \in Times
    /\ clock <= latest
    /\ data \in [Inodes -> Stamps(latest)]
    /\ diskData \in [Inodes -> Stamps(latest)]

LEMMA StampType ==
    ASSUME EqualWidths, NEW last \in Times
    PROVE  /\ Stamps(last) \subseteq Content
           /\ \A c \in Stamps(last) : c.value = 0 \/ c.value \in {t \in Times : t <= last}
<1>1. \A t \in Times : Printed(t) \in Content /\ Printed(t).value = t
  <2> SUFFICES ASSUME NEW t \in Times PROVE Printed(t) \in Content /\ Printed(t).value = t
    OBVIOUS
  <2>1. Printed(t).digits \in Nat
    BY DEF EqualWidths
  <2>2. t \in Nat
    BY TimesAssumption
  <2> QED
    BY <2>1, <2>2 DEF Printed, Content
<1>2. EmptyFile \in Content /\ EmptyFile.value = 0
  BY DEF EmptyFile, Content
<1> QED
  BY <1>1, <1>2 DEF Stamps

\* A later time is no less a time that some clock has shown.
LEMMA StampsGrow ==
    ASSUME NEW a \in Times, NEW b \in Times, a <= b
    PROVE  Stamps(a) \subseteq Stamps(b)
<1>1. \A u \in Times : u <= a => u <= b
  BY TimesAssumption
<1> QED
  BY <1>1 DEF Stamps

\* With equal widths nothing of an earlier file sticks out of a later one.
LEMMA WholeStamp ==
    ASSUME EqualWidths, NEW last \in Times, NEW old \in Stamps(last), NEW t \in Times
    PROVE  WrittenOver(old, Printed(t)) = Printed(t)
<1>1. PICK w \in Nat \ {0} : \A u \in Times : Printed(u).digits = w
  BY DEF EqualWidths
<1>2. old.digits = 0 \/ old.digits = w
  BY <1>1 DEF Stamps, EmptyFile
<1>3. old.digits <= Printed(t).digits
  BY <1>1, <1>2
<1> QED
  BY <1>3 DEF WrittenOver

\* What a step that leaves clock, latest and contents alone has to show.
LEMMA Bookkeeping ==
    ASSUME IInv, UNCHANGED <<clock, latest, data, diskData>>,
           failing' \in BOOLEAN, unsafe' \in BOOLEAN,
           pc' \in Running \cup {"off", "exited"},
           dir' \in [Names -> Inodes \cup {NoFile}],
           diskDir' \in [Names -> Inodes \cup {NoFile}],
           pc' \in {"opened", "written", "synced"} => dir'["time_db_tmp"] # NoFile,
           Distinct(dir'), Distinct(diskDir')
    PROVE  IInv'
BY DEF IInv, TypeOK, Distinct

\* What a step that changes the contents alone has to show.
LEMMA Contents ==
    ASSUME EqualWidths, IInv, UNCHANGED <<clock, latest, diskDir>>,
           failing' \in BOOLEAN, unsafe' \in BOOLEAN,
           data' \in [Inodes -> Stamps(latest)],
           diskData' \in [Inodes -> Stamps(latest)],
           pc' \in Running \cup {"off", "exited"},
           dir' \in [Names -> Inodes \cup {NoFile}],
           pc' \in {"opened", "written", "synced"} => dir'["time_db_tmp"] # NoFile,
           Distinct(dir')
    PROVE  IInv'
<1>1. Stamps(latest) \subseteq Content
  BY StampType DEF IInv
<1>2. data' \in [Inodes -> Content] /\ diskData' \in [Inodes -> Content]
  BY <1>1
<1> QED
  BY <1>2 DEF IInv, TypeOK, Distinct

LEMMA TmpIsOpen ==
    ASSUME IInv, pc \in {"opened", "written", "synced"}
    PROVE  /\ dir["time_db_tmp"] \in Inodes
           /\ dir["time_db"] # dir["time_db_tmp"]
BY DEF IInv, TypeOK, Names

LEMMA InitInv == ASSUME EqualWidths, Init PROVE IInv
<1>1. clock \in Times /\ latest = clock /\ clock \in Nat
  BY TimesAssumption DEF Init
<1>2. EmptyFile \in Stamps(latest) /\ EmptyFile \in Content
  BY DEF Stamps, Content, EmptyFile
<1>3. Distinct(dir) /\ Distinct(diskDir)
  BY InodesAssumption DEF Init, Distinct, Names
<1>4. failing \in BOOLEAN /\ unsafe \in BOOLEAN
  BY DEF Init
<1> QED
  BY <1>1, <1>2, <1>3, <1>4 DEF Init, IInv, TypeOK, Distinct, Running

LEMMA LifeKeepsInv ==
    ASSUME EqualWidths, IInv, Start \/ timesaver_init \/ term_handler \/ Killed
    PROVE  IInv'
<1>1. CASE Start \/ term_handler \/ Killed
  <2>1. pc' \in Running \cup {"exited"} /\ pc' \notin {"opened", "written", "synced"}
    BY <1>1 DEF Start, term_handler, Killed, Running
  <2>2. UNCHANGED <<clock, latest, unsafe, fileVars>> /\ failing' \in BOOLEAN
    BY <1>1 DEF Start, term_handler, Killed, IInv, TypeOK
  <2> QED
    BY <2>1, <2>2 DEF IInv, TypeOK, Distinct, fileVars
<1>2. CASE timesaver_init
  <2> DEFINE saved == timesaver_get_saved_secs
  <2>1. saved = 0 \/ saved \in {t \in Times : t <= latest}
    <3>1. CASE dir["time_db"] = NoFile
      BY <3>1 DEF timesaver_get_saved_secs
    <3>2. CASE dir["time_db"] # NoFile
      <4>1. dir["time_db"] \in Inodes
        BY <3>2 DEF IInv, TypeOK, Names
      <4>2. data[dir["time_db"]] \in Stamps(latest) /\ latest \in Times
        BY <4>1 DEF IInv
      <4> QED
        BY <3>2, <4>2, StampType DEF timesaver_get_saved_secs
    <3> QED
      BY <3>1, <3>2
  <2>2. clock \in Nat /\ clock \in Times /\ clock <= latest
    BY DEF IInv, TypeOK
  <2>3. clock' \in Times /\ clock' <= latest /\ clock' \in Nat
    <3>1. CASE saved > clock
      <4>1. clock' = saved
        BY <1>2, <3>1 DEF timesaver_init
      <4>2. saved # 0
        BY <3>1, <2>2
      <4>3. saved \in Times /\ saved <= latest
        BY <2>1, <4>2
      <4> QED
        BY <4>1, <4>3, TimesAssumption
    <3>2. CASE ~(saved > clock)
      <4>1. clock' = clock
        BY <1>2, <3>2 DEF timesaver_init
      <4> QED
        BY <4>1, <2>2
    <3> QED
      BY <3>1, <3>2
  <2>4. pc' = "mainloop" /\ UNCHANGED <<latest, failing, unsafe, fileVars>>
    BY <1>2 DEF timesaver_init
  <2> QED
    BY <2>3, <2>4 DEF IInv, TypeOK, Distinct, fileVars, Running
<1> QED
  BY <1>1, <1>2

LEMMA SaveKeepsInv ==
    ASSUME EqualWidths, IInv,
           OpenTmp \/ OpenFails \/ WriteTmp \/ SyncTmp \/ RenameTmp \/ UnlinkTmp
    PROVE  IInv'
<1>1. CASE OpenTmp
  <2>0. pc' = "opened" /\ UNCHANGED <<clock, latest, failing, unsafe, diskDir>>
    BY <1>1 DEF OpenTmp, fileVars
  <2>1. CASE dir["time_db_tmp"] # NoFile
    <3>1. UNCHANGED fileVars
      BY <1>1, <2>1 DEF OpenTmp
    <3> QED
      BY <2>0, <2>1, <3>1, Bookkeeping DEF IInv, TypeOK, Distinct, fileVars, Running
  <2>2. CASE dir["time_db_tmp"] = NoFile
    <3>1. PICK i \in Inodes :
            /\ \A n \in Names : i \notin {dir[n], diskDir[n]}
            /\ dir' = [dir EXCEPT !["time_db_tmp"] = i]
            /\ data' = [data EXCEPT ![i] = EmptyFile]
            /\ diskData' = [diskData EXCEPT ![i] = EmptyFile]
      BY <1>1, <2>2 DEF OpenTmp
    <3>2. EmptyFile \in Stamps(latest)
      BY DEF Stamps
    <3>3. /\ data' \in [Inodes -> Stamps(latest)]
          /\ diskData' \in [Inodes -> Stamps(latest)]
      BY <3>1, <3>2 DEF IInv
    <3>4. dir' \in [Names -> Inodes \cup {NoFile}]
      BY <3>1 DEF IInv, TypeOK
    <3>5. dir'["time_db_tmp"] = i /\ dir'["time_db"] = dir["time_db"] /\ dir["time_db"] # i
      BY <3>1 DEF IInv, TypeOK, Names
    <3>6. failing' \in BOOLEAN /\ unsafe' \in BOOLEAN
      BY <2>0 DEF IInv, TypeOK
    <3> QED
      BY <2>0, <3>3, <3>4, <3>5, <3>6, Contents, InodesAssumption DEF Running, Distinct
  <2> QED
    BY <2>1, <2>2
<1>2. CASE OpenFails
  BY <1>2, Bookkeeping DEF OpenFails, IInv, TypeOK, Distinct, fileVars
<1>3. CASE WriteTmp
  <2> DEFINE tmp == dir["time_db_tmp"]
  <2>1. tmp \in Inodes
    BY <1>3, TmpIsOpen DEF WriteTmp
  <2>2. Printed(clock) \in Stamps(latest)
    BY DEF IInv, Stamps
  <2>3. data[tmp] \in Stamps(latest) /\ latest \in Times /\ clock \in Times
    BY <2>1 DEF IInv
  <2>4. WrittenOver(data[tmp], Printed(clock)) = Printed(clock)
    BY <2>3, WholeStamp
  <2>5. data' = data \/ data' = [data EXCEPT ![tmp] = Printed(clock)]
    <3>1. \/ data' = [data EXCEPT ![tmp] = WrittenOver(data[tmp], Printed(clock))]
          \/ data' = data
      BY <1>3 DEF WriteTmp
    <3> QED
      BY <2>4, <3>1
  <2>6. data' \in [Inodes -> Stamps(latest)]
    BY <2>2, <2>5 DEF IInv
  <2>7. pc' = "written" /\ UNCHANGED <<clock, latest, dir, diskDir, diskData>>
    BY <1>3 DEF WriteTmp
  <2>10. failing' \in BOOLEAN /\ unsafe' \in BOOLEAN
    BY <1>3 DEF WriteTmp, IInv, TypeOK
  <2>8. dir \in [Names -> Inodes \cup {NoFile}] /\ Distinct(dir)
    BY DEF IInv, TypeOK, Distinct
  <2>9. diskData' \in [Inodes -> Stamps(latest)]
    BY <2>7 DEF IInv
  <2> QED
    BY <2>1, <2>6, <2>7, <2>8, <2>9, <2>10, Contents, InodesAssumption DEF Running
<1>4. CASE SyncTmp
  <2> DEFINE tmp == dir["time_db_tmp"]
  <2>1. tmp \in Inodes
    BY <1>4, TmpIsOpen DEF SyncTmp
  <2>2. pc' = "synced" /\ UNCHANGED <<clock, latest, dir, data, diskDir>>
    BY <1>4 DEF SyncTmp
  <2>3. /\ data' \in [Inodes -> Stamps(latest)]
        /\ diskData' \in [Inodes -> Stamps(latest)]
    BY <1>4, <2>1 DEF SyncTmp, IInv
  <2>4. dir \in [Names -> Inodes \cup {NoFile}] /\ Distinct(dir)
    BY DEF IInv, TypeOK, Distinct
  <2>5. failing' \in BOOLEAN /\ unsafe' \in BOOLEAN
    BY <1>4 DEF SyncTmp, IInv, TypeOK
  <2> QED
    BY <2>1, <2>2, <2>3, <2>4, <2>5, Contents, InodesAssumption DEF Running
<1>5. CASE RenameTmp
  <2>1. dir["time_db_tmp"] \in Inodes /\ dir["time_db"] # dir["time_db_tmp"]
    BY <1>5, TmpIsOpen DEF RenameTmp
  <2>2. \/ dir' = [time_db |-> dir["time_db_tmp"], time_db_tmp |-> NoFile]
        \/ dir' = dir
    BY <1>5 DEF RenameTmp
  <2>3. dir' \in [Names -> Inodes \cup {NoFile}] /\ Distinct(dir')
    BY <2>1, <2>2, InodesAssumption DEF IInv, TypeOK, Names, Distinct
  <2>4. /\ pc' = "renamed" /\ UNCHANGED <<clock, latest, data, diskDir, diskData>>
        /\ failing' \in BOOLEAN /\ unsafe' \in BOOLEAN
    BY <1>5 DEF RenameTmp, IInv, TypeOK
  <2> QED
    BY <2>3, <2>4, Bookkeeping DEF IInv, TypeOK, Running
<1>6. CASE UnlinkTmp
  <2>1. dir' = [dir EXCEPT !["time_db_tmp"] = NoFile]
    BY <1>6 DEF UnlinkTmp
  <2>2. dir' \in [Names -> Inodes \cup {NoFile}] /\ Distinct(dir')
    BY <2>1, InodesAssumption DEF IInv, TypeOK, Names, Distinct
  <2>3. pc' = "exited" /\ UNCHANGED <<clock, latest, failing, unsafe, data, diskDir, diskData>>
    BY <1>6 DEF UnlinkTmp
  <2> QED
    BY <2>2, <2>3, Bookkeeping DEF IInv, TypeOK
<1> QED
  BY <1>1, <1>2, <1>3, <1>4, <1>5, <1>6

LEMMA WorldKeepsInv ==
    ASSUME EqualWidths, IInv,
           \/ ClockChanges
           \/ WriteBackNames
           \/ \E i \in Inodes : WriteBackContent(i)
           \/ PowerCut
    PROVE  IInv'
<1>0. latest \in Times /\ clock \in Times /\ latest \in Nat /\ clock \in Nat /\ clock <= latest
  BY DEF IInv, TypeOK
<1>1. ASSUME clock' \in Times,
             latest' = IF clock' > latest THEN clock' ELSE latest
      PROVE  /\ latest' \in Times /\ clock' <= latest'
             /\ latest' \in Nat /\ clock' \in Nat
             /\ Stamps(latest) \subseteq Stamps(latest')
  <2>1. clock' \in Nat
    BY <1>1, TimesAssumption
  <2>2. latest' \in Times /\ latest' \in Nat /\ clock' <= latest' /\ latest <= latest'
    BY <1>0, <1>1, <2>1
  <2> QED
    BY <1>0, <2>1, <2>2, StampsGrow
<1>2. CASE ClockChanges
  <2>1. clock' \in Times /\ latest' = IF clock' > latest THEN clock' ELSE latest
    BY <1>2 DEF ClockChanges
  <2>2. UNCHANGED <<pc, failing, unsafe, fileVars>>
    BY <1>2 DEF ClockChanges
  <2> QED
    BY <1>1, <2>1, <2>2 DEF IInv, TypeOK, Distinct, fileVars
<1>3. CASE WriteBackNames
  <2>1. Distinct(dir) /\ dir \in [Names -> Inodes \cup {NoFile}]
    BY DEF IInv, TypeOK, Distinct
  <2>2. diskDir' = dir /\ UNCHANGED <<pc, clock, latest, failing, unsafe, dir, data, diskData>>
    BY <1>3 DEF WriteBackNames
  <2> QED
    BY <2>1, <2>2, Bookkeeping DEF IInv, TypeOK
<1>4. ASSUME NEW i \in Inodes, WriteBackContent(i)
      PROVE  IInv'
  <2>1. diskData' = [diskData EXCEPT ![i] = data[i]]
    BY <1>4 DEF WriteBackContent
  <2>2. UNCHANGED <<pc, clock, latest, failing, unsafe, dir, data, diskDir>>
    BY <1>4 DEF WriteBackContent
  <2>3. diskData' \in [Inodes -> Stamps(latest)] /\ data' \in [Inodes -> Stamps(latest)]
    BY <2>1, <2>2 DEF IInv
  <2> QED
    BY <2>2, <2>3, Contents DEF IInv, TypeOK, Distinct
<1>5. CASE PowerCut
  <2>1. clock' \in Times /\ latest' = IF clock' > latest THEN clock' ELSE latest
    BY <1>0, <1>5, TimesAssumption DEF PowerCut
  <2>2. /\ pc' = "off" /\ dir' = diskDir /\ data' = diskData
        /\ failing' \in BOOLEAN /\ UNCHANGED <<unsafe, diskDir, diskData>>
    BY <1>5 DEF PowerCut
  <2>3. Distinct(diskDir) /\ diskDir \in [Names -> Inodes \cup {NoFile}]
    BY DEF IInv, TypeOK
  <2>4. diskData \in [Inodes -> Stamps(latest')] /\ diskData \in [Inodes -> Content]
    BY <1>1, <2>1 DEF IInv, TypeOK
  <2> QED
    BY <1>1, <2>1, <2>2, <2>3, <2>4 DEF IInv, TypeOK, Distinct
<1> QED
  BY <1>2, <1>3, <1>4, <1>5

\* No system call of a save, no power cut and no kill breaks the invariant
\* (timesaver_save, timesaver_init).
THEOREM Invariance == ASSUME EqualWidths PROVE Spec => []IInv
<1>1. Init => IInv
  BY InitInv
<1>2. IInv /\ [Next]_vars => IInv'
  <2>1. ASSUME IInv, UNCHANGED vars PROVE IInv'
    BY <2>1 DEF vars, fileVars, IInv, TypeOK, Distinct
  <2> QED
    BY <2>1, LifeKeepsInv, SaveKeepsInv, WorldKeepsInv DEF Next
<1> QED
  BY <1>1, <1>2, PTL DEF Spec

\* Every variable keeps its type, and no two names ever share a file.
THEOREM TypeCorrect == ASSUME EqualWidths PROVE Spec => []TypeOK
<1>1. IInv => TypeOK
  BY DEF IInv
<1> QED
  BY <1>1, Invariance, PTL

\* No interruption of a save, in any order of write-back, makes a later start
\* set the clock to a time no clock has shown; a write() or an fsync() that
\* fails does not either.
THEOREM TimeIsNotInvented == ASSUME EqualWidths PROVE Spec => []NoInventedTime
<1>1. IInv => NoInventedTime
  BY DEF IInv, NoInventedTime
<1> QED
  BY <1>1, Invariance, PTL

--------------------------------------------------------------------------------
(***************************************************************************)
(* That a saved time is kept.                                              *)
(***************************************************************************)

Full(contents, i) == contents[i].digits > 0

\* A file with a time on the disk has one in memory too; a save that has not
\* failed has a time in its file, and on the disk once it has synchronised it;
\* the temporary file is another than the one the disk still names time_db.
\* What time_db names in memory is what it names on the disk or, if the last
\* file put there was safe, holds a time on the disk.
KInv ==
    /\ \A i \in Inodes : Full(diskData, i) => Full(data, i)
    /\ ~failing /\ pc \in {"written", "synced"} => Full(data, dir["time_db_tmp"])
    /\ ~failing /\ pc = "synced" => Full(diskData, dir["time_db_tmp"])
    /\ dir["time_db_tmp"] # NoFile => dir["time_db_tmp"] # diskDir["time_db"]
    /\ ~unsafe => \/ dir["time_db"] = diskDir["time_db"]
                  \/ Holds(dir, diskData)

LEMMA LifeKeepsTime ==
    ASSUME IInv, KInv,
           \/ Start \/ timesaver_init \/ term_handler \/ Killed \/ OpenFails
           \/ ClockChanges \/ UNCHANGED vars
    PROVE  KInv'
<1>1. UNCHANGED <<unsafe, fileVars>>
  BY DEF Start, timesaver_init, term_handler, Killed, OpenFails, ClockChanges, vars
<1>2. pc' \in {"written", "synced"} => pc' = pc /\ failing' = failing
  BY DEF Start, timesaver_init, term_handler, Killed, OpenFails, ClockChanges, vars
<1> QED
  BY <1>1, <1>2 DEF KInv, Full, Holds, fileVars

LEMMA SaveKeepsTime ==
    ASSUME EqualWidths, IInv, KInv,
           OpenTmp \/ WriteTmp \/ SyncTmp \/ RenameTmp \/ UnlinkTmp
    PROVE  KInv'
<1> DEFINE tmp == dir["time_db_tmp"]
<1>0. /\ dir["time_db"] # NoFile => dir["time_db"] \in Inodes
      /\ diskDir["time_db"] # NoFile => diskDir["time_db"] \in Inodes
  BY DEF IInv, TypeOK, Names
<1>1. CASE OpenTmp
  <2>1. pc' = "opened" /\ UNCHANGED <<diskDir, unsafe>>
    BY <1>1 DEF OpenTmp, fileVars
  <2>2. CASE UNCHANGED fileVars
    BY <2>1, <2>2 DEF KInv, Full, Holds, fileVars
  <2>3. CASE tmp = NoFile
    <3>1. PICK i \in Inodes :
            /\ \A n \in Names : i \notin {dir[n], diskDir[n]}
            /\ dir' = [dir EXCEPT !["time_db_tmp"] = i]
            /\ data' = [data EXCEPT ![i] = EmptyFile]
            /\ diskData' = [diskData EXCEPT ![i] = EmptyFile]
      BY <1>1, <2>3 DEF OpenTmp
    <3>2. i # dir["time_db"] /\ i # diskDir["time_db"]
      BY <3>1 DEF Names
    <3>3. dir'["time_db"] = dir["time_db"] /\ dir'["time_db_tmp"] = i
      BY <3>1 DEF IInv, TypeOK, Names
    <3>4. \A j \in Inodes : j # i => data'[j] = data[j] /\ diskData'[j] = diskData[j]
      BY <3>1 DEF IInv, TypeOK
    <3>5. data'[i] = EmptyFile /\ diskData'[i] = EmptyFile
      BY <3>1 DEF IInv, TypeOK
    <3> QED
      BY <1>0, <2>1, <3>2, <3>3, <3>4, <3>5 DEF KInv, Full, Holds
  <2> QED
    BY <1>1, <2>2, <2>3 DEF OpenTmp
<1>2. CASE WriteTmp
  <2>1. tmp \in Inodes /\ dir["time_db"] # tmp
    BY <1>2, TmpIsOpen DEF WriteTmp
  <2>2. data[tmp] \in Stamps(latest) /\ latest \in Times /\ clock \in Times
    BY <2>1 DEF IInv
  <2>3. WrittenOver(data[tmp], Printed(clock)) = Printed(clock)
    BY <2>2, WholeStamp
  <2>4. Printed(clock).digits > 0
    BY <2>2 DEF EqualWidths
  <2>5. pc' = "written" /\ UNCHANGED <<unsafe, dir, diskDir, diskData>>
    BY <1>2 DEF WriteTmp
  <2>6. CASE /\ data' = [data EXCEPT ![tmp] = WrittenOver(data[tmp], Printed(clock))]
             /\ UNCHANGED failing
    <3>1. Full(data', tmp) /\ \A j \in Inodes : j # tmp => data'[j] = data[j]
      BY <2>1, <2>3, <2>4, <2>6 DEF IInv, TypeOK, Full
    <3> QED
      BY <1>0, <2>1, <2>5, <3>1 DEF KInv, Full, Holds
  <2>7. CASE failing' = TRUE /\ UNCHANGED data
    BY <2>5, <2>7 DEF KInv, Full, Holds
  <2> QED
    BY <1>2, <2>6, <2>7 DEF WriteTmp
<1>3. CASE SyncTmp
  <2>1. tmp \in Inodes /\ dir["time_db"] # tmp
    BY <1>3, TmpIsOpen DEF SyncTmp
  <2>2. pc = "written" /\ pc' = "synced" /\ UNCHANGED <<unsafe, dir, data, diskDir>>
    BY <1>3 DEF SyncTmp
  <2>3. CASE diskData' = [diskData EXCEPT ![tmp] = data[tmp]] /\ UNCHANGED failing
    <3>1. /\ diskData'[tmp] = data[tmp]
          /\ \A j \in Inodes : j # tmp => diskData'[j] = diskData[j]
      BY <2>1, <2>3 DEF IInv, TypeOK
    <3> QED
      BY <1>0, <2>1, <2>2, <2>3, <3>1 DEF KInv, Full, Holds
  <2>4. CASE failing' = TRUE /\ UNCHANGED diskData
    BY <2>2, <2>4 DEF KInv, Full, Holds
  <2> QED
    BY <1>3, <2>3, <2>4 DEF SyncTmp
<1>4. CASE RenameTmp
  <2>1. tmp \in Inodes /\ tmp # NoFile
    BY <1>4, TmpIsOpen, InodesAssumption DEF RenameTmp
  <2>2. pc = "synced" /\ pc' = "renamed" /\ UNCHANGED <<data, diskDir, diskData>>
    BY <1>4 DEF RenameTmp
  <2>3. CASE /\ dir' = [time_db |-> tmp, time_db_tmp |-> NoFile]
             /\ unsafe' = failing
    <3>1. dir'["time_db"] = tmp /\ dir'["time_db_tmp"] = NoFile
      BY <2>3
    <3> QED
      BY <2>1, <2>2, <2>3, <3>1 DEF KInv, Full, Holds
  <2>4. CASE UNCHANGED <<dir, unsafe>>
    BY <2>2, <2>4 DEF KInv, Full, Holds
  <2> QED
    BY <1>4, <2>3, <2>4 DEF RenameTmp
<1>5. CASE UnlinkTmp
  <2>1. dir'["time_db_tmp"] = NoFile /\ dir'["time_db"] = dir["time_db"]
    BY <1>5 DEF UnlinkTmp, IInv, TypeOK, Names
  <2>2. pc' = "exited" /\ UNCHANGED <<unsafe, data, diskDir, diskData>>
    BY <1>5 DEF UnlinkTmp
  <2> QED
    BY <2>1, <2>2 DEF KInv, Full, Holds
<1> QED
  BY <1>1, <1>2, <1>3, <1>4, <1>5

LEMMA DiskKeepsTime ==
    ASSUME IInv, KInv,
           \/ WriteBackNames
           \/ \E i \in Inodes : WriteBackContent(i)
           \/ PowerCut
    PROVE  KInv'
<1>1. CASE WriteBackNames
  <2>1. diskDir' = dir /\ UNCHANGED <<pc, failing, unsafe, dir, data, diskData>>
    BY <1>1 DEF WriteBackNames
  <2>2. dir["time_db_tmp"] # NoFile => dir["time_db_tmp"] # dir["time_db"]
    BY DEF IInv, TypeOK, Names
  <2> QED
    BY <2>1, <2>2 DEF KInv, Full
<1>2. ASSUME NEW i \in Inodes, WriteBackContent(i)
      PROVE  KInv'
  <2>1. diskData' = [diskData EXCEPT ![i] = data[i]]
    BY <1>2 DEF WriteBackContent
  <2>2. UNCHANGED <<pc, failing, unsafe, dir, data, diskDir>>
    BY <1>2 DEF WriteBackContent
  <2>3. \A j \in Inodes : diskData'[j] = diskData[j] \/ diskData'[j] = data[j]
    BY <2>1 DEF IInv, TypeOK
  <2>4. dir["time_db"] # NoFile => dir["time_db"] \in Inodes
    BY DEF IInv, TypeOK, Names
  <2>5. pc = "synced" => dir["time_db_tmp"] \in Inodes
    BY TmpIsOpen
  <2> QED
    BY <2>2, <2>3, <2>4, <2>5 DEF KInv, Full, Holds
<1>3. CASE PowerCut
  <2>1. /\ pc' = "off" /\ dir' = diskDir /\ data' = diskData
        /\ UNCHANGED <<unsafe, diskDir, diskData>>
    BY <1>3 DEF PowerCut
  <2>2. diskDir["time_db_tmp"] # NoFile => diskDir["time_db_tmp"] # diskDir["time_db"]
    BY DEF IInv, TypeOK, Names, Distinct
  <2> QED
    BY <2>1, <2>2 DEF KInv, Full
<1> QED
  BY <1>1, <1>2, <1>3

\* What the disk holds under the name time_db, no step but a write-back of
\* names can change for the worse.
LEMMA DiskHolds ==
    ASSUME IInv, KInv, KInv', Next, ~unsafe', Holds(diskDir, diskData)
    PROVE  Holds(diskDir', diskData')
<1> DEFINE saved == diskDir["time_db"]
<1>0. saved \in Inodes /\ saved # NoFile /\ Full(diskData, saved)
  BY DEF IInv, TypeOK, Names, Holds, Full
<1>1. CASE WriteBackNames
  <2>1. diskDir' = dir /\ UNCHANGED <<unsafe, diskData>>
    BY <1>1 DEF WriteBackNames
  <2> QED
    BY <2>1 DEF KInv, Holds
<1>2. CASE OpenTmp
  <2>1. UNCHANGED diskDir /\ diskData'[saved] = diskData[saved]
    BY <1>0, <1>2 DEF OpenTmp, IInv, TypeOK, Names, fileVars
  <2> QED
    BY <2>1 DEF Holds
<1>3. CASE SyncTmp
  <2>1. dir["time_db_tmp"] \in Inodes /\ dir["time_db_tmp"] # saved
    BY <1>3, TmpIsOpen, InodesAssumption DEF SyncTmp, KInv
  <2>2. UNCHANGED diskDir /\ diskData'[saved] = diskData[saved]
    BY <1>0, <1>3, <2>1 DEF SyncTmp, IInv, TypeOK
  <2> QED
    BY <2>2 DEF Holds
<1>4. CASE \E i \in Inodes : WriteBackContent(i)
  <2>1. PICK i \in Inodes : WriteBackContent(i)
    BY <1>4
  <2>2. UNCHANGED diskDir /\ diskData'[saved] \in {diskData[saved], data[saved]}
    BY <1>0, <2>1 DEF WriteBackContent, IInv, TypeOK
  <2> QED
    BY <1>0, <2>2 DEF Holds, Full, KInv
<1>5. CASE UNCHANGED <<diskDir, diskData>>
  BY <1>5 DEF Holds
<1> QED
  BY <1>1, <1>2, <1>3, <1>4, <1>5
     DEF Next, Start, timesaver_init, term_handler, OpenFails, WriteTmp, RenameTmp,
         UnlinkTmp, ClockChanges, Killed, PowerCut, fileVars

\* A time that has reached the disk is followed there only by other times,
\* whatever interrupts the saves in between and whichever of their write() and
\* fsync() calls fail (timesaver.c.in:144-145 looks at neither), except while
\* the file last renamed into place is one whose calls had failed.
THEOREM TimeIsKept == ASSUME EqualWidths PROVE Spec => SavedTimeIsNotLost
<1>1. Init => KInv
  BY DEF Init, KInv, Names, Full, EmptyFile
<1>2. IInv /\ KInv /\ [Next]_vars => KInv'
  BY LifeKeepsTime, SaveKeepsTime, DiskKeepsTime DEF Next
<1>3. IInv /\ KInv /\ KInv' /\ [Next]_vars
        => [~unsafe' /\ Holds(diskDir, diskData) => Holds(diskDir', diskData')]_vars
  BY DiskHolds
<1> QED
  BY <1>1, <1>2, <1>3, Invariance, PTL DEF Spec, SavedTimeIsNotLost
================================================================================
