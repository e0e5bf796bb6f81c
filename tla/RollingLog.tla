----------------------------- MODULE RollingLog -----------------------------
(***************************************************************************)
(* The log files of xman_log.go: Log called by several goroutines, and the  *)
(* rotation of the file by size (SetRollingFile and its fileMonitor) or by  *)
(* day (SetRollingDaily, checked by whoever logs).                          *)
(*                                                                         *)
(* What happens under the mutex is one step.  A file is the set of the     *)
(* lines in it, numbered as they were logged; its size is their number.    *)
(***************************************************************************)
EXTENDS Naturals, FiniteSetsExt

CONSTANTS
    Loggers,        \* goroutines that call Log
    maxFileCount,   \* LogInfo.maxFileCount and maxFileSize, the latter in lines
    maxFileSize,
    MaxLines,       \* bounds on the lines logged, the days that pass
    MaxDays,
    MaxRestarts     \* and how often the program is started again

ASSUME SizesAssumption == maxFileCount \in Nat \ {0, 1} /\ maxFileSize \in Nat \ {0}
ASSUME BoundsAssumption == MaxLines \in Nat /\ MaxDays \in Nat \ {0} /\ MaxRestarts \in Nat

VARIABLES
    dailyRolling,   \* LogInfo.dailyRolling
    main,           \* the file being written
    old,            \* the files filename.1, filename.2, ... or filename.<day>
    open,           \* whether logfile is open, and not nil after a failure
    fileSuffix, fileDate, \* of logObj
    today,          \* the date
    at,             \* where each goroutine is
    lines,          \* how many lines have been logged
    restarts,       \* how often the program has been started again
    intact,         \* history: FALSE once a file operation failed
    since           \* history: the first line of the file that was being written
                    \* when a program last numbered its backups from another on

logVars == <<dailyRolling, main, old, open, fileSuffix, fileDate, today, at, lines, restarts,
             intact, since>>
files == <<main, old, open, intact>>

NoFile  == {0}      \* no line has this number
Monitor == "fileMonitor"
ASSUME MonitorAssumption == Monitor \notin Loggers

Backups == 1..Max({maxFileCount, MaxDays})

LogTypes ==
    /\ dailyRolling \in BOOLEAN
    /\ main \in SUBSET (0..MaxLines)
    /\ old \in [Backups -> SUBSET (0..MaxLines)]
    /\ open \in BOOLEAN /\ intact \in BOOLEAN
    /\ fileSuffix \in 0..maxFileCount
    /\ fileDate \in 1..MaxDays /\ today \in 1..MaxDays
    /\ at \in [Loggers \union {Monitor} -> {"out", "rolling", "writing", "ended"}]
    /\ lines \in 0..MaxLines /\ restarts \in 0..MaxRestarts
    /\ since \in 1..(MaxLines + 1)

All(place) == [p \in Loggers \union {Monitor} |-> place]

\* The test, as it is: it says that a file exists when Stat fails.
ifExistFile(name) == old[name] = NoFile

\* The loop of SetRollingFile: as long as ifExistFile, the suffix is that one.
StartSuffix == Max({0} \union {i \in 1..maxFileCount : \A j \in 1..i : ifExistFile(j)})

\* For the daily log the dated files may be there already, empty for us.
LogInit ==
    /\ dailyRolling \in BOOLEAN
    /\ main = {} /\ open = TRUE
    /\ old \in [Backups -> {NoFile, {}}]
    /\ ~ dailyRolling => \A n \in Backups : old[n] = NoFile
    /\ fileSuffix = IF dailyRolling THEN 0 ELSE StartSuffix
    /\ today = 1 /\ fileDate = 1
    /\ at = All("out")
    /\ lines = 0 /\ restarts = 0 /\ intact = TRUE /\ since = 1

-----------------------------------------------------------------------------
\* Waiting for more than fits.
MutIfMustRenameOver ==
    IF dailyRolling THEN today > fileDate
    ELSE main # NoFile /\ Cardinality(main) > maxFileSize

\* getFileSize is 0 for a file that is not there.
ifMustRename ==
    IF dailyRolling THEN today > fileDate
    ELSE main # NoFile /\ Cardinality(main) >= maxFileSize

\* os.Rename of the file to the given name, over whatever has it, and os.Create;
\* no error of theirs is looked at.  The goroutines are then at next, unless the
\* program ends between the two.
Replace(name, next) ==
    \E renamed, created, ends \in BOOLEAN :
    /\ renamed => main # NoFile
    /\ ends => renamed /\ ~ created
    /\ old' = IF renamed THEN [old EXCEPT ![name] = main] ELSE old
    /\ open' = created
    /\ main' = IF created THEN {} ELSE IF renamed THEN NoFile ELSE main
    /\ at' = IF ends THEN All("ended") ELSE next
    /\ intact' = (intact /\ renamed /\ (created \/ ends))

\* Counting from 0, as the remainder does.
MutNextSuffix(suffix) == (suffix + 1) % maxFileCount

nextSuffix(suffix) == (suffix % maxFileCount) + 1

coverNextOne(suffix, next) ==
    /\ fileSuffix' = nextSuffix(suffix)
    /\ Replace(nextSuffix(suffix), next)

\* Trusting the test that was made before the lock was taken.
MutRenameDaily(next) ==
    /\ IF ifExistFile(fileDate) THEN UNCHANGED <<files, fileDate>> /\ at' = next
       ELSE Replace(fileDate, next) /\ fileDate' = today
    /\ UNCHANGED fileSuffix

\* !ifExistFile(fn) && ifMustRename(), the second test, under the lock.
renameDaily(next) ==
    /\ IF ifExistFile(fileDate) \/ ~ ifMustRename THEN UNCHANGED <<files, fileDate>> /\ at' = next
       ELSE Replace(fileDate, next) /\ fileDate' = today
    /\ UNCHANGED fileSuffix

-----------------------------------------------------------------------------
\* Log: with daily rolling, fileCheck's first test is outside the lock.
Log(p) ==
    /\ at[p] = "out"
    /\ at' = [at EXCEPT ![p] = IF dailyRolling /\ ifMustRename THEN "rolling" ELSE "writing"]
    /\ UNCHANGED <<dailyRolling, files, fileSuffix, fileDate, today, lines, restarts, since>>

LogRolls(p) ==
    /\ at[p] = "rolling"
    /\ renameDaily([at EXCEPT ![p] = "writing"])
    /\ UNCHANGED <<dailyRolling, today, lines, restarts, since>>

\* lg.Output, whose error is dropped: a nil file takes no line.
LogWrites(p) ==
    /\ at[p] = "writing" /\ lines < MaxLines
    /\ lines' = lines + 1
    /\ main' = IF open THEN main \union {lines + 1} ELSE main
    /\ at' = [at EXCEPT ![p] = "out"]
    /\ UNCHANGED <<dailyRolling, old, open, intact, fileSuffix, fileDate, today, restarts, since>>

\* fileMonitor, which only SetRollingFile starts: test, then lock and rename.
MonitorChecks ==
    /\ ~ dailyRolling /\ at[Monitor] = "out" /\ ifMustRename
    /\ at' = [at EXCEPT ![Monitor] = "rolling"]
    /\ UNCHANGED <<dailyRolling, files, fileSuffix, fileDate, today, lines, restarts, since>>

MonitorRolls ==
    /\ at[Monitor] = "rolling"
    /\ coverNextOne(fileSuffix, [at EXCEPT ![Monitor] = "out"])
    /\ UNCHANGED <<dailyRolling, fileDate, today, lines, restarts, since>>

NextDay ==
    /\ dailyRolling /\ today < MaxDays
    /\ today' = today + 1
    /\ UNCHANGED <<dailyRolling, files, fileSuffix, fileDate, at, lines, restarts, since>>

\* The program ended, anywhere, and is started again, its backups numbered from
\* the given suffix on: another order, unless the next one is the one it was.
Restart(suffix) ==
    /\ restarts < MaxRestarts
    /\ restarts' = restarts + 1
    /\ fileDate' = today
    /\ since' = IF dailyRolling \/ nextSuffix(suffix) = nextSuffix(fileSuffix) THEN since
                ELSE Min((main \ NoFile) \union {lines + 1})
    /\ UNCHANGED <<dailyRolling, today, lines>>

\* SetRollingDaily, or SetRollingFile when the file is not full.
RestartOpens ==
    /\ Restart(StartSuffix)
    /\ dailyRolling \/ ~ ifMustRename
    /\ fileSuffix' = IF dailyRolling THEN 0 ELSE StartSuffix
    /\ open' \in BOOLEAN
    /\ main' = IF open' /\ main = NoFile THEN {} ELSE main
    /\ intact' = (intact /\ open')
    /\ at' = All("out")
    /\ UNCHANGED old

\* SetRollingFile when it is.
RestartRolls ==
    /\ Restart(StartSuffix)
    /\ ~ dailyRolling /\ ifMustRename
    /\ coverNextOne(StartSuffix, All("out"))

LogNext ==
    \/ \E p \in Loggers : Log(p) \/ LogRolls(p) \/ LogWrites(p)
    \/ MonitorChecks \/ MonitorRolls
    \/ NextDay
    \/ RestartOpens \/ RestartRolls

\* The monitor's ticker fires and its goroutine runs.
LogSpec == LogInit /\ [][LogNext]_logVars /\ WF_logVars(MonitorChecks \/ MonitorRolls)

-----------------------------------------------------------------------------
\* As long as no file operation failed, the files together hold, of the lines from
\* since on, an unbroken run up to the last one.  Only the oldest go, whoever logs
\* while a file is being replaced, and wherever the program ended.  A program that
\* is started over backups numbers its own from the first again, so what it finds
\* goes in any order: the promise is then about the file it goes on with.
KeepsTail == intact =>
    \E n \in since..(lines + 1) :
        {x \in UNION {main, UNION {old[i] : i \in Backups}} : x >= since} = n..lines

\* However many goroutines find that the day is over, the file of a day is
\* renamed once: the second would put the first lines of the next in its place.
OncePerDay == [][ dailyRolling /\ old' # old => fileDate' > fileDate ]_logVars

\* A file that is full is replaced, unless Rename or Create fails.
Full == main # NoFile /\ Cardinality(main) >= maxFileSize
FullIsReplaced == (~ dailyRolling /\ Full) ~> (~ Full \/ ~ intact)
=============================================================================
