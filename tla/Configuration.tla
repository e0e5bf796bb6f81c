--------------------------- MODULE Configuration ----------------------------
(***************************************************************************)
(* Configuration of config/xman_config.go: the sections, the list of their *)
(* names, the read-write lock and the file, used by several goroutines.    *)
(* What is in a section is the subject of module Section.  Regexes are     *)
(* valid ones, and Sections is asked for what there is.                    *)
(*                                                                         *)
(* The lock is Go's RWMutex: Lock first keeps new readers out, then waits  *)
(* for the readers that are in.  Whatever an operation does between Lock   *)
(* and Unlock without blocking is one step with the Unlock.                *)
(***************************************************************************)
EXTENDS Integers, Sequences, FiniteSets, GoSlice

CONSTANTS
    Procs,          \* goroutines that use the configuration
    Savers,         \* those that save it
    Names,          \* section names
    Regexes,        \* what Delete is called with: the sets of names they match
    Order,          \* the names read from the file, in order
    MaxSections,    \* bound: sections ever made
    MaxOps,         \* bound: operations of one goroutine
    FileFails,      \* may Rename and Create fail?
    FlushFails      \* may Flush fail?

ASSUME SaversAssumption  == Savers \subseteq Procs
ASSUME RegexesAssumption == Regexes \subseteq SUBSET Names
ASSUME OrderAssumption   == Order \in Seq(Names) /\ IsInjective(Order)
ASSUME MaxSectionsAssumption == MaxSections \in Nat /\ MaxSections >= Len(Order)
ASSUME MaxOpsAssumption == MaxOps \in Nat

None == "none"

VARIABLES
    sections,       \* name -> its sections, numbered as they are made; <<>> if none
    orderedSections,\* names in order
    fqn,            \* the name of each section, as they are made
    writer,         \* who holds Lock, or waits for the readers to leave, or None
    readers,        \* RLocks held, for each goroutine
    pc,             \* where each goroutine stands
    ops,            \* operations it has started
    left,           \* inner RLocks still to come, in String and PrintSection
    regex,          \* what its Delete is called with
    found,          \* the sections its Find returned
    panicked,       \* Delete went out of bounds
    content,        \* files by number: "empty", "whole", or "torn" by a failed Flush
    path, bak,      \* the files under filePath and filePath.bak, or 0
    handle,         \* the file a Save has open
    saved           \* what a Save returned: None, "ok", "failed"

data == <<sections, orderedSections, fqn, panicked>>
lock == <<writer, readers>>
local == <<left, regex, found>>
disk == <<content, path, bak, handle, saved>>
vars == <<data, lock, pc, ops, local, disk>>

\* The configuration as Read made it from the file it is to be saved to.
Init ==
    /\ sections = [n \in Names |-> IF n \in ToSet(Order)
                                   THEN <<CHOOSE i \in DOMAIN Order : Order[i] = n>>
                                   ELSE <<>>]
    /\ orderedSections = Order
    /\ fqn       = Order
    /\ panicked  = FALSE
    /\ writer    = None
    /\ readers   = [p \in Procs |-> 0]
    /\ pc        = [p \in Procs |-> "idle"]
    /\ ops       = [p \in Procs |-> 0]
    /\ left      = [p \in Procs |-> 0]
    /\ regex     = [p \in Procs |-> {}]
    /\ found     = [p \in Procs |-> {}]
    /\ content   = <<"whole">>
    /\ path      = 1
    /\ bak       = 0
    /\ handle    = [p \in Procs |-> 0]
    /\ saved     = [p \in Procs |-> None]

Places == {"idle", "look", "looking", "print", "outer", "inner", "find", "finding",
           "delete", "deleting", "set", "setting", "save", "saving", "collect",
           "collecting", "write", "writing", "flush"}

TypeOK ==
    /\ sections \in [Names -> Seq(1 .. MaxSections)]
    /\ orderedSections \in Seq(Names)
    /\ fqn \in Seq(Names) /\ Len(fqn) <= MaxSections
    /\ panicked \in BOOLEAN
    /\ writer \in Procs \union {None}
    /\ readers \in [Procs -> 0 .. 2]
    /\ pc \in [Procs -> Places]
    /\ ops \in [Procs -> 0 .. MaxOps]
    /\ left \in [Procs -> Nat]
    /\ regex \in [Procs -> SUBSET Names]
    /\ found \in [Procs -> SUBSET (1 .. MaxSections)]
    /\ content \in Seq({"empty", "whole", "torn"})
    /\ path \in 0 .. Len(content) /\ bak \in 0 .. Len(content)
    /\ handle \in [Procs -> 0 .. Len(content)]
    /\ saved \in [Procs -> {None, "ok", "failed"}]

-----------------------------------------------------------------------------
(* The lock.                                                               *)
Go(p, from, to) == pc[p] = from /\ pc' = [pc EXCEPT ![p] = to]

RLock(p) == writer = None /\ readers' = [readers EXCEPT ![p] = @ + 1] /\ UNCHANGED writer
\* Leaving without RUnlock.
MutRUnlock(p) == UNCHANGED <<readers, writer>>

RUnlock(p) == readers' = [readers EXCEPT ![p] = @ - 1] /\ UNCHANGED writer

\* Lock, first half; it is held once nobody reads.
Lock(p) == writer = None /\ writer' = p /\ UNCHANGED readers
Held(p) == writer = p /\ \A q \in Procs : readers[q] = 0
Unlock == writer' = None /\ UNCHANGED readers

-----------------------------------------------------------------------------
(* Starting an operation.                                                  *)
Starts(p) == {"look", "print", "set"}
    \union (IF Regexes = {} THEN {} ELSE {"find"})
    \union (IF p \in Savers THEN {"save"} ELSE {})

Begin(p) ==
    /\ pc[p] = "idle"
    /\ ops[p] < MaxOps
    /\ ops' = [ops EXCEPT ![p] = @ + 1]
    /\ \E to \in Starts(p) :
         /\ pc' = [pc EXCEPT ![p] = to]
         /\ IF to = "find" THEN \E r \in Regexes : regex' = [regex EXCEPT ![p] = r]
                           ELSE UNCHANGED regex
    /\ UNCHANGED <<data, lock, left, found, disk>>

\* Section, Sections, Find and StringValue by themselves: look and leave.
Look(p) ==
    /\ \/ Go(p, "look", "looking") /\ RLock(p)
       \/ Go(p, "looking", "idle") /\ RUnlock(p)
    /\ UNCHANGED <<data, ops, local, disk>>

\* PrintSection, and String for all names: Sections is called with the read lock held.
PrintSection(p) ==
    /\ \/ /\ Go(p, "print", "outer") /\ RLock(p)
          /\ \E n \in {1, Len(orderedSections)} : left' = [left EXCEPT ![p] = n]
       \/ /\ left[p] > 0 /\ Go(p, "outer", "inner") /\ RLock(p)
          /\ left' = [left EXCEPT ![p] = @ - 1]
       \/ Go(p, "inner", "outer") /\ RUnlock(p) /\ UNCHANGED left
       \/ left[p] = 0 /\ Go(p, "outer", "idle") /\ RUnlock(p) /\ UNCHANGED left
    /\ UNCHANGED <<data, ops, regex, found, disk>>

\* SetFilePath: the path a Save is given is its own argument.
SetFilePath(p) ==
    /\ \/ Go(p, "set", "setting") /\ Lock(p)
       \/ Go(p, "setting", "idle") /\ Held(p) /\ Unlock
    /\ UNCHANGED <<data, ops, local, disk>>

\* Nobody is reading or writing the sections.
Quiet == \A p \in Procs : /\ pc[p] \notin {"looking", "outer", "inner", "finding",
                                           "collecting", "writing"}
                          /\ ~ (pc[p] = "deleting" /\ Held(p))

\* NewSection takes no lock, so it is for its caller to see that it races with
\* nobody; it may come between the two halves of a Delete or of a Save.
NewSection(n) ==
    /\ Quiet
    /\ Len(fqn) < MaxSections
    /\ fqn' = Append(fqn, n)
    /\ sections' = [sections EXCEPT ![n] = Append(@, Len(fqn) + 1)]
    /\ orderedSections' = IF sections[n] = <<>> THEN Append(orderedSections, n)
                          ELSE orderedSections
    /\ UNCHANGED <<panicked, lock, pc, ops, local, disk>>

-----------------------------------------------------------------------------
(* Delete.                                                                 *)

\* Find, under the read lock, which is given back before ...
Find(p) ==
    /\ \/ Go(p, "find", "finding") /\ RLock(p) /\ UNCHANGED found
       \/ /\ Go(p, "finding", "delete") /\ RUnlock(p)
          /\ found' = [found EXCEPT ![p] = UNION {ToSet(sections[n]) : n \in regex[p]}]
    /\ UNCHANGED <<data, ops, left, regex, disk>>

\* Names of the sections found.
FoundNames(p) == {fqn[i] : i \in found[p]}

\* Deleting from the map alone.
MutDeleteFound(p) ==
    /\ pc[p] = "deleting"
    /\ Held(p)
    /\ sections' = [n \in Names |-> IF n \in FoundNames(p) THEN <<>> ELSE sections[n]]
    /\ UNCHANGED <<orderedSections, panicked>>

\* ... the write lock is taken for the map and the list; the map by the names
\* of what was found, the list by the regex.
DeleteFound(p) ==
    /\ pc[p] = "deleting"
    /\ Held(p)
    /\ sections' = [n \in Names |-> IF n \in FoundNames(p) THEN <<>> ELSE sections[n]]
    /\ orderedSections' = RangeDelete(orderedSections, regex[p]).slice
    /\ panicked' = RangeDelete(orderedSections, regex[p]).panic

Delete(p) ==
    /\ \/ Go(p, "delete", "deleting") /\ Lock(p) /\ UNCHANGED <<data, found>>
       \/ /\ DeleteFound(p)
          /\ Go(p, "deleting", "idle") /\ Unlock
          /\ found' = [found EXCEPT ![p] = {}]
          /\ UNCHANGED fqn
    /\ UNCHANGED <<ops, left, regex, disk>>

-----------------------------------------------------------------------------
(* Save.                                                                   *)

\* Keeping no copy of what was there.
MutBackup == path' = Len(content') /\ bak' = bak

\* Rename, then Create.
Backup == path' = Len(content') /\ bak' = IF path = 0 THEN bak ELSE path

\* If Rename fails, or Create after it, Save returns with the lock held.
Open(p) ==
    /\ Held(p)
    /\ \/ /\ Go(p, "saving", "collect") /\ Unlock
          /\ content' = Append(content, "empty")
          /\ Backup
          /\ handle' = [handle EXCEPT ![p] = Len(content')]
          /\ UNCHANGED saved
       \/ /\ FileFails /\ Go(p, "saving", "idle") /\ UNCHANGED lock
          /\ \/ UNCHANGED <<path, bak>>
             \/ path' = 0 /\ bak' = IF path = 0 THEN bak ELSE path
          /\ saved' = [saved EXCEPT ![p] = "failed"]
          /\ UNCHANGED <<content, handle>>

\* The deferred Flush and Close, after the deferred Unlock: the error of Close,
\* nil, takes the place of that of Flush.
Flush(p) ==
    /\ Go(p, "flush", "idle")
    /\ \/ content' = [content EXCEPT ![handle[p]] = "whole"]
       \/ FlushFails /\ content' = [content EXCEPT ![handle[p]] = "torn"]
    /\ saved' = [saved EXCEPT ![p] = "ok"]
    /\ handle' = [handle EXCEPT ![p] = 0]

Save(p) ==
    /\ \/ Go(p, "save", "saving") /\ Lock(p) /\ UNCHANGED disk
       \/ Open(p)
       \/ Go(p, "collect", "collecting") /\ RLock(p) /\ UNCHANGED disk
       \/ Go(p, "collecting", "write") /\ RUnlock(p) /\ UNCHANGED disk
       \/ Go(p, "write", "writing") /\ Lock(p) /\ UNCHANGED disk
       \/ Go(p, "writing", "flush") /\ Held(p) /\ Unlock /\ UNCHANGED disk
       \/ Flush(p) /\ UNCHANGED <<lock, path, bak>>
    /\ UNCHANGED <<data, ops, local>>

-----------------------------------------------------------------------------
Operation(p) == Look(p) \/ PrintSection(p) \/ SetFilePath(p) \/ Find(p) \/ Delete(p) \/ Save(p)

\* A panic ends the program.
Next ==
    /\ ~ panicked
    /\ \/ \E p \in Procs : Begin(p) \/ Operation(p)
       \/ \E n \in Names : NewSection(n)

Fairness == \A p \in Procs : WF_vars(~ panicked /\ Operation(p))

SafeSpec == Init /\ [][Next]_vars
Spec == SafeSpec /\ Fairness

-----------------------------------------------------------------------------
(* What holds.                                                             *)

\* No regex matches n together with another name.
MatchedAlone(n) == \A r \in Regexes : n \in r => r = {n}

\* A name that is listed, if every regex that matches it matches it alone, is that
\* of a section and is listed once, however Delete, NewSection and Save interleave.
OrderIsReal == \A n \in ToSet(orderedSections) : MatchedAlone(n) =>
    /\ sections[n] # <<>>
    /\ \A i, j \in DOMAIN orderedSections :
          orderedSections[i] = n /\ orderedSections[j] = n => i = j

\* Whatever the regex of a Delete matches, and whatever came between its two
\* halves: the loop loses no name that the regex does not match and leaves their
\* order, and it goes out of bounds exactly when the regex matches the last name
\* of the list and one before it.
DeleteKeepsNames == [][ \A p \in Procs : DeleteFound(p) =>
    /\ Others(orderedSections', regex[p]) = Others(orderedSections, regex[p])
    /\ panicked' <=> Overruns(orderedSections, regex[p]) ]_vars

\* As long as one goroutine saves and no Flush has failed: should the program
\* die at any point of a Save, or Rename or Create fail, the file or its backup
\* holds a configuration.
SomeCopy == "torn" \notin ToSet(content) =>
    \E i \in {path, bak} \ {0} : content[i] = "whole"

\* A Save that failed has kept the lock.
Leaked == \E p \in Procs :
    writer = p /\ pc[p] \notin {"setting", "deleting", "saving", "writing"}

\* A String or PrintSection holds the read lock and is to take it again, behind
\* a writer who waits for it to leave.
Crossed == \E p \in Procs : writer # None /\ pc[p] = "outer" /\ left[p] > 0

\* Every operation returns, unless the lock has been leaked or crossed, or a Delete
\* has ended the program.
Finishes == \A p \in Procs :
    (pc[p] # "idle") ~> (pc[p] = "idle" \/ Leaked \/ Crossed \/ panicked)
=============================================================================
