------------------------------ MODULE Section -------------------------------
(***************************************************************************)
(* A Section of a configuration file (config/xman_config.go): its options  *)
(* and the list that keeps their order, from the file it is read from      *)
(* through the operations of the API to the text it is saved as, and that  *)
(* text as it is read again.  Each operation holds the section's own mutex *)
(* from start to end, so it is one step.  Names, values and lines are      *)
(* words, sequences of characters, none of them an end of line.            *)
(***************************************************************************)
EXTENDS Integers, Sequences, FiniteSets, GoSlice

CONSTANTS
    Chars,          \* the characters
    Opts,           \* names that Add, SetValueFor and Delete are called with
    Values,         \* values they are called with
    Files           \* the files the section may be read from: sequences of lines

Words == Seq(Chars)
Empty == <<>>

\* A line of the section: no comment, no section's name, not empty.
IsOption(line) == line # <<>> /\ line[1] \notin {"#", ";", "["}
IsSection(line) == line # <<>> /\ line[1] = "["

ASSUME CharsAssumption == {"=", ":", " ", "#", ";", "["} \subseteq Chars
ASSUME WordsAssumption == Opts \subseteq Words /\ Values \subseteq Words
ASSUME FilesAssumption == \A f \in Files : /\ f \in Seq(Words)
                                           /\ \A i \in DOMAIN f : IsOption(f[i])

VARIABLES
    file,           \* the lines it was read from
    options,        \* a function from some option names to values
    orderedOptions, \* the names, in the order of the file
    crashed        \* Delete went out of bounds

sectionVars == <<file, options, orderedOptions, crashed>>

-----------------------------------------------------------------------------
(* Reading.                                                                *)

\* strings.Index for one character, from 1; 0 if there is none.
Has(word, ch) == \E i \in DOMAIN word : word[i] = ch
Index(word, ch) ==
    IF Has(word, ch) THEN CHOOSE i \in DOMAIN word : word[i] = ch /\ \A j \in 1 .. i - 1 : word[j] # ch
    ELSE 0

\* strings.Trim for blanks.
Solid(word) == {i \in DOMAIN word : word[i] # " "}
Trim(word) == IF Solid(word) = {} THEN Empty
              ELSE SubSeq(word, Min(Solid(word)), Max(Solid(word)))

\* Split at the first '=', without one at the first ':', else a name alone, which
\* is not trimmed.
parseOption(line) ==
    LET i == IF Has(line, "=") THEN Index(line, "=") ELSE Index(line, ":")
    IN  IF i = 0 THEN [opt |-> line, value |-> Empty]
        ELSE [opt |-> Trim(SubSeq(line, 1, i - 1)), value |-> Trim(SubSeq(line, i + 1, Len(line)))]

\* The lines that Read gives to addOption for this section: up to the next one.
OwnPlaces(lines) == {i \in DOMAIN lines : /\ IsOption(lines[i])
                                          /\ \A j \in 1 .. i : ~ IsSection(lines[j])}

NameAt(lines, i) == parseOption(lines[i]).opt

\* addOption, for each of them: the last value wins.
ReadOptions(lines) ==
    LET own == OwnPlaces(lines)
    IN  [o \in {NameAt(lines, i) : i \in own} |->
            parseOption(lines[CHOOSE i \in own : /\ NameAt(lines, i) = o
                                                 /\ \A j \in own : j > i => NameAt(lines, j) # o]).value]

\* Every occurrence is listed.
ReadOrder(lines) == [i \in DOMAIN lines |-> NameAt(lines, i)]

SectionInit ==
    /\ file \in Files
    /\ options = ReadOptions(file)
    /\ orderedOptions = ReadOrder(file)
    /\ crashed = FALSE

-----------------------------------------------------------------------------
With(o, v) == [n \in DOMAIN options \union {o} |-> IF n = o THEN v ELSE options[n]]

\* SetValueFor: the order list is not touched.
SetValueFor(o, v) ==
    /\ ~ crashed
    /\ options' = With(o, v)
    /\ UNCHANGED <<file, orderedOptions, crashed>>

\* Add: an option that is new is listed at the end.
Add(o, v) ==
    /\ ~ crashed
    /\ options' = With(o, v)
    /\ orderedOptions' = IF o \in DOMAIN options THEN orderedOptions
                         ELSE Append(orderedOptions, o)
    /\ UNCHANGED <<file, crashed>>

\* Deleting the value and not the name.
MutDeleteListed(o) ==
    /\ ~ crashed
    /\ options' = [n \in DOMAIN options \ {o} |-> options[n]]
    /\ UNCHANGED <<file, orderedOptions, crashed>>

\* Delete: out of the map, then out of the list while ranging over it.
DeleteOption(o) ==
    /\ ~ crashed
    /\ options' = [n \in DOMAIN options \ {o} |-> options[n]]
    /\ orderedOptions' = RangeDelete(orderedOptions, {o}).slice
    /\ crashed' = RangeDelete(orderedOptions, {o}).panic
    /\ UNCHANGED file

SectionNext == \E o \in Opts :
    \/ DeleteOption(o)
    \/ \E v \in Values : SetValueFor(o, v) \/ Add(o, v)

SectionSpec == SectionInit /\ [][SectionNext]_sectionVars

-----------------------------------------------------------------------------
(* Writing.                                                                *)

\* Go's look-up in a map.
ValueOf(o) == IF o \in DOMAIN options THEN options[o] ELSE Empty

Line(o, v) == IF v # Empty THEN o \o <<"=">> \o v ELSE o

\* String: the lines of the section, in order, after its own name.
Text == [i \in DOMAIN orderedOptions |-> Line(orderedOptions[i], ValueOf(orderedOptions[i]))]

\* A line without blanks at its ends, of which no character but the separator is
\* taken for one, or for a comment or a section.
Plain(o, v) ==
    /\ o # Empty => o[1] \notin {"#", ";", "["}
    /\ ~ Has(o, "=")
    /\ IF v = Empty THEN o # Empty /\ ~ Has(o, ":")
       ELSE Trim(o) = o /\ Trim(v) = v

PlacesOf(seq, o) == {i \in DOMAIN seq : seq[i] = o}

\* As long as all options are plain, the text has the options that are listed, and
\* one that the file did not repeat is listed once at most, and only as long as the
\* section has it: saved and read back, it has the value it has in the section.
TextIsTrue ==
    (\A i \in DOMAIN orderedOptions : Plain(orderedOptions[i], ValueOf(orderedOptions[i]))) =>
        /\ DOMAIN ReadOptions(Text) = ToSet(orderedOptions)
        /\ \A o \in ToSet(orderedOptions) : Cardinality(PlacesOf(ReadOrder(file), o)) <= 1 =>
              /\ Cardinality(PlacesOf(orderedOptions, o)) <= 1
              /\ o \in DOMAIN options /\ ReadOptions(Text)[o] = options[o]

\* However often options are repeated, the loop of Delete loses no other option
\* and leaves their order; it goes out of bounds exactly for an option that is
\* listed last and before.
DeleteKeepsOthers == [][ \A o \in Opts : DeleteOption(o) =>
    /\ Others(orderedOptions', {o}) = Others(orderedOptions, {o})
    /\ crashed' <=> Overruns(orderedOptions, {o}) ]_sectionVars
=============================================================================
