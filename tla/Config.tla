------------------------------- MODULE Config -------------------------------
(***************************************************************************)
(* jar::Config (core/src/Config.cpp): values read from the JSON files of   *)
(* one directory, of which a later file overrides an earlier one key by    *)
(* key.                                                                    *)
(*                                                                         *)
(* load() lists and sorts the directory and then reads the files one by    *)
(* one; whoever edits the directory may do so in between.  A file that     *)
(* cannot be parsed ends the call with an exception, a file that cannot    *)
(* be opened any more is skipped, and nothing is ever removed from the     *)
(* values.  nlohmann::json is external: a parsed and flattened file gives  *)
(* some of the keys a JSON value.                                          *)
(***************************************************************************)
EXTENDS Integers

CONSTANTS
    Files,      \* files the directory may hold: [stem, json, path], see below
    JarEnv,     \* JAR_ENV, the name of the environment, or Unset
    Keys,       \* flattened keys
    Contents,   \* what parsed files hold: functions from Keys
    Disks,      \* what the directory may hold when the process starts
    Width,      \* the width of std::int64_t in bits
    MaxEdits,   \* bound: how often somebody edits a file
    Unset,      \* not there: a variable, a key of a file, a value
    Absent,     \* not there: a file
    Malformed   \* a file that does not parse
    \* The stem of a file is the sequence of the words of its name, path its
    \* place in the order of paths, json whether ".json" is its extension.

\* A path names one file, and so do a stem and an extension in one directory.
ASSUME FilesAssumption ==
    /\ \A f \in Files : f.path \in Nat
    /\ \A f, g \in Files : f.path = g.path => f = g
    /\ \A f, g \in Files : f.json /\ g.json /\ f.stem = g.stem => f = g
ASSUME WidthAssumption == Width \in Nat \ {0}
ASSUME DisksAssumption == Disks \subseteq [Files -> Contents \cup {Absent, Malformed}]

VARIABLES
    values,   \* _values: what each key holds, and the file it is from
    todo,     \* the files that the load() under way has not yet come to
    dir,      \* what getConfigDir() comes to: "found", "none" or "missing"
    disk,     \* the directory
    edits,    \* how many edits there were
    read      \* history: what the last load() found in the files it has read

configVars == <<values, todo, dir, disk, edits, read>>

-----------------------------------------------------------------------------
(* The order of the files.                                                 *)

getConfigEnv == IF JarEnv = Unset THEN "development" ELSE JarEnv

order == << <<"default">>, <<getConfigEnv>>, <<"local">>, <<"local", getConfigEnv>> >>

\* std::ranges::find in the order list, 5 being its end.
Position(f) ==
    IF \E i \in 1..4 : order[i] = f.stem
    THEN CHOOSE i \in 1..4 : order[i] = f.stem /\ \A j \in 1..(i - 1) : order[j] # f.stem
    ELSE 5

comparatorOfPaths(f, g) == f.path < g.path  \* mutant: the order list is not used

\* f comes before g.
comparator(f, g) ==
    IF Position(f) = 5 /\ Position(g) = 5 THEN f.path < g.path
    ELSE IF Position(f) = 5 THEN FALSE
    ELSE IF Position(g) = 5 THEN TRUE
    ELSE Position(f) < Position(g)

-----------------------------------------------------------------------------
(* Values.                                                                 *)

\* get<std::int64_t>() of a JSON number: an unsigned one beyond the range of
\* the type wraps around.
Int64(n) == IF n < 2^(Width - 1) THEN n ELSE n - 2^Width

normalizeNarrow(v) ==  \* mutant: numbers are read into a type of half the width
    [type |-> IF v.type \in {"integer", "unsigned"} THEN "int64" ELSE v.type, n |-> v.n % 2^(Width \div 2)]

\* is_number_integer() is true of unsigned numbers too, so the branch for
\* std::uint64_t is never taken.
normalizeConfigValue(v) ==
    IF v.type \in {"integer", "unsigned"}
    THEN [type |-> "int64", n |-> Int64(v.n)]
    ELSE v

Defines(content, k) == content \notin {Absent, Malformed, Unset} /\ content[k] # Unset

\* Unset is none of the values that files give to keys.
ASSUME UnsetAssumption ==
    \A f \in Files, c \in Contents, k \in Keys :
        c[k] # Unset => [from |-> f, v |-> normalizeConfigValue(c[k])] # Unset

\* What the public functions make of a key.
has(k) == values[k] # Unset
pick(T, k) == IF has(k) /\ values[k].v.type = T THEN values[k].v.n ELSE Unset

-----------------------------------------------------------------------------
(* load()                                                                  *)

\* An exception of getConfigDir(): the directory was named and is not there.
loadThrows ==
    /\ dir = "missing"
    /\ UNCHANGED configVars

\* The regular files of the directory; sorting them is left to Turn below.
getAllFiles == {f \in Files : disk[f] # Absent}

\* The directory is listed.  Without one there is nothing to do.
loadBegin ==
    /\ dir # "missing"
    /\ todo' = IF dir = "found" THEN getAllFiles ELSE {}
    /\ read' = [f \in Files |-> Unset]
    /\ UNCHANGED <<values, dir, disk, edits>>

\* f is the next file in the list; files the comparator does not tell apart
\* are in any order.
Turn(f) == f \in todo /\ \A g \in todo : ~comparator(g, f)

\* A file that does not parse; and one without any key, whose flattened form
\* is one null under the empty key, of which normalizeConfigKey() has no
\* first character to drop.
Fails(f) == f.json /\ disk[f] # Absent /\ \A k \in Keys : ~Defines(disk[f], k)

loadConfigFileStops(f) ==  \* mutant: load() ends at a file that is not JSON
    /\ Turn(f) /\ ~Fails(f)
    /\ IF f.json
       THEN /\ todo' = todo \ {f}
            /\ values' = [k \in Keys |-> IF Defines(disk[f], k)
                  THEN [from |-> f, v |-> normalizeConfigValue(disk[f][k])] ELSE values[k]]
            /\ read' = [read EXCEPT ![f] = disk[f]]
       ELSE todo' = {} /\ UNCHANGED <<values, read>>
    /\ UNCHANGED <<dir, disk, edits>>

\* loadConfigFile() of a file that can be read, is gone, or is not JSON.
loadConfigFile(f) ==
    /\ Turn(f)
    /\ ~Fails(f)
    /\ todo' = todo \ {f}
    /\ IF f.json
       THEN /\ values' = [k \in Keys |-> IF Defines(disk[f], k)
                  THEN [from |-> f, v |-> normalizeConfigValue(disk[f][k])] ELSE values[k]]
            /\ read' = [read EXCEPT ![f] = disk[f]]
       ELSE UNCHANGED <<values, read>>
    /\ UNCHANGED <<dir, disk, edits>>

\* The exception leaves load(): what the files before it have set stays.
loadFails(f) ==
    /\ Turn(f)
    /\ Fails(f)
    /\ todo' = {}
    /\ UNCHANGED <<values, dir, disk, edits, read>>

\* Somebody writes or removes a file.
edit(f, content) ==
    /\ dir = "found"
    /\ edits < MaxEdits
    /\ content # disk[f]
    /\ disk' = [disk EXCEPT ![f] = content]
    /\ edits' = edits + 1
    /\ UNCHANGED <<values, todo, dir, read>>

ConfigInit ==
    /\ values = [k \in Keys |-> Unset]
    /\ todo = {}
    /\ disk \in Disks
    /\ dir \in IF disk = [f \in Files |-> Absent] THEN {"found", "none", "missing"} ELSE {"found"}
    /\ edits = 0
    /\ read = [f \in Files |-> Unset]

-----------------------------------------------------------------------------
(* Properties.                                                             *)

\* The order in which the comments of getAllFiles() want the files: those of
\* the list first and by their place in it, then the others by name.
Overrides(g, f) ==
    \/ Position(f) < Position(g)
    \/ Position(f) = 5 /\ Position(g) = 5 /\ f.path < g.path

\* At every moment, and so also when a load has failed half way, a key that
\* some file read so far defines has the value of the last such file in the
\* order, whatever order the directory is in, whoever edits it meanwhile, and
\* whatever earlier loads have left behind.
LastFileWins ==
    \A k \in Keys, f \in Files :
        Defines(read[f], k) /\ (\A g \in Files : Defines(read[g], k) => ~Overrides(g, f))
        => values[k] # Unset /\ values[k].from = f

\* A number that fits into std::int64_t reaches the caller of
\* pick<std::int64_t>() as the file has it, though it was written unsigned.
NumbersAreKept ==
    \A k \in Keys :
        has(k) /\ Defines(read[values[k].from], k) =>
            LET v == read[values[k].from][k]
            IN  v.type \in {"integer", "unsigned"} /\ v.n < 2^(Width - 1) => pick("int64", k) = v.n
=============================================================================
